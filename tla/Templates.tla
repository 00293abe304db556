----------------------------- MODULE Templates -----------------------------
(***************************************************************************)
(* Templates, their versions and the workspaces made from them             *)
(* (coderd/templates.go, templateversions.go, parameters.go and the part   *)
(* of workspaces.go and workspacebuilds.go that picks a version).          *)
(*                                                                         *)
(* A handler looks at rows that the middleware or an earlier query has     *)
(* read and writes later; its transaction, where it has one, holds the     *)
(* writes.  A handler whose look cannot become stale is one action.        *)
(***************************************************************************)
EXTENDS Naturals, FiniteSets

CONSTANTS
    Names,           \* of templates and of workspaces
    Requests,
    MaxTemplates,
    MaxVersions,     \* bounds the template versions, each with its import job
    MaxDryRuns,
    MaxWorkspaces,
    MaxCalls         \* bounds the requests served

TemplateIDs == 1 .. MaxTemplates
VersionIDs == 1 .. MaxVersions
DryRunIDs == MaxVersions + 1 .. MaxVersions + MaxDryRuns
JobIDs == VersionIDs \cup DryRunIDs      \* version v has import job v
WorkspaceIDs == 1 .. MaxWorkspaces
None == 0

VARIABLES
    template,     \* templates
    version,      \* template_versions
    job,          \* provisioner_jobs: imports and dry runs
    dryRun,       \* the version each dry run is of
    values,       \* parameter_values of one name: <<scope, scope id>>
    workspace,    \* workspaces and the version of their last build
    req,
    calls

vars == <<template, version, job, dryRun, values, workspace, req, calls>>
rows == <<template, version, job, dryRun, values, workspace>>

NoJob == [there |-> FALSE, worker |-> FALSE, canceled |-> FALSE, completed |-> FALSE, failed |-> FALSE]
NewJob == [NoJob EXCEPT !.there = TRUE]
Idle == [op |-> "idle", id |-> None, version |-> None, name |-> "none", worker |-> FALSE]

Scopes == ({"template"} \X (TemplateIDs \cup {None})) \cup ({"import_job"} \X VersionIDs)

TypeOK ==
    /\ \A t \in TemplateIDs : template[t].state \in {"none", "live", "deleted"}
    /\ \A v \in VersionIDs : version[v].template \in TemplateIDs \cup {None}
    /\ \A j \in JobIDs : job[j] \in [there : BOOLEAN, worker : BOOLEAN, canceled : BOOLEAN, completed : BOOLEAN, failed : BOOLEAN]
    /\ values \subseteq Scopes
    /\ \A w \in WorkspaceIDs : workspace[w].state # "none" => workspace[w].version \in VersionIDs

Init ==
    /\ template = [t \in TemplateIDs |-> [state |-> "none", name |-> "none", active |-> None]]
    /\ version = [v \in VersionIDs |-> [there |-> FALSE, template |-> None]]
    /\ job = [j \in JobIDs |-> NoJob]
    /\ dryRun = [d \in DryRunIDs |-> None]
    /\ values = {}
    /\ workspace = [w \in WorkspaceIDs |-> [state |-> "none", name |-> "none", template |-> None, version |-> None]]
    /\ req = [r \in Requests |-> Idle]
    /\ calls = 0

----------------------------------------------------------------------------
Live == {t \in TemplateIDs : template[t].state = "live"}
Known == {t \in TemplateIDs : template[t].state # "none"}
Fresh(ids, used) == IF ids \ used = {} THEN {} ELSE {CHOOSE i \in ids \ used : \A k \in ids \ used : i <= k}
NewTemplate == Fresh(TemplateIDs, Known)
NewVersion == Fresh(VersionIDs, {v \in VersionIDs : version[v].there})
NewDryRun == Fresh(DryRunIDs, {d \in DryRunIDs : job[d].there})
NewWorkspace == Fresh(WorkspaceIDs, {w \in WorkspaceIDs : workspace[w].state # "none"})

\* convertProvisionerJob, for a job whose daemon is heard of.
Status(j) ==
    CASE j.canceled /\ ~j.completed -> "canceling"
      [] j.canceled /\ j.completed  -> IF j.failed THEN "failed" ELSE "canceled"
      [] ~j.canceled /\ ~j.worker   -> "pending"
      [] ~j.canceled /\ j.worker /\ ~j.completed -> "running"
      [] ~j.canceled /\ j.worker /\ j.completed  -> IF j.failed THEN "failed" ELSE "succeeded"

\* A request arrives.
Call == calls < MaxCalls /\ calls' = calls + 1
Begin(r, q) == Call /\ req[r] = Idle /\ req' = [req EXCEPT ![r] = q] /\ UNCHANGED rows
End(r) == req' = [req EXCEPT ![r] = Idle] /\ UNCHANGED calls
Refused(r) == End(r) /\ UNCHANGED rows

----------------------------------------------------------------------------
(* Templates.                                                              *)

\* Mutant of NameFree: handlers alone keep the names apart.
NameFreeAnyway(t, n) == TRUE

\* templates_organization_id_name_idx, for row t.
NameFree(t, n) == \A u \in Live \ {t} : template[u].name # n

\* postTemplateByOrganization: the name is free, the version exists; whether that has
\* a template already, or is imported, does not matter.
CheckTemplate(r, n, v) ==
    /\ \A t \in Live : template[t].name # n
    /\ version[v].there
    /\ Begin(r, [Idle EXCEPT !.op = "post template", !.name = n, !.version = v])

\* Its transaction: the template, the version moved to it, and a parameter value whose
\* scope id is that of a template which is not filled in yet.
postTemplateByOrganization(r) ==
    /\ req[r].op = "post template"
    /\ \E valued \in BOOLEAN, t \in NewTemplate :
        IF NameFree(t, req[r].name) /\ (valued => <<"template", None>> \notin values)
        THEN /\ template' = [template EXCEPT ![t] = [state |-> "live", name |-> req[r].name, active |-> req[r].version]]
             /\ version' = [version EXCEPT ![req[r].version].template = t]
             /\ values' = IF valued THEN values \cup {<<"template", None>>} ELSE values
             /\ End(r)
             /\ UNCHANGED <<job, dryRun, workspace>>
        ELSE Refused(r)

\* deleteTemplate: no workspace of it is left ...
CheckUnused(r, t) ==
    /\ t \in Known
    /\ \A w \in WorkspaceIDs : workspace[w].state = "live" => workspace[w].template # t
    /\ Begin(r, [Idle EXCEPT !.op = "delete template", !.id = t])

deleteTemplate(r) ==
    /\ req[r].op = "delete template"
    /\ template' = [template EXCEPT ![req[r].id].state = "deleted"]
    /\ End(r)
    /\ UNCHANGED <<version, job, dryRun, values, workspace>>

\* patchTemplateMeta: the row was read by the middleware; what the request leaves out,
\* the name for example, is written back as it was read.
ReadMeta(r, t, n) ==
    /\ t \in Known
    /\ Begin(r, [Idle EXCEPT !.op = "meta", !.id = t, !.name = n])

patchTemplateMeta(r) ==
    /\ req[r].op = "meta"
    /\ LET t == req[r].id IN
       IF t \in Live => NameFree(t, req[r].name)
       THEN /\ template' = [template EXCEPT ![t].name = req[r].name]
            /\ End(r)
            /\ UNCHANGED <<version, job, dryRun, values, workspace>>
       ELSE Refused(r)

\* Mutant of Belongs: any version will do.
BelongsAnyway(v, t) == version[v].there

\* "The provided template version doesn't belong to the specified template."
Belongs(v, t) == version[v].template = t

CheckActive(r, t, v) ==
    /\ t \in Known
    /\ Belongs(v, t)
    /\ Begin(r, [Idle EXCEPT !.op = "active", !.id = t, !.version = v])

patchActiveTemplateVersion(r) ==
    /\ req[r].op = "active"
    /\ template' = [template EXCEPT ![req[r].id].active = req[r].version]
    /\ End(r)
    /\ UNCHANGED <<version, job, dryRun, values, workspace>>

----------------------------------------------------------------------------
(* Versions, their jobs and parameter values.                              *)

\* postTemplateVersionsByOrganization: values are given, or cloned from a version of
\* the same template; the version may have no template yet.
postTemplateVersionsByOrganization(t) ==
    /\ Call
    /\ t \in Known \cup {None}
    /\ \E v \in NewVersion, valued \in BOOLEAN, cloned \in BOOLEAN :
        /\ cloned => /\ t # None
                     /\ \E u \in VersionIDs : version[u].template = t /\ <<"import_job", u>> \in values
        /\ version' = [version EXCEPT ![v] = [there |-> TRUE, template |-> t]]
        /\ job' = [job EXCEPT ![v] = NewJob]
        /\ values' = IF valued \/ cloned THEN values \cup {<<"import_job", v>>} ELSE values
    /\ UNCHANGED <<template, dryRun, workspace, req>>

\* autoImportTemplate: the template, its version and the import job at once.
autoImportTemplate(n) ==
    /\ Call
    /\ \E t \in NewTemplate, v \in NewVersion :
        /\ NameFree(t, n)
        /\ template' = [template EXCEPT ![t] = [state |-> "live", name |-> n, active |-> v]]
        /\ version' = [version EXCEPT ![v] = [there |-> TRUE, template |-> t]]
        /\ job' = [job EXCEPT ![v] = NewJob]
    /\ UNCHANGED <<dryRun, values, workspace, req>>

\* postTemplateVersionDryRun: the import has ended, well or not.
postTemplateVersionDryRun(v) ==
    /\ Call
    /\ version[v].there /\ job[v].completed
    /\ \E d \in NewDryRun :
        /\ job' = [job EXCEPT ![d] = NewJob]
        /\ dryRun' = [dryRun EXCEPT ![d] = v]
    /\ UNCHANGED <<template, version, values, workspace, req>>

\* patchCancelTemplateVersion and patchTemplateVersionDryRunCancel up to their update.
CheckCancel(r, j) ==
    /\ job[j].there /\ ~job[j].completed /\ ~job[j].canceled
    /\ Begin(r, [Idle EXCEPT !.op = "cancel", !.id = j, !.worker = job[j].worker])

\* completed_at is written, too: null if there was a worker.
patchCancelTemplateVersion(r) ==
    /\ req[r].op = "cancel"
    /\ job' = [job EXCEPT ![req[r].id].canceled = TRUE, ![req[r].id].completed = ~req[r].worker]
    /\ End(r)
    /\ UNCHANGED <<template, version, dryRun, values, workspace>>

\* AcquireProvisionerJob
Acquire(j) ==
    /\ job[j].there /\ ~job[j].worker /\ ~job[j].canceled /\ ~job[j].completed
    /\ job' = [job EXCEPT ![j].worker = TRUE]
    /\ UNCHANGED <<template, version, dryRun, values, workspace, req, calls>>

\* CompleteJob and FailJob; the latter refuses a job that is completed.
EndJob(j) ==
    /\ job[j].worker
    /\ \E failed \in BOOLEAN :
        /\ failed => ~job[j].completed
        /\ job' = [job EXCEPT ![j].completed = TRUE, ![j].failed = failed]
    /\ UNCHANGED <<template, version, dryRun, values, workspace, req, calls>>

\* postParameter: a value for a template, unless there is one; the index is asked again.
postParameter(t) ==
    /\ Call
    /\ t \in Known
    /\ <<"template", t>> \notin values
    /\ values' = values \cup {<<"template", t>>}
    /\ UNCHANGED <<template, version, job, dryRun, workspace, req>>

deleteParameter(t) ==
    /\ Call
    /\ <<"template", t>> \in values
    /\ values' = values \ {<<"template", t>>}
    /\ UNCHANGED <<template, version, job, dryRun, workspace, req>>

----------------------------------------------------------------------------
(* Workspaces.                                                             *)

\* Mutant of Importable: a version will have been imported by the time it is needed.
ImportableLater(v) == job[v].worker

\* The statuses that are turned away; one that is being canceled is not among them.
Importable(v) == Status(job[v]) \notin {"pending", "running", "failed", "canceled"}

\* workspaces_owner_id_lower_idx, for row w; all workspaces are of one owner.
WorkspaceNameFree(w, n) == \A x \in WorkspaceIDs \ {w} : workspace[x].state = "live" => workspace[x].name # n

\* postWorkspacesByOrganization: the template is not deleted, the name is free and the
\* active version, as it is now, has been imported.
CheckWorkspace(r, t, n) ==
    /\ t \in Live
    /\ WorkspaceNameFree(None, n)
    /\ Importable(template[t].active)
    /\ Begin(r, [Idle EXCEPT !.op = "post workspace", !.id = t, !.version = template[t].active, !.name = n])

postWorkspacesByOrganization(r) ==
    /\ req[r].op = "post workspace"
    /\ \E w \in NewWorkspace :
        IF WorkspaceNameFree(w, req[r].name)
        THEN /\ workspace' = [workspace EXCEPT ![w] =
                    [state |-> "live", name |-> req[r].name, template |-> req[r].id, version |-> req[r].version]]
             /\ End(r)
             /\ UNCHANGED <<template, version, job, dryRun, values>>
        ELSE Refused(r)

\* patchWorkspace: one statement, which leaves deleted workspaces alone.
patchWorkspace(w, n) ==
    /\ Call
    /\ workspace[w].state = "live" /\ workspace[w].name # n
    /\ WorkspaceNameFree(w, n)
    /\ workspace' = [workspace EXCEPT ![w].name = n]
    /\ UNCHANGED <<template, version, job, dryRun, values, req>>

\* postWorkspaceBuilds with a version, which must have a template, no matter which.
CheckBuild(r, w, v) ==
    /\ workspace[w].state = "live"
    /\ version[v].there /\ version[v].template # None
    /\ Importable(v)
    /\ Begin(r, [Idle EXCEPT !.op = "build", !.id = w, !.version = v])

postWorkspaceBuilds(r) ==
    /\ req[r].op = "build"
    /\ workspace' = [workspace EXCEPT ![req[r].id].version = req[r].version]
    /\ End(r)
    /\ UNCHANGED <<template, version, job, dryRun, values>>

\* The build that deletes a workspace completes.
DeleteWorkspace(w) ==
    /\ Call
    /\ workspace[w].state = "live"
    /\ workspace' = [workspace EXCEPT ![w].state = "deleted"]
    /\ UNCHANGED <<template, version, job, dryRun, values, req>>

TemplateStep(r) ==
    \/ \E n \in Names, v \in VersionIDs : CheckTemplate(r, n, v)
    \/ \E t \in TemplateIDs : CheckUnused(r, t)
    \/ \E t \in TemplateIDs, n \in Names : ReadMeta(r, t, n)
    \/ \E t \in TemplateIDs, v \in VersionIDs : CheckActive(r, t, v)
    \/ postTemplateByOrganization(r) \/ deleteTemplate(r) \/ patchTemplateMeta(r) \/ patchActiveTemplateVersion(r)

VersionStep ==
    \/ \E t \in TemplateIDs \cup {None} : postTemplateVersionsByOrganization(t)
    \/ \E n \in Names : autoImportTemplate(n)
    \/ \E v \in VersionIDs : postTemplateVersionDryRun(v)
    \/ \E r \in Requests : patchCancelTemplateVersion(r) \/ \E j \in JobIDs : CheckCancel(r, j)
    \/ \E j \in JobIDs : Acquire(j) \/ EndJob(j)
    \/ \E t \in TemplateIDs : postParameter(t) \/ deleteParameter(t)

WorkspaceStep ==
    \/ \E r \in Requests :
        \/ \E t \in TemplateIDs, n \in Names : CheckWorkspace(r, t, n)
        \/ \E w \in WorkspaceIDs, v \in VersionIDs : CheckBuild(r, w, v)
        \/ postWorkspacesByOrganization(r) \/ postWorkspaceBuilds(r)
    \/ \E w \in WorkspaceIDs : DeleteWorkspace(w) \/ \E n \in Names : patchWorkspace(w, n)

Next ==
    \/ \E r \in Requests : TemplateStep(r)
    \/ VersionStep
    \/ WorkspaceStep

Spec == Init /\ [][Next]_vars

----------------------------------------------------------------------------
(* Templates that are not deleted have different names, and so have        *)
(* workspaces, whoever renames or creates one between a handler's look and *)
(* its write.                                                              *)
TemplateNamesUnique ==
    /\ \A t, u \in Live : t # u => template[t].name # template[u].name
    /\ \A w, x \in WorkspaceIDs : w # x /\ workspace[w].state = "live" /\ workspace[x].state = "live"
        => workspace[w].name # workspace[x].name

(* The active version of a template belongs to it, unless a later template *)
(* was made of that version: patchActiveTemplateVersion takes no other     *)
(* one, and postTemplateByOrganization any.                                *)
ActiveVersionBelongs == \A t \in Known : version[template[t].active].template >= t

(* Nothing is built from a version whose import is still to come or under  *)
(* way, however late a handler writes what it decided.                     *)
BuiltOnImported ==
    /\ \A w \in WorkspaceIDs : workspace[w].state # "none" => Status(job[workspace[w].version]) \notin {"pending", "running"}
    /\ \A d \in DryRunIDs : job[d].there => Status(job[dryRun[d]]) \notin {"pending", "running"}

(* "All workspaces must be deleted before a template can be removed.": a   *)
(* workspace may be made between the look for one and the removal.         *)
DeletedTemplatesUnused ==
    \A w \in WorkspaceIDs : workspace[w].state = "live" => template[workspace[w].template].state = "live"

(* A value that is stored for a template is stored for one that exists.    *)
ValuesHaveTemplate == \A x \in values : x[1] = "template" => x[2] \in Known
=============================================================================
