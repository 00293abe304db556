--------------------------- MODULE WorkspaceWatch ---------------------------
(***************************************************************************)
(* Reading and watching a workspace (coderd/workspaces.go, the read side   *)
(* of coderd/workspacebuilds.go, coderd/database/pubsub.go and the         *)
(* server-sent events of coderd/httpapi).                                  *)
(*                                                                         *)
(* What a client is shown of a workspace is put together from one query    *)
(* per table, outside of any transaction, while builds, agents and         *)
(* templates change.  A watcher is sent such a view by a goroutine of its  *)
(* own for every notification, which the writer publishes after its write. *)
(***************************************************************************)
EXTENDS Integers, Sequences

CONSTANTS
    Readers,        \* goroutines and requests that read at the same time
    MaxBuilds,
    MaxVersions,    \* template versions
    MaxChanges,     \* bounds the writes
    MaxLost         \* bounds the notifications lost

VARIABLES
    deleted,   \* of the workspaces row
    tpl,       \* the templates row
    builds,    \* workspace_builds with their provisioner_jobs and resources
    out,       \* publications still to be made: the channel of each, counted
    watch,     \* the watching request; "none" when the client asks now and then instead
    spawned,   \* listener goroutines started and not reading yet
    reader,
    heard,     \* the writes that a view sent to the watcher is no older than
    since,     \* the writes before the watcher was subscribed
    clock,     \* the writes so far
    lost,
    panics     \* kinds of readers that ran past the end of a slice

vars == <<deleted, tpl, builds, out, watch, spawned, reader, heard, since, clock, lost, panics>>
rows == <<deleted, tpl, builds>>
pubsub == <<watch, spawned, heard, since>>
reading == <<reader, panics>>

Channels == {"workspace", "template"}
Kinds == {"get", "list", "build", "resources", "watch"}
Statuses == {"pending", "running", "canceling", "succeeded", "failed", "canceled"}

Nothing == [active |-> 0, build |-> 0, status |-> "pending", resources |-> FALSE]
Idle == [kind |-> "none", pc |-> "idle", start |-> 0, view |-> Nothing]

TypeOK ==
    /\ Len(builds) \in 1 .. MaxBuilds
    /\ \A b \in 1 .. Len(builds) : builds[b].status \in Statuses /\ builds[b].transition \in {"start", "delete"}
    /\ out \in [Channels -> 0 .. MaxChanges + MaxBuilds]
    /\ watch \in {"none", "off", "workspace", "on", "leaving", "over"}
    /\ spawned \in Nat
    /\ \A r \in Readers : reader[r].kind \in Kinds \cup {"none"}
    /\ panics \subseteq Kinds
    /\ heard \in 0 .. MaxChanges /\ since \in 0 .. MaxChanges /\ clock \in 0 .. MaxChanges /\ lost \in 0 .. MaxLost

\* The workspace has been created and started, and perhaps is being deleted.  Reads change nothing, so
\* that a client which watches and one which asks can be looked at separately.
Init ==
    /\ deleted = FALSE
    /\ tpl = [active |-> 1, deleted |-> FALSE]
    /\ \E s \in {"pending", "running"}, t \in {"start", "delete"} :
        LET first == [transition |-> "start", status |-> s, resources |-> s = "succeeded"]
        IN  builds = IF t = "start" THEN <<first>>
                     ELSE <<[first EXCEPT !.status = "succeeded", !.resources = TRUE],
                            [first EXCEPT !.transition = "delete", !.resources = FALSE]>>
    /\ out = [c \in Channels |-> 0]
    /\ watch \in {"none", "off"}
    /\ spawned = 0
    /\ reader = [r \in Readers |-> Idle]
    /\ heard = 0 /\ since = 0 /\ clock = 0 /\ lost = 0
    /\ panics = {}

----------------------------------------------------------------------------
(* The writers: a write, after which the notification is published.        *)

Last == Len(builds)
Ended(s) == s \in {"succeeded", "failed", "canceled"}

\* publishWorkspaceUpdate and publishTemplateUpdate are called after the write.
Wrote(c) ==
    /\ clock < MaxChanges
    /\ clock' = clock + 1
    /\ out' = [out EXCEPT ![c] = @ + 1]
    /\ UNCHANGED <<pubsub, reading, lost>>

\* A new name, or putExtendWorkspace a new deadline; what it is does not matter here.
patchWorkspace ==
    /\ ~deleted
    /\ Wrote("workspace")
    /\ UNCHANGED rows

postWorkspaceBuilds ==
    /\ ~deleted
    /\ Ended(builds[Last].status) /\ Last < MaxBuilds
    /\ \E t \in {"start", "delete"} :
        builds' = Append(builds, [transition |-> t, status |-> "pending", resources |-> FALSE])
    /\ Wrote("workspace")
    /\ UNCHANGED <<deleted, tpl>>

SetStatus(s) == builds' = [builds EXCEPT ![Last].status = s]

AcquireJob ==
    /\ builds[Last].status = "pending"
    /\ SetStatus("running")
    /\ Wrote("workspace")
    /\ UNCHANGED <<deleted, tpl>>

patchCancelWorkspaceBuild ==
    /\ builds[Last].status \in {"pending", "running"}
    /\ SetStatus(IF builds[Last].status = "pending" THEN "canceled" ELSE "canceling")
    /\ Wrote("workspace")
    /\ UNCHANGED <<deleted, tpl>>

FailJob ==
    /\ builds[Last].status \in {"running", "canceling"}
    /\ SetStatus("failed")
    /\ Wrote("workspace")
    /\ UNCHANGED <<deleted, tpl>>

\* CompleteJob: one transaction for the job, the build, the resources and, when the
\* build was to delete it, the workspace.
CompleteJob ==
    /\ builds[Last].status = "running"
    /\ LET started == builds[Last].transition = "start" IN
       /\ builds' = [builds EXCEPT ![Last].status = "succeeded", ![Last].resources = started]
       /\ deleted' = (deleted \/ ~started)
    /\ Wrote("workspace")
    /\ UNCHANGED tpl

\* An agent of the build connects or disconnects, its time to connect is over, which
\* a goroutine left by CompleteJob waits for, or postWorkspaceAppHealth is told of an
\* app.
AgentChanges(b) ==
    /\ builds[b].resources
    /\ Wrote("workspace")
    /\ UNCHANGED rows

patchActiveTemplateVersion ==
    /\ ~tpl.deleted /\ tpl.active < MaxVersions
    /\ tpl' = [tpl EXCEPT !.active = @ + 1]
    /\ Wrote("template")
    /\ UNCHANGED <<deleted, builds>>

\* deleteTemplate, when no workspace of the template is left; nobody is notified.
deleteTemplate ==
    /\ deleted /\ ~tpl.deleted
    /\ tpl' = [tpl EXCEPT !.deleted = TRUE]
    /\ UNCHANGED <<deleted, builds, out, pubsub, reading, clock, lost>>

----------------------------------------------------------------------------
(* Notifications: listenReceive and memoryPubsub.Publish start a goroutine *)
(* for every listener of the channel.                                      *)

\* Mutant of Listening: the template is not subscribed to.
ListeningToWorkspace(c) == watch \in {"workspace", "on"} /\ c = "workspace"

Listening(c) == watch = "on" \/ (watch = "workspace" /\ c = "workspace")

Publish(c) ==
    /\ out[c] > 0
    /\ out' = [out EXCEPT ![c] = @ - 1]
    /\ spawned' = IF Listening(c) THEN spawned + 1 ELSE spawned
    /\ UNCHANGED <<rows, watch, heard, since, reading, clock, lost>>

\* The writer stops before it publishes, or the listening connection is made again.
Lose(c) ==
    /\ out[c] > 0 /\ lost < MaxLost
    /\ out' = [out EXCEPT ![c] = @ - 1]
    /\ lost' = lost + 1
    /\ UNCHANGED <<rows, pubsub, reading, clock>>

\* watchWorkspace subscribes to the workspace, then to its template, and then says so.
Subscribe ==
    /\ watch \in {"off", "workspace"}
    /\ watch' = IF watch = "off" THEN "workspace" ELSE "on"
    /\ since' = clock
    /\ UNCHANGED <<rows, out, spawned, heard, reading, clock, lost>>

\* A subscription fails, or the client leaves: the request's context ends the sender,
\* the subscriptions are canceled.
Leave ==
    /\ watch \in {"workspace", "on"}
    /\ watch' = "leaving"
    /\ UNCHANGED <<rows, out, spawned, heard, since, reading, clock, lost>>

\* The sender is closed; goroutines that still run find it so.
SenderClosed ==
    /\ watch = "leaving"
    /\ watch' = "over"
    /\ UNCHANGED <<rows, out, spawned, heard, since, reading, clock, lost>>

----------------------------------------------------------------------------
(* The readers.                                                            *)

Served(r, v) == reader' = [reader EXCEPT ![r] = v]
Only == <<rows, out, watch, heard, since, clock, lost>>
Read(r, pc, v) ==
    /\ Served(r, [reader[r] EXCEPT !.pc = pc, !.view = v])
    /\ UNCHANGED <<Only, spawned, panics>>
Dropped(r) == Served(r, Idle) /\ UNCHANGED <<Only, spawned, panics>>

\* One request at a time: they do not meet.
Asks(r) == watch = "none" /\ \A q \in Readers : reader[q] = Idle

\* A request has read the workspace, by its id or by its name; `list` leaves deleted
\* ones out, `get` shows them on demand.
workspace(r) ==
    /\ Asks(r)
    /\ \E k \in {"get", "list"} :
        /\ deleted => k # "list"
        /\ Served(r, [kind |-> k, pc |-> "templates", start |-> 0, view |-> Nothing])
    /\ UNCHANGED <<Only, spawned, panics>>

\* workspaceBuild, workspaceBuildByBuildNumber and workspaceBuilds know their builds.
workspaceBuild(r, b) ==
    /\ Asks(r)
    /\ Served(r, [kind |-> "build", pc |-> "jobs", start |-> 0, view |-> [Nothing EXCEPT !.build = b]])
    /\ UNCHANGED <<Only, spawned, panics>>

\* provisionerJobResources: of a job that has completed.
provisionerJobResources(r, b) ==
    /\ Asks(r)
    /\ Ended(builds[b].status)
    /\ Served(r, [kind |-> "resources", pc |-> "resources", start |-> 0,
                  view |-> [Nothing EXCEPT !.build = b, !.status = builds[b].status]])
    /\ UNCHANGED <<Only, spawned, panics>>

\* sendUpdate
sendUpdate(r) ==
    /\ reader[r] = Idle /\ spawned > 0
    /\ spawned' = spawned - 1
    /\ Served(r, [kind |-> "watch", pc |-> "templates", start |-> clock, view |-> Nothing])
    /\ UNCHANGED <<Only, panics>>

\* workspaceData: the templates that are not deleted ...
Templates(r) ==
    /\ reader[r].pc = "templates"
    /\ Read(r, "builds", [reader[r].view EXCEPT !.active = IF tpl.deleted THEN 0 ELSE tpl.active])

\* ... and the latest builds.
Builds(r) ==
    /\ reader[r].pc = "builds"
    /\ Read(r, "jobs", [reader[r].view EXCEPT !.build = Last])

\* Mutant of workspaceBuildsData: the resources first.
ResourcesFirst(r) ==
    LET v == reader[r].view IN
    \/ reader[r].pc = "jobs" /\ Read(r, "resources", [v EXCEPT !.resources = builds[v.build].resources])
    \/ reader[r].pc = "resources" /\ Read(r, "convert", [v EXCEPT !.status = builds[v.build].status])

\* workspaceBuildsData: the jobs, then the resources, with what belongs to them.
workspaceBuildsData(r) ==
    LET v == reader[r].view IN
    \/ reader[r].pc = "jobs" /\ Read(r, "resources", [v EXCEPT !.status = builds[v.build].status])
    \/ reader[r].pc = "resources" /\ Read(r, "convert", [v EXCEPT !.resources = builds[v.build].resources])

\* convertWorkspace takes the first of the templates, whether there is one or not;
\* convertWorkspaces, of the list, fails when one is missing.
Missing(k, v) == k \in {"get", "list", "watch"} /\ v.active = 0

convertWorkspace(r) ==
    LET k == reader[r].kind  v == reader[r].view IN
    /\ reader[r].pc = "convert"
    /\ ~Missing(k, v)
    /\ IF k = "watch" THEN Read(r, "send", v) ELSE Dropped(r)

\* A request that panics is answered with an error; a goroutine that does takes the
\* server down.
Panic(r) ==
    LET k == reader[r].kind IN
    /\ reader[r].pc = "convert"
    /\ Missing(k, reader[r].view)
    /\ panics' = IF k = "list" THEN panics ELSE panics \cup {k}
    /\ IF k = "watch"
       THEN /\ reader' = [q \in Readers |-> Idle]
            /\ out' = [c \in Channels |-> 0]
            /\ spawned' = 0
            /\ watch' = "over"
       ELSE Served(r, Idle) /\ UNCHANGED <<out, spawned, watch>>
    /\ UNCHANGED <<rows, heard, since, clock, lost>>

\* sendEvent: the sender takes one event at a time, from whichever goroutine.
sendEvent(r) ==
    /\ reader[r].pc = "send" /\ watch \in {"workspace", "on"}
    /\ Served(r, Idle)
    /\ heard' = IF reader[r].start > heard THEN reader[r].start ELSE heard
    /\ UNCHANGED <<rows, out, watch, since, clock, lost, spawned, panics>>

SendFails(r) == reader[r].pc = "send" /\ watch \in {"leaving", "over"} /\ Dropped(r)

----------------------------------------------------------------------------
BuildStep == patchWorkspace \/ postWorkspaceBuilds \/ AcquireJob \/ patchCancelWorkspaceBuild \/ FailJob \/ CompleteJob

Write ==
    /\ \/ BuildStep \/ patchActiveTemplateVersion \/ deleteTemplate
       \/ \E b \in 1 .. Last : AgentChanges(b)

ReaderStep(r) ==
    \/ sendUpdate(r) \/ Templates(r) \/ Builds(r) \/ workspaceBuildsData(r)
    \/ convertWorkspace(r) \/ Panic(r) \/ sendEvent(r) \/ SendFails(r)

Next ==
    \/ Write
    \/ \E c \in Channels : Publish(c) \/ Lose(c)
    \/ Subscribe \/ Leave \/ SenderClosed
    \/ \E r \in Readers : ReaderStep(r) \/ workspace(r) \/ \E b \in 1 .. Last : workspaceBuild(r, b) \/ provisionerJobResources(r, b)

\* Goroutines run, queries return, a published notification is delivered.
Fairness ==
    /\ \A c \in Channels : WF_vars(Publish(c))
    /\ \A r \in Readers : WF_vars(ReaderStep(r))
    /\ WF_vars(SenderClosed)

Spec == Init /\ [][Next]_vars /\ Fairness

----------------------------------------------------------------------------
(* A client that is told that a start has succeeded is shown its resources,*)
(* although the two come from different queries: CompleteJob writes them   *)
(* in one transaction and the job is read first.                           *)
SucceededShowsResources ==
    \A r \in Readers :
        LET v == reader[r].view IN
        reader[r].pc = "convert" /\ v.status = "succeeded" /\ builds[v.build].transition = "start" => v.resources

(* Whatever of the workspace changes after a watcher is subscribed, it is  *)
(* sent a view that is no older, unless a notification is lost.  (A view   *)
(* that is older may still be sent after that one.)                        *)
WatcherHears ==
    \A c \in 1 .. MaxChanges :
        (watch = "on" /\ since < c /\ clock >= c) ~> (heard >= c \/ watch # "on" \/ lost > 0)

(* "Workspace %q was deleted, you can view this workspace by specifying    *)
(* '?deleted=true' and trying again.": no reader of a workspace, deleted   *)
(* or not, runs past the end of what it has found.                         *)
DeletedCanBeViewed == panics = {}
=============================================================================
