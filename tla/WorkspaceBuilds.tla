-------------------------- MODULE WorkspaceBuilds --------------------------
(***************************************************************************)
(* The builds of workspaces: users create, build, cancel and extend        *)
(* (coderd/workspaces.go, coderd/workspacebuilds.go), the lifecycle        *)
(* executors of one or more coderd replicas start and stop workspaces      *)
(* (coderd/autobuild/executor), and provisioner daemons finish the jobs    *)
(* (coderd/provisionerdserver).  A handler reads before it writes, so it   *)
(* is two steps; what stands between two of them is the constraint         *)
(* UNIQUE (workspace_id, build_number).                                    *)
(*                                                                         *)
(* The provisioner state of a build is the number of the build that        *)
(* produced it; 0 is the empty state.  A deadline of 0 is the zero time.   *)
(***************************************************************************)
EXTENDS Naturals, Sequences, FiniteSets

CONSTANTS
    Workspaces,
    Requests,      \* HTTP requests that build, cancel or extend, one each
    Executors,     \* the lifecycle executors, one per coderd replica
    MaxBuilds,     \* bounds the builds of a workspace
    MaxTime,       \* bounds the clock
    TTL,           \* the time until shutdown of a workspace that has one
    Instants       \* the times at which an autostart schedule fires

VARIABLES
    clock,
    deleted,       \* workspaces.deleted
    autostart,     \* workspaces.autostart_schedule is set
    ttl,           \* workspaces.ttl, 0 when it is null
    builds,        \* workspace_builds and their jobs, in build_number order
    request,       \* what each request has read
    exec           \* what each executor's transaction has read

settings == <<deleted, autostart, ttl>>
vars == <<clock, settings, builds, request, exec>>

Transitions == {"start", "stop", "delete"}
Reasons == {"initiator", "autostart", "autostop"}

Build == [trans : Transitions, reason : Reasons, at : 0 .. MaxTime,
          from : 0 .. MaxBuilds, state : 0 .. MaxBuilds, deadline : 0 .. MaxTime + TTL,
          started : BOOLEAN, canceled : BOOLEAN, completed : BOOLEAN, failed : BOOLEAN,
          fresh : BOOLEAN,      \* updated_at is at most 30 seconds old
          working : BOOLEAN,    \* a daemon is running the job
          saving : BOOLEAN,     \* FailJob has still to save the state
          lapsed : BOOLEAN]     \* the row said the job was over while a daemon ran it

\* InsertProvisionerJob and InsertWorkspaceBuild, in one transaction.
NewBuild(t, r, s) ==
    [trans |-> t, reason |-> r, at |-> clock, from |-> s, state |-> s, deadline |-> 0,
     started |-> FALSE, canceled |-> FALSE, completed |-> FALSE, failed |-> FALSE,
     fresh |-> TRUE, working |-> FALSE, saving |-> FALSE, lapsed |-> FALSE]

NoPlan == [step |-> "idle"]
Answered == [step |-> "done"]

\* ConvertProvisionerJobStatus
Status(b) ==
    CASE b.canceled /\ ~b.completed                -> "canceling"
      [] b.canceled /\ b.completed /\ ~b.failed    -> "canceled"
      [] b.canceled /\ b.completed /\ b.failed     -> "failed"
      [] ~b.canceled /\ ~b.started                 -> "pending"
      [] ~b.canceled /\ b.started /\ b.completed   -> IF b.failed THEN "failed" ELSE "succeeded"
      [] ~b.canceled /\ b.started /\ ~b.completed  -> IF b.fresh THEN "running" ELSE "failed"

\* Mutant of Active: a job that waits for a daemon is not active.
ActiveStarted(b) == Status(b) \in {"running", "canceling"}

\* ProvisionerJobStatus.Active
Active(b) == Status(b) \in {"pending", "running", "canceling"}

Latest(w) == builds[w][Len(builds[w])]

TypeOK ==
    /\ clock \in 0 .. MaxTime
    /\ deleted \in [Workspaces -> BOOLEAN] /\ autostart \in [Workspaces -> BOOLEAN]
    /\ ttl \in [Workspaces -> {0, TTL}]
    /\ \A w \in Workspaces :
        /\ Len(builds[w]) <= MaxBuilds
        /\ \A i \in 1 .. Len(builds[w]) : builds[w][i] \in Build
    /\ \A p \in {request[q] : q \in Requests} \union {exec[e] : e \in Executors} :
        p.step \in {"idle", "build", "cancel", "extend", "done"}

Init ==
    /\ clock = 0
    /\ deleted = [w \in Workspaces |-> FALSE]
    /\ autostart = [w \in Workspaces |-> FALSE]
    /\ ttl = [w \in Workspaces |-> 0]
    /\ builds = [w \in Workspaces |-> <<>>]
    /\ request = [q \in Requests |-> NoPlan]
    /\ exec = [e \in Executors |-> NoPlan]

----------------------------------------------------------------------------
(* Users.                                                                   *)

\* postWorkspacesByOrganization: the workspace, its first build and the build's job.
\* An empty TTL in the request takes the template's default.
CreateWorkspace(w) ==
    /\ builds[w] = <<>> /\ MaxBuilds > 0
    /\ \E t \in {0, TTL} : ttl' = [ttl EXCEPT ![w] = t]
    /\ \E a \in BOOLEAN : autostart' = [autostart EXCEPT ![w] = a]
    /\ builds' = [builds EXCEPT ![w] = <<NewBuild("start", "initiator", 0)>>]
    /\ UNCHANGED <<clock, deleted, request, exec>>

\* postWorkspaceBuilds up to its transaction: the prior build must not be active; its
\* number and, unless the user orphans the resources, its state are kept for the insert.
PostRead(q, w, t) ==
    /\ request[q].step = "idle" /\ builds[w] # <<>>
    /\ ~Active(Latest(w))
    /\ \E s \in {Latest(w).state} \union (IF t = "delete" THEN {0} ELSE {}) :
        request' = [request EXCEPT ![q] =
            [step |-> "build", ws |-> w, trans |-> t, number |-> Len(builds[w]) + 1, state |-> s]]
    /\ UNCHANGED <<clock, settings, builds, exec>>

\* Mutant of Insertable: the build takes the next free number, whatever was read.
InsertableAnyway(p) == TRUE

\* UNIQUE (workspace_id, build_number): the transaction fails when the number is taken.
Insertable(p) == p.number = Len(builds[p.ws]) + 1

InsertBuild(p, reason) ==
    builds' = [builds EXCEPT ![p.ws] = Append(@, NewBuild(p.trans, reason, p.state))]

\* The transaction of postWorkspaceBuilds.
PostInsert(q) ==
    LET p == request[q] IN
    /\ p.step = "build"
    /\ Insertable(p) /\ Len(builds[p.ws]) < MaxBuilds
    /\ InsertBuild(p, "initiator")
    /\ request' = [request EXCEPT ![q] = Answered]
    /\ UNCHANGED <<clock, settings, exec>>

PostConflict(q) ==
    /\ request[q].step = "build" /\ ~Insertable(request[q])
    /\ request' = [request EXCEPT ![q] = Answered]
    /\ UNCHANGED <<clock, settings, builds, exec>>

\* patchCancelWorkspaceBuild up to its update.
CancelRead(q, w, i) ==
    LET b == builds[w][i] IN
    /\ request[q].step = "idle"
    /\ ~b.completed /\ ~b.canceled
    /\ request' = [request EXCEPT ![q] =
            [step |-> "cancel", ws |-> w, number |-> i, running |-> b.started]]
    /\ UNCHANGED <<clock, settings, builds, exec>>

\* UpdateProvisionerJobWithCancelByID with the completed_at computed from what was read.
CancelWrite(q) ==
    LET p == request[q]
        b == builds[p.ws][p.number]
    IN
    /\ p.step = "cancel"
    /\ builds' = [builds EXCEPT ![p.ws][p.number] =
            [b EXCEPT !.canceled = TRUE, !.completed = ~p.running,
                      !.lapsed = @ \/ (b.working /\ ~p.running)]]
    /\ request' = [request EXCEPT ![q] = Answered]
    /\ UNCHANGED <<clock, settings, exec>>

\* Mutant of ExtendRead: the deadline asked for is taken for a duration.
ExtendReadDuration(q, w, d) ==
    LET b == Latest(w) IN
    /\ request[q].step = "idle" /\ builds[w] # <<>>
    /\ b.trans = "start" /\ b.completed /\ b.deadline # 0
    /\ request' = [request EXCEPT ![q] =
            [step |-> "extend", ws |-> w, number |-> Len(builds[w]), state |-> b.state,
             deadline |-> clock + d]]
    /\ UNCHANGED <<clock, settings, builds, exec>>

\* putExtendWorkspace: the latest build is read and, later in the same transaction,
\* written back with a new deadline.
ExtendRead(q, w, d) ==
    LET b == Latest(w) IN
    /\ request[q].step = "idle" /\ builds[w] # <<>>
    /\ b.trans = "start" /\ b.completed /\ b.deadline # 0
    /\ d > clock
    /\ request' = [request EXCEPT ![q] =
            [step |-> "extend", ws |-> w, number |-> Len(builds[w]), state |-> b.state, deadline |-> d]]
    /\ UNCHANGED <<clock, settings, builds, exec>>

ExtendWrite(q) ==
    LET p == request[q] IN
    /\ p.step = "extend"
    /\ builds' = [builds EXCEPT ![p.ws][p.number] =
            [@ EXCEPT !.state = p.state, !.deadline = p.deadline]]
    /\ request' = [request EXCEPT ![q] = Answered]
    /\ UNCHANGED <<clock, settings, exec>>

\* putWorkspaceTTL: the builds that exist keep their deadline.
PutTTL(q, w) ==
    /\ request[q].step = "idle" /\ builds[w] # <<>>
    /\ \E t \in {0, TTL} : ttl' = [ttl EXCEPT ![w] = t]
    /\ request' = [request EXCEPT ![q] = Answered]
    /\ UNCHANGED <<clock, deleted, autostart, builds, exec>>

\* putWorkspaceAutostart
PutAutostart(q, w) ==
    /\ request[q].step = "idle" /\ builds[w] # <<>>
    /\ \E a \in BOOLEAN : autostart' = [autostart EXCEPT ![w] = a]
    /\ request' = [request EXCEPT ![q] = Answered]
    /\ UNCHANGED <<clock, deleted, ttl, builds, exec>>

----------------------------------------------------------------------------
(* The lifecycle executor.                                                  *)

\* isEligibleForAutoStartStop
Eligible(w) == ~deleted[w] /\ (autostart[w] \/ ttl[w] > 0)

\* sched.Next of the creation time of the last build, if it comes at all.
NextInstants(b) == {t \in Instants : t > b.at}

\* getNextTransition and the comparison with the tick: the transition that is due.
NextTransition(w) ==
    LET b == Latest(w) IN
    IF ~b.completed \/ b.failed THEN "none"
    ELSE IF b.trans = "start" /\ b.deadline # 0 /\ b.deadline <= clock THEN "stop"
    ELSE IF b.trans = "stop" /\ autostart[w] /\ \E t \in NextInstants(b) : t <= clock THEN "start"
    ELSE "none"

\* The reads of runOnce's transaction for one workspace.
ExecRead(e, w) ==
    /\ exec[e].step = "idle" /\ builds[w] # <<>>
    /\ Eligible(w) /\ NextTransition(w) # "none"
    /\ exec' = [exec EXCEPT ![e] =
            [step |-> "build", ws |-> w, trans |-> NextTransition(w),
             number |-> Len(builds[w]) + 1, state |-> Latest(w).state]]
    /\ UNCHANGED <<clock, settings, builds, request>>

\* build: its inserts, and the end of the transaction.
ExecInsert(e) ==
    LET p == exec[e] IN
    /\ p.step = "build"
    /\ Insertable(p) /\ Len(builds[p.ws]) < MaxBuilds
    /\ InsertBuild(p, IF p.trans = "start" THEN "autostart" ELSE "autostop")
    /\ exec' = [exec EXCEPT ![e] = NoPlan]
    /\ UNCHANGED <<clock, settings, request>>

ExecConflict(e) ==
    /\ exec[e].step = "build" /\ ~Insertable(exec[e])
    /\ exec' = [exec EXCEPT ![e] = NoPlan]
    /\ UNCHANGED <<clock, settings, builds, request>>

----------------------------------------------------------------------------
(* The daemons, as the rows of builds and jobs see them.                    *)

Job(w, i, b) ==
    /\ builds' = [builds EXCEPT ![w][i] = b]
    /\ UNCHANGED <<clock, autostart, ttl, request, exec>>

\* AcquireProvisionerJob
Acquire(w, i) ==
    LET b == builds[w][i] IN
    /\ ~b.started /\ ~b.canceled /\ ~b.completed
    /\ Job(w, i, [b EXCEPT !.started = TRUE, !.fresh = TRUE, !.working = TRUE])
    /\ UNCHANGED deleted

\* UpdateJob writes updated_at.
Heartbeat(w, i) ==
    LET b == builds[w][i] IN
    /\ b.working /\ ~b.fresh
    /\ Job(w, i, [b EXCEPT !.fresh = TRUE])
    /\ UNCHANGED deleted

\* More than 30 seconds pass without an update.
Silence(w, i) ==
    LET b == builds[w][i] IN
    /\ b.started /\ ~b.completed /\ b.fresh
    /\ Job(w, i, [b EXCEPT !.fresh = FALSE, !.lapsed = @ \/ b.working])
    /\ UNCHANGED deleted

\* The daemon is gone; nobody will finish its job.
DaemonDies(w, i) ==
    LET b == builds[w][i] IN
    /\ b.working
    /\ Job(w, i, [b EXCEPT !.working = FALSE])
    /\ UNCHANGED deleted

\* CompleteJob's transaction for a build.  The error is cleared with it.
CompleteJob(w, i) ==
    LET b == builds[w][i] IN
    /\ b.working
    /\ Job(w, i, [b EXCEPT !.completed = TRUE, !.failed = FALSE, !.working = FALSE,
                           !.state = i, !.deadline = IF ttl[w] > 0 THEN clock + ttl[w] ELSE 0])
    /\ deleted' = [deleted EXCEPT ![w] = @ \/ b.trans = "delete"]

\* FailJob's first statement.  The failed apply may have left a new state.
FailJob(w, i) ==
    LET b == builds[w][i] IN
    /\ b.working /\ ~b.completed
    /\ \E s \in BOOLEAN :
        Job(w, i, [b EXCEPT !.completed = TRUE, !.failed = TRUE, !.working = FALSE, !.saving = s])
    /\ UNCHANGED deleted

\* FailJob's second statement, UpdateWorkspaceBuildByID.
FailSave(w, i) ==
    LET b == builds[w][i] IN
    /\ b.saving
    /\ Job(w, i, [b EXCEPT !.saving = FALSE, !.state = i, !.deadline = 0])
    /\ UNCHANGED deleted

\* coderd fails between the two statements.
FailLost(w, i) ==
    LET b == builds[w][i] IN
    /\ b.saving
    /\ Job(w, i, [b EXCEPT !.saving = FALSE])
    /\ UNCHANGED deleted

\* The daemon may also end a job whose row was completed by a cancellation: FailJob
\* refuses it.
FailRefused(w, i) ==
    LET b == builds[w][i] IN
    /\ b.working /\ b.completed
    /\ Job(w, i, [b EXCEPT !.working = FALSE])
    /\ UNCHANGED deleted

Tick ==
    /\ clock < MaxTime
    /\ clock' = clock + 1
    /\ UNCHANGED <<settings, builds, request, exec>>

----------------------------------------------------------------------------
UserStep ==
    \/ \E w \in Workspaces : CreateWorkspace(w)
    \/ \E q \in Requests :
        \/ PostInsert(q) \/ PostConflict(q) \/ CancelWrite(q) \/ ExtendWrite(q)
        \/ \E w \in Workspaces :
            \/ PutTTL(q, w) \/ PutAutostart(q, w)
            \/ \E t \in Transitions : PostRead(q, w, t)
            \/ \E i \in 1 .. Len(builds[w]) : CancelRead(q, w, i)
            \/ \E d \in 1 .. MaxTime : ExtendRead(q, w, d)

ExecutorStep(e) ==
    \/ ExecInsert(e) \/ ExecConflict(e)
    \/ \E w \in Workspaces : ExecRead(e, w)

JobStep(w, i) ==
    \/ Acquire(w, i) \/ Heartbeat(w, i) \/ Silence(w, i) \/ DaemonDies(w, i)
    \/ CompleteJob(w, i) \/ FailJob(w, i) \/ FailSave(w, i) \/ FailLost(w, i)
    \/ FailRefused(w, i)

Next ==
    \/ UserStep
    \/ \E e \in Executors : ExecutorStep(e)
    \/ \E w \in Workspaces : \E i \in 1 .. Len(builds[w]) : JobStep(w, i)
    \/ Tick

Spec == Init /\ [][Next]_vars

----------------------------------------------------------------------------
(* Properties.                                                              *)

\* A build in the history: it waits until a daemon takes it, runs until the daemon is
\* done with it, and counts as over for everybody once its row said so.
Phase(b) ==
    IF b.lapsed THEN "over"
    ELSE IF b.working THEN "running"
    ELSE IF ~b.started /\ ~b.canceled /\ ~b.completed THEN "waiting"
    ELSE "over"

History == [w \in Workspaces |-> [i \in 1 .. Len(builds[w]) |-> Phase(builds[w][i])]]

Abstract == INSTANCE BuildHistory WITH history <- History

\* Requests and executors of several replicas may all have found the same prior build
\* inactive (workspacebuilds.go, "A workspace build is already active."): still builds
\* are added one at a time, each when the earlier ones are over, and none begins twice.
OneBuildAtATime == Abstract!HistorySpec

\* Two daemons work on one workspace only if the older job was given up: coderd took its
\* worker for dead, or a cancellation raced with its acquisition.
NoConcurrentWorkers ==
    \A w \in Workspaces : \A i, k \in 1 .. Len(builds[w]) :
        i < k /\ builds[w][i].working /\ builds[w][k].working => builds[w][i].lapsed

\* A build starts from what its predecessor left behind: from the state the predecessor
\* completed with, however requests, extensions of the deadline and executors interleave
\* (unless the user orphans the resources, or the predecessor failed or was given up).
StateInherited ==
    \A w \in Workspaces : \A i \in 1 .. Len(builds[w]) :
        LET b == builds[w][i]
            prior == builds[w][i - 1]
        IN  i > 1 /\ prior.completed /\ ~prior.failed /\ ~prior.canceled /\ ~prior.lapsed
                => b.from = prior.state \/ (b.trans = "delete" /\ b.from = 0)

\* The executors of several replicas do not act twice on one occasion: an automatic stop
\* follows a start, an automatic start follows a stop, and neither follows a deletion.
AutobuildsAlternate ==
    \A w \in Workspaces : \A i \in 1 .. Len(builds[w]) :
        /\ builds[w][i].reason = "autostop" => i > 1 /\ builds[w][i - 1].trans = "start"
        /\ builds[w][i].reason = "autostart" => i > 1 /\ builds[w][i - 1].trans = "stop"
============================================================================
