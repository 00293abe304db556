------------------------- MODULE ProvisionerJobs -------------------------
(***************************************************************************)
(* The life of a provisioner job: the rows of the table provisioner_jobs,  *)
(* the coderd handlers that change them (provisionerdserver and the cancel *)
(* endpoints of the HTTP API) and the provisioner daemons that run them.   *)
(*                                                                         *)
(* A daemon reaches coderd over a connection.  coderd gives every          *)
(* connection a fresh server ID (uuid.New()), and that ID is what a row    *)
(* stores as its worker, so Conns stands for both.  A handler takes one    *)
(* step per statement it sends to the database; everything else may happen *)
(* in between, the loss of the connection included.                        *)
(***************************************************************************)
EXTENDS Integers

CONSTANTS
    Jobs,          \* provisioner jobs
    Builds,        \* the jobs that build a workspace; the others are imports and dry-runs
    Daemons,       \* provisioner daemon processes (a restarted one is another process)
    BuiltIn,       \* the daemons inside coderd, whose polls are debounced
    Conns,         \* connections, each with the server ID coderd gave it; bounds re-dialing
    Requests,      \* HTTP requests that cancel a job
    Tags,          \* provisioner tags (a provisioner type counts as one)
    JobTags,       \* [Jobs -> SUBSET Tags]: what a job asks for
    DaemonTags,    \* [Daemons -> SUBSET Tags]: what a daemon offers
    FaultBudgets,  \* SUBSET [Faults -> Nat]: how many of each fault may happen
    None           \* no job, no connection, no daemon

Faults == {"disconnect", "crash", "error"}

ASSUME JobsAssumption == Builds \subseteq Jobs /\ None \notin Jobs
ASSUME PartiesAssumption == None \notin Daemons /\ None \notin Conns
ASSUME TagsAssumption ==
    JobTags \in [Jobs -> SUBSET Tags] /\ DaemonTags \in [Daemons -> SUBSET Tags]
ASSUME FaultsAssumption == FaultBudgets \subseteq [Faults -> Nat]

VARIABLES
    now,           \* the next created_at
    created,       \* created_at of each row, 0 while the row does not exist
    worker,        \* worker_id: the connection that acquired the job
    canceled,      \* canceled_at is set
    completed,     \* completed_at is set
    failed,        \* error is set
    inserted,      \* how often the job's resources were inserted
    saved,         \* the builds whose provisioner_state was overwritten
    ended,         \* the jobs whose EndOfLogs message was published
    debounced,     \* lastAcquire is younger than the debounce
    request,       \* the cancel requests
    handler,       \* the RPC coderd is serving on each connection
    holder,        \* the daemon that dialed each connection
    conn,          \* the connection each daemon uses
    up,            \* the daemon process is alive
    runner,        \* the job each daemon runs and the RPC it waits for
    faults         \* the faults that may still happen

row == <<now, created, worker, canceled, completed, failed>>
effects == <<inserted, saved, ended>>
server == <<debounced, handler>>
daemon == <<holder, conn, up>>
vars == <<row, effects, server, daemon, request, runner, faults>>

RunnerCalls == {"heartbeat", "logs", "fail", "complete"}

NoRequest == [step |-> "idle", job |-> None, running |-> FALSE]
NoCall == [rpc |-> "none", job |-> None, step |-> "idle", canceled |-> FALSE]
Call(rpc, j) == [rpc |-> rpc, job |-> j, step |-> "called", canceled |-> FALSE]
Idle == [job |-> None, call |-> "none", sent |-> FALSE, beat |-> "beating"]

RequestSet == [step : {"idle", "read", "done"},
               job : Jobs \union {None}, running : BOOLEAN]
HandlerSet == [rpc : RunnerCalls \union {"none", "acquire"},
               job : Jobs \union {None},
               step : {"idle", "called", "read", "inserted", "written", "saved"},
               canceled : BOOLEAN]
RunnerSet == [job : Jobs \union {None},
              call : RunnerCalls \union {"none", "acquire"},
              sent : BOOLEAN,
              beat : {"beating", "canceling", "failing"}]

TypeOK ==
    /\ now \in Nat \ {0}
    /\ created \in [Jobs -> Nat]
    /\ worker \in [Jobs -> Conns \union {None}]
    /\ canceled \in [Jobs -> BOOLEAN]
    /\ completed \in [Jobs -> BOOLEAN]
    /\ failed \in [Jobs -> BOOLEAN]
    /\ inserted \in [Jobs -> Nat]
    /\ saved \in SUBSET Builds
    /\ ended \in SUBSET Jobs
    /\ debounced \in BOOLEAN
    /\ request \in [Requests -> RequestSet]
    /\ handler \in [Conns -> HandlerSet]
    /\ holder \in [Conns -> Daemons \union {None}]
    /\ conn \in [Daemons -> Conns \union {None}]
    /\ up \in [Daemons -> BOOLEAN]
    /\ runner \in [Daemons -> RunnerSet]
    /\ faults \in [Faults -> Nat]

Init ==
    /\ now = 1
    /\ created = [j \in Jobs |-> 0]
    /\ worker = [j \in Jobs |-> None]
    /\ canceled = [j \in Jobs |-> FALSE]
    /\ completed = [j \in Jobs |-> FALSE]
    /\ failed = [j \in Jobs |-> FALSE]
    /\ inserted = [j \in Jobs |-> 0]
    /\ saved = {}
    /\ ended = {}
    /\ debounced = FALSE
    /\ request = [r \in Requests |-> NoRequest]
    /\ handler = [c \in Conns |-> NoCall]
    /\ holder = [c \in Conns |-> None]
    /\ conn = [d \in Daemons |-> None]
    /\ up = [d \in Daemons |-> TRUE]
    /\ runner = [d \in Daemons |-> Idle]
    /\ faults \in FaultBudgets

---------------------------------------------------------------------------
(* The HTTP API: creating and cancelling jobs.                             *)

\* A template version, a dry-run or a workspace build inserts its job.
CreateJob(j) ==
    /\ created[j] = 0
    /\ created' = [created EXCEPT ![j] = now]
    /\ now' = now + 1
    /\ UNCHANGED <<worker, canceled, completed, failed, effects, server, daemon,
                   request, runner, faults>>

\* A cancel endpoint fetches the job and refuses one that is over or already canceled.
CancelRead(r, j) ==
    /\ request[r].step = "idle"
    /\ created[j] > 0
    /\ request' = [request EXCEPT ![r] =
            IF completed[j] \/ canceled[j]
            THEN [step |-> "done", job |-> j, running |-> FALSE]
            ELSE [step |-> "read", job |-> j, running |-> worker[j] # None]]
    /\ UNCHANGED <<row, effects, server, daemon, runner, faults>>

\* It then writes both columns from what it has read.
CancelWrite(r) ==
    LET j == request[r].job IN
    /\ request[r].step = "read"
    /\ canceled' = [canceled EXCEPT ![j] = TRUE]
    /\ completed' = [completed EXCEPT ![j] = ~request[r].running]
    /\ request' = [request EXCEPT ![r].step = "done"]
    /\ UNCHANGED <<now, created, worker, failed, effects, server, daemon, runner, faults>>

---------------------------------------------------------------------------
(* Connections and processes.                                              *)

\* Mutant of Connect: the new connection takes over the job its daemon is running.
ConnectTakesOver(d, c) ==
    /\ up[d]
    /\ conn[d] = None
    /\ holder[c] = None
    /\ conn' = [conn EXCEPT ![d] = c]
    /\ holder' = [holder EXCEPT ![c] = d]
    /\ worker' = [j \in Jobs |-> IF runner[d].job = j THEN c ELSE worker[j]]
    /\ UNCHANGED <<now, created, canceled, completed, failed, effects, server, up,
                   request, runner, faults>>

\* connect dials coderd, which makes a server with a new ID for the connection.
Connect(d, c) ==
    /\ up[d]
    /\ conn[d] = None
    /\ holder[c] = None
    /\ conn' = [conn EXCEPT ![d] = c]
    /\ holder' = [holder EXCEPT ![c] = d]
    /\ UNCHANGED <<row, effects, server, up, request, runner, faults>>

Fault(f) ==
    /\ faults[f] > 0
    /\ faults' = [faults EXCEPT ![f] = @ - 1]

\* The connection closes.  AcquireJob gives up; the runner's calls are sent again
\* over the next connection (clientDoWithRetries).
Disconnect(d) ==
    /\ conn[d] # None
    /\ Fault("disconnect")
    /\ conn' = [conn EXCEPT ![d] = None]
    /\ runner' = [runner EXCEPT ![d] =
            IF @.call = "acquire" THEN Idle ELSE [@ EXCEPT !.sent = FALSE]]
    /\ UNCHANGED <<row, effects, server, holder, up, request>>

\* The daemon process dies and its runner with it.
Crash(d) ==
    /\ up[d]
    /\ Fault("crash")
    /\ up' = [up EXCEPT ![d] = FALSE]
    /\ conn' = [conn EXCEPT ![d] = None]
    /\ runner' = [runner EXCEPT ![d] = Idle]
    /\ UNCHANGED <<row, effects, server, holder, request>>

\* coderd's answer ends the handler; it reaches the daemon only over an open connection.
Answer(c, r) ==
    /\ handler' = [handler EXCEPT ![c] = NoCall]
    /\ runner' = IF conn[holder[c]] = c
                 THEN [runner EXCEPT ![holder[c]] = r]
                 ELSE runner

\* What the daemon does with an error: a failed heartbeat makes the runner fail the
\* job, a failed flush of logs is only logged, any other call is over.
OnError(c) ==
    LET r == runner[holder[c]] IN
    IF handler[c].rpc = "heartbeat"
    THEN [r EXCEPT !.call = "none", !.sent = FALSE, !.beat = "failing"]
    ELSE IF handler[c].rpc = "logs" THEN [r EXCEPT !.call = "none", !.sent = FALSE]
    ELSE Idle

\* A statement of a handler fails.
HandlerError(c) ==
    /\ handler[c].rpc # "none"
    /\ Fault("error")
    /\ Answer(c, OnError(c))
    /\ UNCHANGED <<row, effects, debounced, daemon, request>>

\* The context of a handler ends with its connection.
HandlerCanceled(c) ==
    /\ handler[c].rpc # "none"
    /\ conn[holder[c]] # c
    /\ handler' = [handler EXCEPT ![c] = NoCall]
    /\ UNCHANGED <<row, effects, debounced, daemon, request, runner, faults>>

---------------------------------------------------------------------------
(* AcquireJob.                                                             *)

\* The daemon polls for a job when none is running.  Its own debounce (JobPollDebounce)
\* and a shutdown only keep it from polling, which it may leave out here at any time.
SendAcquire(d) ==
    /\ conn[d] # None
    /\ runner[d] = Idle
    /\ runner' = [runner EXCEPT ![d].call = "acquire", ![d].sent = TRUE]
    /\ handler' = [handler EXCEPT ![conn[d]] = Call("acquire", None)]
    /\ UNCHANGED <<row, effects, debounced, daemon, request, faults>>

\* Mutant of Acquirable: a job that was started may be acquired again.
AcquirableStarted(c) ==
    {j \in Jobs : /\ created[j] > 0
                  /\ ~canceled[j]
                  /\ ~completed[j]
                  /\ JobTags[j] \subseteq DaemonTags[holder[c]]}

\* Mutant of Acquirable: the tags must be equal, not contained.
AcquirableExact(c) ==
    {j \in Jobs : /\ created[j] > 0
                  /\ worker[j] = None
                  /\ ~canceled[j]
                  /\ ~completed[j]
                  /\ JobTags[j] = DaemonTags[holder[c]]}

\* The rows AcquireProvisionerJob may lock for the daemon behind connection c.
Acquirable(c) ==
    {j \in Jobs : /\ created[j] > 0
                  /\ worker[j] = None
                  /\ ~canceled[j]
                  /\ ~completed[j]
                  /\ JobTags[j] \subseteq DaemonTags[holder[c]]}

Calling(c, rpc) == handler[c].rpc = rpc /\ handler[c].step = "called"

\* lastAcquire is shared by all servers, and only the built-in ones have a debounce.
Debounced(c) == debounced /\ holder[c] \in BuiltIn

\* Mutant of AcquireLock: the row records the daemon, not the server ID.
AcquireLockDaemon(c) ==
    /\ Calling(c, "acquire")
    /\ ~Debounced(c)
    /\ \E j \in Acquirable(c) :
        /\ worker' = [worker EXCEPT ![j] = holder[c]]
        /\ handler' = [handler EXCEPT ![c].job = j, ![c].step = "read"]
    /\ UNCHANGED <<now, created, canceled, completed, failed, effects, debounced,
                   daemon, request, runner, faults>>

\* The oldest row is locked: its worker becomes this connection.
AcquireLock(c) ==
    /\ Calling(c, "acquire")
    /\ ~Debounced(c)
    /\ \E j \in Acquirable(c) :
        /\ \A i \in Acquirable(c) : created[j] <= created[i]
        /\ worker' = [worker EXCEPT ![j] = c]
        /\ handler' = [handler EXCEPT ![c].job = j, ![c].step = "read"]
    /\ UNCHANGED <<now, created, canceled, completed, failed, effects, debounced,
                   daemon, request, runner, faults>>

\* No row matches: an empty answer, and a new lastAcquire.
AcquireEmpty(c) ==
    /\ Calling(c, "acquire")
    /\ ~Debounced(c)
    /\ Acquirable(c) = {}
    /\ debounced' = TRUE
    /\ Answer(c, Idle)
    /\ UNCHANGED <<row, effects, daemon, request, faults>>

AcquireDebounced(c) ==
    /\ Calling(c, "acquire")
    /\ Debounced(c)
    /\ Answer(c, Idle)
    /\ UNCHANGED <<row, effects, debounced, daemon, request, faults>>

DebounceExpires ==
    /\ debounced
    /\ debounced' = FALSE
    /\ UNCHANGED <<row, effects, handler, daemon, request, runner, faults>>

\* What the job needs cannot be loaded: failJob completes it with an error.
AcquireInvalid(c) ==
    LET j == handler[c].job IN
    /\ handler[c].rpc = "acquire" /\ handler[c].step = "read"
    /\ completed' = [completed EXCEPT ![j] = TRUE]
    /\ failed' = [failed EXCEPT ![j] = TRUE]
    /\ Answer(c, Idle)
    /\ UNCHANGED <<now, created, worker, canceled, effects, debounced, daemon,
                   request, faults>>

\* The job reaches the daemon, which runs it, or fails it when it has no such provisioner.
AcquireReply(c) ==
    LET run == [Idle EXCEPT !.job = handler[c].job] IN
    /\ handler[c].rpc = "acquire" /\ handler[c].step = "read"
    /\ \/ Answer(c, run)
       \/ Answer(c, [run EXCEPT !.call = "fail"])
    /\ UNCHANGED <<row, effects, debounced, daemon, request, faults>>

---------------------------------------------------------------------------
(* The runner's calls.  The runner holds its mutex over a call and all its *)
(* retries, so it has one call at a time.                                  *)

\* Mutant of StartCall: the mutex is not held over a call.
StartCallUnlocked(d, rpc) ==
    /\ runner[d].job # None
    /\ runner' = [runner EXCEPT ![d] = [@ EXCEPT !.call = rpc, !.sent = FALSE]]
    /\ UNCHANGED <<row, effects, server, daemon, request, faults>>

StartCall(d, rpc) ==
    /\ runner[d].job # None
    /\ runner[d].call = "none"
    /\ runner' = [runner EXCEPT ![d] = [@ EXCEPT !.call = rpc, !.sent = FALSE]]
    /\ UNCHANGED <<row, effects, server, daemon, request, faults>>

\* The heartbeat goroutine stops beating once it knows of the cancellation.
Heartbeat(d) == runner[d].beat = "beating" /\ StartCall(d, "heartbeat")
FlushLogs(d) == StartCall(d, "logs")
RunnerComplete(d) == StartCall(d, "complete")
RunnerFail(d) == StartCall(d, "fail")
\* Fail of the heartbeat goroutine: the update failed, or forceCancelInterval has passed.
ForcedFail(d) == runner[d].beat # "beating" /\ StartCall(d, "fail")

\* clientDoWithRetries sends the call over the connection of the moment.
Transmit(d) ==
    /\ conn[d] # None
    /\ runner[d].call \in RunnerCalls
    /\ ~runner[d].sent
    /\ runner' = [runner EXCEPT ![d].sent = TRUE]
    /\ handler' = [handler EXCEPT ![conn[d]] = Call(runner[d].call, runner[d].job)]
    /\ UNCHANGED <<row, effects, debounced, daemon, request, faults>>

---------------------------------------------------------------------------
(* UpdateJob, FailJob and CompleteJob.                                     *)

\* Mutant of Owns: only "job isn't running yet" is checked.
OwnsStarted(c) == worker[handler[c].job] # None

Owns(c) == worker[handler[c].job] = c

Advance(c, step) == handler' = [handler EXCEPT ![c].step = step]

Refuse(c) ==
    /\ Answer(c, OnError(c))
    /\ UNCHANGED <<row, effects, debounced, daemon, request, faults>>

At(c, rpc, step) == handler[c].rpc = rpc /\ handler[c].step = step

\* UpdateJob reads the job; the answer's Canceled comes from this read.
UpdateRead(c) ==
    /\ Calling(c, "heartbeat") \/ Calling(c, "logs")
    /\ Owns(c)
    /\ handler' = [handler EXCEPT ![c].step = "read",
                                  ![c].canceled = canceled[handler[c].job]]
    /\ UNCHANGED <<row, effects, debounced, daemon, request, runner, faults>>

UpdateRefuse(c) ==
    /\ Calling(c, "heartbeat") \/ Calling(c, "logs")
    /\ ~Owns(c)
    /\ Refuse(c)

\* Mutant of UpdateReply: the heartbeat does not look at Canceled.
UpdateReplyBlind(c) ==
    /\ At(c, "heartbeat", "read") \/ At(c, "logs", "read")
    /\ Answer(c, [runner[holder[c]] EXCEPT !.call = "none", !.sent = FALSE])
    /\ UNCHANGED <<row, effects, debounced, daemon, request, faults>>

\* It writes updated_at and the logs and answers; only the heartbeat looks at Canceled.
UpdateReply(c) ==
    LET beat == IF handler[c].rpc = "heartbeat" /\ handler[c].canceled
                THEN "canceling" ELSE runner[holder[c]].beat IN
    /\ At(c, "heartbeat", "read") \/ At(c, "logs", "read")
    /\ Answer(c, [runner[holder[c]] EXCEPT !.call = "none", !.sent = FALSE,
                                           !.beat = beat])
    /\ UNCHANGED <<row, effects, debounced, daemon, request, faults>>

FailRead(c) ==
    /\ Calling(c, "fail")
    /\ Owns(c) /\ ~completed[handler[c].job]
    /\ Advance(c, "read")
    /\ UNCHANGED <<row, effects, debounced, daemon, request, runner, faults>>

FailRefuse(c) ==
    /\ Calling(c, "fail")
    /\ ~Owns(c) \/ completed[handler[c].job]
    /\ Refuse(c)

FailWrite(c) ==
    LET j == handler[c].job IN
    /\ At(c, "fail", "read")
    /\ completed' = [completed EXCEPT ![j] = TRUE]
    /\ failed' = [failed EXCEPT ![j] = TRUE]
    /\ Advance(c, "written")
    /\ UNCHANGED <<now, created, worker, canceled, effects, debounced, daemon,
                   request, runner, faults>>

\* A failed build may report a state, which is stored after the job was marked failed.
FailSave(c) ==
    /\ At(c, "fail", "written")
    /\ handler[c].job \in Builds
    /\ saved' = saved \union {handler[c].job}
    /\ Advance(c, "saved")
    /\ UNCHANGED <<row, inserted, ended, debounced, daemon, request, runner, faults>>

\* EndOfLogs is published and the runner is done.
Publish(c) ==
    /\ ended' = ended \union {handler[c].job}
    /\ Answer(c, Idle)
    /\ UNCHANGED <<row, inserted, saved, debounced, daemon, request, faults>>

FailReply(c) == (At(c, "fail", "written") \/ At(c, "fail", "saved")) /\ Publish(c)

\* CompleteJob checks who owns the job, not whether it is already complete.
CompleteRead(c) ==
    /\ Calling(c, "complete")
    /\ Owns(c)
    /\ Advance(c, "read")
    /\ UNCHANGED <<row, effects, debounced, daemon, request, runner, faults>>

CompleteRefuse(c) ==
    /\ Calling(c, "complete")
    /\ ~Owns(c)
    /\ Refuse(c)

\* Imports and dry-runs insert their resources outside of a transaction.
CompleteInsert(c) ==
    LET j == handler[c].job IN
    /\ At(c, "complete", "read")
    /\ j \notin Builds
    /\ inserted' = [inserted EXCEPT ![j] = @ + 1]
    /\ Advance(c, "inserted")
    /\ UNCHANGED <<row, saved, ended, debounced, daemon, request, runner, faults>>

\* The job is marked complete, its error cleared; a build stores its state and its
\* resources in the same transaction.
CompleteWrite(c) ==
    LET j == handler[c].job IN
    /\ \/ /\ At(c, "complete", "inserted")
          /\ UNCHANGED <<inserted, saved>>
       \/ /\ At(c, "complete", "read")
          /\ j \in Builds
          /\ inserted' = [inserted EXCEPT ![j] = @ + 1]
          /\ saved' = saved \union {j}
    /\ completed' = [completed EXCEPT ![j] = TRUE]
    /\ failed' = [failed EXCEPT ![j] = FALSE]
    /\ Advance(c, "written")
    /\ UNCHANGED <<now, created, worker, canceled, ended, debounced, daemon,
                   request, runner, faults>>

CompleteReply(c) == At(c, "complete", "written") /\ Publish(c)

---------------------------------------------------------------------------
UserStep ==
    \/ \E j \in Jobs : CreateJob(j)
    \/ \E r \in Requests, j \in Jobs : CancelRead(r, j)
    \/ \E r \in Requests : CancelWrite(r)

RunnerStep(d) ==
    \/ SendAcquire(d) \/ Heartbeat(d) \/ FlushLogs(d) \/ RunnerComplete(d)
    \/ RunnerFail(d) \/ ForcedFail(d) \/ Transmit(d)

AcquireStep(c) ==
    \/ AcquireLock(c) \/ AcquireEmpty(c) \/ AcquireDebounced(c)
    \/ AcquireInvalid(c) \/ AcquireReply(c)

UpdateStep(c) == UpdateRead(c) \/ UpdateRefuse(c) \/ UpdateReply(c)

FailStep(c) ==
    FailRead(c) \/ FailRefuse(c) \/ FailWrite(c) \/ FailSave(c) \/ FailReply(c)

CompleteStep(c) ==
    \/ CompleteRead(c) \/ CompleteRefuse(c) \/ CompleteInsert(c)
    \/ CompleteWrite(c) \/ CompleteReply(c)

HandlerStep(c) == AcquireStep(c) \/ UpdateStep(c) \/ FailStep(c) \/ CompleteStep(c)

LinkStep ==
    \/ \E d \in Daemons, c \in Conns : Connect(d, c)
    \/ \E d \in Daemons : Disconnect(d) \/ Crash(d)
    \/ \E c \in Conns : HandlerError(c) \/ HandlerCanceled(c)

Next ==
    \/ UserStep
    \/ LinkStep
    \/ DebounceExpires
    \/ \E d \in Daemons : RunnerStep(d)
    \/ \E c \in Conns : HandlerStep(c)

Spec == Init /\ [][Next]_vars

(***************************************************************************)
(* Fairness.  coderd's handlers run to their end, a daemon re-dials and    *)
(* polls, and its goroutines get their turn: Go's mutex hands itself to    *)
(* whoever has waited too long, so an action that is enabled again and     *)
(* again is taken (strong fairness).  Nobody is obliged to create or       *)
(* cancel a job, and a provisioner need never finish.                      *)
(***************************************************************************)
Fairness ==
    /\ WF_vars(DebounceExpires)
    /\ \A r \in Requests : WF_vars(CancelWrite(r))
    /\ \A d \in Daemons :
        /\ WF_vars(\E c \in Conns : Connect(d, c))
        /\ WF_vars(SendAcquire(d))
        /\ WF_vars(Transmit(d))
        /\ SF_vars(Heartbeat(d))
        /\ SF_vars(ForcedFail(d))
    /\ \A c \in Conns :
        /\ WF_vars(HandlerStep(c))
        /\ SF_vars(AcquireLock(c))

FairSpec == Spec /\ Fairness

\* The polls are jittered (nextInterval), so a daemon does not always poll inside the
\* debounce window that another daemon has opened.
Jitter == \A d \in Daemons : SF_vars(~debounced /\ SendAcquire(d))
JitterSpec == FairSpec /\ Jitter

---------------------------------------------------------------------------
(* Safety.                                                                 *)

\* No two daemons run the same job, whatever is lost, repeated or reordered: the lock
\* of AcquireProvisionerJob is never given up (provisionerjobs.sql, "This prevents
\* multiple provisioners from acquiring the same jobs").
OneRunner ==
    \A d, e \in Daemons :
        runner[d].job # None /\ runner[d].job = runner[e].job => d = e

\* A handler that has passed its ownership check still owns the job when it writes,
\* although check and write are separate statements.
OwnerAtWrite ==
    \A c \in Conns : handler[c].step \notin {"idle", "called"} => Owns(c)

(* The strengthening that makes the ownership properties inductive.        *)

\* A connection belongs to the daemon that dialed it; a handler serves a dialed
\* connection, and a call about a job names the job.
Links ==
    /\ \A d \in Daemons : conn[d] # None => holder[conn[d]] = d
    /\ \A c \in Conns :
        /\ handler[c].step # "idle" => holder[c] # None
        /\ handler[c].rpc # "none" => handler[c].step # "idle"
        /\ handler[c].rpc \in RunnerCalls => handler[c].job # None
    /\ \A d \in Daemons : runner[d].call \in RunnerCalls => runner[d].job # None

\* The job a daemon runs is locked by a connection that this daemon dialed.
RunnerOwns ==
    \A d \in Daemons : runner[d].job # None =>
        worker[runner[d].job] # None /\ holder[worker[runner[d].job]] = d

\* A handler past its first statement has a job, and owns it.
WriterOwns ==
    \A c \in Conns : handler[c].step \notin {"idle", "called"} =>
        handler[c].job # None /\ worker[handler[c].job] = c

OwnershipInv == TypeOK /\ Links /\ RunnerOwns /\ WriterOwns

\* CompleteJob does not look at completed_at and is retried after a lost answer; still
\* the resources of a job are inserted at most once.
ResourcesOnce == \A j \in Jobs : inserted[j] <= 1

\* A job whose resources were inserted is never reported as failed, and a build that
\* has resources has its state stored too.
OutcomeWhole ==
    \A j \in Jobs : inserted[j] > 0 => ~failed[j] /\ (j \in Builds => j \in saved)

\* EndOfLogs is the last word on a job: once it is published, no daemon is still working
\* on the job and no handler is still storing logs of it.
EndOfLogsIsLast ==
    \A j \in ended :
        /\ \A d \in Daemons :
            runner[d].job = j => runner[d].call \in {"fail", "complete"}
        /\ \A c \in Conns :
            handler[c].job = j /\ handler[c].rpc = "logs" => handler[c].step = "called"

\* The lock on a row is taken once and kept: nobody re-assigns the job of a daemon.
OwnerStable ==
    [][\A j \in Jobs : worker[j] # None => worker'[j] = worker[j]]_vars

\* Nothing turns a failed job into a successful one.
FailureIsFinal == [][\A j \in Jobs : failed[j] => failed'[j]]_vars

---------------------------------------------------------------------------
(* Liveness.                                                               *)

\* Cancelling works even when the provisioner never returns: the heartbeat learns of
\* it and, after the force-cancel interval, fails the job.
CancelStopsRunner ==
    \A d \in Daemons, j \in Jobs :
        (runner[d].job = j /\ canceled[j]) ~> (runner[d].job # j)

\* Every job that is created, that some daemon can serve and that nobody cancels is run
\* in the end, or failed by AcquireJob, although the empty polls of daemons with other
\* tags keep renewing the debounce.
JobStarts ==
    \A j \in Jobs :
        (\E d \in Daemons : created[j] > 0 /\ JobTags[j] \subseteq DaemonTags[d])
            ~> (canceled[j] \/ completed[j] \/ \E d \in Daemons : runner[d].job = j)

\* A completion the runner sends completes the job, unless a cancel request overwrites
\* it, even if the connection is lost meanwhile: the call is retried over the next one
\* (provisionerd_test.go, ReconnectAndComplete).
CompletionArrives ==
    \A d \in Daemons, j \in Jobs :
        (runner[d].job = j /\ runner[d].call = "complete") ~> (completed[j] \/ canceled[j])

---------------------------------------------------------------------------
(* What the source says and the code does not do.                          *)

\* "If the job is running, don't mark it completed!": canceling a job that a daemon has
\* acquired leaves completed_at alone.  A job acquired between the read and the write of
\* the endpoint is completed; one that completed in between has its completed_at cleared.
CancelLeavesRunning ==
    [][\A j \in Jobs :
        worker[j] # None /\ ~canceled[j] /\ canceled'[j] => completed'[j] = completed[j]]_vars
===========================================================================
