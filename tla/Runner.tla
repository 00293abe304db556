------------------------------ MODULE Runner ------------------------------
(***************************************************************************)
(* The goroutines of one runner (provisionerd/runner) and the two calls of *)
(* the daemon that end it (Shutdown and Close).                            *)
(*                                                                         *)
(*   "run"       Run: waits for an outcome and sends it                    *)
(*   "work"      doCleanFinish: does the job, queues log lines             *)
(*   "beat"      heartbeat                                                 *)
(*   "close"     Server.closeWithError: Fail, then ForceStop               *)
(*   "shutdown"  Server.Shutdown: Cancel, then wait                        *)
(*   Flushers    the goroutines of the timer that flushes the log queue    *)
(*                                                                         *)
(* r.mutex is held over every message to coderd and all its retries, so a  *)
(* message is two steps, with the mutex held in between; a critical        *)
(* section that sends nothing is one step that needs the mutex free.       *)
(***************************************************************************)
EXTENDS Integers, Sequences

CONSTANTS
    Flushers,      \* goroutines that time.AfterFunc may have running at once
    MaxLines,      \* log lines the job writes before it is cleaned up
    LogLimit       \* the length of the queue that makes queueLog flush (100)

ASSUME LinesAssumption == MaxLines \in Nat /\ LogLimit \in Nat

\* The goroutines of the timer are none of the others, and "free" is nobody.
ASSUME FlushersAssumption ==
    Flushers \intersect {"run", "work", "beat", "close", "shutdown", "free"} = {}

VARIABLES
    mutex,         \* who holds r.mutex over a message, or "free"
    serverMutex,   \* who holds the daemon's p.mutex, or "free"
    pc,            \* where each goroutine is
    okToSend, failedJob, completedJob,
    done,          \* how often r.done was closed
    canceled,      \* notCanceled is done (Cancel was called, or stopped)
    stopped,       \* notStopped is done
    outcome,       \* what do returned: "none", "failed" or "completed"
    line,          \* the log lines written so far are 1 .. line
    queue,         \* queuedLogs
    timer,         \* flushLogsTimer: "nil", "armed" or "stopped"
    batch,         \* the lines a goroutine took from the queue to send
    delivered,     \* the lines coderd has received
    terminal,      \* the terminal messages sent, in order
    jobCanceled,   \* coderd has canceled the job
    link           \* coderd can be reached

job == <<okToSend, failedJob, completedJob, done>>
context == <<canceled, stopped>>
logs == <<line, queue, timer, batch, delivered>>
world == <<jobCanceled, link>>
vars == <<mutex, serverMutex, pc, job, context, outcome, logs, terminal, world>>

Procs == {"run", "work", "beat", "close", "shutdown"} \union Flushers
Loggers == {"work"} \union Flushers

TypeOK ==
    /\ mutex \in Procs \union {"free"}
    /\ serverMutex \in {"free", "close", "shutdown"}
    /\ pc \in [Procs -> {"idle", "waiting", "sending", "working", "swap", "update",
                         "updating", "setting", "ticking", "awaiting", "failing",
                         "forcing", "returned"}]
    /\ okToSend \in BOOLEAN /\ failedJob \in BOOLEAN /\ completedJob \in BOOLEAN
    /\ done \in Nat
    /\ canceled \in BOOLEAN /\ stopped \in BOOLEAN
    /\ outcome \in {"none", "failed", "completed"}
    /\ line \in 0 .. MaxLines + 1
    /\ queue \in Seq(1 .. MaxLines + 1) /\ delivered \in Seq(1 .. MaxLines + 1)
    /\ timer \in {"nil", "armed", "stopped"}
    /\ batch \in [Loggers -> Seq(1 .. MaxLines + 1)]
    /\ terminal \in Seq({"fail", "complete"})
    /\ jobCanceled \in BOOLEAN /\ link \in {"up", "down"}

\* acquireJob has made the runner (New) and started Run, which starts the others.
Init ==
    /\ mutex = "free" /\ serverMutex = "free"
    /\ pc = [p \in Procs |-> IF p = "run" THEN "waiting" ELSE IF p = "work" THEN "working"
                             ELSE IF p = "beat" THEN "ticking" ELSE "idle"]
    /\ okToSend = TRUE /\ failedJob = FALSE /\ completedJob = FALSE /\ done = 0
    /\ canceled = FALSE /\ stopped = FALSE
    /\ outcome = "none"
    /\ line = 0 /\ queue = <<>> /\ timer = "nil" /\ delivered = <<>>
    /\ batch = [p \in Loggers |-> <<>>]
    /\ terminal = <<>>
    /\ jobCanceled = FALSE /\ link = "up"

Go(p, to) == pc' = [pc EXCEPT ![p] = to]
Free == mutex = "free"

---------------------------------------------------------------------------
(* The world: coderd cancels the job, and becomes unreachable for a time.  *)

CancelJob ==
    /\ ~jobCanceled
    /\ jobCanceled' = TRUE
    /\ UNCHANGED <<mutex, serverMutex, pc, job, context, outcome, logs, terminal, link>>

\* An outage makes a difference only to a message that is under way.
LinkDown ==
    /\ link = "up" /\ link' = "down"
    /\ ~Free
    /\ UNCHANGED <<mutex, serverMutex, pc, job, context, outcome, logs, terminal, jobCanceled>>

LinkUp ==
    /\ link = "down" /\ link' = "up"
    /\ UNCHANGED <<mutex, serverMutex, pc, job, context, outcome, logs, terminal, jobCanceled>>

---------------------------------------------------------------------------
(* Sending.  A call is retried until coderd answers or its context ends:   *)
(* notStopped, except for Close, which gives its message one second.       *)

Answered(p) == link = "up"
GivesUp(p) == IF p = "close" THEN TRUE ELSE stopped

\* update: skipped when nothing more may be sent.
BeginUpdate(p) ==
    /\ pc[p] = "update" /\ Free /\ okToSend
    /\ mutex' = p /\ Go(p, "updating")
    /\ UNCHANGED <<serverMutex, job, context, outcome, logs, terminal, world>>

\* Where a goroutine goes once its update is over: after its last flush the worker sets
\* the outcome; a flusher ends.
AfterFlush(p) == IF p \in Flushers THEN "idle"
                 ELSE IF outcome = "none" THEN "working" ELSE "setting"

SkipUpdate(p) ==
    /\ p \in Loggers
    /\ pc[p] = "update" /\ Free /\ ~okToSend
    /\ batch' = [batch EXCEPT ![p] = <<>>]
    /\ Go(p, AfterFlush(p))
    /\ UNCHANGED <<mutex, serverMutex, job, context, outcome, line, queue, timer,
                   delivered, terminal, world>>

\* The answer to a flush; an error is logged and the lines are gone.
EndUpdate(p) ==
    /\ p \in Loggers
    /\ pc[p] = "updating"
    /\ \/ Answered(p) /\ delivered' = delivered \o batch[p]
       \/ (Answered(p) \/ GivesUp(p)) /\ UNCHANGED delivered
    /\ mutex' = "free"
    /\ batch' = [batch EXCEPT ![p] = <<>>]
    /\ Go(p, AfterFlush(p))
    /\ UNCHANGED <<serverMutex, job, context, outcome, line, queue, timer, terminal, world>>

---------------------------------------------------------------------------
(* Run.                                                                    *)

\* Mutant of RunWake: okToSend is not looked at.
RunWakeBlind ==
    /\ pc["run"] = "waiting" /\ Free
    /\ failedJob \/ completedJob
    /\ mutex' = "run" /\ Go("run", "sending")
    /\ terminal' = Append(terminal, IF failedJob THEN "fail" ELSE "complete")
    /\ UNCHANGED <<serverMutex, job, context, outcome, logs, world>>

\* The condition is signalled: Run sends the outcome, a failure first.
RunWake ==
    /\ pc["run"] = "waiting" /\ Free
    /\ failedJob \/ completedJob
    /\ okToSend
    /\ mutex' = "run" /\ Go("run", "sending")
    /\ terminal' = Append(terminal, IF failedJob THEN "fail" ELSE "complete")
    /\ UNCHANGED <<serverMutex, job, context, outcome, logs, world>>

\* Somebody else has ended the job.
RunSkip ==
    /\ pc["run"] = "waiting" /\ Free
    /\ failedJob \/ completedJob
    /\ ~okToSend
    /\ stopped' = TRUE /\ canceled' = TRUE
    /\ Go("run", "returned")
    /\ UNCHANGED <<mutex, serverMutex, job, outcome, logs, terminal, world>>

\* The message was sent, or could not be: done is closed and everything stopped.
RunSent ==
    /\ pc["run"] = "sending"
    /\ Answered("run") \/ GivesUp("run")
    /\ done' = done + 1 /\ okToSend' = FALSE
    /\ stopped' = TRUE /\ canceled' = TRUE
    /\ mutex' = "free" /\ Go("run", "returned")
    /\ UNCHANGED <<serverMutex, failedJob, completedJob, outcome, logs, terminal, world>>

---------------------------------------------------------------------------
(* The worker and the log queue.                                           *)

\* queueLog: the first line makes the timer, every later one resets it.  QueueLog also
\* moves the worker, to where it goes on.
QueueLog(to) ==
    /\ Free
    /\ line' = line + 1
    /\ queue' = Append(queue, line')
    /\ IF timer = "nil" /\ Len(queue') > LogLimit
       THEN \E f \in Flushers :
                /\ pc[f] = "idle"
                /\ pc' = [pc EXCEPT ![f] = "swap", !["work"] = to]
                /\ UNCHANGED timer
       ELSE timer' = "armed" /\ Go("work", to)
    /\ UNCHANGED <<mutex, serverMutex, job, context, batch, delivered, terminal, world>>

WorkLog ==
    /\ pc["work"] = "working"
    /\ line < MaxLines
    /\ QueueLog("working")
    /\ UNCHANGED outcome

\* Mutant of TimerFires: a timer that has fired counts as a third kind.
TimerFiresSpent(f) ==
    /\ timer = "armed" /\ pc[f] = "idle"
    /\ timer' = "spent"
    /\ Go(f, "swap")
    /\ UNCHANGED <<mutex, serverMutex, job, context, outcome, line, queue, batch,
                   delivered, terminal, world>>

\* The timer fires: its function runs in a goroutine of its own.
TimerFires(f) ==
    /\ timer = "armed" /\ pc[f] = "idle"
    /\ timer' = "stopped"
    /\ Go(f, "swap")
    /\ UNCHANGED <<mutex, serverMutex, job, context, outcome, line, queue, batch,
                   delivered, terminal, world>>

\* Mutant of Swap: the queue is copied but not emptied.
SwapKeeps(p) ==
    /\ pc[p] = "swap" /\ Free
    /\ batch' = [batch EXCEPT ![p] = queue]
    /\ timer' = IF timer = "armed" THEN "stopped" ELSE timer
    /\ Go(p, "update")
    /\ UNCHANGED <<mutex, serverMutex, job, context, outcome, line, queue, delivered,
                   terminal, world>>

\* flushQueuedLogs takes the queue and gives the mutex up before it sends.
Swap(p) ==
    /\ pc[p] = "swap" /\ Free
    /\ batch' = [batch EXCEPT ![p] = queue]
    /\ queue' = <<>>
    /\ timer' = IF timer = "armed" THEN "stopped" ELSE timer
    /\ Go(p, "update")
    /\ UNCHANGED <<mutex, serverMutex, job, context, outcome, line, delivered, terminal, world>>

\* Between two stages of a build the worker flushes.
WorkFlush ==
    /\ pc["work"] = "working"
    /\ Go("work", "swap")
    /\ UNCHANGED <<mutex, serverMutex, job, context, outcome, logs, terminal, world>>

\* do returns; the deferred clean-up logs a last line and flushes.
WorkDone(o) ==
    /\ pc["work"] = "working"
    /\ outcome' = o
    /\ QueueLog("swap")

\* Mutant of WorkSet: the completion of a canceled job is dropped.
WorkSetDrops ==
    /\ pc["work"] = "setting" /\ Free
    /\ failedJob' = (failedJob \/ outcome = "failed")
    /\ completedJob' = (completedJob \/ (outcome = "completed" /\ ~canceled))
    /\ Go("work", "returned")
    /\ UNCHANGED <<mutex, serverMutex, okToSend, done, context, outcome, logs, terminal, world>>

\* setFail or setComplete, by the deferred function that runs last.
WorkSet ==
    /\ pc["work"] = "setting" /\ Free
    /\ failedJob' = (failedJob \/ outcome = "failed")
    /\ completedJob' = (completedJob \/ outcome = "completed")
    /\ Go("work", "returned")
    /\ UNCHANGED <<mutex, serverMutex, okToSend, done, context, outcome, logs, terminal, world>>

---------------------------------------------------------------------------
(* Fail, of the heartbeat and of Close.                                    *)

\* Mutant of FailBegin: the message is sent although the job is over.
FailBeginBlind(p) ==
    /\ pc[p] = "failing" /\ Free
    /\ canceled' = TRUE /\ failedJob' = TRUE
    /\ mutex' = p /\ Go(p, "sending")
    /\ terminal' = Append(terminal, "fail")
    /\ UNCHANGED <<serverMutex, okToSend, completedJob, done, stopped, outcome, logs, world>>

FailBegin(p) ==
    /\ pc[p] = "failing" /\ Free
    /\ okToSend
    /\ canceled' = TRUE /\ failedJob' = TRUE
    /\ mutex' = p /\ Go(p, "sending")
    /\ terminal' = Append(terminal, "fail")
    /\ UNCHANGED <<serverMutex, okToSend, completedJob, done, stopped, outcome, logs, world>>

\* "already done"
FailSkip(p) ==
    /\ pc[p] = "failing" /\ Free
    /\ ~okToSend
    /\ IF p = "close" THEN stopped' = TRUE /\ canceled' = TRUE /\ serverMutex' = "free"
                      ELSE UNCHANGED <<context, serverMutex>>
    /\ Go(p, "returned")
    /\ UNCHANGED <<mutex, job, outcome, logs, terminal, world>>

\* Close goes on to ForceStop when its message failed, and ends the daemon's context.
FailEnd(p) ==
    /\ p \in {"beat", "close"}
    /\ pc[p] = "sending"
    /\ \/ Answered(p) /\ Go(p, "returned")
       \/ (Answered(p) \/ GivesUp(p)) /\ Go(p, IF p = "close" THEN "forcing" ELSE "returned")
    /\ serverMutex' = IF p = "close" /\ pc'[p] = "returned" THEN "free" ELSE serverMutex
    /\ done' = done + 1 /\ okToSend' = FALSE
    /\ stopped' = TRUE /\ canceled' = TRUE
    /\ mutex' = "free"
    /\ UNCHANGED <<failedJob, completedJob, outcome, logs, terminal, world>>

---------------------------------------------------------------------------
(* heartbeat.                                                              *)

BeatTick ==
    /\ pc["beat"] = "ticking"
    /\ Go("beat", "update")
    /\ UNCHANGED <<mutex, serverMutex, job, context, outcome, logs, terminal, world>>

BeatReturn ==
    /\ pc["beat"] = "ticking" /\ canceled
    /\ Go("beat", "returned")
    /\ UNCHANGED <<mutex, serverMutex, job, context, outcome, logs, terminal, world>>

\* A skipped update is an error as well, and Fail then finds the job over.
BeatSkip ==
    /\ pc["beat"] = "update" /\ Free /\ ~okToSend
    /\ Go("beat", "failing")
    /\ UNCHANGED <<mutex, serverMutex, job, context, outcome, logs, terminal, world>>

BeatAnswer ==
    /\ pc["beat"] = "updating" /\ Answered("beat")
    /\ IF jobCanceled
       THEN canceled' = TRUE /\ Go("beat", "awaiting")
       ELSE UNCHANGED canceled /\ Go("beat", "ticking")
    /\ mutex' = "free"
    /\ UNCHANGED <<serverMutex, job, stopped, outcome, logs, terminal, world>>

BeatError ==
    /\ pc["beat"] = "updating" /\ (Answered("beat") \/ GivesUp("beat"))
    /\ mutex' = "free" /\ Go("beat", "failing")
    /\ UNCHANGED <<serverMutex, job, context, outcome, logs, terminal, world>>

\* The select after Cancel: the job ended, or was stopped.
BeatOver ==
    /\ pc["beat"] = "awaiting"
    /\ done > 0 \/ stopped
    /\ Go("beat", "returned")
    /\ UNCHANGED <<mutex, serverMutex, job, context, outcome, logs, terminal, world>>

\* forceCancelInterval passes.
BeatTimeout ==
    /\ pc["beat"] = "awaiting"
    /\ Go("beat", "failing")
    /\ UNCHANGED <<mutex, serverMutex, job, context, outcome, logs, terminal, world>>

---------------------------------------------------------------------------
(* Shutdown and Close of the daemon.                                       *)

\* Shutdown does nothing when the job is over.
Shutdown ==
    /\ pc["shutdown"] = "idle" /\ serverMutex = "free"
    /\ IF done > 0
       THEN Go("shutdown", "returned") /\ UNCHANGED <<canceled, serverMutex>>
       ELSE canceled' = TRUE /\ serverMutex' = "shutdown" /\ Go("shutdown", "awaiting")
    /\ UNCHANGED <<mutex, job, stopped, outcome, logs, terminal, world>>

\* It waits for the job, or for its own context to end.
ShutdownReturn ==
    /\ pc["shutdown"] = "awaiting"
    /\ serverMutex' = "free"
    /\ Go("shutdown", "returned")
    /\ UNCHANGED <<mutex, job, context, outcome, logs, terminal, world>>

Close ==
    /\ pc["close"] = "idle" /\ serverMutex = "free"
    /\ serverMutex' = "close"
    /\ Go("close", "failing")
    /\ UNCHANGED <<mutex, job, context, outcome, logs, terminal, world>>

\* Mutant of ForceStop: done is closed although Fail has closed it.
ForceStopBlind ==
    /\ pc["close"] = "forcing" /\ Free
    /\ stopped' = TRUE /\ canceled' = TRUE
    /\ okToSend' = FALSE /\ done' = done + 1 /\ failedJob' = TRUE
    /\ serverMutex' = "free"
    /\ Go("close", "returned")
    /\ UNCHANGED <<mutex, completedJob, outcome, logs, terminal, world>>

ForceStop ==
    /\ pc["close"] = "forcing" /\ Free
    /\ stopped' = TRUE /\ canceled' = TRUE
    /\ okToSend' = FALSE
    /\ IF okToSend THEN done' = done + 1 /\ failedJob' = TRUE
                   ELSE UNCHANGED <<done, failedJob>>
    /\ serverMutex' = "free"
    /\ Go("close", "returned")
    /\ UNCHANGED <<mutex, completedJob, outcome, logs, terminal, world>>

---------------------------------------------------------------------------
RunStep == RunWake \/ RunSkip \/ RunSent
FlushStep(p) == Swap(p) \/ BeginUpdate(p) \/ SkipUpdate(p) \/ EndUpdate(p)
WorkStep ==
    \/ WorkLog \/ WorkFlush \/ WorkSet \/ FlushStep("work")
    \/ \E o \in {"failed", "completed"} : WorkDone(o)
TimerStep == \E f \in Flushers : TimerFires(f) \/ FlushStep(f)
FailStep(p) == FailBegin(p) \/ FailSkip(p) \/ FailEnd(p)
BeatStep ==
    \/ BeatTick \/ BeatReturn \/ BeginUpdate("beat") \/ BeatSkip \/ BeatAnswer \/ BeatError
    \/ BeatOver \/ BeatTimeout \/ FailStep("beat")
CloseStep == Close \/ FailStep("close") \/ ForceStop
ShutdownStep == Shutdown \/ ShutdownReturn

Next ==
    \/ RunStep \/ WorkStep \/ TimerStep \/ BeatStep \/ CloseStep \/ ShutdownStep
    \/ CancelJob \/ LinkDown \/ LinkUp

Spec == Init /\ [][Next]_vars

(***************************************************************************)
(* Fairness: every goroutine gets its turn, at the mutex too (Go's mutex   *)
(* is fair to those who wait long).  A provisioner ends when it is stopped; *)
(* otherwise it may run for ever.  In OutageSpec coderd may stay away.     *)
(***************************************************************************)
OutageFairness ==
    /\ SF_vars(RunStep)
    /\ SF_vars(FlushStep("work") \/ WorkSet)
    /\ SF_vars(stopped /\ WorkDone("failed"))
    /\ \A f \in Flushers : SF_vars(TimerFires(f) \/ FlushStep(f))
    /\ SF_vars(BeatStep)
    /\ SF_vars(FailStep("close") \/ ForceStop)
    /\ WF_vars(done > 0 /\ ShutdownReturn)

OutageSpec == Spec /\ OutageFairness
FairSpec == OutageSpec /\ WF_vars(LinkUp)

---------------------------------------------------------------------------
(* Properties.                                                             *)

\* r.done is closed at most once, by whichever of Run, Fail and ForceStop comes first;
\* closing it twice would panic.
DoneOnce == done <= 1

\* coderd is told of one outcome at most, although Run, the heartbeat and Close may each
\* be about to send one.
OneTerminal == Len(terminal) <= 1

\* Nothing is sent behind the outcome: once a terminal message is on its way no update
\* is, and once done is closed (so that the daemon may take its next job) neither is.
QuietWhenOver ==
    \A p \in Procs :
        /\ terminal # <<>> => pc[p] # "updating"
        /\ done > 0 => pc[p] # "sending"

\* No log line reaches coderd twice, however the timer, the worker and their flushes
\* interleave.
LinesOnce == \A i, k \in 1 .. Len(delivered) : delivered[i] = delivered[k] => i = k

\* Nothing is left behind: once the work is done, or the daemon is closing, all
\* goroutines of the job return, and done has been closed.
JobWindsUp ==
    (outcome # "none" \/ pc["close"] # "idle")
        ~> (done > 0 /\ \A p \in {"run", "work", "beat"} : pc[p] = "returned")
===========================================================================
