---------------------------- MODULE RunnerProofs ----------------------------
(***************************************************************************)
(* Proofs about Runner, for any number of timer goroutines and log lines.  *)
(*                                                                         *)
(* TalkInv is about the outcome of the job: r.mutex is held exactly by the *)
(* goroutine that has a message under way, a message is only under way     *)
(* while okToSend, and okToSend is what done has not been closed yet       *)
(* means.  LinesInv is about the log lines: each is in one place, the      *)
(* queue, one batch, or at coderd.                                         *)
(***************************************************************************)
EXTENDS Runner, TLAPS

Steps == {"idle", "waiting", "sending", "working", "swap", "update", "updating", "setting",
          "ticking", "awaiting", "failing", "forcing", "returned"}

\* Where each goroutine can be.
Places ==
    /\ pc["run"] \in {"waiting", "sending", "returned"}
    /\ pc["work"] \in {"working", "swap", "update", "updating", "setting", "returned"}
    /\ pc["beat"] \in {"ticking", "update", "updating", "awaiting", "failing", "sending", "returned"}
    /\ pc["close"] \in {"idle", "failing", "sending", "forcing", "returned"}
    /\ pc["shutdown"] \in {"idle", "awaiting", "returned"}
    /\ \A f \in Flushers : pc[f] \in {"idle", "swap", "update", "updating"}

\* p has a message to coderd under way.
Talking(p) == pc[p] \in {"sending", "updating"}

\* r.mutex is held over messages, and over nothing else that takes time.
HeldOverMessages == \A p \in Procs : mutex = p <=> Talking(p)

\* done and okToSend change together, once, and a message is only under way before; a
\* terminal message was only sent by one who still holds the mutex, or the job is over.
Ending ==
    /\ mutex # "free" => okToSend
    /\ okToSend <=> done = 0
    /\ done \in {0, 1}
    /\ Len(terminal) <= 1
    /\ okToSend /\ (\A p \in Procs : pc[p] # "sending") => terminal = <<>>

\* The worker writes its last line when it has an outcome.
Counting ==
    /\ pc["work"] = "working" => outcome = "none"
    /\ outcome = "none" => line <= MaxLines

TalkInv == TypeOK /\ Places /\ HeldOverMessages /\ Ending /\ Counting

-----------------------------------------------------------------------------
(* The three ways in which a step moves goroutines.                        *)

\* Nobody begins or ends a message.
StaysQuiet ==
    /\ \A q \in Procs : pc'[q] = pc[q] \/ (~Talking(q) /\ ~Talking(q)')
    /\ UNCHANGED <<mutex, okToSend, done, terminal>>

\* p begins a message: an update, or a terminal one.
Begins(p) ==
    /\ mutex = "free" /\ mutex' = p /\ okToSend
    /\ \A q \in Procs \ {p} : pc'[q] = pc[q]
    /\ \/ pc'[p] = "updating" /\ UNCHANGED terminal
       \/ pc'[p] = "sending" /\ \E m \in {"fail", "complete"} : terminal' = Append(terminal, m)
    /\ UNCHANGED <<okToSend, done>>

\* p ends its message; a terminal one ends the job.
Ends(p) ==
    /\ mutex' = "free"
    /\ \A q \in Procs \ {p} : pc'[q] = pc[q]
    /\ ~Talking(p)'
    /\ \/ pc[p] = "updating" /\ UNCHANGED <<okToSend, done>>
       \/ pc[p] = "sending" /\ done' = done + 1 /\ okToSend' = FALSE
    /\ UNCHANGED terminal

Outcome == HeldOverMessages /\ Ending

\* A quiet step leaves the outcome alone.
LEMMA QuietKeepsOutcome ==
  ASSUME TalkInv, StaysQuiet
  PROVE  Outcome'
<1>1. HeldOverMessages'
  BY DEF TalkInv, HeldOverMessages, Talking, StaysQuiet
<1>2. Ending'
  <2>1. (\A p \in Procs : pc'[p] # "sending") => \A p \in Procs : pc[p] # "sending"
    BY DEF StaysQuiet, Talking
  <2> QED BY <2>1 DEF TalkInv, Ending, StaysQuiet
<1> QED BY <1>1, <1>2 DEF Outcome

\* Nobody else has a message under way when one begins, and none was terminal.
LEMMA BeginKeepsOutcome ==
  ASSUME TalkInv, NEW p \in Procs, Begins(p)
  PROVE  Outcome'
<1>1. \A q \in Procs : ~Talking(q) /\ q # "free"
  BY FlushersAssumption DEF TalkInv, HeldOverMessages, Begins, Procs
<1>2. HeldOverMessages'
  BY <1>1 DEF HeldOverMessages, Talking, Begins
<1>3. terminal = <<>>
  BY <1>1 DEF TalkInv, Ending, Begins, Talking
<1>4. Len(terminal') <= 1
  <2>1. CASE terminal' = terminal
    BY <1>3, <2>1
  <2>2. ASSUME NEW m \in {"fail", "complete"}, terminal' = Append(terminal, m)
        PROVE  Len(terminal') <= 1
    <3>1. terminal \in Seq({"fail", "complete"}) /\ Len(terminal) = 0
      BY <1>3 DEF TalkInv, TypeOK
    <3> QED BY <2>2, <3>1
  <2> QED BY <2>1, <2>2 DEF Begins
<1>5. (\A q \in Procs : pc'[q] # "sending") => terminal' = <<>>
  BY <1>3 DEF Begins
<1>6. Ending'
  BY <1>4, <1>5 DEF TalkInv, Ending, Begins
<1> QED BY <1>2, <1>6 DEF Outcome

\* The one who ends a message was the only one to have one.
LEMMA EndKeepsOutcome ==
  ASSUME TalkInv, NEW p \in Procs, Ends(p)
  PROVE  Outcome'
<1>1. mutex = p /\ p # "free"
  BY FlushersAssumption DEF TalkInv, HeldOverMessages, Talking, Ends, Procs
<1>2. \A q \in Procs \ {p} : ~Talking(q)
  BY <1>1 DEF TalkInv, HeldOverMessages
<1>3. HeldOverMessages'
  <2> SUFFICES ASSUME NEW q \in Procs
               PROVE  mutex' = q <=> Talking(q)'
    BY DEF HeldOverMessages
  <2>1. q # "free"
    BY FlushersAssumption DEF Procs
  <2> QED BY <1>2, <2>1 DEF Talking, Ends
<1>4. okToSend /\ done = 0
  BY <1>1 DEF TalkInv, Ending
<1>5. CASE pc[p] = "updating"
  <2>1. terminal = <<>>
    BY <1>2, <1>4, <1>5 DEF TalkInv, Ending, Talking
  <2> QED BY <1>3, <1>4, <1>5, <2>1 DEF Ending, Ends, Outcome
<1>6. CASE pc[p] = "sending"
  BY <1>3, <1>4, <1>6 DEF TalkInv, Ending, Ends, Outcome
<1> QED BY <1>5, <1>6 DEF Ends

-----------------------------------------------------------------------------
(* The actions.                                                            *)

\* Run sends the outcome.
LEMMA RunWakeTalk ==
  ASSUME TalkInv, RunWake
  PROVE  TalkInv'
<1> USE FlushersAssumption, LinesAssumption DEF Procs, Loggers, Go, Free
<1>1. Begins("run")
  BY DEF RunWake, Begins, Talking, TalkInv, TypeOK, Places, job, logs, context, world
<1>2. Outcome'
  BY <1>1, BeginKeepsOutcome
<1>3. Places'
  BY DEF RunWake, TalkInv, TypeOK, Places, Counting
<1>4. Counting'
  BY DEF RunWake, TalkInv, TypeOK, Places, Counting, logs
<1>5. TypeOK'
  BY <1>1, <1>3 DEF RunWake, Begins, TalkInv, TypeOK, Places, Counting, job, logs, context, world
<1> QED BY <1>2, <1>3, <1>4, <1>5 DEF TalkInv, Outcome

\* Run finds the job over.
LEMMA RunSkipTalk ==
  ASSUME TalkInv, RunSkip
  PROVE  TalkInv'
<1> USE FlushersAssumption, LinesAssumption DEF Procs, Loggers, Go, Free
<1>1. StaysQuiet
  BY DEF RunSkip, StaysQuiet, Talking, TalkInv, TypeOK, Places, job, logs, context, world
<1>2. Outcome'
  BY <1>1, QuietKeepsOutcome
<1>3. Places'
  BY DEF RunSkip, TalkInv, TypeOK, Places, Counting
<1>4. Counting'
  BY DEF RunSkip, TalkInv, TypeOK, Places, Counting, logs
<1>5. TypeOK'
  BY <1>1, <1>3 DEF RunSkip, StaysQuiet, TalkInv, TypeOK, Places, Counting, job, logs, context, world
<1> QED BY <1>2, <1>3, <1>4, <1>5 DEF TalkInv, Outcome

\* Run has sent the outcome.
LEMMA RunSentTalk ==
  ASSUME TalkInv, RunSent
  PROVE  TalkInv'
<1> USE FlushersAssumption, LinesAssumption DEF Procs, Loggers, Go, Free
<1>1. Ends("run")
  BY DEF RunSent, Ends, Talking, TalkInv, TypeOK, Places, job, logs, context, world
<1>2. Outcome'
  BY <1>1, EndKeepsOutcome
<1>3. Places'
  BY DEF RunSent, TalkInv, TypeOK, Places, Counting
<1>4. Counting'
  BY DEF RunSent, TalkInv, TypeOK, Places, Counting, logs
<1>5. TypeOK'
  <2>1. pc' \in [Procs -> Steps]
    BY DEF RunSent, TalkInv, TypeOK, Steps
  <2>2. mutex' = "free" /\ okToSend' = FALSE /\ canceled' = TRUE /\ stopped' = TRUE
    BY DEF RunSent
  <2>4. done' \in Nat
    BY DEF RunSent, TalkInv, TypeOK
  <2>5. serverMutex' \in {"free", "close", "shutdown"}
    BY DEF RunSent, TalkInv, TypeOK
  <2>3. UNCHANGED <<failedJob, completedJob, outcome, logs, terminal, world>>
    BY DEF RunSent
  <2> QED BY <2>1, <2>2, <2>3, <2>4, <2>5 DEF TalkInv, TypeOK, Steps, logs, world
<1> QED BY <1>2, <1>3, <1>4, <1>5 DEF TalkInv, Outcome

\* queueLog moves the worker and perhaps a flusher, and nobody sends.
LEMMA QueueLogMoves ==
  ASSUME TalkInv, pc["work"] = "working", NEW to \in {"working", "swap"}, QueueLog(to)
  PROVE  /\ StaysQuiet
         /\ Places' /\ pc' \in [Procs -> Steps] /\ pc'["work"] = to
         /\ timer' \in {"nil", "armed", "stopped"}
<1> USE FlushersAssumption DEF Procs, Loggers
<1>1. UNCHANGED <<mutex, okToSend, done, terminal>>
  BY DEF QueueLog, job
<1>2. pc \in [Procs -> Steps]
  BY DEF TalkInv, TypeOK, Steps
<1>3. CASE timer = "nil" /\ Len(queue') > LogLimit
  <2>1. PICK f \in Flushers : /\ pc[f] = "idle"
                             /\ pc' = [pc EXCEPT ![f] = "swap", !["work"] = to]
                             /\ UNCHANGED timer
    BY <1>3 DEF QueueLog
  <2>2. Places' /\ pc' \in [Procs -> Steps] /\ pc'["work"] = to
    BY <1>2, <2>1 DEF TalkInv, Places, Steps
  <2>3. StaysQuiet
    BY <1>1, <1>2, <2>1 DEF StaysQuiet, Talking
  <2> QED BY <2>1, <2>2, <2>3 DEF TalkInv, TypeOK
<1>4. CASE ~(timer = "nil" /\ Len(queue') > LogLimit)
  <2>1. timer' = "armed" /\ pc' = [pc EXCEPT !["work"] = to]
    BY <1>4 DEF QueueLog, Go
  <2>2. Places' /\ pc' \in [Procs -> Steps] /\ pc'["work"] = to
    BY <1>2, <2>1 DEF TalkInv, Places, Steps
  <2>3. StaysQuiet
    BY <1>1, <1>2, <2>1 DEF StaysQuiet, Talking
  <2> QED BY <2>1, <2>2, <2>3
<1> QED BY <1>3, <1>4

\* The worker logs a line.
LEMMA WorkLogTalk ==
  ASSUME TalkInv, WorkLog
  PROVE  TalkInv'
<1> USE LinesAssumption
<1>1. QueueLog("working") /\ pc["work"] = "working"
  BY DEF WorkLog
<1>2. /\ StaysQuiet
      /\ Places' /\ pc' \in [Procs -> Steps] /\ pc'["work"] = "working"
      /\ timer' \in {"nil", "armed", "stopped"}
  BY <1>1, QueueLogMoves
<1>3. Outcome'
  BY <1>2, QuietKeepsOutcome
<1>4. line \in 0 .. MaxLines + 1 /\ line' = line + 1 /\ line' \in 0 .. MaxLines
  BY <1>1 DEF TalkInv, TypeOK, Counting, QueueLog, WorkLog
<1>5. Counting'
  BY <1>2, <1>4 DEF Counting, TalkInv, WorkLog
<1>6. queue' \in Seq(1 .. MaxLines + 1)
  <2>1. queue \in Seq(1 .. MaxLines + 1) /\ queue' = Append(queue, line') /\ line' \in 1 .. MaxLines + 1
    BY <1>1, <1>4 DEF QueueLog, TalkInv, TypeOK
  <2> QED BY <2>1
<1>7. /\ outcome' \in {"none", "failed", "completed"}
      /\ UNCHANGED <<mutex, serverMutex, job, context, batch, delivered, terminal, world>>
  BY <1>1 DEF WorkLog, QueueLog, TalkInv, TypeOK
<1>8. TypeOK'
  BY <1>2, <1>4, <1>6, <1>7 DEF TalkInv, TypeOK, Steps, job, context, world
<1> QED BY <1>2, <1>3, <1>5, <1>8 DEF TalkInv, Outcome

\* The worker flushes.
LEMMA WorkFlushTalk ==
  ASSUME TalkInv, WorkFlush
  PROVE  TalkInv'
<1> USE FlushersAssumption, LinesAssumption DEF Procs, Loggers, Go, Free
<1>1. StaysQuiet
  BY DEF WorkFlush, StaysQuiet, Talking, TalkInv, TypeOK, Places, job, logs, context, world
<1>2. Outcome'
  BY <1>1, QuietKeepsOutcome
<1>3. Places'
  BY DEF WorkFlush, TalkInv, TypeOK, Places, Counting
<1>4. Counting'
  BY DEF WorkFlush, TalkInv, TypeOK, Places, Counting, logs
<1>5. TypeOK'
  BY <1>1, <1>3 DEF WorkFlush, StaysQuiet, TalkInv, TypeOK, Places, Counting, job, logs, context, world
<1> QED BY <1>2, <1>3, <1>4, <1>5 DEF TalkInv, Outcome

\* setFail or setComplete.
LEMMA WorkSetTalk ==
  ASSUME TalkInv, WorkSet
  PROVE  TalkInv'
<1> USE FlushersAssumption, LinesAssumption DEF Procs, Loggers, Go, Free
<1>1. StaysQuiet
  BY DEF WorkSet, StaysQuiet, Talking, TalkInv, TypeOK, Places, job, logs, context, world
<1>2. Outcome'
  BY <1>1, QuietKeepsOutcome
<1>3. Places'
  BY DEF WorkSet, TalkInv, TypeOK, Places, Counting
<1>4. Counting'
  BY DEF WorkSet, TalkInv, TypeOK, Places, Counting, logs
<1>5. TypeOK'
  BY <1>1, <1>3 DEF WorkSet, StaysQuiet, TalkInv, TypeOK, Places, Counting, job, logs, context, world
<1> QED BY <1>2, <1>3, <1>4, <1>5 DEF TalkInv, Outcome

\* The worker logs its last line.
LEMMA WorkDoneTalk ==
  ASSUME TalkInv, NEW o \in {"failed", "completed"}, WorkDone(o)
  PROVE  TalkInv'
<1> USE LinesAssumption
<1>1. QueueLog("swap") /\ pc["work"] = "working"
  BY DEF WorkDone
<1>2. /\ StaysQuiet
      /\ Places' /\ pc' \in [Procs -> Steps] /\ pc'["work"] = "swap"
      /\ timer' \in {"nil", "armed", "stopped"}
  BY <1>1, QueueLogMoves
<1>3. Outcome'
  BY <1>2, QuietKeepsOutcome
<1>4. line \in 0 .. MaxLines + 1 /\ line' = line + 1 /\ line' \in 0 .. MaxLines + 1
  BY <1>1 DEF TalkInv, TypeOK, Counting, QueueLog, WorkDone
<1>5. Counting'
  BY <1>2, <1>4 DEF Counting, TalkInv, WorkDone
<1>6. queue' \in Seq(1 .. MaxLines + 1)
  <2>1. queue \in Seq(1 .. MaxLines + 1) /\ queue' = Append(queue, line') /\ line' \in 1 .. MaxLines + 1
    BY <1>1, <1>4 DEF QueueLog, TalkInv, TypeOK
  <2> QED BY <2>1
<1>7. /\ outcome' \in {"none", "failed", "completed"}
      /\ UNCHANGED <<mutex, serverMutex, job, context, batch, delivered, terminal, world>>
  BY <1>1 DEF WorkDone, QueueLog, TalkInv, TypeOK
<1>8. TypeOK'
  BY <1>2, <1>4, <1>6, <1>7 DEF TalkInv, TypeOK, Steps, job, context, world
<1> QED BY <1>2, <1>3, <1>5, <1>8 DEF TalkInv, Outcome

\* The timer fires.
LEMMA TimerFiresTalk ==
  ASSUME TalkInv, NEW p \in Flushers, TimerFires(p)
  PROVE  TalkInv'
<1> USE FlushersAssumption, LinesAssumption DEF Procs, Loggers, Go, Free
<1>1. StaysQuiet
  BY DEF TimerFires, StaysQuiet, Talking, TalkInv, TypeOK, Places, job, logs, context, world
<1>2. Outcome'
  BY <1>1, QuietKeepsOutcome
<1>3. Places'
  BY DEF TimerFires, TalkInv, TypeOK, Places, Counting
<1>4. Counting'
  BY DEF TimerFires, TalkInv, TypeOK, Places, Counting, logs
<1>5. TypeOK'
  BY <1>1, <1>3 DEF TimerFires, StaysQuiet, TalkInv, TypeOK, Places, Counting, job, logs, context, world
<1> QED BY <1>2, <1>3, <1>4, <1>5 DEF TalkInv, Outcome

\* A goroutine takes the queue.
LEMMA SwapTalk ==
  ASSUME TalkInv, NEW p \in Loggers, Swap(p)
  PROVE  TalkInv'
<1> USE FlushersAssumption, LinesAssumption DEF Procs, Loggers, Go, Free
<1>1. StaysQuiet
  BY DEF Swap, StaysQuiet, Talking, TalkInv, TypeOK, Places, job, logs, context, world
<1>2. Outcome'
  BY <1>1, QuietKeepsOutcome
<1>3. Places'
  BY DEF Swap, TalkInv, TypeOK, Places, Counting
<1>4. Counting'
  BY DEF Swap, TalkInv, TypeOK, Places, Counting, logs
<1>5. TypeOK'
  BY <1>1, <1>3 DEF Swap, StaysQuiet, TalkInv, TypeOK, Places, Counting, job, logs, context, world
<1> QED BY <1>2, <1>3, <1>4, <1>5 DEF TalkInv, Outcome

\* An update begins.
LEMMA BeginUpdateTalk ==
  ASSUME TalkInv, NEW p \in Loggers \union {"beat"}, BeginUpdate(p)
  PROVE  TalkInv'
<1> USE FlushersAssumption, LinesAssumption DEF Procs, Loggers, Go, Free
<1>1. Begins(p)
  BY DEF BeginUpdate, Begins, Talking, TalkInv, TypeOK, Places, job, logs, context, world
<1>2. Outcome'
  BY <1>1, BeginKeepsOutcome
<1>3. Places'
  BY DEF BeginUpdate, TalkInv, TypeOK, Places, Counting
<1>4. Counting'
  BY DEF BeginUpdate, TalkInv, TypeOK, Places, Counting, logs
<1>5. TypeOK'
  BY <1>1, <1>3 DEF BeginUpdate, Begins, TalkInv, TypeOK, Places, Counting, job, logs, context, world
<1> QED BY <1>2, <1>3, <1>4, <1>5 DEF TalkInv, Outcome

\* An update is skipped.
LEMMA SkipUpdateTalk ==
  ASSUME TalkInv, NEW p \in Loggers, SkipUpdate(p)
  PROVE  TalkInv'
<1> USE FlushersAssumption, LinesAssumption DEF Procs, Loggers, Go, Free
<1>1. StaysQuiet
  BY DEF SkipUpdate, AfterFlush, StaysQuiet, Talking, TalkInv, TypeOK, Places, job, logs, context, world
<1>2. Outcome'
  BY <1>1, QuietKeepsOutcome
<1>3. Places'
  BY DEF SkipUpdate, AfterFlush, TalkInv, TypeOK, Places, Counting
<1>4. Counting'
  BY DEF SkipUpdate, AfterFlush, TalkInv, TypeOK, Places, Counting, logs
<1>5. TypeOK'
  BY <1>1, <1>3 DEF SkipUpdate, AfterFlush, StaysQuiet, TalkInv, TypeOK, Places, Counting, job, logs, context, world
<1> QED BY <1>2, <1>3, <1>4, <1>5 DEF TalkInv, Outcome

\* An update of logs ends.
LEMMA EndUpdateTalk ==
  ASSUME TalkInv, NEW p \in Loggers, EndUpdate(p)
  PROVE  TalkInv'
<1> USE FlushersAssumption, LinesAssumption DEF Procs, Loggers, Go, Free
<1>1. Ends(p)
  BY DEF EndUpdate, AfterFlush, Ends, Talking, TalkInv, TypeOK, Places, job, logs, context, world
<1>2. Outcome'
  BY <1>1, EndKeepsOutcome
<1>3. Places'
  BY DEF EndUpdate, AfterFlush, TalkInv, TypeOK, Places, Counting
<1>4. Counting'
  BY DEF EndUpdate, AfterFlush, TalkInv, TypeOK, Places, Counting, logs
<1>5. TypeOK'
  <2>1. delivered' \in Seq(1 .. MaxLines + 1)
    <3>1. batch[p] \in Seq(1 .. MaxLines + 1) /\ delivered \in Seq(1 .. MaxLines + 1)
      BY DEF TalkInv, TypeOK
    <3>2. delivered' = delivered \o batch[p] \/ delivered' = delivered
      BY DEF EndUpdate
    <3>3. delivered \o batch[p] \in Seq(1 .. MaxLines + 1)
      BY <3>1
    <3> QED BY <3>1, <3>2, <3>3
  <2>2. batch' \in [Loggers -> Seq(1 .. MaxLines + 1)]
    BY DEF EndUpdate, TalkInv, TypeOK
  <2>3. pc' \in [Procs -> Steps]
    BY DEF EndUpdate, AfterFlush, TalkInv, TypeOK, Steps
  <2>4. /\ mutex' = "free"
        /\ UNCHANGED <<serverMutex, job, context, outcome, line, queue, timer, terminal, world>>
    BY DEF EndUpdate
  <2> QED BY <2>1, <2>2, <2>3, <2>4 DEF TalkInv, TypeOK, Steps, job, context, world
<1> QED BY <1>2, <1>3, <1>4, <1>5 DEF TalkInv, Outcome

\* Fail sends its message.
LEMMA FailBeginTalk ==
  ASSUME TalkInv, NEW p \in {"beat", "close"}, FailBegin(p)
  PROVE  TalkInv'
<1> USE FlushersAssumption, LinesAssumption DEF Procs, Loggers, Go, Free
<1>1. Begins(p)
  BY DEF FailBegin, Begins, Talking, TalkInv, TypeOK, Places, job, logs, context, world
<1>2. Outcome'
  BY <1>1, BeginKeepsOutcome
<1>3. Places'
  BY DEF FailBegin, TalkInv, TypeOK, Places, Counting
<1>4. Counting'
  BY DEF FailBegin, TalkInv, TypeOK, Places, Counting, logs
<1>5. TypeOK'
  BY <1>1, <1>3 DEF FailBegin, Begins, TalkInv, TypeOK, Places, Counting, job, logs, context, world
<1> QED BY <1>2, <1>3, <1>4, <1>5 DEF TalkInv, Outcome

\* Fail finds the job over.
LEMMA FailSkipTalk ==
  ASSUME TalkInv, NEW p \in {"beat", "close"}, FailSkip(p)
  PROVE  TalkInv'
<1> USE FlushersAssumption, LinesAssumption DEF Procs, Loggers, Go, Free
<1>1. StaysQuiet
  BY DEF FailSkip, StaysQuiet, Talking, TalkInv, TypeOK, Places, job, logs, context, world
<1>2. Outcome'
  BY <1>1, QuietKeepsOutcome
<1>3. Places'
  BY DEF FailSkip, TalkInv, TypeOK, Places, Counting
<1>4. Counting'
  BY DEF FailSkip, TalkInv, TypeOK, Places, Counting, logs
<1>5. TypeOK'
  BY <1>1, <1>3 DEF FailSkip, StaysQuiet, TalkInv, TypeOK, Places, Counting, job, logs, context, world
<1> QED BY <1>2, <1>3, <1>4, <1>5 DEF TalkInv, Outcome

\* The message of Fail ends.
LEMMA FailEndTalk ==
  ASSUME TalkInv, NEW p \in {"beat", "close"}, FailEnd(p)
  PROVE  TalkInv'
<1> USE FlushersAssumption, LinesAssumption DEF Procs, Loggers, Go, Free
<1>1. Ends(p)
  BY DEF FailEnd, Ends, Talking, TalkInv, TypeOK, Places, job, logs, context, world
<1>2. Outcome'
  BY <1>1, EndKeepsOutcome
<1>3. Places'
  BY DEF FailEnd, TalkInv, TypeOK, Places, Counting
<1>4. Counting'
  BY DEF FailEnd, TalkInv, TypeOK, Places, Counting, logs
<1>5. TypeOK'
  <2>1. pc' \in [Procs -> Steps]
    BY DEF FailEnd, TalkInv, TypeOK, Steps
  <2>2. mutex' = "free" /\ okToSend' = FALSE /\ canceled' = TRUE /\ stopped' = TRUE
    BY DEF FailEnd
  <2>4. done' \in Nat
    BY DEF FailEnd, TalkInv, TypeOK
  <2>5. serverMutex' \in {"free", "close", "shutdown"}
    BY DEF FailEnd, TalkInv, TypeOK
  <2>3. UNCHANGED <<failedJob, completedJob, outcome, logs, terminal, world>>
    BY DEF FailEnd
  <2> QED BY <2>1, <2>2, <2>3, <2>4, <2>5 DEF TalkInv, TypeOK, Steps, logs, world
<1> QED BY <1>2, <1>3, <1>4, <1>5 DEF TalkInv, Outcome

\* The heartbeat is due.
LEMMA BeatTickTalk ==
  ASSUME TalkInv, BeatTick
  PROVE  TalkInv'
<1> USE FlushersAssumption, LinesAssumption DEF Procs, Loggers, Go, Free
<1>1. StaysQuiet
  BY DEF BeatTick, StaysQuiet, Talking, TalkInv, TypeOK, Places, job, logs, context, world
<1>2. Outcome'
  BY <1>1, QuietKeepsOutcome
<1>3. Places'
  BY DEF BeatTick, TalkInv, TypeOK, Places, Counting
<1>4. Counting'
  BY DEF BeatTick, TalkInv, TypeOK, Places, Counting, logs
<1>5. TypeOK'
  BY <1>1, <1>3 DEF BeatTick, StaysQuiet, TalkInv, TypeOK, Places, Counting, job, logs, context, world
<1> QED BY <1>2, <1>3, <1>4, <1>5 DEF TalkInv, Outcome

\* The heartbeat returns.
LEMMA BeatReturnTalk ==
  ASSUME TalkInv, BeatReturn
  PROVE  TalkInv'
<1> USE FlushersAssumption, LinesAssumption DEF Procs, Loggers, Go, Free
<1>1. StaysQuiet
  BY DEF BeatReturn, StaysQuiet, Talking, TalkInv, TypeOK, Places, job, logs, context, world
<1>2. Outcome'
  BY <1>1, QuietKeepsOutcome
<1>3. Places'
  BY DEF BeatReturn, TalkInv, TypeOK, Places, Counting
<1>4. Counting'
  BY DEF BeatReturn, TalkInv, TypeOK, Places, Counting, logs
<1>5. TypeOK'
  BY <1>1, <1>3 DEF BeatReturn, StaysQuiet, TalkInv, TypeOK, Places, Counting, job, logs, context, world
<1> QED BY <1>2, <1>3, <1>4, <1>5 DEF TalkInv, Outcome

\* The heartbeat may not be sent.
LEMMA BeatSkipTalk ==
  ASSUME TalkInv, BeatSkip
  PROVE  TalkInv'
<1> USE FlushersAssumption, LinesAssumption DEF Procs, Loggers, Go, Free
<1>1. StaysQuiet
  BY DEF BeatSkip, StaysQuiet, Talking, TalkInv, TypeOK, Places, job, logs, context, world
<1>2. Outcome'
  BY <1>1, QuietKeepsOutcome
<1>3. Places'
  BY DEF BeatSkip, TalkInv, TypeOK, Places, Counting
<1>4. Counting'
  BY DEF BeatSkip, TalkInv, TypeOK, Places, Counting, logs
<1>5. TypeOK'
  BY <1>1, <1>3 DEF BeatSkip, StaysQuiet, TalkInv, TypeOK, Places, Counting, job, logs, context, world
<1> QED BY <1>2, <1>3, <1>4, <1>5 DEF TalkInv, Outcome

\* The heartbeat is answered.
LEMMA BeatAnswerTalk ==
  ASSUME TalkInv, BeatAnswer
  PROVE  TalkInv'
<1> USE FlushersAssumption, LinesAssumption DEF Procs, Loggers, Go, Free
<1>1. Ends("beat")
  BY DEF BeatAnswer, Ends, Talking, TalkInv, TypeOK, Places, job, logs, context, world
<1>2. Outcome'
  BY <1>1, EndKeepsOutcome
<1>3. /\ \/ pc' = [pc EXCEPT !["beat"] = "awaiting"]
         \/ pc' = [pc EXCEPT !["beat"] = "ticking"]
      /\ canceled' = TRUE \/ canceled' = canceled
      /\ mutex' = "free"
      /\ UNCHANGED <<serverMutex, job, stopped, outcome, logs, terminal, world>>
  BY Zenon DEF BeatAnswer
<1>4. Places' /\ pc' \in [Procs -> Steps]
  <2>1. CASE pc' = [pc EXCEPT !["beat"] = "awaiting"]
    BY <2>1 DEF TalkInv, TypeOK, Places, Steps
  <2>2. CASE pc' = [pc EXCEPT !["beat"] = "ticking"]
    BY <2>2 DEF TalkInv, TypeOK, Places, Steps
  <2> QED BY <1>3, <2>1, <2>2
<1>5. Counting'
  BY <1>3 DEF TalkInv, TypeOK, Places, Counting, logs
<1>6. TypeOK'
  <2>1. canceled' \in BOOLEAN
    BY <1>3 DEF TalkInv, TypeOK
  <2>2. serverMutex' \in {"free", "close", "shutdown"} /\ mutex' \in Procs \union {"free"}
    BY <1>3 DEF TalkInv, TypeOK
  <2>3. UNCHANGED <<job, stopped, outcome, logs, terminal, world>>
    BY <1>3
  <2> QED BY <1>4, <2>1, <2>2, <2>3 DEF TalkInv, TypeOK, Steps, job, logs, world
<1> QED BY <1>2, <1>4, <1>5, <1>6 DEF TalkInv, Outcome

\* The heartbeat fails.
LEMMA BeatErrorTalk ==
  ASSUME TalkInv, BeatError
  PROVE  TalkInv'
<1> USE FlushersAssumption, LinesAssumption DEF Procs, Loggers, Go, Free
<1>1. Ends("beat")
  BY DEF BeatError, Ends, Talking, TalkInv, TypeOK, Places, job, logs, context, world
<1>2. Outcome'
  BY <1>1, EndKeepsOutcome
<1>3. Places'
  BY DEF BeatError, TalkInv, TypeOK, Places, Counting
<1>4. Counting'
  BY DEF BeatError, TalkInv, TypeOK, Places, Counting, logs
<1>5. TypeOK'
  BY <1>1, <1>3 DEF BeatError, Ends, TalkInv, TypeOK, Places, Counting, job, logs, context, world
<1> QED BY <1>2, <1>3, <1>4, <1>5 DEF TalkInv, Outcome

\* The job ends while the heartbeat waits.
LEMMA BeatOverTalk ==
  ASSUME TalkInv, BeatOver
  PROVE  TalkInv'
<1> USE FlushersAssumption, LinesAssumption DEF Procs, Loggers, Go, Free
<1>1. StaysQuiet
  BY DEF BeatOver, StaysQuiet, Talking, TalkInv, TypeOK, Places, job, logs, context, world
<1>2. Outcome'
  BY <1>1, QuietKeepsOutcome
<1>3. Places'
  BY DEF BeatOver, TalkInv, TypeOK, Places, Counting
<1>4. Counting'
  BY DEF BeatOver, TalkInv, TypeOK, Places, Counting, logs
<1>5. TypeOK'
  BY <1>1, <1>3 DEF BeatOver, StaysQuiet, TalkInv, TypeOK, Places, Counting, job, logs, context, world
<1> QED BY <1>2, <1>3, <1>4, <1>5 DEF TalkInv, Outcome

\* forceCancelInterval passes.
LEMMA BeatTimeoutTalk ==
  ASSUME TalkInv, BeatTimeout
  PROVE  TalkInv'
<1> USE FlushersAssumption, LinesAssumption DEF Procs, Loggers, Go, Free
<1>1. StaysQuiet
  BY DEF BeatTimeout, StaysQuiet, Talking, TalkInv, TypeOK, Places, job, logs, context, world
<1>2. Outcome'
  BY <1>1, QuietKeepsOutcome
<1>3. Places'
  BY DEF BeatTimeout, TalkInv, TypeOK, Places, Counting
<1>4. Counting'
  BY DEF BeatTimeout, TalkInv, TypeOK, Places, Counting, logs
<1>5. TypeOK'
  BY <1>1, <1>3 DEF BeatTimeout, StaysQuiet, TalkInv, TypeOK, Places, Counting, job, logs, context, world
<1> QED BY <1>2, <1>3, <1>4, <1>5 DEF TalkInv, Outcome

\* Shutdown of the daemon.
LEMMA ShutdownTalk ==
  ASSUME TalkInv, Shutdown
  PROVE  TalkInv'
<1> USE FlushersAssumption, LinesAssumption DEF Procs, Loggers, Go, Free
<1>1. StaysQuiet
  BY DEF Shutdown, StaysQuiet, Talking, TalkInv, TypeOK, Places, job, logs, context, world
<1>2. Outcome'
  BY <1>1, QuietKeepsOutcome
<1>3. /\ \/ pc' = [pc EXCEPT !["shutdown"] = "returned"]
         \/ pc' = [pc EXCEPT !["shutdown"] = "awaiting"]
      /\ canceled' = TRUE \/ canceled' = canceled
      /\ serverMutex' = "shutdown" \/ serverMutex' = serverMutex
      /\ UNCHANGED <<mutex, job, stopped, outcome, logs, terminal, world>>
  BY Zenon DEF Shutdown
<1>4. Places' /\ pc' \in [Procs -> Steps]
  <2>1. CASE pc' = [pc EXCEPT !["shutdown"] = "returned"]
    BY <2>1 DEF TalkInv, TypeOK, Places, Steps
  <2>2. CASE pc' = [pc EXCEPT !["shutdown"] = "awaiting"]
    BY <2>2 DEF TalkInv, TypeOK, Places, Steps
  <2> QED BY <1>3, <2>1, <2>2
<1>5. Counting'
  BY <1>3 DEF TalkInv, TypeOK, Places, Counting, logs
<1>6. TypeOK'
  <2>1. canceled' \in BOOLEAN
    BY <1>3 DEF TalkInv, TypeOK
  <2>2. serverMutex' \in {"free", "close", "shutdown"} /\ mutex' \in Procs \union {"free"}
    BY <1>3 DEF TalkInv, TypeOK
  <2>3. UNCHANGED <<job, stopped, outcome, logs, terminal, world>>
    BY <1>3
  <2> QED BY <1>4, <2>1, <2>2, <2>3 DEF TalkInv, TypeOK, Steps, job, logs, world
<1> QED BY <1>2, <1>4, <1>5, <1>6 DEF TalkInv, Outcome

\* Shutdown returns.
LEMMA ShutdownReturnTalk ==
  ASSUME TalkInv, ShutdownReturn
  PROVE  TalkInv'
<1> USE FlushersAssumption, LinesAssumption DEF Procs, Loggers, Go, Free
<1>1. StaysQuiet
  BY DEF ShutdownReturn, StaysQuiet, Talking, TalkInv, TypeOK, Places, job, logs, context, world
<1>2. Outcome'
  BY <1>1, QuietKeepsOutcome
<1>3. Places'
  BY DEF ShutdownReturn, TalkInv, TypeOK, Places, Counting
<1>4. Counting'
  BY DEF ShutdownReturn, TalkInv, TypeOK, Places, Counting, logs
<1>5. TypeOK'
  BY <1>1, <1>3 DEF ShutdownReturn, StaysQuiet, TalkInv, TypeOK, Places, Counting, job, logs, context, world
<1> QED BY <1>2, <1>3, <1>4, <1>5 DEF TalkInv, Outcome

\* Close of the daemon.
LEMMA CloseTalk ==
  ASSUME TalkInv, Close
  PROVE  TalkInv'
<1> USE FlushersAssumption, LinesAssumption DEF Procs, Loggers, Go, Free
<1>1. StaysQuiet
  BY DEF Close, StaysQuiet, Talking, TalkInv, TypeOK, Places, job, logs, context, world
<1>2. Outcome'
  BY <1>1, QuietKeepsOutcome
<1>3. Places'
  BY DEF Close, TalkInv, TypeOK, Places, Counting
<1>4. Counting'
  BY DEF Close, TalkInv, TypeOK, Places, Counting, logs
<1>5. TypeOK'
  BY <1>1, <1>3 DEF Close, StaysQuiet, TalkInv, TypeOK, Places, Counting, job, logs, context, world
<1> QED BY <1>2, <1>3, <1>4, <1>5 DEF TalkInv, Outcome

\* coderd cancels the job.
LEMMA CancelJobTalk ==
  ASSUME TalkInv, CancelJob
  PROVE  TalkInv'
<1> USE FlushersAssumption, LinesAssumption DEF Procs, Loggers, Go, Free
<1>1. StaysQuiet
  BY DEF CancelJob, StaysQuiet, Talking, TalkInv, TypeOK, Places, job, logs, context, world
<1>2. Outcome'
  BY <1>1, QuietKeepsOutcome
<1>3. Places'
  BY DEF CancelJob, TalkInv, TypeOK, Places, Counting
<1>4. Counting'
  BY DEF CancelJob, TalkInv, TypeOK, Places, Counting, logs
<1>5. TypeOK'
  BY <1>1, <1>3 DEF CancelJob, StaysQuiet, TalkInv, TypeOK, Places, Counting, job, logs, context, world
<1> QED BY <1>2, <1>3, <1>4, <1>5 DEF TalkInv, Outcome

\* coderd cannot be reached.
LEMMA LinkDownTalk ==
  ASSUME TalkInv, LinkDown
  PROVE  TalkInv'
<1> USE FlushersAssumption, LinesAssumption DEF Procs, Loggers, Go, Free
<1>1. StaysQuiet
  BY DEF LinkDown, StaysQuiet, Talking, TalkInv, TypeOK, Places, job, logs, context, world
<1>2. Outcome'
  BY <1>1, QuietKeepsOutcome
<1>3. Places'
  BY DEF LinkDown, TalkInv, TypeOK, Places, Counting
<1>4. Counting'
  BY DEF LinkDown, TalkInv, TypeOK, Places, Counting, logs
<1>5. TypeOK'
  BY <1>1, <1>3 DEF LinkDown, StaysQuiet, TalkInv, TypeOK, Places, Counting, job, logs, context, world
<1> QED BY <1>2, <1>3, <1>4, <1>5 DEF TalkInv, Outcome

\* coderd can be reached again.
LEMMA LinkUpTalk ==
  ASSUME TalkInv, LinkUp
  PROVE  TalkInv'
<1> USE FlushersAssumption, LinesAssumption DEF Procs, Loggers, Go, Free
<1>1. StaysQuiet
  BY DEF LinkUp, StaysQuiet, Talking, TalkInv, TypeOK, Places, job, logs, context, world
<1>2. Outcome'
  BY <1>1, QuietKeepsOutcome
<1>3. Places'
  BY DEF LinkUp, TalkInv, TypeOK, Places, Counting
<1>4. Counting'
  BY DEF LinkUp, TalkInv, TypeOK, Places, Counting, logs
<1>5. TypeOK'
  BY <1>1, <1>3 DEF LinkUp, StaysQuiet, TalkInv, TypeOK, Places, Counting, job, logs, context, world
<1> QED BY <1>2, <1>3, <1>4, <1>5 DEF TalkInv, Outcome

\* ForceStop closes done if nobody has.
LEMMA ForceStopTalk ==
  ASSUME TalkInv, ForceStop
  PROVE  TalkInv'
<1> USE FlushersAssumption, LinesAssumption DEF Procs, Loggers, Go, Free
<1>1. /\ mutex = "free" /\ mutex' = "free" /\ okToSend' = FALSE
      /\ \/ okToSend /\ done' = done + 1 /\ failedJob' = TRUE
         \/ ~okToSend /\ done' = done /\ failedJob' = failedJob
      /\ pc["close"] = "forcing"
      /\ pc' = [pc EXCEPT !["close"] = "returned"]
      /\ serverMutex' = "free" /\ stopped' = TRUE /\ canceled' = TRUE
      /\ UNCHANGED <<completedJob, outcome, logs, terminal, world>>
  BY Zenon DEF ForceStop, Go, Free
<1>2. \A q \in Procs : pc'[q] = pc[q] \/ (~Talking(q) /\ ~Talking(q)')
  BY <1>1 DEF Talking, TalkInv, TypeOK
<1>3. HeldOverMessages'
  BY <1>1, <1>2 DEF TalkInv, HeldOverMessages, Talking
<1>4. done' = 1
  <2>1. CASE okToSend
    BY <1>1, <2>1 DEF TalkInv, Ending
  <2>2. CASE ~okToSend
    BY <1>1, <2>2 DEF TalkInv, Ending
  <2> QED BY <2>1, <2>2
<1>5. Ending'
  BY <1>1, <1>4 DEF TalkInv, Ending
<1>6. Places' /\ pc' \in [Procs -> Steps]
  BY <1>1 DEF TalkInv, TypeOK, Places, Steps
<1>7. Counting'
  BY <1>1 DEF TalkInv, TypeOK, Counting, logs
<1>8. TypeOK'
  <2>1. failedJob' \in BOOLEAN
    BY <1>1 DEF TalkInv, TypeOK
  <2> QED BY <1>1, <1>4, <1>6, <2>1 DEF TalkInv, TypeOK, Steps, logs, world
<1> QED BY <1>3, <1>5, <1>6, <1>7, <1>8 DEF TalkInv

-----------------------------------------------------------------------------
(* The theorems about the outcome.                                         *)

\* When Run has been started nobody has sent anything.
LEMMA InitTalk ==
  ASSUME Init
  PROVE  TalkInv
<1> USE FlushersAssumption, LinesAssumption DEF Procs, Loggers, Init
<1>1. \A p \in Procs : ~Talking(p) /\ p # "free"
  BY DEF Talking
<1>2. HeldOverMessages
  BY <1>1 DEF HeldOverMessages
<1>3. Places /\ Ending /\ Counting
  BY DEF Places, Ending, Counting
<1>4. TypeOK
  <2>1. queue \in Seq(1 .. MaxLines + 1) /\ delivered \in Seq(1 .. MaxLines + 1)
    OBVIOUS
  <2>2. batch \in [Loggers -> Seq(1 .. MaxLines + 1)]
    OBVIOUS
  <2>3. terminal \in Seq({"fail", "complete"})
    OBVIOUS
  <2>4. line \in 0 .. MaxLines + 1
    OBVIOUS
  <2>5. pc \in [Procs -> Steps]
    BY DEF Steps
  <2> QED BY <2>1, <2>2, <2>3, <2>4, <2>5 DEF TypeOK, Steps
<1> QED BY <1>2, <1>3, <1>4 DEF TalkInv

\* A step of the log queue's goroutines.
LEMMA FlushStepTalk ==
  ASSUME TalkInv, NEW p \in Loggers, FlushStep(p)
  PROVE  TalkInv'
BY SwapTalk, BeginUpdateTalk, SkipUpdateTalk, EndUpdateTalk DEF FlushStep, Loggers

\* A step of Fail.
LEMMA FailStepTalk ==
  ASSUME TalkInv, NEW p \in {"beat", "close"}, FailStep(p)
  PROVE  TalkInv'
BY FailBeginTalk, FailSkipTalk, FailEndTalk DEF FailStep

\* TalkInv is inductive.
LEMMA NextTalk ==
  ASSUME TalkInv, [Next]_vars
  PROVE  TalkInv'
<1>1. CASE RunStep
  BY <1>1, RunWakeTalk, RunSkipTalk, RunSentTalk DEF RunStep
<1>2. CASE WorkStep
  <2>1. "work" \in Loggers
    BY DEF Loggers
  <2> QED BY <1>2, <2>1, WorkLogTalk, WorkFlushTalk, WorkSetTalk, WorkDoneTalk, FlushStepTalk
          DEF WorkStep
<1>3. CASE TimerStep
  <2>1. PICK f \in Flushers : TimerFires(f) \/ FlushStep(f)
    BY <1>3 DEF TimerStep
  <2>2. f \in Loggers
    BY DEF Loggers
  <2> QED BY <2>1, <2>2, TimerFiresTalk, FlushStepTalk
<1>4. CASE BeatStep
  <2>1. BeginUpdate("beat") => TalkInv'
    BY BeginUpdateTalk
  <2> QED BY <1>4, <2>1, BeatTickTalk, BeatReturnTalk, BeatSkipTalk, BeatAnswerTalk, BeatErrorTalk,
             BeatOverTalk, BeatTimeoutTalk, FailStepTalk DEF BeatStep
<1>5. CASE CloseStep
  BY <1>5, CloseTalk, FailStepTalk, ForceStopTalk DEF CloseStep
<1>6. CASE ShutdownStep
  BY <1>6, ShutdownTalk, ShutdownReturnTalk DEF ShutdownStep
<1>7. CASE CancelJob \/ LinkDown \/ LinkUp
  BY <1>7, CancelJobTalk, LinkDownTalk, LinkUpTalk
<1>8. CASE UNCHANGED vars
  <2>1. UNCHANGED <<mutex, serverMutex, pc, job, context, outcome, logs, terminal, world>>
    BY <1>8 DEF vars
  <2>2. TypeOK'
    BY <2>1 DEF TalkInv, TypeOK, job, context, logs, world
  <2>3. Places' /\ HeldOverMessages' /\ Ending' /\ Counting'
    BY <2>1 DEF TalkInv, Places, HeldOverMessages, Talking, Ending, Counting, job, logs
  <2> QED BY <2>2, <2>3 DEF TalkInv
<1> QED BY <1>1, <1>2, <1>3, <1>4, <1>5, <1>6, <1>7, <1>8 DEF Next

\* In every reachable state of a runner r.mutex is held over the one message under way, and
\* done is closed exactly when okToSend was taken back.
THEOREM TalkInvariant == Spec => []TalkInv
<1>1. Init => TalkInv
  BY InitTalk
<1>2. TalkInv /\ [Next]_vars => TalkInv'
  BY NextTalk
<1> QED BY <1>1, <1>2, PTL DEF Spec

\* The goroutines of a runner and its fields keep their types.
THEOREM RunnerTypeCorrect == Spec => []TypeOK
<1>1. TalkInv => TypeOK
  BY DEF TalkInv
<1> QED BY <1>1, TalkInvariant, PTL

\* r.done is closed at most once, whichever of Run, the heartbeat, Close and ForceStop
\* end the job: a second close would panic.
THEOREM DoneClosedOnce == Spec => []DoneOnce
<1>1. TalkInv => DoneOnce
  BY DEF TalkInv, Ending, DoneOnce
<1> QED BY <1>1, TalkInvariant, PTL

\* coderd is told one outcome at most: CompleteJob by Run, or FailJob by one of Run, the
\* heartbeat and Close.
THEOREM OneOutcome == Spec => []OneTerminal
<1>1. TalkInv => OneTerminal
  BY DEF TalkInv, Ending, OneTerminal
<1> QED BY <1>1, TalkInvariant, PTL

\* Nothing is sent behind the outcome: no update overtakes it or follows it, and done is
\* closed after the terminal message has been answered or given up.
THEOREM QuietAfterOutcome == Spec => []QuietWhenOver
<1>1. ASSUME TalkInv
      PROVE  QuietWhenOver
  <2> SUFFICES ASSUME NEW p \in Procs
               PROVE  /\ terminal # <<>> => pc[p] # "updating"
                      /\ done > 0 => pc[p] # "sending"
    BY DEF QuietWhenOver
  <2>1. p # "free"
    BY FlushersAssumption DEF Procs
  <2>2. Talking(p) => mutex = p /\ okToSend /\ done = 0
    BY <1>1, <2>1 DEF TalkInv, HeldOverMessages, Ending
  <2>3. pc[p] = "updating" => \A q \in Procs : pc[q] # "sending"
    BY <1>1, <2>2 DEF TalkInv, HeldOverMessages, Talking
  <2> QED BY <1>1, <2>2, <2>3 DEF TalkInv, Ending, Talking
<1> QED BY <1>1, TalkInvariant, PTL

-----------------------------------------------------------------------------
(* The log lines: every line is in at most one place.                      *)

Line == 1 .. MaxLines + 1

Distinct(s) == \A i, k \in 1 .. Len(s) : s[i] = s[k] => i = k
Apart(s, t) == \A i \in 1 .. Len(s), k \in 1 .. Len(t) : s[i] # t[k]
UpTo(s, n) == \A i \in 1 .. Len(s) : s[i] <= n

\* A sequence of different lines written so far.
Written(s, n) == Distinct(s) /\ UpTo(s, n)

\* The queue q, the batches b and what was delivered, d, share none of the lines 1 .. n.
OnePlace(q, b, d, n) ==
    /\ Written(q, n) /\ Written(d, n) /\ Apart(q, d)
    /\ \A p \in Loggers : Written(b[p], n) /\ Apart(q, b[p]) /\ Apart(b[p], d)
    /\ \A p, r \in Loggers : p # r => Apart(b[p], b[r])

LinesInv == OnePlace(queue, batch, delivered, line)

\* A new line is not one of the earlier ones.
LEMMA AppendWritten ==
  ASSUME NEW s \in Seq(Line), NEW n \in Nat, Written(s, n)
  PROVE  Written(Append(s, n + 1), n + 1)
<1>1. Append(s, n + 1) \in Seq(Nat) /\ Len(Append(s, n + 1)) = Len(s) + 1
  BY LinesAssumption DEF Line
<1>2. Append(s, n + 1)[Len(s) + 1] = n + 1
      /\ \A i \in 1 .. Len(s) : Append(s, n + 1)[i] = s[i] /\ s[i] \in Nat /\ s[i] <= n
  BY LinesAssumption DEF Line, Written, UpTo
<1>3. Distinct(Append(s, n + 1))
  BY <1>1, <1>2 DEF Distinct, Written
<1>4. UpTo(Append(s, n + 1), n + 1)
  BY <1>1, <1>2 DEF UpTo
<1> QED BY <1>3, <1>4 DEF Written

\* Nor is it in any other place.
LEMMA AppendApart ==
  ASSUME NEW s \in Seq(Line), NEW t \in Seq(Line), NEW n \in Nat,
         Apart(s, t), UpTo(t, n)
  PROVE  Apart(Append(s, n + 1), t)
<1>1. Len(Append(s, n + 1)) = Len(s) + 1 /\ Append(s, n + 1)[Len(s) + 1] = n + 1
      /\ \A i \in 1 .. Len(s) : Append(s, n + 1)[i] = s[i]
  BY LinesAssumption DEF Line
<1>2. \A k \in 1 .. Len(t) : t[k] \in Nat /\ t[k] <= n
  BY LinesAssumption DEF Line, UpTo
<1> QED BY <1>1, <1>2 DEF Apart

\* What was written stays written.
LEMMA WrittenGrows ==
  ASSUME NEW s \in Seq(Line), NEW n \in Nat, Written(s, n)
  PROVE  Written(s, n + 1)
<1>1. \A k \in 1 .. Len(s) : s[k] \in Nat
  BY LinesAssumption DEF Line
<1> QED BY <1>1 DEF Written, UpTo

\* Two batches without a line in common can be sent one behind the other.
LEMMA ConcatWritten ==
  ASSUME NEW s \in Seq(Line), NEW t \in Seq(Line), NEW n \in Nat,
         Written(s, n), Written(t, n), Apart(t, s)
  PROVE  Written(s \o t, n)
<1>1. Len(s \o t) = Len(s) + Len(t) /\ Len(s) \in Nat /\ Len(t) \in Nat
  OBVIOUS
<1>2. \A i \in 1 .. Len(s) : (s \o t)[i] = s[i]
  OBVIOUS
<1>3. \A i \in 1 .. Len(s \o t) : i > Len(s) =>
        i - Len(s) \in 1 .. Len(t) /\ (s \o t)[i] = t[i - Len(s)]
  BY <1>1
<1>4. Distinct(s \o t)
  <2> SUFFICES ASSUME NEW i \in 1 .. Len(s \o t), NEW k \in 1 .. Len(s \o t),
                      (s \o t)[i] = (s \o t)[k]
               PROVE  i = k
    BY DEF Distinct
  <2>1. CASE i <= Len(s) /\ k <= Len(s)
    BY <1>1, <1>2, <2>1 DEF Written, Distinct
  <2>2. CASE i > Len(s) /\ k > Len(s)
    <3>1. t[i - Len(s)] = t[k - Len(s)]
      BY <1>3, <2>2
    <3>2. i - Len(s) = k - Len(s)
      BY <1>3, <2>2, <3>1 DEF Written, Distinct
    <3> QED BY <1>1, <3>2
  <2>3. CASE i <= Len(s) /\ k > Len(s)
    BY <1>1, <1>2, <1>3, <2>3 DEF Apart
  <2>4. CASE i > Len(s) /\ k <= Len(s)
    BY <1>1, <1>2, <1>3, <2>4 DEF Apart
  <2> QED BY <1>1, <2>1, <2>2, <2>3, <2>4
<1>5. UpTo(s \o t, n)
  BY <1>1, <1>2, <1>3 DEF Written, UpTo
<1> QED BY <1>4, <1>5 DEF Written

\* What shares nothing with either part shares nothing with both.
LEMMA ConcatApart ==
  ASSUME NEW r \in Seq(Line), NEW s \in Seq(Line), NEW t \in Seq(Line),
         Apart(r, s), Apart(r, t)
  PROVE  Apart(r, s \o t)
<1>1. Len(s \o t) = Len(s) + Len(t) /\ Len(s) \in Nat /\ Len(t) \in Nat
  OBVIOUS
<1>2. \A i \in 1 .. Len(s) : (s \o t)[i] = s[i]
  OBVIOUS
<1>3. \A i \in 1 .. Len(s \o t) : i > Len(s) =>
        i - Len(s) \in 1 .. Len(t) /\ (s \o t)[i] = t[i - Len(s)]
  BY <1>1
<1> SUFFICES ASSUME NEW i \in 1 .. Len(r), NEW k \in 1 .. Len(s \o t)
             PROVE  r[i] # (s \o t)[k]
  BY DEF Apart
<1>4. CASE k <= Len(s)
  BY <1>1, <1>2, <1>4 DEF Apart
<1>5. CASE k > Len(s)
  BY <1>3, <1>5 DEF Apart
<1> QED BY <1>1, <1>4, <1>5

\* The empty sequence shares nothing.
LEMMA EmptyWritten ==
  ASSUME NEW n
  PROVE  Written(<<>>, n) /\ \A s : Apart(<<>>, s) /\ Apart(s, <<>>)
BY DEF Written, Distinct, UpTo, Apart

\* queueLog.
LEMMA OnePlaceAppend ==
  ASSUME NEW q \in Seq(Line), NEW b \in [Loggers -> Seq(Line)], NEW d \in Seq(Line),
         NEW n \in Nat, OnePlace(q, b, d, n)
  PROVE  OnePlace(Append(q, n + 1), b, d, n + 1)
<1>1. Written(Append(q, n + 1), n + 1)
  BY AppendWritten DEF OnePlace
<1>2. Written(d, n + 1) /\ Apart(Append(q, n + 1), d)
  BY AppendApart, WrittenGrows DEF OnePlace, Written
<1>3. ASSUME NEW p \in Loggers
      PROVE  Written(b[p], n + 1) /\ Apart(Append(q, n + 1), b[p]) /\ Apart(b[p], d)
  <2>1. b[p] \in Seq(Line) /\ Written(b[p], n) /\ Apart(q, b[p]) /\ Apart(b[p], d)
    BY DEF OnePlace
  <2> QED BY <2>1, AppendApart, WrittenGrows DEF Written
<1> QED BY <1>1, <1>2, <1>3 DEF OnePlace

\* flushQueuedLogs takes the queue.
LEMMA OnePlaceTake ==
  ASSUME NEW q \in Seq(Line), NEW b \in [Loggers -> Seq(Line)], NEW d \in Seq(Line),
         NEW n \in Nat, NEW p \in Loggers, OnePlace(q, b, d, n)
  PROVE  OnePlace(<<>>, [b EXCEPT ![p] = q], d, n)
<1> DEFINE c == [b EXCEPT ![p] = q]
<1>1. c[p] = q /\ \A r \in Loggers : r # p => c[r] = b[r]
  OBVIOUS
<1>2. \A r \in Loggers : Apart(b[r], q)
  BY DEF OnePlace, Apart
<1> HIDE DEF c
<1>3. \A r \in Loggers : Written(c[r], n) /\ Apart(c[r], d)
  BY <1>1 DEF OnePlace
<1>4. \A r, t \in Loggers : r # t => Apart(c[r], c[t])
  BY <1>1, <1>2 DEF OnePlace
<1>5. OnePlace(<<>>, c, d, n)
  BY <1>3, <1>4, EmptyWritten DEF OnePlace
<1> QED BY <1>5 DEF c

\* A batch is given up.
LEMMA OnePlaceDrop ==
  ASSUME NEW q \in Seq(Line), NEW b \in [Loggers -> Seq(Line)], NEW d \in Seq(Line),
         NEW n \in Nat, NEW p \in Loggers, OnePlace(q, b, d, n)
  PROVE  OnePlace(q, [b EXCEPT ![p] = <<>>], d, n)
<1> DEFINE c == [b EXCEPT ![p] = <<>>]
<1>1. c[p] = <<>> /\ \A r \in Loggers : r # p => c[r] = b[r]
  OBVIOUS
<1> HIDE DEF c
<1>2. \A r \in Loggers : Written(c[r], n) /\ Apart(q, c[r]) /\ Apart(c[r], d)
  BY <1>1, EmptyWritten DEF OnePlace
<1>3. \A r, t \in Loggers : r # t => Apart(c[r], c[t])
  BY <1>1, EmptyWritten DEF OnePlace
<1>4. OnePlace(q, c, d, n)
  BY <1>2, <1>3 DEF OnePlace
<1> QED BY <1>4 DEF c

\* A batch arrives.
LEMMA OnePlaceSend ==
  ASSUME NEW q \in Seq(Line), NEW b \in [Loggers -> Seq(Line)], NEW d \in Seq(Line),
         NEW n \in Nat, NEW p \in Loggers, OnePlace(q, b, d, n)
  PROVE  OnePlace(q, [b EXCEPT ![p] = <<>>], d \o b[p], n)
<1> DEFINE c == [b EXCEPT ![p] = <<>>]
           e == d \o b[p]
<1>1. c[p] = <<>> /\ \A r \in Loggers : r # p => c[r] = b[r]
  OBVIOUS
<1>2. b[p] \in Seq(Line) /\ \A r \in Loggers : b[r] \in Seq(Line)
  OBVIOUS
<1>3. Written(e, n) /\ Apart(q, e)
  BY <1>2, ConcatWritten, ConcatApart DEF OnePlace
<1>4. ASSUME NEW r \in Loggers, r # p
      PROVE  Apart(b[r], e)
  BY <1>2, <1>4, ConcatApart DEF OnePlace
<1> HIDE DEF c, e
<1>5. \A r \in Loggers : Written(c[r], n) /\ Apart(q, c[r]) /\ Apart(c[r], e)
  BY <1>1, <1>4, EmptyWritten DEF OnePlace
<1>6. \A r, t \in Loggers : r # t => Apart(c[r], c[t])
  BY <1>1, EmptyWritten DEF OnePlace
<1>7. OnePlace(q, c, e, n)
  BY <1>3, <1>5, <1>6 DEF OnePlace
<1> QED BY <1>7 DEF c, e

\* LinesInv is inductive, relative to the types.
LEMMA NextLines ==
  ASSUME TypeOK, LinesInv, [Next]_vars
  PROVE  LinesInv'
<1>1. /\ queue \in Seq(Line) /\ batch \in [Loggers -> Seq(Line)] /\ delivered \in Seq(Line)
      /\ line \in Nat
  BY LinesAssumption DEF TypeOK, Line
<1> DEFINE SameLines == UNCHANGED <<line, queue, batch, delivered>>
<1>2. SameLines => LinesInv'
  BY DEF LinesInv
<1>3. ASSUME NEW to, QueueLog(to)
      PROVE  LinesInv'
  <2>1. line' = line + 1 /\ queue' = Append(queue, line + 1) /\ UNCHANGED <<batch, delivered>>
    BY <1>3 DEF QueueLog
  <2> QED BY <1>1, <2>1, OnePlaceAppend DEF LinesInv
<1>4. ASSUME NEW p \in Loggers, FlushStep(p)
      PROVE  LinesInv'
  <2>1. CASE Swap(p)
    BY <1>1, <2>1, OnePlaceTake DEF LinesInv, Swap
  <2>2. CASE BeginUpdate(p)
    BY <1>2, <2>2 DEF BeginUpdate, logs
  <2>3. CASE SkipUpdate(p)
    BY <1>1, <2>3, OnePlaceDrop DEF LinesInv, SkipUpdate
  <2>4. CASE EndUpdate(p)
    <3>1. /\ delivered' = delivered \o batch[p] \/ delivered' = delivered
          /\ batch' = [batch EXCEPT ![p] = <<>>]
          /\ UNCHANGED <<line, queue>>
      BY <2>4 DEF EndUpdate
    <3>2. CASE delivered' = delivered
      BY <1>1, <3>1, <3>2, OnePlaceDrop DEF LinesInv
    <3>3. CASE delivered' = delivered \o batch[p]
      BY <1>1, <3>1, <3>3, OnePlaceSend DEF LinesInv
    <3> QED BY <3>1, <3>2, <3>3
  <2> QED BY <1>4, <2>1, <2>2, <2>3, <2>4 DEF FlushStep
<1>5. CASE RunStep \/ ShutdownStep \/ CancelJob \/ LinkDown \/ LinkUp
  BY <1>2, <1>5 DEF RunStep, RunWake, RunSkip, RunSent, ShutdownStep, Shutdown, ShutdownReturn,
                    CancelJob, LinkDown, LinkUp, logs
<1>6. CASE WorkStep
  <2>1. CASE WorkFlush \/ WorkSet
    BY <1>2, <2>1 DEF WorkFlush, WorkSet, logs
  <2>2. CASE WorkLog \/ \E o \in {"failed", "completed"} : WorkDone(o)
    BY <1>3, <2>2 DEF WorkLog, WorkDone
  <2>3. CASE FlushStep("work")
    BY <1>4, <2>3 DEF Loggers
  <2> QED BY <1>6, <2>1, <2>2, <2>3 DEF WorkStep
<1>7. CASE TimerStep
  <2>1. PICK f \in Flushers : TimerFires(f) \/ FlushStep(f)
    BY <1>7 DEF TimerStep
  <2>2. TimerFires(f) => SameLines
    BY DEF TimerFires
  <2> QED BY <1>2, <1>4, <2>1, <2>2 DEF Loggers
<1>8. ASSUME NEW p, FailStep(p)
      PROVE  LinesInv'
  BY <1>2, <1>8 DEF FailStep, FailBegin, FailSkip, FailEnd, logs
<1>9. CASE BeatStep
  <2>1. CASE FailStep("beat")
    BY <1>8, <2>1
  <2>2. CASE ~FailStep("beat")
    BY <1>2, <1>9, <2>2 DEF BeatStep, BeatTick, BeatReturn, BeginUpdate, BeatSkip, BeatAnswer,
                           BeatError, BeatOver, BeatTimeout, logs
  <2> QED BY <2>1, <2>2
<1>10. CASE CloseStep
  <2>1. CASE FailStep("close")
    BY <1>8, <2>1
  <2>2. CASE Close \/ ForceStop
    BY <1>2, <2>2 DEF Close, ForceStop, logs
  <2> QED BY <1>10, <2>1, <2>2 DEF CloseStep
<1>11. CASE UNCHANGED vars
  BY <1>2, <1>11 DEF vars, logs
<1> QED BY <1>5, <1>6, <1>7, <1>9, <1>10, <1>11 DEF Next

\* No log line reaches coderd twice, whichever of the worker and the goroutines of the timer
\* takes it from the queue, and however their updates are answered or given up.
THEOREM LinesSentOnce == Spec => []LinesOnce
<1>1. Init => LinesInv
  <2> SUFFICES ASSUME Init
               PROVE  LinesInv
    OBVIOUS
  <2>1. queue = <<>> /\ delivered = <<>> /\ \A p \in Loggers : batch[p] = <<>>
    BY DEF Init
  <2> QED BY <2>1, EmptyWritten DEF LinesInv, OnePlace
<1>2. TypeOK /\ LinesInv /\ [Next]_vars => LinesInv'
  BY NextLines
<1>3. LinesInv => LinesOnce
  BY DEF LinesInv, OnePlace, Written, Distinct, LinesOnce
<1> QED BY <1>1, <1>2, <1>3, RunnerTypeCorrect, PTL DEF Spec
=============================================================================
