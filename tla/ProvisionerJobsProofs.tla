---------------------- MODULE ProvisionerJobsProofs ----------------------
(***************************************************************************)
(* Proofs about ProvisionerJobs, for every number of jobs, daemons,        *)
(* connections, cancel requests and faults.  OwnershipInv is inductive:    *)
(* Links and RunnerOwns say through whose connection a job is locked, and  *)
(* because a connection has one holder, two daemons never run one job.     *)
(***************************************************************************)
EXTENDS ProvisionerJobs, TLAPS

USE JobsAssumption, PartiesAssumption

\* The records that handlers and runners are built from have their type.
LEMMA RecordTypes ==
    /\ NoCall \in HandlerSet
    /\ Idle \in RunnerSet
    /\ NoRequest \in RequestSet
    /\ \A rpc \in RunnerCalls \union {"acquire"}, j \in Jobs \union {None} :
            Call(rpc, j) \in HandlerSet
BY DEF NoCall, HandlerSet, Idle, RunnerSet, NoRequest, RequestSet, Call, RunnerCalls

\* Answering a call preserves ownership when the runner gets a job only if the
\* connection of the answer has locked it (Answer: every reply of provisionerdserver).
LEMMA AnswerKeepsOwnership ==
    ASSUME OwnershipInv, NEW c \in Conns, NEW r \in RunnerSet, Answer(c, r),
           UNCHANGED <<worker, daemon>>, holder[c] # None,
           r.call \in RunnerCalls => r.job # None,
           r.job # None => worker[r.job] # None /\ holder[worker[r.job]] = holder[c]
    PROVE  /\ handler' \in [Conns -> HandlerSet]
           /\ runner' \in [Daemons -> RunnerSet]
           /\ Links' /\ RunnerOwns' /\ WriterOwns'
<1>1. handler' \in [Conns -> HandlerSet] /\ runner' \in [Daemons -> RunnerSet]
  BY RecordTypes DEF OwnershipInv, TypeOK, Answer
<1>2. Links'
  BY <1>1 DEF OwnershipInv, TypeOK, Links, Answer, daemon, NoCall, HandlerSet,
              RunnerSet, RunnerCalls
<1>3. RunnerOwns'
  BY <1>1 DEF OwnershipInv, TypeOK, RunnerOwns, Answer, daemon, RunnerSet
<1>4. WriterOwns'
  BY <1>1 DEF OwnershipInv, TypeOK, WriterOwns, Answer, daemon, NoCall, HandlerSet
<1> QED BY <1>1, <1>2, <1>3, <1>4

\* What a runner keeps when its call is over is still owned (OnError, UpdateReply).
LEMMA KeptJobOwned ==
    ASSUME OwnershipInv, NEW c \in Conns, holder[c] # None,
           NEW r \in RunnerSet, r.job = runner[holder[c]].job \/ r.job = None
    PROVE  r.job # None => worker[r.job] # None /\ holder[worker[r.job]] = holder[c]
BY DEF OwnershipInv, TypeOK, RunnerOwns

LEMMA OnErrorType ==
    ASSUME OwnershipInv, NEW c \in Conns, holder[c] # None
    PROVE  /\ OnError(c) \in RunnerSet
           /\ OnError(c).job = runner[holder[c]].job \/ OnError(c).job = None
           /\ OnError(c).call = "none"
<1>1. runner[holder[c]] \in RunnerSet
  BY DEF OwnershipInv, TypeOK
<1> QED BY <1>1 DEF OnError, RunnerSet, Idle, RunnerCalls

\* An error answer preserves ownership (HandlerError, Refuse).
LEMMA ErrorKeepsOwnership ==
    ASSUME OwnershipInv, NEW c \in Conns, handler[c].rpc # "none",
           Answer(c, OnError(c)), UNCHANGED <<worker, daemon>>
    PROVE  /\ handler' \in [Conns -> HandlerSet]
           /\ runner' \in [Daemons -> RunnerSet]
           /\ Links' /\ RunnerOwns' /\ WriterOwns'
<1>1. holder[c] # None
  BY DEF OwnershipInv, Links
<1>2. OnError(c) \in RunnerSet /\ OnError(c).call = "none"
      /\ (OnError(c).job = runner[holder[c]].job \/ OnError(c).job = None)
  BY <1>1, OnErrorType
<1>3. OnError(c).job # None => worker[OnError(c).job] # None
                            /\ holder[worker[OnError(c).job]] = holder[c]
  BY <1>1, <1>2, KeptJobOwned
<1>4. OnError(c).call \in RunnerCalls => OnError(c).job # None
  BY <1>2 DEF RunnerCalls
<1> QED BY <1>1, <1>2, <1>3, <1>4, AnswerKeepsOwnership

\* Advancing a handler that owns its job, or reading as its owner, keeps ownership.
LEMMA AdvanceKeepsOwnership ==
    ASSUME OwnershipInv, NEW c \in Conns, handler[c].step # "idle", Owns(c),
           handler[c].job # None,
           NEW h \in HandlerSet, h.rpc = handler[c].rpc, h.job = handler[c].job,
           h.step # "idle", handler' = [handler EXCEPT ![c] = h],
           UNCHANGED <<worker, daemon, runner>>
    PROVE  /\ handler' \in [Conns -> HandlerSet]
           /\ Links' /\ RunnerOwns' /\ WriterOwns'
BY DEF OwnershipInv, TypeOK, Links, RunnerOwns, WriterOwns, daemon, Owns, HandlerSet

LEMMA InitOwnership == Init => OwnershipInv
<1> SUFFICES ASSUME Init PROVE OwnershipInv
  OBVIOUS
<1>1. TypeOK
  <2>1. /\ request \in [Requests -> RequestSet]
        /\ handler \in [Conns -> HandlerSet]
        /\ runner \in [Daemons -> RunnerSet]
    BY RecordTypes DEF Init
  <2>2. /\ now \in Nat \ {0} /\ created \in [Jobs -> Nat] /\ inserted \in [Jobs -> Nat]
        /\ faults \in [Faults -> Nat]
    BY FaultsAssumption DEF Init
  <2>3. /\ worker \in [Jobs -> Conns \union {None}] /\ holder \in [Conns -> Daemons \union {None}]
        /\ conn \in [Daemons -> Conns \union {None}] /\ up \in [Daemons -> BOOLEAN]
        /\ canceled \in [Jobs -> BOOLEAN] /\ completed \in [Jobs -> BOOLEAN]
        /\ failed \in [Jobs -> BOOLEAN] /\ debounced \in BOOLEAN
        /\ saved \in SUBSET Builds /\ ended \in SUBSET Jobs
    BY DEF Init
  <2> QED BY <2>1, <2>2, <2>3 DEF TypeOK
<1>2. Links
  BY DEF Init, Links, NoCall, Idle, RunnerCalls
<1>3. RunnerOwns
  BY DEF Init, RunnerOwns, Idle
<1>4. WriterOwns
  BY DEF Init, WriterOwns, NoCall
<1> QED BY <1>1, <1>2, <1>3, <1>4 DEF OwnershipInv

LEMMA UserOwnership == OwnershipInv /\ UserStep => OwnershipInv'
<1> SUFFICES ASSUME OwnershipInv, UserStep PROVE OwnershipInv'
  OBVIOUS
<1>1. UNCHANGED <<worker, server, daemon, runner>>
  BY DEF UserStep, CreateJob, CancelRead, CancelWrite, row
<1>2. Links' /\ RunnerOwns' /\ WriterOwns'
  BY <1>1 DEF OwnershipInv, Links, RunnerOwns, WriterOwns, server, daemon
<1>3. TypeOK'
  <2>1. ASSUME NEW j \in Jobs, CreateJob(j) PROVE TypeOK'
    BY <2>1 DEF OwnershipInv, TypeOK, CreateJob, effects, server, daemon
  <2>2. ASSUME NEW r \in Requests, NEW j \in Jobs, CancelRead(r, j) PROVE TypeOK'
    BY <2>2 DEF OwnershipInv, TypeOK, CancelRead, RequestSet, row, effects, server, daemon
  <2>3. ASSUME NEW r \in Requests, CancelWrite(r) PROVE TypeOK'
    <3>1. request' \in [Requests -> RequestSet]
      BY <2>3 DEF OwnershipInv, TypeOK, CancelWrite, RequestSet
    <3>2. canceled' \in [Jobs -> BOOLEAN] /\ completed' \in [Jobs -> BOOLEAN]
      BY <2>3 DEF OwnershipInv, TypeOK, CancelWrite, RequestSet
    <3> QED BY <2>3, <3>1, <3>2 DEF OwnershipInv, TypeOK, CancelWrite, effects, server, daemon
  <2> QED BY <2>1, <2>2, <2>3, UserStep DEF UserStep
<1> QED BY <1>2, <1>3 DEF OwnershipInv

LEMMA LinkOwnership == OwnershipInv /\ LinkStep => OwnershipInv'
<1> SUFFICES ASSUME OwnershipInv, LinkStep PROVE OwnershipInv'
  OBVIOUS
<1>1. ASSUME NEW d \in Daemons, NEW c \in Conns, Connect(d, c) PROVE OwnershipInv'
  <2>1. TypeOK'
    BY <1>1 DEF OwnershipInv, TypeOK, Connect, row, effects, server
  <2>2. Links'
    BY <1>1 DEF OwnershipInv, TypeOK, Links, Connect, server, row
  <2>3. RunnerOwns'
    BY <1>1 DEF OwnershipInv, TypeOK, RunnerOwns, Connect, server, row
  <2>4. WriterOwns'
    BY <1>1 DEF OwnershipInv, TypeOK, WriterOwns, Connect, server, row
  <2> QED BY <2>1, <2>2, <2>3, <2>4 DEF OwnershipInv
<1>2. ASSUME NEW d \in Daemons, Disconnect(d) PROVE OwnershipInv'
  <2>1. runner' \in [Daemons -> RunnerSet]
        /\ \A e \in Daemons :
                \/ runner'[e].job = runner[e].job /\ runner'[e].call = runner[e].call
                \/ runner'[e] = Idle
    BY <1>2, RecordTypes DEF OwnershipInv, TypeOK, Disconnect, RunnerSet
  <2>2. TypeOK'
    BY <1>2, <2>1 DEF OwnershipInv, TypeOK, Disconnect, Fault, Faults, row, effects, server
  <2>3. Links'
    BY <1>2, <2>1 DEF OwnershipInv, TypeOK, Links, Disconnect, server, Idle, RunnerCalls
  <2>4. RunnerOwns'
    BY <1>2, <2>1 DEF OwnershipInv, TypeOK, RunnerOwns, Disconnect, row, Idle
  <2>5. WriterOwns'
    BY <1>2 DEF OwnershipInv, WriterOwns, Disconnect, row, server
  <2> QED BY <2>2, <2>3, <2>4, <2>5 DEF OwnershipInv
<1>3. ASSUME NEW d \in Daemons, Crash(d) PROVE OwnershipInv'
  <2>1. TypeOK'
    BY <1>3, RecordTypes DEF OwnershipInv, TypeOK, Crash, Fault, Faults, row, effects, server
  <2>2. Links'
    BY <1>3 DEF OwnershipInv, TypeOK, Links, Crash, server, Idle, RunnerCalls
  <2>3. RunnerOwns'
    BY <1>3 DEF OwnershipInv, TypeOK, RunnerOwns, Crash, row, Idle
  <2>4. WriterOwns'
    BY <1>3 DEF OwnershipInv, WriterOwns, Crash, row, server
  <2> QED BY <2>1, <2>2, <2>3, <2>4 DEF OwnershipInv
<1>4. ASSUME NEW c \in Conns, HandlerError(c) PROVE OwnershipInv'
  <2>1. /\ handler' \in [Conns -> HandlerSet] /\ runner' \in [Daemons -> RunnerSet]
        /\ Links' /\ RunnerOwns' /\ WriterOwns'
    BY <1>4, ErrorKeepsOwnership DEF HandlerError, row
  <2>2. TypeOK'
    BY <1>4, <2>1 DEF OwnershipInv, TypeOK, HandlerError, Fault, Faults, row, effects, daemon
  <2> QED BY <2>1, <2>2 DEF OwnershipInv
<1>5. ASSUME NEW c \in Conns, HandlerCanceled(c) PROVE OwnershipInv'
  <2>1. TypeOK'
    BY <1>5, RecordTypes DEF OwnershipInv, TypeOK, HandlerCanceled, row, effects, daemon
  <2>2. Links'
    BY <1>5 DEF OwnershipInv, TypeOK, Links, HandlerCanceled, daemon, NoCall, RunnerCalls
  <2>3. RunnerOwns' /\ WriterOwns'
    BY <1>5 DEF OwnershipInv, TypeOK, RunnerOwns, WriterOwns, HandlerCanceled, row,
                daemon, NoCall
  <2> QED BY <2>1, <2>2, <2>3 DEF OwnershipInv
<1> QED BY <1>1, <1>2, <1>3, <1>4, <1>5 DEF LinkStep

LEMMA RunnerOwnership ==
    ASSUME OwnershipInv, NEW d \in Daemons, RunnerStep(d) PROVE OwnershipInv'
<1>1. CASE SendAcquire(d)
  <2>1. conn[d] \in Conns /\ holder[conn[d]] = d /\ runner[d].job = None
    BY <1>1 DEF SendAcquire, OwnershipInv, TypeOK, Links, Idle
  <2>2. handler' \in [Conns -> HandlerSet] /\ runner' \in [Daemons -> RunnerSet]
    BY <1>1, <2>1, RecordTypes DEF SendAcquire, OwnershipInv, TypeOK, RunnerSet
  <2>3. TypeOK'
    BY <1>1, <2>2 DEF SendAcquire, OwnershipInv, TypeOK, row, effects, daemon
  <2>4. Links'
    BY <1>1, <2>1, <2>2 DEF SendAcquire, OwnershipInv, TypeOK, Links, daemon, Call,
                            RunnerCalls, RunnerSet
  <2>5. RunnerOwns'
    BY <1>1, <2>1, <2>2 DEF SendAcquire, OwnershipInv, TypeOK, RunnerOwns, row, daemon,
                            RunnerSet
  <2>6. WriterOwns'
    BY <1>1, <2>1 DEF SendAcquire, OwnershipInv, TypeOK, WriterOwns, row, Call
  <2> QED BY <2>3, <2>4, <2>5, <2>6 DEF OwnershipInv
<1>2. ASSUME NEW rpc \in RunnerCalls, StartCall(d, rpc) PROVE OwnershipInv'
  <2>1. runner' \in [Daemons -> RunnerSet]
        /\ runner'[d].job = runner[d].job
        /\ \A e \in Daemons \ {d} : runner'[e] = runner[e]
    <3>1. runner[d] \in RunnerSet
      BY DEF OwnershipInv, TypeOK
    <3>2. [runner[d] EXCEPT !.call = rpc, !.sent = FALSE] \in RunnerSet
      BY <3>1 DEF RunnerSet
    <3> QED BY <1>2, <3>1, <3>2 DEF StartCall, OwnershipInv, TypeOK, RunnerSet
  <2>2. TypeOK'
    BY <1>2, <2>1 DEF StartCall, OwnershipInv, TypeOK, row, effects, server, daemon
  <2>3. Links'
    BY <1>2, <2>1 DEF StartCall, OwnershipInv, Links, server, daemon
  <2>4. RunnerOwns' /\ WriterOwns'
    BY <1>2, <2>1 DEF StartCall, OwnershipInv, RunnerOwns, WriterOwns, row, server, daemon
  <2> QED BY <2>2, <2>3, <2>4 DEF OwnershipInv
<1>3. CASE Transmit(d)
  <2>1. conn[d] \in Conns /\ holder[conn[d]] = d /\ runner[d].job \in Jobs
    BY <1>3 DEF Transmit, OwnershipInv, TypeOK, Links, RunnerSet
  <2>2. Call(runner[d].call, runner[d].job) \in HandlerSet
    BY <1>3, <2>1, RecordTypes DEF Transmit
  <2>3. handler' \in [Conns -> HandlerSet]
    BY <1>3, <2>1, <2>2 DEF Transmit, OwnershipInv, TypeOK
  <2>4. /\ runner' \in [Daemons -> RunnerSet]
        /\ \A e \in Daemons : runner'[e].job = runner[e].job /\ runner'[e].call = runner[e].call
    <3>1. runner \in [Daemons -> RunnerSet] /\ runner' = [runner EXCEPT ![d].sent = TRUE]
      BY <1>3 DEF Transmit, OwnershipInv, TypeOK
    <3> QED BY <3>1 DEF RunnerSet
  <2>5. TypeOK'
    BY <1>3, <2>3, <2>4 DEF Transmit, OwnershipInv, TypeOK, row, effects, daemon
  <2>6. Links'
    BY <1>3, <2>1, <2>4 DEF Transmit, OwnershipInv, TypeOK, Links, daemon, Call
  <2>7. RunnerOwns' /\ WriterOwns'
    BY <1>3, <2>1, <2>4 DEF Transmit, OwnershipInv, TypeOK, RunnerOwns, WriterOwns, row,
                            daemon, Call
  <2> QED BY <2>5, <2>6, <2>7 DEF OwnershipInv
<1> QED BY <1>1, <1>2, <1>3 DEF RunnerStep, Heartbeat, FlushLogs, RunnerComplete,
                                RunnerFail, ForcedFail, RunnerCalls

LEMMA AcquireOwnership ==
    ASSUME OwnershipInv, NEW c \in Conns, AcquireStep(c) PROVE OwnershipInv'
<1>1. holder[c] # None /\ handler[c] \in HandlerSet
  BY DEF AcquireStep, AcquireLock, AcquireEmpty, AcquireDebounced, AcquireInvalid,
         AcquireReply, Calling, OwnershipInv, TypeOK, Links
<1>2. CASE AcquireLock(c)
  <2>1. PICK j \in Jobs : /\ worker[j] = None
                          /\ worker' = [worker EXCEPT ![j] = c]
                          /\ handler' = [handler EXCEPT ![c].job = j, ![c].step = "read"]
    BY <1>2 DEF AcquireLock, Acquirable
  <2>2. /\ handler' \in [Conns -> HandlerSet]
        /\ handler'[c].job = j /\ handler'[c].step = "read" /\ handler'[c].rpc = "acquire"
        /\ \A e \in Conns \ {c} : handler'[e] = handler[e]
    BY <1>1, <1>2, <2>1 DEF AcquireLock, Calling, OwnershipInv, TypeOK, HandlerSet
  <2>3. TypeOK'
    BY <1>2, <2>1, <2>2 DEF AcquireLock, OwnershipInv, TypeOK, effects, daemon
  <2>4. Links'
    BY <1>1, <1>2, <2>2 DEF AcquireLock, OwnershipInv, Links, daemon
  <2>5. RunnerOwns'
    BY <1>2, <2>1 DEF AcquireLock, OwnershipInv, TypeOK, RunnerOwns, daemon
  <2>6. WriterOwns'
    BY <1>2, <2>1, <2>2 DEF AcquireLock, OwnershipInv, TypeOK, WriterOwns
  <2> QED BY <2>3, <2>4, <2>5, <2>6 DEF OwnershipInv
<1>3. ASSUME Answer(c, Idle), UNCHANGED <<worker, daemon>>
      PROVE  /\ handler' \in [Conns -> HandlerSet] /\ runner' \in [Daemons -> RunnerSet]
             /\ Links' /\ RunnerOwns' /\ WriterOwns'
  BY <1>1, <1>3, RecordTypes, AnswerKeepsOwnership DEF Idle, RunnerCalls
<1>4. CASE AcquireEmpty(c) \/ AcquireDebounced(c)
  BY <1>3, <1>4 DEF AcquireEmpty, AcquireDebounced, OwnershipInv, TypeOK, row, effects, daemon
<1>5. CASE AcquireInvalid(c)
  <2>1. UNCHANGED <<worker, daemon>> /\ Answer(c, Idle)
    BY <1>5 DEF AcquireInvalid
  <2>2. TypeOK'
    BY <1>3, <1>5, <2>1 DEF AcquireInvalid, OwnershipInv, TypeOK, effects, daemon
  <2> QED BY <1>3, <2>1, <2>2 DEF OwnershipInv
<1>6. CASE AcquireReply(c)
  <2> DEFINE run == [Idle EXCEPT !.job = handler[c].job]
  <2>1. handler[c].job \in Jobs /\ worker[handler[c].job] = c
    BY <1>1, <1>6 DEF AcquireReply, OwnershipInv, WriterOwns, HandlerSet
  <2>2. PICK r \in {run, [run EXCEPT !.call = "fail"]} : Answer(c, r)
    BY <1>6 DEF AcquireReply
  <2>3. r \in RunnerSet /\ r.job = handler[c].job
    BY <2>1 DEF Idle, RunnerSet, RunnerCalls
  <2>4. /\ handler' \in [Conns -> HandlerSet] /\ runner' \in [Daemons -> RunnerSet]
        /\ Links' /\ RunnerOwns' /\ WriterOwns'
    <3> HIDE DEF run
    <3>1. UNCHANGED <<worker, daemon>>
      BY <1>6 DEF AcquireReply, row
    <3> QED BY <1>1, <2>1, <2>2, <2>3, <3>1, AnswerKeepsOwnership
  <2>5. TypeOK'
    BY <1>6, <2>4 DEF AcquireReply, OwnershipInv, TypeOK, row, effects, daemon
  <2> QED BY <2>4, <2>5 DEF OwnershipInv
<1> QED BY <1>2, <1>4, <1>5, <1>6 DEF AcquireStep

LEMMA UpdateOwnership ==
    ASSUME OwnershipInv, NEW c \in Conns, UpdateStep(c) PROVE OwnershipInv'
<1>1. /\ holder[c] # None /\ handler[c] \in HandlerSet /\ handler[c].rpc \in RunnerCalls
      /\ handler[c].rpc # "none" /\ handler[c].job \in Jobs /\ handler[c].step # "idle"
  BY DEF UpdateStep, UpdateRead, UpdateRefuse, UpdateReply, Calling, At, OwnershipInv,
         TypeOK, Links, RunnerCalls, HandlerSet
<1>2. CASE UpdateRead(c)
  <2> DEFINE h == [handler[c] EXCEPT !.step = "read",
                                     !.canceled = canceled[handler[c].job]]
  <2>1. h \in HandlerSet /\ h.rpc = handler[c].rpc /\ h.job = handler[c].job /\ h.step = "read"
    BY <1>1 DEF HandlerSet, OwnershipInv, TypeOK
  <2>2. handler' = [handler EXCEPT ![c] = h] /\ Owns(c) /\ UNCHANGED <<worker, daemon, runner>>
    BY <1>2 DEF UpdateRead, row
  <2> HIDE DEF h
  <2>3. handler' \in [Conns -> HandlerSet] /\ Links' /\ RunnerOwns' /\ WriterOwns'
    BY <1>1, <2>1, <2>2, AdvanceKeepsOwnership
  <2>4. TypeOK'
    BY <1>2, <2>3 DEF UpdateRead, OwnershipInv, TypeOK, row, effects, daemon
  <2> QED BY <2>3, <2>4 DEF OwnershipInv
<1>3. CASE UpdateRefuse(c)
  <2>1. /\ handler' \in [Conns -> HandlerSet] /\ runner' \in [Daemons -> RunnerSet]
        /\ Links' /\ RunnerOwns' /\ WriterOwns'
    BY <1>1, <1>3, ErrorKeepsOwnership DEF UpdateRefuse, Refuse, row
  <2>2. TypeOK'
    BY <1>3, <2>1 DEF UpdateRefuse, Refuse, OwnershipInv, TypeOK, row, effects, daemon
  <2> QED BY <2>1, <2>2 DEF OwnershipInv
<1>4. CASE UpdateReply(c)
  <2> DEFINE beat == IF handler[c].rpc = "heartbeat" /\ handler[c].canceled
                     THEN "canceling" ELSE runner[holder[c]].beat
             r == [runner[holder[c]] EXCEPT !.call = "none", !.sent = FALSE, !.beat = beat]
  <2>1. runner[holder[c]] \in RunnerSet
    BY <1>1 DEF OwnershipInv, TypeOK
  <2>2. r \in RunnerSet /\ r.job = runner[holder[c]].job /\ r.call = "none"
    <3>1. beat \in {"beating", "canceling", "failing"}
      BY <2>1 DEF RunnerSet
    <3> HIDE DEF beat
    <3> QED BY <2>1, <3>1 DEF RunnerSet
  <2>3. Answer(c, r) /\ UNCHANGED <<worker, daemon>>
    BY <1>4 DEF UpdateReply, row
  <2> HIDE DEF r
  <2>4. r.job # None => worker[r.job] # None /\ holder[worker[r.job]] = holder[c]
    BY <1>1, <2>2, KeptJobOwned
  <2>5. /\ handler' \in [Conns -> HandlerSet] /\ runner' \in [Daemons -> RunnerSet]
        /\ Links' /\ RunnerOwns' /\ WriterOwns'
    <3>1. r.call \in RunnerCalls => r.job # None
      BY <2>2 DEF RunnerCalls
    <3> QED BY <1>1, <2>2, <2>3, <2>4, <3>1, AnswerKeepsOwnership
  <2>6. TypeOK'
    BY <1>4, <2>5 DEF UpdateReply, OwnershipInv, TypeOK, row, effects, daemon
  <2> QED BY <2>5, <2>6 DEF OwnershipInv
<1> QED BY <1>2, <1>3, <1>4 DEF UpdateStep

\* FailJob and CompleteJob: a step changes the handler by Advance or by an answer.
LEMMA TerminalOwnership ==
    ASSUME OwnershipInv, NEW c \in Conns, FailStep(c) \/ CompleteStep(c)
    PROVE  OwnershipInv'
<1>1. /\ holder[c] # None /\ handler[c] \in HandlerSet
      /\ handler[c].rpc # "none" /\ handler[c].job \in Jobs /\ handler[c].step # "idle"
  BY DEF FailStep, FailRead, FailRefuse, FailWrite, FailSave, FailReply, CompleteStep,
         CompleteRead, CompleteRefuse, CompleteInsert, CompleteWrite, CompleteReply,
         Calling, At, OwnershipInv, TypeOK, Links, RunnerCalls, HandlerSet
<1>2. ASSUME NEW s \in {"read", "inserted", "written", "saved"}, Advance(c, s), Owns(c),
             UNCHANGED <<worker, daemon, runner>>
      PROVE  handler' \in [Conns -> HandlerSet] /\ Links' /\ RunnerOwns' /\ WriterOwns'
  <2> DEFINE h == [handler[c] EXCEPT !.step = s]
  <2>1. h \in HandlerSet /\ h.rpc = handler[c].rpc /\ h.job = handler[c].job /\ h.step # "idle"
    BY <1>1 DEF HandlerSet
  <2>2. handler' = [handler EXCEPT ![c] = h]
    BY <1>2 DEF Advance
  <2> HIDE DEF h
  <2> QED BY <1>1, <1>2, <2>1, <2>2, AdvanceKeepsOwnership
<1>3. ASSUME Refuse(c) PROVE OwnershipInv'
  <2>1. /\ handler' \in [Conns -> HandlerSet] /\ runner' \in [Daemons -> RunnerSet]
        /\ Links' /\ RunnerOwns' /\ WriterOwns'
    BY <1>1, <1>3, ErrorKeepsOwnership DEF Refuse, row
  <2>2. TypeOK'
    BY <1>3, <2>1 DEF Refuse, OwnershipInv, TypeOK, row, effects, daemon
  <2> QED BY <2>1, <2>2 DEF OwnershipInv
<1>4. ASSUME Publish(c) PROVE OwnershipInv'
  <2>1. UNCHANGED <<worker, daemon>> /\ Answer(c, Idle)
    BY <1>4 DEF Publish, row
  <2>2. /\ handler' \in [Conns -> HandlerSet] /\ runner' \in [Daemons -> RunnerSet]
        /\ Links' /\ RunnerOwns' /\ WriterOwns'
    BY <1>1, <2>1, RecordTypes, AnswerKeepsOwnership DEF Idle, RunnerCalls
  <2>3. TypeOK'
    BY <1>1, <1>4, <2>2 DEF Publish, OwnershipInv, TypeOK, row, daemon
  <2> QED BY <2>2, <2>3 DEF OwnershipInv
<1>5. CASE FailRead(c) \/ CompleteRead(c)
  <2>1. handler' \in [Conns -> HandlerSet] /\ Links' /\ RunnerOwns' /\ WriterOwns'
    BY <1>2, <1>5 DEF FailRead, CompleteRead, row
  <2>2. TypeOK'
    BY <1>5, <2>1 DEF FailRead, CompleteRead, OwnershipInv, TypeOK, row, effects, daemon
  <2> QED BY <2>1, <2>2 DEF OwnershipInv
<1>6. ASSUME handler[c].step \notin {"idle", "called"} PROVE Owns(c)
  BY <1>6 DEF OwnershipInv, WriterOwns, Owns
<1>7. CASE FailWrite(c)
  <2>1. handler' \in [Conns -> HandlerSet] /\ Links' /\ RunnerOwns' /\ WriterOwns'
    BY <1>2, <1>6, <1>7 DEF FailWrite, At
  <2>2. TypeOK'
    BY <1>1, <1>7, <2>1 DEF FailWrite, OwnershipInv, TypeOK, effects, daemon
  <2> QED BY <2>1, <2>2 DEF OwnershipInv
<1>8. CASE FailSave(c)
  <2>1. handler' \in [Conns -> HandlerSet] /\ Links' /\ RunnerOwns' /\ WriterOwns'
    BY <1>2, <1>6, <1>8 DEF FailSave, At, row
  <2>2. TypeOK'
    BY <1>1, <1>8, <2>1 DEF FailSave, OwnershipInv, TypeOK, row, daemon
  <2> QED BY <2>1, <2>2 DEF OwnershipInv
<1>9. CASE CompleteInsert(c)
  <2>1. handler' \in [Conns -> HandlerSet] /\ Links' /\ RunnerOwns' /\ WriterOwns'
    BY <1>2, <1>6, <1>9 DEF CompleteInsert, At, row
  <2>2. TypeOK'
    BY <1>1, <1>9, <2>1 DEF CompleteInsert, OwnershipInv, TypeOK, row, daemon
  <2> QED BY <2>1, <2>2 DEF OwnershipInv
<1>10. CASE CompleteWrite(c)
  <2>1. handler' \in [Conns -> HandlerSet] /\ Links' /\ RunnerOwns' /\ WriterOwns'
    BY <1>2, <1>6, <1>10 DEF CompleteWrite, At
  <2>2. TypeOK'
    BY <1>1, <1>10, <2>1 DEF CompleteWrite, OwnershipInv, TypeOK, daemon
  <2> QED BY <2>1, <2>2 DEF OwnershipInv
<1> QED BY <1>3, <1>4, <1>5, <1>7, <1>8, <1>9, <1>10
        DEF FailStep, CompleteStep, FailRefuse, CompleteRefuse, FailReply, CompleteReply

LEMMA NextOwnership == OwnershipInv /\ [Next]_vars => OwnershipInv'
<1> SUFFICES ASSUME OwnershipInv, [Next]_vars PROVE OwnershipInv'
  OBVIOUS
<1>1. CASE UNCHANGED vars
  BY <1>1 DEF OwnershipInv, TypeOK, Links, RunnerOwns, WriterOwns, vars, row, effects,
              server, daemon
<1>2. CASE DebounceExpires
  BY <1>2 DEF DebounceExpires, OwnershipInv, TypeOK, Links, RunnerOwns, WriterOwns, row,
              effects, daemon
<1> QED BY <1>1, <1>2, UserOwnership, LinkOwnership, RunnerOwnership, AcquireOwnership,
           UpdateOwnership, TerminalOwnership DEF Next, HandlerStep

\* The inductive invariant holds of every behaviour of the job protocol.
THEOREM Ownership == Spec => []OwnershipInv
BY InitOwnership, NextOwnership, PTL DEF Spec

\* Every variable keeps its type.
THEOREM TypeCorrect == Spec => []TypeOK
<1>1. OwnershipInv => TypeOK
  BY DEF OwnershipInv
<1> QED BY <1>1, Ownership, PTL

\* No two daemons ever run the same job, through any number of disconnects, crashes,
\* database errors and cancellations.
THEOREM NoTwoRunners == Spec => []OneRunner
<1>1. OwnershipInv => OneRunner
  BY DEF OwnershipInv, RunnerOwns, OneRunner
<1> QED BY <1>1, Ownership, PTL

\* A handler of UpdateJob, FailJob or CompleteJob still owns the job at every statement
\* after its ownership check.
THEOREM WritersOwn == Spec => []OwnerAtWrite
<1>1. OwnershipInv => OwnerAtWrite
  BY DEF OwnershipInv, WriterOwns, OwnerAtWrite, Owns
<1> QED BY <1>1, Ownership, PTL

\* A row's worker_id is written once.
THEOREM WorkerWrittenOnce == Spec => OwnerStable
<1>1. OwnershipInv /\ [Next]_vars =>
        [\A j \in Jobs : worker[j] # None => worker'[j] = worker[j]]_vars
  <2> SUFFICES ASSUME OwnershipInv, Next, NEW j \in Jobs, worker[j] # None
               PROVE  worker'[j] = worker[j]
    OBVIOUS
  <2>1. CASE \E c \in Conns : AcquireLock(c)
    BY <2>1 DEF AcquireLock, Acquirable, OwnershipInv, TypeOK
  <2>2. CASE ~\E c \in Conns : AcquireLock(c)
    <3>1. UNCHANGED worker
      BY <2>2 DEF Next, UserStep, CreateJob, CancelRead, CancelWrite, LinkStep, Connect,
         Disconnect, Crash, HandlerError, HandlerCanceled, DebounceExpires, RunnerStep,
         SendAcquire, Heartbeat, FlushLogs, RunnerComplete, RunnerFail, ForcedFail,
         StartCall, Transmit, HandlerStep, AcquireStep, AcquireEmpty, AcquireDebounced,
         AcquireInvalid, AcquireReply, UpdateStep, UpdateRead, UpdateRefuse, UpdateReply,
         FailStep, FailRead, FailRefuse, FailWrite, FailSave, FailReply, CompleteStep,
         CompleteRead, CompleteRefuse, CompleteInsert, CompleteWrite, CompleteReply,
         Refuse, Publish, row
    <3> QED BY <3>1
  <2> QED BY <2>1, <2>2
<1> QED BY <1>1, Ownership, PTL DEF Spec, OwnerStable

-----------------------------------------------------------------------------
(* How a job ends.  CompleteJob and FailJob do not guard their writes      *)
(* against a retry.  What makes them happen once is the protocol: only the *)
(* connection that acquired a job passes the ownership check, that         *)
(* connection is never dialed again, and over it the runner has one call   *)
(* at a time and drops the job with its last one.  WireInv says so;        *)
(* Over(j), that nothing can be written for j any more, is then stable,    *)
(* and every write to the outcome of a job ends in it.                     *)


\* On the connection a daemon has, coderd serves the call that the runner has sent.
Synced ==
    \A d \in Daemons :
        /\ conn[d] = None => runner[d].sent = FALSE
        /\ conn[d] # None /\ handler[conn[d]].rpc = "none" => runner[d].sent = FALSE
        /\ conn[d] # None /\ handler[conn[d]].rpc # "none" =>
            /\ runner[d].sent = TRUE
            /\ runner[d].call = handler[conn[d]].rpc
            /\ handler[conn[d]].rpc \in RunnerCalls => runner[d].job = handler[conn[d]].job

\* Handlers only know of jobs that were acquired.
Named == \A c \in Conns : handler[c].job # None => worker[handler[c].job] # None

\* Between the lock and the answer of AcquireJob nobody else has heard of the job.
Fresh ==
    \A c \in Conns : handler[c].rpc = "acquire" /\ handler[c].job # None =>
        /\ \A e \in Conns \ {c} : handler[e].job # handler[c].job
        /\ \A d \in Daemons : runner[d].job # handler[c].job

\* A runner that has sent its last message sends no other, whatever becomes of the
\* connection: it holds its mutex over all retries.
Pending ==
    \A c \in Conns, d \in Daemons :
        handler[c].rpc \in {"fail", "complete"} /\ holder[c] = d /\ runner[d].job = handler[c].job
            => runner[d].call = handler[c].rpc

WireInv == OwnershipInv /\ Synced /\ Named /\ Fresh /\ Pending

---------------------------------------------------------------------------
(* The kinds of steps, by what they do to calls and connections.           *)

Wire == <<worker, holder, conn>>
OtherHandlers(c) == \A e \in Conns \ {c} : handler'[e] = handler[e]
OtherRunners(d) == \A e \in Daemons \ {d} : runner'[e] = runner[e]

\* A connection is dialed.
Dials(d, c) ==
    /\ conn[d] = None /\ holder[c] = None
    /\ conn'[d] = c /\ \A e \in Daemons \ {d} : conn'[e] = conn[e]
    /\ holder'[c] = d /\ \A e \in Conns \ {c} : holder'[e] = holder[e]
    /\ UNCHANGED <<worker, handler, runner>>

\* A daemon loses its connection, and perhaps its job.
Drops(d) ==
    /\ conn'[d] = None /\ \A e \in Daemons \ {d} : conn'[e] = conn[e]
    /\ OtherRunners(d)
    /\ runner'[d].sent = FALSE
    /\ \/ runner'[d].job = None
       \/ runner'[d].job = runner[d].job /\ runner'[d].call = runner[d].call
    /\ UNCHANGED <<worker, holder, handler>>

\* A handler ends.  If the daemon still has the connection it gets the answer: it gives the
\* job up, goes on with it after an update, or is given it.
Ends(c) ==
    /\ handler[c].rpc # "none"
    /\ handler'[c] = NoCall /\ OtherHandlers(c)
    /\ \A d \in Daemons : conn[d] # c => runner'[d] = runner[d]
    /\ \A d \in Daemons : conn[d] = c =>
        /\ runner'[d].sent = FALSE
        /\ \/ runner'[d].job = None
           \/ /\ handler[c].rpc \in {"heartbeat", "logs"}
              /\ runner'[d].job = runner[d].job
           \/ /\ handler[c].rpc = "acquire" /\ handler[c].step = "read"
              /\ handler[c].job # None
              /\ runner'[d].job = handler[c].job
    /\ UNCHANGED Wire

\* A runner sends a call.
Sends(d, rpc) ==
    /\ conn[d] # None /\ runner[d].sent = FALSE
    /\ handler'[conn[d]] = Call(rpc, runner[d].job) /\ OtherHandlers(conn[d])
    /\ OtherRunners(d)
    /\ runner'[d].sent = TRUE /\ runner'[d].call = rpc /\ runner'[d].job = runner[d].job
    /\ \/ rpc = "acquire" /\ runner[d].job = None
       \/ rpc \in RunnerCalls /\ runner[d].call = rpc
    /\ UNCHANGED Wire

\* A runner decides on its next call.
Starts(d) ==
    /\ runner[d].job # None /\ runner[d].call = "none"
    /\ OtherRunners(d)
    /\ runner'[d].sent = FALSE /\ runner'[d].job = runner[d].job
    /\ UNCHANGED handler /\ UNCHANGED Wire

\* A job is locked.
Locks(c, j) ==
    /\ handler[c].rpc = "acquire" /\ handler[c].step = "called"
    /\ worker[j] = None
    /\ worker'[j] = c /\ \A i \in Jobs \ {j} : worker'[i] = worker[i]
    /\ handler'[c].rpc = "acquire" /\ handler'[c].job = j /\ OtherHandlers(c)
    /\ UNCHANGED <<holder, conn, runner>>

\* A handler of UpdateJob, FailJob or CompleteJob makes step s, in this order.
Follows(h, s) ==
    \/ h.step = "called" /\ s = "read"
    \/ h.step = "read" /\ s \in {"inserted", "written"}
    \/ h.step = "inserted" /\ s = "written"
    \/ h.step = "written" /\ s = "saved" /\ h.rpc = "fail"

Moves(c, s) ==
    /\ handler[c].rpc \in RunnerCalls /\ Follows(handler[c], s)
    /\ handler'[c].rpc = handler[c].rpc /\ handler'[c].job = handler[c].job
    /\ handler'[c].step = s /\ OtherHandlers(c)
    /\ UNCHANGED runner /\ UNCHANGED Wire

Still == UNCHANGED <<handler, runner>> /\ UNCHANGED Wire

\* The kinds of steps are all there are.
StepKind ==
    \/ Still
    \/ \E d \in Daemons, c \in Conns : Dials(d, c)
    \/ \E d \in Daemons : Drops(d)
    \/ \E c \in Conns : Ends(c)
    \/ \E d \in Daemons, rpc \in RunnerCalls \union {"acquire"} : Sends(d, rpc)
    \/ \E d \in Daemons : Starts(d)
    \/ \E c \in Conns, j \in Jobs : Locks(c, j)
    \/ \E c \in Conns, s \in {"read", "inserted", "written", "saved"} : Moves(c, s)

---------------------------------------------------------------------------
(* WireInv is preserved by each kind of step.                              *)

Wired == Synced /\ Named /\ Fresh /\ Pending

\* What OwnershipInv says of the types, in the form the proofs below use.
LEMMA WireTypes ==
  ASSUME OwnershipInv
  PROVE  /\ \A c \in Conns : handler[c].job \in Jobs \union {None}
         /\ \A d \in Daemons : runner[d].job \in Jobs \union {None} /\ conn[d] \in Conns \union {None}
         /\ \A d \in Daemons : runner[d].sent \in BOOLEAN
         /\ \A j \in Jobs : worker[j] \in Conns \union {None}
         /\ \A c \in Conns : holder[c] \in Daemons \union {None}
         /\ \A d \in Daemons : conn[d] # None => holder[conn[d]] = d
         /\ \A c \in Conns : handler[c].rpc # "none" => holder[c] # None
         /\ \A c \in Conns : handler[c].rpc \in RunnerCalls => handler[c].job # None
BY DEF OwnershipInv, TypeOK, HandlerSet, RunnerSet, Links

\* Nobody serves or sends over a connection before it is dialed.
LEMMA DialsWired ==
  ASSUME WireInv, NEW d \in Daemons, NEW c \in Conns, Dials(d, c)
  PROVE  Wired'
<1>0. USE WireTypes DEF WireInv
<1>1. handler[c].rpc = "none" /\ \A e \in Daemons : conn[e] # c
  BY DEF Dials
<1>2. Synced'
  BY <1>1 DEF Dials, Synced
<1>3. Named' /\ Fresh'
  BY DEF Dials, Named, Fresh
<1>4. Pending'
  BY <1>1 DEF Dials, Pending
<1> QED BY <1>2, <1>3, <1>4 DEF Wired

\* A lost connection cannot be sent over.
LEMMA DropsWired ==
  ASSUME WireInv, NEW d \in Daemons, Drops(d)
  PROVE  Wired'
<1>0. USE WireTypes DEF WireInv
<1>1. \A e \in Daemons : runner'[e].job = None \/ (runner'[e].job = runner[e].job /\ runner'[e].call = runner[e].call)
  BY DEF Drops, OtherRunners
<1>2. Synced'
  BY DEF Drops, Synced, OtherRunners
<1>3. Named'
  BY DEF Drops, Named
<1>4. Fresh'
  BY <1>1 DEF Drops, Fresh
<1>5. Pending'
  BY <1>1 DEF Drops, Pending, RunnerCalls
<1> QED BY <1>2, <1>3, <1>4, <1>5 DEF Wired

\* After an answer the runner has nothing under way; after a lost one its retry is.
LEMMA EndsWired ==
  ASSUME WireInv, NEW c \in Conns, Ends(c)
  PROVE  Wired'
<1>0. USE WireTypes DEF WireInv
<1>1. \A e \in Conns : handler'[e] = NoCall \/ handler'[e] = handler[e]
  BY DEF Ends, OtherHandlers
<1>2. NoCall.rpc = "none" /\ NoCall.job = None
  BY DEF NoCall
<1>3. Synced'
  <2> SUFFICES ASSUME NEW d \in Daemons
               PROVE  /\ conn[d] = None => runner'[d].sent = FALSE
                      /\ conn[d] # None /\ handler'[conn[d]].rpc = "none" => runner'[d].sent = FALSE
                      /\ conn[d] # None /\ handler'[conn[d]].rpc # "none" =>
                            /\ runner'[d].sent = TRUE
                            /\ runner'[d].call = handler'[conn[d]].rpc
                            /\ handler'[conn[d]].rpc \in RunnerCalls => runner'[d].job = handler'[conn[d]].job
    BY DEF Synced, Ends, Wire
  <2>1. CASE conn[d] = c
    BY <1>2, <2>1 DEF Ends
  <2>2. CASE conn[d] # c
    BY <2>2 DEF Ends, Synced, OtherHandlers
  <2> QED BY <2>1, <2>2
<1>4. Named'
  BY <1>1, <1>2 DEF Ends, Named, Wire
<1>5. \A d \in Daemons : runner'[d] = runner[d] \/ runner'[d].job = None \/ runner'[d].job = runner[d].job
                         \/ (handler[c].rpc = "acquire" /\ handler[c].job # None /\ runner'[d].job = handler[c].job)
  BY DEF Ends
<1>6. Fresh'
  <2> SUFFICES ASSUME NEW b \in Conns, handler'[b].rpc = "acquire", handler'[b].job # None
               PROVE  /\ \A e \in Conns \ {b} : handler'[e].job # handler'[b].job
                      /\ \A d \in Daemons : runner'[d].job # handler'[b].job
    BY DEF Fresh
  <2>1. b # c /\ handler'[b] = handler[b]
    BY <1>2 DEF Ends, OtherHandlers
  <2>2. \A e \in Conns \ {b} : handler[e].job # handler[b].job
    BY <2>1 DEF Fresh
  <2>3. \A e \in Conns \ {b} : handler'[e].job # handler'[b].job
    BY <1>1, <1>2, <2>1, <2>2
  <2>4. \A d \in Daemons : runner'[d].job # handler'[b].job
    BY <1>5, <2>1, <2>2 DEF Fresh
  <2> QED BY <2>3, <2>4
<1>7. Pending'
  <2> SUFFICES ASSUME NEW b \in Conns, NEW d \in Daemons, handler'[b].rpc \in {"fail", "complete"},
                      holder[b] = d, runner'[d].job = handler'[b].job
               PROVE  runner'[d].call = handler'[b].rpc
    BY DEF Pending, Ends, Wire
  <2>1. b # c /\ handler'[b] = handler[b]
    BY <1>2 DEF Ends, OtherHandlers
  <2>2. handler[b].job # None
    BY <2>1 DEF RunnerCalls
  <2>3. CASE conn[d] # c
    BY <2>1, <2>3 DEF Ends, Pending
  <2>4. CASE conn[d] = c
    <3>1. runner[d].call = handler[c].rpc
      BY <2>4 DEF Synced, Ends
    <3>2. CASE handler[c].rpc \in {"heartbeat", "logs"} /\ runner'[d].job = runner[d].job
      BY <2>1, <3>1, <3>2 DEF Pending
    <3>3. CASE handler[c].rpc = "acquire" /\ handler[c].job # None /\ runner'[d].job = handler[c].job
      BY <2>1, <3>3 DEF Fresh
    <3> QED BY <2>1, <2>2, <2>4, <3>2, <3>3 DEF Ends
  <2> QED BY <2>3, <2>4
<1> QED BY <1>3, <1>4, <1>6, <1>7 DEF Wired

\* A call is served over the connection it was sent over.
LEMMA SendsWired ==
  ASSUME WireInv, NEW d \in Daemons, NEW rpc \in RunnerCalls \union {"acquire"}, Sends(d, rpc)
  PROVE  Wired'
<1>0. USE WireTypes DEF WireInv
<1>1. Call(rpc, runner[d].job).rpc = rpc /\ Call(rpc, runner[d].job).job = runner[d].job
  BY DEF Call
<1>2. conn[d] \in Conns /\ holder[conn[d]] = d /\ \A e \in Daemons \ {d} : conn[e] # conn[d]
  BY DEF Sends
<1>3. rpc # "none" /\ \A e \in Daemons : runner'[e].job = runner[e].job
  BY DEF Sends, OtherRunners, RunnerCalls
<1>4. Synced'
  BY <1>1, <1>2, <1>3 DEF Sends, Synced, OtherRunners, OtherHandlers, Wire
<1>5. runner[d].job # None => worker[runner[d].job] # None
  BY DEF OwnershipInv, RunnerOwns
<1>6. Named'
  BY <1>1, <1>2, <1>5 DEF Sends, Named, OtherHandlers, Wire
<1>7. Fresh'
  <2> SUFFICES ASSUME NEW b \in Conns, handler'[b].rpc = "acquire", handler'[b].job # None
               PROVE  /\ \A e \in Conns \ {b} : handler'[e].job # handler'[b].job
                      /\ \A e \in Daemons : runner'[e].job # handler'[b].job
    BY DEF Fresh
  <2>1. b # conn[d] /\ handler'[b] = handler[b]
    BY <1>1, <1>2 DEF Sends, OtherHandlers, RunnerCalls
  <2> QED BY <1>1, <1>2, <1>3, <2>1 DEF Fresh, Sends, OtherHandlers
<1>8. Pending'
  <2> SUFFICES ASSUME NEW b \in Conns, NEW e \in Daemons, handler'[b].rpc \in {"fail", "complete"},
                      holder[b] = e, runner'[e].job = handler'[b].job
               PROVE  runner'[e].call = handler'[b].rpc
    BY DEF Pending, Sends, Wire
  <2>1. CASE b = conn[d]
    BY <1>1, <1>2, <2>1 DEF Sends
  <2>2. CASE b # conn[d]
    <3>1. handler'[b] = handler[b] /\ handler[b].job # None
      BY <2>2 DEF Sends, OtherHandlers, RunnerCalls
    <3>2. runner[e].call = handler[b].rpc
      BY <1>3, <3>1 DEF Pending
    <3>3. CASE e = d
      BY <1>3, <3>1, <3>2, <3>3 DEF Sends
    <3>4. CASE e # d
      BY <3>1, <3>2, <3>4 DEF Sends, OtherRunners
    <3> QED BY <3>3, <3>4
  <2> QED BY <2>1, <2>2
<1> QED BY <1>4, <1>6, <1>7, <1>8 DEF Wired

\* A runner with a call under way starts no other.
LEMMA StartsWired ==
  ASSUME WireInv, NEW d \in Daemons, Starts(d)
  PROVE  Wired'
<1>0. USE WireTypes DEF WireInv
<1>1. \A e \in Daemons : runner'[e].job = runner[e].job
  BY DEF Starts, OtherRunners
<1>2. conn[d] # None => handler[conn[d]].rpc = "none"
  BY DEF Starts, Synced
<1>3. Synced'
  BY <1>2 DEF Starts, Synced, OtherRunners, Wire
<1>4. Named' /\ Fresh'
  BY <1>1 DEF Starts, Named, Fresh, Wire
<1>5. Pending'
  BY <1>1 DEF Starts, Pending, OtherRunners, Wire
<1> QED BY <1>3, <1>4, <1>5 DEF Wired

\* A job that is locked was unknown to everybody.
LEMMA LocksWired ==
  ASSUME WireInv, NEW c \in Conns, NEW j \in Jobs, Locks(c, j)
  PROVE  Wired'
<1>0. USE WireTypes DEF WireInv
<1>1. (\A e \in Conns : handler[e].job # j) /\ \A d \in Daemons : runner[d].job # j
  BY DEF Locks, Named, OwnershipInv, RunnerOwns
<1>2. Synced'
  BY DEF Locks, Synced, OtherHandlers, RunnerCalls
<1>3. Named'
  BY DEF Locks, Named, OtherHandlers
<1>4. Fresh'
  BY <1>1 DEF Locks, Fresh, OtherHandlers
<1>5. Pending'
  BY DEF Locks, Pending, OtherHandlers
<1> QED BY <1>2, <1>3, <1>4, <1>5 DEF Wired

\* A handler keeps its call.
LEMMA MovesWired ==
  ASSUME WireInv, NEW c \in Conns, NEW s, Moves(c, s)
  PROVE  Wired'
<1>0. USE WireTypes DEF WireInv
<1>1. \A e \in Conns : handler'[e].rpc = handler[e].rpc /\ handler'[e].job = handler[e].job
  BY DEF Moves, OtherHandlers
<1>2. Synced'
  BY <1>1 DEF Moves, Synced, Wire
<1>3. Named' /\ Fresh' /\ Pending'
  BY <1>1 DEF Moves, Named, Fresh, Pending, Wire
<1> QED BY <1>2, <1>3 DEF Wired

---------------------------------------------------------------------------
(* Every step is of one of the kinds.                                      *)

\* An answer ends a handler.
LEMMA AnswerEnds ==
  ASSUME WireInv, NEW c \in Conns, NEW r \in RunnerSet, Answer(c, r), UNCHANGED <<worker, daemon>>,
         handler[c].rpc # "none", r.sent = FALSE,
         \/ r.job = None
         \/ handler[c].rpc \in {"heartbeat", "logs"} /\ r.job = runner[holder[c]].job
         \/ /\ handler[c].rpc = "acquire" /\ handler[c].step = "read"
            /\ handler[c].job # None /\ r.job = handler[c].job
  PROVE  Ends(c)
<1>1. /\ holder[c] \in Daemons /\ \A d \in Daemons : conn[d] = c => d = holder[c]
      /\ handler \in [Conns -> HandlerSet] /\ runner \in [Daemons -> RunnerSet]
  BY WireTypes DEF WireInv, OwnershipInv, TypeOK
<1>2. handler'[c] = NoCall /\ OtherHandlers(c)
  BY <1>1 DEF Answer, OtherHandlers
<1>3. \A d \in Daemons : conn[d] # c => runner'[d] = runner[d]
  BY <1>1 DEF Answer
<1>4. \A d \in Daemons : conn[d] = c => d = holder[c] /\ runner'[d] = r
  BY <1>1 DEF Answer
<1> QED BY <1>2, <1>3, <1>4 DEF Ends, Wire, daemon

\* So does an error.
LEMMA ErrorEnds ==
  ASSUME WireInv, NEW c \in Conns, Answer(c, OnError(c)), UNCHANGED <<worker, daemon>>,
         handler[c].rpc # "none"
  PROVE  Ends(c)
<1>1. holder[c] \in Daemons
  BY WireTypes DEF WireInv
<1>2. runner[holder[c]] \in RunnerSet
  BY <1>1 DEF WireInv, OwnershipInv, TypeOK
<1>3. OnError(c) \in RunnerSet
  BY <1>1, OnErrorType DEF WireInv
<1>4. /\ OnError(c).sent = FALSE
      /\ \/ OnError(c).job = None
         \/ handler[c].rpc \in {"heartbeat", "logs"} /\ OnError(c).job = runner[holder[c]].job
  BY <1>2 DEF OnError, Idle, RunnerSet
<1> QED BY <1>3, <1>4, AnswerEnds

\* A statement moves a handler on.
LEMMA AdvanceMoves ==
  ASSUME WireInv, NEW c \in Conns, NEW s, Advance(c, s), UNCHANGED <<worker, daemon, runner>>,
         handler[c].rpc \in RunnerCalls, Follows(handler[c], s)
  PROVE  Moves(c, s)
<1>1. handler \in [Conns -> HandlerSet] /\ handler[c] \in HandlerSet
  BY DEF WireInv, OwnershipInv, TypeOK
<1>2. handler' = [handler EXCEPT ![c].step = s]
  BY DEF Advance
<1>3. /\ handler'[c].rpc = handler[c].rpc /\ handler'[c].job = handler[c].job
      /\ handler'[c].step = s /\ OtherHandlers(c)
  BY <1>1, <1>2 DEF HandlerSet, OtherHandlers
<1> QED BY <1>3 DEF Moves, Wire, daemon

\* The users and the link.
LEMMA LinkKinds ==
  ASSUME WireInv, UserStep \/ LinkStep \/ DebounceExpires \/ UNCHANGED vars
  PROVE  StepKind
<1>1. CASE UserStep \/ DebounceExpires \/ UNCHANGED vars
  <2>1. Still
    BY <1>1 DEF UserStep, CreateJob, CancelRead, CancelWrite, DebounceExpires, vars, row, server,
                daemon, Still, Wire
  <2> QED BY <2>1 DEF StepKind
<1>2. ASSUME NEW d \in Daemons, NEW c \in Conns, Connect(d, c) PROVE StepKind
  <2>1. Dials(d, c)
    BY <1>2 DEF Connect, Dials, WireInv, OwnershipInv, TypeOK, row, server
  <2> QED BY <2>1 DEF StepKind
<1>3. ASSUME NEW d \in Daemons, Disconnect(d) PROVE StepKind
  <2>1. runner[d] \in RunnerSet /\ runner \in [Daemons -> RunnerSet] /\ conn \in [Daemons -> Conns \union {None}]
    BY DEF WireInv, OwnershipInv, TypeOK
  <2>2. /\ conn' = [conn EXCEPT ![d] = None]
        /\ UNCHANGED <<worker, holder, handler>>
        /\ runner' = [runner EXCEPT ![d] = IF runner[d].call = "acquire" THEN Idle
                                           ELSE [runner[d] EXCEPT !.sent = FALSE]]
    BY <1>3 DEF Disconnect, row, server
  <2>3. runner'[d] = Idle \/ runner'[d] = [runner[d] EXCEPT !.sent = FALSE]
    BY <2>1, <2>2
  <2>4. /\ runner'[d].sent = FALSE
        /\ \/ runner'[d].job = None
           \/ runner'[d].job = runner[d].job /\ runner'[d].call = runner[d].call
    BY <2>1, <2>3 DEF RunnerSet, Idle
  <2>5. Drops(d)
    BY <2>1, <2>2, <2>4 DEF Drops, OtherRunners
  <2> QED BY <2>5 DEF StepKind
<1>4. ASSUME NEW d \in Daemons, Crash(d) PROVE StepKind
  <2>1. runner'[d] = Idle /\ OtherRunners(d)
    BY <1>4 DEF Crash, OtherRunners, WireInv, OwnershipInv, TypeOK
  <2>2. Drops(d)
    BY <1>4, <2>1 DEF Crash, Drops, WireInv, OwnershipInv, TypeOK, row, server, Idle
  <2> QED BY <2>2 DEF StepKind
<1>5. ASSUME NEW c \in Conns, HandlerError(c) PROVE StepKind
  <2>1. Ends(c)
    BY <1>5, ErrorEnds DEF HandlerError, row
  <2> QED BY <2>1 DEF StepKind
<1>6. ASSUME NEW c \in Conns, HandlerCanceled(c) PROVE StepKind
  <2>1. handler'[c] = NoCall /\ OtherHandlers(c) /\ handler[c].rpc # "none"
    BY <1>6 DEF HandlerCanceled, OtherHandlers, WireInv, OwnershipInv, TypeOK
  <2>2. \A d \in Daemons : conn[d] # c
    BY <1>6, WireTypes DEF HandlerCanceled, WireInv
  <2>3. Ends(c)
    BY <1>6, <2>1, <2>2 DEF HandlerCanceled, Ends, Wire, row, daemon
  <2> QED BY <2>3 DEF StepKind
<1> QED BY <1>1, <1>2, <1>3, <1>4, <1>5, <1>6 DEF LinkStep

\* The runners.
LEMMA RunnerKinds ==
  ASSUME WireInv, NEW d \in Daemons, RunnerStep(d)
  PROVE  StepKind
<1>0. runner[d] \in RunnerSet /\ runner \in [Daemons -> RunnerSet] /\ handler \in [Conns -> HandlerSet]
      /\ conn[d] \in Conns \union {None}
  BY DEF WireInv, OwnershipInv, TypeOK
<1>1. CASE SendAcquire(d)
  <2>1. runner[d] = Idle /\ conn[d] # None
    BY <1>1 DEF SendAcquire
  <2>2. runner[d].sent = FALSE /\ runner[d].job = None
    BY <2>1 DEF Idle
  <2>3. handler'[conn[d]] = Call("acquire", None) /\ OtherHandlers(conn[d])
    BY <1>0, <1>1, <2>1 DEF SendAcquire, OtherHandlers
  <2>4. runner' = [runner EXCEPT ![d].call = "acquire", ![d].sent = TRUE]
    BY <1>1 DEF SendAcquire
  <2>5. /\ OtherRunners(d)
        /\ runner'[d].sent = TRUE /\ runner'[d].call = "acquire" /\ runner'[d].job = runner[d].job
    BY <1>0, <2>4 DEF OtherRunners, RunnerSet
  <2>6. Sends(d, "acquire")
    BY <1>1, <2>1, <2>2, <2>3, <2>5 DEF SendAcquire, Sends, Wire, row, daemon
  <2> QED BY <2>6 DEF StepKind
<1>2. ASSUME NEW rpc \in RunnerCalls, StartCall(d, rpc) PROVE StepKind
  <2>1. runner' = [runner EXCEPT ![d] = [runner[d] EXCEPT !.call = rpc, !.sent = FALSE]]
    BY <1>2 DEF StartCall
  <2>2. OtherRunners(d) /\ runner'[d].sent = FALSE /\ runner'[d].job = runner[d].job
    BY <1>0, <2>1 DEF OtherRunners, RunnerSet
  <2>3. Starts(d)
    BY <1>2, <2>2 DEF StartCall, Starts, Wire, row, server, daemon
  <2> QED BY <2>3 DEF StepKind
<1>3. CASE Transmit(d)
  <2>1. conn[d] # None /\ runner[d].call \in RunnerCalls /\ ~runner[d].sent
    BY <1>3 DEF Transmit
  <2>2. runner[d].sent = FALSE
    BY <1>0, <2>1 DEF RunnerSet
  <2>3. handler'[conn[d]] = Call(runner[d].call, runner[d].job) /\ OtherHandlers(conn[d])
    BY <1>0, <1>3, <2>1 DEF Transmit, OtherHandlers
  <2>4. runner' = [runner EXCEPT ![d].sent = TRUE]
    BY <1>3 DEF Transmit
  <2>5. /\ OtherRunners(d)
        /\ runner'[d].sent = TRUE /\ runner'[d].call = runner[d].call /\ runner'[d].job = runner[d].job
    BY <1>0, <2>4 DEF OtherRunners, RunnerSet
  <2>6. Sends(d, runner[d].call)
    BY <1>3, <2>1, <2>2, <2>3, <2>5 DEF Transmit, Sends, Wire, row, daemon
  <2> QED BY <2>1, <2>6 DEF StepKind
<1> QED BY <1>1, <1>2, <1>3 DEF RunnerStep, Heartbeat, FlushLogs, RunnerComplete, RunnerFail,
                                ForcedFail, RunnerCalls

\* A reply without a job ends a handler.
LEMMA IdleEnds ==
  ASSUME WireInv, NEW c \in Conns, Answer(c, Idle), UNCHANGED <<worker, daemon>>,
         handler[c].rpc # "none"
  PROVE  Ends(c)
<1>1. Idle \in RunnerSet /\ Idle.sent = FALSE /\ Idle.job = None
  BY RecordTypes DEF Idle
<1> QED BY <1>1, AnswerEnds

\* The handlers of AcquireJob and UpdateJob.
LEMMA AcquireKinds ==
  ASSUME WireInv, NEW c \in Conns, AcquireStep(c) \/ UpdateStep(c)
  PROVE  StepKind
<1>0. handler[c] \in HandlerSet /\ handler \in [Conns -> HandlerSet]
  BY DEF WireInv, OwnershipInv, TypeOK
<1>1. CASE AcquireLock(c)
  <2>1. PICK j \in Jobs : /\ worker[j] = None
                          /\ worker' = [worker EXCEPT ![j] = c]
                          /\ handler' = [handler EXCEPT ![c].job = j, ![c].step = "read"]
    BY <1>1 DEF AcquireLock, Acquirable
  <2>2. handler'[c].rpc = handler[c].rpc /\ handler'[c].job = j /\ OtherHandlers(c)
    BY <1>0, <2>1 DEF HandlerSet, OtherHandlers
  <2>3. worker'[j] = c /\ \A i \in Jobs \ {j} : worker'[i] = worker[i]
    BY <2>1 DEF WireInv, OwnershipInv, TypeOK
  <2>4. Locks(c, j)
    BY <1>1, <2>1, <2>2, <2>3 DEF AcquireLock, Calling, Locks, daemon
  <2> QED BY <2>4 DEF StepKind
<1>2. CASE AcquireEmpty(c) \/ AcquireDebounced(c) \/ AcquireInvalid(c)
  <2>1. Answer(c, Idle) /\ UNCHANGED <<worker, daemon>> /\ handler[c].rpc # "none"
    BY <1>2 DEF AcquireEmpty, AcquireDebounced, AcquireInvalid, Calling, row
  <2> QED BY <2>1, IdleEnds DEF StepKind
<1>3. CASE AcquireReply(c)
  <2> DEFINE run == [Idle EXCEPT !.job = handler[c].job]
  <2>1. handler[c].job \in Jobs /\ handler[c].rpc = "acquire" /\ handler[c].step = "read"
    BY <1>0, <1>3 DEF AcquireReply, WireInv, OwnershipInv, WriterOwns, HandlerSet
  <2>2. PICK r \in {run, [run EXCEPT !.call = "fail"]} : Answer(c, r)
    BY <1>3 DEF AcquireReply
  <2>3. r \in RunnerSet /\ r.job = handler[c].job /\ r.sent = FALSE
    BY <2>1 DEF Idle, RunnerSet, RunnerCalls
  <2>4. UNCHANGED <<worker, daemon>>
    BY <1>3 DEF AcquireReply, row
  <2> HIDE DEF run
  <2>5. Ends(c)
    BY <2>1, <2>2, <2>3, <2>4, AnswerEnds
  <2> QED BY <2>5 DEF StepKind
<1>4. CASE UpdateRead(c)
  <2>1. handler[c].rpc \in RunnerCalls
    BY <1>4 DEF UpdateRead, Calling, RunnerCalls
  <2>2. handler' = [handler EXCEPT ![c].step = "read", ![c].canceled = canceled[handler[c].job]]
    BY <1>4 DEF UpdateRead
  <2>3. /\ handler'[c].rpc = handler[c].rpc /\ handler'[c].job = handler[c].job
        /\ handler'[c].step = "read" /\ OtherHandlers(c)
    BY <1>0, <2>2 DEF HandlerSet, OtherHandlers
  <2>4. Moves(c, "read")
    BY <1>4, <2>1, <2>3 DEF UpdateRead, Calling, Follows, Moves, Wire, row, daemon
  <2> QED BY <2>4 DEF StepKind
<1>5. CASE UpdateRefuse(c)
  <2>1. Answer(c, OnError(c)) /\ UNCHANGED <<worker, daemon>> /\ handler[c].rpc # "none"
    BY <1>5 DEF UpdateRefuse, Refuse, Calling, row
  <2> QED BY <2>1, ErrorEnds DEF StepKind
<1>6. CASE UpdateReply(c)
  <2> DEFINE beat == IF handler[c].rpc = "heartbeat" /\ handler[c].canceled
                     THEN "canceling" ELSE runner[holder[c]].beat
             r == [runner[holder[c]] EXCEPT !.call = "none", !.sent = FALSE, !.beat = beat]
  <2>1. handler[c].rpc \in {"heartbeat", "logs"}
    BY <1>6 DEF UpdateReply, At
  <2>2. runner[holder[c]] \in RunnerSet
    BY <2>1, WireTypes DEF WireInv, OwnershipInv, TypeOK
  <2>3. r \in RunnerSet /\ r.job = runner[holder[c]].job /\ r.sent = FALSE
    <3>1. beat \in {"beating", "canceling", "failing"}
      BY <2>2 DEF RunnerSet
    <3> HIDE DEF beat
    <3> QED BY <2>2, <3>1 DEF RunnerSet
  <2>4. Answer(c, r) /\ UNCHANGED <<worker, daemon>>
    BY <1>6 DEF UpdateReply, row
  <2> HIDE DEF r
  <2>5. Ends(c)
    BY <2>1, <2>3, <2>4, AnswerEnds
  <2> QED BY <2>5 DEF StepKind
<1> QED BY <1>1, <1>2, <1>3, <1>4, <1>5, <1>6 DEF AcquireStep, UpdateStep

\* The handlers of FailJob and CompleteJob.
LEMMA TerminalKinds ==
  ASSUME WireInv, NEW c \in Conns, FailStep(c) \/ CompleteStep(c)
  PROVE  StepKind
<1>1. handler[c].rpc \in RunnerCalls /\ handler[c].rpc # "none"
  BY DEF FailStep, FailRead, FailRefuse, FailWrite, FailSave, FailReply, CompleteStep,
         CompleteRead, CompleteRefuse, CompleteInsert, CompleteWrite, CompleteReply,
         Calling, At, RunnerCalls
<1>2. CASE Refuse(c)
  <2>1. Answer(c, OnError(c)) /\ UNCHANGED <<worker, daemon>>
    BY <1>2 DEF Refuse, row
  <2> QED BY <1>1, <2>1, ErrorEnds DEF StepKind
<1>3. CASE Publish(c)
  <2>1. Answer(c, Idle) /\ UNCHANGED <<worker, daemon>>
    BY <1>3 DEF Publish, row
  <2> QED BY <1>1, <2>1, IdleEnds DEF StepKind
<1>4. ASSUME NEW s \in {"read", "inserted", "written", "saved"}, Advance(c, s),
             Follows(handler[c], s), UNCHANGED <<worker, daemon, runner>>
      PROVE  StepKind
  BY <1>1, <1>4, AdvanceMoves DEF StepKind
<1>5. CASE FailRead(c) \/ CompleteRead(c)
  BY <1>4, <1>5 DEF FailRead, CompleteRead, Calling, Follows, row
<1>6. CASE FailWrite(c) \/ CompleteWrite(c)
  BY <1>4, <1>6 DEF FailWrite, CompleteWrite, At, Follows
<1>7. CASE FailSave(c) \/ CompleteInsert(c)
  BY <1>4, <1>7 DEF FailSave, CompleteInsert, At, Follows, row
<1> QED BY <1>2, <1>3, <1>5, <1>6, <1>7
        DEF FailStep, CompleteStep, FailRefuse, CompleteRefuse, FailReply, CompleteReply

\* There is no other step.
LEMMA NextKinds ==
  ASSUME WireInv, [Next]_vars
  PROVE  StepKind
BY LinkKinds, RunnerKinds, AcquireKinds, TerminalKinds DEF Next, HandlerStep

\* The protocol between runners and handlers keeps its invariant.
THEOREM WireInvariant == Spec => []WireInv
<1>1. Init => WireInv
  <2> SUFFICES ASSUME Init PROVE WireInv
    OBVIOUS
  <2>1. OwnershipInv
    BY InitOwnership
  <2>2. Synced /\ Named /\ Fresh /\ Pending
    BY DEF Init, Synced, Named, Fresh, Pending, NoCall, Idle
  <2> QED BY <2>1, <2>2 DEF WireInv
<1>2. WireInv /\ [Next]_vars => WireInv'
  <2> SUFFICES ASSUME WireInv, [Next]_vars PROVE WireInv'
    OBVIOUS
  <2>1. OwnershipInv'
    BY NextOwnership DEF WireInv
  <2>2. Still => Wired'
    BY DEF Still, Wire, WireInv, Wired, Synced, Named, Fresh, Pending
  <2>3. Wired'
    BY <2>2, NextKinds, DialsWired, DropsWired, EndsWired, SendsWired, StartsWired, LocksWired,
       MovesWired DEF StepKind
  <2> QED BY <2>1, <2>3 DEF WireInv, Wired
<1> QED BY <1>1, <1>2, PTL DEF Spec

---------------------------------------------------------------------------
(* When a job is over.                                                     *)

\* Nothing can be written for j any more: the connection that owns it serves no call about
\* it, and its daemon, if it still has that connection, does not run it.
Over(j) ==
    /\ worker[j] # None
    /\ handler[worker[j]].job # j
    /\ \A d \in Daemons : conn[d] = worker[j] => runner[d].job # j

\* The owner's handler has made one of the last steps of rpc for j.
Closing(j, rpc, steps) ==
    /\ worker[j] # None
    /\ handler[worker[j]].job = j
    /\ handler[worker[j]].rpc = rpc
    /\ handler[worker[j]].step \in steps

Completing(j) == Over(j) \/ Closing(j, "complete", {"inserted", "written"})
Failing(j) == Over(j) \/ Closing(j, "fail", {"written", "saved"})

\* What is over stays over: the owning connection is never dialed again.
LEMMA OverStays ==
  ASSUME WireInv, StepKind, NEW j \in Jobs, Over(j)
  PROVE  Over(j)'
<1>0. USE WireTypes DEF WireInv
<1>1. CASE Still
  BY <1>1 DEF Still, Wire, Over
<1>2. ASSUME NEW d \in Daemons, NEW c \in Conns, Dials(d, c) PROVE Over(j)'
  <2>1. worker[j] = c => runner[d].job # j
    BY <1>2 DEF Dials, OwnershipInv, RunnerOwns
  <2> QED BY <1>2, <2>1 DEF Dials, Over
<1>3. ASSUME NEW d \in Daemons, Drops(d) PROVE Over(j)'
  BY <1>3 DEF Drops, OtherRunners, Over
<1>4. ASSUME NEW c \in Conns, Ends(c) PROVE Over(j)'
  <2>1. worker[j] \in Conns /\ NoCall.job # j /\ j # None
    BY DEF Over, NoCall
  <2>2. handler'[worker[j]].job # j
    BY <1>4, <2>1 DEF Ends, OtherHandlers, Over
  <2>3. \A d \in Daemons : conn[d] = worker[j] => runner'[d].job # j
    BY <1>4, <2>1 DEF Ends, Over
  <2> QED BY <1>4, <2>2, <2>3 DEF Ends, Wire, Over
<1>5. ASSUME NEW d \in Daemons, NEW rpc \in RunnerCalls \union {"acquire"}, Sends(d, rpc) PROVE Over(j)'
  <2>1. Call(rpc, runner[d].job).job = runner[d].job
    BY DEF Call
  <2>2. handler'[worker[j]].job # j
    BY <1>5, <2>1 DEF Sends, OtherHandlers, Over
  <2>3. \A e \in Daemons : runner'[e].job = runner[e].job
    BY <1>5 DEF Sends, OtherRunners
  <2> QED BY <1>5, <2>2, <2>3 DEF Sends, Wire, Over
<1>6. ASSUME NEW d \in Daemons, Starts(d) PROVE Over(j)'
  <2>1. \A e \in Daemons : runner'[e].job = runner[e].job
    BY <1>6 DEF Starts, OtherRunners
  <2> QED BY <1>6, <2>1 DEF Starts, Wire, Over
<1>7. ASSUME NEW c \in Conns, NEW i \in Jobs, Locks(c, i) PROVE Over(j)'
  BY <1>7 DEF Locks, OtherHandlers, Over
<1>8. ASSUME NEW c \in Conns, NEW s \in {"read", "inserted", "written", "saved"}, Moves(c, s) PROVE Over(j)'
  <2>1. handler'[worker[j]].job # j
    BY <1>8 DEF Moves, OtherHandlers, Over
  <2> QED BY <1>8, <2>1 DEF Moves, Wire, Over
<1> QED BY <1>1, <1>2, <1>3, <1>4, <1>5, <1>6, <1>7, <1>8 DEF StepKind

\* The answer to the last message ends the job, whether or not it arrives.
LEMMA LastAnswer ==
  ASSUME WireInv, NEW c \in Conns, Ends(c), NEW j \in Jobs, worker[j] = c, handler[c].job = j,
         handler[c].rpc \in {"fail", "complete"}
  PROVE  Over(j)'
<1>1. NoCall.job # j /\ j # None
  BY DEF NoCall
<1>2. \A d \in Daemons : conn[d] = c => runner'[d].job # j
  BY <1>1 DEF Ends
<1> QED BY <1>1, <1>2 DEF Ends, Wire, Over

\* A handler in its last steps goes on to the next of them, or the job is over.
LEMMA ClosingStays ==
  ASSUME WireInv, StepKind, NEW j \in Jobs, NEW rpc, NEW steps, Closing(j, rpc, steps),
         \/ rpc = "complete" /\ steps = {"inserted", "written"}
         \/ rpc = "fail" /\ steps = {"written", "saved"}
  PROVE  Over(j)' \/ Closing(j, rpc, steps)'
<1>0. USE WireTypes DEF WireInv
<1>1. worker[j] \in Conns /\ handler[worker[j]].rpc \in {"fail", "complete"}
  BY DEF Closing
<1>2. ASSUME UNCHANGED worker, handler'[worker[j]] = handler[worker[j]]
      PROVE  Closing(j, rpc, steps)'
  BY <1>2 DEF Closing
<1>3. CASE Still \/ (\E d \in Daemons, c \in Conns : Dials(d, c)) \/ (\E d \in Daemons : Drops(d) \/ Starts(d))
  BY <1>2, <1>3 DEF Still, Dials, Drops, Starts, Wire
<1>4. ASSUME NEW c \in Conns, Ends(c) PROVE Over(j)' \/ Closing(j, rpc, steps)'
  <2>1. CASE c = worker[j]
    BY <1>1, <1>4, <2>1, LastAnswer DEF Closing
  <2>2. CASE c # worker[j]
    BY <1>1, <1>2, <1>4, <2>2 DEF Ends, OtherHandlers, Wire
  <2> QED BY <2>1, <2>2
<1>5. ASSUME NEW d \in Daemons, NEW r \in RunnerCalls \union {"acquire"}, Sends(d, r)
      PROVE  Closing(j, rpc, steps)'
  <2>1. conn[d] # worker[j]
    BY <1>1, <1>5 DEF Sends, Synced
  <2> QED BY <1>1, <1>2, <1>5, <2>1 DEF Sends, OtherHandlers, Wire
<1>6. ASSUME NEW c \in Conns, NEW i \in Jobs, Locks(c, i) PROVE Closing(j, rpc, steps)'
  <2>1. c # worker[j] /\ i # j
    BY <1>1, <1>6 DEF Locks, Closing
  <2> QED BY <1>1, <1>6, <2>1 DEF Locks, OtherHandlers, Closing
<1>7. ASSUME NEW c \in Conns, NEW s \in {"read", "inserted", "written", "saved"}, Moves(c, s)
      PROVE  Closing(j, rpc, steps)'
  <2>1. CASE c = worker[j]
    BY <1>1, <1>7, <2>1 DEF Moves, Follows, Wire, Closing
  <2>2. CASE c # worker[j]
    BY <1>1, <1>2, <1>7, <2>2 DEF Moves, OtherHandlers, Wire
  <2> QED BY <2>1, <2>2
<1> QED BY <1>3, <1>4, <1>5, <1>6, <1>7 DEF StepKind

\* So both ways to end a job are final.
LEMMA EndingStays ==
  ASSUME WireInv, [Next]_vars, NEW j \in Jobs
  PROVE  (Completing(j) => Completing(j)') /\ (Failing(j) => Failing(j)')
<1>1. StepKind
  BY NextKinds
<1> QED BY <1>1, OverStays, ClosingStays DEF Completing, Failing

---------------------------------------------------------------------------
(* The outcome.                                                            *)

\* Resources are inserted once, and not for a job that failed; either is the last write.
OutcomeInv ==
    \A j \in Jobs :
        /\ inserted[j] > 0 =>
            /\ inserted[j] = 1 /\ ~failed[j]
            /\ j \in Builds => j \in saved
            /\ Completing(j)
        /\ failed[j] => Failing(j)

\* While the owner's handler of j is at work, only its own writes can have happened.
LEMMA OwnWritesOnly ==
  ASSUME WireInv, OutcomeInv, NEW c \in Conns, handler[c].step \notin {"idle", "called"}
  PROVE  /\ handler[c].job \in Jobs /\ worker[handler[c].job] = c
         /\ inserted[handler[c].job] > 0 => handler[c].rpc = "complete" /\ handler[c].step \in {"inserted", "written"}
         /\ failed[handler[c].job] => handler[c].rpc = "fail" /\ handler[c].step \in {"written", "saved"}
<1>1. handler[c].job \in Jobs /\ worker[handler[c].job] = c
  BY WireTypes DEF WireInv, OwnershipInv, WriterOwns
<1>2. ~Over(handler[c].job)
  BY <1>1 DEF Over
<1> QED BY <1>1, <1>2 DEF OutcomeInv, Completing, Failing, Closing

\* A step that writes no outcome.
LEMMA OutcomeUnchanged ==
  ASSUME WireInv, OutcomeInv, [Next]_vars, UNCHANGED <<inserted, failed>>, saved \subseteq saved'
  PROVE  OutcomeInv'
BY EndingStays DEF OutcomeInv

\* AcquireJob fails a job that it cannot prepare.
LEMMA AcquireInvalidOutcome ==
  ASSUME WireInv, OutcomeInv, NEW c \in Conns, AcquireInvalid(c), [Next]_vars
  PROVE  OutcomeInv'
<1>1. PICK j \in Jobs : /\ j = handler[c].job /\ worker[j] = c /\ ~(inserted[j] > 0)
                        /\ handler[c].rpc = "acquire" /\ j # None
  BY OwnWritesOnly DEF AcquireInvalid
<1>2. Ends(c) /\ Answer(c, Idle) /\ UNCHANGED <<worker, daemon>>
  BY IdleEnds DEF AcquireInvalid
<1>3. Over(j)'
  <2>1. \A d \in Daemons : runner[d].job # j
    BY <1>1 DEF WireInv, Fresh
  <2>2. runner \in [Daemons -> RunnerSet]
    BY DEF WireInv, OwnershipInv, TypeOK
  <2>3. \A d \in Daemons : runner'[d].job # j
    BY <1>1, <1>2, <2>1, <2>2 DEF Answer, Idle
  <2>4. handler'[c].job # j
    BY <1>1, <1>2 DEF Ends, NoCall
  <2> QED BY <1>1, <1>2, <2>3, <2>4 DEF Over
<1>4. /\ \A i \in Jobs \ {j} : failed'[i] = failed[i]
      /\ UNCHANGED <<inserted, saved>>
  BY <1>1 DEF AcquireInvalid, effects, WireInv, OwnershipInv, TypeOK
<1>5. ASSUME NEW i \in Jobs, i # j
      PROVE  /\ inserted'[i] > 0 =>
                /\ inserted'[i] = 1 /\ ~failed'[i]
                /\ i \in Builds => i \in saved'
                /\ Completing(i)'
             /\ failed'[i] => Failing(i)'
  BY <1>4, <1>5, EndingStays DEF OutcomeInv
<1>6. ~(inserted'[j] > 0) /\ Failing(j)'
  BY <1>1, <1>3, <1>4 DEF Failing
<1> QED BY <1>5, <1>6 DEF OutcomeInv

\* FailJob marks the job failed.
LEMMA FailWriteOutcome ==
  ASSUME WireInv, OutcomeInv, NEW c \in Conns, FailWrite(c), [Next]_vars
  PROVE  OutcomeInv'
<1>1. PICK j \in Jobs : /\ j = handler[c].job /\ worker[j] = c /\ ~(inserted[j] > 0)
                        /\ handler[c].rpc = "fail"
  BY OwnWritesOnly DEF FailWrite, At
<1>2. Moves(c, "written")
  BY AdvanceMoves DEF FailWrite, At, Follows, RunnerCalls
<1>3. Closing(j, "fail", {"written", "saved"})'
  BY <1>1, <1>2 DEF Moves, Wire, Closing
<1>4. /\ \A i \in Jobs \ {j} : failed'[i] = failed[i]
      /\ UNCHANGED <<inserted, saved>>
  BY <1>1 DEF FailWrite, effects, WireInv, OwnershipInv, TypeOK
<1>5. ASSUME NEW i \in Jobs, i # j
      PROVE  /\ inserted'[i] > 0 =>
                /\ inserted'[i] = 1 /\ ~failed'[i]
                /\ i \in Builds => i \in saved'
                /\ Completing(i)'
             /\ failed'[i] => Failing(i)'
  BY <1>4, <1>5, EndingStays DEF OutcomeInv
<1>6. ~(inserted'[j] > 0) /\ Failing(j)'
  BY <1>1, <1>3, <1>4 DEF Failing
<1> QED BY <1>5, <1>6 DEF OutcomeInv

\* CompleteJob inserts resources, with or without completing the job.
LEMMA CompleteOutcome ==
  ASSUME WireInv, OutcomeInv, NEW c \in Conns, CompleteInsert(c) \/ CompleteWrite(c), [Next]_vars
  PROVE  OutcomeInv'
<1>1. PICK j \in Jobs : /\ j = handler[c].job /\ worker[j] = c /\ ~failed[j]
                        /\ handler[c].rpc = "complete" /\ handler[c].step \in {"read", "inserted"}
                        /\ handler[c].step = "read" => ~(inserted[j] > 0)
  BY OwnWritesOnly DEF CompleteInsert, CompleteWrite, At
<1>2. PICK s \in {"inserted", "written"} : Moves(c, s)
  BY AdvanceMoves DEF CompleteInsert, CompleteWrite, At, Follows, RunnerCalls, row
<1>3. Closing(j, "complete", {"inserted", "written"})'
  BY <1>1, <1>2 DEF Moves, Wire, Closing
<1>4. inserted \in [Jobs -> Nat] /\ failed \in [Jobs -> BOOLEAN]
  BY DEF WireInv, OwnershipInv, TypeOK
<1>5. /\ \A i \in Jobs \ {j} : inserted'[i] = inserted[i]
      /\ saved \subseteq saved'
      /\ inserted'[j] = inserted[j] + 1 \/ inserted'[j] = inserted[j]
      /\ inserted'[j] = inserted[j] + 1 => handler[c].step = "read" /\ (j \in Builds => j \in saved')
  BY <1>1, <1>4 DEF CompleteInsert, CompleteWrite, At
<1>6. \A i \in Jobs : failed'[i] = (IF i = j /\ CompleteWrite(c) THEN FALSE ELSE failed[i])
  BY <1>1, <1>4 DEF CompleteInsert, CompleteWrite, At, row
<1>7. ASSUME NEW i \in Jobs, i # j
      PROVE  /\ inserted'[i] > 0 =>
                /\ inserted'[i] = 1 /\ ~failed'[i]
                /\ i \in Builds => i \in saved'
                /\ Completing(i)'
             /\ failed'[i] => Failing(i)'
  <2>1. failed'[i] = failed[i]
    BY <1>6, <1>7
  <2> QED BY <1>5, <1>7, <2>1, EndingStays DEF OutcomeInv
<1>8. ~failed'[j] /\ Completing(j)'
  BY <1>1, <1>3, <1>6 DEF Completing
<1>9. inserted'[j] > 0 => inserted'[j] = 1 /\ (j \in Builds => j \in saved')
  BY <1>1, <1>4, <1>5 DEF OutcomeInv
<1> QED BY <1>7, <1>8, <1>9 DEF OutcomeInv

\* OutcomeInv is inductive, relative to WireInv.
LEMMA NextOutcome ==
  ASSUME WireInv, OutcomeInv, [Next]_vars
  PROVE  OutcomeInv'
<1>1. CASE \E c \in Conns : AcquireInvalid(c) \/ FailWrite(c) \/ CompleteInsert(c) \/ CompleteWrite(c)
  BY <1>1, AcquireInvalidOutcome, FailWriteOutcome, CompleteOutcome
<1>2. CASE ~\E c \in Conns : AcquireInvalid(c) \/ FailWrite(c) \/ CompleteInsert(c) \/ CompleteWrite(c)
  <2>1. UNCHANGED <<inserted, failed>> /\ saved \subseteq saved'
    BY <1>2 DEF Next, UserStep, CreateJob, CancelRead, CancelWrite, LinkStep, Connect,
       Disconnect, Crash, HandlerError, HandlerCanceled, DebounceExpires, RunnerStep,
       SendAcquire, Heartbeat, FlushLogs, RunnerComplete, RunnerFail, ForcedFail,
       StartCall, Transmit, HandlerStep, AcquireStep, AcquireLock, AcquireEmpty, AcquireDebounced,
       AcquireReply, UpdateStep, UpdateRead, UpdateRefuse, UpdateReply,
       FailStep, FailRead, FailRefuse, FailSave, FailReply, CompleteStep,
       CompleteRead, CompleteRefuse, CompleteReply, Refuse, Publish, vars, row, effects
  <2> QED BY <2>1, OutcomeUnchanged
<1> QED BY <1>1, <1>2

\* Every reachable state satisfies OutcomeInv.
THEOREM OutcomeInvariant == Spec => []OutcomeInv
<1>1. ASSUME Init PROVE OutcomeInv
  <2>1. ASSUME NEW j \in Jobs PROVE ~(inserted[j] > 0)
    <3>1. inserted[j] = 0
      BY <1>1 DEF Init
    <3> QED BY <3>1
  <2>2. \A j \in Jobs : ~failed[j]
    BY <1>1 DEF Init
  <2> QED BY <2>1, <2>2 DEF OutcomeInv
<1>2. WireInv /\ OutcomeInv /\ [Next]_vars => OutcomeInv'
  BY NextOutcome
<1> QED BY <1>1, <1>2, WireInvariant, PTL DEF Spec

\* CompleteJob inserts the resources of a job at most once, although it does not look at
\* completed_at and a runner retries it after a lost answer.
THEOREM ResourcesInsertedOnce == Spec => []ResourcesOnce
<1>1. ASSUME TypeOK, OutcomeInv PROVE ResourcesOnce
  <2> SUFFICES ASSUME NEW j \in Jobs PROVE inserted[j] <= 1
    BY DEF ResourcesOnce
  <2>1. inserted[j] \in Nat
    BY <1>1 DEF TypeOK
  <2>2. inserted[j] > 0 => inserted[j] = 1
    BY <1>1 DEF OutcomeInv
  <2> QED BY <2>1, <2>2
<1> QED BY <1>1, OutcomeInvariant, TypeCorrect, PTL

\* A job whose resources were inserted is never marked failed, and a build that has
\* resources has its state stored.
THEOREM OutcomesAreWhole == Spec => []OutcomeWhole
<1>1. OutcomeInv => OutcomeWhole
  BY DEF OutcomeInv, OutcomeWhole
<1> QED BY <1>1, OutcomeInvariant, PTL

\* The error of a failed job is never cleared, although CompleteJob writes that column for
\* any job its caller owns.
THEOREM FailuresAreFinal == Spec => FailureIsFinal
<1>1. WireInv /\ OutcomeInv /\ [Next]_vars => [\A j \in Jobs : failed[j] => failed'[j]]_vars
  <2> SUFFICES ASSUME WireInv, OutcomeInv, Next, NEW j \in Jobs, failed[j]
               PROVE  failed'[j]
    OBVIOUS
  <2>0. failed \in [Jobs -> BOOLEAN]
    BY DEF WireInv, OwnershipInv, TypeOK
  <2>1. CASE \E c \in Conns : AcquireInvalid(c) \/ FailWrite(c)
    BY <2>0, <2>1 DEF AcquireInvalid, FailWrite
  <2>2. ASSUME NEW c \in Conns, CompleteWrite(c)
        PROVE  failed'[j]
    <3>1. handler[c].rpc = "complete" /\ handler[c].step \notin {"idle", "called"}
      BY <2>2 DEF CompleteWrite, At
    <3>2. handler[c].job # j
      BY <3>1, OwnWritesOnly
    <3> QED BY <2>0, <2>2, <3>2 DEF CompleteWrite
  <2>3. CASE ~\E c \in Conns : AcquireInvalid(c) \/ FailWrite(c) \/ CompleteWrite(c)
    <3>1. UNCHANGED failed
      BY <2>3 DEF Next, UserStep, CreateJob, CancelRead, CancelWrite, LinkStep, Connect,
         Disconnect, Crash, HandlerError, HandlerCanceled, DebounceExpires, RunnerStep,
         SendAcquire, Heartbeat, FlushLogs, RunnerComplete, RunnerFail, ForcedFail,
         StartCall, Transmit, HandlerStep, AcquireStep, AcquireLock, AcquireEmpty, AcquireDebounced,
         AcquireReply, UpdateStep, UpdateRead, UpdateRefuse, UpdateReply,
         FailStep, FailRead, FailRefuse, FailSave, FailReply, CompleteStep, CompleteInsert,
         CompleteRead, CompleteRefuse, CompleteReply, Refuse, Publish, row
    <3> QED BY <3>1
  <2> QED BY <2>1, <2>2, <2>3
<1> QED BY <1>1, WireInvariant, OutcomeInvariant, PTL DEF Spec, FailureIsFinal

---------------------------------------------------------------------------
(* The end of the logs.                                                    *)

\* When EndOfLogs was published the job is over, and a daemon that lost the connection it
\* owned the job through still sends nothing but its last message.
EndInv ==
    \A j \in ended :
        /\ Over(j)
        /\ \A d \in Daemons : runner[d].job = j => runner[d].call \in {"fail", "complete"}

\* A runner whose job has ended starts no other call about it.
LEMMA LastCallStays ==
  ASSUME WireInv, StepKind, NEW j \in Jobs, Over(j), NEW d \in Daemons, runner'[d].job = j,
         \A e \in Daemons : runner[e].job = j => runner[e].call \in {"fail", "complete"}
  PROVE  runner'[d].call \in {"fail", "complete"}
<1>0. USE WireTypes DEF WireInv
<1>1. ASSUME runner'[d] = runner[d] PROVE runner'[d].call \in {"fail", "complete"}
  BY <1>1
<1>2. CASE Still \/ (\E e \in Daemons, c \in Conns : Dials(e, c)) \/ (\E c \in Conns, i \in Jobs : Locks(c, i))
           \/ (\E c \in Conns, s \in {"read", "inserted", "written", "saved"} : Moves(c, s))
  BY <1>1, <1>2 DEF Still, Dials, Locks, Moves
<1>3. ASSUME NEW e \in Daemons, Drops(e) PROVE runner'[d].call \in {"fail", "complete"}
  BY <1>1, <1>3 DEF Drops, OtherRunners
<1>4. ASSUME NEW c \in Conns, Ends(c) PROVE runner'[d].call \in {"fail", "complete"}
  <2>1. CASE conn[d] # c
    BY <1>1, <1>4, <2>1 DEF Ends
  <2>2. CASE conn[d] = c
    <3>1. ~(handler[c].rpc \in {"heartbeat", "logs"} /\ runner[d].job = j)
      BY <1>4, <2>2 DEF Ends, Synced
    <3>2. ~(handler[c].rpc = "acquire" /\ handler[c].step = "read" /\ handler[c].job = j)
      BY DEF OwnershipInv, WriterOwns, Over
    <3> QED BY <1>4, <2>2, <3>1, <3>2 DEF Ends
  <2> QED BY <2>1, <2>2
<1>5. ASSUME NEW e \in Daemons, NEW rpc \in RunnerCalls \union {"acquire"}, Sends(e, rpc)
      PROVE  runner'[d].call \in {"fail", "complete"}
  BY <1>1, <1>5 DEF Sends, OtherRunners
<1>6. ASSUME NEW e \in Daemons, Starts(e) PROVE runner'[d].call \in {"fail", "complete"}
  BY <1>1, <1>6 DEF Starts, OtherRunners
<1> QED BY <1>2, <1>3, <1>4, <1>5, <1>6 DEF StepKind

\* The answer to a last message publishes EndOfLogs.
LEMMA PublishEnds ==
  ASSUME WireInv, NEW c \in Conns, FailReply(c) \/ CompleteReply(c)
  PROVE  \E j \in Jobs :
            /\ ended' = ended \union {j}
            /\ Over(j)'
            /\ \A d \in Daemons : runner'[d].job = j => runner'[d].call \in {"fail", "complete"}
<1>1. /\ Publish(c) /\ handler[c].rpc \in {"fail", "complete"}
      /\ handler[c].step \in {"written", "saved"}
  BY DEF FailReply, CompleteReply, At
<1>2. PICK j \in Jobs : j = handler[c].job /\ worker[j] = c /\ j # None
  BY <1>1, WireTypes DEF WireInv, OwnershipInv, WriterOwns
<1>3. Answer(c, Idle) /\ UNCHANGED <<worker, daemon>> /\ ended' = ended \union {j}
  BY <1>1, <1>2 DEF Publish, row
<1>4. Ends(c)
  BY <1>1, <1>3, IdleEnds
<1>5. Over(j)'
  BY <1>1, <1>2, <1>4, LastAnswer
<1>6. ASSUME NEW d \in Daemons, runner'[d].job = j
      PROVE  runner'[d].call \in {"fail", "complete"}
  <2>1. conn[d] # c
    BY <1>2, <1>3, <1>5, <1>6 DEF Over, daemon
  <2>2. runner'[d] = runner[d]
    BY <1>4, <2>1 DEF Ends
  <2>3. holder[c] = d
    BY <1>2, <1>6, <2>2 DEF WireInv, OwnershipInv, RunnerOwns
  <2> QED BY <1>1, <1>2, <1>6, <2>2, <2>3 DEF WireInv, Pending
<1> QED BY <1>3, <1>5, <1>6

\* EndInv is inductive, relative to WireInv.
LEMMA NextEnd ==
  ASSUME WireInv, EndInv, [Next]_vars
  PROVE  EndInv'
<1>1. StepKind /\ ended \subseteq Jobs
  BY NextKinds DEF WireInv, OwnershipInv, TypeOK
<1>2. ASSUME NEW j \in ended
      PROVE  /\ Over(j)'
             /\ \A d \in Daemons : runner'[d].job = j => runner'[d].call \in {"fail", "complete"}
  BY <1>1, <1>2, OverStays, LastCallStays DEF EndInv
<1>3. CASE \E c \in Conns : FailReply(c) \/ CompleteReply(c)
  BY <1>2, <1>3, PublishEnds DEF EndInv
<1>4. CASE ~\E c \in Conns : FailReply(c) \/ CompleteReply(c)
  <2>1. UNCHANGED ended
    BY <1>4 DEF Next, UserStep, CreateJob, CancelRead, CancelWrite, LinkStep, Connect,
       Disconnect, Crash, HandlerError, HandlerCanceled, DebounceExpires, RunnerStep,
       SendAcquire, Heartbeat, FlushLogs, RunnerComplete, RunnerFail, ForcedFail,
       StartCall, Transmit, HandlerStep, AcquireStep, AcquireLock, AcquireEmpty, AcquireDebounced,
       AcquireInvalid, AcquireReply, UpdateStep, UpdateRead, UpdateRefuse, UpdateReply,
       FailStep, FailRead, FailRefuse, FailWrite, FailSave, CompleteStep, CompleteInsert,
       CompleteWrite, CompleteRead, CompleteRefuse, Refuse, vars, effects
  <2> QED BY <1>2, <2>1 DEF EndInv
<1> QED BY <1>3, <1>4

\* EndOfLogs is the last word on a job: when it has been published no daemon is at work on
\* the job and no handler is about to store logs of it.
THEOREM NothingAfterEndOfLogs == Spec => []EndOfLogsIsLast
<1>1. Init => EndInv
  BY DEF Init, EndInv
<1>2. WireInv /\ EndInv /\ [Next]_vars => EndInv'
  BY NextEnd
<1>3. ASSUME WireInv, EndInv PROVE EndOfLogsIsLast
  <2> SUFFICES ASSUME NEW j \in ended
               PROVE  /\ \A d \in Daemons : runner[d].job = j => runner[d].call \in {"fail", "complete"}
                      /\ \A c \in Conns :
                            handler[c].job = j /\ handler[c].rpc = "logs" => handler[c].step = "called"
    BY DEF EndOfLogsIsLast
  <2>1. ASSUME NEW c \in Conns, handler[c].job = j, handler[c].rpc = "logs", handler[c].step # "called"
        PROVE  FALSE
    <3>1. handler[c].step # "idle"
      BY <1>3, <2>1 DEF WireInv, OwnershipInv, Links
    <3>2. worker[j] = c
      BY <1>3, <2>1, <3>1 DEF WireInv, OwnershipInv, WriterOwns
    <3> QED BY <1>3, <2>1, <3>2 DEF EndInv, Over
  <2> QED BY <1>3, <2>1 DEF EndInv
<1> QED BY <1>1, <1>2, <1>3, WireInvariant, PTL DEF Spec
===========================================================================
