------------------------------- MODULE Agent -------------------------------
(***************************************************************************)
(* The life of the workspace agent (agent/agent.go, with the listeners of  *)
(* tailnet/conn.go): runLoop retries run, run fetches metadata, opens the  *)
(* tailnet once and serves the coordinator; four goroutines accept         *)
(* connections; Close cancels everything, closes the network and waits for *)
(* connCloseWait while it holds closeMutex.  Every other holder of         *)
(* closeMutex keeps it for one step, so the mutex is free unless Close has *)
(* it.                                                                     *)
(***************************************************************************)
EXTENDS Integers, FiniteSets, Sequences

CONSTANTS
    MaxErrors,      \* how many calls to coderd may fail
    MaxSessions     \* bound on speed tests, and on PTY processes

VARIABLES
    loop,           \* where runLoop and run are
    errors,         \* calls that have failed
    metadata,       \* whether a.metadata holds a value
    scripts,        \* how often the startup script was started
    reporter,       \* whether an app health reporter has a live context
    network,        \* a.network: none, open or closed
    accept,         \* what each listener's goroutine does
    wait,           \* the counter connCloseWait
    speedtests,     \* running speed tests
    ptys,           \* PTY processes: starting, counted in connCloseWait, ended
    statsCloser,    \* the goroutine of init that closes the stats reporter
    closer,         \* where Close is
    closed          \* the channel a.closed and the agent's context

vars == <<loop, errors, metadata, scripts, reporter, network, accept, wait,
          speedtests, ptys, statsCloser, closer, closed>>

\* The listeners, in the order createTailnet opens them.
Ports == <<"ssh", "pty", "speedtest", "statistics">>
PortSet == {Ports[i] : i \in DOMAIN Ports}

Stages == {"retry", "exchangeToken", "version", "metadata", "override", "reporter",
           "network", "createTailnet", "store", "listen", "serving", "ended"}
At(stage) == [stage |-> stage, port |-> 0]
Opening(i) == [stage |-> "listening", port |-> i]

TypeOK ==
    /\ loop \in {At(s) : s \in Stages} \union {Opening(i) : i \in DOMAIN Ports}
    /\ errors \in 0 .. MaxErrors
    /\ metadata \in BOOLEAN /\ reporter \in BOOLEAN /\ closed \in BOOLEAN
    /\ scripts \in 0 .. MaxErrors + 1
    /\ network \in {"none", "open", "closed"}
    /\ accept \in [PortSet -> {"none", "accepting", "accepted", "ended"}]
    /\ speedtests \in 0 .. MaxSessions
    /\ ptys \in [starting : 0 .. MaxSessions, counted : 0 .. MaxSessions,
                 ended : 0 .. MaxSessions]
    /\ statsCloser \in {"starting", "waiting", "ended"}
    /\ closer \in {"idle", "canceled", "waiting", "returned"}
    \* every Add of the wait group is paired with the Done of something that
    \* runs, or that will never start
    /\ wait \in 0 .. 2 * MaxSessions + 5

\* New and init up to the start of the loop.
Init ==
    /\ loop = At("retry") /\ errors = 0
    /\ metadata = FALSE /\ scripts = 0 /\ reporter = FALSE
    /\ network = "none" /\ accept = [p \in PortSet |-> "none"]
    /\ wait = 0 /\ speedtests = 0
    /\ ptys = [starting |-> 0, counted |-> 0, ended |-> 0]
    /\ statsCloser = "starting" /\ closer = "idle" /\ closed = FALSE

MutexFree == closer \notin {"canceled", "waiting"}

sessions == <<accept, wait, speedtests, ptys>>
closing == <<statsCloser, closer, closed>>

-----------------------------------------------------------------------------
(* runLoop and run *)

\* retrier.Wait: the next attempt, or the end when the context is done.
Retry ==
    /\ loop = At("retry")
    /\ loop' = At(IF closed THEN "ended" ELSE "exchangeToken")
    /\ UNCHANGED <<errors, metadata, scripts, reporter, network, sessions, closing>>

\* Mutant of Return: every error ends the loop.
ReturnForGood ==
    /\ loop' = At("ended")
    /\ reporter' = FALSE

\* run returns an error, its deferred cancel ends the reporter, and runLoop
\* stops when the agent is closed.
Return ==
    /\ loop' = At(IF closed THEN "ended" ELSE "retry")
    /\ reporter' = FALSE

\* A call of run fails: with the context once the agent is closed, or
\* because coderd cannot be reached.
CallFails ==
    /\ loop.stage \in {"exchangeToken", "version", "metadata", "override", "listen"}
    /\ \/ closed /\ loop.stage # "override" /\ UNCHANGED errors
       \/ ~closed /\ errors < MaxErrors /\ errors' = errors + 1
    /\ Return
    /\ UNCHANGED <<metadata, scripts, network, sessions, closing>>

\* A call of run that changes nothing of the agent's state succeeds.
CallSucceeds ==
    /\ ~closed
    /\ \/ loop = At("exchangeToken") /\ loop' = At("version")
       \/ loop = At("version") /\ loop' = At("metadata")
       \/ loop = At("listen") /\ loop' = At("serving")
    /\ UNCHANGED <<errors, metadata, scripts, reporter, network, sessions, closing>>

\* Mutant of FirstRun: the script is started on every connection.
FirstRunAlways == TRUE

\* "The startup script should only execute on the first run!"
FirstRun == ~metadata

\* The answer with the metadata: Swap tells whether this is the first.
FetchMetadata ==
    /\ loop = At("metadata") /\ ~closed
    /\ metadata' = TRUE
    /\ scripts' = IF FirstRun THEN scripts + 1 ELSE scripts
    /\ loop' = At("override")
    /\ UNCHANGED <<errors, reporter, network, sessions, closing>>

\* OverrideVSCodeConfigs writes files, whatever has been closed meanwhile; then
\* the app health reporter starts under a context of this run.
StartReporter ==
    /\ loop = At("override")
    /\ reporter' = TRUE
    /\ loop' = At("network")
    /\ UNCHANGED <<errors, metadata, scripts, network, sessions, closing>>

\* The tailnet is created once; later runs only give it the new DERP map.
ChooseNetwork ==
    /\ loop = At("network") /\ MutexFree
    /\ loop' = At(IF network = "none" THEN "createTailnet" ELSE "listen")
    /\ UNCHANGED <<errors, metadata, scripts, reporter, network, sessions, closing>>

\* Mutant of MayCreate: closed is not looked at under the mutex.
MayCreateAnyway == TRUE

MayCreate == ~closed

\* Mutant of Counted: one goroutine too many is counted.
CountedOneMore == Len(Ports) + 1

\* What createTailnet adds to connCloseWait.
Counted == Len(Ports)

\* createTailnet under closeMutex: the four goroutines are counted before they run.
createTailnet ==
    /\ loop = At("createTailnet") /\ MutexFree
    /\ \/ /\ MayCreate
          /\ network' = "open" /\ wait' = wait + Counted
          /\ loop' = Opening(1)
          /\ UNCHANGED <<errors, reporter>>
       \/ /\ ~MayCreate
          /\ Return
          /\ UNCHANGED <<errors, network, wait>>
       \/ /\ MayCreate /\ errors < MaxErrors     \* NewConn fails
          /\ errors' = errors + 1
          /\ Return
          /\ UNCHANGED <<network, wait>>
    /\ UNCHANGED <<metadata, scripts, accept, speedtests, ptys, closing>>

\* Conn.Listen refuses when the network was closed; createTailnet then returns,
\* and the goroutines of this and the later ports never run.
Listen ==
    /\ loop.stage = "listening"
    /\ \/ /\ network = "open"
          /\ accept' = [accept EXCEPT ![Ports[loop.port]] = "accepting"]
          /\ loop' = IF loop.port < Len(Ports) THEN Opening(loop.port + 1) ELSE At("store")
          /\ UNCHANGED reporter
       \/ /\ network = "closed"
          /\ Return
          /\ UNCHANGED accept
    /\ UNCHANGED <<errors, metadata, scripts, network, wait, speedtests, ptys, closing>>

\* run stores the network, under the mutex again.
StoreNetwork ==
    /\ loop = At("store") /\ MutexFree
    /\ loop' = At("listen")
    /\ UNCHANGED <<errors, metadata, scripts, reporter, network, sessions, closing>>

\* runCoordinator returns: the context is done, or the connection broke.
CoordinatorEnds ==
    /\ loop = At("serving")
    /\ \/ closed /\ UNCHANGED errors
       \/ errors < MaxErrors /\ errors' = errors + 1
    /\ Return
    /\ UNCHANGED <<metadata, scripts, network, sessions, closing>>

-----------------------------------------------------------------------------
(* the goroutines createTailnet and init start *)

running == <<loop, errors, metadata, scripts, reporter, network>>

\* Accept returns an error once the network is closed, and the goroutine is Done.
AcceptEnds(p) ==
    /\ accept[p] = "accepting" /\ network = "closed"
    /\ accept' = [accept EXCEPT ![p] = "ended"]
    /\ wait' = wait - 1
    /\ UNCHANGED <<running, speedtests, ptys, closing>>

\* The speed test listener hands over a connection.
AcceptSpeedtest ==
    /\ accept["speedtest"] = "accepting" /\ network = "open"
    /\ speedtests < MaxSessions
    /\ accept' = [accept EXCEPT !["speedtest"] = "accepted"]
    /\ UNCHANGED <<running, wait, speedtests, ptys, closing>>

\* It is counted under closeMutex and served by a goroutine.
StartSpeedtest ==
    /\ accept["speedtest"] = "accepted" /\ MutexFree
    /\ accept' = [accept EXCEPT !["speedtest"] = "accepting"]
    /\ wait' = wait + 1 /\ speedtests' = speedtests + 1
    /\ UNCHANGED <<running, ptys, closing>>

SpeedtestEnds ==
    /\ speedtests > 0
    /\ wait' = wait - 1 /\ speedtests' = speedtests - 1
    /\ UNCHANGED <<running, accept, ptys, closing>>

\* A connection to the PTY port: handleReconnectingPTY starts a process.
StartPTY ==
    /\ accept["pty"] = "accepting" /\ network = "open"
    /\ ptys.starting + ptys.counted + ptys.ended < MaxSessions
    /\ ptys' = [ptys EXCEPT !.starting = @ + 1]
    /\ UNCHANGED <<running, accept, wait, speedtests, closing>>

\* It counts itself under the mutex, maybe after Close has returned.
CountPTY ==
    /\ ptys.starting > 0 /\ MutexFree
    /\ ptys' = [ptys EXCEPT !.starting = @ - 1, !.counted = @ + 1]
    /\ wait' = wait + 1
    /\ UNCHANGED <<running, accept, speedtests, closing>>

\* The process exits, or is killed because the context is done.
EndPTY ==
    /\ ptys.counted > 0
    /\ ptys' = [ptys EXCEPT !.counted = @ - 1, !.ended = @ + 1]
    /\ wait' = wait - 1
    /\ UNCHANGED <<running, accept, speedtests, closing>>

\* The end of init: with a stats reporter, a goroutine waits to close it.
FinishInit ==
    /\ statsCloser = "starting"
    /\ \/ statsCloser' = "waiting" /\ wait' = wait + 1
       \/ statsCloser' = "ended" /\ UNCHANGED wait
    /\ UNCHANGED <<running, accept, speedtests, ptys, closer, closed>>

CloseStats ==
    /\ statsCloser = "waiting" /\ closed
    /\ statsCloser' = "ended" /\ wait' = wait - 1
    /\ UNCHANGED <<running, accept, speedtests, ptys, closer, closed>>

-----------------------------------------------------------------------------
(* Close, which New's caller can only call when init is over *)

Close ==
    /\ closer = "idle" /\ statsCloser # "starting"
    /\ closed' = TRUE /\ closer' = "canceled"
    /\ UNCHANGED <<running, sessions, statsCloser>>

\* network.Close closes every listener that is registered, and the SSH server.
CloseNetwork ==
    /\ closer = "canceled"
    /\ network' = IF network = "none" THEN "none" ELSE "closed"
    /\ closer' = "waiting"
    /\ UNCHANGED <<loop, errors, metadata, scripts, reporter, sessions, statsCloser, closed>>

\* Mutant of Drained: Close does not wait for its goroutines.
DrainedNot == TRUE

Drained == wait = 0

CloseReturn ==
    /\ closer = "waiting" /\ Drained
    /\ closer' = "returned"
    /\ UNCHANGED <<running, sessions, statsCloser, closed>>

Run ==
    \/ Retry \/ CallFails \/ CallSucceeds \/ FetchMetadata \/ StartReporter
    \/ ChooseNetwork \/ createTailnet \/ Listen \/ StoreNetwork

Next ==
    \/ Run \/ CoordinatorEnds
    \/ \E p \in PortSet : AcceptEnds(p)
    \/ AcceptSpeedtest \/ StartSpeedtest \/ SpeedtestEnds
    \/ StartPTY \/ CountPTY \/ EndPTY
    \/ FinishInit \/ CloseStats
    \/ Close \/ CloseNetwork \/ CloseReturn

Spec == Init /\ [][Next]_vars

\* Goroutines that can run do; sessions end when their connection or their
\* context does; nothing makes anybody connect, or close the agent.
Fairness ==
    /\ WF_vars(Run)
    /\ WF_vars(closed /\ CoordinatorEnds)
    /\ \A p \in PortSet : WF_vars(AcceptEnds(p))
    /\ WF_vars(StartSpeedtest) /\ WF_vars(closed /\ SpeedtestEnds)
    /\ WF_vars(CountPTY) /\ WF_vars(closed /\ EndPTY)
    /\ WF_vars(FinishInit) /\ WF_vars(CloseStats)
    /\ WF_vars(CloseNetwork) /\ WF_vars(CloseReturn)

FairSpec == Spec /\ Fairness

-----------------------------------------------------------------------------
(* What the agent promises *)

\* However often the agent reconnects, the startup script is started once
\* (run, the Swap of a.metadata).
ScriptOnce == scripts <= 1

\* When Close has returned, the tailnet is closed and nothing that Close waits
\* for still runs: no accepting goroutine, no speed test, no stats reporter.  A
\* connection loop that was about to create the tailnet finds closed set.
NothingLeftAfterClose ==
    closer = "returned" =>
        /\ network # "open" /\ speedtests = 0 /\ statsCloser = "ended"
        /\ \A p \in PortSet : accept[p] \in {"none", "ended"}

\* One of the two ways in which Close waits for ever: it closed the network
\* before createTailnet had opened all the ports that were counted, or the
\* speed test goroutine wants closeMutex while Close, which has it, waits for
\* that goroutine.
Stuck ==
    \/ \E p \in PortSet : network = "closed" /\ accept[p] = "none"
    \/ accept["speedtest"] = "accepted"

\* Close returns in every other case, whatever the loop and the sessions do.
CloseReturns == (closer = "canceled") ~> (closer = "returned" \/ Stuck)

\* Once calls stop failing, the agent gets to serve a coordinator again, with
\* all its ports open, unless it is closed.
ComesBack ==
    (loop.stage # "serving") ~>
        (closed \/ (loop.stage = "serving" /\ \A p \in PortSet : accept[p] \in {"accepting", "accepted"}))
=============================================================================
