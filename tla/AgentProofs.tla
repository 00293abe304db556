---------------------------- MODULE AgentProofs ----------------------------
(***************************************************************************)
(* Proofs about the workspace agent and the licenses, as MCAgent composes  *)
(* them: the agent's reconnect loop against Close (Agent), its reports of  *)
(* app health (AppHealth) and the entitlements of a replica                *)
(* (Entitlements), for any number of failures, sessions, apps, licenses    *)
(* and requests.                                                           *)
(***************************************************************************)
EXTENDS MCAgent, TLAPS

(* The agent.                                                              *)

\* What the proofs need to know of the constants.
AgentBounds == MaxErrors \in Nat /\ MaxSessions \in Nat

\* The types, but for the counter of the wait group.
AgentTyped ==
    /\ loop_agent \in {A!At(s) : s \in A!Stages} \union {A!Opening(i) : i \in 1 .. 4}
    /\ errors \in 0 .. MaxErrors
    /\ metadata \in BOOLEAN /\ reporter \in BOOLEAN /\ closed \in BOOLEAN
    /\ network \in {"none", "open", "closed"}
    /\ accept \in [A!PortSet -> {"none", "accepting", "accepted", "ended"}]
    /\ speedtests \in 0 .. MaxSessions
    /\ ptys \in [starting : Nat, counted : Nat, ended : Nat]
    /\ ptys.starting + ptys.counted + ptys.ended <= MaxSessions
    /\ statsCloser \in {"starting", "waiting", "ended"}
    /\ closer \in {"idle", "canceled", "waiting", "returned"}

\* The script has run exactly when there is metadata.
ScriptRan == scripts = IF metadata THEN 1 ELSE 0

\* The goroutine of a port is counted from the creation of the network until it ends, whether or not
\* it was ever started.
Owed(p) == IF network # "none" /\ accept[p] # "ended" THEN 1 ELSE 0
Waited == wait = Owed("ssh") + Owed("pty") + Owed("speedtest") + Owed("statistics")
                 + speedtests + ptys.counted + (IF statsCloser = "waiting" THEN 1 ELSE 0)

\* There is a network once createTailnet has made it, and it opens the ports one after the other.
Opened ==
    /\ network = "none" => \A p \in A!PortSet : accept[p] = "none"
    /\ loop_agent.stage = "createTailnet" => network = "none"
    /\ loop_agent.stage \in {"listening", "store"} => network # "none"
    /\ \A i \in 1 .. 4 : loop_agent.stage = "listening" /\ i >= loop_agent.port => accept[A!Ports[i]] = "none"

\* A speed test that was accepted has a place.
Placed == accept["speedtest"] = "accepted" => speedtests < MaxSessions

\* What Close has done.
Closing ==
    /\ closed <=> closer # "idle"
    /\ closer # "idle" => statsCloser # "starting"
    /\ closer \in {"waiting", "returned"} => network # "open"
    /\ A!NothingLeftAfterClose

AgentInv == AgentTyped /\ ScriptRan /\ Waited /\ Opened /\ Placed /\ Closing

LEMMA PortsAre ==
  /\ A!PortSet = {"ssh", "pty", "speedtest", "statistics"}
  /\ A!Ports[1] = "ssh" /\ A!Ports[2] = "pty" /\ A!Ports[3] = "speedtest" /\ A!Ports[4] = "statistics"
  /\ Len(A!Ports) = 4
<1>1. DOMAIN A!Ports = 1 .. 4
  BY DEF A!Ports
<1>2. A!Ports[1] = "ssh" /\ A!Ports[2] = "pty" /\ A!Ports[3] = "speedtest" /\ A!Ports[4] = "statistics"
  BY DEF A!Ports
<1>3. Len(A!Ports) = 4
  BY DEF A!Ports
<1>4. A!PortSet = {A!Ports[1], A!Ports[2], A!Ports[3], A!Ports[4]}
  BY <1>1 DEF A!PortSet
<1> QED BY <1>2, <1>3, <1>4

LEMMA InitAgent == ASSUME AgentBounds, A!Init PROVE AgentInv
<1>1. AgentTyped
  <2>1. loop_agent \in {A!At(s) : s \in A!Stages}
    BY DEF A!Init, A!Stages
  <2>2. errors \in 0 .. MaxErrors /\ speedtests \in 0 .. MaxSessions
    BY DEF AgentBounds, A!Init
  <2>3. /\ ptys \in [starting : Nat, counted : Nat, ended : Nat]
        /\ ptys.starting + ptys.counted + ptys.ended <= MaxSessions
    BY DEF AgentBounds, A!Init
  <2>4. accept \in [A!PortSet -> {"none", "accepting", "accepted", "ended"}]
    BY DEF A!Init
  <2> QED BY <2>1, <2>2, <2>3, <2>4 DEF A!Init, AgentTyped
<1>2. ScriptRan /\ Placed
  BY PortsAre DEF A!Init, ScriptRan, Placed
<1>3. Waited
  BY PortsAre DEF A!Init, Waited, Owed
<1>4. Opened
  BY PortsAre DEF A!Init, Opened, A!At
<1>5. Closing
  BY DEF A!Init, Closing, A!NothingLeftAfterClose
<1> QED BY <1>1, <1>2, <1>3, <1>4, <1>5 DEF AgentInv

\* Where runLoop and run may go, and what that changes of the invariant.
LEMMA Stays ==
  ASSUME AgentTyped, Opened, loop_agent' \in {A!At(s) : s \in A!Stages}, UNCHANGED <<network, accept>>,
         loop_agent'.stage = "createTailnet" => network = "none",
         loop_agent'.stage = "store" => network # "none"
  PROVE  Opened'
<1>1. loop_agent'.stage # "listening"
  BY DEF A!At, A!Stages
<1> QED BY <1>1 DEF Opened

\* What the loop does leaves the count of the wait group alone, but for the creation of the network.
LEMMA LoopStays ==
  ASSUME AgentInv, UNCHANGED <<metadata, scripts, network, accept, wait, speedtests, ptys, statsCloser, closer, closed>>,
         loop_agent' \in {A!At(s) : s \in A!Stages},
         errors' \in 0 .. MaxErrors, reporter' \in BOOLEAN,
         loop_agent'.stage = "createTailnet" => network = "none",
         loop_agent'.stage = "store" => network # "none"
  PROVE  AgentInv'
<1>1. AgentTyped'
  BY DEF AgentInv, AgentTyped
<1>2. ScriptRan' /\ Waited' /\ Placed' /\ Closing'
  BY DEF AgentInv, ScriptRan, Waited, Owed, Placed, Closing, A!NothingLeftAfterClose
<1>3. Opened'
  BY Stays DEF AgentInv
<1> QED BY <1>1, <1>2, <1>3 DEF AgentInv

LEMMA AtIs ==
  /\ \A s : A!At(s).stage = s
  /\ \A i : A!Opening(i).stage = "listening" /\ A!Opening(i).port = i
BY DEF A!At, A!Opening

LEMMA ReturnIs ==
  ASSUME A!Return
  PROVE  /\ loop_agent' \in {A!At(s) : s \in A!Stages} /\ reporter' = FALSE
         /\ loop_agent'.stage \in {"ended", "retry"}
BY DEF A!Return, A!At, A!Stages

LEMMA CallsKeep ==
  ASSUME AgentBounds, AgentInv, A!Retry \/ A!CallFails \/ A!CallSucceeds \/ A!StartReporter \/ A!ChooseNetwork \/ A!StoreNetwork \/ A!CoordinatorEnds
  PROVE  AgentInv'
<1> USE DEF A!sessions, A!closing
<1>t. errors \in Nat /\ errors <= MaxErrors /\ MaxErrors \in Nat /\ reporter \in BOOLEAN
  BY DEF AgentInv, AgentTyped, AgentBounds
<1>1. CASE A!Retry
  <2>1. loop_agent' \in {A!At(s) : s \in A!Stages} /\ loop_agent'.stage \in {"ended", "exchangeToken"}
    BY <1>1 DEF A!Retry, A!At, A!Stages
  <2> QED BY <1>1, <1>t, <2>1, LoopStays DEF A!Retry
<1>2. CASE A!CallFails
  <2>1. errors' \in 0 .. MaxErrors
    BY <1>2, <1>t DEF A!CallFails
  <2> QED BY <1>2, <2>1, ReturnIs, LoopStays DEF A!CallFails
<1>3. CASE A!CallSucceeds
  <2>1. loop_agent' \in {A!At(s) : s \in A!Stages} /\ loop_agent'.stage \in {"version", "metadata", "serving"}
    BY <1>3 DEF A!CallSucceeds, A!At, A!Stages
  <2> QED BY <1>3, <1>t, <2>1, LoopStays DEF A!CallSucceeds
<1>4. CASE A!StartReporter
  <2>1. loop_agent' \in {A!At(s) : s \in A!Stages} /\ loop_agent'.stage = "network"
    BY <1>4 DEF A!StartReporter, A!At, A!Stages
  <2> QED BY <1>4, <1>t, <2>1, LoopStays DEF A!StartReporter
<1>5. CASE A!ChooseNetwork
  <2>1. loop_agent' \in {A!At(s) : s \in A!Stages}
    BY <1>5 DEF A!ChooseNetwork, A!Stages
  <2>2. loop_agent'.stage = IF network = "none" THEN "createTailnet" ELSE "listen"
    BY <1>5 DEF A!ChooseNetwork, A!At
  <2> QED BY <1>5, <1>t, <2>1, <2>2, LoopStays DEF A!ChooseNetwork
<1>6. CASE A!StoreNetwork
  <2>1. loop_agent' \in {A!At(s) : s \in A!Stages} /\ loop_agent'.stage = "listen"
    BY <1>6 DEF A!StoreNetwork, A!At, A!Stages
  <2> QED BY <1>6, <1>t, <2>1, LoopStays DEF A!StoreNetwork
<1>7. CASE A!CoordinatorEnds
  <2>1. errors' \in 0 .. MaxErrors
    BY <1>7, <1>t DEF A!CoordinatorEnds
  <2> QED BY <1>7, <2>1, ReturnIs, LoopStays DEF A!CoordinatorEnds
<1> QED BY <1>1, <1>2, <1>3, <1>4, <1>5, <1>6, <1>7

\* The answer with the metadata starts the script, if it is the first.
LEMMA MetadataKeeps == ASSUME AgentBounds, AgentInv, A!FetchMetadata PROVE AgentInv'
<1> USE DEF A!sessions, A!closing
<1>1. loop_agent' \in {A!At(s) : s \in A!Stages} /\ loop_agent'.stage = "override"
  BY DEF A!FetchMetadata, A!At, A!Stages
<1>2. AgentTyped'
  BY <1>1 DEF AgentInv, AgentTyped, A!FetchMetadata
<1>3. ScriptRan'
  BY DEF AgentInv, AgentTyped, ScriptRan, A!FetchMetadata, A!FirstRun
<1>4. Waited' /\ Placed' /\ Closing'
  BY DEF AgentInv, Waited, Owed, Placed, Closing, A!NothingLeftAfterClose, A!FetchMetadata
<1>5. Opened'
  BY <1>1, Stays DEF AgentInv, A!FetchMetadata
<1> QED BY <1>2, <1>3, <1>4, <1>5 DEF AgentInv

\* The network is created while nobody has closed the agent, with all its goroutines counted.
LEMMA CreateKeeps == ASSUME AgentBounds, AgentInv, A!createTailnet PROVE AgentInv'
<1> USE DEF A!closing
<1>t. /\ errors \in Nat /\ errors <= MaxErrors /\ MaxErrors \in Nat
      /\ network = "none" /\ \A p \in A!PortSet : accept[p] = "none"
  BY AtIs DEF AgentInv, AgentTyped, AgentBounds, Opened, A!createTailnet
<1>1. CASE A!Return /\ UNCHANGED <<network, wait>>
  <2>1. errors' \in 0 .. MaxErrors
    BY <1>1, <1>t DEF A!createTailnet
  <2> QED BY <1>1, <2>1, ReturnIs, LoopStays DEF A!createTailnet
<1>2. CASE /\ A!MayCreate /\ network' = "open" /\ wait' = wait + A!Counted
           /\ loop_agent' = A!Opening(1) /\ UNCHANGED <<errors, reporter>>
  <2>1. AgentTyped'
    BY <1>2 DEF AgentInv, AgentTyped, A!createTailnet
  <2>2. ScriptRan' /\ Placed'
    BY <1>2 DEF AgentInv, ScriptRan, Placed, A!createTailnet
  <2>3. wait' = wait + 4
    BY <1>2, PortsAre DEF A!Counted
  <2>4. Waited'
    <3>1. UNCHANGED <<accept, speedtests, ptys, statsCloser>>
      BY DEF A!createTailnet
    <3>2. \A p \in A!PortSet : Owed(p) = 0 /\ Owed(p)' = 1
      BY <1>2, <1>t, <3>1 DEF Owed
    <3>3. Owed("ssh") = 0 /\ Owed("pty") = 0 /\ Owed("speedtest") = 0 /\ Owed("statistics") = 0
      BY <3>2, PortsAre
    <3>4. Owed("ssh")' = 1 /\ Owed("pty")' = 1 /\ Owed("speedtest")' = 1 /\ Owed("statistics")' = 1
      BY <3>2, PortsAre
    <3>5. speedtests \in Nat /\ ptys.counted \in Nat
      BY DEF AgentInv, AgentTyped
    <3> QED BY <2>3, <3>1, <3>3, <3>4, <3>5 DEF AgentInv, Waited
  <2>5. Opened'
    BY <1>2, <1>t, AtIs, PortsAre DEF Opened, A!createTailnet
  <2>6. Closing'
    BY <1>2 DEF AgentInv, AgentTyped, Closing, A!NothingLeftAfterClose, A!createTailnet, A!MayCreate
  <2> QED BY <2>1, <2>2, <2>4, <2>5, <2>6 DEF AgentInv
<1> QED BY <1>1, <1>2 DEF A!createTailnet

\* A port is opened while the network is open, or not at all.
LEMMA ListenKeeps == ASSUME AgentBounds, AgentInv, A!Listen PROVE AgentInv'
<1> USE DEF A!closing
<1>1. CASE network = "closed" /\ A!Return /\ UNCHANGED accept
  <2>1. errors' \in 0 .. MaxErrors
    BY DEF AgentInv, AgentTyped, A!Listen
  <2> QED BY <1>1, <2>1, ReturnIs, LoopStays DEF A!Listen
<1>2. CASE /\ network = "open" /\ accept' = [accept EXCEPT ![A!Ports[loop_agent.port]] = "accepting"]
           /\ loop_agent' = IF loop_agent.port < Len(A!Ports) THEN A!Opening(loop_agent.port + 1) ELSE A!At("store")
           /\ UNCHANGED reporter
  <2>1. PICK i \in 1 .. 4 : loop_agent = A!Opening(i)
    BY AtIs DEF AgentInv, AgentTyped, A!Listen, A!Stages
  <2>2. loop_agent.port = i /\ loop_agent.stage = "listening"
    BY <2>1, AtIs
  <2> DEFINE q == A!Ports[i]
  <2>3. q \in A!PortSet /\ accept[q] = "none" /\ accept' = [accept EXCEPT ![q] = "accepting"]
    BY <1>2, <2>2, PortsAre DEF AgentInv, Opened
  <2>4. loop_agent' \in {A!At("store")} \union {A!Opening(j) : j \in 1 .. 4}
    BY <1>2, <2>2, PortsAre
  <2>5. AgentTyped'
    BY <1>2, <2>3, <2>4 DEF AgentInv, AgentTyped, A!Listen, A!Stages
  <2>6. ScriptRan' /\ Placed'
    BY <2>3 DEF AgentInv, AgentTyped, ScriptRan, Placed, A!Listen
  <2>7. Waited'
    <3>1. UNCHANGED <<network, wait, speedtests, ptys, statsCloser>>
      BY DEF A!Listen
    <3>2. \A p \in A!PortSet : Owed(p)' = Owed(p)
      BY <2>3, <3>1 DEF Owed, AgentInv, AgentTyped
    <3>3. /\ Owed("ssh")' = Owed("ssh") /\ Owed("pty")' = Owed("pty")
          /\ Owed("speedtest")' = Owed("speedtest") /\ Owed("statistics")' = Owed("statistics")
      BY <3>2, PortsAre
    <3> QED BY <3>1, <3>3 DEF AgentInv, Waited
  <2>8. Opened'
    <3>1. network' = "open"
      BY <1>2 DEF A!Listen
    <3>2. loop_agent'.stage \in {"listening", "store"}
      BY <2>4, AtIs
    <3>3. ASSUME NEW j \in 1 .. 4, loop_agent'.stage = "listening", j >= loop_agent'.port PROVE accept'[A!Ports[j]] = "none"
      <4>1. loop_agent' = A!Opening(i + 1)
        BY <1>2, <2>2, <3>3, AtIs
      <4>2. j > i
        BY <4>1, <3>3, AtIs
      <4>3. accept[A!Ports[j]] = "none"
        BY <2>2, <4>2 DEF AgentInv, Opened
      <4>4. A!Ports[j] # q
        BY <4>2, PortsAre
      <4>5. A!Ports[j] \in A!PortSet
        BY PortsAre
      <4> QED BY <2>3, <4>3, <4>4, <4>5 DEF AgentInv, AgentTyped
    <3> QED BY <3>1, <3>2, <3>3 DEF Opened
  <2>9. Closing'
    BY <1>2 DEF AgentInv, Closing, A!NothingLeftAfterClose, A!Listen
  <2> QED BY <2>5, <2>6, <2>7, <2>8, <2>9 DEF AgentInv
<1> QED BY <1>1, <1>2 DEF A!Listen

\* A step of a goroutine that the loop takes no part in.
Aside == UNCHANGED <<loop_agent, errors, metadata, scripts, reporter, network>>

LEMMA AcceptEndsKeeps == ASSUME AgentBounds, AgentInv, NEW p \in A!PortSet, A!AcceptEnds(p) PROVE AgentInv'
<1> USE DEF A!closing, A!running
<1>0. /\ UNCHANGED <<loop_agent, errors, metadata, scripts, reporter, network, speedtests, ptys, statsCloser, closer, closed>>
      /\ accept[p] = "accepting" /\ network = "closed" /\ wait' = wait - 1
      /\ accept' = [accept EXCEPT ![p] = "ended"] /\ accept \in [A!PortSet -> {"none", "accepting", "accepted", "ended"}]
  BY DEF A!AcceptEnds, AgentInv, AgentTyped
<1>1. AgentTyped'
  BY <1>0 DEF AgentInv, AgentTyped
<1>2. ScriptRan' /\ Placed'
  BY <1>0 DEF AgentInv, ScriptRan, Placed
<1>3. Waited'
  <2>1. \A q \in A!PortSet : Owed(q)' = IF q = p THEN 0 ELSE Owed(q)
    BY <1>0 DEF Owed
  <2>2. Owed(p) = 1
    BY <1>0 DEF Owed
  <2>3. \A q \in A!PortSet : Owed(q) \in {0, 1}
    BY DEF Owed
  <2>4. Owed("ssh") + Owed("pty") + Owed("speedtest") + Owed("statistics")
        = (Owed("ssh") + Owed("pty") + Owed("speedtest") + Owed("statistics"))' + 1
    BY <2>1, <2>2, <2>3, PortsAre
  <2>5. /\ (Owed("ssh") + Owed("pty") + Owed("speedtest") + Owed("statistics"))' \in Nat
        /\ speedtests \in Nat /\ ptys.counted \in Nat
    BY <2>1, <2>3, PortsAre DEF AgentInv, AgentTyped
  <2> QED BY <1>0, <2>4, <2>5 DEF AgentInv, Waited
<1>4. Opened'
  <2>1. ASSUME NEW i \in 1 .. 4, loop_agent.stage = "listening", i >= loop_agent.port PROVE accept'[A!Ports[i]] = "none"
    BY <1>0, <2>1, PortsAre DEF AgentInv, Opened
  <2> QED BY <1>0, <2>1 DEF AgentInv, Opened
<1>5. Closing'
  BY <1>0 DEF AgentInv, Closing, A!NothingLeftAfterClose
<1> QED BY <1>1, <1>2, <1>3, <1>4, <1>5 DEF AgentInv

LEMMA WaitTyped == ASSUME AgentInv PROVE wait \in Nat
<1>1. Owed("ssh") \in Nat /\ Owed("pty") \in Nat /\ Owed("speedtest") \in Nat /\ Owed("statistics") \in Nat
  BY DEF Owed
<1>2. speedtests \in Nat /\ ptys.counted \in Nat
  BY DEF AgentInv, AgentTyped
<1> QED BY <1>1, <1>2 DEF AgentInv, Waited

\* The speed test listener.
LEMMA SpeedtestKeeps ==
  ASSUME AgentBounds, AgentInv, A!AcceptSpeedtest \/ A!StartSpeedtest
  PROVE  AgentInv'
<1> USE DEF A!closing, A!running
<1>0. /\ UNCHANGED <<loop_agent, errors, metadata, scripts, reporter, network, ptys, statsCloser, closer, closed>>
      /\ accept["speedtest"] \in {"accepting", "accepted"} /\ accept'["speedtest"] \in {"accepting", "accepted"}
      /\ accept' = [accept EXCEPT !["speedtest"] = accept'["speedtest"]]
      /\ accept \in [A!PortSet -> {"none", "accepting", "accepted", "ended"}]
      /\ speedtests \in Nat /\ speedtests <= MaxSessions /\ MaxSessions \in Nat
  BY PortsAre DEF A!AcceptSpeedtest, A!StartSpeedtest, AgentInv, AgentTyped, AgentBounds
<1>1. speedtests' \in 0 .. MaxSessions /\ Placed' /\ speedtests' - speedtests = wait' - wait
  <2>1. wait \in Nat
    BY WaitTyped
  <2>2. CASE A!AcceptSpeedtest
    BY <2>1, <2>2, <1>0, PortsAre DEF A!AcceptSpeedtest, Placed
  <2>3. CASE A!StartSpeedtest
    BY <2>1, <2>3, <1>0, PortsAre DEF A!StartSpeedtest, Placed, AgentInv
  <2> QED BY <2>2, <2>3
<1>2. AgentTyped'
  BY <1>0, <1>1, PortsAre DEF AgentInv, AgentTyped
<1>3. ScriptRan'
  BY <1>0 DEF AgentInv, ScriptRan
<1>4. Waited'
  <2>1. \A p \in A!PortSet : Owed(p)' = Owed(p)
    BY <1>0 DEF Owed
  <2>2. /\ Owed("ssh")' = Owed("ssh") /\ Owed("pty")' = Owed("pty")
        /\ Owed("speedtest")' = Owed("speedtest") /\ Owed("statistics")' = Owed("statistics")
    BY <2>1, PortsAre
  <2>3. Owed("ssh") \in Nat /\ Owed("pty") \in Nat /\ Owed("speedtest") \in Nat /\ Owed("statistics") \in Nat
    BY DEF Owed
  <2>4. ptys.counted \in Nat /\ speedtests' \in Nat
    BY <1>1 DEF AgentInv, AgentTyped
  <2>5. wait' = wait \/ wait' = wait + 1
    BY DEF A!AcceptSpeedtest, A!StartSpeedtest
  <2>6. PICK k \in Nat : k = Owed("ssh") + Owed("pty") + Owed("speedtest") + Owed("statistics")
    BY <2>3
  <2>7. wait = k + speedtests + ptys.counted + (IF statsCloser = "waiting" THEN 1 ELSE 0)
    BY <2>6 DEF AgentInv, Waited
  <2>8. wait' = k + speedtests' + ptys.counted + (IF statsCloser = "waiting" THEN 1 ELSE 0)
    BY <1>0, <1>1, <2>4, <2>5, <2>7
  <2> QED BY <1>0, <2>2, <2>6, <2>8 DEF Waited
<1>5. Opened'
  BY <1>0, PortsAre DEF AgentInv, Opened
<1>6. Closing'
  BY <1>0, PortsAre DEF AgentInv, Closing, A!NothingLeftAfterClose
<1> QED BY <1>1, <1>2, <1>3, <1>4, <1>5, <1>6 DEF AgentInv

\* A goroutine that is counted by itself: a speed test, a PTY, the closer of the stats.
LEMMA CountKeeps ==
  ASSUME AgentBounds, AgentInv, Aside, UNCHANGED <<accept, closer, closed>>,
         speedtests' \in 0 .. speedtests,
         ptys' \in [starting : Nat, counted : Nat, ended : Nat],
         ptys'.starting + ptys'.counted + ptys'.ended <= MaxSessions,
         statsCloser' \in {"starting", "waiting", "ended"},
         closer # "idle" => statsCloser' # "starting",
         statsCloser = "ended" => statsCloser' = "ended",
         wait' = wait + (speedtests' - speedtests) + (ptys'.counted - ptys.counted)
                      + (IF statsCloser' = "waiting" THEN 1 ELSE 0) - (IF statsCloser = "waiting" THEN 1 ELSE 0)
  PROVE  AgentInv'
<1>0. speedtests \in Nat /\ speedtests <= MaxSessions /\ speedtests' \in Nat /\ ptys.counted \in Nat /\ ptys'.counted \in Nat
      /\ MaxSessions \in Nat /\ speedtests' <= speedtests
  BY DEF AgentInv, AgentTyped, AgentBounds
<1>1. AgentTyped'
  BY <1>0 DEF AgentInv, AgentTyped, Aside
<1>2. ScriptRan' /\ Opened' /\ Placed'
  BY <1>0 DEF AgentInv, ScriptRan, Opened, Placed, Aside
<1>3. Waited'
  <2>2. /\ Owed("ssh")' = Owed("ssh") /\ Owed("pty")' = Owed("pty")
        /\ Owed("speedtest")' = Owed("speedtest") /\ Owed("statistics")' = Owed("statistics")
    BY DEF Owed, Aside
  <2>3. Owed("ssh") \in Nat /\ Owed("pty") \in Nat /\ Owed("speedtest") \in Nat /\ Owed("statistics") \in Nat
    BY DEF Owed
  <2>6. PICK k \in Nat : k = Owed("ssh") + Owed("pty") + Owed("speedtest") + Owed("statistics")
    BY <2>3
  <2>7. wait = k + speedtests + ptys.counted + (IF statsCloser = "waiting" THEN 1 ELSE 0)
    BY <2>6 DEF AgentInv, Waited
  <2>8. wait' = k + speedtests' + ptys'.counted + (IF statsCloser' = "waiting" THEN 1 ELSE 0)
    BY <1>0, <2>7
  <2> QED BY <2>2, <2>6, <2>8 DEF Waited
<1>4. Closing'
  <2>1. closer = "returned" => speedtests' = 0
    BY <1>0 DEF AgentInv, Closing, A!NothingLeftAfterClose
  <2> QED BY <2>1 DEF AgentInv, Closing, A!NothingLeftAfterClose, Aside
<1> QED BY <1>1, <1>2, <1>3, <1>4 DEF AgentInv

LEMMA SessionsKeep ==
  ASSUME AgentBounds, AgentInv, A!SpeedtestEnds \/ A!StartPTY \/ A!CountPTY \/ A!EndPTY \/ A!FinishInit \/ A!CloseStats
  PROVE  AgentInv'
<1> USE DEF A!closing, A!running
<1>0. /\ speedtests \in Nat /\ wait \in Nat /\ MaxSessions \in Nat
      /\ ptys \in [starting : Nat, counted : Nat, ended : Nat]
      /\ ptys.starting + ptys.counted + ptys.ended <= MaxSessions
      /\ statsCloser \in {"starting", "waiting", "ended"}
      /\ closer # "idle" => statsCloser # "starting"
  BY WaitTyped DEF AgentInv, AgentTyped, AgentBounds, Closing
<1>1. CASE A!SpeedtestEnds
  <2>1. /\ Aside /\ UNCHANGED <<accept, ptys, statsCloser, closer, closed>>
        /\ speedtests' \in 0 .. speedtests /\ speedtests' - speedtests = wait' - wait /\ wait' = wait - 1
    BY <1>0, <1>1 DEF A!SpeedtestEnds, Aside
  <2>2. wait' = wait + (speedtests' - speedtests) + (ptys'.counted - ptys.counted)
                      + (IF statsCloser' = "waiting" THEN 1 ELSE 0) - (IF statsCloser = "waiting" THEN 1 ELSE 0)
    <3>1. ptys.counted \in Nat /\ ptys'.counted = ptys.counted /\ statsCloser' = statsCloser
      BY <1>0, <2>1
    <3>2. speedtests' \in Nat /\ speedtests' = speedtests - 1 /\ wait' = wait - 1
      BY <1>0, <1>1 DEF A!SpeedtestEnds
    <3>3. CASE statsCloser = "waiting"
      BY <1>0, <3>1, <3>2, <3>3
    <3>4. CASE statsCloser # "waiting"
      BY <1>0, <3>1, <3>2, <3>4
    <3> QED BY <3>3, <3>4
  <2> QED BY <1>0, <2>1, <2>2, CountKeeps
<1>2. CASE A!StartPTY \/ A!CountPTY \/ A!EndPTY
  <2>1. Aside /\ UNCHANGED <<accept, speedtests, statsCloser, closer, closed>>
    BY <1>2 DEF A!StartPTY, A!CountPTY, A!EndPTY, Aside
  <2>2. /\ ptys' \in [starting : Nat, counted : Nat, ended : Nat]
        /\ ptys'.starting + ptys'.counted + ptys'.ended <= MaxSessions
        /\ wait' = wait + (ptys'.counted - ptys.counted)
    <3>1. CASE A!StartPTY
      BY <1>0, <3>1 DEF A!StartPTY
    <3>2. CASE A!CountPTY
      <4>1. ptys.starting > 0 /\ ptys' = [ptys EXCEPT !.starting = ptys.starting - 1, !.counted = ptys.counted + 1]
        BY <3>2 DEF A!CountPTY
      <4>2. wait' = wait + 1
        BY <3>2 DEF A!CountPTY
      <4>3. ptys.starting \in Nat /\ ptys.counted \in Nat /\ ptys.ended \in Nat
        BY <1>0
      <4>4. ptys'.starting = ptys.starting - 1 /\ ptys'.counted = ptys.counted + 1 /\ ptys'.ended = ptys.ended
        BY <1>0, <4>1
      <4>5. ptys' \in [starting : Nat, counted : Nat, ended : Nat]
        <5>1. ptys.starting - 1 \in Nat \/ ptys.starting = 0
          BY <4>3
        <5>2. ptys.counted - 1 \in Nat \/ ptys.counted = 0
          BY <4>3
        <5>3. ptys.counted + 1 \in Nat /\ ptys.ended + 1 \in Nat
          BY <4>3
        <5>4. PICK n \in Nat : n = ptys.starting - 1
          BY <4>1, <5>1, <5>2
        <5>5. PICK m \in Nat : m = ptys.counted + 1
          BY <5>3
        <5>6. ptys' = [ptys EXCEPT !.starting = n, !.counted = m]
          BY <4>1, <5>4, <5>5
        <5> QED BY <1>0, <5>6
      <4> QED BY <1>0, <4>1, <4>2, <4>3, <4>4, <4>5
    <3>3. CASE A!EndPTY
      <4>1. ptys.counted > 0 /\ ptys' = [ptys EXCEPT !.counted = ptys.counted - 1, !.ended = ptys.ended + 1]
        BY <3>3 DEF A!EndPTY
      <4>2. wait' = wait - 1
        BY <3>3 DEF A!EndPTY
      <4>3. ptys.starting \in Nat /\ ptys.counted \in Nat /\ ptys.ended \in Nat
        BY <1>0
      <4>4. ptys'.counted = ptys.counted - 1 /\ ptys'.ended = ptys.ended + 1 /\ ptys'.starting = ptys.starting
        BY <1>0, <4>1
      <4>5. ptys' \in [starting : Nat, counted : Nat, ended : Nat]
        <5>1. ptys.starting - 1 \in Nat \/ ptys.starting = 0
          BY <4>3
        <5>2. ptys.counted - 1 \in Nat \/ ptys.counted = 0
          BY <4>3
        <5>3. ptys.counted + 1 \in Nat /\ ptys.ended + 1 \in Nat
          BY <4>3
        <5>4. PICK n \in Nat : n = ptys.counted - 1
          BY <4>1, <5>1, <5>2
        <5>5. PICK m \in Nat : m = ptys.ended + 1
          BY <5>3
        <5>6. ptys' = [ptys EXCEPT !.counted = n, !.ended = m]
          BY <4>1, <5>4, <5>5
        <5> QED BY <1>0, <5>6
      <4> QED BY <1>0, <4>1, <4>2, <4>3, <4>4, <4>5
    <3> QED BY <1>2, <3>1, <3>2, <3>3
  <2>3. wait' = wait + (speedtests' - speedtests) + (ptys'.counted - ptys.counted)
                      + (IF statsCloser' = "waiting" THEN 1 ELSE 0) - (IF statsCloser = "waiting" THEN 1 ELSE 0)
    BY <1>0, <2>1, <2>2
  <2>4. speedtests' \in 0 .. speedtests
    BY <1>0, <2>1
  <2> QED BY <1>0, <2>1, <2>2, <2>3, <2>4, CountKeeps
<1>3. CASE A!FinishInit \/ A!CloseStats
  <2>1. /\ Aside /\ UNCHANGED <<accept, speedtests, ptys, closer, closed>>
        /\ statsCloser' \in {"waiting", "ended"} /\ statsCloser # "ended"
    BY <1>3 DEF A!FinishInit, A!CloseStats, Aside
  <2>2. wait' = wait + (IF statsCloser' = "waiting" THEN 1 ELSE 0) - (IF statsCloser = "waiting" THEN 1 ELSE 0)
    BY <1>0, <1>3 DEF A!FinishInit, A!CloseStats
  <2>3. wait' = wait + (speedtests' - speedtests) + (ptys'.counted - ptys.counted)
                      + (IF statsCloser' = "waiting" THEN 1 ELSE 0) - (IF statsCloser = "waiting" THEN 1 ELSE 0)
    BY <1>0, <2>1, <2>2
  <2>4. speedtests' \in 0 .. speedtests
    BY <1>0, <2>1
  <2> QED BY <1>0, <2>1, <2>3, <2>4, CountKeeps
<1> QED BY <1>1, <1>2, <1>3

\* Close cancels, closes the network, and returns when nothing is counted.
LEMMA CloserKeeps ==
  ASSUME AgentBounds, AgentInv, A!Close \/ A!CloseNetwork \/ A!CloseReturn
  PROVE  AgentInv'
<1> USE DEF A!sessions, A!running
<1>1. CASE A!Close
  <2>1. AgentTyped' /\ ScriptRan' /\ Waited' /\ Opened' /\ Placed'
    BY <1>1 DEF A!Close, AgentInv, AgentTyped, ScriptRan, Waited, Owed, Opened, Placed
  <2>2. Closing'
    BY <1>1 DEF A!Close, AgentInv, Closing, A!NothingLeftAfterClose
  <2> QED BY <2>1, <2>2 DEF AgentInv
<1>2. CASE A!CloseNetwork
  <2>1. /\ UNCHANGED <<loop_agent, errors, metadata, scripts, reporter, accept, wait, speedtests, ptys, statsCloser, closed>>
        /\ network' = (IF network = "none" THEN "none" ELSE "closed") /\ closer = "canceled" /\ closer' = "waiting"
    BY <1>2 DEF A!CloseNetwork
  <2>2. AgentTyped' /\ ScriptRan' /\ Opened' /\ Placed'
    BY <2>1 DEF AgentInv, AgentTyped, ScriptRan, Opened, Placed
  <2>3. /\ Owed("ssh")' = Owed("ssh") /\ Owed("pty")' = Owed("pty")
        /\ Owed("speedtest")' = Owed("speedtest") /\ Owed("statistics")' = Owed("statistics")
    BY <2>1 DEF Owed
  <2>4. Waited'
    BY <2>1, <2>3 DEF AgentInv, Waited
  <2>5. Closing'
    BY <2>1 DEF AgentInv, Closing, A!NothingLeftAfterClose
  <2> QED BY <2>2, <2>4, <2>5 DEF AgentInv
<1>3. CASE A!CloseReturn
  <2>1. AgentTyped' /\ ScriptRan' /\ Waited' /\ Opened' /\ Placed'
    BY <1>3 DEF A!CloseReturn, AgentInv, AgentTyped, ScriptRan, Waited, Owed, Opened, Placed
  <2>2. wait = 0 /\ closer = "waiting"
    BY <1>3 DEF A!CloseReturn, A!Drained
  <2>3. Owed("ssh") \in Nat /\ Owed("pty") \in Nat /\ Owed("speedtest") \in Nat /\ Owed("statistics") \in Nat
    BY DEF Owed
  <2>4. speedtests \in Nat /\ ptys.counted \in Nat
    BY DEF AgentInv, AgentTyped
  <2>5. /\ Owed("ssh") = 0 /\ Owed("pty") = 0 /\ Owed("speedtest") = 0 /\ Owed("statistics") = 0
        /\ speedtests = 0 /\ statsCloser # "waiting"
    <3>1. PICK k \in Nat : k = IF statsCloser = "waiting" THEN 1 ELSE 0
      OBVIOUS
    <3>2. PICK a \in Nat, b \in Nat, c \in Nat, d \in Nat :
              a = Owed("ssh") /\ b = Owed("pty") /\ c = Owed("speedtest") /\ d = Owed("statistics")
      BY <2>3
    <3>3. PICK e \in Nat, f \in Nat : e = speedtests /\ f = ptys.counted
      BY <2>4
    <3>4. 0 = a + b + c + d + e + f + k
      BY <2>2, <3>1, <3>2, <3>3 DEF AgentInv, Waited
    <3>5. a = 0 /\ b = 0 /\ c = 0 /\ d = 0 /\ e = 0 /\ k = 0
      BY <3>4
    <3> QED BY <3>1, <3>2, <3>3, <3>5
  <2>6. \A p \in A!PortSet : network = "none" \/ accept[p] = "ended"
    BY <2>5, PortsAre DEF Owed
  <2>7. \A p \in A!PortSet : accept[p] \in {"none", "ended"}
    BY <2>6 DEF AgentInv, Opened
  <2>8. statsCloser = "ended" /\ network # "open"
    BY <2>2, <2>5 DEF AgentInv, AgentTyped, Closing
  <2>9. Closing'
    BY <1>3, <2>2, <2>5, <2>7, <2>8 DEF A!CloseReturn, AgentInv, Closing, A!NothingLeftAfterClose
  <2> QED BY <2>1, <2>9 DEF AgentInv
<1> QED BY <1>1, <1>2, <1>3

LEMMA NextAgent == ASSUME AgentBounds, AgentInv, [A!Next]_(A!vars) PROVE AgentInv'
<1>1. CASE A!Run \/ A!CoordinatorEnds
  BY <1>1, CallsKeep, MetadataKeeps, CreateKeeps, ListenKeeps DEF A!Run
<1>2. CASE \E p \in A!PortSet : A!AcceptEnds(p)
  BY <1>2, AcceptEndsKeeps
<1>3. CASE A!AcceptSpeedtest \/ A!StartSpeedtest
  BY <1>3, SpeedtestKeeps
<1>4. CASE A!SpeedtestEnds \/ A!StartPTY \/ A!CountPTY \/ A!EndPTY \/ A!FinishInit \/ A!CloseStats
  BY <1>4, SessionsKeep
<1>5. CASE A!Close \/ A!CloseNetwork \/ A!CloseReturn
  BY <1>5, CloserKeeps
<1>6. CASE UNCHANGED A!vars
  <2>1. AgentTyped' /\ ScriptRan' /\ Waited'
    BY <1>6 DEF A!vars, AgentInv, AgentTyped, ScriptRan, Waited, Owed
  <2>2. Opened' /\ Placed' /\ Closing'
    BY <1>6 DEF A!vars, AgentInv, Opened, Placed, Closing, A!NothingLeftAfterClose
  <2> QED BY <2>1, <2>2 DEF AgentInv
<1> QED BY <1>1, <1>2, <1>3, <1>4, <1>5, <1>6 DEF A!Next

LEMMA AgentSafeHere == ASSUME AgentBounds, AgentInv PROVE A!TypeOK /\ A!ScriptOnce /\ A!NothingLeftAfterClose
<1>1. A!ScriptOnce /\ A!NothingLeftAfterClose
  BY DEF AgentInv, ScriptRan, AgentTyped, A!ScriptOnce, Closing
<1>2. scripts \in 0 .. MaxErrors + 1
  BY DEF AgentInv, ScriptRan, AgentTyped, AgentBounds
<1>3. wait \in 0 .. 2 * MaxSessions + 5
  <2>1. /\ Owed("ssh") \in 0 .. 1 /\ Owed("pty") \in 0 .. 1
        /\ Owed("speedtest") \in 0 .. 1 /\ Owed("statistics") \in 0 .. 1
    BY DEF Owed
  <2>2. /\ speedtests \in Nat /\ speedtests <= MaxSessions /\ ptys.counted \in Nat
        /\ ptys.starting \in Nat /\ ptys.ended \in Nat /\ MaxSessions \in Nat
        /\ ptys.starting + ptys.counted + ptys.ended <= MaxSessions
    BY DEF AgentInv, AgentTyped, AgentBounds
  <2>3. ptys.counted <= MaxSessions
    BY <2>2
  <2> QED BY <2>1, <2>2, <2>3 DEF AgentInv, Waited
<1>4. ptys \in [starting : 0 .. MaxSessions, counted : 0 .. MaxSessions, ended : 0 .. MaxSessions]
  <2>1. /\ ptys \in [starting : Nat, counted : Nat, ended : Nat] /\ MaxSessions \in Nat
        /\ ptys.starting + ptys.counted + ptys.ended <= MaxSessions
    BY DEF AgentInv, AgentTyped, AgentBounds
  <2> QED BY <2>1
<1>5. DOMAIN A!Ports = 1 .. 4
  BY DEF A!Ports
<1>6. A!TypeOK
  BY <1>2, <1>3, <1>4, <1>5 DEF A!TypeOK, AgentInv, AgentTyped
<1> QED BY <1>1, <1>6

\* For any number of failing calls and of sessions: however often the agent reconnects, its startup
\* script is started once, and when Close has returned the tailnet is closed and none of the goroutines
\* that connCloseWait counts is left, whatever was being accepted or opened when it was called (run,
\* createTailnet, init and Close of agent/agent.go).
THEOREM CloseLeavesNothing ==
  ASSUME AgentBounds PROVE A!Spec => [](A!ScriptOnce /\ A!NothingLeftAfterClose)
<1>1. A!Init => AgentInv
  BY InitAgent
<1>2. AgentInv /\ [A!Next]_(A!vars) => AgentInv'
  BY NextAgent
<1>3. AgentInv => A!ScriptOnce /\ A!NothingLeftAfterClose
  BY AgentSafeHere
<1> QED BY <1>1, <1>2, <1>3, PTL DEF A!Spec

-----------------------------------------------------------------------------
(* The health of the apps.                                                 *)

HealthBounds == Threshold \in Nat /\ MaxFlips \in Nat /\ MaxReports \in Nat

LEMMA InitHealth == ASSUME HealthBounds, H!Init PROVE H!TypeOK
<1>1. server \in [Apps -> H!Healths]
  BY DEF H!Init, H!Stored, H!Healths
<1>2. failures \in [Apps -> 0 .. Threshold] /\ streak \in [Apps -> 0 .. Threshold + 1]
  BY DEF H!Init, HealthBounds
<1>3. flips \in 0 .. MaxFlips /\ faults_health \in 0 .. MaxReports
  BY DEF H!Init, HealthBounds
<1> QED BY <1>1, <1>2, <1>3 DEF H!Init, H!TypeOK

\* postWorkspaceAppHealth writes what the request says, or nothing.
LEMMA PostIs ==
  ASSUME H!TypeOK, NEW r \in [Apps -> H!Healths], H!postWorkspaceAppHealth(r)
  PROVE  server' \in [Apps -> H!Healths]
BY DEF H!TypeOK, H!postWorkspaceAppHealth

LEMMA CheckKeeps == ASSUME HealthBounds, H!TypeOK, NEW a \in Apps, H!Check(a) PROVE H!TypeOK'
<1>0. /\ health \in [Apps -> H!Healths] /\ failures \in [Apps -> 0 .. Threshold] /\ streak \in [Apps -> 0 .. Threshold + 1]
      /\ Threshold \in Nat
  BY DEF H!TypeOK, HealthBounds
<1>1. health' \in [Apps -> H!Healths]
  BY <1>0 DEF H!Check, H!Healths
<1>2. failures' \in [Apps -> 0 .. Threshold]
  <2>1. \/ failures' = [failures EXCEPT ![a] = 0]
        \/ H!Tolerated(a) /\ failures' = [failures EXCEPT ![a] = failures[a] + 1]
        \/ failures' = failures
    BY DEF H!Check
  <2>2. H!Tolerated(a) => failures[a] + 1 \in 0 .. Threshold
    BY <1>0 DEF H!Tolerated
  <2>3. 0 \in 0 .. Threshold
    BY <1>0
  <2> QED BY <1>0, <2>1, <2>2, <2>3
<1>3. streak' \in [Apps -> 0 .. Threshold + 1]
  <2>1. PICK n : n = IF streak[a] > Threshold THEN streak[a] ELSE streak[a] + 1
    OBVIOUS
  <2>2. streak' = [streak EXCEPT ![a] = 0] \/ streak' = [streak EXCEPT ![a] = n]
    BY <2>1 DEF H!Check
  <2>3. n \in 0 .. Threshold + 1 /\ 0 \in 0 .. Threshold + 1
    <3>1. streak[a] \in 0 .. Threshold + 1
      BY <1>0
    <3> QED BY <1>0, <2>1, <3>1
  <2> QED BY <1>0, <2>2, <2>3
<1> QED BY <1>1, <1>2, <1>3 DEF H!TypeOK, H!Check

LEMMA FlipKeeps == ASSUME HealthBounds, H!TypeOK, NEW a \in Apps, H!Flip(a) PROVE H!TypeOK'
<1> USE DEF H!reporter
<1>1. flips' \in 0 .. MaxFlips
  BY DEF H!TypeOK, HealthBounds, H!Flip
<1>2. up' \in [Apps -> BOOLEAN]
  BY DEF H!TypeOK, H!Flip
<1> QED BY <1>1, <1>2 DEF H!TypeOK, H!Flip

LEMMA NextHealth == ASSUME HealthBounds, H!TypeOK, [H!Next]_(H!vars) PROVE H!TypeOK'
<1> USE DEF H!reporter
<1>0. faults_health < MaxReports => faults_health + 1 \in 0 .. MaxReports
  BY DEF H!TypeOK, HealthBounds
<1>1. CASE \E a \in Apps : H!Check(a) \/ H!Flip(a)
  BY <1>1, CheckKeeps, FlipKeeps
<1>2. CASE H!Report
  BY <1>2 DEF H!TypeOK, H!Report
<1>3. CASE H!Deliver
  <2>1. post \in [Apps -> H!Healths]
    BY <1>3 DEF H!TypeOK, H!Deliver
  <2>2. server' \in [Apps -> H!Healths]
    BY <1>3, <2>1, PostIs DEF H!Deliver
  <2> QED BY <1>3, <2>2 DEF H!TypeOK, H!Deliver
<1>4. CASE H!Lose
  BY <1>0, <1>4 DEF H!TypeOK, H!Lose
<1>5. CASE H!Reconnect
  <2>1. failures' \in [Apps -> 0 .. Threshold] /\ streak' \in [Apps -> 0 .. Threshold + 1]
    BY <1>5 DEF HealthBounds, H!Reconnect
  <2>2. late' \in [Apps -> H!Healths] \union {H!NoPost}
    BY <1>5 DEF H!TypeOK, H!Reconnect
  <2> QED BY <1>0, <1>5, <2>1, <2>2 DEF H!TypeOK, H!Reconnect
<1>6. CASE H!DeliverLate
  <2>1. late \in [Apps -> H!Healths]
    BY <1>6 DEF H!TypeOK, H!DeliverLate
  <2>2. server' \in [Apps -> H!Healths]
    BY <1>6, <2>1, PostIs DEF H!DeliverLate
  <2> QED BY <1>6, <2>2 DEF H!TypeOK, H!DeliverLate
<1>7. CASE UNCHANGED H!vars
  BY <1>7 DEF H!TypeOK, H!vars
<1> QED BY <1>1, <1>2, <1>3, <1>4, <1>5, <1>6, <1>7 DEF H!Next

-----------------------------------------------------------------------------
(* Licenses and entitlements.                                              *)

LicenseBounds == MaxTime \in Nat /\ MaxFaults \in Nat /\ MaxPeerChanges \in Nat

Contexts == Requests \union {"loop"}
RequestStates == [at : {"none", "here", "elsewhere"}, step : {"idle", "update", "publish", "done"}]

LicensesTyped ==
    /\ now \in 0 .. MaxTime /\ table \in Seq(Licenses)
    /\ faults_licenses \in 0 .. MaxFaults /\ peerChanges \in 0 .. MaxPeerChanges
    /\ calls \subseteq E!Calls
    /\ loop_licenses \in {"new", "failed", "subscribe", "sync", "wait"}
    /\ coordinator \in {"agpl", "ha"}
    /\ committer \in BOOLEAN /\ meshed \in BOOLEAN /\ unable \in BOOLEAN
    /\ peer \in BOOLEAN /\ notified \in BOOLEAN /\ updates \in BOOLEAN
    /\ request \in [Requests -> RequestStates]

\* Whoever holds the mutex has a context and has computed entitlements; a callback has the context of
\* the update that set it.
Holder ==
    /\ entitlementsMu = E!Free
         \/ /\ entitlementsMu.ctx \in Contexts /\ computed.set
            /\ entitlementsMu.by = "request" => entitlementsMu.ctx \in Requests
    /\ callback = E!NoCallback \/ callback.ctx \in Contexts

\* What is installed changes together with the entitlements, so that it agrees with them even while
\* others are computed.
Installed ==
    /\ ~entitlements.set => ~E!Enabled(entitlements, "ha")
    /\ committer <=> E!Enabled(entitlements, "rbac")
    /\ coordinator = "ha" <=> E!Enabled(entitlements, "ha") /\ ~unable

LicensesInv == LicensesTyped /\ Holder /\ Installed

LEMMA InitLicenses == ASSUME LicenseBounds, E!Init PROVE LicensesInv
<1>1. table \in Seq(Licenses)
  <2>1. <<>> \in Seq(Licenses) /\ \A l \in Licenses : <<l>> \in Seq(Licenses)
    OBVIOUS
  <2> QED BY <2>1 DEF E!Init
<1>2. request \in [Requests -> RequestStates]
  BY DEF E!Init, RequestStates
<1>3. LicensesTyped
  <2>1. now \in 0 .. MaxTime /\ faults_licenses \in 0 .. MaxFaults /\ peerChanges \in 0 .. MaxPeerChanges
    BY DEF LicenseBounds, E!Init
  <2>2. /\ committer \in BOOLEAN /\ meshed \in BOOLEAN /\ unable \in BOOLEAN
        /\ peer \in BOOLEAN /\ notified \in BOOLEAN /\ updates \in BOOLEAN
    BY DEF E!Init
  <2>3. calls \subseteq E!Calls /\ loop_licenses = "new" /\ coordinator = "agpl"
    BY DEF E!Init
  <2> QED BY <1>1, <1>2, <2>1, <2>2, <2>3 DEF LicensesTyped
<1>4. Holder
  BY DEF Holder, E!Init
<1>5. Installed
  BY DEF Installed, E!Init, E!NotYet, E!Enabled, E!Features
<1> QED BY <1>3, <1>4, <1>5 DEF LicensesInv

LEMMA Moves ==
  ASSUME LicensesTyped, NEW q \in Requests, NEW s \in {"idle", "update", "publish", "done"}
  PROVE  [request EXCEPT ![q].step = s] \in [Requests -> RequestStates]
BY DEF LicensesTyped, RequestStates

LEMMA LockKeeps == ASSUME LicensesInv, NEW a \in E!Callers, E!Lock(a) PROVE LicensesInv'
<1>1. a.ctx \in Contexts /\ (a.by = "request" => a.ctx \in Requests)
  BY DEF E!Callers, LicensesInv, LicensesTyped, E!Calls, Contexts
<1>2. computed'.set
  BY DEF E!Lock, E!Entitlements
<1>3. LicensesTyped'
  BY DEF E!Lock, LicensesInv, LicensesTyped
<1>4. Holder'
  BY <1>1, <1>2 DEF E!Lock, LicensesInv, Holder
<1>5. Installed'
  BY DEF E!Lock, LicensesInv, Installed, E!Enabled
<1> QED BY <1>3, <1>4, <1>5 DEF LicensesInv

\* What the end of an update leaves of the mutex, the loop and the request.
LEMMA UnlockIs ==
  ASSUME LicensesInv, entitlementsMu # E!Free, NEW ok \in BOOLEAN, E!Unlock(ok)
  PROVE  /\ entitlementsMu' = E!Free
         /\ loop_licenses' \in {"new", "failed", "subscribe", "sync", "wait"}
         /\ request' \in [Requests -> RequestStates]
<1>1. loop_licenses' \in {loop_licenses, "subscribe", "failed", "wait", "sync"}
  BY DEF E!Unlock
<1>2. request' \in [Requests -> RequestStates]
  <2>1. PICK s \in {"publish", "done"} : s = IF ok THEN "publish" ELSE "done"
    OBVIOUS
  <2>2. CASE entitlementsMu.by = "request"
    <3>1. entitlementsMu.ctx \in Requests
      BY <2>2 DEF LicensesInv, Holder
    <3>2. request' = [request EXCEPT ![entitlementsMu.ctx].step = s]
      BY <2>1, <2>2 DEF E!Unlock
    <3> QED BY <3>1, <3>2, Moves DEF LicensesInv
  <2>3. CASE entitlementsMu.by # "request"
    BY <2>3 DEF E!Unlock, LicensesInv, LicensesTyped
  <2> QED BY <2>2, <2>3
<1> QED BY <1>1, <1>2 DEF E!Unlock, LicensesInv, LicensesTyped

LEMMA UpdateFailsKeeps == ASSUME LicenseBounds, LicensesInv, E!UpdateFails PROVE LicensesInv'
<1> USE DEF E!server
<1>1. faults_licenses' \in 0 .. MaxFaults
  BY DEF E!UpdateFails, LicenseBounds, LicensesInv, LicensesTyped
<1>2. LicensesTyped'
  BY <1>1, UnlockIs DEF E!UpdateFails, LicensesInv, LicensesTyped
<1>3. Holder'
  BY UnlockIs DEF E!UpdateFails, LicensesInv, Holder
<1>4. Installed'
  BY DEF E!UpdateFails, LicensesInv, Installed, E!Enabled
<1> QED BY <1>2, <1>3, <1>4 DEF LicensesInv

LEMMA SetCallbackIs ==
  ASSUME LicensesInv, entitlementsMu # E!Free, NEW mesh \in BOOLEAN, E!SetCallback(mesh)
  PROVE  calls' \subseteq E!Calls /\ callback'.ctx \in Contexts
BY DEF LicensesInv, LicensesTyped, Holder, E!SetCallback, E!Calls, E!Steps, Contexts

\* The coordinator is swapped when the feature changes; one that cannot be set up leaves the other.
LEMMA SwapIs ==
  ASSUME LicenseBounds, LicensesInv, entitlementsMu # E!Free, E!featureChanged("ha"), E!SwapCoordinator
  PROVE  /\ calls' \subseteq E!Calls /\ callback'.ctx \in Contexts
         /\ meshed' \in BOOLEAN /\ unable' \in BOOLEAN /\ coordinator' \in {"agpl", "ha"}
         /\ faults_licenses' \in 0 .. MaxFaults
         /\ coordinator' = "ha" <=> E!Enabled(computed, "ha") /\ ~unable'
<1>0. /\ faults_licenses \in Nat /\ faults_licenses <= MaxFaults /\ MaxFaults \in Nat
      /\ meshed \in BOOLEAN /\ coordinator \in {"agpl", "ha"}
  BY DEF LicenseBounds, LicensesInv, LicensesTyped
<1>1. calls' \subseteq E!Calls /\ callback'.ctx \in Contexts
  BY SetCallbackIs DEF E!SwapCoordinator
<1>2. E!Enabled(computed, "ha") => coordinator # "ha"
  BY DEF LicensesInv, Installed, E!featureChanged
<1>3. CASE E!Enabled(computed, "ha")
  <2>1. CASE coordinator' = "ha" /\ unable' = FALSE /\ UNCHANGED <<faults_licenses, meshed>>
    <3>1. faults_licenses' \in 0 .. MaxFaults /\ coordinator' \in {"agpl", "ha"}
      BY <1>0, <2>1
    <3>2. unable' \in BOOLEAN /\ meshed' \in BOOLEAN
      BY <1>0, <2>1
    <3>3. coordinator' = "ha" /\ ~unable'
      BY <2>1
    <3> QED BY <1>1, <1>3, <3>1, <3>2, <3>3
  <2>2. CASE faults_licenses < MaxFaults /\ faults_licenses' = faults_licenses + 1 /\ unable' = TRUE /\ UNCHANGED <<coordinator, meshed>>
    <3>1. faults_licenses' \in 0 .. MaxFaults
      BY <1>0, <2>2
    <3>2. unable' \in BOOLEAN /\ meshed' \in BOOLEAN /\ coordinator' \in {"agpl", "ha"}
      BY <1>0, <2>2
    <3>3. coordinator' # "ha" /\ unable'
      BY <1>2, <1>3, <2>2
    <3> QED BY <1>1, <3>1, <3>2, <3>3
  <2> QED BY <1>3, <2>1, <2>2 DEF E!SwapCoordinator
<1>4. CASE ~E!Enabled(computed, "ha")
  <2>1. coordinator' = "agpl" /\ unable' = FALSE /\ meshed' = FALSE /\ faults_licenses' = faults_licenses
    BY <1>4 DEF E!SwapCoordinator
  <2>2. faults_licenses' \in 0 .. MaxFaults /\ coordinator' \in {"agpl", "ha"} /\ coordinator' # "ha"
    BY <1>0, <2>1
  <2>3. unable' \in BOOLEAN /\ meshed' \in BOOLEAN
    BY <2>1
  <2> QED BY <1>1, <1>4, <2>2, <2>3
<1> QED BY <1>3, <1>4

LEMMA StoreKeeps == ASSUME LicenseBounds, LicensesInv, E!Store PROVE LicensesInv'
<1>0. entitlementsMu # E!Free /\ E!Unlock(TRUE) /\ computed.set /\ entitlements' = computed
  BY DEF E!Store, LicensesInv, Holder
<1>1. /\ entitlementsMu' = E!Free
      /\ loop_licenses' \in {"new", "failed", "subscribe", "sync", "wait"}
      /\ request' \in [Requests -> RequestStates]
  BY <1>0, UnlockIs
<1>2. /\ calls' \subseteq E!Calls /\ (callback' = E!NoCallback \/ callback'.ctx \in Contexts)
      /\ meshed' \in BOOLEAN /\ unable' \in BOOLEAN /\ coordinator' \in {"agpl", "ha"}
      /\ faults_licenses' \in 0 .. MaxFaults
      /\ coordinator' = "ha" <=> E!Enabled(computed, "ha") /\ ~unable'
  <2>1. CASE E!featureChanged("ha")
    BY <1>0, <2>1, SwapIs DEF E!Store
  <2>2. CASE ~E!featureChanged("ha")
    <3>1. E!Enabled(computed, "ha") <=> E!Enabled(entitlements, "ha")
      BY <2>2 DEF E!featureChanged
    <3>2. UNCHANGED <<coordinator, unable, callback, calls, meshed, faults_licenses>>
      BY <2>2 DEF E!Store
    <3> QED BY <3>1, <3>2 DEF LicensesInv, LicensesTyped, Holder, Installed
  <2> QED BY <2>1, <2>2
<1>3. committer' \in BOOLEAN /\ (committer' <=> E!Enabled(computed, "rbac"))
  BY DEF E!Store, E!featureChanged, LicensesInv, LicensesTyped, Installed, E!Enabled
<1>4. LicensesTyped'
  BY <1>1, <1>2, <1>3 DEF E!Store, LicensesInv, LicensesTyped
<1>5. Holder'
  BY <1>1, <1>2 DEF Holder
<1>6. Installed'
  <2>1. E!Enabled(entitlements, "ha")' <=> E!Enabled(computed, "ha")
    BY <1>0 DEF E!Enabled
  <2>2. E!Enabled(entitlements, "rbac")' <=> E!Enabled(computed, "rbac")
    BY <1>0 DEF E!Enabled
  <2> QED BY <1>0, <1>2, <1>3, <2>1, <2>2 DEF Installed
<1> QED BY <1>4, <1>5, <1>6 DEF LicensesInv

\* A step that leaves the mutex, the entitlements and what is installed.
LEMMA LicensesStay ==
  ASSUME LicensesInv, LicensesTyped',
         UNCHANGED <<entitlements, entitlementsMu, computed, committer, coordinator, unable, callback>>
  PROVE  LicensesInv'
BY DEF LicensesInv, Holder, Installed, E!Enabled

LEMMA LoopKeeps ==
  ASSUME LicenseBounds, LicensesInv, E!Subscribe \/ E!Tick \/ E!GotUpdate \/ E!Notify \/ E!Lost \/ E!Pass
  PROVE  LicensesInv'
<1> USE DEF E!server
<1>0. /\ faults_licenses < MaxFaults => faults_licenses + 1 \in 0 .. MaxFaults
      /\ now < MaxTime => now + 1 \in 0 .. MaxTime
  BY DEF LicenseBounds, LicensesInv, LicensesTyped
<1>1. LicensesTyped'
  <2>1. CASE E!Subscribe
    BY <1>0, <2>1 DEF LicensesInv, LicensesTyped, E!Subscribe
  <2>2. CASE E!Tick
    BY <2>2 DEF LicensesInv, LicensesTyped, E!Tick
  <2>3. CASE E!GotUpdate
    BY <2>3 DEF LicensesInv, LicensesTyped, E!GotUpdate
  <2>4. CASE E!Notify
    BY <2>4 DEF LicensesInv, LicensesTyped, E!Notify
  <2>5. CASE E!Lost
    BY <1>0, <2>5 DEF LicensesInv, LicensesTyped, E!Lost
  <2>6. CASE E!Pass
    BY <1>0, <2>6 DEF LicensesInv, LicensesTyped, E!Pass
  <2> QED BY <2>1, <2>2, <2>3, <2>4, <2>5, <2>6
<1> QED BY <1>1, LicensesStay DEF E!Subscribe, E!Tick, E!GotUpdate, E!Notify, E!Lost, E!Pass

LEMMA CallbacksKeep ==
  ASSUME LicenseBounds, LicensesInv, (\E found \in BOOLEAN : E!SyncReplicas(found)) \/ (\E c \in calls : E!Callback(c))
  PROVE  LicensesInv'
<1>1. CASE \E found \in BOOLEAN : E!SyncReplicas(found)
  <2>1. PICK found \in BOOLEAN : E!SyncReplicas(found)
    BY <1>1
  <2>2. peerChanges' \in 0 .. MaxPeerChanges
    BY <2>1 DEF E!SyncReplicas, LicenseBounds, LicensesInv, LicensesTyped
  <2>3. calls' \subseteq E!Calls
    BY <2>1 DEF E!SyncReplicas, LicensesInv, LicensesTyped, Holder, E!Calls, E!Steps, Contexts
  <2>4. LicensesTyped'
    BY <2>1, <2>2, <2>3 DEF E!SyncReplicas, LicensesInv, LicensesTyped
  <2> QED BY <2>1, <2>4, LicensesStay DEF E!SyncReplicas
<1>2. CASE \E c \in calls : E!Callback(c)
  <2>1. PICK c \in calls : E!Callback(c)
    BY <1>2
  <2>2. c \in E!Calls /\ [c EXCEPT !.step = "update"] \in E!Calls
    BY DEF LicensesInv, LicensesTyped, E!Calls, E!Steps
  <2>3. calls' \subseteq E!Calls
    BY <2>1, <2>2 DEF E!Callback, LicensesInv, LicensesTyped
  <2>4. LicensesTyped'
    BY <2>1, <2>3 DEF E!Callback, LicensesInv, LicensesTyped
  <2> QED BY <2>1, <2>4, LicensesStay DEF E!Callback
<1> QED BY <1>1, <1>2

LEMMA BeginIs ==
  ASSUME LicensesInv, NEW q \in Requests, NEW at \in {"here", "elsewhere"}, E!Begin(q, at), table' \in Seq(Licenses)
  PROVE  LicensesInv'
<1> USE DEF E!server
<1>1. request' \in [Requests -> RequestStates]
  BY DEF E!Begin, LicensesInv, LicensesTyped, RequestStates
<1>2. LicensesTyped'
  BY <1>1 DEF E!Begin, LicensesInv, LicensesTyped
<1> QED BY <1>2, LicensesStay DEF E!Begin

LEMMA RequestsKeep ==
  ASSUME LicenseBounds, LicensesInv, NEW q \in Requests,
         \/ \E at \in {"here", "elsewhere"} :
                \/ \E l \in Licenses : E!postLicense(q, at, l)
                \/ \E i \in DOMAIN table : E!deleteLicense(q, at, i)
         \/ E!UpdateElsewhere(q) \/ E!Publish(q)
  PROVE  LicensesInv'
<1> USE DEF E!server
<1>0. table \in Seq(Licenses)
  BY DEF LicensesInv, LicensesTyped
<1>1. CASE \E at \in {"here", "elsewhere"} : \E l \in Licenses : E!postLicense(q, at, l)
  <2>1. PICK at \in {"here", "elsewhere"}, l \in Licenses : E!postLicense(q, at, l)
    BY <1>1
  <2>2. table' \in Seq(Licenses)
    BY <1>0, <2>1 DEF E!postLicense
  <2> QED BY <2>1, <2>2, BeginIs DEF E!postLicense
<1>2. CASE \E at \in {"here", "elsewhere"} : \E i \in DOMAIN table : E!deleteLicense(q, at, i)
  <2>1. PICK at \in {"here", "elsewhere"}, i \in DOMAIN table : E!deleteLicense(q, at, i)
    BY <1>2
  <2>2. Len(table) - 1 \in Nat /\ i \in 1 .. Len(table) /\ Len(table) \in Nat
    BY <1>0
  <2>3. \A j \in 1 .. (Len(table) - 1) : table[IF j < i THEN j ELSE j + 1] \in Licenses
    <3> TAKE j \in 1 .. (Len(table) - 1)
    <3>1. (IF j < i THEN j ELSE j + 1) \in 1 .. Len(table)
      BY <2>2
    <3> QED BY <1>0, <3>1
  <2>4. table' \in Seq(Licenses)
    BY <2>1, <2>2, <2>3 DEF E!deleteLicense
  <2> QED BY <2>1, <2>4, BeginIs DEF E!deleteLicense
<1>3. CASE E!UpdateElsewhere(q) \/ E!Publish(q)
  <2>1. request' \in [Requests -> RequestStates]
    BY <1>3, Moves DEF E!UpdateElsewhere, E!Publish, LicensesInv
  <2>2. faults_licenses' \in 0 .. MaxFaults
    BY <1>3 DEF E!UpdateElsewhere, E!Publish, LicensesInv, LicensesTyped, LicenseBounds
  <2>3. notified' \in BOOLEAN
    BY <1>3 DEF E!UpdateElsewhere, E!Publish, LicensesInv, LicensesTyped
  <2>4. LicensesTyped'
    BY <1>3, <2>1, <2>2, <2>3 DEF E!UpdateElsewhere, E!Publish, LicensesInv, LicensesTyped
  <2> QED BY <1>3, <2>4, LicensesStay DEF E!UpdateElsewhere, E!Publish
<1> QED BY <1>1, <1>2, <1>3

LEMMA NextLicenses == ASSUME LicenseBounds, LicensesInv, [E!Next]_(E!vars) PROVE LicensesInv'
<1>1. CASE \E a \in E!Callers : E!Lock(a)
  BY <1>1, LockKeeps
<1>2. CASE E!Store \/ E!UpdateFails
  BY <1>2, StoreKeeps, UpdateFailsKeeps
<1>3. CASE E!Subscribe \/ E!Tick \/ E!GotUpdate \/ E!Notify \/ E!Lost \/ E!Pass
  BY <1>3, LoopKeeps
<1>4. CASE (\E found \in BOOLEAN : E!SyncReplicas(found)) \/ (\E c \in calls : E!Callback(c))
  BY <1>4, CallbacksKeep
<1>5. CASE \E q \in Requests, at \in {"here", "elsewhere"} :
              \/ \E l \in Licenses : E!postLicense(q, at, l)
              \/ \E i \in DOMAIN table : E!deleteLicense(q, at, i)
  BY <1>5, RequestsKeep
<1>6. CASE \E q \in Requests : E!UpdateElsewhere(q) \/ E!Publish(q)
  BY <1>6, RequestsKeep
<1>7. CASE UNCHANGED E!vars
  <2>1. LicensesTyped'
    BY <1>7 DEF E!vars, LicensesInv, LicensesTyped
  <2> QED BY <1>7, <2>1, LicensesStay DEF E!vars
<1> QED BY <1>1, <1>2, <1>3, <1>4, <1>5, <1>6, <1>7 DEF E!Next

\* The licenses that count before an upload count after it, at the same places, so that a feature one
\* of them grants is granted still, whatever it says of the grace period.
LEMMA UploadAdds ==
  ASSUME NEW t \in Seq(Licenses), NEW l \in Licenses, NEW f \in E!Features,
         E!Enabled(E!Entitlements(t), f)
  PROVE  E!Enabled(E!Entitlements(Append(t, l)), f)
<1> DEFINE s == Append(t, l)
<1>1. s \in Seq(Licenses) /\ \A i \in DOMAIN t : i \in DOMAIN s /\ s[i] = t[i]
  OBVIOUS
<1>2. \A i \in E!Parsed(t) : i \in E!Parsed(s) /\ s[i] = t[i]
  BY <1>1 DEF E!Parsed
<1>3. E!Entitlement(t, f) # "not_entitled"
  BY DEF E!Enabled, E!Entitlements
<1>4. PICK i \in E!Parsed(t) : t[i] \in AllFeatures \/ f \in Grants[t[i]]
  BY <1>3 DEF E!Entitlement
<1>5. i \in E!Parsed(s) /\ (s[i] \in AllFeatures \/ f \in Grants[s[i]])
  BY <1>2, <1>4
<1> HIDE DEF s
<1>6. E!Entitlement(s, f) # "not_entitled"
  BY <1>5 DEF E!Entitlement
<1>7. E!Enabled(E!Entitlements(s), f)
  BY <1>6 DEF E!Enabled, E!Entitlements
<1> QED BY <1>7 DEF s

LEMMA LicensesSafe == ASSUME LicenseBounds, LicensesInv PROVE E!TypeOK /\ E!ServerFollows /\ E!UploadKeepsFeatures
<1>1. E!TypeOK
  <2>1. \A q \in Requests : request[q].step \in {"idle", "update", "publish", "done"}
    BY DEF LicensesInv, LicensesTyped, RequestStates
  <2> QED BY <2>1 DEF E!TypeOK, LicensesInv, LicensesTyped
<1>2. E!ServerFollows
  <2>1. committer = E!Enabled(entitlements, "rbac")
    BY DEF LicensesInv, LicensesTyped, Installed, E!Enabled
  <2>2. (coordinator = "ha") = (E!Enabled(entitlements, "ha") /\ ~unable)
    BY DEF LicensesInv, Installed, E!Enabled
  <2> QED BY <2>1, <2>2 DEF E!ServerFollows
<1>3. E!UploadKeepsFeatures
  BY UploadAdds DEF E!UploadKeepsFeatures, LicensesInv, LicensesTyped
<1> QED BY <1>1, <1>2, <1>3

\* For any licenses, whatever features they grant and whenever they run out, and any number of requests:
\* what is installed is what the entitlements say whenever the mutex is free, whichever of the loop, the
\* requests and the callbacks updated them last and whatever failed, and an upload takes no feature away
\* (updateEntitlements of enterprise/coderd/coderd.go and Entitlements of license/license.go).
THEOREM InstalledIsEntitled ==
  ASSUME LicenseBounds PROVE E!Spec => [](E!ServerFollows /\ E!UploadKeepsFeatures)
<1>1. E!Init => LicensesInv
  BY InitLicenses
<1>2. LicensesInv /\ [E!Next]_(E!vars) => LicensesInv'
  BY NextLicenses
<1>3. LicensesInv => E!ServerFollows /\ E!UploadKeepsFeatures
  BY LicensesSafe
<1> QED BY <1>1, <1>2, <1>3, PTL DEF E!Spec

-----------------------------------------------------------------------------
(* The agent and the licenses.                                             *)

\* What each component needs to know of its constants.
AgentConstants == AgentBounds /\ HealthBounds /\ LicenseBounds

\* Each component keeps its invariant in its own behaviours.
PartsInv ==
    /\ part = "agent" => AgentInv
    /\ part = "health" => H!TypeOK
    /\ part = "licenses" => LicensesInv

LEMMA InitParts == ASSUME AgentConstants, Init PROVE PartsInv
<1>1. AgentInv
  BY InitAgent DEF Init, AgentConstants
<1>2. H!TypeOK
  BY InitHealth DEF Init, AgentConstants
<1>3. LicensesInv
  BY InitLicenses DEF Init, AgentConstants
<1> QED BY <1>1, <1>2, <1>3 DEF PartsInv

\* A step is one of the component that the behaviour is of.
LEMMA PartSteps ==
  ASSUME [Next]_vars
  PROVE  /\ part' = part
         /\ part = "agent" => [A!Next]_(A!vars)
         /\ part = "health" => [H!Next]_(H!vars)
         /\ part = "licenses" => [E!Next]_(E!vars)
<1>1. CASE Next
  BY <1>1 DEF Next
<1>2. CASE UNCHANGED vars
  BY <1>2 DEF vars, varsA, varsH, varsE, A!vars, H!vars, E!vars
<1> QED BY <1>1, <1>2

LEMMA NextParts == ASSUME AgentConstants, PartsInv, [Next]_vars PROVE PartsInv'
<1>1. part' = part
  BY PartSteps
<1>2. part = "agent" => AgentInv'
  BY PartSteps, NextAgent DEF PartsInv, AgentConstants
<1>3. part = "health" => (H!TypeOK)'
  BY PartSteps, NextHealth DEF PartsInv, AgentConstants
<1>4. part = "licenses" => LicensesInv'
  BY PartSteps, NextLicenses DEF PartsInv, AgentConstants
<1> QED BY <1>1, <1>2, <1>3, <1>4 DEF PartsInv

LEMMA PartsFollow == ASSUME AgentConstants, PartsInv PROVE AgentSafe
<1>1. part = "agent" => A!TypeOK /\ A!ScriptOnce /\ A!NothingLeftAfterClose
  BY AgentSafeHere DEF PartsInv, AgentConstants
<1>2. part = "health" => H!TypeOK
  BY DEF PartsInv
<1>3. part = "licenses" => E!TypeOK /\ E!ServerFollows /\ E!UploadKeepsFeatures
  BY LicensesSafe DEF PartsInv, AgentConstants
<1> QED BY <1>1, <1>2, <1>3 DEF AgentSafe

(* What the agent runs and what the server installs is what it should be,  *)
(* in every behaviour of the suite: the startup script, what Close leaves, *)
(* the reports of app health and the entitlements of a replica.            *)
THEOREM AgentIsSafe ==
  ASSUME AgentConstants
  PROVE  Spec => []AgentSafe
<1>1. Init => PartsInv
  BY InitParts
<1>2. PartsInv /\ [Next]_vars => PartsInv'
  BY NextParts
<1>3. PartsInv => AgentSafe
  BY PartsFollow
<1> QED BY <1>1, <1>2, <1>3, PTL DEF Spec
=============================================================================
