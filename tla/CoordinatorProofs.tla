------------------------- MODULE CoordinatorProofs -------------------------
(***************************************************************************)
(* Proofs about the two coordinators, in memory (Coordinator) and shared   *)
(* by replicas (HACoordinator), for any number of replicas, agent          *)
(* websockets, clients and versions.                                       *)
(***************************************************************************)
EXTENDS MCCoordinator, TLAPS

(* Only a session that is being served has entries in the maps.            *)
Entries ==
    /\ agentSocket # None => session[agentSocket] = "serving"
    /\ nodes[Agent] > 0 => \E a \in AgentConns : session[a] = "serving"
    /\ \A cl \in Clients : nodes[cl] > 0 \/ cl \in subscribed => session[cl] = "serving"

TracesInv == TypeOK /\ Entries

LEMMA InitTraces == Init => TracesInv
<1> SUFFICES ASSUME Init PROVE TracesInv
  OBVIOUS
<1>1. 0 \in Versions
  BY VersionAssumption DEF Versions
<1>2. TypeOK
  BY <1>1 DEF Init, TypeOK
<1>3. Entries
  BY DEF Init, Entries, Ids
<1> QED BY <1>2, <1>3 DEF TracesInv

\* What a session collects to write are nodes that exist.
LEMMA NodesForType ==
  ASSUME TypeOK, NEW p \in Peers, NEW ids \in SUBSET Ids
  PROVE  NodesFor(p, ids) \subseteq Write
  BY VersionAssumption DEF TypeOK, NodesFor, Write, Versions

\* A delivery leaves every received version a version.
LEMMA DeliverType ==
  ASSUME TypeOK, NEW ws \in SUBSET Write, Deliver(ws)
  PROVE  got' \in [Peers -> [Ids -> Versions]]
<1> DEFINE V(p, i) == IF \E w \in ws : w.to = p /\ w.id = i /\ open[p]
                      THEN (CHOOSE w \in ws : w.to = p /\ w.id = i).version
                      ELSE got[p][i]
<1>1. ASSUME NEW p \in Peers, NEW i \in Ids
      PROVE  V(p, i) \in Versions
  <2>1. CASE \E w \in ws : w.to = p /\ w.id = i /\ open[p]
    <3> DEFINE w0 == CHOOSE w \in ws : w.to = p /\ w.id = i
    <3>1. w0 \in ws
      BY <2>1
    <3>2. w0.version \in Versions
      <4> HIDE DEF w0
      <4> QED BY <3>1, VersionAssumption DEF Write, Versions
    <3> QED BY <2>1, <3>2
  <2>2. CASE ~ \E w \in ws : w.to = p /\ w.id = i /\ open[p]
    BY <2>2 DEF TypeOK
  <2> QED BY <2>1, <2>2
<1>2. got' = [p \in Peers |-> [i \in Ids |-> V(p, i)]]
  BY DEF Deliver
<1> HIDE DEF V
<1> QED BY <1>1, <1>2


(* One lemma per group of actions: each keeps the types and the entries.   *)

LEMMA ClientTraces ==
  ASSUME TracesInv, NEW cl \in Clients, ClientStep(cl)
  PROVE  TracesInv'
<1> USE DEF TracesInv
<1>0. cl \in Peers /\ cl \in Ids /\ Agent \in Ids /\ cl # Agent
      /\ cl \notin AgentConns /\ AgentConns \subseteq Peers /\ Clients \subseteq Ids
  BY PeersAssumption DEF Peers, Ids
<1>1. CASE ServeClient(cl)
  <2>1. NodesFor(cl, {Agent}) \subseteq Write
    BY <1>0, NodesForType
  <2>2. TypeOK'
    BY <1>0, <1>1, <2>1 DEF ServeClient, TypeOK, maps, Goto
  <2>3. Entries'
    BY <1>0, <1>1 DEF ServeClient, TypeOK, Entries, maps, Goto
  <2> QED BY <2>2, <2>3
<1>2. CASE RegisterClient(cl)
  <2>1. TypeOK'
    BY <1>0, <1>2 DEF RegisterClient, TypeOK, sockets, Goto
  <2>2. Entries'
    BY <1>0, <1>2 DEF RegisterClient, TypeOK, Entries, sockets, Goto
  <2> QED BY <2>1, <2>2
<1>3. CASE HandleClient(cl)
  <2>1. {[to |-> a, id |-> cl, version |-> inbox[cl]] : a \in {agentSocket} \ {None}} \subseteq Write
    BY <1>0, <1>3, VersionAssumption DEF HandleClient, TypeOK, Write, Versions
  <2>2. TypeOK'
    BY <1>0, <1>3, <2>1, VersionAssumption DEF HandleClient, TypeOK, sockets, Versions
  <2>3. Entries'
    BY <1>0, <1>3 DEF HandleClient, TypeOK, Entries, sockets
  <2> QED BY <2>2, <2>3
<1>4. ASSUME LeaveClient(cl), session[cl] = "serving"
      PROVE  TracesInv'
  <2>1. 0 \in Versions
    BY VersionAssumption DEF Versions
  <2>2. TypeOK'
    BY <1>0, <1>4, <2>1 DEF LeaveClient, TypeOK, sockets, Goto
  <2>3. Entries'
    BY <1>0, <1>4 DEF LeaveClient, TypeOK, Entries, sockets, Goto
  <2> QED BY <2>2, <2>3
<1>5. CASE EndClient(cl)
  BY <1>4, <1>5 DEF EndClient
<1>6. CASE ForwardFails(cl)
  BY <1>4, <1>6 DEF ForwardFails
<1> QED BY <1>1, <1>2, <1>3, <1>5, <1>6 DEF ClientStep

LEMMA AgentTraces ==
  ASSUME TracesInv, NEW a \in AgentConns, AgentStep(a)
  PROVE  TracesInv'
<1> USE DEF TracesInv
<1>0. a \in Peers /\ a \notin Clients /\ Agent \in Ids /\ Agent \notin Clients /\ a # None
      /\ AgentConns \subseteq Peers /\ Clients \subseteq Ids /\ Clients \subseteq Peers
  BY PeersAssumption DEF Peers, Ids
<1>1. CASE ServeAgent(a)
  <2>1. NodesFor(a, subscribed) \subseteq Write
    BY <1>0, NodesForType DEF TypeOK
  <2>2. TypeOK'
    BY <1>0, <1>1, <2>1 DEF ServeAgent, TypeOK, maps, Goto
  <2>3. Entries'
    BY <1>0, <1>1 DEF ServeAgent, TypeOK, Entries, maps, Goto
  <2> QED BY <2>2, <2>3
<1>2. ASSUME NEW opened \in [Peers -> BOOLEAN], TakeSocket(a, opened),
             UNCHANGED <<closed, nodes, subscribed, got, latest, inbox, out, closing>>
      PROVE  TracesInv'
  <2>1. open' \in [Peers -> BOOLEAN]
    BY <1>2 DEF TakeSocket
  <2>2. TypeOK'
    BY <1>0, <1>2, <2>1 DEF TakeSocket, TypeOK, Goto
  <2>3. Entries'
    BY <1>0, <1>2 DEF TakeSocket, TypeOK, Entries, Goto
  <2> QED BY <2>2, <2>3
<1>3. CASE ServeAgentAlone(a)
  <2>1. [open EXCEPT ![a] = TRUE] \in [Peers -> BOOLEAN]
    BY <1>0 DEF TypeOK
  <2> QED BY <1>2, <1>3, <2>1 DEF ServeAgentAlone
<1>4. CASE RegisterAgent(a)
  BY <1>2, <1>4 DEF RegisterAgent, TypeOK
<1>5. CASE HandleAgent(a)
  <2>1. {[to |-> cl, id |-> Agent, version |-> inbox[a]] : cl \in subscribed} \subseteq Write
    BY <1>0, <1>5, VersionAssumption DEF HandleAgent, TypeOK, Write, Versions
  <2>2. TypeOK'
    BY <1>0, <1>5, <2>1, VersionAssumption DEF HandleAgent, TypeOK, sockets, Versions
  <2>3. Entries'
    BY <1>0, <1>5 DEF HandleAgent, TypeOK, Entries, sockets
  <2> QED BY <2>2, <2>3
<1>6. CASE EndAgent(a)
  <2>1. 0 \in Versions
    BY VersionAssumption DEF Versions
  <2>2. TypeOK'
    BY <1>0, <1>6, <2>1 DEF EndAgent, TypeOK, sockets, Goto
  <2>3. Entries'
    BY <1>0, <1>6 DEF EndAgent, TypeOK, Entries, sockets, Goto
  <2> QED BY <2>2, <2>3
<1> QED BY <1>1, <1>3, <1>4, <1>5, <1>6 DEF AgentStep

LEMMA SocketTraces ==
  ASSUME TracesInv, NEW p \in Peers, SocketStep(p)
  PROVE  TracesInv'
<1> USE DEF TracesInv
<1>0. AgentConns \subseteq Peers /\ Clients \subseteq Peers /\ Id(p) \in Ids
  BY DEF Peers, Ids, Id
<1>1. CASE ServeRefused(p)
  BY <1>0, <1>1 DEF ServeRefused, TypeOK, Entries, maps, sockets, Goto
<1>2. CASE Greet(p)
  <2>1. got' \in [Peers -> [Ids -> Versions]]
    BY <1>2, DeliverType DEF Greet, TypeOK
  <2>2. TypeOK'
    BY <1>2, <2>1 DEF Greet, TypeOK, maps, Goto
  <2>3. Entries'
    BY <1>0, <1>2 DEF Greet, TypeOK, Entries, maps, Goto
  <2> QED BY <2>2, <2>3
<1>3. CASE GreetFails(p)
  BY <1>0, <1>3 DEF GreetFails, TypeOK, Entries, maps, sockets, Goto
<1>4. CASE PeerGone(p)
  BY <1>4 DEF PeerGone, TypeOK, Entries, maps
<1>5. CASE CloseSocket(p)
  BY <1>5 DEF CloseSocket, TypeOK, Entries, maps
<1>6. ASSUME NEW v \in Versions, Decode(p, v)
      PROVE  TracesInv'
  BY <1>0, <1>6 DEF Decode, TypeOK, Entries, maps, sockets
<1>7. ASSUME NEW w \in out[p], Forward(p, w)
      PROVE  TracesInv'
  <2>1. {w} \subseteq Write
    BY <1>7 DEF TypeOK
  <2>2. got' \in [Peers -> [Ids -> Versions]]
    BY <1>7, <2>1, DeliverType DEF Forward
  <2> QED BY <1>7, <2>2 DEF Forward, TypeOK, Entries, maps
<1> QED BY <1>1, <1>2, <1>3, <1>4, <1>5, <1>6, <1>7 DEF SocketStep

LEMMA NextTraces == TracesInv /\ [Next]_vars => TracesInv'
<1> SUFFICES ASSUME TracesInv, [Next]_vars PROVE TracesInv'
  OBVIOUS
<1>1. CASE \E cl \in Clients : ClientStep(cl)
  BY <1>1, ClientTraces
<1>2. CASE \E a \in AgentConns : AgentStep(a)
  BY <1>2, AgentTraces
<1>3. CASE \E p \in Peers : SocketStep(p)
  BY <1>3, SocketTraces
<1>4. CASE Close
  <2>1. closing' \subseteq Peers
    BY <1>4 DEF Close, TracesInv, TypeOK, Peers
  <2> QED BY <1>4, <2>1 DEF Close, TracesInv, TypeOK, Entries, maps, sockets
<1>5. CASE UNCHANGED vars
  BY <1>5 DEF vars, maps, sockets, TracesInv, TypeOK, Entries
<1> QED BY <1>1, <1>2, <1>3, <1>4, <1>5 DEF Next

(* Every variable of the coordinator keeps its type (the maps of           *)
(* coordinator.go hold sockets and nodes of known peers only).             *)
THEOREM CoordinatorTypeCorrect == Spec => []TypeOK
<1>1. TracesInv => TypeOK
  BY DEF TracesInv
<1> QED BY <1>1, InitTraces, NextTraces, PTL DEF Spec

LEMMA TracesInvariant == Spec => []TracesInv
  BY InitTraces, NextTraces, PTL DEF Spec

(* No entry of a session that has ended stays in the maps, however the     *)
(* websockets of the agent overlap: the deferred clean-ups of ServeClient  *)
(* and ServeAgent suffice.                                                 *)
THEOREM NoTracesLeft == Spec => []NoTraces
<1>1. TracesInv => NoTraces
  <2> SUFFICES ASSUME TracesInv PROVE NoTraces
    OBVIOUS
  <2>1. ASSUME NEW i \in Ids, ~(nodes[i] > 0)
        PROVE  nodes[i] = 0
    BY <2>1, VersionAssumption DEF TracesInv, TypeOK, Versions
  <2>2. Agent \in Ids /\ Clients \subseteq Ids
    BY DEF Ids
  <2> QED BY <2>1, <2>2 DEF TracesInv, TypeOK, Entries, NoTraces
<1> QED BY <1>1, TracesInvariant, PTL

-----------------------------------------------------------------------------
(* What an agent has heard of a client, and the writes on their way to it. *)

\* A client's node in the map is not newer than what the client has sent, nor
\* than the message that will replace it.
Order ==
    \A cl \in Clients : /\ nodes[cl] <= latest[cl] /\ inbox[cl] <= latest[cl]
                        /\ inbox[cl] > 0 => nodes[cl] <= inbox[cl]

\* An agent has heard nothing before it was greeted, and of a client that has
\* not left nothing newer than the map.
Heard ==
    \A a \in AgentConns, cl \in Clients :
        /\ session[a] \in {"new", "greeting"} => got[a][cl] = 0
        /\ session[cl] # "ended" => got[a][cl] <= nodes[cl]

\* A client's session writes the client's current node to an agent that was
\* registered; the others write to their own peer, or to clients.
Writes ==
    \A p \in Peers : \A w \in out[p] :
        \/ /\ session[p] = "serving" /\ p \in Clients
           /\ w.to \in AgentConns /\ session[w.to] \in {"serving", "ended"}
           /\ w.id = p /\ w.version = nodes[p]
        \/ /\ session[p] = "serving" /\ p \in AgentConns
           /\ w.to \in Clients
        \/ /\ session[p] = "greeting" /\ p \in Clients
           /\ w.to = p
        \/ /\ session[p] = "greeting" /\ p \in AgentConns
           /\ w.to = p /\ w.id \in Clients
           /\ session[w.id] \in {"serving", "ended"}
           /\ session[w.id] = "serving" => w.version <= nodes[w.id]

ViewsInv == TracesInv /\ Order /\ Heard /\ Writes

\* No step makes an agent fall back to an older node of a client.
Monotone == \A a \in AgentConns, cl \in Clients : got'[a][cl] >= got[a][cl]

LEMMA SameMonotone ==
  ASSUME TypeOK, UNCHANGED got
  PROVE  Monotone
  BY PeersAssumption, VersionAssumption DEF TypeOK, Monotone, Peers, Ids, Versions

LEMMA InitViews == Init => ViewsInv
<1> SUFFICES ASSUME Init PROVE ViewsInv
  OBVIOUS
<1>1. TracesInv
  BY InitTraces
<1>2. Order /\ Heard
  BY DEF Init, Order, Heard, Peers, Ids
<1>3. Writes
  BY DEF Init, Writes
<1> QED BY <1>1, <1>2, <1>3 DEF ViewsInv

\* Facts about sets and types that the lemmas below share.
LEMMA ViewTypes ==
  ASSUME TypeOK
  PROVE  /\ AgentConns \subseteq Peers /\ Clients \subseteq Peers /\ Clients \subseteq Ids
         /\ \A cl \in Clients : nodes[cl] \in Nat /\ latest[cl] \in Nat /\ inbox[cl] \in Nat
         /\ \A a \in AgentConns, cl \in Clients : got[a][cl] \in Nat
         /\ \A q \in Peers : \A w \in out[q] : w \in Write /\ w.version \in Nat
<1>1. AgentConns \subseteq Peers /\ Clients \subseteq Peers /\ Clients \subseteq Ids
  BY DEF Peers, Ids
<1>2. \A v \in Versions : v \in Nat
  BY VersionAssumption DEF Versions
<1>3. \A q \in Peers : \A w \in out[q] : w \in Write /\ w.version \in Nat
  BY VersionAssumption DEF TypeOK, Write
<1> QED BY <1>1, <1>2, <1>3 DEF TypeOK

LEMMA ClientViews ==
  ASSUME ViewsInv, NEW cl \in Clients, ClientStep(cl)
  PROVE  (Order /\ Heard /\ Writes)' /\ Monotone
<1> USE DEF ViewsInv, TracesInv
<1>0. /\ AgentConns \subseteq Peers /\ Clients \subseteq Peers /\ Clients \subseteq Ids
      /\ \A c \in Clients : nodes[c] \in Nat /\ latest[c] \in Nat /\ inbox[c] \in Nat
      /\ \A a \in AgentConns, c \in Clients : got[a][c] \in Nat
      /\ \A q \in Peers : \A w \in out[q] : w \in Write /\ w.version \in Nat
  BY ViewTypes
<1>a. cl \in Peers /\ cl \in Ids /\ cl \notin AgentConns /\ cl # Agent /\ None \notin AgentConns
  BY <1>0, PeersAssumption
<1>1. CASE ServeClient(cl)
  <2>1. Order'
    BY <1>1 DEF ServeClient, Order, maps
  <2>2. Heard'
    BY <1>0, <1>a, <1>1 DEF ServeClient, Heard, maps, Goto, TypeOK
  <2>3. \A w \in out'[cl] : w.to = cl
    BY <1>a, <1>1 DEF ServeClient, NodesFor, TypeOK
  <2>4. session' = [session EXCEPT ![cl] = "greeting"] /\ session[cl] = "new"
        /\ UNCHANGED nodes /\ \A q \in Peers \ {cl} : out'[q] = out[q]
    BY <1>1 DEF ServeClient, maps, Goto, TypeOK
  <2>5. session'[cl] = "greeting" /\ \A q \in Peers \ {cl} : session'[q] = session[q]
    BY <1>a, <2>4 DEF TypeOK
  <2>6. Writes'
    BY <1>0, <1>a, <2>3, <2>4, <2>5 DEF Writes
  <2> QED BY <1>1, <2>1, <2>2, <2>6, SameMonotone DEF ServeClient
<1>2. CASE RegisterClient(cl)
  <2>1. Order'
    BY <1>2 DEF RegisterClient, Order
  <2>2. Heard'
    BY <1>0, <1>a, <1>2 DEF RegisterClient, Heard, sockets, Goto, TypeOK
  <2>3. Writes'
    BY <1>0, <1>a, <1>2 DEF RegisterClient, Writes, Goto, TypeOK
  <2> QED BY <1>2, <2>1, <2>2, <2>3, SameMonotone DEF RegisterClient, sockets
<1>3. CASE HandleClient(cl)
  <2>1. Order'
    BY <1>0, <1>a, <1>3 DEF HandleClient, Order, TypeOK
  <2>2. nodes'[cl] >= nodes[cl] /\ \A c \in Clients \ {cl} : nodes'[c] = nodes[c]
    BY <1>0, <1>a, <1>3 DEF HandleClient, Order, TypeOK
  <2>3. nodes'[cl] \in Nat
    BY <1>0, <1>a, <1>3 DEF HandleClient, TypeOK
  <2>4. Heard'
    BY <1>0, <1>a, <1>3, <2>2, <2>3 DEF HandleClient, Heard, sockets
  <2>5. \A w \in out'[cl] : /\ w.to \in AgentConns /\ session[w.to] = "serving"
                            /\ w.id = cl /\ w.version = nodes'[cl]
    BY <1>a, <1>3 DEF HandleClient, TypeOK, Entries
  <2>6. Writes'
    BY <1>0, <1>a, <1>3, <2>2, <2>3, <2>5 DEF HandleClient, Writes, TypeOK
  <2> QED BY <1>3, <2>1, <2>4, <2>6, SameMonotone DEF HandleClient, sockets
<1>4. ASSUME LeaveClient(cl), session[cl] = "serving"
      PROVE  (Order /\ Heard /\ Writes)' /\ Monotone
  <2>1. Order'
    BY <1>0, <1>a, <1>4 DEF LeaveClient, Order, TypeOK
  <2>2. Heard'
    BY <1>0, <1>a, <1>4 DEF LeaveClient, Heard, sockets, Goto, TypeOK
  <2>3. Writes'
    BY <1>0, <1>a, <1>4 DEF LeaveClient, Writes, Goto, TypeOK
  <2> QED BY <1>4, <2>1, <2>2, <2>3, SameMonotone DEF LeaveClient, sockets
<1>5. CASE EndClient(cl)
  BY <1>4, <1>5 DEF EndClient
<1>6. CASE ForwardFails(cl)
  BY <1>4, <1>6 DEF ForwardFails
<1> QED BY <1>1, <1>2, <1>3, <1>5, <1>6 DEF ClientStep

LEMMA AgentViews ==
  ASSUME ViewsInv, NEW a \in AgentConns, AgentStep(a)
  PROVE  (Order /\ Heard /\ Writes)' /\ Monotone
<1> USE DEF ViewsInv, TracesInv
<1>0. /\ AgentConns \subseteq Peers /\ Clients \subseteq Peers /\ Clients \subseteq Ids
      /\ \A c \in Clients : nodes[c] \in Nat /\ latest[c] \in Nat /\ inbox[c] \in Nat
      /\ \A b \in AgentConns, c \in Clients : got[b][c] \in Nat
      /\ \A q \in Peers : \A w \in out[q] : w \in Write /\ w.version \in Nat
  BY ViewTypes
<1>a. a \in Peers /\ a \notin Clients /\ Agent \notin Clients /\ Agent \in Ids
  BY <1>0, PeersAssumption DEF Ids
<1>1. CASE ServeAgent(a)
  <2>1. Order'
    BY <1>1 DEF ServeAgent, Order, maps
  <2>2. Heard'
    BY <1>0, <1>a, <1>1 DEF ServeAgent, Heard, maps, Goto, TypeOK
  <2>3. \A w \in out'[a] : /\ w.to = a /\ w.id \in subscribed /\ w.version = nodes[w.id]
    BY <1>a, <1>1 DEF ServeAgent, NodesFor, TypeOK
  <2>4. \A c \in subscribed : c \in Clients /\ session[c] = "serving" /\ c # a
    BY <1>a DEF Entries, TypeOK
  <2>5. Writes'
    BY <1>0, <1>a, <1>1, <2>3, <2>4 DEF ServeAgent, Writes, maps, Goto, TypeOK
  <2> QED BY <1>1, <2>1, <2>2, <2>5, SameMonotone DEF ServeAgent
<1>2. ASSUME NEW opened, TakeSocket(a, opened), session[a] \in {"new", "greeted"},
             UNCHANGED <<closed, nodes, subscribed, got, latest, inbox, out, closing>>
      PROVE  (Order /\ Heard /\ Writes)' /\ Monotone
  <2>1. Order'
    BY <1>2 DEF Order
  <2>2. Heard'
    BY <1>0, <1>a, <1>2 DEF TakeSocket, Heard, Goto, TypeOK
  <2>3. Writes'
    BY <1>0, <1>a, <1>2 DEF TakeSocket, Writes, Goto, TypeOK
  <2> QED BY <1>2, <2>1, <2>2, <2>3, SameMonotone
<1>3. CASE ServeAgentAlone(a)
  BY <1>2, <1>3 DEF ServeAgentAlone
<1>4. CASE RegisterAgent(a)
  BY <1>2, <1>4 DEF RegisterAgent
<1>5. CASE HandleAgent(a)
  <2>1. \A c \in Clients : nodes'[c] = nodes[c] /\ inbox'[c] = inbox[c]
    BY <1>0, <1>a, <1>5 DEF HandleAgent, TypeOK
  <2>2. Order' /\ Heard'
    BY <1>5, <2>1 DEF HandleAgent, Order, Heard, sockets
  <2>3. \A w \in out'[a] : w.to \in Clients
    BY <1>a, <1>5 DEF HandleAgent, TypeOK
  <2>4. Writes'
    BY <1>0, <1>a, <1>5, <2>1, <2>3 DEF HandleAgent, Writes, TypeOK
  <2> QED BY <1>5, <2>2, <2>4, SameMonotone DEF HandleAgent, sockets
<1>6. CASE EndAgent(a)
  <2>1. \A c \in Clients : nodes'[c] = nodes[c]
    BY <1>0, <1>a, <1>6 DEF EndAgent, TypeOK
  <2>2. Order' /\ Heard'
    BY <1>0, <1>a, <1>6, <2>1 DEF EndAgent, Order, Heard, sockets, Goto, TypeOK
  <2>3. Writes'
    BY <1>0, <1>a, <1>6, <2>1 DEF EndAgent, Writes, Goto, TypeOK
  <2> QED BY <1>6, <2>2, <2>3, SameMonotone DEF EndAgent, sockets
<1> QED BY <1>1, <1>3, <1>4, <1>5, <1>6 DEF AgentStep

LEMMA SocketViews ==
  ASSUME ViewsInv, NEW p \in Peers, SocketStep(p)
  PROVE  (Order /\ Heard /\ Writes)' /\ Monotone
<1> USE DEF ViewsInv, TracesInv
<1>0. /\ AgentConns \subseteq Peers /\ Clients \subseteq Peers /\ Clients \subseteq Ids
      /\ \A c \in Clients : nodes[c] \in Nat /\ latest[c] \in Nat /\ inbox[c] \in Nat
      /\ \A b \in AgentConns, c \in Clients : got[b][c] \in Nat
      /\ \A q \in Peers : \A w \in out[q] : w \in Write /\ w.version \in Nat
  BY ViewTypes
<1>a. AgentConns \intersect Clients = {} /\ Agent \notin Clients
  BY PeersAssumption
<1>1. CASE ServeRefused(p)
  <2>1. Order'
    BY <1>1 DEF ServeRefused, Order, maps
  <2>2. Heard'
    BY <1>0, <1>a, <1>1 DEF ServeRefused, Heard, maps, sockets, Goto, TypeOK
  <2>3. Writes'
    BY <1>0, <1>a, <1>1 DEF ServeRefused, Writes, maps, Goto, TypeOK
  <2> QED BY <1>1, <2>1, <2>2, <2>3, SameMonotone DEF ServeRefused, sockets
<1>2. CASE Greet(p)
  <2>1. /\ session' = [session EXCEPT ![p] = "greeted"] /\ session[p] = "greeting"
        /\ out' = [out EXCEPT ![p] = {}] /\ UNCHANGED <<nodes, latest, inbox>>
    BY <1>2 DEF Greet, maps, Goto
  <2>2. Order'
    BY <2>1 DEF Order
  <2>3. Writes'
    BY <1>0, <1>a, <2>1 DEF Writes, TypeOK
  <2>4. ASSUME NEW a \in AgentConns, NEW c \in Clients, a # p
        PROVE  got'[a][c] = got[a][c]
    <3>1. ~ \E w \in out[p] : w.to = a /\ w.id = c /\ open[a]
      BY <1>0, <2>1, <2>4 DEF Writes
    <3> QED BY <1>0, <1>2, <3>1 DEF Greet, Deliver
  <2>5. ASSUME NEW c \in Clients, p \in AgentConns
        PROVE  /\ got'[p][c] \in Nat /\ got[p][c] = 0
               /\ session[c] # "ended" => got'[p][c] <= nodes[c]
    <3>1. got[p][c] = 0 /\ nodes[c] \in Nat
      BY <1>0, <2>1, <2>5 DEF Heard
    <3>2. CASE \E w \in out[p] : w.to = p /\ w.id = c /\ open[p]
      <4> DEFINE w0 == CHOOSE w \in out[p] : w.to = p /\ w.id = c
      <4>1. w0 \in out[p] /\ w0.to = p /\ w0.id = c
        BY <3>2
      <4>2. got'[p][c] = w0.version
        BY <1>0, <1>2, <3>2 DEF Greet, Deliver
      <4> HIDE DEF w0
      <4>3. session[c] # "ended" => w0.version <= nodes[c]
        BY <1>0, <1>a, <2>1, <2>5, <4>1 DEF Writes
      <4> QED BY <1>0, <3>1, <4>1, <4>2, <4>3
    <3>3. CASE ~ \E w \in out[p] : w.to = p /\ w.id = c /\ open[p]
      <4>1. got'[p][c] = got[p][c]
        BY <1>0, <1>2, <3>3 DEF Greet, Deliver
      <4> QED BY <3>1, <4>1
    <3> QED BY <3>2, <3>3
  <2>6. Heard'
    <3> SUFFICES ASSUME NEW a \in AgentConns, NEW c \in Clients
                 PROVE  /\ session'[a] \in {"new", "greeting"} => got'[a][c] = 0
                        /\ session'[c] # "ended" => got'[a][c] <= nodes'[c]
      BY DEF Heard
    <3>1. session'[p] = "greeted" /\ \A q \in Peers \ {p} : session'[q] = session[q]
      BY <2>1 DEF TypeOK
    <3>2. session'[c] # "ended" => session[c] # "ended"
      BY <1>0, <2>1, <3>1
    <3>3. CASE a = p
      BY <2>1, <2>5, <3>1, <3>2, <3>3
    <3>4. CASE a # p
      BY <1>0, <2>1, <2>4, <3>1, <3>2, <3>4 DEF Heard
    <3> QED BY <3>3, <3>4
  <2>7. Monotone
    <3> SUFFICES ASSUME NEW a \in AgentConns, NEW c \in Clients
                 PROVE  got'[a][c] >= got[a][c]
      BY DEF Monotone
    <3>1. CASE a = p
      BY <2>5, <3>1
    <3>2. CASE a # p
      BY <1>0, <2>4, <3>2
    <3> QED BY <3>1, <3>2
  <2> QED BY <2>2, <2>3, <2>6, <2>7
<1>3. CASE GreetFails(p)
  <2>1. Order'
    BY <1>3 DEF GreetFails, Order, maps
  <2>2. Heard'
    BY <1>0, <1>a, <1>3 DEF GreetFails, Heard, maps, sockets, Goto, TypeOK
  <2>3. Writes'
    BY <1>0, <1>a, <1>3 DEF GreetFails, Writes, maps, Goto, TypeOK
  <2> QED BY <1>3, <2>1, <2>2, <2>3, SameMonotone DEF GreetFails, sockets
<1>4. CASE PeerGone(p)
  BY <1>4, SameMonotone DEF PeerGone, Order, Heard, Writes, maps
<1>5. CASE CloseSocket(p)
  BY <1>5, SameMonotone DEF CloseSocket, Order, Heard, Writes, maps
<1>6. ASSUME NEW v \in Versions, Decode(p, v)
      PROVE  (Order /\ Heard /\ Writes)' /\ Monotone
  <2>1. v \in Nat
    BY VersionAssumption DEF Versions
  <2>2. ASSUME NEW c \in Clients
        PROVE  /\ nodes[c] <= latest'[c] /\ inbox'[c] <= latest'[c]
               /\ inbox'[c] > 0 => nodes[c] <= inbox'[c]
    <3>1. CASE c = p
      <4>1. Id(p) = c
        BY <1>a, <3>1 DEF Id
      <4>2. latest'[c] = v /\ inbox'[c] = v /\ v >= latest[c]
        BY <1>0, <1>6, <3>1, <4>1, <2>1 DEF Decode, TypeOK
      <4> QED BY <1>0, <2>1, <4>2 DEF Order
    <3>2. CASE c # p
      <4>1. Id(p) # c
        BY <1>a, <3>2 DEF Id
      <4>2. latest'[c] = latest[c] /\ inbox'[c] = inbox[c]
        BY <1>0, <1>6, <3>2, <4>1 DEF Decode, TypeOK
      <4> QED BY <4>2 DEF Order
    <3> QED BY <3>1, <3>2
  <2>3. Order'
    BY <1>6, <2>2 DEF Order, Decode, maps
  <2>4. Heard' /\ Writes'
    BY <1>6 DEF Decode, Heard, Writes, maps, sockets
  <2> QED BY <1>6, <2>3, <2>4, SameMonotone DEF Decode, sockets
<1>7. ASSUME NEW w \in out[p], Forward(p, w)
      PROVE  (Order /\ Heard /\ Writes)' /\ Monotone
  <2>1. /\ UNCHANGED <<nodes, session, latest, inbox>> /\ session[p] = "serving"
        /\ out' = [out EXCEPT ![p] = @ \ {w}] /\ w \in Write
    BY <1>0, <1>7 DEF Forward, maps
  <2>2. Order'
    BY <2>1 DEF Order
  <2>3. Writes'
    BY <2>1 DEF Writes, TypeOK
  <2>4. ASSUME NEW a \in AgentConns, NEW c \in Clients
        PROVE  \/ got'[a][c] = got[a][c]
               \/ /\ got'[a][c] = nodes[c] /\ session[c] = "serving"
                  /\ session[a] \in {"serving", "ended"}
    <3>1. CASE w.to = a /\ w.id = c /\ open[a]
      <4>1. p \in Clients /\ c = p /\ w.version = nodes[p] /\ session[a] \in {"serving", "ended"}
        BY <1>a, <1>7, <2>1, <3>1 DEF Writes
      <4>2. (CHOOSE x \in {w} : x.to = a /\ x.id = c) = w
        BY <3>1
      <4>3. got'[a][c] = (CHOOSE x \in {w} : x.to = a /\ x.id = c).version
        BY <1>0, <1>7, <3>1 DEF Forward, Deliver
      <4> QED BY <2>1, <4>1, <4>2, <4>3
    <3>2. CASE ~(w.to = a /\ w.id = c /\ open[a])
      <4>1. ~ \E x \in {w} : x.to = a /\ x.id = c /\ open[a]
        BY <3>2
      <4> QED BY <1>0, <1>7, <4>1 DEF Forward, Deliver
    <3> QED BY <3>1, <3>2
  <2>5. Heard'
    BY <1>0, <2>1, <2>4 DEF Heard
  <2>6. Monotone
    BY <1>0, <2>4 DEF Heard, Monotone
  <2> QED BY <2>2, <2>3, <2>5, <2>6
<1> QED BY <1>1, <1>2, <1>3, <1>4, <1>5, <1>6, <1>7 DEF SocketStep

LEMMA NextViews == ViewsInv /\ [Next]_vars => ViewsInv' /\ (Monotone \/ UNCHANGED vars)
<1> SUFFICES ASSUME ViewsInv, [Next]_vars PROVE ViewsInv' /\ (Monotone \/ UNCHANGED vars)
  OBVIOUS
<1>0. TracesInv'
  BY NextTraces DEF ViewsInv
<1>1. CASE \E cl \in Clients : ClientStep(cl)
  BY <1>0, <1>1, ClientViews DEF ViewsInv
<1>2. CASE \E a \in AgentConns : AgentStep(a)
  BY <1>0, <1>2, AgentViews DEF ViewsInv
<1>3. CASE \E p \in Peers : SocketStep(p)
  BY <1>0, <1>3, SocketViews DEF ViewsInv
<1>4. CASE Close
  <2>1. Monotone
    BY <1>4, SameMonotone DEF Close, sockets, ViewsInv, TracesInv
  <2> QED BY <1>0, <1>4, <2>1 DEF Close, ViewsInv, Order, Heard, Writes, maps, sockets
<1>5. CASE UNCHANGED vars
  BY <1>0, <1>5 DEF vars, maps, sockets, ViewsInv, Order, Heard, Writes
<1> QED BY <1>1, <1>2, <1>3, <1>4, <1>5 DEF Next

(* An agent's websocket is never told an older node of a client than it    *)
(* was told before: ServeAgent writes the nodes it collected before the    *)
(* socket is one that clients' sessions write to, and each of those writes *)
(* the client's node of the moment.                                        *)
THEOREM AgentViewMonotone == Spec => AgentNeverRegresses
<1>1. ViewsInv /\ [Next]_vars => [\A a \in AgentConns, cl \in Clients : got'[a][cl] >= got[a][cl]]_vars
  BY NextViews DEF Monotone
<1>2. ViewsInv /\ [Next]_vars => ViewsInv'
  BY NextViews
<1> QED BY <1>1, <1>2, InitViews, PTL DEF Spec, AgentNeverRegresses
-----------------------------------------------------------------------------
(* What clients have heard of the agent while it has opened one websocket. *)

Sole == \A a, b \in AgentConns : session[a] # "new" /\ session[b] # "new" => a = b
Alive == \A a \in AgentConns : session[a] # "ended"

\* A client has heard nothing before it was greeted, and until the agent's session
\* ends nothing newer than the map.
Told ==
    \A cl \in Clients : /\ session[cl] \in {"new", "greeting"} => got[cl][Agent] = 0
                        /\ Alive => got[cl][Agent] <= nodes[Agent]

\* The agent's node in the map is not newer than what the agent has sent, nor than
\* the message that will replace it, which only a session being served holds.
Announced ==
    /\ nodes[Agent] <= latest[Agent]
    /\ \A a \in AgentConns : /\ inbox[a] <= latest[Agent]
                             /\ inbox[a] > 0 => nodes[Agent] <= inbox[a] /\ session[a] = "serving"

\* The agent's session writes the node of the moment to clients that subscribed;
\* a greeting holds a node that is not newer.
ToClients ==
    \A p \in Peers : \A w \in out[p] :
        /\ p \in AgentConns /\ w.to \in Clients =>
               /\ w.id = Agent /\ w.version = nodes[Agent]
               /\ session[p] = "serving" /\ session[w.to] \in {"serving", "ended"}
        /\ p \in Clients /\ w.to \in Clients =>
               /\ w.to = p /\ session[p] = "greeting"
               /\ Alive => w.version <= nodes[Agent]

AloneInv == Told /\ Announced /\ ToClients

\* No step makes a client fall back to an older node of the agent.
ClientMonotone == \A cl \in Clients : got'[cl][Agent] >= got[cl][Agent]

LEMMA InitAlone == Init => AloneInv
<1> SUFFICES ASSUME Init PROVE AloneInv
  OBVIOUS
<1>1. Agent \in Ids /\ AgentConns \subseteq Peers /\ Clients \subseteq Peers
  BY DEF Ids, Peers
<1>2. Told /\ Announced
  BY <1>1 DEF Init, Told, Announced
<1>3. ToClients
  BY DEF Init, ToClients
<1> QED BY <1>2, <1>3 DEF AloneInv

\* Facts about sets and types that the lemmas below share.
LEMMA AloneTypes ==
  ASSUME TypeOK
  PROVE  /\ AgentConns \subseteq Peers /\ Clients \subseteq Peers /\ Agent \in Ids
         /\ AgentConns \intersect Clients = {} /\ Agent \notin Clients /\ Clients \subseteq Ids
         /\ nodes[Agent] \in Nat /\ latest[Agent] \in Nat
         /\ \A p \in Peers : inbox[p] \in Nat /\ got[p][Agent] \in Nat
         /\ \A q \in Peers : \A w \in out[q] : w \in Write /\ w.version \in Nat
<1>1. AgentConns \subseteq Peers /\ Clients \subseteq Peers /\ Agent \in Ids /\ Clients \subseteq Ids
  BY DEF Peers, Ids
<1>2. \A v \in Versions : v \in Nat
  BY VersionAssumption DEF Versions
<1>3. \A q \in Peers : \A w \in out[q] : w \in Write /\ w.version \in Nat
  BY VersionAssumption DEF TypeOK, Write
<1>4. AgentConns \intersect Clients = {} /\ Agent \notin Clients
  BY PeersAssumption
<1> QED BY <1>1, <1>2, <1>3, <1>4 DEF TypeOK

LEMMA SameClientMonotone ==
  ASSUME TypeOK, UNCHANGED got
  PROVE  ClientMonotone
  BY AloneTypes DEF ClientMonotone

LEMMA ClientAlone ==
  ASSUME ViewsInv, AloneInv, NEW cl \in Clients, ClientStep(cl)
  PROVE  AloneInv' /\ ClientMonotone
<1> USE DEF ViewsInv, TracesInv, AloneInv
<1>0. /\ AgentConns \subseteq Peers /\ Clients \subseteq Peers /\ Agent \in Ids
      /\ AgentConns \intersect Clients = {} /\ Agent \notin Clients /\ Clients \subseteq Ids
      /\ nodes[Agent] \in Nat /\ latest[Agent] \in Nat
      /\ \A p \in Peers : inbox[p] \in Nat /\ got[p][Agent] \in Nat
      /\ \A q \in Peers : \A w \in out[q] : w \in Write /\ w.version \in Nat
  BY AloneTypes
<1>a. cl \in Peers /\ cl \in Ids /\ cl \notin AgentConns /\ cl # Agent /\ None \notin AgentConns
  BY <1>0, PeersAssumption
<1>1. CASE ServeClient(cl)
  <2>1. /\ session[cl] = "new" /\ session'[cl] = "greeting"
        /\ \A q \in Peers \ {cl} : session'[q] = session[q] /\ out'[q] = out[q]
        /\ UNCHANGED <<nodes, latest, inbox, got>>
    BY <1>a, <1>1 DEF ServeClient, maps, Goto, TypeOK
  <2>2. \A w \in out'[cl] : w.to = cl /\ w.version = nodes[Agent]
    BY <1>a, <1>1 DEF ServeClient, NodesFor, TypeOK
  <2>3. Alive' <=> Alive
    BY <1>0, <1>a, <2>1 DEF Alive
  <2>4. Told' /\ Announced'
    BY <1>0, <1>a, <2>1, <2>3 DEF Told, Announced
  <2>5. ToClients'
    BY <1>0, <1>a, <2>1, <2>2, <2>3 DEF ToClients
  <2> QED BY <2>1, <2>4, <2>5, SameClientMonotone
<1>2. CASE RegisterClient(cl)
  <2>1. /\ session[cl] = "greeted" /\ session'[cl] = "serving"
        /\ \A q \in Peers \ {cl} : session'[q] = session[q]
        /\ UNCHANGED <<nodes, latest, inbox, got, out>>
    BY <1>a, <1>2 DEF RegisterClient, sockets, Goto, TypeOK
  <2>2. Alive' <=> Alive
    BY <1>0, <1>a, <2>1 DEF Alive
  <2>3. Told' /\ Announced'
    BY <1>0, <1>a, <2>1, <2>2 DEF Told, Announced
  <2>4. ToClients'
    BY <1>0, <1>a, <2>1, <2>2 DEF ToClients
  <2> QED BY <2>1, <2>3, <2>4, SameClientMonotone
<1>3. CASE HandleClient(cl)
  <2>1. /\ nodes'[Agent] = nodes[Agent] /\ UNCHANGED <<session, latest, got>>
        /\ \A q \in Peers \ {cl} : inbox'[q] = inbox[q] /\ out'[q] = out[q]
    BY <1>0, <1>a, <1>3 DEF HandleClient, sockets, TypeOK
  <2>2. \A w \in out'[cl] : w.to \in AgentConns
    BY <1>a, <1>3 DEF HandleClient, TypeOK
  <2>3. Told' /\ Announced'
    BY <1>0, <1>a, <2>1 DEF Told, Announced, Alive
  <2>4. ToClients'
    BY <1>0, <1>a, <2>1, <2>2 DEF ToClients, Alive
  <2> QED BY <2>1, <2>3, <2>4, SameClientMonotone
<1>4. ASSUME LeaveClient(cl), session[cl] = "serving"
      PROVE  AloneInv' /\ ClientMonotone
  <2>1. /\ nodes'[Agent] = nodes[Agent] /\ session'[cl] = "ended" /\ out'[cl] = {}
        /\ \A q \in Peers \ {cl} : session'[q] = session[q] /\ out'[q] = out[q]
        /\ UNCHANGED <<latest, inbox, got>>
    BY <1>0, <1>a, <1>4 DEF LeaveClient, sockets, Goto, TypeOK
  <2>2. Alive' <=> Alive
    BY <1>0, <1>a, <2>1 DEF Alive
  <2>3. Told' /\ Announced'
    BY <1>0, <1>a, <2>1, <2>2 DEF Told, Announced
  <2>4. ToClients'
    BY <1>0, <1>a, <2>1, <2>2 DEF ToClients
  <2> QED BY <2>1, <2>3, <2>4, SameClientMonotone
<1>5. CASE EndClient(cl)
  BY <1>4, <1>5 DEF EndClient
<1>6. CASE ForwardFails(cl)
  BY <1>4, <1>6 DEF ForwardFails
<1> QED BY <1>1, <1>2, <1>3, <1>5, <1>6 DEF ClientStep

LEMMA AgentAlone ==
  ASSUME ViewsInv, AloneInv, Sole, NEW a \in AgentConns, AgentStep(a)
  PROVE  AloneInv' /\ ClientMonotone
<1> USE DEF ViewsInv, TracesInv, AloneInv
<1>0. /\ AgentConns \subseteq Peers /\ Clients \subseteq Peers /\ Agent \in Ids
      /\ AgentConns \intersect Clients = {} /\ Agent \notin Clients /\ Clients \subseteq Ids
      /\ nodes[Agent] \in Nat /\ latest[Agent] \in Nat
      /\ \A p \in Peers : inbox[p] \in Nat /\ got[p][Agent] \in Nat
      /\ \A q \in Peers : \A w \in out[q] : w \in Write /\ w.version \in Nat
  BY AloneTypes
<1>a. a \in Peers /\ a \notin Clients
  BY <1>0
<1>1. CASE ServeAgent(a)
  <2>1. /\ session[a] = "new" /\ session'[a] = "greeting"
        /\ \A q \in Peers \ {a} : session'[q] = session[q] /\ out'[q] = out[q]
        /\ UNCHANGED <<nodes, latest, inbox, got>>
    BY <1>a, <1>1 DEF ServeAgent, maps, Goto, TypeOK
  <2>2. \A w \in out'[a] : w.to = a
    BY <1>a, <1>1 DEF ServeAgent, NodesFor, TypeOK
  <2>3. Alive' <=> Alive
    BY <1>0, <1>a, <2>1 DEF Alive
  <2>4. Told' /\ Announced'
    BY <1>0, <1>a, <2>1, <2>3 DEF Told, Announced
  <2>5. ToClients'
    BY <1>0, <1>a, <2>1, <2>2, <2>3 DEF ToClients
  <2> QED BY <2>1, <2>4, <2>5, SameClientMonotone
<1>2. ASSUME NEW opened, TakeSocket(a, opened), session[a] \in {"new", "greeted"},
             UNCHANGED <<closed, nodes, subscribed, got, latest, inbox, out, closing>>
      PROVE  AloneInv' /\ ClientMonotone
  <2>1. /\ session'[a] = "serving" /\ \A q \in Peers \ {a} : session'[q] = session[q]
        /\ UNCHANGED <<nodes, latest, inbox, got, out>>
    BY <1>a, <1>2 DEF TakeSocket, Goto, TypeOK
  <2>2. Alive' <=> Alive
    BY <1>0, <1>a, <1>2, <2>1 DEF Alive
  <2>3. Told' /\ Announced'
    BY <1>0, <1>a, <2>1, <2>2 DEF Told, Announced
  <2>4. ToClients'
    BY <1>0, <1>a, <1>2, <2>1, <2>2 DEF ToClients
  <2> QED BY <2>1, <2>3, <2>4, SameClientMonotone
<1>3. CASE ServeAgentAlone(a)
  BY <1>2, <1>3 DEF ServeAgentAlone
<1>4. CASE RegisterAgent(a)
  BY <1>2, <1>4 DEF RegisterAgent
<1>b. ASSUME session[a] = "serving", NEW b \in AgentConns, b # a
      PROVE  session[b] = "new"
  BY <1>b DEF Sole
<1>5. CASE HandleAgent(a)
  <2>1. /\ session[a] = "serving" /\ inbox[a] > 0 /\ nodes'[Agent] = inbox[a] /\ inbox'[a] = 0
        /\ \A q \in Peers \ {a} : inbox'[q] = inbox[q] /\ out'[q] = out[q]
        /\ UNCHANGED <<session, latest, got>>
    BY <1>0, <1>a, <1>5 DEF HandleAgent, sockets, TypeOK
  <2>2. nodes[Agent] <= nodes'[Agent] /\ nodes'[Agent] <= latest[Agent] /\ nodes'[Agent] \in Nat
    BY <1>0, <1>a, <2>1 DEF Announced
  <2>3. \A w \in out'[a] : /\ w.to \in Clients /\ w.id = Agent /\ w.version = nodes'[Agent]
                           /\ session[w.to] = "serving"
    BY <1>a, <1>5, <2>1 DEF HandleAgent, TypeOK, Entries
  <2>4. \A b \in AgentConns \ {a} : ~(inbox[b] > 0)
    BY <1>b, <2>1 DEF Announced
  <2>5. Told'
    BY <1>0, <2>1, <2>2 DEF Told, Alive
  <2>6. Announced'
    BY <1>0, <1>a, <2>1, <2>2, <2>4 DEF Announced
  <2>7. ToClients'
    <3> SUFFICES ASSUME NEW p \in Peers, NEW w \in out'[p]
                 PROVE  /\ p \in AgentConns /\ w.to \in Clients =>
                               /\ w.id = Agent /\ w.version = nodes'[Agent]
                               /\ session'[p] = "serving" /\ session'[w.to] \in {"serving", "ended"}
                        /\ p \in Clients /\ w.to \in Clients =>
                               /\ w.to = p /\ session'[p] = "greeting"
                               /\ Alive' => w.version <= nodes'[Agent]
      BY DEF ToClients
    <3>1. CASE p = a
      BY <1>a, <2>1, <2>3, <3>1
    <3>2. CASE p \in AgentConns \ {a}
      BY <1>0, <1>b, <2>1, <3>2 DEF ToClients
    <3>3. CASE p \in Clients
      <4>1. w \in out[p] /\ p # a
        BY <1>a, <2>1, <3>3
      <4> QED BY <1>0, <2>1, <2>2, <3>3, <4>1 DEF ToClients, Alive
    <3> QED BY <3>1, <3>2, <3>3 DEF Peers
  <2> QED BY <2>1, <2>5, <2>6, <2>7, SameClientMonotone
<1>6. CASE EndAgent(a)
  <2>1. /\ session[a] = "serving" /\ out[a] = {} /\ inbox[a] = 0 /\ nodes'[Agent] = 0
        /\ session'[a] = "ended" /\ \A q \in Peers \ {a} : session'[q] = session[q]
        /\ UNCHANGED <<latest, inbox, got, out>>
    BY <1>0, <1>a, <1>6 DEF EndAgent, sockets, Goto, TypeOK
  <2>2. ~Alive'
    BY <1>a, <2>1 DEF Alive
  <2>3. \A b \in AgentConns \ {a} : session'[b] = "new" /\ ~(inbox[b] > 0)
    BY <1>0, <1>b, <2>1 DEF Announced
  <2>4. Told' /\ Announced'
    BY <1>0, <1>a, <2>1, <2>2, <2>3 DEF Told, Announced
  <2>5. ToClients'
    BY <1>0, <1>a, <1>b, <2>1, <2>2 DEF ToClients
  <2> QED BY <2>1, <2>4, <2>5, SameClientMonotone
<1> QED BY <1>1, <1>3, <1>4, <1>5, <1>6 DEF AgentStep

LEMMA SocketAlone ==
  ASSUME ViewsInv, AloneInv, Sole, NEW p \in Peers, SocketStep(p)
  PROVE  AloneInv' /\ ClientMonotone
<1> USE DEF ViewsInv, TracesInv, AloneInv
<1>0. /\ AgentConns \subseteq Peers /\ Clients \subseteq Peers /\ Agent \in Ids
      /\ AgentConns \intersect Clients = {} /\ Agent \notin Clients /\ Clients \subseteq Ids
      /\ nodes[Agent] \in Nat /\ latest[Agent] \in Nat
      /\ \A q \in Peers : inbox[q] \in Nat /\ got[q][Agent] \in Nat
      /\ \A q \in Peers : \A w \in out[q] : w \in Write /\ w.version \in Nat
  BY AloneTypes
<1>1. ASSUME session[p] \in {"new", "greeting"}, session'[p] = "ended",
             out'[p] = {},
             \A q \in Peers \ {p} : session'[q] = session[q] /\ out'[q] = out[q],
             UNCHANGED <<nodes, latest, inbox, got>>
      PROVE  AloneInv' /\ ClientMonotone
  <2>1. Alive' => Alive
    BY <1>0, <1>1 DEF Alive
  <2>2. Told' /\ Announced'
    BY <1>0, <1>1, <2>1 DEF Told, Announced
  <2>3. ToClients'
    BY <1>0, <1>1, <2>1 DEF ToClients
  <2> QED BY <1>1, <2>2, <2>3, SameClientMonotone
<1>2. CASE ServeRefused(p)
  <2>1. /\ session[p] = "new" /\ session'[p] = "ended" /\ out' = out
        /\ \A q \in Peers \ {p} : session'[q] = session[q]
        /\ UNCHANGED <<nodes, latest, inbox, got>>
    BY <1>2 DEF ServeRefused, maps, sockets, Goto, TypeOK
  <2>2. out[p] = {}
    BY <2>1 DEF Writes
  <2> QED BY <1>1, <2>1, <2>2
<1>3. CASE GreetFails(p)
  <2>1. /\ session[p] = "greeting" /\ session'[p] = "ended" /\ out'[p] = {}
        /\ \A q \in Peers \ {p} : session'[q] = session[q] /\ out'[q] = out[q]
        /\ UNCHANGED <<nodes, latest, inbox, got>>
    BY <1>3 DEF GreetFails, maps, sockets, Goto, TypeOK
  <2> QED BY <1>1, <2>1
<1>4. CASE Greet(p)
  <2>1. /\ session[p] = "greeting" /\ session'[p] = "greeted" /\ out'[p] = {}
        /\ \A q \in Peers \ {p} : session'[q] = session[q] /\ out'[q] = out[q]
        /\ UNCHANGED <<nodes, latest, inbox>>
    BY <1>4 DEF Greet, maps, Goto, TypeOK
  <2>2. Alive' <=> Alive
    BY <1>0, <2>1 DEF Alive
  <2>3. ASSUME NEW c \in Clients, c # p
        PROVE  got'[c][Agent] = got[c][Agent]
    <3>1. ~ \E w \in out[p] : w.to = c /\ w.id = Agent /\ open[c]
      BY <1>0, <2>1, <2>3 DEF Writes
    <3> QED BY <1>0, <1>4, <3>1 DEF Greet, Deliver
  <2>4. ASSUME p \in Clients
        PROVE  /\ got[p][Agent] = 0 /\ got'[p][Agent] \in Nat
               /\ Alive => got'[p][Agent] <= nodes[Agent]
    <3>1. got[p][Agent] = 0 /\ nodes[Agent] \in Nat
      BY <1>0, <2>1, <2>4 DEF Told
    <3>2. CASE \E w \in out[p] : w.to = p /\ w.id = Agent /\ open[p]
      <4> DEFINE w0 == CHOOSE w \in out[p] : w.to = p /\ w.id = Agent
      <4>1. w0 \in out[p] /\ w0.to = p
        BY <3>2
      <4>2. got'[p][Agent] = w0.version
        BY <1>0, <1>4, <3>2 DEF Greet, Deliver
      <4> HIDE DEF w0
      <4>3. Alive => w0.version <= nodes[Agent]
        BY <1>0, <2>4, <4>1 DEF ToClients
      <4> QED BY <1>0, <3>1, <4>1, <4>2, <4>3
    <3>3. CASE ~ \E w \in out[p] : w.to = p /\ w.id = Agent /\ open[p]
      <4>1. got'[p][Agent] = got[p][Agent]
        BY <1>0, <1>4, <3>3 DEF Greet, Deliver
      <4> QED BY <3>1, <4>1
    <3> QED BY <3>2, <3>3
  <2>5. Told'
    <3> SUFFICES ASSUME NEW c \in Clients
                 PROVE  /\ session'[c] \in {"new", "greeting"} => got'[c][Agent] = 0
                        /\ Alive' => got'[c][Agent] <= nodes'[Agent]
      BY DEF Told
    <3>1. CASE c = p
      BY <2>1, <2>2, <2>4, <3>1
    <3>2. CASE c # p
      BY <1>0, <2>1, <2>2, <2>3, <3>2 DEF Told
    <3> QED BY <3>1, <3>2
  <2>6. Announced'
    BY <1>0, <2>1 DEF Announced
  <2>7. ToClients'
    BY <1>0, <2>1, <2>2 DEF ToClients
  <2>8. ClientMonotone
    <3> SUFFICES ASSUME NEW c \in Clients PROVE got'[c][Agent] >= got[c][Agent]
      BY DEF ClientMonotone
    <3>1. CASE c = p
      BY <2>4, <3>1
    <3>2. CASE c # p
      BY <1>0, <2>3, <3>2
    <3> QED BY <3>1, <3>2
  <2> QED BY <2>5, <2>6, <2>7, <2>8
<1>5. CASE PeerGone(p)
  BY <1>5, SameClientMonotone DEF PeerGone, Told, Announced, ToClients, Alive, maps
<1>6. CASE CloseSocket(p)
  BY <1>6, SameClientMonotone DEF CloseSocket, Told, Announced, ToClients, Alive, maps
<1>7. ASSUME NEW v \in Versions, Decode(p, v)
      PROVE  AloneInv' /\ ClientMonotone
  <2>0. v \in Nat
    BY VersionAssumption DEF Versions
  <2>1. /\ UNCHANGED <<nodes, session, got, out>> /\ session[p] = "serving" /\ inbox'[p] = v
        /\ \A q \in Peers \ {p} : inbox'[q] = inbox[q]
    BY <1>7 DEF Decode, maps, sockets, TypeOK
  <2>2. CASE p \in AgentConns
    <3>1. latest'[Agent] = v /\ v >= latest[Agent]
      BY <1>0, <1>7, <2>0, <2>2 DEF Decode, Id, TypeOK
    <3>2. Announced'
      BY <1>0, <2>0, <2>1, <3>1 DEF Announced
    <3> QED BY <2>1, <3>2, SameClientMonotone DEF Told, ToClients, Alive
  <2>3. CASE p \in Clients
    <3>1. latest'[Agent] = latest[Agent]
      BY <1>0, <1>7, <2>3 DEF Decode, Id, TypeOK
    <3>2. Announced'
      BY <1>0, <2>1, <2>3, <3>1 DEF Announced
    <3> QED BY <2>1, <3>2, SameClientMonotone DEF Told, ToClients, Alive
  <2> QED BY <2>2, <2>3 DEF Peers
<1>8. ASSUME NEW w \in out[p], Forward(p, w)
      PROVE  AloneInv' /\ ClientMonotone
  <2>1. /\ UNCHANGED <<nodes, session, latest, inbox>> /\ session[p] = "serving"
        /\ out'[p] = out[p] \ {w} /\ \A q \in Peers \ {p} : out'[q] = out[q]
    BY <1>8 DEF Forward, maps, TypeOK
  <2>2. ASSUME NEW c \in Clients
        PROVE  \/ got'[c][Agent] = got[c][Agent]
               \/ /\ got'[c][Agent] = nodes[Agent] /\ Alive
                  /\ session[c] \in {"serving", "ended"}
    <3>1. CASE w.to = c /\ w.id = Agent /\ open[c]
      <4>1. p \in AgentConns /\ w.version = nodes[Agent] /\ session[c] \in {"serving", "ended"}
        BY <1>0, <2>1, <3>1 DEF ToClients, Peers
      <4>2. Alive
        BY <2>1, <4>1 DEF Alive, Sole
      <4>3. (CHOOSE x \in {w} : x.to = c /\ x.id = Agent) = w
        BY <3>1
      <4>4. got'[c][Agent] = (CHOOSE x \in {w} : x.to = c /\ x.id = Agent).version
        BY <1>0, <1>8, <3>1 DEF Forward, Deliver
      <4> QED BY <4>1, <4>2, <4>3, <4>4
    <3>2. CASE ~(w.to = c /\ w.id = Agent /\ open[c])
      <4>1. ~ \E x \in {w} : x.to = c /\ x.id = Agent /\ open[c]
        BY <3>2
      <4> QED BY <1>0, <1>8, <4>1 DEF Forward, Deliver
    <3> QED BY <3>1, <3>2
  <2>3. Alive' <=> Alive
    BY <2>1 DEF Alive
  <2>4. Told'
    BY <1>0, <2>1, <2>2, <2>3 DEF Told
  <2>5. Announced'
    BY <2>1 DEF Announced
  <2>6. ToClients'
    BY <2>1, <2>3 DEF ToClients
  <2>7. ClientMonotone
    BY <1>0, <2>2 DEF Told, ClientMonotone
  <2> QED BY <2>4, <2>5, <2>6, <2>7
<1> QED BY <1>2, <1>3, <1>4, <1>5, <1>6, <1>7, <1>8 DEF SocketStep

\* A session never begins again, so the agent's only websocket was its only one.
LEMMA SoleBefore ==
  ASSUME TypeOK, [Next]_vars, Sole'
  PROVE  Sole
<1> SUFFICES ASSUME NEW q \in AgentConns, session[q] # "new" PROVE session'[q] # "new"
  BY DEF Sole
<1>0. q \in Peers
  BY DEF Peers
<1>1. ASSUME NEW cl \in Clients, ClientStep(cl) PROVE session'[q] # "new"
  BY <1>0, <1>1 DEF ClientStep, ServeClient, RegisterClient, HandleClient, EndClient, ForwardFails,
                    LeaveClient, Goto, TypeOK
<1>2. ASSUME NEW a \in AgentConns, AgentStep(a) PROVE session'[q] # "new"
  BY <1>0, <1>2 DEF AgentStep, ServeAgent, ServeAgentAlone, RegisterAgent, HandleAgent, EndAgent,
                    TakeSocket, Goto, TypeOK
<1>3. ASSUME NEW p \in Peers, SocketStep(p) PROVE session'[q] # "new"
  BY <1>0, <1>3 DEF SocketStep, ServeRefused, Greet, GreetFails, PeerGone, CloseSocket, Decode,
                    Forward, Goto, TypeOK
<1>4. CASE Close \/ UNCHANGED vars
  BY <1>4 DEF Close, vars
<1> QED BY <1>1, <1>2, <1>3, <1>4 DEF Next

LEMMA NextAlone ==
  ASSUME ViewsInv, AloneInv, Sole, [Next]_vars
  PROVE  AloneInv' /\ ClientMonotone
<1>0. TypeOK
  BY DEF ViewsInv, TracesInv
<1>1. CASE \E cl \in Clients : ClientStep(cl)
  BY <1>1, ClientAlone
<1>2. CASE \E a \in AgentConns : AgentStep(a)
  BY <1>2, AgentAlone
<1>3. CASE \E p \in Peers : SocketStep(p)
  BY <1>3, SocketAlone
<1>4. CASE Close
  <2>1. ClientMonotone
    BY <1>0, <1>4, SameClientMonotone DEF Close, sockets
  <2> QED BY <1>4, <2>1 DEF Close, AloneInv, Told, Announced, ToClients, Alive, maps, sockets
<1>5. CASE UNCHANGED vars
  <2>1. ClientMonotone
    BY <1>0, <1>5, SameClientMonotone DEF vars, sockets
  <2> QED BY <1>5, <2>1 DEF vars, maps, sockets, AloneInv, Told, Announced, ToClients, Alive
<1> QED BY <1>1, <1>2, <1>3, <1>4, <1>5 DEF Next

(* Until the agent opens a second websocket no client is told an older     *)
(* node of it than before: ServeClient's greeting is written before the    *)
(* client is one the agent's session writes to, and that session waits for *)
(* all of its writers before it decodes the next node.                     *)
THEOREM ClientViewMonotone == Spec => ClientNeverRegresses
<1> DEFINE IInv == ViewsInv /\ (Sole => AloneInv)
<1>1. Init => IInv
  BY InitViews, InitAlone
<1>2. IInv /\ [Next]_vars => IInv'
  BY NextViews, NextAlone, SoleBefore DEF ViewsInv, TracesInv
<1>3. IInv /\ [Next]_vars =>
        [(\A a, b \in AgentConns : session[a] # "new" /\ session[b] # "new" => a = b) =>
             \A cl \in Clients : got'[cl][Agent] >= got[cl][Agent]]_vars
  BY NextAlone DEF Sole, ClientMonotone
<1> HIDE DEF IInv
<1> QED BY <1>1, <1>2, <1>3, PTL DEF Spec, ClientNeverRegresses

-----------------------------------------------------------------------------
(* The coordinator that replicas share (HACoordinator), for any number of  *)
(* replicas, websockets and versions of the nodes.                         *)

\* What the proofs need to know of the constants: the name of no socket is the
\* sign for none, and the bound on the client's versions is one on versions.
Sizes ==
    /\ H!NoSocket \notin AgentSockets
    /\ MaxVersion \in Nat
    /\ MaxClientVersion \in Nat /\ MaxClientVersion <= MaxVersion

-----------------------------------------------------------------------------
(* Types.  The goroutine of a websocket has a replica from its first step  *)
(* to its last, and the node and the sockets of a write while it makes it. *)

ClientPlain == [at : {"greet", "greeted", "serving"}, on : Replicas, up : BOOLEAN, node : 0 .. MaxVersion]
ClientWriting ==
    [at : {"toAgent"}, on : Replicas, up : BOOLEAN, node : 1 .. MaxVersion, to : AgentSockets]
ClientStates == {H!Off, H!Gone} \union ClientPlain \union ClientWriting
AgentPlain == [at : {"hello", "greeted", "serving"}, on : Replicas, up : BOOLEAN]
AgentWriting ==
    [at : {"writing", "publish"}, on : Replicas, up : BOOLEAN, node : 1 .. MaxVersion,
     to : SUBSET ClientSockets]
AgentStates == {H!Off, H!Gone} \union AgentPlain \union AgentWriting

Typed ==
    /\ agentNode \in [Replicas -> 0 .. MaxVersion] /\ clientNode \in [Replicas -> 0 .. MaxVersion]
    /\ agentSockets \in [Replicas -> AgentSockets \union {H!NoSocket}]
    /\ subscribers \in [Replicas -> SUBSET ClientSockets]
    /\ agent \in [AgentSockets -> AgentStates] /\ client \in [ClientSockets -> ClientStates]
    /\ queue \in [Replicas -> SUBSET H!Messages]
    /\ handler \in [Replicas -> [node : 0 .. MaxVersion, to : SUBSET ClientSockets]]
    /\ agentSent \in 0 .. MaxVersion /\ agentGot \in 0 .. MaxVersion
    /\ clientSent \in 0 .. MaxClientVersion /\ clientGot \in 0 .. MaxVersion
    /\ owedAgent \in 0 .. MaxVersion /\ owedClient \in 0 .. MaxVersion

\* The step a goroutine is at tells what else there is in its state.
LEMMA ClientShape ==
  ASSUME NEW x \in ClientStates
  PROVE  /\ x \notin {H!Off, H!Gone} <=> x.at \notin {"off", "gone"}
         /\ x.at \in {"off", "greet", "greeted", "serving", "toAgent", "gone"}
         /\ x.at \in {"greet", "greeted", "serving"} => x \in ClientPlain
         /\ x.at = "toAgent" => x \in ClientWriting
         /\ x.at \notin {"off", "gone"} => x.on \in Replicas /\ x.up \in BOOLEAN
  BY DEF ClientStates, ClientPlain, ClientWriting, H!Off, H!Gone

LEMMA AgentShape ==
  ASSUME NEW x \in AgentStates
  PROVE  /\ x \notin {H!Off, H!Gone} <=> x.at \notin {"off", "gone"}
         /\ x.at \in {"off", "hello", "greeted", "serving", "writing", "publish", "gone"}
         /\ x.at \in {"hello", "greeted", "serving"} => x \in AgentPlain
         /\ x.at \in {"writing", "publish"} => x \in AgentWriting
         /\ x.at \notin {"off", "gone"} => x.on \in Replicas /\ x.up \in BOOLEAN
  BY DEF AgentStates, AgentPlain, AgentWriting, H!Off, H!Gone

LEMMA OpenSockets ==
  ASSUME Typed
  PROVE  /\ H!Open(agent) = {s \in AgentSockets : agent[s].at \notin {"off", "gone"}}
         /\ H!Open(client) = {s \in ClientSockets : client[s].at \notin {"off", "gone"}}
  BY AgentShape, ClientShape DEF Typed, H!Open

LEMMA TypedTypeOK == ASSUME Sizes, Typed PROVE H!TypeOK
<1>1. \A s \in AgentSockets : agent[s].at \in {"off", "hello", "greeted", "serving", "writing", "publish", "gone"}
  BY AgentShape DEF Typed
<1>2. \A s \in ClientSockets : client[s].at \in {"off", "greet", "greeted", "serving", "toAgent", "gone"}
  BY ClientShape DEF Typed
<1>3. {agentSent, agentGot, clientSent, clientGot, owedAgent, owedClient} \subseteq 0 .. MaxVersion
  BY DEF Typed, Sizes
<1> QED BY <1>1, <1>2, <1>3 DEF Typed, H!TypeOK

LEMMA InitTyped == ASSUME Sizes, H!Init PROVE Typed
<1>1. 0 \in 0 .. MaxVersion /\ 0 \in 0 .. MaxClientVersion
  BY DEF Sizes
<1>2. H!Off \in AgentStates /\ H!Off \in ClientStates
  BY DEF AgentStates, ClientStates
<1>3. H!Idle \in [node : 0 .. MaxVersion, to : SUBSET ClientSockets]
  BY <1>1 DEF H!Idle
<1> QED BY <1>1, <1>2, <1>3 DEF H!Init, Typed

\* What is published to the other replicas is a message.
LEMMA PublishType ==
  ASSUME Typed, NEW r \in Replicas, NEW m \in H!Messages, H!Publish(r, m)
  PROVE  queue' \in [Replicas -> SUBSET H!Messages]
  BY DEF Typed, H!Publish

LEMMA NewestType ==
  ASSUME NEW gt \in 0 .. MaxVersion, NEW node \in 0 .. MaxVersion, NEW socks, NEW s
  PROVE  H!Newest(gt, node, socks, s) \in 0 .. MaxVersion
  BY DEF H!Newest

LEMMA MessageType ==
  /\ [type |-> "clienthello"] \in H!Messages /\ [type |-> "agenthello"] \in H!Messages
  /\ \A n \in 1 .. MaxVersion : /\ [type |-> "callmemaybe", node |-> n] \in H!Messages
                                /\ [type |-> "agentupdate", node |-> n] \in H!Messages
  /\ \A m \in H!Messages : m.type \in {"callmemaybe", "agentupdate"} => m.node \in 1 .. MaxVersion
<1>1. \A m \in H!Messages : m.type \in {"callmemaybe", "agentupdate"} => m.node \in 1 .. MaxVersion
  BY DEF H!Messages
<1> QED BY <1>1 DEF H!Messages

LEMMA ClientTyped ==
  ASSUME Sizes, Typed, NEW s \in ClientSockets, H!ClientStep(s)
  PROVE  Typed'
<1>0. client[s] \in ClientStates /\ 0 .. MaxClientVersion \subseteq 0 .. MaxVersion
  BY DEF Typed, Sizes
<1>1. CASE H!ClientGreet(s)
  <2>1. client[s] \in ClientPlain
    BY <1>0, <1>1, ClientShape DEF H!ClientGreet
  <2>2. [client[s] EXCEPT !.at = "greeted"] \in ClientStates
    BY <2>1 DEF ClientPlain, ClientStates
  <2>3. client' \in [ClientSockets -> ClientStates]
    BY <1>1, <2>2 DEF H!ClientGreet, Typed
  <2>4. clientGot' \in 0 .. MaxVersion
    BY <1>1, <2>1, NewestType DEF H!ClientGreet, Typed, ClientPlain
  <2> QED BY <1>1, <2>3, <2>4 DEF H!ClientGreet, Typed, H!rvars
<1>2. CASE H!ClientRegister(s)
  <2>1. client[s] \in ClientPlain
    BY <1>0, <1>2, ClientShape DEF H!ClientRegister
  <2>2. [client[s] EXCEPT !.at = "serving"] \in ClientStates
    BY <2>1 DEF ClientPlain, ClientStates
  <2>3. client' \in [ClientSockets -> ClientStates]
    BY <1>2, <2>2 DEF H!ClientRegister, Typed
  <2>4. subscribers' \in [Replicas -> SUBSET ClientSockets]
    BY <1>2 DEF H!ClientRegister, Typed
  <2> QED BY <1>2, <2>3, <2>4 DEF H!ClientRegister, Typed, H!pvars
<1>3. CASE H!ClientUpdate(s)
  <2> DEFINE r == client[s].on
             v == clientSent + 1
  <2>1. r \in Replicas /\ v \in 1 .. MaxVersion /\ v \in 0 .. MaxClientVersion
    <3>1. r \in Replicas
      BY <1>0, <1>3, ClientShape DEF H!ClientUpdate
    <3>2. v \in 1 .. MaxVersion /\ v \in 0 .. MaxClientVersion
      BY <1>3 DEF H!ClientUpdate, Typed, Sizes
    <3> QED BY <3>1, <3>2
  <2>2. \/ /\ H!Publish(r, [type |-> "callmemaybe", node |-> v]) /\ UNCHANGED client
        \/ /\ agentSockets[r] # H!NoSocket /\ UNCHANGED queue
           /\ client' = [client EXCEPT ![s] = [at |-> "toAgent", on |-> r, up |-> TRUE,
                                               node |-> v, to |-> agentSockets[r]]]
    BY <1>3 DEF H!ClientUpdate
  <2>3. /\ clientSent' = v /\ clientNode' = [clientNode EXCEPT ![r] = v]
        /\ owedAgent' \in {v, owedAgent}
        /\ UNCHANGED <<agentNode, agentSockets, subscribers, agent, handler, agentSent, agentGot, clientGot, owedClient>>
    BY <1>3 DEF H!ClientUpdate
  <2> HIDE DEF r, v
  <2>4. queue' \in [Replicas -> SUBSET H!Messages]
    <3>1. [type |-> "callmemaybe", node |-> v] \in H!Messages
      BY <2>1, MessageType
    <3> QED BY <2>1, <2>2, <3>1, PublishType DEF Typed
  <2>5. client' \in [ClientSockets -> ClientStates]
    <3>1. ASSUME agentSockets[r] # H!NoSocket
          PROVE  [at |-> "toAgent", on |-> r, up |-> TRUE, node |-> v, to |-> agentSockets[r]] \in ClientStates
      BY <2>1, <3>1 DEF Typed, ClientStates, ClientWriting
    <3> QED BY <2>2, <3>1 DEF Typed
  <2>6. clientNode' \in [Replicas -> 0 .. MaxVersion] /\ owedAgent' \in 0 .. MaxVersion
    BY <2>1, <2>3 DEF Typed
  <2> QED BY <2>1, <2>3, <2>4, <2>5, <2>6 DEF Typed
<1>4. CASE H!ClientToAgent(s)
  <2>1. client[s] \in ClientWriting
    BY <1>0, <1>4, ClientShape DEF H!ClientToAgent
  <2>2. [at |-> "serving", on |-> client[s].on, up |-> client[s].up, node |-> 0] \in ClientStates
    BY <2>1 DEF ClientPlain, ClientWriting, ClientStates, Sizes
  <2>3. client' \in [ClientSockets -> ClientStates]
    BY <1>4, <2>2 DEF H!ClientToAgent, Typed
  <2>4. agentGot' \in 0 .. MaxVersion
    BY <1>4, <2>1, NewestType DEF H!ClientToAgent, Typed, ClientWriting
  <2> QED BY <1>4, <2>3, <2>4 DEF H!ClientToAgent, Typed, H!rvars
<1>5. CASE H!ClientLeave(s)
  <2>1. 0 \in 0 .. MaxVersion /\ H!Gone \in ClientStates
    BY DEF Sizes, ClientStates
  <2> QED BY <1>5, <2>1 DEF H!ClientLeave, Typed, H!pvars
<1> QED BY <1>1, <1>2, <1>3, <1>4, <1>5 DEF H!ClientStep

LEMMA AgentTyped ==
  ASSUME Sizes, Typed, NEW s \in AgentSockets, H!AgentStep(s)
  PROVE  Typed'
<1>0. agent[s] \in AgentStates
  BY DEF Typed
<1>1. CASE H!AgentGreet(s)
  <2>1. agent[s] \in AgentPlain
    BY <1>0, <1>1, AgentShape DEF H!AgentGreet
  <2>2. [agent[s] EXCEPT !.at = "greeted"] \in AgentStates
    BY <2>1 DEF AgentPlain, AgentStates
  <2>3. agent' \in [AgentSockets -> AgentStates]
    BY <1>1, <2>2 DEF H!AgentGreet, Typed
  <2>4. H!Waiting(agent[s].on) \in 0 .. MaxVersion
    BY <2>1 DEF H!Waiting, Typed, AgentPlain, Sizes
  <2>5. agentGot' \in 0 .. MaxVersion
    BY <1>1, <2>4, NewestType DEF H!AgentGreet, Typed
  <2> QED BY <1>1, <2>3, <2>5 DEF H!AgentGreet, Typed, H!rvars
<1>2. CASE H!AgentRegister(s)
  <2>1. agent[s] \in AgentPlain
    BY <1>0, <1>2, AgentShape DEF H!AgentRegister
  <2>2. [agent[s] EXCEPT !.at = "serving"] \in AgentStates
    BY <2>1 DEF AgentPlain, AgentStates
  <2>3. ASSUME NEW t \in H!Open(agent)
        PROVE  [agent[t] EXCEPT !.up = FALSE] \in AgentStates
    <3>1. agent[t] \in AgentPlain \union AgentWriting
      BY DEF H!Open, Typed, AgentStates
    <3>2. CASE agent[t] \in AgentPlain
      BY <3>2 DEF AgentPlain, AgentStates
    <3>3. CASE agent[t] \in AgentWriting
      BY <3>3 DEF AgentWriting, AgentStates
    <3> QED BY <3>1, <3>2, <3>3
  <2>4. agent' \in [AgentSockets -> AgentStates]
    BY <1>2, <2>2, <2>3 DEF H!AgentRegister, Typed
  <2>5. agentSockets' \in [Replicas -> AgentSockets \union {H!NoSocket}]
    BY <1>2 DEF H!AgentRegister, Typed
  <2> QED BY <1>2, <2>4, <2>5 DEF H!AgentRegister, Typed, H!pvars
<1>3. CASE H!AgentUpdate(s)
  <2> DEFINE r == agent[s].on
             v == agentSent + 1
  <2>1. r \in Replicas
    BY <1>0, <1>3, AgentShape DEF H!AgentUpdate
  <2>2. v \in 1 .. MaxVersion
    BY <1>3 DEF H!AgentUpdate, Typed, Sizes
  <2>3. H!Stored(r, v) \in 1 .. MaxVersion
    BY <2>1, <2>2 DEF H!Stored, Typed
  <2>4. [at |-> "writing", on |-> r, up |-> TRUE, node |-> H!Stored(r, v),
         to |-> IF H!Stored(r, v) = v THEN subscribers[r] ELSE {}] \in AgentStates
    <3>1. (IF H!Stored(r, v) = v THEN subscribers[r] ELSE {}) \in SUBSET ClientSockets
      BY <2>1 DEF Typed
    <3> HIDE DEF r, v
    <3> QED BY <2>1, <2>3, <3>1 DEF AgentWriting, AgentStates
  <2>5. /\ agentSent' = v /\ agentNode' = [agentNode EXCEPT ![r] = H!Stored(r, v)]
        /\ agent' = [agent EXCEPT ![s] = [at |-> "writing", on |-> r, up |-> TRUE, node |-> H!Stored(r, v),
                                          to |-> IF H!Stored(r, v) = v THEN subscribers[r] ELSE {}]]
        /\ owedClient' \in {v, owedClient}
        /\ UNCHANGED <<clientNode, agentSockets, subscribers, client, queue, handler, agentGot, clientSent, clientGot, owedAgent>>
    BY <1>3 DEF H!AgentUpdate
  <2> HIDE DEF r, v
  <2>6. agent' \in [AgentSockets -> AgentStates]
    BY <2>4, <2>5 DEF Typed
  <2>7. /\ agentSent' \in 0 .. MaxVersion /\ owedClient' \in 0 .. MaxVersion
        /\ agentNode' \in [Replicas -> 0 .. MaxVersion]
    <3>1. v \in 0 .. MaxVersion /\ H!Stored(r, v) \in 0 .. MaxVersion
      BY <2>2, <2>3
    <3> QED BY <2>5, <3>1 DEF Typed
  <2> QED BY <2>5, <2>6, <2>7 DEF Typed
<1>4. CASE H!AgentToClients(s)
  <2>1. agent[s] \in AgentWriting
    BY <1>0, <1>4, AgentShape DEF H!AgentToClients
  <2>2. [agent[s] EXCEPT !.at = "publish"] \in AgentStates
    BY <2>1 DEF AgentWriting, AgentStates
  <2>3. agent' \in [AgentSockets -> AgentStates]
    BY <1>4, <2>2 DEF H!AgentToClients, Typed
  <2>4. clientGot' \in 0 .. MaxVersion
    BY <1>4, <2>1 DEF H!AgentToClients, Typed, AgentWriting, H!NewestOf
  <2> QED BY <1>4, <2>3, <2>4 DEF H!AgentToClients, Typed, H!rvars
<1>5. CASE H!AgentPublish(s)
  <2>1. agent[s] \in AgentWriting
    BY <1>0, <1>5, AgentShape DEF H!AgentPublish
  <2>2. [at |-> "serving", on |-> agent[s].on, up |-> agent[s].up] \in AgentStates
    BY <2>1 DEF AgentPlain, AgentWriting, AgentStates
  <2>3. agent' \in [AgentSockets -> AgentStates]
    BY <1>5, <2>2 DEF H!AgentPublish, Typed
  <2>4. queue' \in [Replicas -> SUBSET H!Messages]
    BY <1>5, <2>1, MessageType, PublishType DEF H!AgentPublish, AgentWriting
  <2> QED BY <1>5, <2>3, <2>4 DEF H!AgentPublish, Typed, H!rvars, H!pvars
<1>6. CASE H!AgentLeave(s)
  <2>1. 0 \in 0 .. MaxVersion /\ H!Gone \in AgentStates
    BY DEF Sizes, AgentStates
  <2> QED BY <1>6, <2>1 DEF H!AgentLeave, Typed, H!pvars
<1> QED BY <1>1, <1>2, <1>3, <1>4, <1>5, <1>6 DEF H!AgentStep

LEMMA HandlerTyped ==
  ASSUME Sizes, Typed, NEW r \in Replicas, H!Handle(r)
  PROVE  Typed'
<1>1. ASSUME NEW m \in queue[r], H!CallMeMaybe(r, m)
      PROVE  Typed'
  <2>1. m \in H!Messages /\ m.node \in 0 .. MaxVersion
    BY <1>1, MessageType DEF H!CallMeMaybe, H!Ready, Typed
  <2>2. agentGot' \in 0 .. MaxVersion
    BY <1>1, <2>1, NewestType DEF H!CallMeMaybe, Typed
  <2>3. queue' \in [Replicas -> SUBSET H!Messages]
    BY <1>1 DEF H!CallMeMaybe, H!Take, Typed
  <2> QED BY <1>1, <2>2, <2>3 DEF H!CallMeMaybe, Typed, H!rvars
<1>2. ASSUME NEW m \in queue[r], H!ClientHello(r, m)
      PROVE  Typed'
  <2>1. H!Known(r) => [type |-> "agentupdate", node |-> agentNode[r]] \in H!Messages
    <3>1. H!Known(r) => agentNode[r] \in 1 .. MaxVersion
      BY DEF H!Known, Typed, Sizes
    <3> QED BY <3>1, MessageType
  <2>2. queue' \in [Replicas -> SUBSET H!Messages]
    BY <1>2, <2>1 DEF H!ClientHello, Typed
  <2> QED BY <1>2, <2>2 DEF H!ClientHello, Typed, H!rvars, H!pvars
<1>3. ASSUME NEW m \in queue[r], H!AgentHello(r, m)
      PROVE  Typed'
  <2>1. H!Waiting(r) # 0 => [type |-> "callmemaybe", node |-> H!Waiting(r)] \in H!Messages
    <3>1. H!Waiting(r) # 0 => H!Waiting(r) \in 1 .. MaxVersion
      BY DEF H!Waiting, Typed, Sizes
    <3> QED BY <3>1, MessageType
  <2>2. queue' \in [Replicas -> SUBSET H!Messages]
    BY <1>3, <2>1 DEF H!AgentHello, Typed
  <2> QED BY <1>3, <2>2 DEF H!AgentHello, Typed, H!rvars, H!pvars
<1>4. ASSUME NEW m \in queue[r], H!RemoteUpdate(r, m)
      PROVE  Typed'
  <2>1. m \in H!Messages /\ m.node \in 0 .. MaxVersion
    BY <1>4, MessageType DEF H!RemoteUpdate, H!Ready, Typed
  <2>2. agentNode' \in [Replicas -> 0 .. MaxVersion]
    BY <1>4, <2>1 DEF H!RemoteUpdate, H!Stored, Typed
  <2>3. queue' \in [Replicas -> SUBSET H!Messages]
    BY <1>4 DEF H!RemoteUpdate, H!Take, Typed
  <2>4. H!Idle \in [node : 0 .. MaxVersion, to : SUBSET ClientSockets]
    BY DEF H!Idle, Sizes
  <2>5. [node |-> m.node, to |-> subscribers[r]] \in [node : 0 .. MaxVersion, to : SUBSET ClientSockets]
    BY <2>1 DEF Typed
  <2>6. handler' \in [Replicas -> [node : 0 .. MaxVersion, to : SUBSET ClientSockets]]
    BY <1>4, <2>4, <2>5 DEF H!RemoteUpdate, Typed
  <2> QED BY <1>4, <2>2, <2>3, <2>6 DEF H!RemoteUpdate, Typed, H!pvars
<1>5. CASE H!RemoteToClients(r)
  <2>1. H!Idle \in [node : 0 .. MaxVersion, to : SUBSET ClientSockets]
    BY DEF H!Idle, Sizes
  <2>2. clientGot' \in 0 .. MaxVersion
    BY <1>5 DEF H!RemoteToClients, H!NewestOf, Typed
  <2> QED BY <1>5, <2>1, <2>2 DEF H!RemoteToClients, Typed, H!rvars
<1> QED BY <1>1, <1>2, <1>3, <1>4, <1>5 DEF H!Handle

\* A websocket is opened or breaks.
Connects ==
    \/ \E s \in ClientSockets : H!ClientBreaks(s) \/ \E r \in Replicas : H!ClientConnect(s, r)
    \/ \E s \in AgentSockets : H!AgentBreaks(s) \/ \E r \in Replicas : H!AgentConnect(s, r)

LEMMA ConnectTyped ==
  ASSUME Sizes, Typed, Connects
  PROVE  Typed'
<1>0. 0 \in 0 .. MaxVersion
  BY DEF Sizes
<1>1. ASSUME NEW s \in ClientSockets, H!ClientBreaks(s)
      PROVE  Typed'
  <2>1. client[s] \in ClientPlain \union ClientWriting
    BY <1>1 DEF H!ClientBreaks, H!Live, H!Open, Typed, ClientStates
  <2>2. [client[s] EXCEPT !.up = FALSE] \in ClientStates
    <3>1. CASE client[s] \in ClientPlain
      BY <3>1 DEF ClientPlain, ClientStates
    <3>2. CASE client[s] \in ClientWriting
      BY <3>2 DEF ClientWriting, ClientStates
    <3> QED BY <2>1, <3>1, <3>2
  <2>3. client' \in [ClientSockets -> ClientStates]
    BY <1>1, <2>2 DEF H!ClientBreaks, Typed
  <2> QED BY <1>0, <1>1, <2>3 DEF H!ClientBreaks, Typed, H!rvars, H!pvars
<1>2. ASSUME NEW s \in AgentSockets, H!AgentBreaks(s)
      PROVE  Typed'
  <2>1. agent[s] \in AgentPlain \union AgentWriting
    BY <1>2 DEF H!AgentBreaks, H!Live, H!Open, Typed, AgentStates
  <2>2. [agent[s] EXCEPT !.up = FALSE] \in AgentStates
    <3>1. CASE agent[s] \in AgentPlain
      BY <3>1 DEF AgentPlain, AgentStates
    <3>2. CASE agent[s] \in AgentWriting
      BY <3>2 DEF AgentWriting, AgentStates
    <3> QED BY <2>1, <3>1, <3>2
  <2>3. agent' \in [AgentSockets -> AgentStates]
    BY <1>2, <2>2 DEF H!AgentBreaks, Typed
  <2> QED BY <1>0, <1>2, <2>3 DEF H!AgentBreaks, Typed, H!rvars, H!pvars
<1>3. ASSUME NEW s \in ClientSockets, NEW r \in Replicas, H!ClientConnect(s, r)
      PROVE  Typed'
  <2>1. [at |-> IF agentNode[r] # 0 THEN "greet" ELSE "greeted",
         on |-> r, up |-> TRUE, node |-> agentNode[r]] \in ClientStates
    BY DEF Typed, ClientPlain, ClientStates
  <2>2. client' \in [ClientSockets -> ClientStates]
    BY <1>3, <2>1 DEF H!ClientConnect, Typed
  <2>3. queue' \in [Replicas -> SUBSET H!Messages]
    BY <1>3, MessageType, PublishType DEF H!ClientConnect, Typed
  <2> QED BY <1>0, <1>3, <2>2, <2>3 DEF H!ClientConnect, Typed, H!rvars, H!pvars
<1>4. ASSUME NEW s \in AgentSockets, NEW r \in Replicas, H!AgentConnect(s, r)
      PROVE  Typed'
  <2>1. [at |-> "hello", on |-> r, up |-> TRUE] \in AgentStates
    BY DEF AgentPlain, AgentStates
  <2>2. agent' \in [AgentSockets -> AgentStates]
    BY <1>4, <2>1 DEF H!AgentConnect, Typed
  <2>3. queue' \in [Replicas -> SUBSET H!Messages]
    BY <1>4, MessageType, PublishType DEF H!AgentConnect
  <2> QED BY <1>0, <1>4, <2>2, <2>3 DEF H!AgentConnect, Typed, H!rvars, H!pvars
<1> QED BY <1>1, <1>2, <1>3, <1>4 DEF Connects

LEMMA NextTyped ==
  ASSUME Sizes, Typed, [H!Next]_(H!vars)
  PROVE  Typed'
<1>1. CASE UNCHANGED H!vars
  BY <1>1 DEF H!vars, H!rvars, H!pvars, Typed
<1> QED BY <1>1, ClientTyped, AgentTyped, HandlerTyped, ConnectTyped DEF H!Next, Connects
-----------------------------------------------------------------------------
(* A replica's node of the agent.                                          *)

\* handleAgentUpdate's comparison.
LEMMA StoredAdvances ==
  ASSUME Typed, NEW r \in Replicas, NEW n \in 0 .. MaxVersion
  PROVE  /\ H!Stored(r, n) \in {agentNode[r], n}
         /\ H!Stored(r, n) >= agentNode[r] /\ H!Stored(r, n) >= n
  BY DEF Typed, H!Stored

LEMMA SameNodes ==
  ASSUME Typed, UNCHANGED agentNode
  PROVE  H!NodeAdvances
  BY DEF Typed, H!NodeAdvances

LEMMA NextAdvances ==
  ASSUME Sizes, Typed, [H!Next]_(H!vars)
  PROVE  H!NodeAdvances
<1>1. ASSUME NEW s \in ClientSockets, H!ClientStep(s)
      PROVE  H!NodeAdvances
  BY <1>1, SameNodes DEF H!ClientStep, H!ClientGreet, H!ClientRegister, H!ClientUpdate, H!ClientToAgent,
                         H!ClientLeave, H!rvars
<1>2. ASSUME NEW s \in AgentSockets, H!AgentStep(s)
      PROVE  H!NodeAdvances
  <2>0. agent[s] \in AgentStates
    BY DEF Typed
  <2>1. CASE H!AgentUpdate(s)
    <3>1. agent[s].on \in Replicas
      BY <2>0, <2>1, AgentShape DEF H!AgentUpdate
    <3>2. agentSent + 1 \in 0 .. MaxVersion
      BY <2>1 DEF H!AgentUpdate, Typed, Sizes
    <3>3. H!Stored(agent[s].on, agentSent + 1) >= agentNode[agent[s].on]
      BY <3>1, <3>2, StoredAdvances
    <3> QED BY <2>1, <3>1, <3>3 DEF H!AgentUpdate, H!NodeAdvances, Typed
  <2>2. CASE H!AgentLeave(s)
    BY <2>2 DEF H!AgentLeave, H!NodeAdvances, Typed
  <2>3. CASE H!AgentGreet(s) \/ H!AgentRegister(s) \/ H!AgentToClients(s) \/ H!AgentPublish(s)
    BY <2>3, SameNodes DEF H!AgentGreet, H!AgentRegister, H!AgentToClients, H!AgentPublish, H!rvars
  <2> QED BY <1>2, <2>1, <2>2, <2>3 DEF H!AgentStep
<1>3. ASSUME NEW r \in Replicas, H!Handle(r)
      PROVE  H!NodeAdvances
  <2>1. ASSUME NEW m \in queue[r], H!RemoteUpdate(r, m)
        PROVE  H!NodeAdvances
    <3>1. m.node \in 0 .. MaxVersion
      BY <2>1, MessageType DEF H!RemoteUpdate, H!Ready, Typed
    <3>2. H!Stored(r, m.node) >= agentNode[r]
      BY <3>1, StoredAdvances
    <3> QED BY <2>1, <3>2 DEF H!RemoteUpdate, H!NodeAdvances, Typed
  <2>2. ASSUME NEW m \in queue[r], H!CallMeMaybe(r, m) \/ H!ClientHello(r, m) \/ H!AgentHello(r, m)
        PROVE  H!NodeAdvances
    BY <2>2, SameNodes DEF H!CallMeMaybe, H!ClientHello, H!AgentHello, H!rvars
  <2>3. CASE H!RemoteToClients(r)
    BY <2>3, SameNodes DEF H!RemoteToClients, H!rvars
  <2> QED BY <1>3, <2>1, <2>2, <2>3 DEF H!Handle
<1>4. CASE Connects
  BY <1>4, SameNodes DEF Connects, H!ClientBreaks, H!ClientConnect, H!AgentBreaks, H!AgentConnect, H!rvars
<1>5. CASE UNCHANGED H!vars
  BY <1>5, SameNodes DEF H!vars, H!rvars
<1> QED BY <1>1, <1>2, <1>3, <1>4, <1>5 DEF H!Next, Connects

-----------------------------------------------------------------------------
(* Who is registered, and which nodes there are.                           *)

\* A socket in a replica's maps is served there, past its registration.
Registered ==
    /\ \A r \in Replicas : agentSockets[r] # H!NoSocket =>
          /\ agent[agentSockets[r]].at \in {"serving", "writing", "publish"}
          /\ agent[agentSockets[r]].on = r
    /\ \A r \in Replicas : \A s \in subscribers[r] :
          client[s].at \in {"serving", "toAgent"} /\ client[s].on = r

\* No replica, message or write has a node the agent has not sent yet.
Sent ==
    /\ owedClient <= agentSent
    /\ \A r \in Replicas : /\ agentNode[r] <= agentSent
                           /\ \A m \in queue[r] : m.type = "agentupdate" => m.node <= agentSent
    /\ \A s \in AgentSockets : agent[s].at \in {"writing", "publish"} => agent[s].node <= agentSent

BaseInv == Typed /\ Registered /\ Sent

LEMMA InitBase == ASSUME Sizes, H!Init PROVE BaseInv
<1>1. Typed
  BY InitTyped
<1>2. Registered
  BY DEF H!Init, Registered
<1>3. Sent
  BY DEF H!Init, Sent, H!Off
<1> QED BY <1>1, <1>2, <1>3 DEF BaseInv

\* The step of one goroutine: the others stay where they are.
ClientMoves(s, step) ==
    /\ client'[s].at = step /\ client'[s].on = client[s].on /\ client'[s].up = client[s].up
    /\ \A t \in ClientSockets \ {s} : client'[t] = client[t]
AgentMoves(s, step) ==
    /\ agent'[s].at = step /\ agent'[s].on = agent[s].on /\ agent'[s].up = agent[s].up
    /\ \A t \in AgentSockets \ {s} : agent'[t] = agent[t]

\* Facts about types that the lemmas below share.
LEMMA BaseTypes ==
  ASSUME Sizes, Typed
  PROVE  /\ \A r \in Replicas : /\ agentNode[r] \in Nat /\ clientNode[r] \in Nat
                                /\ handler[r].node \in Nat
                                /\ agentSockets[r] # H!NoSocket => agentSockets[r] \in AgentSockets
                                /\ subscribers[r] \subseteq ClientSockets
                                /\ \A m \in queue[r] : /\ m \in H!Messages
                                                       /\ m.type \in {"callmemaybe", "agentupdate"} => m.node \in Nat
         /\ \A s \in AgentSockets : /\ agent[s] \in AgentStates
                                    /\ agent[s].at \in {"writing", "publish"} => agent[s].node \in Nat
         /\ \A s \in ClientSockets : /\ client[s] \in ClientStates
                                     /\ client[s].at = "toAgent" => client[s].node \in Nat
         /\ agentSent \in Nat /\ agentGot \in Nat /\ clientSent \in Nat /\ clientGot \in Nat
         /\ owedAgent \in Nat /\ owedClient \in Nat
<1>1. \A n \in 0 .. MaxVersion : n \in Nat
  BY DEF Sizes
<1>2. \A n \in 1 .. MaxVersion : n \in Nat
  BY DEF Sizes
<1>3. \A n \in 0 .. MaxClientVersion : n \in Nat
  BY DEF Sizes
<1>4. \A r \in Replicas : \A m \in queue[r] :
         m \in H!Messages /\ (m.type \in {"callmemaybe", "agentupdate"} => m.node \in Nat)
  BY <1>2, MessageType DEF Typed
<1>5. \A s \in AgentSockets : /\ agent[s] \in AgentStates
                              /\ agent[s].at \in {"writing", "publish"} => agent[s].node \in Nat
  BY <1>2, AgentShape DEF Typed, AgentWriting
<1>6. \A s \in ClientSockets : /\ client[s] \in ClientStates
                               /\ client[s].at = "toAgent" => client[s].node \in Nat
  BY <1>2, ClientShape DEF Typed, ClientWriting
<1> QED BY <1>1, <1>3, <1>4, <1>5, <1>6 DEF Typed

LEMMA ClientBase ==
  ASSUME Sizes, BaseInv, NEW s \in ClientSockets, H!ClientStep(s)
  PROVE  (Registered /\ Sent)'
<1> USE DEF BaseInv
<1>0. client[s] \in ClientStates
  BY DEF Typed
<1>1. ASSUME NEW step, ClientMoves(s, step), step \in {"serving", "toAgent"},
             client[s].at \in {"greeted", "serving", "toAgent"},
             \A r \in Replicas : subscribers'[r] \subseteq subscribers[r] \union {s},
             \A r \in Replicas \ {client[s].on} : subscribers'[r] = subscribers[r],
             UNCHANGED <<agentSockets, agent>>
      PROVE  Registered'
  <2>1. ASSUME NEW r \in Replicas, NEW t \in subscribers'[r]
        PROVE  client'[t].at \in {"serving", "toAgent"} /\ client'[t].on = r
    <3>1. CASE t = s
      <4>1. client[s].on = r
        BY <1>1, <2>1, <3>1 DEF Registered
      <4> QED BY <1>1, <3>1, <4>1 DEF ClientMoves
    <3>2. CASE t # s
      <4>1. t \in subscribers[r] /\ t \in ClientSockets
        BY <1>1, <2>1, <3>2 DEF Typed
      <4> QED BY <1>1, <3>2, <4>1 DEF ClientMoves, Registered
    <3> QED BY <3>1, <3>2
  <2> QED BY <1>1, <2>1 DEF Registered
<1>2. CASE H!ClientGreet(s)
  <2>1. client[s] \in ClientPlain
    BY <1>0, <1>2, ClientShape DEF H!ClientGreet
  <2>2. ClientMoves(s, "greeted")
    BY <1>2, <2>1 DEF H!ClientGreet, ClientMoves, ClientPlain, Typed
  <2>3. Registered'
    BY <1>2, <2>2 DEF H!ClientGreet, ClientMoves, Registered, Typed, H!rvars
  <2> QED BY <1>2, <2>3 DEF H!ClientGreet, Sent, H!rvars
<1>3. CASE H!ClientRegister(s)
  <2>1. client[s] \in ClientPlain
    BY <1>0, <1>3, ClientShape DEF H!ClientRegister
  <2>2. ClientMoves(s, "serving")
    BY <1>3, <2>1 DEF H!ClientRegister, ClientMoves, ClientPlain, Typed
  <2>3. /\ \A r \in Replicas : subscribers'[r] \subseteq subscribers[r] \union {s}
        /\ \A r \in Replicas \ {client[s].on} : subscribers'[r] = subscribers[r]
    BY <1>3 DEF H!ClientRegister, Typed
  <2>4. Registered'
    BY <1>1, <1>3, <2>2, <2>3 DEF H!ClientRegister
  <2> QED BY <1>3, <2>4 DEF H!ClientRegister, Sent, H!pvars
<1>4. CASE H!ClientUpdate(s)
  <2>1. client[s] \in ClientPlain
    BY <1>0, <1>4, ClientShape DEF H!ClientUpdate
  <2>2. \/ UNCHANGED client
        \/ ClientMoves(s, "toAgent")
    <3>1. CASE agentSockets[client[s].on] = H!NoSocket
      BY <1>4, <3>1 DEF H!ClientUpdate
    <3>2. CASE agentSockets[client[s].on] # H!NoSocket
      <4>1. client' = [client EXCEPT ![s] = [at |-> "toAgent", on |-> client[s].on, up |-> TRUE,
                                             node |-> clientSent + 1, to |-> agentSockets[client[s].on]]]
        BY <1>4, <3>2 DEF H!ClientUpdate
      <4>2. client[s].up = TRUE
        BY <1>4, <2>1 DEF H!ClientUpdate, ClientPlain
      <4> QED BY <4>1, <4>2 DEF ClientMoves, Typed
    <3> QED BY <3>1, <3>2
  <2>3. UNCHANGED <<agentNode, agentSockets, subscribers, agent, agentSent, owedClient>>
    BY <1>4 DEF H!ClientUpdate
  <2>4. Registered'
    <3>1. CASE UNCHANGED client
      BY <2>3, <3>1 DEF Registered
    <3>2. CASE ClientMoves(s, "toAgent")
      BY <1>1, <1>4, <2>3, <3>2 DEF H!ClientUpdate
    <3> QED BY <2>2, <3>1, <3>2
  <2>5. \A r \in Replicas : \A m \in queue'[r] : m \in queue[r] \/ m.type = "callmemaybe"
    BY <1>4 DEF H!ClientUpdate, H!Publish
  <2>6. Sent'
    BY <2>3, <2>5 DEF Sent
  <2> QED BY <2>4, <2>6
<1>5. CASE H!ClientToAgent(s)
  <2>1. client[s] \in ClientWriting
    BY <1>0, <1>5, ClientShape DEF H!ClientToAgent
  <2>2. ClientMoves(s, "serving")
    BY <1>5, <2>1 DEF H!ClientToAgent, ClientMoves, ClientWriting, Typed
  <2>3. Registered'
    BY <1>1, <1>5, <2>2 DEF H!ClientToAgent, H!rvars
  <2> QED BY <1>5, <2>3 DEF H!ClientToAgent, Sent, H!rvars
<1>6. CASE H!ClientLeave(s)
  <2>1. \A r \in Replicas : s \notin subscribers'[r] /\ subscribers'[r] \subseteq subscribers[r]
    BY <1>6 DEF H!ClientLeave, Registered, Typed
  <2>2. \A t \in ClientSockets \ {s} : client'[t] = client[t]
    BY <1>6 DEF H!ClientLeave, Typed
  <2>3. Registered'
    BY <1>6, <2>1, <2>2 DEF H!ClientLeave, Registered, Typed
  <2> QED BY <1>6, <2>3 DEF H!ClientLeave, Sent, H!pvars
<1> QED BY <1>2, <1>3, <1>4, <1>5, <1>6 DEF H!ClientStep

LEMMA AgentBase ==
  ASSUME Sizes, BaseInv, NEW s \in AgentSockets, H!AgentStep(s)
  PROVE  (Registered /\ Sent)'
<1> USE DEF BaseInv
<1>0. agent[s] \in AgentStates /\ s # H!NoSocket
  BY DEF Typed, Sizes
<1>a. /\ \A r \in Replicas : /\ agentNode[r] \in Nat
                             /\ \A m \in queue[r] : m.type \in {"callmemaybe", "agentupdate"} => m.node \in Nat
      /\ \A t \in AgentSockets : agent[t].at \in {"writing", "publish"} => agent[t].node \in Nat
      /\ agentSent \in Nat /\ owedClient \in Nat
  BY BaseTypes
<1>1. ASSUME NEW step, AgentMoves(s, step), step \in {"serving", "writing", "publish"},
             agent[s].at \in {"serving", "writing", "publish"},
             UNCHANGED <<agentSockets, subscribers, client>>
      PROVE  Registered'
  <2>1. ASSUME NEW r \in Replicas, agentSockets[r] # H!NoSocket
        PROVE  /\ agent'[agentSockets[r]].at \in {"serving", "writing", "publish"}
               /\ agent'[agentSockets[r]].on = r
    BY <1>1, <2>1 DEF Registered, AgentMoves, Typed
  <2> QED BY <1>1, <2>1 DEF Registered
<1>2. CASE H!AgentGreet(s)
  <2>1. agent[s] \in AgentPlain
    BY <1>0, <1>2, AgentShape DEF H!AgentGreet
  <2>2. AgentMoves(s, "greeted")
    BY <1>2, <2>1 DEF H!AgentGreet, AgentMoves, AgentPlain, Typed
  <2>3. Registered'
    BY <1>2, <2>2 DEF H!AgentGreet, AgentMoves, Registered, Typed, H!rvars
  <2>4. Sent'
    BY <1>2, <2>2 DEF H!AgentGreet, AgentMoves, Sent, Typed, H!rvars
  <2> QED BY <2>3, <2>4
<1>3. CASE H!AgentRegister(s)
  <2>1. agent[s] \in AgentPlain
    BY <1>0, <1>3, AgentShape DEF H!AgentRegister
  <2>2. agent'[s].at = "serving" /\ agent'[s].on = agent[s].on
    BY <1>3, <2>1 DEF H!AgentRegister, AgentPlain, Typed
  <2>3. ASSUME NEW t \in AgentSockets, t # s
        PROVE  /\ agent'[t].at = agent[t].at /\ agent'[t].on = agent[t].on
               /\ agent'[t].at \in {"writing", "publish"} => agent'[t].node = agent[t].node
    <3>1. agent[t] \in AgentStates
      BY DEF Typed
    <3>2. \/ agent'[t] = agent[t]
          \/ agent'[t] = [agent[t] EXCEPT !.up = FALSE] /\ t \in H!Open(agent)
      <4>1. agent'[t] = IF t = s THEN [agent[s] EXCEPT !.at = "serving"]
                        ELSE IF t = agentSockets[agent[s].on] /\ t \in H!Open(agent)
                        THEN [agent[t] EXCEPT !.up = FALSE] ELSE agent[t]
        BY <1>3 DEF H!AgentRegister
      <4> QED BY <2>3, <4>1 DEF H!Open
    <3>3. CASE agent'[t] = [agent[t] EXCEPT !.up = FALSE] /\ t \in H!Open(agent)
      <4>1. agent[t] \in AgentPlain \/ agent[t] \in AgentWriting
        BY <3>1, <3>3 DEF H!Open, AgentStates
      <4>2. CASE agent[t] \in AgentPlain
        BY <3>3, <4>2 DEF AgentPlain
      <4>3. CASE agent[t] \in AgentWriting
        BY <3>3, <4>3 DEF AgentWriting
      <4> QED BY <4>1, <4>2, <4>3
    <3> QED BY <3>2, <3>3
  <2>4. /\ agentSockets' = [agentSockets EXCEPT ![agent[s].on] = s]
        /\ UNCHANGED <<agentNode, subscribers, client, queue, agentSent, owedClient>>
    BY <1>3 DEF H!AgentRegister, H!pvars
  <2>5. Registered'
    <3>1. ASSUME NEW r \in Replicas, agentSockets'[r] # H!NoSocket
          PROVE  /\ agent'[agentSockets'[r]].at \in {"serving", "writing", "publish"}
                 /\ agent'[agentSockets'[r]].on = r
      <4>1. CASE agentSockets'[r] = s
        <5>1. agent[s].on = r
          <6>1. CASE agentSockets[r] = s
            BY <1>0, <6>1 DEF Registered
          <6>2. CASE agentSockets[r] # s
            BY <2>4, <4>1, <6>2 DEF Typed
          <6> QED BY <6>1, <6>2
        <5> QED BY <2>2, <4>1, <5>1
      <4>2. CASE agentSockets'[r] # s
        <5>1. agentSockets'[r] = agentSockets[r]
          BY <2>4, <4>2 DEF Typed
        <5>2. agentSockets[r] \in AgentSockets
          BY <3>1, <5>1 DEF Typed
        <5> QED BY <2>3, <3>1, <4>2, <5>1, <5>2 DEF Registered
      <4> QED BY <4>1, <4>2
    <3> QED BY <2>4, <3>1 DEF Registered
  <2>6. Sent'
    BY <2>2, <2>3, <2>4 DEF Sent
  <2> QED BY <2>5, <2>6
<1>4. CASE H!AgentUpdate(s)
  <2> DEFINE r == agent[s].on
             v == agentSent + 1
  <2>1. r \in Replicas
    BY <1>0, <1>4, AgentShape DEF H!AgentUpdate
  <2>2. v \in 0 .. MaxVersion /\ v \in Nat /\ v > agentSent
    BY <1>4 DEF H!AgentUpdate, Typed, Sizes
  <2>3. H!Stored(r, v) = v
    BY <1>a, <2>1, <2>2 DEF H!Stored, Sent
  <2>4. /\ agentSent' = v /\ agentNode' = [agentNode EXCEPT ![r] = v] /\ agent'[s].node = v
        /\ owedClient' \in {v, owedClient}
        /\ UNCHANGED <<agentSockets, subscribers, client, queue>>
    BY <1>4, <2>3 DEF H!AgentUpdate, Typed
  <2>5. AgentMoves(s, "writing")
    BY <1>4 DEF H!AgentUpdate, AgentMoves, Typed
  <2>6. Registered'
    BY <1>1, <1>4, <2>4, <2>5 DEF H!AgentUpdate
  <2> HIDE DEF r, v
  <2>7. Sent'
    <3>1. owedClient' <= agentSent'
      BY <1>a, <2>2, <2>4 DEF Sent
    <3>2. ASSUME NEW q \in Replicas
          PROVE  /\ agentNode'[q] <= agentSent'
                 /\ \A m \in queue'[q] : m.type = "agentupdate" => m.node <= agentSent'
      BY <1>a, <2>2, <2>4 DEF Sent, Typed
    <3>3. ASSUME NEW t \in AgentSockets, agent'[t].at \in {"writing", "publish"}
          PROVE  agent'[t].node <= agentSent'
      <4>1. CASE t = s
        BY <2>2, <2>4, <4>1
      <4>2. CASE t # s
        BY <1>a, <2>2, <2>4, <2>5, <3>3, <4>2 DEF Sent, AgentMoves
      <4> QED BY <4>1, <4>2
    <3> QED BY <3>1, <3>2, <3>3 DEF Sent
  <2> QED BY <2>6, <2>7
<1>5. CASE H!AgentToClients(s)
  <2>1. agent[s] \in AgentWriting
    BY <1>0, <1>5, AgentShape DEF H!AgentToClients
  <2>2. AgentMoves(s, "publish") /\ agent'[s].node = agent[s].node
    BY <1>5, <2>1 DEF H!AgentToClients, AgentMoves, AgentWriting, Typed
  <2>3. Registered'
    BY <1>1, <1>5, <2>2 DEF H!AgentToClients, H!rvars
  <2>4. Sent'
    BY <1>5, <2>2 DEF H!AgentToClients, AgentMoves, Sent, H!rvars
  <2> QED BY <2>3, <2>4
<1>6. CASE H!AgentPublish(s)
  <2>1. agent[s] \in AgentWriting
    BY <1>0, <1>6, AgentShape DEF H!AgentPublish
  <2>2. AgentMoves(s, "serving")
    BY <1>6, <2>1 DEF H!AgentPublish, AgentMoves, AgentWriting, Typed
  <2>3. Registered'
    BY <1>1, <1>6, <2>2 DEF H!AgentPublish, H!rvars
  <2>4. \A r \in Replicas : \A m \in queue'[r] :
           m \in queue[r] \/ m = [type |-> "agentupdate", node |-> agent[s].node]
    BY <1>6 DEF H!AgentPublish, H!Publish
  <2>5. Sent'
    BY <1>6, <2>2, <2>4 DEF H!AgentPublish, AgentMoves, Sent, H!rvars, H!pvars
  <2> QED BY <2>3, <2>5
<1>7. CASE H!AgentLeave(s)
  <2>1. /\ \A r \in Replicas : agentSockets'[r] \in {agentSockets[r], H!NoSocket}
        /\ agentSockets'[agent[s].on] = H!NoSocket \/ agent[s].on \notin Replicas
        /\ agent'[s].at = "gone" /\ \A t \in AgentSockets \ {s} : agent'[t] = agent[t]
        /\ UNCHANGED <<subscribers, client, queue, agentSent, owedClient>>
        /\ \A r \in Replicas : agentNode'[r] \in {agentNode[r], 0}
    BY <1>7 DEF H!AgentLeave, Typed, H!Gone, H!pvars
  <2>2. Registered'
    <3>1. ASSUME NEW r \in Replicas, agentSockets'[r] # H!NoSocket
          PROVE  /\ agent'[agentSockets'[r]].at \in {"serving", "writing", "publish"}
                 /\ agent'[agentSockets'[r]].on = r
      <4>1. agentSockets'[r] = agentSockets[r] /\ agentSockets[r] \in AgentSockets
        BY <2>1, <3>1 DEF Typed
      <4>2. agentSockets[r] # s
        BY <1>0, <2>1, <3>1, <4>1 DEF Registered
      <4> QED BY <2>1, <3>1, <4>1, <4>2 DEF Registered
    <3> QED BY <2>1, <3>1 DEF Registered
  <2>3. Sent'
    BY <1>a, <2>1 DEF Sent
  <2> QED BY <2>2, <2>3
<1> QED BY <1>2, <1>3, <1>4, <1>5, <1>6, <1>7 DEF H!AgentStep

LEMMA HandlerBase ==
  ASSUME Sizes, BaseInv, NEW r \in Replicas, H!Handle(r)
  PROVE  (Registered /\ Sent)'
<1> USE DEF BaseInv
<1>1. ASSUME NEW m \in queue[r], H!CallMeMaybe(r, m) \/ H!AgentHello(r, m) \/ H!ClientHello(r, m)
      PROVE  (Registered /\ Sent)'
  <2>1. UNCHANGED <<agentNode, agentSockets, subscribers, agent, client, agentSent, owedClient>>
    BY <1>1 DEF H!CallMeMaybe, H!AgentHello, H!ClientHello, H!rvars, H!pvars
  <2>2. ASSUME NEW q \in Replicas, NEW x \in queue'[q], x.type = "agentupdate"
        PROVE  x \in queue[q] \/ x.node = agentNode[r]
    BY <1>1, <2>2 DEF H!CallMeMaybe, H!AgentHello, H!ClientHello, H!Take, Typed
  <2>3. Sent'
    BY <2>1, <2>2 DEF Sent
  <2> QED BY <2>1, <2>3 DEF Registered
<1>2. ASSUME NEW m \in queue[r], H!RemoteUpdate(r, m)
      PROVE  (Registered /\ Sent)'
  <2>1. UNCHANGED <<agentSockets, subscribers, agent, client, agentSent, owedClient>>
    BY <1>2 DEF H!RemoteUpdate, H!pvars
  <2>2. \A q \in Replicas : queue'[q] \subseteq queue[q]
    BY <1>2 DEF H!RemoteUpdate, H!Take, Typed
  <2>3. m.node <= agentSent
    BY <1>2 DEF H!RemoteUpdate, H!Ready, Sent
  <2>4. \A q \in Replicas : agentNode'[q] \in {agentNode[q], m.node}
    BY <1>2 DEF H!RemoteUpdate, H!Stored, Typed
  <2>5. Sent'
    BY <2>1, <2>2, <2>3, <2>4 DEF Sent
  <2> QED BY <2>1, <2>5 DEF Registered
<1>3. CASE H!RemoteToClients(r)
  BY <1>3 DEF H!RemoteToClients, Registered, Sent, H!rvars
<1> QED BY <1>1, <1>2, <1>3 DEF H!Handle

LEMMA ConnectBase ==
  ASSUME Sizes, BaseInv, Connects
  PROVE  (Registered /\ Sent)'
<1> USE DEF BaseInv
<1>0. agentSent \in Nat
  BY BaseTypes
<1>1. ASSUME NEW s \in ClientSockets, H!ClientBreaks(s)
      PROVE  (Registered /\ Sent)'
  <2>1. client[s] \in ClientPlain \/ client[s] \in ClientWriting
    BY <1>1 DEF H!ClientBreaks, H!Live, H!Open, Typed, ClientStates
  <2>2. client'[s].at = client[s].at /\ client'[s].on = client[s].on
    <3>1. client'[s] = [client[s] EXCEPT !.up = FALSE]
      BY <1>1 DEF H!ClientBreaks, Typed
    <3>2. CASE client[s] \in ClientPlain
      BY <3>1, <3>2 DEF ClientPlain
    <3>3. CASE client[s] \in ClientWriting
      BY <3>1, <3>3 DEF ClientWriting
    <3> QED BY <2>1, <3>2, <3>3
  <2>3. \A t \in ClientSockets \ {s} : client'[t] = client[t]
    BY <1>1 DEF H!ClientBreaks, Typed
  <2>4. Registered'
    BY <1>1, <2>2, <2>3 DEF H!ClientBreaks, Registered, Typed, H!rvars
  <2> QED BY <1>0, <1>1, <2>4 DEF H!ClientBreaks, Sent, H!rvars, H!pvars
<1>2. ASSUME NEW s \in AgentSockets, H!AgentBreaks(s)
      PROVE  (Registered /\ Sent)'
  <2>1. agent[s] \in AgentPlain \/ agent[s] \in AgentWriting
    BY <1>2 DEF H!AgentBreaks, H!Live, H!Open, Typed, AgentStates
  <2>2. /\ agent'[s].at = agent[s].at /\ agent'[s].on = agent[s].on
        /\ agent[s].at \in {"writing", "publish"} => agent'[s].node = agent[s].node
    <3>1. agent'[s] = [agent[s] EXCEPT !.up = FALSE]
      BY <1>2 DEF H!AgentBreaks, Typed
    <3>2. CASE agent[s] \in AgentPlain
      BY <3>1, <3>2 DEF AgentPlain
    <3>3. CASE agent[s] \in AgentWriting
      BY <3>1, <3>3 DEF AgentWriting
    <3> QED BY <2>1, <3>2, <3>3
  <2>3. \A t \in AgentSockets \ {s} : agent'[t] = agent[t]
    BY <1>2 DEF H!AgentBreaks, Typed
  <2>4. Registered'
    BY <1>2, <2>2, <2>3 DEF H!AgentBreaks, Registered, Typed, H!rvars
  <2>5. Sent'
    BY <1>0, <1>2, <2>2, <2>3 DEF H!AgentBreaks, Sent, H!rvars, H!pvars
  <2> QED BY <2>4, <2>5
<1>3. ASSUME NEW s \in ClientSockets, NEW r \in Replicas, H!ClientConnect(s, r)
      PROVE  (Registered /\ Sent)'
  <2>1. client[s].at = "off" /\ \A t \in ClientSockets \ {s} : client'[t] = client[t]
    BY <1>3 DEF H!ClientConnect, Typed, H!Off
  <2>2. Registered'
    BY <1>3, <2>1 DEF H!ClientConnect, Registered, Typed, H!rvars
  <2>3. \A q \in Replicas : \A m \in queue'[q] : m \in queue[q] \/ m.type = "clienthello"
    BY <1>3 DEF H!ClientConnect, H!Publish
  <2>4. Sent'
    BY <1>0, <1>3, <2>3 DEF H!ClientConnect, Sent, H!rvars, H!pvars
  <2> QED BY <2>2, <2>4
<1>4. ASSUME NEW s \in AgentSockets, NEW r \in Replicas, H!AgentConnect(s, r)
      PROVE  (Registered /\ Sent)'
  <2>1. /\ agent[s].at = "off" /\ agent'[s].at = "hello"
        /\ \A t \in AgentSockets \ {s} : agent'[t] = agent[t]
    BY <1>4 DEF H!AgentConnect, Typed, H!Off
  <2>2. Registered'
    BY <1>4, <2>1 DEF H!AgentConnect, Registered, Typed, H!rvars
  <2>3. \A q \in Replicas : \A m \in queue'[q] : m \in queue[q] \/ m.type = "agenthello"
    BY <1>4 DEF H!AgentConnect, H!Publish
  <2>4. Sent'
    BY <1>0, <1>4, <2>1, <2>3 DEF H!AgentConnect, Sent, H!rvars, H!pvars
  <2> QED BY <2>2, <2>4
<1> QED BY <1>1, <1>2, <1>3, <1>4 DEF Connects

LEMMA NextBase ==
  ASSUME Sizes, BaseInv, [H!Next]_(H!vars)
  PROVE  BaseInv'
<1>1. Typed'
  BY NextTyped DEF BaseInv
<1>2. CASE UNCHANGED H!vars
  BY <1>1, <1>2 DEF H!vars, H!rvars, H!pvars, BaseInv, Registered, Sent
<1>3. CASE H!Next
  <2>1. (Registered /\ Sent)'
    BY <1>3, ClientBase, AgentBase, HandlerBase, ConnectBase DEF H!Next, Connects
  <2> QED BY <1>1, <2>1 DEF BaseInv
<1> QED BY <1>2, <1>3
-----------------------------------------------------------------------------
(* What stands between a node that was sent and the peer that is to get it. *)

\* a and c are the only websockets, up and registered where they are served.
Pair(a, c) ==
    /\ H!Open(agent) = {a} /\ agent[a].up /\ agentSockets[agent[a].on] = a
    /\ H!Open(client) = {c} /\ client[c].up /\ c \in subscribers[client[c].on]

\* The agent has the client's node, or it is written to its socket, or a message
\* with it waits at the agent's replica.
AgentComing(a, c) ==
    \/ agentGot >= owedAgent
    \/ client[c].at = "toAgent" /\ client[c].node >= owedAgent /\ client[c].to = a
    \/ \E m \in queue[agent[a].on] : m.type = "callmemaybe" /\ m.node >= owedAgent

AgentOwed ==
    owedAgent > 0 =>
        \E a \in AgentSockets, c \in ClientSockets : Pair(a, c) /\ AgentComing(a, c)

\* The client has the agent's node, or it is among the sockets that a goroutine of
\* its replica writes it to.
Written(a, c) ==
    \/ clientGot >= owedClient
    \/ /\ agent[a].on = client[c].on
       /\ agent[a].at = "writing" /\ agent[a].node >= owedClient /\ c \in agent[a].to
    \/ handler[client[c].on].node >= owedClient /\ c \in handler[client[c].on].to

\* The agent is on another replica, which publishes the node or has published it.
Travelling(a, c) ==
    /\ agent[a].on # client[c].on
    /\ \/ agent[a].at \in {"writing", "publish"} /\ agent[a].node >= owedClient
       \/ \E m \in queue[client[c].on] : m.type = "agentupdate" /\ m.node >= owedClient

\* A replica that has stored the node, and so will ignore the message, has written
\* it to the client or is about to.
ClientComing(a, c) ==
    /\ Written(a, c) \/ Travelling(a, c)
    /\ agentNode[client[c].on] >= owedClient => Written(a, c)

ClientOwed ==
    owedClient > 0 =>
        \E a \in AgentSockets, c \in ClientSockets : Pair(a, c) /\ ClientComing(a, c)

HearInv == BaseInv /\ AgentOwed /\ ClientOwed

\* Nothing else is registered beside the two.
LEMMA PairFacts ==
  ASSUME Sizes, BaseInv, NEW a \in AgentSockets, NEW c \in ClientSockets, Pair(a, c)
  PROVE  /\ agent[a].at \in {"serving", "writing", "publish"} /\ agent[a].on \in Replicas
         /\ client[c].at \in {"serving", "toAgent"} /\ client[c].on \in Replicas
         /\ \A t \in AgentSockets \ {a} : agent[t].at \in {"off", "gone"}
         /\ \A t \in ClientSockets \ {c} : client[t].at \in {"off", "gone"}
         /\ \A r \in Replicas : agentSockets[r] # H!NoSocket => agentSockets[r] = a /\ r = agent[a].on
         /\ H!Live(agent, a) /\ H!Live(client, c) /\ a # H!NoSocket /\ H!Settled
<1> USE DEF BaseInv
<1>1. /\ H!Open(agent) = {s \in AgentSockets : agent[s].at \notin {"off", "gone"}}
      /\ H!Open(client) = {s \in ClientSockets : client[s].at \notin {"off", "gone"}}
  BY OpenSockets
<1>2. /\ \A t \in AgentSockets \ {a} : agent[t].at \in {"off", "gone"}
      /\ \A t \in ClientSockets \ {c} : client[t].at \in {"off", "gone"}
      /\ agent[a].at \notin {"off", "gone"} /\ client[c].at \notin {"off", "gone"}
  BY <1>1 DEF Pair
<1>3. agent[a].on \in Replicas /\ client[c].on \in Replicas /\ a # H!NoSocket
  BY <1>2, AgentShape, ClientShape DEF Typed, Sizes
<1>4. agent[a].at \in {"serving", "writing", "publish"} /\ client[c].at \in {"serving", "toAgent"}
  BY <1>3 DEF Pair, Registered
<1>5. ASSUME NEW r \in Replicas, agentSockets[r] # H!NoSocket
      PROVE  agentSockets[r] = a /\ r = agent[a].on
  <2>1. agentSockets[r] \in AgentSockets
    BY <1>5 DEF Typed
  <2>2. agentSockets[r] = a
    BY <1>2, <1>5, <2>1 DEF Registered
  <2> QED BY <1>5, <2>2 DEF Registered
<1>6. H!Live(agent, a) /\ H!Live(client, c)
  BY DEF H!Live, Pair
<1>7. H!Settled
  BY DEF H!Settled, Pair
<1> QED BY <1>2, <1>3, <1>4, <1>5, <1>6, <1>7

\* The two stay the only ones while their goroutines go on.
LEMMA PairStays ==
  ASSUME Sizes, Typed, Typed', NEW a \in AgentSockets, NEW c \in ClientSockets, Pair(a, c),
         UNCHANGED <<agentSockets, subscribers>>,
         UNCHANGED agent \/ \E step \in {"serving", "writing", "publish"} : AgentMoves(a, step),
         UNCHANGED client \/ \E step \in {"serving", "toAgent"} : ClientMoves(c, step)
  PROVE  /\ Pair(a, c)'
         /\ agent'[a].on = agent[a].on /\ client'[c].on = client[c].on
<1>1. /\ H!Open(agent) = {s \in AgentSockets : agent[s].at \notin {"off", "gone"}}
      /\ H!Open(client) = {s \in ClientSockets : client[s].at \notin {"off", "gone"}}
  BY OpenSockets
<1>2. /\ H!Open(agent)' = {s \in AgentSockets : agent'[s].at \notin {"off", "gone"}}
      /\ H!Open(client)' = {s \in ClientSockets : client'[s].at \notin {"off", "gone"}}
  BY AgentShape, ClientShape DEF Typed, H!Open
<1>3. /\ H!Open(agent)' = {a} /\ agent'[a].up = agent[a].up /\ agent'[a].on = agent[a].on
  <2>1. CASE UNCHANGED agent
    BY <1>1, <1>2, <2>1 DEF Pair
  <2>2. ASSUME NEW step \in {"serving", "writing", "publish"}, AgentMoves(a, step)
        PROVE  /\ H!Open(agent)' = {a} /\ agent'[a].up = agent[a].up /\ agent'[a].on = agent[a].on
    <3>1. \A t \in AgentSockets \ {a} : agent[t].at \in {"off", "gone"} /\ agent'[t].at = agent[t].at
      BY <1>1, <2>2 DEF Pair, AgentMoves
    <3>2. /\ agent'[a].at = step /\ agent'[a].up = agent[a].up /\ agent'[a].on = agent[a].on
      BY <2>2 DEF AgentMoves
    <3>3. agent'[a].at \notin {"off", "gone"}
      BY <3>2
    <3>4. H!Open(agent)' = {a}
      BY <1>2, <3>1, <3>3
    <3> QED BY <3>2, <3>4
  <2> QED BY <2>1, <2>2
<1>4. /\ H!Open(client)' = {c} /\ client'[c].up = client[c].up /\ client'[c].on = client[c].on
  BY <1>1, <1>2 DEF Pair, ClientMoves
<1> QED BY <1>3, <1>4 DEF Pair, H!Open

\* A write reaches a socket that is up, and never takes anything back.
LEMMA NewestReaches ==
  ASSUME NEW gt \in Nat, NEW node \in Nat, NEW socks, NEW s
  PROVE  /\ H!Newest(gt, node, socks, s) \in Nat /\ H!Newest(gt, node, socks, s) >= gt
         /\ H!Live(socks, s) => H!Newest(gt, node, socks, s) >= node
  BY DEF H!Newest

LEMMA NewestOfReaches ==
  ASSUME NEW write, write.node \in Nat, clientGot \in Nat
  PROVE  /\ H!NewestOf(write) \in Nat /\ H!NewestOf(write) >= clientGot
         /\ \A t \in write.to : H!Live(client, t) => H!NewestOf(write) >= write.node
  BY DEF H!NewestOf

\* What a step does to the two claims.
Follows(a, c) ==
    /\ Pair(a, c)'
    /\ AgentComing(a, c) \/ owedAgent' # owedAgent => AgentComing(a, c)'
    /\ ClientComing(a, c) \/ owedClient' # owedClient => ClientComing(a, c)'

LEMMA ClientFollows ==
  ASSUME Sizes, BaseInv, BaseInv', NEW a \in AgentSockets, NEW c \in ClientSockets, Pair(a, c),
         NEW s \in ClientSockets, H!ClientStep(s)
  PROVE  Follows(a, c)
<1> USE DEF BaseInv
<1>0. /\ agent[a].at \in {"serving", "writing", "publish"} /\ agent[a].on \in Replicas
      /\ client[c].at \in {"serving", "toAgent"} /\ client[c].on \in Replicas
      /\ \A t \in ClientSockets \ {c} : client[t].at \in {"off", "gone"}
      /\ \A r \in Replicas : agentSockets[r] # H!NoSocket => agentSockets[r] = a /\ r = agent[a].on
      /\ H!Live(agent, a) /\ H!Live(client, c) /\ a # H!NoSocket /\ H!Settled
  BY PairFacts
<1>a. client[c] \in ClientStates /\ client[c].up = TRUE
  BY ClientShape, <1>0 DEF Typed, Pair
<1>b. /\ agentGot \in Nat /\ owedAgent \in Nat /\ clientSent \in Nat /\ owedClient \in Nat
      /\ client[c].at = "toAgent" => client[c].node \in Nat
      /\ \A m \in queue[agent[a].on] : m.type = "callmemaybe" => m.node \in Nat
  BY <1>0, BaseTypes
<1>1. s = c
  BY <1>0 DEF H!ClientStep, H!ClientGreet, H!ClientRegister, H!ClientUpdate, H!ClientToAgent, H!ClientLeave
<1>2. ~H!ClientGreet(c) /\ ~H!ClientRegister(c) /\ ~H!ClientLeave(c)
  BY <1>0, <1>a DEF H!ClientGreet, H!ClientRegister, H!ClientLeave
<1>3. CASE H!ClientUpdate(c)
  <2> DEFINE r == client[c].on
             v == clientSent + 1
  <2>1. /\ owedAgent' = v
        /\ UNCHANGED <<agentNode, agentSockets, subscribers, agent, handler, agentGot, clientGot, owedClient>>
    BY <1>0, <1>3 DEF H!ClientUpdate
  <2>2. \/ /\ agentSockets[r] = H!NoSocket /\ UNCHANGED client
           /\ H!Publish(r, [type |-> "callmemaybe", node |-> v])
        \/ /\ agentSockets[r] # H!NoSocket /\ UNCHANGED queue
           /\ client' = [client EXCEPT ![c] = [at |-> "toAgent", on |-> r, up |-> TRUE,
                                               node |-> v, to |-> agentSockets[r]]]
    BY <1>3 DEF H!ClientUpdate
  <2>v. v \in Nat
    BY <1>b
  <2> HIDE DEF v
  <2>3. CASE agentSockets[r] = H!NoSocket
    <3>1. /\ UNCHANGED client /\ queue' = [q \in Replicas |-> IF q = r THEN queue[q] ELSE
                                             queue[q] \union {[type |-> "callmemaybe", node |-> v]}]
      BY <2>2, <2>3 DEF H!Publish
    <3>2. Pair(a, c)' /\ agent'[a].on = agent[a].on /\ client'[c].on = client[c].on
      BY <2>1, <3>1, PairStays
    <3>3. agent[a].on # r
      BY <1>0, <2>3 DEF Pair
    <3>4. [type |-> "callmemaybe", node |-> v] \in queue'[agent'[a].on]
      BY <1>0, <3>1, <3>2, <3>3
    <3>5. AgentComing(a, c)'
      BY <2>1, <2>v, <3>4 DEF AgentComing
    <3>6. queue[r] \subseteq queue'[r]
      BY <1>0, <3>1
    <3>7. ClientComing(a, c) => ClientComing(a, c)'
      BY <2>1, <3>1, <3>6 DEF ClientComing, Written, Travelling
    <3> QED BY <2>1, <3>2, <3>5, <3>7 DEF Follows
  <2>4. CASE agentSockets[r] # H!NoSocket
    <3>1. /\ UNCHANGED queue
          /\ client' = [client EXCEPT ![c] = [at |-> "toAgent", on |-> r, up |-> TRUE,
                                              node |-> v, to |-> agentSockets[r]]]
      BY <2>2, <2>4
    <3>2. ClientMoves(c, "toAgent") /\ client'[c].node = v /\ client'[c].to = a
      BY <1>0, <1>a, <2>4, <3>1 DEF ClientMoves, Typed
    <3>3. Pair(a, c)' /\ agent'[a].on = agent[a].on /\ client'[c].on = client[c].on
      BY <2>1, <3>2, PairStays
    <3>4. AgentComing(a, c)'
      BY <2>1, <2>v, <3>2 DEF AgentComing, ClientMoves
    <3>5. ClientComing(a, c) => ClientComing(a, c)'
      BY <2>1, <3>1, <3>3 DEF ClientComing, Written, Travelling
    <3> QED BY <2>1, <3>3, <3>4, <3>5 DEF Follows
  <2> QED BY <2>3, <2>4
<1>4. CASE H!ClientToAgent(c)
  <2>1. client[c] \in ClientWriting /\ client[c].node \in Nat
    BY <1>a, <1>b, <1>4, ClientShape DEF H!ClientToAgent
  <2>2. ClientMoves(c, "serving")
    BY <1>4, <2>1 DEF H!ClientToAgent, ClientMoves, ClientWriting, Typed
  <2>3. /\ agentGot' = H!Newest(agentGot, client[c].node, agent, client[c].to)
        /\ UNCHANGED <<agentNode, agentSockets, subscribers, agent, queue, handler, clientGot, owedAgent, owedClient>>
    BY <1>4 DEF H!ClientToAgent, H!rvars
  <2>4. Pair(a, c)' /\ agent'[a].on = agent[a].on /\ client'[c].on = client[c].on
    BY <2>2, <2>3, PairStays
  <2>5. /\ agentGot' \in Nat /\ agentGot' >= agentGot
        /\ client[c].to = a => agentGot' >= client[c].node
    BY <1>0, <1>b, <2>1, <2>3, NewestReaches
  <2>6. AgentComing(a, c) => AgentComing(a, c)'
    BY <1>b, <2>1, <2>3, <2>4, <2>5 DEF AgentComing
  <2>7. ClientComing(a, c) => ClientComing(a, c)'
    BY <2>3, <2>4 DEF ClientComing, Written, Travelling
  <2> QED BY <2>3, <2>4, <2>6, <2>7 DEF Follows
<1> QED BY <1>1, <1>2, <1>3, <1>4 DEF H!ClientStep

LEMMA AgentFollows ==
  ASSUME Sizes, BaseInv, BaseInv', NEW a \in AgentSockets, NEW c \in ClientSockets, Pair(a, c),
         NEW s \in AgentSockets, H!AgentStep(s)
  PROVE  Follows(a, c)
<1> USE DEF BaseInv
<1>0. /\ agent[a].at \in {"serving", "writing", "publish"} /\ agent[a].on \in Replicas
      /\ client[c].at \in {"serving", "toAgent"} /\ client[c].on \in Replicas
      /\ \A t \in AgentSockets \ {a} : agent[t].at \in {"off", "gone"}
      /\ H!Live(client, c) /\ H!Settled
  BY PairFacts
<1>a. agent[a] \in AgentStates /\ agent[a].up = TRUE
  BY AgentShape, <1>0 DEF Typed, Pair
<1>b. /\ clientGot \in Nat /\ owedClient \in Nat /\ agentSent \in Nat
      /\ agent[a].at \in {"writing", "publish"} => agent[a].node \in Nat
      /\ \A r \in Replicas : agentNode[r] \in Nat /\ handler[r].node \in Nat
  BY BaseTypes
<1>1. s = a
  BY <1>0 DEF H!AgentStep, H!AgentGreet, H!AgentRegister, H!AgentUpdate, H!AgentToClients, H!AgentPublish, H!AgentLeave
<1>2. ~H!AgentGreet(a) /\ ~H!AgentRegister(a) /\ ~H!AgentLeave(a)
  BY <1>0, <1>a DEF H!AgentGreet, H!AgentRegister, H!AgentLeave
<1>3. CASE H!AgentUpdate(a)
  <2> DEFINE r == agent[a].on
             v == agentSent + 1
  <2>1. v \in Nat /\ v > agentSent
    BY <1>b
  <2>2. H!Stored(r, v) = v
    BY <1>0, <1>b, <2>1 DEF H!Stored, Sent
  <2>3. /\ owedClient' = v /\ agentNode' = [agentNode EXCEPT ![r] = v]
        /\ agent' = [agent EXCEPT ![a] = [at |-> "writing", on |-> r, up |-> TRUE, node |-> v,
                                          to |-> subscribers[r]]]
        /\ UNCHANGED <<agentSockets, subscribers, client, queue, handler, agentGot, clientGot, owedAgent>>
    BY <1>0, <1>3, <2>2 DEF H!AgentUpdate
  <2> HIDE DEF v
  <2>4. AgentMoves(a, "writing") /\ agent'[a].node = v /\ agent'[a].to = subscribers[r]
    BY <1>a, <2>3 DEF AgentMoves, Typed
  <2>5. Pair(a, c)' /\ agent'[a].on = r /\ client'[c].on = client[c].on
    BY <2>3, <2>4, PairStays
  <2>6. AgentComing(a, c) => AgentComing(a, c)'
    BY <2>3, <2>5 DEF AgentComing
  <2>7. ClientComing(a, c)'
    <3>1. CASE client[c].on = r
      <4>1. c \in agent'[a].to
        BY <2>4, <3>1 DEF Pair
      <4>2. agent'[a].at = "writing" /\ agent'[a].on = client'[c].on /\ agent'[a].node >= owedClient'
        BY <2>1, <2>3, <2>4, <2>5, <3>1 DEF AgentMoves
      <4> QED BY <4>1, <4>2 DEF ClientComing, Written
    <3>2. CASE client[c].on # r
      <4>1. ~(agentNode'[client'[c].on] >= owedClient')
        BY <1>0, <1>b, <2>1, <2>3, <2>5, <3>2 DEF Sent, Typed
      <4>2. agent'[a].at = "writing" /\ agent'[a].on # client'[c].on /\ agent'[a].node >= owedClient'
        BY <2>1, <2>3, <2>4, <2>5, <3>2 DEF AgentMoves
      <4> QED BY <4>1, <4>2 DEF ClientComing, Travelling
    <3> QED BY <3>1, <3>2
  <2> QED BY <2>3, <2>5, <2>6, <2>7 DEF Follows
<1>4. CASE H!AgentToClients(a)
  <2>1. agent[a] \in AgentWriting /\ agent[a].node \in Nat
    BY <1>a, <1>b, <1>4, AgentShape DEF H!AgentToClients
  <2>2. AgentMoves(a, "publish") /\ agent'[a].node = agent[a].node
    BY <1>4, <2>1 DEF H!AgentToClients, AgentMoves, AgentWriting, Typed
  <2>3. /\ clientGot' = H!NewestOf(agent[a]) /\ agent[a].at = "writing"
        /\ UNCHANGED <<agentNode, agentSockets, subscribers, client, queue, handler, agentGot, owedAgent, owedClient>>
    BY <1>4 DEF H!AgentToClients, H!rvars
  <2>4. Pair(a, c)' /\ agent'[a].on = agent[a].on /\ client'[c].on = client[c].on
    BY <2>2, <2>3, PairStays
  <2>5. /\ clientGot' \in Nat /\ clientGot' >= clientGot
        /\ c \in agent[a].to => clientGot' >= agent[a].node
    BY <1>0, <1>b, <2>1, <2>3, NewestOfReaches
  <2>6. AgentComing(a, c) => AgentComing(a, c)'
    BY <2>3, <2>4 DEF AgentComing
  <2>7. Written(a, c) => Written(a, c)'
    BY <1>b, <2>1, <2>3, <2>4, <2>5 DEF Written
  <2>8. Travelling(a, c) => Travelling(a, c)'
    BY <2>2, <2>3, <2>4 DEF Travelling, AgentMoves
  <2> QED BY <2>3, <2>4, <2>6, <2>7, <2>8 DEF Follows, ClientComing
<1>5. CASE H!AgentPublish(a)
  <2>1. agent[a] \in AgentWriting /\ agent[a].node \in Nat
    BY <1>a, <1>b, <1>5, AgentShape DEF H!AgentPublish
  <2>2. AgentMoves(a, "serving")
    BY <1>5, <2>1 DEF H!AgentPublish, AgentMoves, AgentWriting, Typed
  <2>3. /\ H!Publish(agent[a].on, [type |-> "agentupdate", node |-> agent[a].node])
        /\ agent[a].at = "publish"
        /\ UNCHANGED <<agentNode, agentSockets, subscribers, client, handler, agentGot, clientGot, owedAgent, owedClient>>
    BY <1>5 DEF H!AgentPublish, H!rvars, H!pvars
  <2>4. Pair(a, c)' /\ agent'[a].on = agent[a].on /\ client'[c].on = client[c].on
    BY <2>2, <2>3, PairStays
  <2>5. /\ \A q \in Replicas : queue[q] \subseteq queue'[q]
        /\ client[c].on # agent[a].on =>
              [type |-> "agentupdate", node |-> agent[a].node] \in queue'[client[c].on]
    BY <1>0, <2>3 DEF H!Publish
  <2>6. AgentComing(a, c) => AgentComing(a, c)'
    BY <1>0, <2>3, <2>4, <2>5 DEF AgentComing
  <2>7. Written(a, c) => Written(a, c)'
    BY <2>3, <2>4 DEF Written
  <2>8. Travelling(a, c) => Travelling(a, c)'
    BY <1>0, <2>3, <2>4, <2>5 DEF Travelling
  <2> QED BY <2>3, <2>4, <2>6, <2>7, <2>8 DEF Follows, ClientComing
<1> QED BY <1>1, <1>2, <1>3, <1>4, <1>5 DEF H!AgentStep

LEMMA HandlerFollows ==
  ASSUME Sizes, BaseInv, BaseInv', NEW a \in AgentSockets, NEW c \in ClientSockets, Pair(a, c),
         NEW r \in Replicas, H!Handle(r)
  PROVE  Follows(a, c)
<1> USE DEF BaseInv
<1>0. /\ agent[a].on \in Replicas /\ client[c].on \in Replicas
      /\ H!Live(agent, a) /\ H!Live(client, c) /\ a # H!NoSocket
  BY PairFacts
<1>b. /\ agentGot \in Nat /\ owedAgent \in Nat /\ clientGot \in Nat /\ owedClient \in Nat
      /\ \A q \in Replicas : agentNode[q] \in Nat /\ handler[q].node \in Nat
      /\ \A q \in Replicas : \A m \in queue[q] :
            m.type \in {"callmemaybe", "agentupdate"} => m.node \in Nat
  BY BaseTypes
<1>1. /\ UNCHANGED <<agentSockets, subscribers, agent, client, owedAgent, owedClient>>
      /\ Pair(a, c)'
  <2>1. UNCHANGED <<agentSockets, subscribers, agent, client, owedAgent, owedClient>>
    BY DEF H!Handle, H!CallMeMaybe, H!ClientHello, H!AgentHello, H!RemoteUpdate, H!RemoteToClients, H!rvars, H!pvars
  <2> QED BY <2>1 DEF Pair, H!Open
<1>2. ASSUME NEW m \in queue[r], H!CallMeMaybe(r, m)
      PROVE  Follows(a, c)
  <2>1. /\ m.type = "callmemaybe" /\ queue' = [queue EXCEPT ![r] = @ \ {m}]
        /\ agentGot' = IF agentSockets[r] # H!NoSocket
                       THEN H!Newest(agentGot, m.node, agent, agentSockets[r]) ELSE agentGot
        /\ UNCHANGED <<agentNode, handler, clientGot>>
    BY <1>2 DEF H!CallMeMaybe, H!Ready, H!Take, H!rvars
  <2>2. /\ agentGot' \in Nat /\ agentGot' >= agentGot
        /\ r = agent[a].on => agentGot' >= m.node
    <3>1. m.node \in Nat
      BY <1>b, <2>1
    <3>2. r = agent[a].on => agentSockets[r] = a
      BY DEF Pair
    <3>3. CASE agentSockets[r] = H!NoSocket
      BY <1>0, <1>b, <2>1, <3>2, <3>3
    <3>4. CASE agentSockets[r] # H!NoSocket
      <4>1. agentGot' = H!Newest(agentGot, m.node, agent, agentSockets[r])
        BY <2>1, <3>4
      <4>2. /\ H!Newest(agentGot, m.node, agent, agentSockets[r]) \in Nat
            /\ H!Newest(agentGot, m.node, agent, agentSockets[r]) >= agentGot
            /\ H!Live(agent, agentSockets[r]) => H!Newest(agentGot, m.node, agent, agentSockets[r]) >= m.node
        BY <1>b, <3>1, NewestReaches
      <4>3. r = agent[a].on => H!Live(agent, agentSockets[r])
        BY <1>0, <3>2
      <4> QED BY <4>1, <4>2, <4>3
    <3> QED BY <3>3, <3>4
  <2>3. \A q \in Replicas : \A x \in queue[q] : x \in queue'[q] \/ (x = m /\ q = r)
    BY <2>1 DEF Typed
  <2>4. AgentComing(a, c) => AgentComing(a, c)'
    <3>1. CASE \E x \in queue[agent[a].on] : x.type = "callmemaybe" /\ x.node >= owedAgent
      <4>1. PICK x \in queue[agent[a].on] : x.type = "callmemaybe" /\ x.node >= owedAgent
        BY <3>1
      <4>2. CASE x \in queue'[agent[a].on]
        BY <1>1, <4>1, <4>2 DEF AgentComing
      <4>3. CASE x = m /\ agent[a].on = r
        <5>1. agentGot' >= owedAgent'
          BY <1>0, <1>1, <1>b, <2>2, <4>1, <4>3
        <5> QED BY <5>1 DEF AgentComing
      <4> QED BY <1>0, <2>3, <4>1, <4>2, <4>3
    <3>2. CASE agentGot >= owedAgent
      BY <1>1, <1>b, <2>2, <3>2 DEF AgentComing
    <3>3. CASE client[c].at = "toAgent" /\ client[c].node >= owedAgent /\ client[c].to = a
      BY <1>1, <3>3 DEF AgentComing
    <3> QED BY <3>1, <3>2, <3>3 DEF AgentComing
  <2>5. Travelling(a, c) => Travelling(a, c)'
    <3>1. \A x \in queue[client[c].on] : x.type = "agentupdate" => x \in queue'[client[c].on]
      BY <1>0, <2>1, <2>3
    <3> QED BY <1>1, <3>1 DEF Travelling
  <2>6. Written(a, c) => Written(a, c)'
    BY <1>1, <2>1 DEF Written
  <2> QED BY <1>1, <2>1, <2>4, <2>5, <2>6 DEF Follows, ClientComing
<1>3. ASSUME NEW m \in queue[r], H!ClientHello(r, m) \/ H!AgentHello(r, m)
      PROVE  Follows(a, c)
  <2>1. /\ m.type \in {"clienthello", "agenthello"}
        /\ \A q \in Replicas : queue[q] \ {m} \subseteq queue'[q]
        /\ UNCHANGED <<agentNode, handler, agentGot, clientGot>>
    BY <1>3 DEF H!ClientHello, H!AgentHello, H!Ready, H!rvars, H!pvars
  <2>2. \A q \in Replicas : \A x \in queue[q] :
           x.type \in {"callmemaybe", "agentupdate"} => x \in queue'[q]
    BY <2>1
  <2>3. AgentComing(a, c) => AgentComing(a, c)'
    BY <1>0, <1>1, <2>1, <2>2 DEF AgentComing
  <2>4. Travelling(a, c) => Travelling(a, c)'
    BY <1>0, <1>1, <2>2 DEF Travelling
  <2>5. Written(a, c) => Written(a, c)'
    BY <1>1, <2>1 DEF Written
  <2> QED BY <1>1, <2>1, <2>3, <2>4, <2>5 DEF Follows, ClientComing
<1>4. ASSUME NEW m \in queue[r], H!RemoteUpdate(r, m)
      PROVE  Follows(a, c)
  <2>1. /\ m.type = "agentupdate" /\ handler[r] = H!Idle /\ queue' = [queue EXCEPT ![r] = @ \ {m}]
        /\ agentNode' = [agentNode EXCEPT ![r] = H!Stored(r, m.node)]
        /\ handler' = [handler EXCEPT ![r] =
                        IF H!Stored(r, m.node) = m.node /\ subscribers[r] # {}
                        THEN [node |-> m.node, to |-> subscribers[r]] ELSE H!Idle]
        /\ UNCHANGED <<agentGot, clientGot>>
    BY <1>4 DEF H!RemoteUpdate, H!Ready, H!Take, H!pvars
  <2>2. \A q \in Replicas : \A x \in queue[q] : x \in queue'[q] \/ (x = m /\ q = r)
    BY <2>1 DEF Typed
  <2>3. AgentComing(a, c) => AgentComing(a, c)'
    <3>1. \A x \in queue[agent[a].on] : x.type = "callmemaybe" => x \in queue'[agent[a].on]
      BY <1>0, <2>1, <2>2
    <3> QED BY <1>1, <2>1, <3>1 DEF AgentComing
  <2>4. ASSUME ClientComing(a, c), r # client[c].on
        PROVE  ClientComing(a, c)'
    <3>1. /\ agentNode'[client[c].on] = agentNode[client[c].on]
          /\ handler'[client[c].on] = handler[client[c].on]
          /\ queue'[client[c].on] = queue[client[c].on]
      BY <1>0, <2>1, <2>4 DEF Typed
    <3> QED BY <1>1, <2>1, <2>4, <3>1 DEF ClientComing, Written, Travelling
  <2>5. ASSUME ClientComing(a, c), r = client[c].on
        PROVE  ClientComing(a, c)'
    <3>0. m.node \in Nat /\ handler[r].to = {}
      BY <1>b, <2>1 DEF H!Idle
    <3>1. Written(a, c) => Written(a, c)'
      BY <1>1, <2>1, <2>5, <3>0 DEF Written
    <3>2. ASSUME m.node >= owedClient, H!Stored(r, m.node) = m.node
          PROVE  Written(a, c)'
      <4>1. c \in subscribers[r]
        BY <2>5 DEF Pair
      <4>2. handler'[r] = [node |-> m.node, to |-> subscribers[r]]
        BY <2>1, <3>2, <4>1 DEF Typed
      <4>3. handler'[client'[c].on].node >= owedClient' /\ c \in handler'[client'[c].on].to
        BY <1>1, <2>5, <3>2, <4>1, <4>2
      <4> QED BY <4>3 DEF Written
    <3>3. ASSUME m.node >= owedClient, H!Stored(r, m.node) # m.node
          PROVE  Written(a, c)
      <4>1. agentNode[r] > m.node
        BY <3>3 DEF H!Stored
      <4>2. agentNode[client[c].on] >= owedClient
        BY <1>b, <2>5, <3>0, <3>3, <4>1
      <4> QED BY <2>5, <4>2 DEF ClientComing
    <3>4. CASE m.node >= owedClient
      BY <3>1, <3>2, <3>3, <3>4 DEF ClientComing
    <3>5. CASE ~(m.node >= owedClient)
      <4>1. agentNode'[client'[c].on] >= owedClient' => agentNode[client[c].on] >= owedClient
        BY <1>1, <1>b, <2>1, <2>5, <3>0, <3>5 DEF H!Stored, Typed
      <4>2. Travelling(a, c) => Travelling(a, c)'
        <5>1. \A x \in queue[r] : x.node >= owedClient => x \in queue'[r]
          BY <2>2, <3>5
        <5> QED BY <1>1, <2>5, <5>1 DEF Travelling
      <4> QED BY <2>5, <3>1, <4>1, <4>2 DEF ClientComing
    <3> QED BY <3>4, <3>5
  <2> QED BY <1>1, <2>3, <2>4, <2>5 DEF Follows
<1>5. CASE H!RemoteToClients(r)
  <2>1. /\ clientGot' = H!NewestOf(handler[r]) /\ handler' = [handler EXCEPT ![r] = H!Idle]
        /\ UNCHANGED <<agentNode, queue, agentGot>>
    BY <1>5 DEF H!RemoteToClients, H!rvars
  <2>2. /\ clientGot' \in Nat /\ clientGot' >= clientGot
        /\ c \in handler[r].to => clientGot' >= handler[r].node
    BY <1>0, <1>b, <2>1, NewestOfReaches
  <2>3. \A q \in Replicas \ {r} : handler'[q] = handler[q]
    BY <2>1 DEF Typed
  <2>4. AgentComing(a, c) => AgentComing(a, c)'
    BY <1>1, <2>1 DEF AgentComing
  <2>5. Travelling(a, c) => Travelling(a, c)'
    BY <1>1, <2>1 DEF Travelling
  <2>6. Written(a, c) => Written(a, c)'
    <3>1. CASE clientGot >= owedClient
      BY <1>1, <1>b, <2>2, <3>1 DEF Written
    <3>2. CASE /\ agent[a].on = client[c].on
               /\ agent[a].at = "writing" /\ agent[a].node >= owedClient /\ c \in agent[a].to
      BY <1>1, <3>2 DEF Written
    <3>3. CASE handler[client[c].on].node >= owedClient /\ c \in handler[client[c].on].to
      <4>1. CASE r = client[c].on
        <5>1. clientGot' >= owedClient'
          BY <1>0, <1>1, <1>b, <2>2, <3>3, <4>1
        <5> QED BY <5>1 DEF Written
      <4>2. CASE r # client[c].on
        BY <1>0, <1>1, <2>3, <3>3, <4>2 DEF Written
      <4> QED BY <4>1, <4>2
    <3> QED BY <3>1, <3>2, <3>3 DEF Written
  <2> QED BY <1>1, <2>1, <2>4, <2>5, <2>6 DEF Follows, ClientComing
<1> QED BY <1>2, <1>3, <1>4, <1>5 DEF H!Handle

\* A debt begins only where both peers are settled.
LEMMA NewDebts ==
  ASSUME Sizes, BaseInv,
         (\E s \in ClientSockets : H!ClientStep(s)) \/ (\E s \in AgentSockets : H!AgentStep(s))
         \/ (\E r \in Replicas : H!Handle(r)) \/ UNCHANGED H!vars,
         owedAgent' # owedAgent \/ owedClient' # owedClient
  PROVE  \E a \in AgentSockets, c \in ClientSockets : Pair(a, c)
<1>1. H!Settled
  BY DEF H!ClientStep, H!ClientGreet, H!ClientRegister, H!ClientUpdate, H!ClientToAgent, H!ClientLeave,
         H!AgentStep, H!AgentGreet, H!AgentRegister, H!AgentUpdate, H!AgentToClients, H!AgentPublish, H!AgentLeave,
         H!Handle, H!CallMeMaybe, H!ClientHello, H!AgentHello, H!RemoteUpdate, H!RemoteToClients, H!vars
<1>2. H!Open(agent) \subseteq AgentSockets /\ H!Open(client) \subseteq ClientSockets
  BY DEF H!Open, BaseInv, Typed
<1>3. PICK a \in H!Open(agent) : H!Open(agent) = {a} /\ agent[a].up /\ agentSockets[agent[a].on] = a
  BY <1>1 DEF H!Settled
<1>4. PICK c \in H!Open(client) : H!Open(client) = {c} /\ client[c].up /\ c \in subscribers[client[c].on]
  BY <1>1 DEF H!Settled
<1> QED BY <1>2, <1>3, <1>4 DEF Pair

LEMMA InitHear == ASSUME Sizes, H!Init PROVE HearInv
<1>1. BaseInv
  BY InitBase
<1>2. AgentOwed /\ ClientOwed
  BY DEF H!Init, AgentOwed, ClientOwed
<1> QED BY <1>1, <1>2 DEF HearInv

LEMMA NextHear ==
  ASSUME Sizes, HearInv, [H!Next]_(H!vars)
  PROVE  HearInv'
<1>0. BaseInv /\ BaseInv'
  BY NextBase DEF HearInv
<1>1. CASE Connects
  <2>1. owedAgent' = 0 /\ owedClient' = 0
    BY <1>1 DEF Connects, H!ClientBreaks, H!ClientConnect, H!AgentBreaks, H!AgentConnect
  <2> QED BY <1>0, <2>1 DEF HearInv, AgentOwed, ClientOwed
<1>2. CASE \/ \E s \in ClientSockets : H!ClientStep(s)
           \/ \E s \in AgentSockets : H!AgentStep(s)
           \/ \E r \in Replicas : H!Handle(r)
  <2>1. ASSUME NEW a \in AgentSockets, NEW c \in ClientSockets, Pair(a, c)
        PROVE  Follows(a, c)
    BY <1>0, <1>2, <2>1, ClientFollows, AgentFollows, HandlerFollows
  <2>2. ASSUME owedAgent' > 0
        PROVE  \E a \in AgentSockets, c \in ClientSockets : Pair(a, c)' /\ AgentComing(a, c)'
    <3>1. CASE owedAgent' = owedAgent
      <4>1. PICK a \in AgentSockets, c \in ClientSockets : Pair(a, c) /\ AgentComing(a, c)
        BY <2>2, <3>1 DEF HearInv, AgentOwed
      <4> QED BY <2>1, <4>1 DEF Follows
    <3>2. CASE owedAgent' # owedAgent
      <4>1. PICK a \in AgentSockets, c \in ClientSockets : Pair(a, c)
        BY <1>0, <1>2, <3>2, NewDebts
      <4> QED BY <2>1, <3>2, <4>1 DEF Follows
    <3> QED BY <3>1, <3>2
  <2>3. ASSUME owedClient' > 0
        PROVE  \E a \in AgentSockets, c \in ClientSockets : Pair(a, c)' /\ ClientComing(a, c)'
    <3>1. CASE owedClient' = owedClient
      <4>1. PICK a \in AgentSockets, c \in ClientSockets : Pair(a, c) /\ ClientComing(a, c)
        BY <2>3, <3>1 DEF HearInv, ClientOwed
      <4> QED BY <2>1, <4>1 DEF Follows
    <3>2. CASE owedClient' # owedClient
      <4>1. PICK a \in AgentSockets, c \in ClientSockets : Pair(a, c)
        BY <1>0, <1>2, <3>2, NewDebts
      <4> QED BY <2>1, <3>2, <4>1 DEF Follows
    <3> QED BY <3>1, <3>2
  <2> QED BY <1>0, <2>2, <2>3 DEF HearInv, AgentOwed, ClientOwed
<1>3. CASE UNCHANGED H!vars
  BY <1>0, <1>3 DEF H!vars, H!rvars, H!pvars, HearInv, AgentOwed, ClientOwed, Pair, H!Open, AgentComing,
                    ClientComing, Written, Travelling
<1> QED BY <1>1, <1>2, <1>3 DEF H!Next, Connects

-----------------------------------------------------------------------------
(* The inductive invariant: a node that was sent while both peers were     *)
(* settled has arrived, or is at a definite place between them.            *)
THEOREM HearInvariant ==
  ASSUME Sizes
  PROVE  H!Spec => []HearInv
<1>1. H!Init => HearInv
  BY InitHear
<1>2. HearInv /\ [H!Next]_(H!vars) => HearInv'
  BY NextHear
<1> QED BY <1>1, <1>2, PTL DEF H!Spec

(* The maps, messages and handlers of the replicas keep their types.       *)
THEOREM SharedTypeCorrect ==
  ASSUME Sizes
  PROVE  H!Spec => []H!TypeOK
<1>1. HearInv => H!TypeOK
  BY TypedTypeOK DEF HearInv, BaseInv
<1> QED BY <1>1, HearInvariant, PTL

\* A debt that is not paid has its node among the messages and the writes on their way.
LEMMA HearInvAgent == ASSUME Sizes, HearInv PROVE H!AgentHears
<1> SUFFICES ASSUME owedAgent > agentGot
             PROVE  \E n \in H!ToAgent : n >= owedAgent
  BY DEF H!AgentHears
<1>1. agentGot \in Nat /\ owedAgent \in Nat
  BY BaseTypes DEF HearInv, BaseInv
<1>2. PICK a \in AgentSockets, c \in ClientSockets : Pair(a, c) /\ AgentComing(a, c)
  BY <1>1 DEF HearInv, AgentOwed
<1>3. agent[a].on \in Replicas /\ c \in H!Open(client)
  BY <1>2, PairFacts DEF HearInv, Pair
<1>4. CASE client[c].at = "toAgent" /\ client[c].node >= owedAgent
  BY <1>3, <1>4 DEF H!ToAgent
<1>5. ASSUME NEW m \in queue[agent[a].on], m.type = "callmemaybe", m.node >= owedAgent
      PROVE  \E n \in H!ToAgent : n >= owedAgent
  <2>1. m \in UNION H!Range(queue)
    BY <1>3 DEF HearInv, BaseInv, Typed, H!Range
  <2> QED BY <1>5, <2>1 DEF H!ToAgent
<1> QED BY <1>1, <1>2, <1>4, <1>5 DEF AgentComing

LEMMA HearInvClient == ASSUME Sizes, HearInv PROVE H!ClientHears
<1> SUFFICES ASSUME owedClient > clientGot
             PROVE  \E n \in H!ToClient : n >= owedClient
  BY DEF H!ClientHears
<1>1. clientGot \in Nat /\ owedClient \in Nat
  BY BaseTypes DEF HearInv, BaseInv
<1>2. PICK a \in AgentSockets, c \in ClientSockets : Pair(a, c) /\ ClientComing(a, c)
  BY <1>1 DEF HearInv, ClientOwed
<1>3. a \in H!Open(agent) /\ client[c].on \in Replicas
  BY <1>2, PairFacts DEF HearInv, Pair
<1>4. CASE agent[a].at \in {"writing", "publish"} /\ agent[a].node >= owedClient
  BY <1>3, <1>4 DEF H!ToClient
<1>5. ASSUME NEW m \in queue[client[c].on], m.type = "agentupdate", m.node >= owedClient
      PROVE  \E n \in H!ToClient : n >= owedClient
  <2>1. m \in UNION H!Range(queue)
    BY <1>3 DEF HearInv, BaseInv, Typed, H!Range
  <2> QED BY <1>5, <2>1 DEF H!ToClient
<1>6. CASE handler[client[c].on].node >= owedClient
  BY <1>3, <1>6 DEF H!ToClient
<1> QED BY <1>1, <1>2, <1>4, <1>5, <1>6 DEF ClientComing, Written, Travelling

(* A node that the client sends while both peers are connected and         *)
(* registered reaches the agent or is on its way: through the socket of    *)
(* its own replica, or in a callmemaybe that waits at the agent's.         *)
THEOREM AgentIsTold ==
  ASSUME Sizes
  PROVE  H!Spec => []H!AgentHears
<1>1. HearInv => H!AgentHears
  BY HearInvAgent
<1> QED BY <1>1, HearInvariant, PTL

(* The same for the agent's nodes: neither the order in which the pubsub's *)
(* goroutines run nor a node a replica kept from an earlier session of the *)
(* agent hides a newer one from a client that is settled.                  *)
THEOREM ClientIsTold ==
  ASSUME Sizes
  PROVE  H!Spec => []H!ClientHears
<1>1. HearInv => H!ClientHears
  BY HearInvClient
<1> QED BY <1>1, HearInvariant, PTL

(* handleAgentUpdate's comparison of AsOf is enough: a replica's node of   *)
(* the agent is never replaced by an older one that arrives late.          *)
THEOREM StoredNodeAdvances ==
  ASSUME Sizes
  PROVE  H!Spec => H!NodeNeverRegresses
<1>1. HearInv /\ [H!Next]_(H!vars) => [H!NodeAdvances]_(H!vars)
  BY NextAdvances DEF HearInv, BaseInv
<1> QED BY <1>1, HearInvariant, PTL DEF H!Spec, H!NodeNeverRegresses

-----------------------------------------------------------------------------
(* The server with either coordinator.  A step of one leaves the variables *)
(* of the other alone.                                                     *)

LEMMA SharedSteps ==
  ASSUME [OneReplica \/ TwoReplicas]_<<part, vars, haVars>>
  PROVE  [H!Next]_(H!vars)
<1>1. UNCHANGED haVars => UNCHANGED H!vars
  BY DEF haVars, H!vars, H!rvars, H!pvars
<1> QED BY <1>1 DEF OneReplica, TwoReplicas

LEMMA SharedInvariant == ASSUME Sizes PROVE CoordinatorsSpec => []HearInv
<1>1. CoordinatorsInit => HearInv
  BY InitHear DEF CoordinatorsInit
<1>2. HearInv /\ [OneReplica \/ TwoReplicas]_<<part, vars, haVars>> => HearInv'
  BY SharedSteps, NextHear
<1> QED BY <1>1, <1>2, PTL DEF CoordinatorsSpec

(* The maps, messages and handlers of the replicas keep their types, for   *)
(* any number of replicas, websockets and versions.                        *)
THEOREM ReplicasTypeCorrect == ASSUME Sizes PROVE CoordinatorsSpec => []SharedTypeOK
<1>1. HearInv => SharedTypeOK
  BY TypedTypeOK DEF HearInv, BaseInv, SharedTypeOK
<1> QED BY <1>1, SharedInvariant, PTL

(* A node that a settled peer sends has arrived or is on its way, on       *)
(* whichever replicas the two peers are.                                   *)
THEOREM PeersAreTold == ASSUME Sizes PROVE CoordinatorsSpec => []PeersHear
<1>1. HearInv => PeersHear
  BY HearInvAgent, HearInvClient DEF PeersHear
<1> QED BY <1>1, SharedInvariant, PTL

(* A replica's node of the agent is never replaced by an older one.        *)
THEOREM ReplicasNodeAdvances == ASSUME Sizes PROVE CoordinatorsSpec => NodeNeverRegresses
<1>1. HearInv /\ [OneReplica \/ TwoReplicas]_<<part, vars, haVars>> => [H!NodeAdvances]_haVars
  BY SharedSteps, NextAdvances DEF HearInv, BaseInv
<1> QED BY <1>1, SharedInvariant, PTL DEF CoordinatorsSpec, NodeNeverRegresses
=============================================================================
