---------------------------- MODULE TailnetConn ----------------------------
(***************************************************************************)
(* A tailnet connection (tailnet/conn.go): the engine's callbacks record   *)
(* endpoints and the preferred DERP region, sendNode sends the node to the *)
(* coordinator one at a time, UpdateNodes keeps the peers, and forwardTCP  *)
(* hands connections to listeners.  The engine is external: it reports     *)
(* status with increasing AsOf, from goroutines of its own, so that        *)
(* reports may arrive in another order.                                    *)
(***************************************************************************)
EXTENDS Naturals, FiniteSets

CONSTANTS
    MaxStatus,      \* status reports of the engine
    MaxSessions,    \* coordinator connections: calls of SetNodeCallback
    Peers,          \* node IDs the coordinator may send
    MaxTime,        \* in units of five minutes
    TCPConns,       \* incoming TCP connections
    Sides           \* which of the three parts of the state change

VARIABLES
    side,
    asOf,           \* reports the engine has made; each is newer than the last
    arriving,       \* reports whose callback has not run
    lastStatus,     \* the newest report that was recorded
    nodeSending, nodeChanged,
    sending,        \* the node a goroutine is sending: [status, session]
    nodeCallback,   \* the coordinator session of the callback, 0 for none
    delivered,      \* the newest status that session has been sent
    now, peerMap, handshake,       \* peers: when created, their last handshake
    listener,       \* none, open or closed
    closed,
    tcp             \* what has become of each incoming connection

node == <<asOf, arriving, lastStatus, nodeSending, nodeChanged, sending, nodeCallback, delivered>>
peers == <<now, peerMap, handshake>>
forward == <<listener, closed, tcp>>
vars == <<side, node, peers, forward>>

Never == MaxTime + 1
NotSending == [status |-> 0, session |-> 0]

TypeOK ==
    /\ side \in Sides
    /\ asOf \in 0 .. MaxStatus /\ lastStatus \in 0 .. MaxStatus
    /\ arriving \subseteq 1 .. MaxStatus
    /\ nodeSending \in BOOLEAN /\ nodeChanged \in BOOLEAN
    /\ sending \in [status : 0 .. MaxStatus, session : 0 .. MaxSessions]
    /\ nodeCallback \in 0 .. MaxSessions /\ delivered \in 0 .. MaxStatus
    /\ now \in 1 .. MaxTime
    /\ peerMap \in [Peers -> 0 .. Never] /\ handshake \in [Peers -> 0 .. MaxTime]
    /\ listener \in {"none", "open", "closed"} /\ closed \in BOOLEAN
    /\ tcp \in [TCPConns -> {"none", "lookup", "offered", "forwarded", "accepted", "closed"}]

Init ==
    /\ side \in Sides
    /\ asOf = 0 /\ arriving = {} /\ lastStatus = 0
    /\ nodeSending = FALSE /\ nodeChanged = FALSE /\ sending = NotSending
    /\ nodeCallback = 0 /\ delivered = 0
    /\ now = 1 /\ peerMap = [p \in Peers |-> Never] /\ handshake = [p \in Peers |-> 0]
    /\ listener = "none" /\ closed = FALSE
    /\ tcp = [c \in TCPConns |-> "none"]

-----------------------------------------------------------------------------
(* Sending the node *)

\* The engine has another status and starts a goroutine with the callback.
EngineReports ==
    /\ asOf < MaxStatus
    /\ asOf' = asOf + 1 /\ arriving' = arriving \union {asOf + 1}
    /\ UNCHANGED <<lastStatus, nodeSending, nodeChanged, sending, nodeCallback, delivered>>

\* sendNode: while a node is being sent, it only notes that there is more.
\* The node is read under the mutex and sent by a goroutine.
sendNode(status, session) ==
    \/ /\ nodeSending
       /\ nodeChanged' = TRUE
       /\ UNCHANGED <<nodeSending, sending>>
    \/ /\ ~nodeSending /\ session = 0
       /\ UNCHANGED <<nodeSending, nodeChanged, sending>>
    \/ /\ ~nodeSending /\ session # 0
       /\ nodeSending' = TRUE
       /\ sending' = [status |-> status, session |-> session]
       /\ UNCHANGED nodeChanged

\* Mutant of Outdated: every status is recorded.
OutdatedNever(s) == FALSE

\* "Don't process outdated status!"
Outdated(s) == s < lastStatus

StatusCallback(s) ==
    /\ s \in arriving
    /\ arriving' = arriving \ {s}
    /\ IF Outdated(s)
       THEN UNCHANGED <<lastStatus, nodeSending, nodeChanged, sending>>
       ELSE lastStatus' = s /\ sendNode(s, nodeCallback)
    /\ UNCHANGED <<asOf, nodeCallback, delivered>>

\* A new coordinator connection: the callback is replaced and called.
SetNodeCallback ==
    /\ nodeCallback < MaxSessions
    /\ nodeCallback' = nodeCallback + 1
    /\ delivered' = 0
    /\ sendNode(lastStatus, nodeCallback + 1)
    /\ UNCHANGED <<asOf, arriving, lastStatus>>

\* Mutant of Again: what changed while a node was sent is forgotten.
AgainNever == FALSE

Again == nodeChanged

\* The callback returns: it has written to its session, or that one is gone.
Sent ==
    /\ nodeSending
    /\ delivered' = IF sending.session = nodeCallback THEN sending.status ELSE delivered
    /\ nodeChanged' = FALSE
    /\ IF Again
       THEN sending' = [status |-> lastStatus, session |-> nodeCallback] /\ UNCHANGED nodeSending
       ELSE nodeSending' = FALSE /\ sending' = NotSending
    /\ UNCHANGED <<asOf, arriving, lastStatus, nodeCallback>>

NodeNext ==
    \/ EngineReports \/ SetNodeCallback \/ Sent
    \/ \E s \in 1 .. MaxStatus : StatusCallback(s)

-----------------------------------------------------------------------------
(* UpdateNodes *)

\* Five minutes pass; peers that exchange traffic handshake every two.
Tick(active) ==
    /\ now < MaxTime
    /\ now' = now + 1
    /\ handshake' = [p \in Peers |-> IF p \in active /\ peerMap[p] # Never THEN now + 1 ELSE handshake[p]]
    /\ UNCHANGED peerMap

\* Mutant of Stale: the handshake is not looked at.
StaleByAge(p) == peerMap[p] < now

\* A peer was added five minutes ago and has not shaken hands for as long.
Stale(p) == peerMap[p] < now /\ handshake[p] < now

\* The nodes are added, or added anew, after the stale peers that the engine
\* knows were removed.
UpdateNodes(nodes, known) ==
    /\ peerMap' = [p \in Peers |->
            IF p \in nodes THEN now
            ELSE IF p \in known /\ peerMap[p] # Never /\ Stale(p) THEN Never ELSE peerMap[p]]
    /\ UNCHANGED <<now, handshake>>

PeersNext ==
    \/ \E active \in SUBSET Peers : Tick(active)
    \/ \E nodes, known \in SUBSET Peers : UpdateNodes(nodes, known)

-----------------------------------------------------------------------------
(* Listen, forwardTCP and Close *)

Listen ==
    /\ ~closed /\ listener # "open"
    /\ listener' = "open"
    /\ UNCHANGED <<closed, tcp>>

ListenerClose ==
    /\ listener = "open"
    /\ listener' = "closed"
    /\ UNCHANGED <<closed, tcp>>

Close ==
    /\ ~closed
    /\ closed' = TRUE
    /\ listener' = IF listener = "open" THEN "closed" ELSE listener
    /\ UNCHANGED tcp

\* forwardTCP looks for a listener of the port; without one it dials the local port.
ForwardTCP(c) ==
    /\ tcp[c] = "none" /\ ~closed
    /\ tcp' = [tcp EXCEPT ![c] = IF listener = "open" THEN "offered" ELSE "forwarded"]
    /\ UNCHANGED <<listener, closed>>

\* Accept takes the connection that is offered on the channel.
Accept(c) ==
    /\ tcp[c] = "offered" /\ listener = "open"
    /\ tcp' = [tcp EXCEPT ![c] = "accepted"]
    /\ UNCHANGED <<listener, closed>>

\* Mutant of GivesUp: forwardTCP waits for an Accept.
GivesUpNever(c) == FALSE

\* The second is over, or the listener or the connection was closed.
GivesUp(c) == tcp[c] = "offered"

Abandon(c) ==
    /\ GivesUp(c)
    /\ tcp' = [tcp EXCEPT ![c] = "closed"]
    /\ UNCHANGED <<listener, closed>>

\* forwardTCPToLocal: the dial fails, one side ends, or the tailnet is closed.
LocalEnds(c) ==
    /\ tcp[c] = "forwarded"
    /\ tcp' = [tcp EXCEPT ![c] = "closed"]
    /\ UNCHANGED <<listener, closed>>

ForwardNext ==
    \/ Listen \/ ListenerClose \/ Close
    \/ \E c \in TCPConns : ForwardTCP(c) \/ Accept(c) \/ Abandon(c) \/ LocalEnds(c)

-----------------------------------------------------------------------------

Next ==
    \/ side = "node" /\ NodeNext /\ UNCHANGED <<side, now, peerMap, handshake, listener, closed, tcp>>
    \/ /\ side = "peers" /\ PeersNext
       /\ UNCHANGED <<side, asOf, arriving, lastStatus, nodeSending, nodeChanged, sending,
                      nodeCallback, delivered, listener, closed, tcp>>
    \/ /\ side = "forward" /\ ForwardNext
       /\ UNCHANGED <<side, asOf, arriving, lastStatus, nodeSending, nodeChanged, sending,
                      nodeCallback, delivered, now, peerMap, handshake>>

\* Callbacks run and return (a broken session makes its write fail), an offer
\* runs into its timer and a closed tailnet ends what it forwards.
Fairness ==
    /\ \A s \in 1 .. MaxStatus : WF_node(StatusCallback(s))
    /\ WF_node(Sent)
    /\ \A c \in TCPConns : WF_forward(Abandon(c)) /\ WF_forward(closed /\ LocalEnds(c))

Spec == Init /\ [][Next]_vars /\ Fairness

-----------------------------------------------------------------------------

\* Reports may overtake each other, nodes are sent one at a time and sessions
\* are replaced while one is sent: in the end the latest session has the
\* latest status.
LatestIsSent ==
    <>[](delivered = asOf \/ nodeCallback = 0)

\* A peer that shook hands in the last five minutes is not dropped.
OnlyStalePeersGo ==
    \A p \in Peers : (peerMap[p] # Never /\ peerMap'[p] = Never) => handshake[p] < now
ActivePeersStay == [][OnlyStalePeersGo]_peers

\* An incoming connection is accepted or closed, also when the listener goes
\* away while it is offered.
ForwardsEnd ==
    \A c \in TCPConns :
        (tcp[c] = "offered" \/ (tcp[c] = "forwarded" /\ closed)) ~> (tcp[c] \in {"accepted", "closed"})
=============================================================================
