--------------------------- MODULE MCReplicas ---------------------------
(***************************************************************************)
(* Components by which replicas, agents and git commands are connected: a  *)
(* behaviour is of one of them, and the others stay as they begin.         *)
(***************************************************************************)
EXTENDS Naturals, Sequences

CONSTANTS
    Replicas, MaxFaults,                                              \* of ReplicaSync
    Requests, Conns,                                                  \* of WSConnCache
    MaxStatus, MaxSessions, TailnetPeers, MaxTime, TCPConns, Sides,   \* of TailnetConn
    Sessions, MaxBuild,                                               \* of AgentConnection
    Asks, Logins, Casts, MaxTokens, MaxLost,                          \* of GitAuth
    Agent, AgentConns, Clients, MaxVersion, NoConn                    \* of Coordinator

VARIABLES
    part,   \* which component the behaviour is of
    life, row_replicas, peers, selfError, sync, held, updating, needsUpdate, notes, faults_replicas,
    entry, flight, waiting, req, conn, locks, timer, cache, side, asOf, arriving, lastStatus,
    nodeSending, nodeChanged, sending, nodeCallback, delivered, now, peerMap, handshake, listener,
    closed, tcp, row_connection, latest_connection, session_connection, config, link, issued,
    expired, revoked, refreshed, ask, login, dropped, faults_gitauth, closed_coordinator, nodes,
    agentSocket, subscribed, session_coordinator, open, latest_coordinator, inbox, out, got, closing

\* Replicas that may stall, crash or be out of reach.
R == INSTANCE ReplicaSync WITH row <- row_replicas, faults <- faults_replicas

\* Requests for the connection to one agent.
C == INSTANCE WSConnCache

\* Status reports and sessions, peers, TCP connections.
T == INSTANCE TailnetConn WITH Peers <- TailnetPeers

\* Sessions of the agent, and new builds.
N == INSTANCE AgentConnection WITH
        row <- row_connection, latest <- latest_connection, session <- session_connection

\* Git commands and logins.
G == INSTANCE GitAuth WITH MaxFaults <- MaxLost, faults <- faults_gitauth

\* Websockets of an agent and of clients.
O == INSTANCE Coordinator WITH
        None <- NoConn,
        closed <- closed_coordinator, session <- session_coordinator, latest <- latest_coordinator

\* The variables of each component, and all.
varsR == <<life, row_replicas, peers, selfError, sync, held, updating, needsUpdate, notes,
           faults_replicas>>
varsC == <<entry, flight, waiting, req, conn, locks, timer, cache>>
varsT == <<side, asOf, arriving, lastStatus, nodeSending, nodeChanged, sending, nodeCallback,
           delivered, now, peerMap, handshake, listener, closed, tcp>>
varsN == <<row_connection, latest_connection, session_connection>>
varsG == <<config, link, issued, expired, revoked, refreshed, ask, login, dropped, faults_gitauth>>
varsO == <<closed_coordinator, nodes, agentSocket, subscribed, session_coordinator, open,
           latest_coordinator, inbox, out, got, closing>>
nodeT == <<asOf, arriving, lastStatus, nodeSending, nodeChanged, sending, nodeCallback, delivered>>
forwardT == <<listener, closed, tcp>>
vars == <<part, varsR, varsC, varsT, varsN, varsG, varsO>>

Init ==
    /\ part \in {"replicas", "cache", "tailnet", "connection", "gitauth", "coordinator"}
    /\ R!Init
    /\ C!Init
    /\ T!Init /\ (part # "tailnet" => side = "node")
    /\ N!Init
    /\ G!Init /\ (part # "gitauth" => link = 0 /\ config = [noRefresh |-> FALSE, validate |-> FALSE])
    /\ O!Init

Next ==
    \/ part = "replicas" /\ R!Next /\ UNCHANGED <<part, varsC, varsT, varsN, varsG, varsO>>
    \/ part = "cache" /\ C!Next /\ UNCHANGED <<part, varsR, varsT, varsN, varsG, varsO>>
    \/ part = "tailnet" /\ T!Next /\ UNCHANGED <<part, varsR, varsC, varsN, varsG, varsO>>
    \/ part = "connection" /\ N!Next /\ UNCHANGED <<part, varsR, varsC, varsT, varsG, varsO>>
    \/ part = "gitauth" /\ G!Next /\ UNCHANGED <<part, varsR, varsC, varsT, varsN, varsO>>
    \/ part = "coordinator" /\ O!Next /\ UNCHANGED <<part, varsR, varsC, varsT, varsN, varsG>>

\* The fairness each module states, for the behaviours of that component.
Fairness ==
    /\ \A r \in Replicas :
          /\ WF_varsR(part = "replicas" /\ R!Start(r)) /\ WF_varsR(part = "replicas" /\ R!Tick(r)) /\ WF_varsR(part = "replicas" /\ R!CloseStep(r))
          /\ \A c \in R!Callers : WF_varsR(part = "replicas" /\ R!SyncStep(r, c))
          /\ WF_varsR(part = "replicas" /\ life[r] \in {"closed", "crashed"} /\ R!Stall(r))
    /\ \A r \in Requests : WF_varsC(part = "cache" /\ C!AcquireStep(r))
    /\ \A c \in Conns : WF_varsC(part = "cache" /\ C!TimerFires(c)) /\ WF_varsC(part = "cache" /\ C!Watch(c))
    /\ WF_varsC(part = "cache" /\ C!CloseEnd)
    /\ \A s \in 1 .. MaxStatus : WF_nodeT(part = "tailnet" /\ T!StatusCallback(s))
    /\ WF_nodeT(part = "tailnet" /\ T!Sent)
    /\ \A c \in TCPConns : /\ WF_forwardT(part = "tailnet" /\ T!Abandon(c))
                                 /\ WF_forwardT(part = "tailnet" /\ closed /\ T!LocalEnds(c))
    /\ \A s \in Sessions :
          /\ WF_varsN(part = "connection" /\ N!Check(s)) /\ WF_varsN(part = "connection" /\ N!Connect(s))
          /\ WF_varsN(part = "connection" /\ N!Beat(s)) /\ WF_varsN(part = "connection" /\ N!Disconnect(s))
    /\ WF_varsN(part = "connection" /\ N!Inactive)
    /\ \A a \in Asks : WF_varsG(part = "gitauth" /\ G!Command(a))
    /\ \A l \in Logins : WF_varsG(part = "gitauth" /\ G!Callback(l))
    /\ \A c \in Clients :
          WF_varsO(part = "coordinator" /\ (O!RegisterClient(c) \/ O!HandleClient(c) \/ O!EndClient(c) \/ O!ForwardFails(c)))
    /\ \A a \in AgentConns :
          WF_varsO(part = "coordinator" /\ (O!RegisterAgent(a) \/ O!HandleAgent(a) \/ O!EndAgent(a)))
    /\ \A p \in AgentConns \union Clients :
          /\ WF_varsO(part = "coordinator" /\ O!Greet(p)) /\ WF_varsO(part = "coordinator" /\ \E w \in out[p] : O!Forward(p, w))
          /\ WF_varsO(part = "coordinator" /\ O!CloseSocket(p))

Spec == Init /\ [][Next]_vars /\ Fairness

-----------------------------------------------------------------------------

\* The components keep their types, and when Close of the connection cache has returned no
\* connection is left open, also none whose dial was under way.
ReplicasSafe ==
    /\ part = "replicas" => R!TypeOK
    /\ part = "cache" => C!TypeOK /\ C!NothingLeftOpen
    /\ part = "tailnet" => T!TypeOK
    /\ part = "connection" => N!TypeOK

\* A replica that has stopped is not made to look alive again: Close waits for what
\* syncReplicas, which writes stopped_at too, has under way.  A peer that shook hands in the
\* last five minutes is not dropped.
ReplicasSteps ==
    [][/\ part = "replicas" => R!StaysStopped
       /\ part = "tailnet" => T!OnlyStalePeersGo]_vars

\* What the components know of each other catches up with what there is.
ReplicasLive ==
    \* Replicas find and forget each other, whichever of the concurrent syncReplicas stores
    \* its peers last.
    /\ part = "replicas" => R!PeersConverge
    \* A connection nobody holds is used again or closed, also one that fell out of the cache.
    /\ part = "cache" => C!IdleConnsClose
    \* The latest session has the latest status in the end, although reports overtake each
    \* other; an incoming connection is accepted or closed, also when the listener goes away
    \* while it is offered.
    /\ part = "tailnet" => T!LatestIsSent /\ T!ForwardsEnd
    \* A session of an older build ends, also one that was checked before the new build came;
    \* the row catches up with the sessions whatever the order of their writes.
    /\ part = "connection" => N!OutdatedAgentsGo /\ N!StatusCatchesUp
    \* A command that waits for the user gets its answer once a good token is stored and
    \* stays, even when the notification is lost.
    /\ part = "gitauth" => G!LoginAnswersAsk
    \* Every socket that Close finds registered is closed and its goroutine cleans up, even
    \* one that is in the middle of publishing.
    /\ part = "coordinator" => O!CloseDrains
=============================================================================
