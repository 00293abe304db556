--------------------------- MODULE HACoordinator ---------------------------
(***************************************************************************)
(* The coordinators of several coderd replicas (enterprise/tailnet), which *)
(* exchange nodes over Postgres's pubsub: one agent and one client, each   *)
(* with websockets that end and are opened again, on any replica.  A       *)
(* handler lets go of the mutex between its steps.  A message of the        *)
(* pubsub reaches every other replica, each message in a goroutine of its   *)
(* own, so messages are handled in any order.                               *)
(*                                                                         *)
(* A node is the number of its version; AsOf grows with it.  0 is no node. *)
(***************************************************************************)
EXTENDS Naturals, FiniteSets, Functions

CONSTANTS
    Replicas,
    AgentSockets,      \* the agent's websockets, at most one of them opened at a time
    ClientSockets,     \* the client's
    MaxVersion,        \* bounds the nodes the agent sends
    MaxClientVersion   \* bounds the nodes the client sends

VARIABLES
    agentNode,     \* nodes[agent], by replica
    clientNode,    \* nodes[client], by replica
    agentSocket,   \* agentSockets[agent], by replica
    subscribed,    \* agentToConnectionSockets[agent], by replica
    agent,         \* the serving goroutine of each of the agent's websockets
    client,        \* the same for the client
    queue,         \* the messages each replica has still to handle
    handler,       \* what a replica's pubsub goroutine has still to write to clients
    agentSent, agentGot,      \* the agent's latest node, and the newest of the client's it got
    clientSent, clientGot,    \* the client's latest node, and the newest of the agent's
    owedAgent,     \* the newest client node sent while nothing stood between the two
    owedClient     \* the same for the agent's nodes

rvars == <<agentNode, clientNode, agentSocket, subscribed>>
pvars == <<agentSent, agentGot, clientSent, clientGot>>
vars == <<rvars, agent, client, queue, handler, pvars, owedAgent, owedClient>>

NoSocket == "none"
Off == [at |-> "off"]
Gone == [at |-> "gone"]
Idle == [node |-> 0, to |-> {}]

Messages ==
    [type : {"clienthello", "agenthello"}]
    \union [type : {"callmemaybe", "agentupdate"}, node : 1 .. MaxVersion]

TypeOK ==
    /\ agentNode \in [Replicas -> 0 .. MaxVersion] /\ clientNode \in [Replicas -> 0 .. MaxVersion]
    /\ agentSocket \in [Replicas -> AgentSockets \union {NoSocket}]
    /\ subscribed \in [Replicas -> SUBSET ClientSockets]
    /\ \A s \in AgentSockets : agent[s].at \in {"off", "hello", "greeted", "serving", "writing", "publish", "gone"}
    /\ \A s \in ClientSockets : client[s].at \in {"off", "greet", "greeted", "serving", "toAgent", "gone"}
    /\ queue \in [Replicas -> SUBSET Messages]
    /\ handler \in [Replicas -> [node : 0 .. MaxVersion, to : SUBSET ClientSockets]]
    /\ {agentSent, agentGot, clientSent, clientGot, owedAgent, owedClient} \subseteq 0 .. MaxVersion

Init ==
    /\ agentNode = [r \in Replicas |-> 0] /\ clientNode = [r \in Replicas |-> 0]
    /\ agentSocket = [r \in Replicas |-> NoSocket]
    /\ subscribed = [r \in Replicas |-> {}]
    /\ agent = [s \in AgentSockets |-> Off] /\ client = [s \in ClientSockets |-> Off]
    /\ queue = [r \in Replicas |-> {}]
    /\ handler = [r \in Replicas |-> Idle]
    /\ agentSent = 0 /\ agentGot = 0 /\ clientSent = 0 /\ clientGot = 0
    /\ owedAgent = 0 /\ owedClient = 0

----------------------------------------------------------------------------
Open(socks) == {s \in DOMAIN socks : socks[s] \notin {Off, Gone}}

\* Each peer has one websocket, which is up and registered where it is served.
Settled ==
    /\ \E s \in Open(agent) : Open(agent) = {s} /\ agent[s].up /\ agentSocket[agent[s].on] = s
    /\ \E s \in Open(client) : Open(client) = {s} /\ client[s].up /\ s \in subscribed[client[s].on]

\* The agent and the client have a live websocket each; what is written to another is lost.
Live(socks, s) == s \in Open(socks) /\ socks[s].up
Newest(got, node, socks, s) == IF Live(socks, s) /\ node > got THEN node ELSE got

\* The same for a write to all sockets of clients that were collected with the mutex held.
NewestOf(write) ==
    IF write.node > clientGot /\ \E t \in write.to : Live(client, t) THEN write.node ELSE clientGot

\* Mutant of Publish: the sender alone takes its message.
PublishBack(r, m) == queue' = [queue EXCEPT ![r] = @ \union {m}]

\* Publish: the message reaches every replica but its sender, which ignores it.
Publish(r, m) == queue' = [q \in Replicas |-> IF q = r THEN queue[q] ELSE queue[q] \union {m}]

\* nodesSubscribedToAgent, for the one client there is
Waiting(r) == IF subscribed[r] # {} THEN clientNode[r] ELSE 0

----------------------------------------------------------------------------
(* ServeClient.                                                             *)

\* The client has dialed; the agent's node is looked up, or asked for.
ClientConnect(s, r) ==
    /\ client[s] = Off /\ \A t \in Open(client) : ~client[t].up
    /\ client' = [client EXCEPT ![s] = [at |-> IF agentNode[r] # 0 THEN "greet" ELSE "greeted",
                                        on |-> r, up |-> TRUE, node |-> agentNode[r]]]
    /\ IF agentNode[r] = 0 THEN Publish(r, [type |-> "clienthello"]) ELSE UNCHANGED queue
    /\ owedAgent' = 0 /\ owedClient' = 0
    /\ UNCHANGED <<rvars, agent, handler, pvars>>

ClientGreet(s) ==
    /\ client[s].at = "greet"
    /\ clientGot' = Newest(clientGot, client[s].node, client, s)
    /\ client' = [client EXCEPT ![s].at = "greeted"]
    /\ UNCHANGED <<rvars, agent, queue, handler, agentSent, agentGot, clientSent, owedAgent, owedClient>>

ClientRegister(s) ==
    /\ client[s].at = "greeted"
    /\ subscribed' = [subscribed EXCEPT ![client[s].on] = @ \union {s}]
    /\ client' = [client EXCEPT ![s].at = "serving"]
    /\ UNCHANGED <<agentNode, clientNode, agentSocket, agent, queue, handler, pvars, owedAgent, owedClient>>

\* handleNextClientMessage: the node is stored; a replica without the agent publishes it.
ClientUpdate(s) ==
    LET r == client[s].on
        v == clientSent + 1
    IN
    /\ client[s].at = "serving" /\ client[s].up /\ clientSent < MaxClientVersion
    /\ clientSent' = v
    /\ clientNode' = [clientNode EXCEPT ![r] = v]
    /\ IF agentSocket[r] = NoSocket
       THEN Publish(r, [type |-> "callmemaybe", node |-> v]) /\ UNCHANGED client
       ELSE /\ client' = [client EXCEPT ![s] = [at |-> "toAgent", on |-> r, up |-> TRUE,
                                                node |-> v, to |-> agentSocket[r]]]
            /\ UNCHANGED queue
    /\ owedAgent' = IF Settled THEN v ELSE owedAgent
    /\ UNCHANGED <<agentNode, agentSocket, subscribed, agent, handler, agentSent, agentGot, clientGot, owedClient>>

\* The write to the agent's socket, after the mutex is released.
ClientToAgent(s) ==
    /\ client[s].at = "toAgent"
    /\ agentGot' = Newest(agentGot, client[s].node, agent, client[s].to)
    /\ client' = [client EXCEPT ![s] = [at |-> "serving", on |-> @.on, up |-> @.up, node |-> 0]]
    /\ UNCHANGED <<rvars, agent, queue, handler, agentSent, clientSent, clientGot, owedAgent, owedClient>>

\* The deferred clean-up, once the read fails.
ClientLeave(s) ==
    LET r == client[s].on IN
    /\ client[s].at = "serving" /\ ~client[s].up
    /\ clientNode' = [clientNode EXCEPT ![r] = 0]
    /\ subscribed' = [subscribed EXCEPT ![r] = @ \ {s}]
    /\ client' = [client EXCEPT ![s] = Gone]
    /\ UNCHANGED <<agentNode, agentSocket, agent, queue, handler, pvars, owedAgent, owedClient>>

----------------------------------------------------------------------------
(* ServeAgent.                                                              *)

AgentConnect(s, r) ==
    /\ agent[s] = Off /\ \A t \in Open(agent) : ~agent[t].up
    /\ agent' = [agent EXCEPT ![s] = [at |-> "hello", on |-> r, up |-> TRUE]]
    /\ Publish(r, [type |-> "agenthello"])
    /\ owedAgent' = 0 /\ owedClient' = 0
    /\ UNCHANGED <<rvars, client, handler, pvars>>

\* The clients of this replica, read and written.
AgentGreet(s) ==
    LET n == Waiting(agent[s].on) IN
    /\ agent[s].at = "hello"
    /\ agentGot' = IF n # 0 THEN Newest(agentGot, n, agent, s) ELSE agentGot
    /\ agent' = [agent EXCEPT ![s].at = "greeted"]
    /\ UNCHANGED <<rvars, client, queue, handler, agentSent, clientSent, clientGot, owedAgent, owedClient>>

\* An older socket of the agent is closed and replaced.
AgentRegister(s) ==
    LET r == agent[s].on IN
    /\ agent[s].at = "greeted"
    /\ agentSocket' = [agentSocket EXCEPT ![r] = s]
    /\ agent' = [t \in AgentSockets |->
                    IF t = s THEN [agent[s] EXCEPT !.at = "serving"]
                    ELSE IF t = agentSocket[r] /\ t \in Open(agent) THEN [agent[t] EXCEPT !.up = FALSE]
                    ELSE agent[t]]
    /\ UNCHANGED <<agentNode, clientNode, subscribed, client, queue, handler, pvars, owedAgent, owedClient>>

\* Mutant of Stored: the node that arrives last is kept, however old.
StoredAnyway(r, node) == node

\* Mutant of Stored: a replica that has a node keeps it.
StoredFirst(r, node) == IF agentNode[r] # 0 THEN agentNode[r] ELSE node

\* handleAgentUpdate keeps the node it has when that one is newer.
Stored(r, node) == IF agentNode[r] > node THEN agentNode[r] ELSE node

\* handleAgentUpdate up to the release of the mutex, for a node of the agent itself.
AgentUpdate(s) ==
    LET r == agent[s].on
        v == agentSent + 1
    IN
    /\ agent[s].at = "serving" /\ agent[s].up /\ agentSent < MaxVersion
    /\ agentSent' = v
    /\ agentNode' = [agentNode EXCEPT ![r] = Stored(r, v)]
    /\ agent' = [agent EXCEPT ![s] = [at |-> "writing", on |-> r, up |-> TRUE, node |-> Stored(r, v),
                                      to |-> IF Stored(r, v) = v THEN subscribed[r] ELSE {}]]
    /\ owedClient' = IF Settled THEN v ELSE owedClient
    /\ UNCHANGED <<clientNode, agentSocket, subscribed, client, queue, handler, agentGot, clientSent, clientGot, owedAgent>>

\* The writes to the clients' sockets, which it waits for ...
AgentToClients(s) ==
    /\ agent[s].at = "writing"
    /\ clientGot' = NewestOf(agent[s])
    /\ agent' = [agent EXCEPT ![s].at = "publish"]
    /\ UNCHANGED <<rvars, client, queue, handler, agentSent, agentGot, clientSent, owedAgent, owedClient>>

\* ... and publishAgentToNodes.
AgentPublish(s) ==
    /\ agent[s].at = "publish"
    /\ Publish(agent[s].on, [type |-> "agentupdate", node |-> agent[s].node])
    /\ agent' = [agent EXCEPT ![s] = [at |-> "serving", on |-> @.on, up |-> @.up]]
    /\ UNCHANGED <<rvars, client, handler, pvars, owedAgent, owedClient>>

AgentLeave(s) ==
    LET r == agent[s].on IN
    /\ agent[s].at = "serving" /\ ~agent[s].up
    /\ agentSocket' = [agentSocket EXCEPT ![r] = NoSocket]
    /\ agentNode' = [agentNode EXCEPT ![r] = 0]
    /\ agent' = [agent EXCEPT ![s] = Gone]
    /\ UNCHANGED <<clientNode, subscribed, client, queue, handler, pvars, owedAgent, owedClient>>

----------------------------------------------------------------------------
(* runPubsub and handlePubsubMessage: one message at a time.                *)

Take(r, m) == queue' = [queue EXCEPT ![r] = @ \ {m}]
Ready(r, m, type) == handler[r] = Idle /\ m \in queue[r] /\ m.type = type

\* callmemaybe: the node goes to the agent's socket, if the agent is here.
CallMeMaybe(r, m) ==
    /\ Ready(r, m, "callmemaybe")
    /\ Take(r, m)
    /\ agentGot' = IF agentSocket[r] # NoSocket
                   THEN Newest(agentGot, m.node, agent, agentSocket[r]) ELSE agentGot
    /\ UNCHANGED <<rvars, agent, client, handler, agentSent, clientSent, clientGot, owedAgent, owedClient>>

\* Mutant of Known: the reply is published also by a replica without the agent's node.
KnownAnyway(r) == TRUE

Known(r) == agentNode[r] # 0

\* clienthello: a replica that knows the agent's node publishes it.
ClientHello(r, m) ==
    /\ Ready(r, m, "clienthello")
    /\ queue' = [q \in Replicas |->
                    IF q = r THEN queue[q] \ {m}
                    ELSE IF ~Known(r) THEN queue[q]
                    ELSE queue[q] \union {[type |-> "agentupdate", node |-> agentNode[r]]}]
    /\ UNCHANGED <<rvars, agent, client, handler, pvars, owedAgent, owedClient>>

\* agenthello: a replica with a client's node publishes it to the agent.
AgentHello(r, m) ==
    /\ Ready(r, m, "agenthello")
    /\ queue' = [q \in Replicas |->
                    IF q = r THEN queue[q] \ {m}
                    ELSE IF Waiting(r) = 0 THEN queue[q]
                    ELSE queue[q] \union {[type |-> "callmemaybe", node |-> Waiting(r)]}]
    /\ UNCHANGED <<rvars, agent, client, handler, pvars, owedAgent, owedClient>>

\* agentupdate: handleAgentUpdate again, up to the release of the mutex ...
RemoteUpdate(r, m) ==
    /\ Ready(r, m, "agentupdate")
    /\ Take(r, m)
    /\ agentNode' = [agentNode EXCEPT ![r] = Stored(r, m.node)]
    /\ handler' = [handler EXCEPT ![r] =
                    IF Stored(r, m.node) = m.node /\ subscribed[r] # {}
                    THEN [node |-> m.node, to |-> subscribed[r]] ELSE Idle]
    /\ UNCHANGED <<clientNode, agentSocket, subscribed, agent, client, pvars, owedAgent, owedClient>>

\* ... and its writes.
RemoteToClients(r) ==
    /\ handler[r] # Idle
    /\ clientGot' = NewestOf(handler[r])
    /\ handler' = [handler EXCEPT ![r] = Idle]
    /\ UNCHANGED <<rvars, agent, client, queue, agentSent, agentGot, clientSent, owedAgent, owedClient>>

----------------------------------------------------------------------------
(* The network: a websocket breaks, or its replica closes it.               *)

AgentBreaks(s) ==
    /\ Live(agent, s)
    /\ agent' = [agent EXCEPT ![s].up = FALSE]
    /\ owedAgent' = 0 /\ owedClient' = 0
    /\ UNCHANGED <<rvars, client, queue, handler, pvars>>

ClientBreaks(s) ==
    /\ Live(client, s)
    /\ client' = [client EXCEPT ![s].up = FALSE]
    /\ owedAgent' = 0 /\ owedClient' = 0
    /\ UNCHANGED <<rvars, agent, queue, handler, pvars>>

ClientStep(s) ==
    \/ ClientGreet(s) \/ ClientRegister(s) \/ ClientUpdate(s) \/ ClientToAgent(s) \/ ClientLeave(s)

AgentStep(s) ==
    \/ AgentGreet(s) \/ AgentRegister(s) \/ AgentUpdate(s) \/ AgentToClients(s)
    \/ AgentPublish(s) \/ AgentLeave(s)

Handle(r) ==
    \/ \E m \in queue[r] : CallMeMaybe(r, m) \/ ClientHello(r, m) \/ AgentHello(r, m) \/ RemoteUpdate(r, m)
    \/ RemoteToClients(r)

Next ==
    \/ \E s \in ClientSockets : ClientStep(s) \/ ClientBreaks(s) \/ \E r \in Replicas : ClientConnect(s, r)
    \/ \E s \in AgentSockets : AgentStep(s) \/ AgentBreaks(s) \/ \E r \in Replicas : AgentConnect(s, r)
    \/ \E r \in Replicas : Handle(r)

Spec == Init /\ [][Next]_vars

----------------------------------------------------------------------------
\* Node versions on their way to the agent and to the client.
ToAgent ==
    {m.node : m \in {x \in UNION Range(queue) : x.type = "callmemaybe"}}
    \union {client[s].node : s \in {t \in Open(client) : client[t].at = "toAgent"}}
ToClient ==
    {m.node : m \in {x \in UNION Range(queue) : x.type = "agentupdate"}}
    \union {agent[s].node : s \in {t \in Open(agent) : agent[t].at \in {"writing", "publish"}}}
    \union {handler[r].node : r \in Replicas}

\* A node the client sends while both peers are connected and registered, each to one
\* replica, reaches the agent or is on its way, whichever replicas the two are on.
AgentHears == owedAgent > agentGot => \E n \in ToAgent : n >= owedAgent

\* The same for the agent's nodes: neither reordering by the pubsub's goroutines nor a stale
\* node that a replica kept from an earlier session of the agent hides a newer one.
ClientHears == owedClient > clientGot => \E n \in ToClient : n >= owedClient

\* A replica's node of the agent is replaced by a newer one or removed with the agent's
\* session, never by an older one that arrives late.
NodeAdvances == \A r \in Replicas : agentNode'[r] >= agentNode[r] \/ agentNode'[r] = 0
NodeNeverRegresses == [][NodeAdvances]_vars
============================================================================
