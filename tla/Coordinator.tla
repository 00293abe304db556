---------------------------- MODULE Coordinator ----------------------------
(***************************************************************************)
(* The in-memory tailnet coordinator (tailnet/coordinator.go): it swaps    *)
(* the WireGuard nodes of one workspace agent and of the clients that want *)
(* to reach it.  Every websocket is served by a goroutine of its own; the  *)
(* maps are guarded by one mutex, which no goroutine holds while it writes *)
(* to a socket.  An action is one critical section or one socket write.    *)
(*                                                                         *)
(* Agents with different IDs share no entry of any map, so one agent ID is *)
(* modelled.  AgentConns are the successive websockets of that agent, and  *)
(* Clients the client websockets (their IDs are fresh UUIDs).  A node is   *)
(* abstracted to its version, 0 standing for an absent map entry.          *)
(***************************************************************************)
EXTENDS Naturals, FiniteSets

CONSTANTS Agent,        \* the ID of the agent
          AgentConns,   \* websockets the agent opens, one after the other
          Clients,      \* IDs of client connections, and their websockets
          MaxVersion,   \* how many times a node changes
          None

ASSUME PeersAssumption ==
    /\ AgentConns \intersect Clients = {}
    /\ Agent \notin Clients
    /\ None \notin AgentConns
ASSUME VersionAssumption == MaxVersion \in Nat

Peers == AgentConns \union Clients
Ids == {Agent} \union Clients
Id(p) == IF p \in AgentConns THEN Agent ELSE p

VARIABLES
    closed,       \* coordinator.closed
    nodes,        \* coordinator.nodes
    agentSocket,  \* coordinator.agentSockets[Agent]
    subscribed,   \* coordinator.agentToConnectionSockets[Agent]
    session,      \* how far the goroutine serving each websocket has come
    open,         \* is the websocket open?
    latest,       \* the version each peer last put on a socket
    inbox,        \* a message decoded but not handled yet
    out,          \* the socket writes a session still has to make
    got,          \* the node each peer last received for each ID
    closing       \* the sockets Close has still to close

maps == <<nodes, agentSocket, subscribed>>
sockets == <<open, got>>
vars == <<closed, maps, session, sockets, latest, inbox, out, closing>>

Versions == 0 .. MaxVersion
Write == [to : Peers, id : Ids, version : 1 .. MaxVersion]

\* Every variable stays in its domain; in particular a registered agent
\* socket is one of the agent's, and nobody writes a node that is absent.
TypeOK ==
    /\ closed \in BOOLEAN
    /\ nodes \in [Ids -> Versions]
    /\ agentSocket \in AgentConns \union {None}
    /\ subscribed \subseteq Clients
    /\ session \in [Peers -> {"new", "greeting", "greeted", "serving", "ended"}]
    /\ open \in [Peers -> BOOLEAN]
    /\ latest \in [Ids -> Versions]
    /\ inbox \in [Peers -> Versions]
    /\ out \in [Peers -> SUBSET Write]
    /\ got \in [Peers -> [Ids -> Versions]]
    /\ closing \subseteq Peers

Init ==
    /\ closed = FALSE
    /\ nodes = [i \in Ids |-> 0]
    /\ agentSocket = None
    /\ subscribed = {}
    /\ session = [p \in Peers |-> "new"]
    /\ open = [p \in Peers |-> FALSE]
    /\ latest = [i \in Ids |-> 0]
    /\ inbox = [p \in Peers |-> 0]
    /\ out = [p \in Peers |-> {}]
    /\ got = [p \in Peers |-> [i \in Ids |-> 0]]
    /\ closing = {}

Goto(p, step) == session' = [session EXCEPT ![p] = step]

-----------------------------------------------------------------------------
\* Writing to sockets.

\* A write that succeeds arrives if the peer is still there; one made while
\* the connection is going down may be lost without an error.
Deliver(ws) ==
    got' = [p \in Peers |-> [i \in Ids |->
              IF \E w \in ws : w.to = p /\ w.id = i /\ open[p]
              THEN (CHOOSE w \in ws : w.to = p /\ w.id = i).version
              ELSE got[p][i]]]

\* NodesFor without the check that the map has the entry (a mutant).
NodesForAbsent(p, ids) ==
    {[to |-> p, id |-> i, version |-> nodes[i]] : i \in ids}

\* The nodes of the maps that will be written to p, once the mutex is free.
NodesFor(p, ids) ==
    {[to |-> p, id |-> i, version |-> nodes[i]] : i \in {k \in ids : nodes[k] > 0}}

-----------------------------------------------------------------------------
\* A websocket is accepted.

\* Both handlers refuse to serve once the coordinator is closed.
ServeRefused(p) ==
    /\ session[p] = "new"
    /\ closed
    /\ Goto(p, "ended")
    /\ UNCHANGED <<closed, maps, sockets, latest, inbox, out, closing>>

\* ServeClient subscribing before it writes the greeting (a mutant).
ServeClientEarly(cl) ==
    /\ session[cl] = "new"
    /\ ~closed
    /\ out' = [out EXCEPT ![cl] = NodesFor(cl, {Agent})]
    /\ open' = [open EXCEPT ![cl] = TRUE]
    /\ subscribed' = subscribed \union {cl}
    /\ Goto(cl, "greeting")
    /\ UNCHANGED <<closed, nodes, agentSocket, got, latest, inbox, closing>>

\* ServeClient's first critical section: read the agent's node.
ServeClient(cl) ==
    /\ session[cl] = "new"
    /\ ~closed
    /\ out' = [out EXCEPT ![cl] = NodesFor(cl, {Agent})]
    /\ open' = [open EXCEPT ![cl] = TRUE]
    /\ Goto(cl, "greeting")
    /\ UNCHANGED <<closed, maps, got, latest, inbox, closing>>

\* ServeAgent registering before it writes the nodes (a mutant).
ServeAgentEarly(a) ==
    /\ session[a] = "new"
    /\ ~closed
    /\ subscribed # {}
    /\ out' = [out EXCEPT ![a] = NodesFor(a, subscribed)]
    /\ open' = [open EXCEPT ![a] = TRUE]
    /\ agentSocket' = a
    /\ Goto(a, "greeting")
    /\ UNCHANGED <<closed, nodes, subscribed, got, latest, inbox, closing>>

\* ServeAgent when clients are waiting: collect their nodes, then unlock.
ServeAgent(a) ==
    /\ session[a] = "new"
    /\ ~closed
    /\ subscribed # {}
    /\ out' = [out EXCEPT ![a] = NodesFor(a, subscribed)]
    /\ open' = [open EXCEPT ![a] = TRUE]
    /\ Goto(a, "greeting")
    /\ UNCHANGED <<closed, maps, got, latest, inbox, closing>>

\* An agent socket that is still registered is closed and replaced.
TakeSocket(a, opened) ==
    /\ agentSocket' = a
    /\ open' = [p \in Peers |-> opened[p] /\ p # agentSocket]
    /\ Goto(a, "serving")

\* ServeAgent when no client is waiting registers in the same section.
ServeAgentAlone(a) ==
    /\ session[a] = "new"
    /\ ~closed
    /\ subscribed = {}
    /\ TakeSocket(a, [open EXCEPT ![a] = TRUE])
    /\ UNCHANGED <<closed, nodes, subscribed, got, latest, inbox, out, closing>>

\* The first write to the new peer.
Greet(p) ==
    /\ session[p] = "greeting"
    /\ Deliver(out[p])
    /\ out' = [out EXCEPT ![p] = {}]
    /\ Goto(p, "greeted")
    /\ UNCHANGED <<closed, maps, open, latest, inbox, closing>>

\* The first write fails: the handler returns before it has registered.
GreetFails(p) ==
    /\ session[p] = "greeting"
    /\ ~open[p]
    /\ p \in Clients => out[p] # {}
    /\ out' = [out EXCEPT ![p] = {}]
    /\ Goto(p, "ended")
    /\ UNCHANGED <<closed, maps, sockets, latest, inbox, closing>>

\* ServeClient's second critical section; closed is not looked at again.
RegisterClient(cl) ==
    /\ session[cl] = "greeted"
    /\ subscribed' = subscribed \union {cl}
    /\ Goto(cl, "serving")
    /\ UNCHANGED <<closed, nodes, agentSocket, sockets, latest, inbox, out, closing>>

\* ServeAgent's second critical section.
RegisterAgent(a) ==
    /\ session[a] = "greeted"
    /\ TakeSocket(a, open)
    /\ UNCHANGED <<closed, nodes, subscribed, got, latest, inbox, out, closing>>

-----------------------------------------------------------------------------
\* Messages from the peers.

\* A session's loop decodes the next message: a new version of the peer's
\* node, or the current one again (a peer sends its node when it connects).
\* What was buffered can still be decoded after the socket was closed.
Decode(p, v) ==
    /\ session[p] = "serving"
    /\ inbox[p] = 0 /\ out[p] = {}
    /\ v > 0
    /\ v = latest[Id(p)] + 1 \/ (v = latest[Id(p)] /\ open[p])
    /\ latest' = [latest EXCEPT ![Id(p)] = v]
    /\ inbox' = [inbox EXCEPT ![p] = v]
    /\ UNCHANGED <<closed, maps, session, sockets, out, closing>>

\* handleNextClientMessage's critical section.
HandleClient(cl) ==
    /\ session[cl] = "serving" /\ inbox[cl] > 0
    /\ nodes' = [nodes EXCEPT ![cl] = inbox[cl]]
    /\ out' = [out EXCEPT ![cl] =
                 {[to |-> a, id |-> cl, version |-> inbox[cl]] : a \in {agentSocket} \ {None}}]
    /\ inbox' = [inbox EXCEPT ![cl] = 0]
    /\ UNCHANGED <<closed, agentSocket, subscribed, session, sockets, latest, closing>>

\* handleNextAgentMessage's critical section: the node is stored, and one
\* goroutine per subscribed client is started to write it.
HandleAgent(a) ==
    /\ session[a] = "serving" /\ inbox[a] > 0
    /\ nodes' = [nodes EXCEPT ![Agent] = inbox[a]]
    /\ out' = [out EXCEPT ![a] =
                 {[to |-> cl, id |-> Agent, version |-> inbox[a]] : cl \in subscribed}]
    /\ inbox' = [inbox EXCEPT ![a] = 0]
    /\ UNCHANGED <<closed, agentSocket, subscribed, session, sockets, latest, closing>>

\* Forward without the write deadline: it waits for a peer that is gone (a mutant).
ForwardBlocks(p, w) ==
    /\ session[p] = "serving"
    /\ w \in out[p]
    /\ open[w.to]
    /\ Deliver({w})
    /\ out' = [out EXCEPT ![p] = @ \ {w}]
    /\ UNCHANGED <<closed, maps, session, open, latest, inbox, closing>>

\* One of those writes.  The agent's session waits for all of its goroutines
\* before it decodes again; it ignores their errors.
Forward(p, w) ==
    /\ session[p] = "serving"
    /\ w \in out[p]
    /\ Deliver({w})
    /\ out' = [out EXCEPT ![p] = @ \ {w}]
    /\ UNCHANGED <<closed, maps, session, open, latest, inbox, closing>>

-----------------------------------------------------------------------------
\* The end of a session: the deferred clean-up.

\* ServeClient's.
LeaveClient(cl) ==
    /\ nodes' = [nodes EXCEPT ![cl] = 0]
    /\ subscribed' = subscribed \ {cl}
    /\ out' = [out EXCEPT ![cl] = {}]
    /\ Goto(cl, "ended")
    /\ UNCHANGED <<closed, agentSocket, sockets, latest, inbox, closing>>

\* The client's socket fails: Decode returns an error.
EndClient(cl) ==
    /\ session[cl] = "serving" /\ ~open[cl]
    /\ inbox[cl] = 0 /\ out[cl] = {}
    /\ LeaveClient(cl)

\* The agent's socket fails under a client's write, with an error other than
\* EOF: the client's session ends too.
ForwardFails(cl) ==
    /\ session[cl] = "serving"
    /\ \E w \in out[cl] : ~open[w.to]
    /\ LeaveClient(cl)

\* EndAgent deleting the entries only if the socket is still its own (a mutant:
\* a replaced session may have stored a node after its successor left).
EndAgentOwn(a) ==
    /\ session[a] = "serving" /\ ~open[a]
    /\ inbox[a] = 0 /\ out[a] = {}
    /\ IF agentSocket = a THEN agentSocket' = None /\ nodes' = [nodes EXCEPT ![Agent] = 0]
                          ELSE UNCHANGED <<agentSocket, nodes>>
    /\ Goto(a, "ended")
    /\ UNCHANGED <<closed, subscribed, sockets, latest, inbox, out, closing>>

\* The agent's socket fails.  The entries are deleted whoever owns them.
EndAgent(a) ==
    /\ session[a] = "serving" /\ ~open[a]
    /\ inbox[a] = 0 /\ out[a] = {}
    /\ agentSocket' = None
    /\ nodes' = [nodes EXCEPT ![Agent] = 0]
    /\ Goto(a, "ended")
    /\ UNCHANGED <<closed, subscribed, sockets, latest, inbox, out, closing>>

\* The peer goes away, or its network does.
PeerGone(p) ==
    /\ open[p]
    /\ open' = [open EXCEPT ![p] = FALSE]
    /\ UNCHANGED <<closed, maps, session, got, latest, inbox, out, closing>>

\* Close: refuse newcomers, and start one goroutine per registered socket.
Close ==
    /\ ~closed
    /\ closed' = TRUE
    /\ closing' = ({agentSocket} \ {None}) \union subscribed
    /\ UNCHANGED <<maps, session, sockets, latest, inbox, out>>

CloseSocket(p) ==
    /\ p \in closing
    /\ closing' = closing \ {p}
    /\ open' = [open EXCEPT ![p] = FALSE]
    /\ UNCHANGED <<closed, maps, session, got, latest, inbox, out>>

-----------------------------------------------------------------------------
ClientStep(cl) ==
    ServeClient(cl) \/ RegisterClient(cl) \/ HandleClient(cl) \/ EndClient(cl) \/ ForwardFails(cl)
AgentStep(a) ==
    ServeAgent(a) \/ ServeAgentAlone(a) \/ RegisterAgent(a) \/ HandleAgent(a) \/ EndAgent(a)
SocketStep(p) ==
    \/ ServeRefused(p) \/ Greet(p) \/ GreetFails(p) \/ PeerGone(p) \/ CloseSocket(p)
    \/ \E v \in Versions : Decode(p, v)
    \/ \E w \in out[p] : Forward(p, w)

Next ==
    \/ \E cl \in Clients : ClientStep(cl)
    \/ \E a \in AgentConns : AgentStep(a)
    \/ \E p \in Peers : SocketStep(p)
    \/ Close

Spec == Init /\ [][Next]_vars

(* Fairness.  The Go scheduler runs every goroutine that can run, and a write
   to a client has a deadline (or its socket was closed): what a session has
   begun goes on.  Peers connect, send and leave as they like. *)
Fairness ==
    /\ \A cl \in Clients :
         WF_vars(RegisterClient(cl) \/ HandleClient(cl) \/ EndClient(cl) \/ ForwardFails(cl))
    /\ \A a \in AgentConns : WF_vars(RegisterAgent(a) \/ HandleAgent(a) \/ EndAgent(a))
    /\ \A p \in Peers : /\ WF_vars(Greet(p))
                        /\ WF_vars(\E w \in out[p] : Forward(p, w))
                        /\ WF_vars(CloseSocket(p))
FairSpec == Spec /\ Fairness

-----------------------------------------------------------------------------
\* Properties.

\* No trace of a dead session: once no agent session is being served, neither
\* its socket nor its node is in the maps, however the sessions of several
\* agent websockets overlapped; a client that left has no node, and no agent
\* publishes to it (the two deferred clean-ups).
NoTraces ==
    /\ (\A a \in AgentConns : session[a] # "serving") =>
           agentSocket = None /\ nodes[Agent] = 0
    /\ agentSocket # None => session[agentSocket] = "serving"
    /\ \A cl \in Clients : session[cl] = "ended" => nodes[cl] = 0 /\ cl \notin subscribed

\* The agent never falls back to an older node of a client: ServeAgent writes
\* the nodes it collected before it registers the socket that clients write to.
AgentNeverRegresses ==
    [][\A a \in AgentConns, cl \in Clients : got'[a][cl] >= got[a][cl]]_vars

\* Until the agent opens a second websocket, a client never falls back to an older
\* node of the agent: the greeting is written before the client subscribes, and
\* the agent's session waits for every publisher before it reads on.
ClientNeverRegresses ==
    [][(\A a, b \in AgentConns : session[a] # "new" /\ session[b] # "new" => a = b) =>
           \A cl \in Clients : got'[cl][Agent] >= got[cl][Agent]]_vars

\* Every socket that Close finds registered is closed, its goroutine leaves
\* its loop and cleans up, even one that is in the middle of publishing.
CloseDrains == \A p \in Peers : p \in closing ~> session[p] = "ended"

-----------------------------------------------------------------------------
\* What comments of the code say, and the code does not guarantee.

\* "agentSockets maps agent IDs to their open websocket": an agent that is
\* served over an open websocket is in the map.  The clean-up of an older
\* session of the same agent deletes the entry of the newer one.
ServedAgentRegistered ==
    (\E a \in AgentConns : session[a] = "serving" /\ open[a]) => agentSocket # None
=============================================================================
