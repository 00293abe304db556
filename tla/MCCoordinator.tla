--------------------------- MODULE MCCoordinator ---------------------------
(***************************************************************************)
(* The two coordinators: the in-memory one and the one that replicas       *)
(* share, with websockets at any of them.  A behaviour of                  *)
(* CoordinatorsSpec is of one of them, and the other stays as it begins.   *)
(***************************************************************************)
EXTENDS Coordinator, TLC

CONSTANTS Replicas, AgentSockets, ClientSockets, MaxClientVersion     \* of HACoordinator

Symmetry == Permutations(Replicas)

VARIABLES part, agentNode, clientNode, agentSockets, subscribers, agent, client, queue, handler,
          agentSent, agentGot, clientSent, clientGot, owedAgent, owedClient

H == INSTANCE HACoordinator WITH agentSocket <- agentSockets, subscribed <- subscribers

haVars == <<agentNode, clientNode, agentSockets, subscribers, agent, client, queue, handler,
            agentSent, agentGot, clientSent, clientGot, owedAgent, owedClient>>

\* One replica, without the license for high availability.
OneReplica == part = "memory" /\ Next /\ UNCHANGED <<part, haVars>>

\* Several replicas with it.
TwoReplicas == part = "shared" /\ H!Next /\ UNCHANGED <<part, vars>>

CoordinatorsInit == part \in {"memory", "shared"} /\ Init /\ H!Init

CoordinatorsSpec ==
    /\ CoordinatorsInit
    /\ [][OneReplica \/ TwoReplicas]_<<part, vars, haVars>>

-----------------------------------------------------------------------------

\* The maps, messages and handlers of the replicas keep their types.
SharedTypeOK == H!TypeOK

\* A node that either peer sends while both are connected and registered, each to one
\* replica, reaches the other or is on its way, whichever replicas the two are on: neither
\* reordering by the pubsub's goroutines nor a stale node that a replica kept from an earlier
\* session of the agent hides a newer one.
PeersHear == H!AgentHears /\ H!ClientHears

\* A replica's node of the agent is replaced by a newer one or removed with the agent's
\* session, never by an older one that arrives late.
NodeNeverRegresses == [][H!NodeAdvances]_haVars
=============================================================================
