SPECIFICATION CoordinatorsSpec
CONSTANTS
    Agent = Agent
    None = None
    AgentConns = {a1, a2}
    Clients = {c1}
    MaxVersion = 2
    Replicas = {r1, r2}
    AgentSockets = {"a1", "a2"}
    ClientSockets = {"c1"}
    MaxClientVersion = 1
SYMMETRY Symmetry
INVARIANTS
    TypeOK
    NoTraces
    SharedTypeOK
    PeersHear
PROPERTIES
    AgentNeverRegresses
    ClientNeverRegresses
    NodeNeverRegresses
CHECK_DEADLOCK FALSE
