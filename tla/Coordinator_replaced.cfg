SPECIFICATION CoordinatorsSpec
CONSTANTS
    Agent = Agent
    None = None
    AgentConns = {a1, a2}
    Clients = {c1}
    MaxVersion = 1
    Replicas = {r1, r2}
    AgentSockets = {"a1", "a2"}
    ClientSockets = {"c1"}
    MaxClientVersion = 1
INVARIANT
    ServedAgentRegistered
CHECK_DEADLOCK FALSE
