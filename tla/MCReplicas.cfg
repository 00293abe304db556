CONSTANTS
    Replicas = {1, 2}
    MaxFaults = 1
    Requests = {"q1", "q2"}
    Conns = {"c1", "c2"}
    MaxStatus = 3
    MaxSessions = 3
    TailnetPeers = {"p1", "p2"}
    MaxTime = 3
    TCPConns = {"t1", "t2"}
    Sides = {"node", "peers", "forward"}
    Sessions = {1, 2, 3}
    MaxBuild = 2
    Asks = {"a1", "a2"}
    Logins = {"l1"}
    Casts = {{"a1", "a2", "l1"}}
    MaxTokens = 2
    MaxLost = 1
    Agent = "agent"
    AgentConns = {"a1"}
    Clients = {"c1"}
    MaxVersion = 1
    NoConn = "none"
SPECIFICATION Spec
INVARIANTS ReplicasSafe
PROPERTIES ReplicasSteps 
CHECK_DEADLOCK FALSE
