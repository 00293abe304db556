CONSTANTS
    MaxErrors = 2
    MaxSessions = 1
    Conns = {"c1", "c2"}
    MaxPTYs = 2
    MaxOutput = 0
    BufferSize = 1
    Apps = {"a", "b"}
    Threshold = 1
    MaxFlips = 1
    MaxReports = 2
    Licenses = {"old", "new"}
    Grants <- OldAndNew
    AllFeatures = {}
    LicenseExpires <- AtOnce
    Exp <- OldFirst
    Knows = {"old", "new"}
    Requests = {"q1"}
    MaxTime = 1
    MaxFaults = 1
    MaxPeerChanges = 1
    MaxCalls = 1
SPECIFICATION Spec
INVARIANTS AgentSafe
PROPERTIES AgentLive
CHECK_DEADLOCK FALSE
