SPECIFICATION ServerSpec
CONSTANTS
    one = one   other = other
    \* builds
    Workspaces = {"w1"}   Requests = {"q"}   Executors = {one, other}
    MaxBuilds = 3   MaxTime = 2   TTL = 1   Instants = {2}
    \* sessions
    PasswordUsers = {"pat"}   OIDCUsers = {"ola"}   Populations = {{"pat"}, {"ola"}}
    SessionRequests = {one, other}   MaxKeys = 2   SessionTime = 3   MaxPassword = 1
    Day = 1   Week = 2   Century = 9   TokenLife = 1
    \* accounts
    Names = {one, other}   Emails = {"e1", "e2"}   Identities = {"i1"}
    SignupRequests = {one, other}   MaxUsers = 2   MaxMoves = 1
    \* roles
    RoleUsers = {"own", "adm", "mem"}   Orgs = {"o1", "o2"}   Member <- InOrgs
    FirstOwner = "own"   FirstAdmin = "adm"   TemplateOrg = "o1"   Group = "g"
    RoleRequests = {one, other}   MaxChanges = 2
    \* templates
    TemplateNames = {one, other}   TemplateRequests = {one, other}   MaxTemplates = 2
    MaxVersions = 2   MaxDryRuns = 1   MaxWorkspaces = 1   MaxCalls = 4
    \* applications
    AppUsers = {"own", "oth"}   Owner = "own"   MaxAppKeys = 3   AppTime = 2
    Minute = 1   AppDay = 2
    \* quota
    QuotaWorkspaces = {one, other}   Costs = {1, 2}   Allowances = {0, 2, 3}
    MaxQuotaBuilds = 2   MaxLost = 1
    \* mesh
    Addresses = {1, 2}   Calls = {1, 2, 3}
    \* terminals
    Conns = {one, other}   MaxPTYs = 2   MaxOutput = 1   BufferSize = 1
    \* git
    Asks = {"a1", "a2"}   Logins = {"l1", "l2"}
    Casts = {{"a1", "a2", "l1"}, {"a1", "l1", "l2"}}   MaxTokens = 3   MaxFaults = 1
SYMMETRY Symmetry
INVARIANTS
    TypeOK NoConcurrentWorkers  AutobuildsAlternate
     ServerSafe
PROPERTIES
    OneBuildAtATime ServerSteps
CHECK_DEADLOCK FALSE
