CONSTANTS
    j1 = j1
    j2 = j2
    d1 = d1
    d2 = d2
    c1 = c1
    c2 = c2
    c3 = c3
    r1 = r1
    docker = docker
    gpu = gpu
    arm = arm
    Jobs = {j1}
    Builds = {j1}
    Daemons = {d1}
    BuiltIn = {d1}
    Conns = {c1, c2}
    Requests = {}
    Tags = {docker, gpu, arm}
    FaultKinds = {{"disconnect"}}
    JobTags <- MCJobTags
    DaemonTags <- MCDaemonTags
    FaultBudgets <- MCFaultBudgets
    None = None
SPECIFICATION JitterSpec
PROPERTY
    CompletionArrives
