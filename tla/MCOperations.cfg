CONSTANTS
    a = a
    b = b
    n = n
    m = m
    u = u
    v = v
    candidates = candidates
    deployed = deployed
    writer = writer
    tool = tool
    NoOp = NoOp
    NoHash = NoHash
    NoEntry = NoEntry
    NoRuntime = NoRuntime
    Ops <- Nested
    Workloads <- OneLoad
    Workload <- SamePair
    Parent <- InB
    ForcedRoutes = {n, m}
    cpu_budget = 2
    RuntimeOptions <- AllOptions
    Engines <- BuiltEngines
    Decisions <- OnlyParallel
    Useful = 2
    Writers = {writer}
    Paths = {candidates, deployed}
    Exports = {deployed}
    Calibrations = {candidates}
    Approvals <- Review
    OnDisk <- Disks
    MaxStarts = 1
    MaxLoads = 2
SPECIFICATION Spec
INVARIANTS
    ReplayIsExact
    WarmStartOnce
    NoSampleLost
    PermitsFollowCalls
PROPERTIES
    SavedFilesWhole
CHECK_DEADLOCK FALSE
