CONSTANTS
    a = a
    b = b
    n = n
    m = m
    u = u
    v = v
    candidates = candidates
    deployed = deployed
    writer = writer
    tool = tool
    NoOp = NoOp
    NoHash = NoHash
    NoEntry = NoEntry
    NoRuntime = NoRuntime
    Ops <- Pair
    Workloads <- OneLoad
    Workload <- SamePair
    Parent <- NoParent
    ForcedRoutes = {}
    cpu_budget = 2
    RuntimeOptions <- LearnThenReplay
    Engines <- BuiltEngines
    Decisions <- OnlySequential
    Useful = 2
    Writers = {writer}
    Paths = {candidates, deployed}
    Exports = {deployed}
    Calibrations = {candidates}
    Approvals <- Review
    OnDisk <- Deployed
    MaxStarts = 2
    MaxLoads = 1
SPECIFICATION Spec
INVARIANTS
    ReplayAsReviewed
CHECK_DEADLOCK FALSE
