CONSTANTS
    a = a
    b = b
    n = n
    m = m
    u = u
    v = v
    candidates = candidates
    deployed = deployed
    writer = writer
    tool = tool
    NoOp = NoOp
    NoHash = NoHash
    NoEntry = NoEntry
    NoRuntime = NoRuntime
    Ops <- Pair
    Workloads <- TwoLoads
    Workload <- OwnLoads
    Parent <- NoParent
    ForcedRoutes = {}
    cpu_budget = 2
    RuntimeOptions <- Waiting
    Engines <- BuiltEngines
    Decisions <- SequentialOrParallel
    Useful = 2
    Writers = {}
    Paths = {candidates, deployed}
    Exports = {deployed}
    Calibrations = {candidates}
    Approvals <- Review
    OnDisk <- Deployed
    MaxStarts = 1
    MaxLoads = 1
SPECIFICATION FairSpec

PROPERTIES
    AdmissionEnds
CHECK_DEADLOCK FALSE
