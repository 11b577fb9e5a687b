SPECIFICATION Spec
CONSTANTS
    c1 = c1  c2 = c2  c3 = c3
    Callers = {c1, c2, c3}
    ChunksPerWorker = 2
    LeafSize = 2
    PerShard = 1
    Interval = 2
    SearchInterval = 1
    MaxJobs = 3
    Scenarios <- SmallScenarios
INVARIANT StableAfterBoth
SYMMETRY Threads
