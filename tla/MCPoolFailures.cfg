SPECIFICATION Spec
SYMMETRY WorkerSymmetry
CONSTANTS
    w1 = w1  w2 = w2  w3 = w3  t1 = t1  t2 = t2  A = A  B = B  C = C  s1 = s1
    Workers = {w1, w2}
    Roots = {t1, t2}
    Regions = {A, B, C}
    Sessions = {s1}
    NoThread = NoThread  NoRegion = NoRegion  NoSession = NoSession
    Parent <- PairParent
    CallIndex <- PairIndex
    Owner <- TwoRoots
    Total <- PairTotals
    chunk_size <- PairChunks
    concurrency_budget <- PairBudgets
    Session <- PairSessions
    total_budget <- BudgetTwo
    Throwing <- SomeThrow
    CancelIdle = {A}
    min_chunks_per_helper = 1
INVARIANTS LeasesBalance ParticipantsAreLeased PoolCountersExact NoSleeperBesideJobs HelpersRetiredFirst
PROPERTIES KeepsPromise
