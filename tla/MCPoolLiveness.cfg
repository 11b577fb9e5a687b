SPECIFICATION FairSpec
CONSTANTS
    w1 = w1  w2 = w2  w3 = w3  t1 = t1  t2 = t2  A = A  B = B  C = C  s1 = s1
    Workers = {w1, w2}
    Roots = {t1}
    Regions = {A, B}
    Sessions = {s1}
    NoThread = NoThread  NoRegion = NoRegion  NoSession = NoSession
    Parent <- NestedParent
    CallIndex <- NestedIndex
    Owner <- OneRoot
    Total <- NestedTotals
    chunk_size <- NestedChunks
    concurrency_budget <- WideBudgets
    Session <- OneSession
    total_budget <- BudgetThree
    Throwing <- InnerThrows
    CancelIdle = {A}
    min_chunks_per_helper = 1
PROPERTIES RegionsEnd
