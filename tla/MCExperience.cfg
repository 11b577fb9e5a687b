SPECIFICATION Spec
CONSTANTS
    t1 = t1  t2 = t2
    f1 = f1  f2 = f2
    p1 = p1  p2 = p2
    Threads = {t1, t2}
    Fingerprints = {f1, f2}
    Plans = {p1, p2}
    Paths = {"main"}
    ConfigPath = "main"
    Interval = 2
    RecordLimit = 1
    PlanLimit = 1
    MaxSamples = 3
    MaxRequests = 2
    MaxFaults = 1
INVARIANT AutosaveKeepsUp
PROPERTY LoadsLoseNothing
SYMMETRY Interchangeable
CHECK_DEADLOCK FALSE
