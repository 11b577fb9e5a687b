SPECIFICATION FairSpec
CONSTANTS
    NoToken = NoToken
    NoCall = NoCall
    Calls = {c1, c2}
    Tokens = {t1}
    Requests <- LeaseRequests
    cpu_budget = 2
    bounded_bypass_limit = 1
    MaxInherits = 1
INVARIANT
    PermitsOutliveHandles
PROPERTIES
    ImplementsPool
    AcquireReturns
