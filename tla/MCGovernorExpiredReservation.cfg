SPECIFICATION Spec
CONSTANTS
    NoToken = NoToken
    NoCall = NoCall
    Calls = {c1, c2, c3}
    Tokens = {}
    Requests <- ExpiringRequests
    cpu_budget = 2
    bounded_bypass_limit = 1
    MaxInherits = 0
INVARIANT
    FittingOldestIsAwake
