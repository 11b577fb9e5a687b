SPECIFICATION Spec
CONSTANTS
    NoToken = NoToken
    NoCall = NoCall
    Calls = {c1, c2, c3}
    Tokens = {t1}
    Requests <- MixedRequests
    cpu_budget = 2
    bounded_bypass_limit = 1
    MaxInherits = 0
SYMMETRY CallSymmetry
INVARIANTS
    PermitConservation
    BudgetRespected
    LosersLeaveNothing
    CountersBalance
    NoStall
