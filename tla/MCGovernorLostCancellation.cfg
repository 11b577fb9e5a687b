SPECIFICATION PatientSpec
CONSTANTS
    NoToken = NoToken
    NoCall = NoCall
    Calls = {c1, c2}
    Tokens = {t1}
    Requests <- CancellableRequests
    cpu_budget = 1
    bounded_bypass_limit = 1
    MaxInherits = 0
PROPERTIES
    CancellationEndsWait
