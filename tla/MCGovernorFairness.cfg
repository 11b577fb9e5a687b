SPECIFICATION Spec
CONSTANTS
    NoToken = NoToken
    NoCall = NoCall
    Calls = {c1, c2, c3, c4}
    Tokens = {}
    Requests <- QueueRequests
    cpu_budget = 2
    bounded_bypass_limit = 0
    MaxInherits = 0
SYMMETRY CallSymmetry
INVARIANTS
    BypassBounded
PROPERTIES
    ReservationProtected
    OnlyBlockedAreOvertaken
