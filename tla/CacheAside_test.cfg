SPECIFICATION Spec
CONSTANTS
    Getters = {g1, g2, g3}
    Ids = {i1}
    MaxExpiries = 0
    NoId = NoId
    MaxCalls = 3
CHECK_DEADLOCK FALSE
INVARIANTS AtMostTwoFetches
