SPECIFICATION Spec
CONSTANTS
    Handlers = {h1, h2}
    Keys = {k1}
    NoClient = NoClient
    Burst = 2
    Period = 2
    TTL = 4
    CleanupEvery = 2
    Stall = 0
    MaxTime = 8
    MaxDebt = 4
INVARIANTS RejectionJustified
