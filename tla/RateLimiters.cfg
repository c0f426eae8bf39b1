SPECIFICATION LimitersSpec
CONSTANTS
    Handlers = {h1, h2, h3}
    Keys = {k1}
    NoClient = NoClient
    Burst = 2
    Period = 3
    TTL = 6
    CleanupEvery = 2
    Stall = 2
    MaxTime = 18
    MaxDebt = 9
    Callers = {c1, c2}
    PerWindow = 2
    Window = 2
    MaxRetryAfter = 3
    ClientMaxTime = 5
SYMMETRY Symmetry
INVARIANTS LimitersTypeOK RateBound ClientObeysLimit
