SPECIFICATION Spec
CONSTANTS
    Handlers = {h1, h2}
    GlobalBurst = 4
    GlobalPeriod = 4
    LoginBurst = 2
    LoginPeriod = 1
    MaxTime = 4
INVARIANTS LoginIsTighter
