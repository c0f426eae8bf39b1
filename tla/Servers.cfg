SPECIFICATION ServersSpec
CONSTANTS
    Handlers = {h1, h2}
    GlobalBurst = 4
    GlobalPeriod = 4
    LoginBurst = 2
    LoginPeriod = 1
    MaxTime = 16
    DefaultSize = 1
    MaxSize = 2
    Wanted = 3
    MaxTodos = 5
    Callers = {c1, c2}
    NoRow = NoRow
    MaxId = 2
    MaxWrites = 2
    Conns = {n1, n2}
    ReadTimeout = 2
    WriteTimeout = 4
    ShutdownTimeout = 4
    Grace = 1
    LifeMaxTime = 9
    Nobody = Nobody
    MaxStored = 1
    MaxStores = 2
    Clients = {c1, c2}
    Names = {u1, u2}
    Passwords = {p1, p2}
    Nothing = Nothing
    MaxMade = 2
    Requests = {r1, r2}
    Readers = {d1, d2}
    MaxTagged = 2
    MaxTags = 2
    HttpCallers = {g1, g2}
    MaxAge = 1
    Latency = 2
    MaxVersion = 2
    HttpMaxTime = 3
    Timeouts = {1, 2}
    MaxConns = {1, 2}
    Loggers = {l1, l2}
    MaxOptions = 4
CHECK_DEADLOCK FALSE
INVARIANTS ServersTypeOK GlobalLimitExact ListingsComplete
           InFlightDrained StoredStringsWhole TodosStayWithTheirUser
           OneCompleteAnswer LoggedAsAnswered ReadsAreTrue LastOptionCounts
PROPERTIES AnswersIncludeOwnWrite
