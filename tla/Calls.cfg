SPECIFICATION CallsSpec
CONSTANTS
    Getters = {g1, g2, g3}
    Ids = {i1}
    MaxExpiries = 1
    NoId = NoId
    MaxCalls = 5
    Life = 4
    Skew = 1
    Delay = 2
    MaxTime = 7
    Jobs = {j1, j2, j3, j4}
    Workers = {w1, w2}
    Nothing = Nothing
    Closed = Closed
    Limit = 2
    MaxRetries = 34
CHECK_DEADLOCK FALSE
INVARIANTS CallsTypeOK AnswersAreSound FetchesFew TokensArriveValid
           ResultsComplete RetriesJustified
PROPERTIES RunnerSpec CallsReturn NoGoroutineLeaks
