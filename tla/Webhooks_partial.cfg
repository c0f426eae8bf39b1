SPECIFICATION FairSpec
CONSTANTS
    h1 = h1
    h2 = h2
    w1 = w1
    w2 = w2
    Handlers <- OneHandler
    Workers <- OneWorker
    MaxTodos = 1
    MaxSubs = 2
    MaxFailures = 1
CHECK_DEADLOCK FALSE
PROPERTIES PendingAfterFailure
