SPECIFICATION FairSpec
CONSTANTS
    h1 = h1
    h2 = h2
    w1 = w1
    w2 = w2
    Handlers <- TwoHandlers
    Workers <- TwoWorkers
    MaxTodos = 2
    MaxSubs = 2
    MaxFailures = 2
CHECK_DEADLOCK FALSE
INVARIANTS TypeOK DeliveriesAccounted EveryTodoAnnounced AcknowledgedOnce
PROPERTIES EventsGetDelivered StopEndsWorkers
