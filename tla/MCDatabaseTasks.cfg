CONSTANTS
    network = network
    dispatcher = dispatcher
    database = database
    q1 = q1
    q2 = q2
    q3 = q3
    Producers <- MCProducers
    DispatcherThread = dispatcher
    DbThread = database
    Queries <- MCQueries
    WithCallback <- MCWithCallback
    MaxFlushes = 1
    NoQuery = NoQuery
SPECIFICATION Spec
INVARIANTS
    ExactlyOnce
    OvertakenOnlyInFlight
PROPERTIES
    FlushLeavesOnlyInFlight
    AcceptedQueriesRun
