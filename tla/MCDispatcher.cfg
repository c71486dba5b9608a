CONSTANTS
    scheduler = scheduler
    network = network
    dispatcher = dispatcher
    t1 = t1
    t2 = t2
    t3 = t3
    Producers <- MCProducers
    DispatcherThread = dispatcher
    Tasks <- MCTasks
    Timed <- MCTimed
    ShutdownTask = ShutdownTask
    Terminate = Terminate
    NoTask = NoTask
SPECIFICATION Spec
INVARIANTS
    NoLostWakeup
    OneOwner
    NothingStranded
PROPERTIES
    ImplementsExecutor
