CONSTANTS
    dispatcher = dispatcher
    network = network
    e1 = e1
    e2 = e2
    e3 = e3
    Callers <- MCCallers
    DispatcherThread = dispatcher
    Events <- MCTwoEvents
    DueTimes = {0, 1, 2}
    MaxEventId = 2
    MaxTime = 2
    NoEvent = NoEvent
SPECIFICATION Spec
INVARIANTS
    NeverEarly
    NoOversleep
    StoppedNeverRuns
    IdReadFromLiveTask
    NoZeroId
PROPERTIES
    WantedEventsRun
