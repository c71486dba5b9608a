CONSTANTS
    sigint = sigint
    sigterm = sigterm
    e1 = e1
    q1 = q1
    cb1 = cb1
    Signals <- MCSignals
    Packets = {}
    Events = {e1}
    Queries = {q1}
    Callbacks = {cb1}
    CallbackOf <- MCCallbackOf
    DueTimes = {1}
    MaxTime = 1
    MaxEventId = 1
    ShutdownTask = ShutdownTask
    Terminate = Terminate
    Nothing = Nothing
SPECIFICATION Spec
INVARIANTS
    ComponentsHold
    CleanExit
PROPERTIES
    SignalEndsDispatcher
