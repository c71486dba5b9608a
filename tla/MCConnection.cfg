CONSTANTS
    MaxCalls = 3
    MaxTimeouts = 2
SPECIFICATION Spec
INVARIANTS
    WriteQueueSound
PROPERTIES
    ClosedConnectionsEnd
    ImplementsLife
CHECK_DEADLOCK FALSE
