CONSTANTS
    corpse = corpse
    torch = torch
    spare = spare
    Items = {corpse, torch, spare}
    Spare = {spare}
    Gone = Gone
    Never = Never
    World = World
    Nowhere = Nowhere
    None = None
    Types <- MCTypes
    DecayTime <- MCDecayTime
    DecayTo <- MCDecayTo
    Containers <- MCContainers
    StopTime <- MCStopTime
    StartType <- MCStartType
    StartParent <- MCStartParent
    ScriptTimes = {1}
    MaxTime = 3
SPECIFICATION DecaySpec
INVARIANTS
    DecayBooked
    WakeInTime
CHECK_DEADLOCK FALSE
