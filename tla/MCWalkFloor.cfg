CONSTANTS
    a1 = a1
    a2 = a2
    Actions = {a1, a2}
    NoAction = NoAction
    StepDuration = 2
    ActionDelay = 1
    MaxDirs = 2
    MaxEvents = 3
    MaxPosted = 1
SYMMETRY MCSymmetry
SPECIFICATION WalkSpec
INVARIANTS
    FloorChangeCosts
