CONSTANTS
    gm = gm
    c1 = c1
    c2 = c2
    c3 = c3
    Clients = {gm, c1, c2, c3}
    AlwaysLogin = {gm}
    MaxPlayers = 2
    MaxTime = 25
    TimeStep = 5
    Wrap = 1000
SYMMETRY MCSymmetry
SPECIFICATION WaitListSpec
INVARIANTS
    AbandonedPlacesFreed
