CONSTANTS
    Protocols = {p1, p2}
    Objects = {o1, o2}
    Exempt = {o2}
    NoProtocol = NoProtocol
    NoObject = NoObject
    Configs <- MCConfigs
    MaxCloses = 2
    MaxTasks = 1
SPECIFICATION Spec
INVARIANTS
    SessionsAgree
    RefsExact
    PlayerStableWhileParsing
    AutosendSound
PROPERTIES
    GhostsLeave
CHECK_DEADLOCK FALSE
