SPECIFICATION Spec
CONSTANTS
    NoStatus = NoStatus
    Repeat = 2
    TroubleAt = {"autorun", "poll", "poweroff"}
INVARIANTS PassIsEarned LogIsWhole
PROPERTY HostReturns
CHECK_DEADLOCK FALSE
