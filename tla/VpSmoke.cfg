SPECIFICATION Spec
CONSTANTS
    NoStatus = NoStatus
    TroubleAt = {}
    Repeat = 2
INVARIANT SmokeRunsPass
CHECK_DEADLOCK FALSE
