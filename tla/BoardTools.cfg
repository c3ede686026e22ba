SPECIFICATION ToolsSpec
CONSTANTS
    Modes = {"sdp", "lenet", "resnet50"}
    REPEAT = 2
    WATCHDOG_GRACE = 2
    Killable = TRUE
    Running = "running"
    Killed = "signal"
    None = "none"
    Timeout = "exit 124"
    Broken = "broken"
    Timeouts = {0, 1, 4, 5}
    Wrap = 4
    LaunchCodes = {"exit 0", "exit 1", "exit 126", "signal 11"}
    Rails = 2
    MaxSamples = 4
INVARIANTS
    ReadingsAreWhole
    TraceEndsAfterStop
    StopsAtFirstFailure
    TimeoutIsNamed
    HostAgreesWithBoard
PROPERTIES
    BoundsItsCommand
    EveryToolEnds
