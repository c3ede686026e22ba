SPECIFICATION FairSpec
CONSTANTS
    Plan <- TwoStarts
    PowerSample = TRUE
    InputSet = "single"
    MaxAttempts = 2
    MaxSignals = 2
    Rails = 2
    MaxSamples = 2
INVARIANTS
    RestoredAtExit
    PowerBracketsLaunch
    VerdictIsEarned
PROPERTY AlwaysEnds
