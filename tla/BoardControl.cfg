SPECIFICATION FairSpec
CONSTANTS
    Plan <- TwoStarts
    PowerSample = TRUE
    InputSet = "single"
    MaxAttempts = 2
    MaxSignals = 1
    Rails = 2
    MaxSamples = 2
INVARIANT PassedUnderControl
