SPECIFICATION Spec
CONSTANTS
    Plan <- ColdThenSteady
    PowerSample = TRUE
    CpuStates = {fixed}
    Acceptable = {fixed}
    MaxAttempts = 2
    MaxSignals = 0
    MaxChanges = 0
    Rails = 2
    MaxSamples = 2
INVARIANT PowerBracketsLaunch
