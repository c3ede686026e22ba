SPECIFICATION Spec
CONSTANTS
    Plan <- ColdThenSteady
    PowerSample = TRUE
    CpuStates = {fixed, drifted, ondemand}
    Acceptable = {fixed, drifted}
    MaxAttempts = 2
    MaxSignals = 1
    MaxChanges = 2
    Rails = 1
    MaxSamples = 1
INVARIANTS
    RestoredAtExit
    VerdictIsEarned
    FrequencyWasHeld
