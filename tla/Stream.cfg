SPECIFICATION FairSpec
CONSTANTS
    FrameSize = 2
    totalIterations = 5
    warmupIterations = 1
    streamPeriod = 2
    SourceBytes = 11
    Outputs = {o1, o2}
    NoOutput = none
INVARIANTS
    NoLostWakeup
    BoundedLookahead
    MeasuredWindow
    ReturnIsSound
PROPERTIES
    PipelineIsSequential
    AlwaysReturns
