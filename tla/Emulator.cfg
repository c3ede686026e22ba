SPECIFICATION FairSpec
CONSTANTS
    Submitters = {s1, s2}
    Worker = worker
    MaxTasks = 3
    MaxStarts = 2
INVARIANTS
    WorkerNotStranded
    SubmitterNotForgotten
PROPERTIES
    ServesTasks
    BlockingSubmitReturns
    StopReturns
CHECK_DEADLOCK FALSE
