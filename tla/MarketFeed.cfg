SPECIFICATION FairSpec
CONSTANTS
    MaxId = 2
    MaxMarks = 1
    MaxSessions = 2
    BufferSize = 1
    QueueSize = 2
    RuntimeSize = 1
    DispatchSize = 1
    MaxPolls = 2
INVARIANTS TypeOK NoSilentLoss StopDrains
PROPERTIES ProcessedInOrder FailureReachesWorker
CHECK_DEADLOCK FALSE
