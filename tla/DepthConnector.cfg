SPECIFICATION ConnSpec
CONSTANTS
    MaxId = 5
    MaxMarks = 2
    MaxSessions = 2
    BufferSize = 2
    QueueSize = 2
INVARIANTS BookFaithful 
CHECK_DEADLOCK FALSE
