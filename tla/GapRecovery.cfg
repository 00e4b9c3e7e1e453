SPECIFICATION FairSpec
CONSTANTS
    MaxBars = 7
    MaxAttempts = 3
    MaxCrashes = 2
INVARIANTS
    TypeOK
    ProgressMatchesCursor
    NoEntryOnLostBar
PROPERTIES
    LedgerSpec
    CandidateSettles
CHECK_DEADLOCK FALSE
