SPECIFICATION FairSpec
CONSTANTS
    Incidents = {"review"}
    Blocking = {"review"}
    MaxCommands = 3
    MaxFaults = 1
INVARIANTS
    TypeOK
    ControlMatchesStatus
    CompletedFlattenStaysFlat
    AcceptedFlattenHoldsSwitch
PROPERTIES
    ReleaseOnlyWhenSafe
    ReleaseClearsWhatWasSeen
    
CHECK_DEADLOCK FALSE
