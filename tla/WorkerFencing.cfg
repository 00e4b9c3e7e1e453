CONSTANTS
    w1 = w1
    w2 = w2
    Workers = {w1, w2}
    TTL = 2
    MaxStall = 1
    MaxEpoch = 2
    MaxVersion = 3
    MaxBars = 1
    MaxCrashes = 1
SPECIFICATION FairSpec
INVARIANTS
    TypeOK
    LeaseExclusive
    
PROPERTIES
    OnlyOwnerHalts
    SupersededEnds
    
