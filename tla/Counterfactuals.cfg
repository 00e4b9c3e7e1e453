SPECIFICATION Spec
CONSTANTS
    LastBar = 4
    MaxProposals = 1
    MaxRestarts = 2
    Prices <- MCPrices
    Loss = 1
    Gain = 1
    MaximumBars = 2
    Horizons <- MCHorizons
    Settlements <- MCSettlements
    FundingAmount = 1
    FeeRate = 1
INVARIANTS
    TypeOK
    FundingOnce
    
    HorizonsComplete
PROPERTIES
    RecordedIsFinal
CHECK_DEADLOCK FALSE
