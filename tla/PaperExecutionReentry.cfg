SPECIFICATION Spec
CONSTANTS
    btc = btc
    eth = eth
    f1 = f1
    Symbols = {btc}
    Prices = {4, 6}
    Quantities = {1}
    Fundings = {f1}
    Capital = 20
    LossDistance = 1
    GainDistance = 2
    MaximumBars = 1
    Latency = 0
    MaxTime = 2
    MaxQueue = 2
    MaxEvents = 4
INVARIANTS
    ReentryIsPersisted
CHECK_DEADLOCK FALSE
