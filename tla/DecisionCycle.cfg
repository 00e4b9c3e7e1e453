\* The worker may stop: a fault takes it down for good, and the bounds end a run.
CONSTANTS
    Symbols = {btc, eth}
    Benchmark = btc
    Prices = {80, 96, 100}
    Signals <- MCSignals
    Conditions <- MCConditions
    Slippages <- MCSlippages
    Capital = 1000
    MinimumNotional = 50
    MaxBars = 3
    MaxMarks = 1
    MaxCommands = 1
SPECIFICATION Spec
INVARIANTS TypeOK OutcomeContract
PROPERTIES EntriesStayWithinCaps DecidesOnCurrentControl
CHECK_DEADLOCK FALSE
