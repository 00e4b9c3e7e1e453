CONSTANTS
    Symbols = {btc, eth}
    Benchmark = btc
    Prices = {80, 96, 100}
    Signals <- MCSignals
    Conditions <- MCConditions
    Slippages <- MCSlippages
    Capital = 1000
    MinimumNotional = 50
    MaxBars = 3
    MaxMarks = 1
    MaxCommands = 1
SPECIFICATION Spec
PROPERTY RecordedLossIsCapped
CHECK_DEADLOCK FALSE
