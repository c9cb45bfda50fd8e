SPECIFICATION MCFairSpec
CONSTANTS
    Run = {"a", "b"}
    Level = {1, 3, 4}
    Entry = 3
    Trail = 2
    MaxRejected = 3
    Budgets <- MCBudgets
    Prices <- MCPrices
    Users <- MCUsers
    Vol = {1, 20}
    MinSamples = 2
    Moves = 3
    Faults = 1
    Troubles = 1
PROPERTIES WatchIsSound DecisionsAreSound LossesEnd
CHECK_DEADLOCK FALSE
