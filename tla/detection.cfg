SPECIFICATION MCFairSpec
CONSTANTS
    MaxProviders = 2
    MaxLaunches = 3
    ScanCap = 2
    FeedScenarios <- MCScenarios
    Dexes <- MCDexes
    Sources <- MCSources
    Idle = 2
    Quiet = 3
    PoolScenarios <- MCPools
INVARIANTS FeedIsSound WatermarkCovers
PROPERTIES PoolsAreSound FeedsRecover
CHECK_DEADLOCK FALSE
