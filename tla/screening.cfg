SPECIFICATION MCFairSpec
CONSTANTS
    Scenarios <- MCTokens
    Answers <- MCAnswers
    Candidates <- MCCandidates
    Voters = {"openrouter", "ollama"}
    MaxAttempts = 1
    MinConfidence = 70
    Config <- MCConfig
    Grace = 2
    Depth = 15000
    TTL = 3
    MaxClock = 6
    Wallet = {"w1"}
    Sampler = {1, 2}
    Lookback = 2
    Offsets = 3
    TrackScenarios <- MCTrades
INVARIANTS BuysAreCleared ScoresAreSound
PROPERTIES TrackingIsSound ScreeningEnds
CHECK_DEADLOCK FALSE
