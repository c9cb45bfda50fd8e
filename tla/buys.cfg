SPECIFICATION MCFairSpec
CONSTANTS
    l1 = l1  l2 = l2  m1 = m1  wa = wa  ta = ta  tb = tb
    Launch = {l1, l2}
    Mirror = {m1}
    Wallet = {wa}
    Token = {ta, tb}
    Setups <- MCSetups
    PlanMax = 1
    Reserve = 1
    MaxRuns = 2
    MaxFaults = 2
    Markets <- MCMarkets
    BuySol = 20
    SellTok = 30
    Slip = 10
    Fee = 2
    Scenarios <- MCScenarios
INVARIANTS BuysAreSound LimitsNeedRivals
PROPERTIES NoBuyWhileUnverified SwapsAreSound BuysEnd
CHECK_DEADLOCK FALSE
