SPECIFICATION MCFairSpec
CONSTANTS
    Wallet = {"w"}
    TxFee = 1
    Reserve = 1
    Position = {1, 2}
    Handler = {"h1", "h2"}
    Pool = 2
    Rewards = {1}
    MaxFaults = 2
    Request = {"q1", "q2"}
    Plan = {"pro", "vip"}
    Price = 2
    Days = 2
    LastDay = 2
    Refresh = {"r1", "r2"}
    Null = Null
    Workloads <- MCWorkloads
INVARIANTS PayoutsAreSound BalancesAreSound BooksAreSound
PROPERTIES DecisionsAreFinal MoneySettles
CHECK_DEADLOCK FALSE
