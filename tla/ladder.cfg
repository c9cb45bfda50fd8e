SPECIFICATION Spec
CONSTANTS
    p1 = p1  p2 = p2  e1 = e1  u1 = u1  u2 = u2
    PriceTick = {p1, p2}
    EmergencyTick = {}
    UserCall = {u1}
    ExitMode = "ladder"
    DirectStop = FALSE
    Amount = 3
    Other = 2
    TierAmount = 1
    Tiers = 2
    Moonbag = 1
    MaxTries = 2
    MaxPermanent = 2
    MaxFaults = 1
    MaxRequests = 1
SYMMETRY TickSymmetry
INVARIANTS TierOnce
PROPERTIES SaleRecords
CHECK_DEADLOCK FALSE
