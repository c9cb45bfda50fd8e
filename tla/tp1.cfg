SPECIFICATION Spec
CONSTANTS
    p1 = p1  p2 = p2  e1 = e1  u1 = u1  u2 = u2
    PriceTick = {p1, p2}
    EmergencyTick = {}
    UserCall = {}
    ExitMode = "tp1"
    DirectStop = FALSE
    Amount = 2
    Other = 1
    TierAmount = 1
    Tiers = 1
    Moonbag = 1
    MaxTries = 2
    MaxPermanent = 2
    MaxFaults = 2
    MaxRequests = 0
SYMMETRY TickSymmetry
INVARIANTS TrailingAfterSale
CHECK_DEADLOCK FALSE
