SPECIFICATION Spec
CONSTANTS
    p1 = p1  p2 = p2  e1 = e1  u1 = u1  u2 = u2
    PriceTick = {p1}
    EmergencyTick = {}
    UserCall = {}
    ExitMode = "ladder"
    DirectStop = FALSE
    Amount = 3
    Other = 1
    TierAmount = 1
    Tiers = 1
    Moonbag = 1
    MaxTries = 2
    MaxPermanent = 2
    MaxFaults = 1
    MaxRequests = 0
PROPERTIES PartialVerifyFailureLocks
CHECK_DEADLOCK FALSE
