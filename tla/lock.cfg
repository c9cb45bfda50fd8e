SPECIFICATION FairSpec
CONSTANTS
    p1 = p1  p2 = p2
    w1 = w1  w2 = w2  w3 = w3
    Process = {p1, p2}
    Worker = {w1, w2, w3}
    Home <- MCHome
    Token = {t1, t2, t3, t4}
    NoClaim = NoClaim
    MaxFaults = 2
INVARIANTS MutualExclusion
PROPERTIES OrphanRecovered YoungClaimEndsByOwner ImplementsLease
