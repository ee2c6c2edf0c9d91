CONSTANTS
    Cluster = {p1, p2, p3}
    Concerns = {"WLocal", "WMajority", "WAll"}
    Calls = {c1, c2}
SPECIFICATION FairSpec
INVARIANTS
    TypeOK
    ConcernSatisfied
    LoopNeverExhausted
PROPERTIES
    ExpiryEndsWait
    AllAckedEndsWait
CHECK_DEADLOCK FALSE
