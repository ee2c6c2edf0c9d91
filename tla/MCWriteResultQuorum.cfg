CONSTANTS
    Cluster = {p1, p2, p3}
    Concerns = {"WMajority"}
    Calls = {c1}
SPECIFICATION FairSpec
PROPERTY QuorumEndsWait
CHECK_DEADLOCK FALSE
