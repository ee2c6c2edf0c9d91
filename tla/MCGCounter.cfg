CONSTANTS
    Replicas = {1, 2}
    Faults = {"lose", "duplicate"}
    MaxWire = 20
    MaxDigests = 1
    Amounts = {0, 1, 2}
    MaxTotal <- TwoAndNone
    Modulus = 16
SPECIFICATION FairSpec
INVARIANTS
    TypeOK
    NoOverCount
    MarkBackedByCount
    ReportedMarksSound
    DigestAnswerComplete
PROPERTIES
    CountsNeverDecrease
    EventuallyConverged
