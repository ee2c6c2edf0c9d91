CONSTANTS
    Replicas = {1, 2}
    Faults = {"lose"}
    MaxWire = 1
    MaxDigests = 1
    Amounts = {1}
    Modulus = 16
    Values = {v}
    Keys = {"k"}
    PushFaults = {"lose", "duplicate"}
    Members <- KeyAndOther
    MaxOps <- TwoAndOne
    MapWire = 0
    MapOps <- TwoEach
    MaxTotal = 2
SPECIFICATION Spec
INVARIANTS
    TypeOK
    NoOverCount
    RecordedIsCounted
    HoldsWhatItRecorded
    DigestAnswerComplete
    ConcurrentWritesKept
    OneValuePerWriter
    MapAnswerComplete
    OnlyObservedMembersRemoved
    DeltaMapAnswerComplete
PROPERTIES
    AddWins
    KeyCollectedOnlyIfReceived
