CONSTANTS
    Replicas = {1, 2}
    Faults = {"lose"}
    MaxWire = 1
    MaxDigests = 1
    Elems = {"e"}
    MaxOps <- TwoAndOne
SPECIFICATION Spec
INVARIANTS
    TypeOK
    HeldDotsReceived
    OnlyObservedAddsRemoved
    DigestAnswerComplete
PROPERTY CollectedOnlyIfReceived
