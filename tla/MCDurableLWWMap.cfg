CONSTANTS
    Replicas = {1, 2}
    Faults = {"lose"}
    MaxWire = 20
    MaxDigests = 1
    Keys = {"a"}
    Values = {v}
    NoValue = NoValue
    Writers <- OneWriter
    MaxOps <- TwoAndNone
    Restarters = {2}
    MaxRestarts = 1
SPECIFICATION DurableFairSpec
INVARIANTS
    TypeOK
    RecordedIsReflected
    AgreeOnceReceived
PROPERTY EventuallyAgree
