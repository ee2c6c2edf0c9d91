CONSTANTS
    Replicas = {1, 2}
    Faults = {}
    MaxWire = 2
    MaxDigests = 1
    Keys = {""}
    Values = {v, w}
    NoValue = NoValue
    Writers <- AllWriters
    MaxOps <- TwoAndOne
SPECIFICATION RegisterSpec
INVARIANT AgreeOnceReceived
