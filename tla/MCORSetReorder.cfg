CONSTANTS
    Replicas = {1, 2}
    Faults = {}
    MaxWire = 3
    MaxDigests = 0
    Elems = {"e"}
    MaxOps <- ThreeAndNone
SPECIFICATION Spec
INVARIANT RemovedStaysRemoved
CHECK_DEADLOCK FALSE
