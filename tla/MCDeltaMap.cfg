CONSTANTS
    Replicas = {1, 2}
    Faults = {"lose"}
    MaxWire = 1
    MaxDigests = 1
    Keys = {"k"}
    Elems <- KeyAndOther
    MaxOps <- TwoEach
    MaxTotal = 2
SPECIFICATION MapSpec
INVARIANT RemovedKeyStaysPruned
