CONSTANTS
    Replicas = {1, 2}
    Faults = {"lose"}
    MaxWire = 0
    MaxDigests = 1
    Elems = {"k"}
    MaxOps <- TwoAndOne
SPECIFICATION MapSpec
INVARIANTS
    MapTypeOK
    ValueBacked
PROPERTIES
    ImplementsORSet
