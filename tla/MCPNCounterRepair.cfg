CONSTANTS
    Replicas = {1, 2}
    Faults = {"lose"}
    MaxWire = 4
    MaxDigests = 1
    Amounts = {1}
    MaxOps <- OneEach
    Modulus = 16
SPECIFICATION FairSpec
PROPERTY EventuallyConverged
