CONSTANTS
    Replicas = {1, 2}
    MaxCounter = 5
SPECIFICATION Spec
INVARIANTS
    TypeOK
    HWMIsContiguousPrefix
PROPERTIES
    RecordAddsItsCounter
    ImplementsReceivedSet
