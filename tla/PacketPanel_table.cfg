SPECIFICATION Spec
CONSTANTS
    None = None
    File = File
    Capacity = 2
    Limit = 2
    CacheSize = 2
    FileSize = 2
    Marked <- MCMarked
    MaxPackets = 4
    MaxCalls = 2
    MaxActs = 3
INVARIANTS RingHoldsNewest TableIsComplete PayloadOfItsId
CHECK_DEADLOCK FALSE
