CONSTANTS
    Capacity = 3
    Limit = 2
    Batch = 2
    MaxMessage = 2
    Window = 1
    MaxMessages = 2
    MaxWrites = 1
SPECIFICATION FairSpec
CHECK_DEADLOCK FALSE
INVARIANTS
    TypeOK
    BufferBounded
    NothingLost
    NoLostSpaceWakeup
    NoLostDataWakeup
PROPERTIES
    OutputArrives
    RemoteEndReported
    
