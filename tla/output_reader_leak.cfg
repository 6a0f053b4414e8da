CONSTANTS
    Capacity = 2
    Limit = 1
    Batch = 1
    MaxMessage = 2
    Window = 1
    MaxMessages = 2
    MaxWrites = 0
SPECIFICATION FairSpec
CHECK_DEADLOCK FALSE
PROPERTY ReaderEnds
