CONSTANTS
    MaxItems = 2
    MaxHandles = 2
    MaxFaults = 1
    HistoryLimit = 1
SPECIFICATION Spec
CHECK_DEADLOCK FALSE
INVARIANTS
    TypeOK
    NameHasFile
PROPERTIES
    Replaces
    TransfersSettle
