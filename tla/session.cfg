CONSTANTS
    Connects = {c1, c2, c3}
    Disconnects = {d1}
    None = None
    Overlap = FALSE
SPECIFICATION FairSpec
CHECK_DEADLOCK FALSE
INVARIANTS
    TypeOK
    ConnectedIsLive
    EveryConnectionOwned
    OneSource
    CancelledNotAdopted
    NotPausedForever
PROPERTIES
    
    AttemptSettles
