CONSTANTS
    DeltaMax = 2
    CheckpointAt = 2
    PendingMax = 2
    PauseAt = 2
    ResumeAt = 0
    WriteMax = 2
    SliceMax = 1
    GatherMax = 2
    EarlySuspend = FALSE
    MaxUnits = 3
    MaxSuspends = 2
    MaxMounts = 2
SPECIFICATION FairSpec
CHECK_DEADLOCK FALSE
INVARIANTS
    TypeOK
    DisplayFaithful
    ReplayFaithful
    OneUnacknowledged
    PageAgrees
PROPERTIES
    OutputShown
    SuspendCompletes
    PauseEnds
