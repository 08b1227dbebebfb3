CONSTANTS
    MaxFrames  = 2
    MaxPackets = 2
    Overdue    = {2}
SPECIFICATION FairSpec
INVARIANTS
    TypeOK
    OrderlyExit
    DestroyedUseIsLate
PROPERTIES
    FollowsPipes
    PipesDeliver
    StopEndsWait
CHECK_DEADLOCK FALSE
