CONSTANTS
    MaxFrames  = 1
    MaxPackets = 1
    Overdue    = {}
SPECIFICATION Spec
INVARIANT CleanlyExits
CHECK_DEADLOCK FALSE
