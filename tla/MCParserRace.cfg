CONSTANTS
    MaxFrames  = 1
    MaxPackets = 2
    Overdue    = {}
SPECIFICATION Spec
INVARIANT QueuedIsOnItsWay
CHECK_DEADLOCK FALSE
