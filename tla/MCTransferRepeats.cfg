CONSTANTS
    Requests       = {"large"}
    DataSize       <- MCDataSize
    NoRequest      = NoRequest
    Words          = {"large"}
    Junk           = Junk
    Frames         = {}
    Garbage        <- MCGarbage
    BlockSize      = 3
    MaxData        = 8
    RetryCount     = 3
    AnswerTimeout  = 1
    IdleTimeout    = 6
    U16            = 64
    MaxCounter     = 64
    MaxSessions    = 1
    Replies        = {"none"}
    ReplySize      = 5
    ReplyBlock     = 2
    DeviceCapacity = 8
    Lossy          = TRUE
    MaxInFlight    = 12
    MaxRepeats     = 2
    MaxReboots     = 1
SPECIFICATION TransferSpec
INVARIANTS
    RepeatsWithinLimit
CHECK_DEADLOCK FALSE
