CONSTANTS
    Requests       = {"r1", "r2"}
    DataSize       <- MCDataSize
    NoRequest      = NoRequest
    Words          = {"r1", "r2"}
    Junk           = Junk
    Frames         = {}
    Garbage        <- MCGarbage
    BlockSize      = 3
    MaxData        = 8
    RetryCount     = 3
    AnswerTimeout  = 1
    IdleTimeout    = 6
    U16            = 64
    MaxCounter     = 64
    MaxSessions    = 2
    Replies        = {"none"}
    ReplySize      = 5
    ReplyBlock     = 2
    DeviceCapacity = 8
    Lossy          = TRUE
    MaxInFlight    = 3
    MaxRepeats     = 2
    MaxReboots     = 0
SPECIFICATION TransferSpec
PROPERTIES
    FinishAfterAllData
CHECK_DEADLOCK FALSE
