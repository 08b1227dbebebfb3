CONSTANTS
    Requests       = {"large", "small", "huge", "empty"}
    DataSize       <- MCDataSize
    NoRequest      = NoRequest
    Words          = {"large", "small", "huge", "empty"}
    Junk           = Junk
    Frames         = {}
    Garbage        <- MCGarbage
    BlockSize      = 3
    MaxData        = 8
    RetryCount     = 3
    AnswerTimeout  = 1
    IdleTimeout    = 12
    U16            = 64
    MaxCounter     = 64
    MaxSessions    = 1
    Replies        = {"none", "small", "large"}
    ReplySize      = 5
    ReplyBlock     = 2
    DeviceCapacity = 8
    Lossy          = TRUE
    MaxInFlight    = 12
    MaxRepeats     = 2
    MaxReboots     = 1
SPECIFICATION FairTransferSpec
INVARIANTS
    TransferTypeOK
    ConfirmedIsWritten
    AckedIsStored
    QuietIdle
PROPERTIES
    FinishAfterAllData
    NeverBadCrc
    AcceptedEnds
CHECK_DEADLOCK FALSE
