CONSTANTS
    Requests       <- MCRequests
    DataSize       <- MCDataSize
    NoRequest      = NoRequest
    Words          <- Byte
    Junk           = Junk
    Frames         = {}
    Garbage        = {0}
    BlockSize      = 46
    MaxData        = 512
    RetryCount     = 3
    AnswerTimeout  = 1
    IdleTimeout    = 6
    U16            = 65536
    MaxCounter     = 65536
    RequestBytes   <- MCRequestBytes
    ReplyBytes     <- MCReplyBytes
    DeviceBlocks   = {37, 46, 217}
    Port           = 4
SPECIFICATION WireSpec
INVARIANTS
    
    ReadsWithinFrame
    RequestArrives
    ReplyArrives
    EveryRequestIsAnswered
CHECK_DEADLOCK FALSE
