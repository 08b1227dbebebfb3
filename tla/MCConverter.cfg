CONSTANTS
    Requests       <- MCRequests
    DataSize       <- MCDataSize
    NoRequest      = NoRequest
    Words          = {"w"}
    Junk           = Junk
    Frames         <- MCFrames
    Garbage        <- MCGarbage
    BlockSize      = 4
    MaxData        = 8
    RetryCount     = 3
    AnswerTimeout  = 1
    IdleTimeout    = 4
    U16            = 16
    MaxCounter     = 20
SPECIFICATION FairSpec
INVARIANTS
    TypeOK
    AttemptsBounded
    RetransmissionIsCurrent
    Watched
    SilenceIsReported
PROPERTIES
    FollowsContract
    SilentDeviceReleasesEntry
