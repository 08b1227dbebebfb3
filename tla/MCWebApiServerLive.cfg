CONSTANTS
    c1             = c1
    e1             = e1
    other          = other
    Clients        = {c1}
    Euis           = {e1}
    Addresses      = {e1, other}
    Blank          = Blank
    Contained      <- MCContained
    MaxConverters  = 2
    MaxPosted      = 1
    MaxLosses      = 1
SPECIFICATION FairSpec
PROPERTIES
    UnlistedIsDestroyed
CHECK_DEADLOCK FALSE
