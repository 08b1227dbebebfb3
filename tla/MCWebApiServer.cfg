CONSTANTS
    c1             = c1
    c2             = c2
    e1             = e1
    e2             = e2
    Clients        = {c1, c2}
    Euis           = {e1, e2}
    Addresses      = {Blank}
    Blank          = Blank
    Contained      <- MCContained
    MaxConverters  = 2
    MaxPosted      = 1
    MaxLosses      = 1
SYMMETRY Symmetry
SPECIFICATION Spec
INVARIANTS
    TypeOK
    NoDanglingPointer
    Accounted
PROPERTIES
    FollowsLifetimes
CHECK_DEADLOCK FALSE
