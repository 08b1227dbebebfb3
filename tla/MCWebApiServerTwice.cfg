CONSTANTS
    c1             = c1
    e1             = e1
    Clients        = {c1}
    Euis           = {e1}
    Addresses      = {e1}
    Blank          = Blank
    Contained      <- MCContained
    MaxConverters  = 2
    MaxPosted      = 2
    MaxLosses      = 1
SPECIFICATION Spec
PROPERTIES
    ListedConverterAnswers
CHECK_DEADLOCK FALSE
