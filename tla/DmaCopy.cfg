SPECIFICATION MemSpec
CONSTANTS
    Channels = {0}
    Triggers = {0}
    Configs <- Copies
    Addresses = {0}
    Undef = 9
    Delays = {1}
    MaxAccesses = 4
    MaxTriggers = 1
    MaxMoved = 5
    MaxPower = 2
    MaxExceptions = 0
    Cells = {0, 1}
    Values = {0, 1}
    Other = 0
PROPERTIES
    ImplementsBlockCopy
CHECK_DEADLOCK FALSE
