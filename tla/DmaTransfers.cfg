SPECIFICATION FairSpec
CONSTANTS
    Channels = {0, 1}
    Triggers = {0}
    Configs <- EveryMode
    Addresses = {0}
    Undef = 9
    Delays = {1}
    MaxAccesses = 4
    MaxTriggers = 1
    MaxMoved = 5
    MaxPower = 2
    MaxExceptions = 1
INVARIANTS
    TypeOK
    
    NoLostCompletion
PROPERTIES
    
    BusReleased
CHECK_DEADLOCK FALSE
