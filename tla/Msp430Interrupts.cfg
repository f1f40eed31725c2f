SPECIFICATION Spec
CONSTANTS
    Modes = {1, 2, 3}
    Ccr0Values = {0, 1}
    CountMax = 2
    Pins = {"p"}
    MaxNesting = 1
    MaxSupply = 3
    MaxEdges = 1
    MaxStores = 2
INVARIANTS
    TypeOK
    AckMatchesVector
    NoLostExpiry
    ExecutesOnlyBooted
PROPERTIES
    TimerTakenOnce
CHECK_DEADLOCK FALSE
