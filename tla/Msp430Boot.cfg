SPECIFICATION FairSpec
CONSTANTS
    Modes = {1}
    Ccr0Values = {0}
    CountMax = 1
    Pins = {"p"}
    MaxNesting = 1
    MaxSupply = 3
    MaxEdges = 0
    MaxStores = 1
PROPERTIES
    AlwaysBoots
CHECK_DEADLOCK FALSE
