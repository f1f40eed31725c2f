SPECIFICATION FairSpec
CONSTANTS
    Modes = {1}
    Ccr0Values = {0}
    CountMax = 1
    Pins = {"p"}
    MaxNesting = 1
    MaxSupply = 3
    MaxEdges = 1
    MaxStores = 1
PROPERTIES
    EdgeServed
    Boots
    LowSupplyNoticed
CHECK_DEADLOCK FALSE
