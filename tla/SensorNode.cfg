SPECIFICATION Spec
CONSTANTS
    MaxFrames = 2
    Axes = {1, 3}
    FIFO_CAPACITY = 4
    Threshold = 4
    Starts <- MCStarts
    Values <- MCValues
    CR2Values <- MCCR2Values
    MaxBytes = 3
    MaxConfigs = 2
    MaxPower = 1
INVARIANTS
    TypeOK
    DataInOrder
    IrqMeansData
    RxIrqNotLost
    TxWoken
CHECK_DEADLOCK FALSE
