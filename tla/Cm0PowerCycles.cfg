SPECIFICATION Spec
CONSTANTS
    Irqs = {0, 1}
    GpioIrq = 1
    PipelineStages = 2
    Prios = {0, 1}
    Pins = {"p"}
    MaxEdges = 2
    MaxTicks = 2
    MaxStores = 3
    MaxPower = 3
    PowerGlitches = TRUE
    WfiInHandler = TRUE
INVARIANTS
    TypeOK
    PendingOutputFresh
    NoLostEdge
    NoLostTick
    NoSleepOverException
PROPERTIES
    TakesMostUrgent
CHECK_DEADLOCK FALSE
