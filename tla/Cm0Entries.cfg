SPECIFICATION FairSpec
CONSTANTS
    Irqs = {0, 1}
    GpioIrq = 1
    PipelineStages = 2
    Prios = {0, 1}
    Pins = {"p"}
    MaxEdges = 2
    MaxTicks = 1
    MaxStores = 3
    MaxPower = 1
    PowerGlitches = TRUE
    WfiInHandler = FALSE
PROPERTIES
    NvicEntriesRequested
    TickEntriesRequested
    EdgeServed
CHECK_DEADLOCK FALSE
