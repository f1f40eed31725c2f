SPECIFICATION LruSpec
CONSTANTS
    Policy = "LRU"
    WritePolicy = "WriteThrough"
    Sets = {0, 1}
    Tags = {0, 1, 2}
    NLines = 2
    Offsets = {0}
    Spans = {{0}}
    Saturation = 2
    Vals = {0, 1}
    ResetVal = 1
    Debugger = FALSE
    LineWidth = 4
    NSets = 2
    AddrBits = 5
    AddrSpace = 32
INVARIANTS
    MemoryIsUpToDate
    LinesApart
    MasksDivide
PROPERTIES
    EvictsLeastRecent
