SPECIFICATION Spec
CONSTANTS
    Policy = "LFU"
    WritePolicy = "WriteAround"
    Sets = {0}
    Tags = {0, 1, 2}
    NLines = 2
    Offsets = {0}
    Spans = {{0}}
    Saturation = 2
    Vals = {0, 1}
    ResetVal = 1
    Debugger = TRUE
INVARIANTS
    TypeOK
    UniqueTags
PROPERTIES
    WritesVisible
