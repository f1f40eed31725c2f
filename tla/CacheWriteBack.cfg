SPECIFICATION Spec
CONSTANTS
    Policy = "RoundRobin"
    WritePolicy = "WriteBack"
    Sets = {0}
    Tags = {0, 1, 2}
    NLines = 2
    Offsets = {0, 1}
    Spans = {{0}, {0, 1}}
    Saturation = 2
    Vals = {0, 1}
    ResetVal = 1
    Debugger = FALSE
INVARIANTS
    CleanLinesCoherent
PROPERTIES
    ImplementsPersistentMemory
