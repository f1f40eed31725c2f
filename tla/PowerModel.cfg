SPECIFICATION Spec
CONSTANTS
    Modules <- MCModules
    EventNames <- MCEventNames
    StateNames <- MCStateNames
    Drawing <- MCDrawing
    LogStep = 2
    Logging = TRUE
    DumpThreshold = 1
    MaxCount = 1
    MaxReports = 2
    Harvest = {0, 3}
    VoltageLimit = 9
    MaxStepSize = 3
    VOn = 5
    VOff = 4
    VCore = 1
    Icc = 1
    MaxDynamic = 1
    MaxTime = 12
INVARIANTS
    TypeOK
PROPERTIES
    ImplementsLedger
    
CHECK_DEADLOCK FALSE
