SPECIFICATION Spec
CONSTANTS
    Half = 16
    Dims <- SmallDims
    MaxRank = 3
    MaxBytes = 220
    Capacities = {0, 15}
    OutputSizes = {0, 1, 6}
CHECK_DEADLOCK FALSE
INVARIANTS
    TypeOK
    CrashesHaveCauses
    
