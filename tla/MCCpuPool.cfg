CONSTANTS
    N = 2
    FAN = 1
    UNITS = 2
    JobNumbers = 1
    Sizes <- MCUneven
    MaxJobs = 2
SPECIFICATION FairSpec
CHECK_DEADLOCK FALSE
INVARIANTS
    FunctionLive
    EachTaskOnce
    NoLostWake
PROPERTIES
    ImplementsParallelFor
    RunReturns
    DropEnds
