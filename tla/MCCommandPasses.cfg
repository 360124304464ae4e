\* Streams of up to four commands over each alphabet; up to five commands, or runs, to compact.
SPECIFICATION StreamSpec
CONSTANTS
    DMAQueueDepth = 2
    Banks = 2
    MaxLoads = 4
    MaxTables = 4
    MaxStates = 4
    MaxIntervals = 4
    MaxLength = 5
    Programs <- MCPrograms
INVARIANTS
    SameMemory
    SeesSameState
    OrdersEveryHazard
    OrdersOnlyHazards
    RoundTrip
    NoBetterPlan
PROPERTIES
    ReadsAreAnnotatedExactly
CHECK_DEADLOCK FALSE
