SPECIFICATION MCSpec
CONSTANTS
    Schedules <- MCSchedules
    SizeOf <- MCSizeOf
    Never = 1000
    HighestAddresses = {0, 3}
    RangeSets <- MCRangeSets
    Infinite = 1000
    SizeLimit = 5
    MaxIterations = 4
    MaxStuck = 1
    MinImprove = 2
CHECK_DEADLOCK FALSE
INVARIANTS
    CoversUses
    SharingIsSafe
PROPERTIES
    ImplementsAllocation
