SPECIFICATION StagingSpec
CONSTANTS
    Workloads <- MCWorkloads
    GraphsOf <- MCGraphsOf
    Networks <- MCNetworks
    MaxComponentSize = 2
    ScoreBits = 4
CHECK_DEADLOCK FALSE
INVARIANTS
    UsageIsExact
    KeptFits
    ChoosesMostAccess
    SameMemoryUnlessShared
    CascadeSizeExact
    CascadeReducesPeak
    PeakCovers
