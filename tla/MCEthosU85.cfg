SPECIFICATION EthosSpec
CONSTANTS
    Commands <- MCCommands
    MaxCommands = 5
    Limits <- MCLimits
    BlockPairs <- MCBlockPairs
    LutStreams <- MCStreams
    TotalSlots = 4
    Table <- MCTable
    GroupGraphs <- MCGroupGraphs
    Units <- MCUnits
CHECK_DEADLOCK FALSE
INVARIANTS
    NoHazard
    NothingReadEarly
    TableIsLoaded
    WeightsAreExact
    ComputesConvolution
    ComputesGraph
PROPERTIES
    SlicingTerminates
