SPECIFICATION EthosSpec
CONSTANTS
    Commands <- MCCommands
    MaxCommands = 1
    Limits <- MCLimits
    BlockPairs <- TwoViews
    LutStreams <- GroupStreams
    TotalSlots = 4
    GroupGraphs <- FusedTwice
    Table <- GroupTable
    Units <- GroupUnits
CHECK_DEADLOCK FALSE
INVARIANTS
    ComputesGraph
