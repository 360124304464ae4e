SPECIFICATION EthosSpec
CONSTANTS
    Commands <- MCCommands
    MaxCommands = 1
    Limits <- MCLimits
    BlockPairs <- TwoViews
    LutStreams <- GroupStreams
    TotalSlots = 4
    Table <- GroupTable
    GroupGraphs <- FusedTwice
    Units <- GroupUnits
CHECK_DEADLOCK FALSE
INVARIANTS
    TableIsLoaded
