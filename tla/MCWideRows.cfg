\* Output rows of 14 pixels, and 12 rows of partial sums.
SPECIFICATION LocalSpec
CONSTANTS
    C32 = 1
    MaxTileWidth = 16
    InternalRows = 12
    SpillCells = 12
    MaxM = 12
    Operations <- WideOperations
    Words = 1
    Contents = {"rows"}
    Offsets = {0}
INVARIANT OutputIsExact
CHECK_DEADLOCK FALSE
