\* Stripes of at most 12 pixels, one byte per pixel of a channel group.
SPECIFICATION LocalSpec
CONSTANTS
    C32 = 1
    MaxTileWidth = 16
    InternalRows = 12
    SpillCells = 12
    MaxM = 12
    Operations <- MCOperations
    Words = 4
    Contents = {"weights", "rows"}
    Offsets = {0, 1}
INVARIANTS
    QueriesAreExact
    JobsAreExact
    OutputIsExact
    ClaimsHold
CHECK_DEADLOCK FALSE
