\* Two convolutions with staged weights.
CONSTANTS
    Cascades <- TwoConvolutions
SPECIFICATION WorkspaceSpec
INVARIANTS
    WeightsExact
CHECK_DEADLOCK FALSE
