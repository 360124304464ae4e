\* Stripe heights of both schedules the scheduler proposes.
SPECIFICATION WorkspaceSpec
CONSTANTS
    Cascades <- MCCascades
INVARIANTS
    InputIsHeld
    InputsExact
    WeightsExact
    WalkIsComplete
    ReservationSuffices
CHECK_DEADLOCK FALSE
