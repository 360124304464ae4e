\* Two jobs per DMA queue; the clock saturates within the longer streams.
SPECIFICATION ExecSpec
CONSTANTS
    DMAQueueDepth = 2
    Banks = 4
    InfiniteCycles = 12
    MaxKinds = 4
    MaxLength = 4
    Programs <- MCPrograms
INVARIANTS
    RespectsHazards
    QueuesWithinCapacity
    NoDataRace
    NoSpatzBesideLinebuffer
PROPERTIES
    NoQParamPreload
    ImplementsBlockingStream
    MachineEnds
CHECK_DEADLOCK FALSE
