CONSTANTS
    MaxOutput = 4
    PipeCapacity = 2
    BufferSize = 2
    Limits = {0, 1, 3}
    Timeouts = {0, 2}
    DefaultTimeout = 3
    Interval = 2
    Horizon = 4
SPECIFICATION Spec
INVARIANT SuccessMeansComplete
PROPERTIES OwnStatus Returns
CHECK_DEADLOCK FALSE
