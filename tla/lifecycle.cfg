CONSTANTS
    None = None
    Grace = 5
    Jitter = 1
    Period = 1
    MaxLag = 2
    MaxBehind = 2
    QueueBound = 2
    MaxEdits = 3
    MaxFaults = 2
SPECIFICATION LiveSpec
PROPERTIES SilentNodesAreTainted LiveNodesRecover
CHECK_DEADLOCK FALSE
