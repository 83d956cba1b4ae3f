SPECIFICATION FairSpec
CONSTANTS
    Keys = {1, 2}
    Ids = {w1, w2}
    Requests <- TwoRequests
    Writes <- SomeWrites
    Capacity = 1
    MaxRevision = 3
INVARIANTS TypeOK Gapless InOrder NothingSkipped
PROPERTIES EventuallyDelivered
CHECK_DEADLOCK FALSE
