CONSTANTS
    p1 = p1
    p2 = p2
    n1 = n1
    n2 = n2
    b1 = b1
    b2 = b2
    None = None
    Pods = {p1, p2}
    Nodes = {n1}
    Capacity <- OneRoom
    Binders = {b1, b2}
    Starts <- Clusters
SPECIFICATION LiveSpec
INVARIANTS TypeOK NobodyLost NotOvercommitted CacheSettles
PROPERTIES EventuallyPlaced
CHECK_DEADLOCK FALSE
