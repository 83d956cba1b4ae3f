SPECIFICATION Spec
CONSTANTS
    Procs = {p1, p2, p3}
    MaxIndex = 5
INVARIANTS PublishedInOrder
CHECK_DEADLOCK FALSE
