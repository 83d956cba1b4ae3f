SPECIFICATION Spec
CONSTANTS
    Members = {m1, m2}
    Proposers = {m1, m2}
    Refuses = {1}
    MaxTerm = 1
    MaxCalls = 1
    MaxDeaths = 0
    PowerLoss = FALSE
INVARIANTS RefusalIsHandled
CHECK_DEADLOCK FALSE
