CONSTANTS
    a = a
    b = b
    None = None
    Keys = {a, b}
    Labels = {TRUE}
    Readers = {"client", "authorizer", "reconciler"}
    EventBuffer = 1
    HistoryLimit = 2
    MaxRevision = 4
    MaxFaults = 1
SPECIFICATION MCSpec
INVARIANTS CacheIsASnapshot CaughtUp AuthorizerUpToDate RegistrationsFollow
PROPERTY ClientConverges
CHECK_DEADLOCK FALSE
