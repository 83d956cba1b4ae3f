SPECIFICATION MCSpec
CONSTANTS
    Members = {m1, m2, m3}
    Proposers = {m1, m2, m3}
    Refuses = {3}
    MaxTerm = 2
    MaxCalls = 3
    MaxDeaths = 1
    PowerLoss = FALSE
    Stories = {"writes", "delays", "deaths", "snapshots", "refusals"}
SYMMETRY Interchangeable
INVARIANTS StoresAgree OkResultIsDurable OneLeaderPerTerm SnapshotHonest StartsFromItsLog
CHECK_DEADLOCK FALSE
