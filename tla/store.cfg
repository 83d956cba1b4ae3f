SPECIFICATION MCSpec
CONSTANTS
    Keys = {1, 2, 3}
    Commands <- AllCommands
    MaxIndex = 6
    RbacKeys = {1}
    ReadRevisions = {0, 2, 3}
INVARIANTS TypeOK HistoryStable ReplayMatchesLive ReplayServesPrev VersionsOrderALife NoLostUpdate
PROPERTIES LeaseRevocationComplete ListIsTruthful ImplementsEventLog
CHECK_DEADLOCK FALSE
