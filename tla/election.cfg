CONSTANTS
    r1 = r1
    r2 = r2
    None = None
    Gone = Gone
    Replicas = {r1, r2}
    LeaseDuration = 9
    RenewDeadline = 4
    RetryPeriod = 2
    AnswerTime = 2
    ConflictRetries = 1
    MaxErrors = 2
SPECIFICATION LiveSpec
INVARIANTS TypeOK OneLeader LeaderHoldsLease StopsOnlyWhenTaken
PROPERTY SomebodyLeads
