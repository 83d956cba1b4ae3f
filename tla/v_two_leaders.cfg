CONSTANTS
    r1 = r1
    r2 = r2
    None = None
    Gone = Gone
    Replicas = {r1, r2}
    LeaseDuration = 15
    RenewDeadline = 10
    RetryPeriod = 2
    AnswerTime = 3
    ConflictRetries = 1
    MaxErrors = 2
SPECIFICATION Spec
INVARIANT OneLeader
