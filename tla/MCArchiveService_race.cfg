SPECIFICATION FairSpec
CONSTANTS
    None = None
    c1 = c1
    c2 = c2
    a1 = a1
    a2 = a2
    Cases = {c1, c2}
    Workers = {w1, w2}
    Requests <- CompetingRequests
    MaxCrashes = 1
    MaxAuditFaults = 2
INVARIANTS
    TypeOK
    MutexesHeldInside
    NoBlindUpdate
    AtMostOnce
    AnswerIsDurable
    AssetsUnique
    AuditFollowsCase
    SealedOverCompleteAudit
    AuditComplete
    RestartKeepsAudit
PROPERTIES
    ImplementsLedger
    EveryRequestAnswered
