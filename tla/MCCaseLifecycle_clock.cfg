CONSTANTS
    People <- Everyone
    Staff <- TwoCustodians
    TaskSets <- OneOrTwoTasks
    Categories = {"clipping"}
    Places = {"VAULT", "LAB"}
    Risks = {"other"}
    Summing = {TRUE}
    Controlling = {FALSE}
    Splicing = {FALSE}
    Scheduling = {TRUE, FALSE}
    Escalating = {FALSE}
    Starts = {1, 2, 3}
    Lengths = {1}
    Listening = {FALSE}
    None = None
    MaxTime = 3
    MaxTerm = 2
    MaxRevision = 10
    MaxPlans = 2
    MaxVersion = 3
    MaxTransfers = 2
SPECIFICATION Spec
CONSTRAINT OneConcern
INVARIANTS
    AuthorizationSpentOnce
    AuditAcceptsLifecycle
    SealStaysVerified
    CapturesFollowPlan
CHECK_DEADLOCK FALSE
