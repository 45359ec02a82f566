CONSTANTS
    People <- Everyone
    Staff <- ManyJobs
    TaskSets <- OneOrTwoTasks
    Categories = {"clipping"}
    Places = {"VAULT"}
    Risks = {"none", "other", "high"}
    Summing = {TRUE, FALSE}
    Controlling = {TRUE, FALSE}
    Splicing = {TRUE, FALSE}
    Scheduling = {TRUE, FALSE}
    Escalating = {TRUE}
    Starts = {1}
    Lengths = {1, 2}
    Listening = {TRUE, FALSE}
    None = None
    MaxTime = 1
    MaxTerm = 1
    MaxRevision = 13
    MaxPlans = 2
    MaxVersion = 4
    MaxTransfers = 0
SPECIFICATION Spec
CONSTRAINT PeopleOrEvidence
INVARIANTS
    TypeOK
    StateMatchesEvidence
    DutiesSeparated
    RepeatedFailureEscalates
    PassedCaseIsSealable
PROPERTIES EvidenceOnlyGrows ImplementsProtocol
CHECK_DEADLOCK FALSE
