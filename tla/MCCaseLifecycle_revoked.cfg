CONSTANTS
    People <- Everyone
    Staff <- FewPeople
    TaskSets <- OneTask
    Categories = {"clipping"}
    Places = {"VAULT"}
    Risks = {"other"}
    Summing = {TRUE}
    Controlling = {FALSE}
    Splicing = {FALSE}
    Scheduling = {FALSE}
    Escalating = {FALSE}
    Starts = {1}
    Lengths = {1}
    Listening = {FALSE}
    None = None
    MaxTime = 1
    MaxTerm = 1
    MaxRevision = 9
    MaxPlans = 1
    MaxVersion = 3
    MaxTransfers = 0
SPECIFICATION Spec
INVARIANT AuditAccepts
CHECK_DEADLOCK FALSE
