CONSTANTS
    People <- Everyone
    Staff <- TwoCustodians
    TaskSets <- OneTask
    Categories = {"clipping"}
    Places = {"VAULT", "LAB"}
    Risks = {"other"}
    Summing = {TRUE}
    Controlling = {FALSE}
    Splicing = {FALSE}
    Scheduling = {FALSE}
    Escalating = {FALSE}
    Starts = {1}
    Lengths = {1}
    Listening = {FALSE}
    None = None
    MaxTime = 2
    MaxTerm = 1
    MaxRevision = 8
    MaxPlans = 1
    MaxVersion = 2
    MaxTransfers = 2
SPECIFICATION Spec
INVARIANT TransfersStayValid
CHECK_DEADLOCK FALSE
