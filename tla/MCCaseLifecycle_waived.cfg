CONSTANTS
    People <- Everyone
    Staff <- FewPeople
    TaskSets <- OneTask
    Categories = {"clipping"}
    Places = {"VAULT"}
    Risks = {"none", "other"}
    Summing = {TRUE}
    Controlling = {TRUE, FALSE}
    Splicing = {FALSE}
    Scheduling = {FALSE}
    Escalating = {FALSE}
    Starts = {1}
    Lengths = {1}
    Listening = {FALSE}
    None = None
    MaxTime = 1
    MaxTerm = 1
    MaxRevision = 6
    MaxPlans = 1
    MaxVersion = 1
    MaxTransfers = 0
SPECIFICATION Spec
INVARIANT WaivedControlsAreSealable
CHECK_DEADLOCK FALSE
