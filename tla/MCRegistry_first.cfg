SPECIFICATION Spec
CONSTANTS
    None = None
    Identifiers = {"A", "B", "C", "D"}
    Workers = {w1, w2}
    Requests <- Competing
    MaxCrashes = 0
    MaxAuditFaults = 0
INVARIANTS
    FirstEventIsRegistration
