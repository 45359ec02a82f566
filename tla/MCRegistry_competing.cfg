SPECIFICATION Spec
CONSTANTS
    None = None
    Identifiers = {"A", "B", "C", "D"}
    Workers = {w1, w2}
    Requests <- Competing
    MaxCrashes = 1
    MaxAuditFaults = 1
INVARIANTS
    IdentifiersUnique
    RegisteredOnce
    ReceiptsMatchCases
    AnswersAgree
    CheckedStaysFree
    RegistrationsReachAudit
