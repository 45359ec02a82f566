SPECIFICATION ReadSpec
CONSTANTS
    None = None
    c1 = c1
    c2 = c2
    a1 = a1
    Cases = {c1, c2}
    Workers = {w1}
    Readers = {r1, r2}
    Requests <- ReadersRequests
    Reads <- OneOfEachKind
    MaxCrashes = 1
    MaxAuditFaults = 1
CONSTRAINT Bounded
SYMMETRY Interchangeable
INVARIANTS
    DryRunsAgree
    QuietReadsAreExact
    VerifiedMeansComplete
    LockedReadersAreExact
