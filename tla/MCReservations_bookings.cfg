CONSTANTS
    None = None
    c1 = c1
    c2 = c2
    d1 = d1
    d2 = d2
    o1 = o1
    Cases = {c1, c2}
    Workers = {w1, w2}
    Devices = {d1, d2}
    Operators = {o1}
    Teams <- SharingTeams
    Slots <- ShortAndLong
    Takes <- OneUnit
    Term = 3
    Second = 2
    MaxTime = 3
    MaxPlanning = 4
    MaxRevision = 7
SPECIFICATION Spec
CONSTRAINT OneGoesOn
SYMMETRY Interchangeable
INVARIANTS
    NoDoubleBooking
    RecordingsApart
CHECK_DEADLOCK FALSE
