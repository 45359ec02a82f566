CONSTANTS
    Duration = 4
    Ended = 5
    Tolerance = 1
    Stable = 2
    Facets = {"A", "B", "C"}
    Playable = {"A", "B"}
    Entries <- SmallEntries
    MaxEntries <- Lengths
    Limits = {1, 2}
SPECIFICATION Spec
INVARIANTS
    OverlapsCountOnce
    SealRepeatsReview
    PausesAddUp
    AcceptedIsProven
    PagesComplete
CHECK_DEADLOCK FALSE
