CONSTANTS
    Duration = 3
    Ended = 3
    Tolerance = 1
    Stable = 2
    Facets = {"A", "B"}
    Playable = {"A"}
    Entries <- SmallEntries
    MaxEntries <- Lengths
    Limits = {1}
SPECIFICATION Spec
INVARIANT SealRepeatsAnyReview
CHECK_DEADLOCK FALSE
