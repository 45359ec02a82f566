--------------------------- MODULE MCEvidenceRules ---------------------------
(***************************************************************************)
(* Small lists for EvidenceRules.                                          *)
(***************************************************************************)
EXTENDS EvidenceRules

Intervals(duration) ==
    {s \in [start : 0..(duration - 1), end : 1..duration] : s.start < s.end}

(* Intervals in any order; segments are numbered by the client and may     *)
(* share a digest; tasks are counted from 1 and skipped facets have 0.     *)
SmallEntries ==
    [intervals |-> Intervals(Duration),
     operations |-> [type : {"pause", "resume", "splice_repair", "operator_note"},
                     at : 0..Ended],
     segments |-> {[sequence |-> n, start |-> s.start, end |-> s.end, digest |-> d] :
                      n \in 1..3, s \in Intervals(Duration), d \in {"d1", "d2", "d3"}},
     tasks |-> [facet : Facets, order : 0..3],
     readings |-> [at : 0..4, inside : BOOLEAN]]

Lengths ==
    [intervals |-> 4, operations |-> 4, segments |-> 3, tasks |-> 4,
     readings |-> 4, audit |-> 6]
=============================================================================
