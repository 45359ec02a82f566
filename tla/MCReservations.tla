--------------------------- MODULE MCReservations ---------------------------
(***************************************************************************)
(* A small instance of Reservations: two cases that want the same operator *)
(* at different devices.                                                   *)
(***************************************************************************)
EXTENDS Reservations, TLC

CONSTANTS c1, c2, d1, d2, o1

SharingTeams ==
    [c \in Cases |-> IF c = c1 THEN {<<d1, o1>>} ELSE {<<d2, o1>>}]

Span(s, e) == [start |-> s, end |-> e]

ShortAndLong == {Span(1, 2), Span(1, 3), Span(2, 3)}

OneUnit == {Span(1, 2), Span(2, 3)}

(* The cases are alike: only one of them goes on after its first review.   *)
OneGoesOn == cases[c2].state \notin {"RECAPTURE_REQUIRED", "SEALED"}

Interchangeable == Permutations(Workers)
=============================================================================
