---------------------------- MODULE ArchiveLedger ----------------------------
(***************************************************************************)
(* What the write path of the service promises its clients: every case is  *)
(* a journal of requests.  A request enters the journal of its case at     *)
(* most once, at the revision the client expected, never after the request *)
(* that sealed the case, and never with a capture asset that some journal  *)
(* already holds; a success answer names the revision the request          *)
(* produced, however often it is retried and whatever crashes in between.  *)
(***************************************************************************)
EXTENDS Integers, Sequences

CONSTANTS Cases, Requests

VARIABLES
    journal,    \* per case, the requests applied to it, in order
    answered    \* the success answers clients have received

vars == <<journal, answered>>

(* Revision 1 is the registration; the i-th request produces revision i+1. *)
Init ==
    /\ journal = [c \in Cases |-> <<>>]
    /\ answered = {}

Entries == UNION {{journal[c][i] : i \in DOMAIN journal[c]} : c \in Cases}

SameKey(p, q) == p.op = q.op /\ p.case = q.case /\ p.id = q.id

Closed(c) == \E i \in DOMAIN journal[c] : journal[c][i].op = "SEAL"

Apply(q) ==
    /\ q.rev = Len(journal[q.case]) + 1
    /\ ~Closed(q.case)
    /\ \A p \in Entries : ~SameKey(p, q)
    /\ q.op = "CAPTURE" =>
         \A p \in Entries : p.op = "CAPTURE" => p.asset # q.asset
    /\ journal' = [journal EXCEPT ![q.case] = Append(@, q)]
    /\ UNCHANGED answered

Answer(q) ==
    /\ \E i \in DOMAIN journal[q.case] :
         /\ journal[q.case][i] = q
         /\ answered' = answered \cup {[request |-> q, revision |-> i + 1]}
    /\ UNCHANGED journal

(* An operation may finish inside one step: applied and answered at once   *)
(* is Apply followed by Answer.                                            *)
Next == \E q \in Requests : Apply(q) \/ Answer(q)

Spec == Init /\ [][Next]_vars
=============================================================================
