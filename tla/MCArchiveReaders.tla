-------------------------- MODULE MCArchiveReaders --------------------------
(***************************************************************************)
(* Small instances of ArchiveReaders: readers of one case next to handlers *)
(* of that case and of another one.                                        *)
(***************************************************************************)
EXTENDS ArchiveReaders, TLC

CONSTANTS c1, c2, a1

Request(op, case, id, rev, asset) ==
    [op |-> op, case |-> case, id |-> id, rev |-> rev, asset |-> asset]

(* One case is updated, and then sealed or authorized after a revocation   *)
(* (the update stands for all that comes before); the other one captures   *)
(* an asset and is updated as well.                                        *)
ReadersRequests ==
    {Request("MUTATE",  c1, 1, 1, None),
     Request("SEAL",    c1, 2, 2, None),
     Request("REAUTHORIZE", c1, 3, 2, None),
     Request("CAPTURE", c2, 1, 1, a1),
     Request("MUTATE",  c2, 2, 2, None)}

OneOfEachKind ==
    {[kind |-> k, case |-> c1] : k \in {"VERIFY", "PREVIEW", "MANIFEST", "SEARCH"}}
      \cup {[kind |-> "DRYRUN", case |-> c1, id |-> 1, rev |-> 1, asset |-> a1]}

Interchangeable == Permutations(Readers)

(* Readers meet only in dry runs: of other kinds, one at a time.           *)
OneQuestion ==
    \A r, s \in Readers :
        r # s /\ rreq[r] # None /\ rreq[s] # None =>
            rreq[r].kind = "DRYRUN" /\ rreq[s].kind = "DRYRUN"

(* Dry runs are followed while no append fails: they do not see the audit. *)
DryRunsApart ==
    (\E r \in Readers : rreq[r] # None /\ rreq[r].kind = "DRYRUN")
      \/ (\E k \in DryKeys : dryIdem[k] # None) => auditFaults = 0

Bounded == OneQuestion /\ DryRunsApart
=============================================================================
