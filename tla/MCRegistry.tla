----------------------------- MODULE MCRegistry -----------------------------
(***************************************************************************)
(* Small instances of Registry: requests that meet on identifiers, on      *)
(* receipts and in one batch.                                              *)
(***************************************************************************)
EXTENDS Registry, TLC

Item(accession, others) ==
    [accession |-> accession, others |-> others, flaw |-> "NONE"]

Flawed(accession, flaw) ==
    [accession |-> accession, others |-> {}, flaw |-> flaw]

Request(kind, id, items) == [kind |-> kind, id |-> id, items |-> items]

(* A case and a batch of either mode compete for the identifiers, one id   *)
(* is used for two batches, and a dry run is made of a case.  The items of *)
(* the batches are in each other's way, or malformed.                      *)
Competing ==
    {Request("CREATE",    1, <<Item("A", {"C"})>>),
     Request("ATOMIC",    1, <<Item("B", {"D"}), Item("C", {})>>),
     Request("PARTIAL",   1, <<Item("C", {}), Item("D", {"B"}), Item("B", {}),
                               Flawed("A", "FIELD")>>),
     Request("ATOMIC",    2, <<Item("D", {}), Flawed("A", "IDENTIFIER")>>),
     Request("PREFLIGHT", 1, <<Item("A", {}), Item("D", {}), Item(None, {}),
                               Flawed("C", "IDENTIFIER")>>)}
=============================================================================
