-------------------------- MODULE MCArchiveService --------------------------
(***************************************************************************)
(* Small instances of ArchiveService: one or two cases, two goroutines,    *)
(* and requests that meet on one revision, on one receipt and on one       *)
(* capture asset.                                                          *)
(***************************************************************************)
EXTENDS ArchiveService, TLC

CONSTANTS c1, c2, a1, a2

Request(op, case, id, rev, asset) ==
    [op |-> op, case |-> case, id |-> id, rev |-> rev, asset |-> asset]

(* Captures of both cases for one asset, one of them sent again with its   *)
(* id for another revision and asset; an update, a release and a seal      *)
(* compete with those.                                                     *)
CompetingRequests ==
    {Request("MUTATE",  c1, 3, 2, None),
     Request("CAPTURE", c1, 1, 1, a1),
     Request("CAPTURE", c1, 1, 2, a2),
     Request("SEAL",    c1, 2, 2, None),
     Request("RELEASE", c1, 4, 2, None),
     Request("CAPTURE", c2, 1, 1, a1)}
=============================================================================
