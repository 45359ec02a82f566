--------------------------- MODULE ArchiveService ---------------------------
(***************************************************************************)
(* The write path of the service: HTTP handlers running concurrently, the  *)
(* two levels of mutexes of application.App, the idempotency receipts and  *)
(* cases of store.Store (one snapshot file, replaced by a rename), and the *)
(* append-only audit file of audit.Audit, written after the snapshot and   *)
(* not atomically with it.  A crash may fall between any two steps, the    *)
(* snapshot write and the audit append may fail, and the append may leave  *)
(* part of a line behind.                                                  *)
(*                                                                         *)
(* What an operation does to a case is abstract here (an accepted request  *)
(* is appended to the log of the case, and the domain may reject any       *)
(* request); CaseLifecycle models it.                                      *)
(***************************************************************************)
EXTENDS Integers, Sequences

CONSTANTS
    Cases,              \* the registered cases
    Requests,           \* the requests clients may send, any number of times
    Workers,            \* the goroutines serving them
    None,               \* no holder, no request, no copy, no anchor
    MaxCrashes,         \* bound: restarts of the process
    MaxAuditFaults      \* bound: audit appends that fail

(* REAUTHORIZE is a recapture authorization that follows a revocation,     *)
(* MUTATE any other operation that takes the mutex of the case only.       *)
Ops == {"MUTATE", "REAUTHORIZE", "PLAN", "RELEASE", "CAPTURE", "SEAL"}

ASSUME RequestsAssumption ==
    \A q \in Requests : q.op \in Ops /\ q.case \in Cases /\ q.rev \in Nat \ {0}
ASSUME BoundsAssumption == MaxCrashes \in Nat /\ MaxAuditFaults \in Nat

VARIABLES
    cases,      \* store.Store.cases and its snapshot
    idem,       \* store.Store.idem and its snapshot: the receipts by key
    createMu,   \* application.App.createMu: its holder
    caseLock,   \* application.App.locks: the holder of each case's mutex
    pc,         \* where each worker is in the handler
    req,        \* the request each worker serves
    copy,       \* the deep copy of the case each worker works on
    auditMem,   \* audit.Audit.events of all cases, after registration
    auditFile,  \* audit.jsonl: the pieces written after registration
    answered,   \* the success answers clients have received
    crashes,
    auditFaults

storeVars == <<cases, idem>>
lockVars  == <<createMu, caseLock>>
localVars == <<pc, req, copy>>
auditVars == <<auditMem, auditFile>>
faultVars == <<crashes, auditFaults>>
vars == <<storeVars, lockVars, localVars, auditVars, answered, faultVars>>

(***************************************************************************)
(* Data.                                                                   *)
(***************************************************************************)
Key(q) == <<q.op, q.case, q.id>>

Keys == {Key(q) : q \in Requests}

(* The values of the variables.                                            *)
AuditEvent == [case : Cases, op : Ops \cup {"REGISTERED"}, rev : Nat]

Case == [rev : Nat, log : Seq(Requests), sealed : BOOLEAN,
         anchor : (SUBSET AuditEvent) \cup {None}]

Receipt == [request : Requests, rev : Nat]

Line == [event : AuditEvent \cup {None}, newline : BOOLEAN]

ASSUME NoneAssumption ==
    /\ None \notin Workers /\ None \notin Requests
    /\ None \notin AuditEvent /\ None \notin Case /\ None \notin Receipt

Event(q, r) == [case |-> q.case, op |-> q.op, rev |-> r]

Registered(c) == [case |-> c, op |-> "REGISTERED", rev |-> 1]

(* One write to audit.jsonl: an event with or without its newline, or a    *)
(* prefix of one, which json.Decoder cannot decode.                        *)
Piece(e) == [event |-> e, newline |-> TRUE]
Unended(e) == [event |-> e, newline |-> FALSE]
Torn == [event |-> None, newline |-> FALSE]

(* Fault: the decoder loses the last line                                *)
DecodableButLast(file) ==
    {n \in 0..Len(file) : n = Len(file) - 1 \/ file = <<>>}

(* How many pieces audit.New decodes: it stops at the first torn one.      *)
Decodable(file) ==
    {n \in 0..Len(file) :
        /\ \A i \in 1..n : file[i].event # None
        /\ n < Len(file) => file[n + 1].event = None}

Replay(file, n) == [i \in 1..n |-> file[i].event]

(* The events of a case in an audit: its registration and what follows.    *)
Positions(audit, c) == {i \in DOMAIN audit : audit[i].case = c}

Trail(audit, c) == {Registered(c)} \cup {audit[i] : i \in Positions(audit, c)}

InOrder(audit, c) ==
    \A i, j \in Positions(audit, c) : i < j => audit[i].rev < audit[j].rev

(* The table of transitions refuses one event of a case whose audit has no *)
(* gap: the authorization after a revocation, which the domain accepts     *)
(* (CaseLifecycle has the table and checks that this is the only one).     *)
ValidTransitions(audit, c) ==
    \A e \in Trail(audit, c) : e.op # "REAUTHORIZE"

(* audit.Validate: as many events as revisions, numbered from 1 without a  *)
(* gap, by transitions of the table.                                       *)
Validate(audit, c, revision) ==
    /\ InOrder(audit, c)
    /\ {e.rev : e \in Trail(audit, c)} = 1..revision
    /\ ValidTransitions(audit, c)

(* store.CaptureEvidenceConflict: a stored capture with the same asset.    *)
EvidenceConflict(q) ==
    \E c \in Cases : \E i \in DOMAIN cases[c].log :
        /\ cases[c].log[i].op = "CAPTURE"
        /\ cases[c].log[i].asset = q.asset

(* What the domain function leaves in the copy: Revision+1 and the         *)
(* evidence of the request; sealing anchors the audit head it has read.    *)
Applied(case, q, head) ==
    [rev    |-> case.rev + 1,
     log    |-> Append(case.log, q),
     sealed |-> q.op = "SEAL",
     anchor |-> IF q.op = "SEAL" THEN head ELSE None]

Init ==
    /\ cases = [c \in Cases |->
                  [rev |-> 1, log |-> <<>>, sealed |-> FALSE, anchor |-> None]]
    /\ idem = [k \in Keys |-> None]
    /\ createMu = None
    /\ caseLock = [c \in Cases |-> None]
    /\ pc = [w \in Workers |-> "idle"]
    /\ req = [w \in Workers |-> None]
    /\ copy = [w \in Workers |-> None]
    /\ auditMem = <<>>
    /\ auditFile = <<>>
    /\ answered = {}
    /\ crashes = 0
    /\ auditFaults = 0

(***************************************************************************)
(* The end of a handler: deferred unlocks, then the answer.                *)
(***************************************************************************)

(* Fault: the unlocks are not deferred                                   *)
ReturnAtOnce(w) ==
    /\ pc' = [pc EXCEPT ![w] = "idle"]
    /\ req' = [req EXCEPT ![w] = None]
    /\ UNCHANGED <<lockVars, copy>>

Return(w) ==
    /\ createMu' = IF createMu = w THEN None ELSE createMu
    /\ caseLock' = [c \in Cases |->
                       IF caseLock[c] = w THEN None ELSE caseLock[c]]
    /\ pc' = [pc EXCEPT ![w] = "idle"]
    /\ req' = [req EXCEPT ![w] = None]
    /\ copy' = [copy EXCEPT ![w] = None]

Succeed(w, revision) ==
    /\ Return(w)
    /\ answered' = answered \cup {[request |-> req[w], revision |-> revision]}

Refuse(w) == Return(w) /\ UNCHANGED answered

Goto(w, label) ==
    /\ pc' = [pc EXCEPT ![w] = label]
    /\ UNCHANGED <<req, answered>>

(***************************************************************************)
(* The steps of a handler.                                                 *)
(***************************************************************************)

(* The router looks at the case before anything else, except on the        *)
(* reservation path: once the case is sealed it answers ErrSealed.         *)
SealedGate(q) == q.op # "RELEASE" /\ cases[q.case].sealed

(* PlanWithRequest, ReleaseReservationWithRequest and the captures take    *)
(* the global mutex before the mutex of the case; nobody takes it after.   *)
NeedsCreateMu(q) == q.op \in {"PLAN", "RELEASE", "CAPTURE"}

Receive(w, q) ==
    /\ pc[w] = "idle"
    /\ ~SealedGate(q)
    /\ req' = [req EXCEPT ![w] = q]
    /\ pc' = [pc EXCEPT ![w] = IF NeedsCreateMu(q)
                               THEN "createMu" ELSE "caseLock"]
    /\ UNCHANGED <<storeVars, lockVars, copy, auditVars, answered, faultVars>>

(* Fault: createMu is not a mutex                                        *)
LockNothing(w) ==
    /\ pc[w] = "createMu"
    /\ createMu' = w
    /\ Goto(w, IF req[w].op = "CAPTURE" THEN "evidence" ELSE "caseLock")
    /\ UNCHANGED <<storeVars, caseLock, copy, auditVars, faultVars>>

LockCreateMu(w) ==
    /\ pc[w] = "createMu"
    /\ createMu = None
    /\ createMu' = w
    /\ Goto(w, IF req[w].op = "CAPTURE" THEN "evidence" ELSE "caseLock")
    /\ UNCHANGED <<storeVars, caseLock, copy, auditVars, faultVars>>

(* Fault: a retry gets the current revision                              *)
ReturnCurrentRevision(w) ==
    LET saved == idem[Key(req[w])]
    IN  /\ saved # None
        /\ \/ saved.request = req[w] /\ Succeed(w, cases[req[w].case].rev)
           \/ saved.request # req[w] /\ Refuse(w)

(* App.idempotent: the saved result, a conflict when the key was used for  *)
(* another request, or nothing saved.                                      *)
ReturnSaved(w) ==
    LET saved == idem[Key(req[w])]
    IN  /\ saved # None
        /\ \/ saved.request = req[w] /\ Succeed(w, saved.rev)
           \/ saved.request # req[w] /\ Refuse(w)

(* Fault: the receipts are not looked up                                 *)
NeverSaved(w) == TRUE

NotSaved(w) == idem[Key(req[w])] = None

(* CaptureWithRequest before it takes the lock of the case.                *)
CheckEvidence(w) ==
    /\ pc[w] = "evidence"
    /\ \/ ReturnSaved(w)
       \/ /\ NotSaved(w)
          /\ EvidenceConflict(req[w])
          /\ Refuse(w)
       \/ /\ NotSaved(w)
          /\ ~EvidenceConflict(req[w])
          /\ Goto(w, "caseLock")
          /\ UNCHANGED <<lockVars, copy>>
    /\ UNCHANGED <<storeVars, auditVars, faultVars>>

(* Fault: the cases have no mutex                                        *)
LockCaseAnyway(w) ==
    /\ pc[w] = "caseLock"
    /\ caseLock' = [caseLock EXCEPT ![req[w].case] = w]
    /\ Goto(w, "lookup")
    /\ UNCHANGED <<storeVars, createMu, copy, auditVars, faultVars>>

LockCase(w) ==
    /\ pc[w] = "caseLock"
    /\ caseLock[req[w].case] = None
    /\ caseLock' = [caseLock EXCEPT ![req[w].case] = w]
    /\ Goto(w, "lookup")
    /\ UNCHANGED <<storeVars, createMu, copy, auditVars, faultVars>>

Lookup(w) ==
    /\ pc[w] = "lookup"
    /\ \/ ReturnSaved(w)
       \/ /\ NotSaved(w)
          /\ Goto(w, "load")
          /\ UNCHANGED <<lockVars, copy>>
    /\ UNCHANGED <<storeVars, auditVars, faultVars>>

(* Fault: expected_revision is ignored                                   *)
LoadAnyRevision(w) ==
    /\ pc[w] = "load"
    /\ copy' = [copy EXCEPT ![w] = cases[req[w].case]]
    /\ Goto(w, "decide")
    /\ UNCHANGED <<lockVars, storeVars, auditVars, faultVars>>

Load(w) ==
    LET case == cases[req[w].case]
    IN  /\ pc[w] = "load"
        /\ \/ case.rev # req[w].rev /\ Refuse(w)
           \/ /\ case.rev = req[w].rev
              /\ copy' = [copy EXCEPT ![w] = case]
              /\ Goto(w, "decide")
              /\ UNCHANGED lockVars
        /\ UNCHANGED <<storeVars, auditVars, faultVars>>

(* Fault: the audit is not validated before sealing                      *)
AlwaysSealable(w) == TRUE

Sealable(w) == Validate(auditMem, req[w].case, copy[w].rev)

(* The domain rejects the request, or accepts it on the copy; no operation *)
(* is accepted on a sealed case, and sealing validates the audit first.    *)
Decide(w) ==
    /\ pc[w] = "decide"
    /\ \/ Refuse(w)
       \/ /\ ~copy[w].sealed
          /\ req[w].op = "SEAL" => Sealable(w)
          /\ copy' = [copy EXCEPT ![w] =
                        Applied(@, req[w], Trail(auditMem, req[w].case))]
          /\ Goto(w, "commit")
          /\ UNCHANGED lockVars
    /\ UNCHANGED <<storeVars, auditVars, faultVars>>

(* store.Commit: the case and the receipt in one snapshot; refused when    *)
(* the revision has moved or when the snapshot cannot be written.          *)
Commit(w) ==
    LET c == req[w].case
    IN  /\ pc[w] = "commit"
        /\ \/ Refuse(w) /\ UNCHANGED storeVars
           \/ /\ cases[c].rev + 1 = copy[w].rev
              /\ cases' = [cases EXCEPT ![c] = copy[w]]
              /\ idem' = [idem EXCEPT ![Key(req[w])] =
                            [request |-> req[w], rev |-> copy[w].rev]]
              /\ Goto(w, "audit")
              /\ UNCHANGED <<lockVars, copy>>
        /\ UNCHANGED <<auditVars, faultVars>>

AuditAppend(w) ==
    LET e == Event(req[w], copy[w].rev)
    IN  /\ pc[w] = "audit"
        /\ auditFile' = Append(auditFile, Piece(e))
        /\ auditMem' = Append(auditMem, e)
        /\ Succeed(w, copy[w].rev)
        /\ UNCHANGED <<storeVars, faultVars>>

(* Open, Write or Close fails: nothing, a prefix of the line, the event    *)
(* without its newline, or the whole line has reached the file; memory is  *)
(* not updated and the client gets an error.                               *)
Leftovers(e) ==
    {<<>>, <<Torn>>, <<Unended(e)>>, <<Piece(e)>>}

AuditFail(w) ==
    /\ pc[w] = "audit"
    /\ auditFaults < MaxAuditFaults
    /\ auditFaults' = auditFaults + 1
    /\ \E left \in Leftovers(Event(req[w], copy[w].rev)) :
         auditFile' = auditFile \o left
    /\ Refuse(w)
    /\ UNCHANGED <<storeVars, auditMem, crashes>>

(* The process stops; store.New loads the snapshot, audit.New replays the  *)
(* file.  A crash inside an append is AuditFail followed by Crash.         *)
Crash ==
    /\ crashes < MaxCrashes
    /\ crashes' = crashes + 1
    /\ createMu' = None
    /\ caseLock' = [c \in Cases |-> None]
    /\ pc' = [w \in Workers |-> "idle"]
    /\ req' = [w \in Workers |-> None]
    /\ copy' = [w \in Workers |-> None]
    /\ \E n \in Decodable(auditFile) : auditMem' = Replay(auditFile, n)
    /\ UNCHANGED <<storeVars, auditFile, answered, auditFaults>>

Step(w) ==
    \/ LockCreateMu(w) \/ CheckEvidence(w) \/ LockCase(w) \/ Lookup(w)
    \/ Load(w) \/ Decide(w) \/ Commit(w) \/ AuditAppend(w) \/ AuditFail(w)

Next ==
    \/ \E w \in Workers :
         \/ Step(w)
         \/ \E q \in Requests : Receive(w, q)
    \/ Crash

Spec == Init /\ [][Next]_vars

(* A goroutine that has started runs to its end, and sync.Mutex hands a    *)
(* lock to a waiter that has waited for a millisecond, so no waiter is     *)
(* passed over forever.  Clients owe nothing.                              *)
Fairness ==
    \A w \in Workers :
        /\ WF_vars(Step(w))
        /\ SF_vars(LockCreateMu(w))
        /\ SF_vars(LockCase(w))

FairSpec == Spec /\ Fairness

(***************************************************************************)
(* Properties.                                                             *)
(***************************************************************************)
Inside == {"lookup", "load", "decide", "commit", "audit"}

Outside == {"idle", "createMu", "evidence", "caseLock"}

(* Every variable has its type, and a worker has a request exactly while   *)
(* it serves one and a copy of a case exactly while it works on it.        *)
TypeOK ==
    /\ cases \in [Cases -> Case]
    /\ idem \in [Keys -> Receipt \cup {None}]
    /\ createMu \in Workers \cup {None}
    /\ caseLock \in [Cases -> Workers \cup {None}]
    /\ pc \in [Workers -> Inside \cup Outside]
    /\ req \in [Workers -> Requests \cup {None}]
    /\ copy \in [Workers -> Case \cup {None}]
    /\ auditMem \in Seq(AuditEvent)
    /\ auditFile \in Seq(Line)
    /\ answered \subseteq [request : Requests, revision : Nat]
    /\ crashes \in 0..MaxCrashes
    /\ auditFaults \in 0..MaxAuditFaults
    /\ \A w \in Workers :
         /\ req[w] = None <=> pc[w] = "idle"
         /\ copy[w] = None <=> pc[w] \notin {"decide", "commit", "audit"}

(* The mutex of a case is held exactly by the worker between the lookup of *)
(* its receipt and its audit append, whatever path it left the handler by. *)
LocksHeldInside ==
    \A w \in Workers, c \in Cases :
        caseLock[c] = w <=> pc[w] \in Inside /\ req[w].case = c

(* createMu is held exactly by the worker that has passed it.              *)
CreateMuHeldInside ==
    \A w \in Workers :
        /\ createMu = w <=> /\ pc[w] \notin {"idle", "createMu"}
                            /\ NeedsCreateMu(req[w])
        /\ pc[w] = "createMu" => NeedsCreateMu(req[w])

(* Nobody keeps a mutex he has left, or works without one he needs.        *)
MutexesHeldInside == LocksHeldInside /\ CreateMuHeldInside

(* The revision of a case counts its requests, and the i-th of them was    *)
(* sent by a client that had seen revision i: no update was made blind.    *)
NoBlindUpdate ==
    \A c \in Cases :
        /\ cases[c].rev = Len(cases[c].log) + 1
        /\ \A i \in DOMAIN cases[c].log : cases[c].log[i].rev = i

(* A request_id is effective at most once per case and operation, through  *)
(* retries, concurrent duplicates, failed appends and restarts.            *)
AtMostOnce ==
    \A c, d \in Cases : \A i \in DOMAIN cases[c].log, j \in DOMAIN cases[d].log :
        Key(cases[c].log[i]) = Key(cases[d].log[j]) => c = d /\ i = j

(* A success answer stays true: the case still holds that request, at the  *)
(* revision the answer named.                                              *)
AnswerIsDurable ==
    \A a \in answered :
        LET log == cases[a.request.case].log
        IN  /\ a.revision - 1 \in DOMAIN log
            /\ log[a.revision - 1] = a.request

(* A case only grows, by one request at a time, and not at all once it is  *)
(* sealed.                                                                 *)
CasesOnlyGrow ==
    [][\A c \in Cases :
        \/ cases'[c] = cases[c]
        \/ /\ ~cases[c].sealed
           /\ \E q \in Requests : cases'[c].log = Append(cases[c].log, q)]_cases

(* No two captures of the archive have the same asset digest, though the   *)
(* check and the commit are separate steps on different cases.             *)
AssetsUnique ==
    \A c, d \in Cases : \A i \in DOMAIN cases[c].log, j \in DOMAIN cases[d].log :
        LET p == cases[c].log[i]
            q == cases[d].log[j]
        IN  p.op = "CAPTURE" /\ q.op = "CAPTURE" /\ p.asset = q.asset
              => c = d /\ i = j

(* The audit of a case follows its requests: every event records a request *)
(* of the case with the revision it produced, and they are in the order of *)
(* their revisions, though some may be missing.                            *)
Follows(audit, c) ==
    /\ InOrder(audit, c)
    /\ \A i \in Positions(audit, c) :
         /\ audit[i].rev - 1 \in DOMAIN cases[c].log
         /\ audit[i] = Event(cases[c].log[audit[i].rev - 1], audit[i].rev)

AuditFollowsCase == \A c \in Cases : Follows(auditMem, c)

Complete(c, n) ==
    {Registered(c)} \cup {Event(cases[c].log[r - 1], r) : r \in 2..n}

(* A sealed case was sealed over the complete audit of every revision      *)
(* before the seal, and its manifest anchors exactly that audit.           *)
SealedOverCompleteAudit ==
    \A c \in Cases :
        cases[c].sealed => cases[c].anchor = Complete(c, cases[c].rev - 1)

(* While nobody holds the mutex of a case, no append has failed and the    *)
(* process has not stopped, the audit of the case is complete: sealing     *)
(* cannot be refused for a gap.                                            *)
AuditComplete ==
    crashes = 0 /\ auditFaults = 0 =>
        \A c \in Cases :
            caseLock[c] = None => Trail(auditMem, c) = Complete(c, cases[c].rev)

(* While no append has failed, a restart replays exactly the audit the     *)
(* process had in memory.                                                  *)
RestartKeepsAudit ==
    auditFaults = 0 =>
        \A n \in Decodable(auditFile) : Replay(auditFile, n) = auditMem

(* A worker that has taken a request answers it: nobody waits on somebody  *)
(* who waits on them.                                                      *)
EveryRequestAnswered == \A w \in Workers : pc[w] # "idle" ~> pc[w] = "idle"

(***************************************************************************)
(* The inductive invariant behind the safety properties.                   *)
(***************************************************************************)

(* The receipts and the logs record the same requests.                     *)
ReceiptsMatchCases ==
    /\ \A c \in Cases : \A i \in DOMAIN cases[c].log :
         /\ cases[c].log[i].case = c
         /\ idem[Key(cases[c].log[i])] =
              [request |-> cases[c].log[i], rev |-> i + 1]
    /\ \A k \in Keys :
         idem[k] # None =>
           LET q == idem[k].request
           IN  /\ Key(q) = k
               /\ idem[k].rev - 1 \in DOMAIN cases[q.case].log
               /\ cases[q.case].log[idem[k].rev - 1] = q

SealedByRequest ==
    \A c \in Cases :
        \A i \in DOMAIN cases[c].log :
            cases[c].log[i].op = "SEAL" => cases[c].sealed

(* What a worker has found out is still true when it uses it.              *)
Current(w) ==
    LET q == req[w]
        case == cases[q.case]
    IN  /\ pc[w] \in {"load", "decide", "commit"} => idem[Key(q)] = None
        /\ pc[w] = "decide" => copy[w] = case /\ q.rev = case.rev
        /\ pc[w] = "commit" =>
             /\ ~case.sealed /\ q.rev = case.rev
             /\ copy[w].rev = case.rev + 1
             /\ copy[w].log = Append(case.log, q)
             /\ q.op = "SEAL" => copy[w].sealed
        /\ pc[w] = "audit" =>
             /\ copy[w] = case
             /\ case.rev - 1 \in DOMAIN case.log
             /\ case.log[case.rev - 1] = q

WorkersAreCurrent == \A w \in Workers : Current(w)

StoreInv == NoBlindUpdate /\ ReceiptsMatchCases /\ SealedByRequest

JournalInv == StoreInv /\ WorkersAreCurrent /\ AnswerIsDurable

(* Seen through the journals of the cases, the handlers implement the      *)
(* ledger: each commit is one atomic application of a request, each        *)
(* success answer is the ledger's answer, and everything else, crashes     *)
(* included, is invisible.                                                 *)
Ledger == INSTANCE ArchiveLedger
            WITH journal <- [c \in Cases |-> cases[c].log]

ImplementsLedger == Ledger!Spec
=============================================================================
