----------------------- MODULE ArchiveServiceProofs -----------------------
(***************************************************************************)
(* Proofs about ArchiveService for every set of cases, requests and        *)
(* workers and every number of crashes and failed appends; the last part   *)
(* proves that it keeps what ArchiveLedger promises: no asset is captured  *)
(* twice, and every step of a handler is one step of the ledger or         *)
(* invisible to it.                                                        *)
(***************************************************************************)
EXTENDS ArchiveService, TLAPS

LEMMA KeyType == \A q \in Requests : Key(q) \in Keys
BY DEF Keys

LEMMA EventType ==
    ASSUME NEW q \in Requests, NEW r \in Nat
    PROVE  Event(q, r) \in AuditEvent
BY RequestsAssumption DEF Event, AuditEvent

LEMMA TrailType ==
    ASSUME NEW c \in Cases, auditMem \in Seq(AuditEvent)
    PROVE  Trail(auditMem, c) \in SUBSET AuditEvent
<1>1. Registered(c) \in AuditEvent
  BY DEF Registered, AuditEvent
<1>2. \A i \in Positions(auditMem, c) : auditMem[i] \in AuditEvent
  BY DEF Positions
<1>3. QED
  BY <1>1, <1>2 DEF Trail

LEMMA AppliedType ==
    ASSUME NEW x \in Case, NEW q \in Requests, NEW t \in SUBSET AuditEvent
    PROVE  Applied(x, q, t) \in Case
<1>1. x.log \in Seq(Requests) /\ x.rev \in Nat
  BY DEF Case
<1>2. Append(x.log, q) \in Seq(Requests)
  BY <1>1
<1>3. QED
  BY <1>1, <1>2 DEF Applied, Case

(* Leaving a handler keeps the types.                                      *)
LEMMA ReturnType ==
    ASSUME TypeOK, NEW w \in Workers, Return(w)
    PROVE  /\ createMu' \in Workers \cup {None}
           /\ caseLock' \in [Cases -> Workers \cup {None}]
           /\ pc' \in [Workers -> Inside \cup Outside]
           /\ req' \in [Workers -> Requests \cup {None}]
           /\ copy' \in [Workers -> Case \cup {None}]
           /\ \A v \in Workers :
                /\ req'[v] = None <=> pc'[v] = "idle"
                /\ copy'[v] = None <=> pc'[v] \notin {"decide", "commit", "audit"}
BY NoneAssumption DEF TypeOK, Return, Inside, Outside

LEMMA LeftoversType ==
    ASSUME NEW e \in AuditEvent
    PROVE  Leftovers(e) \subseteq Seq(Line)
<1>1. Piece(e) \in Line /\ Unended(e) \in Line /\ Torn \in Line
  BY DEF Piece, Unended, Torn, Line
<1>2. QED
  BY <1>1 DEF Leftovers

LEMMA ReplayType ==
    ASSUME NEW file \in Seq(Line), NEW n \in Decodable(file)
    PROVE  Replay(file, n) \in Seq(AuditEvent)
<1>1. n \in Nat /\ n <= Len(file)
  BY DEF Decodable
<1>2. ASSUME NEW i \in 1..n
      PROVE  file[i].event \in AuditEvent
  <2>1. file[i] \in Line
    BY <1>1
  <2>2. file[i].event # None
    BY DEF Decodable
  <2>3. QED
    BY <2>1, <2>2 DEF Line
<1>3. Replay(file, n) \in [1..n -> AuditEvent]
  BY <1>2 DEF Replay
<1>4. QED
  BY <1>1, <1>3

(* What moving on inside a handler keeps.                                  *)
LEMMA GotoType ==
    ASSUME TypeOK, NEW w \in Workers, pc[w] # "idle",
           NEW label \in Inside \cup Outside, label # "idle", Goto(w, label)
    PROVE  /\ pc' \in [Workers -> Inside \cup Outside]
           /\ \A v \in Workers : req'[v] = None <=> pc'[v] = "idle"
           /\ UNCHANGED <<req, answered>>
BY DEF TypeOK, Goto

LEMMA SucceedType ==
    ASSUME TypeOK, NEW w \in Workers, pc[w] # "idle", NEW r \in Nat, Succeed(w, r)
    PROVE  answered' \subseteq [request : Requests, revision : Nat]
BY DEF TypeOK, Succeed

LEMMA ReturnSavedType ==
    ASSUME TypeOK, NEW w \in Workers, pc[w] # "idle", ReturnSaved(w)
    PROVE  /\ Return(w)
           /\ answered' \subseteq [request : Requests, revision : Nat]
<1>1. req[w] \in Requests
  BY DEF TypeOK
<1>2. idem[Key(req[w])] \in Receipt \cup {None}
  BY <1>1, KeyType DEF TypeOK
<1>3. CASE Succeed(w, idem[Key(req[w])].rev) /\ idem[Key(req[w])] # None
  <2>1. idem[Key(req[w])].rev \in Nat
    BY <1>2, <1>3 DEF Receipt
  <2>2. QED
    BY <1>3, <2>1, SucceedType DEF Succeed
<1>4. CASE Refuse(w)
  BY <1>4 DEF Refuse, TypeOK
<1>5. QED
  BY <1>3, <1>4 DEF ReturnSaved

(* Every reachable state has the types the code gives it, and a worker has *)
(* a request and a copy exactly while its handler does.                    *)
THEOREM TypeCorrect == Spec => []TypeOK
<1>1. Init => TypeOK
  <2> SUFFICES ASSUME Init PROVE TypeOK
    OBVIOUS
  <2>1. cases \in [Cases -> Case]
    BY DEF Init, Case
  <2>2. crashes \in 0..MaxCrashes /\ auditFaults \in 0..MaxAuditFaults
    BY BoundsAssumption DEF Init
  <2>3. auditMem \in Seq(AuditEvent) /\ auditFile \in Seq(Line)
    BY DEF Init
  <2>4. idem \in [Keys -> Receipt \cup {None}]
    BY DEF Init
  <2>5. QED
    BY <2>1, <2>2, <2>3, <2>4 DEF Init, TypeOK, Inside, Outside
<1>2. TypeOK /\ [Next]_vars => TypeOK'
  <2> SUFFICES ASSUME TypeOK, [Next]_vars PROVE TypeOK'
    OBVIOUS
  <2> USE DEF TypeOK, storeVars, lockVars, localVars, auditVars, faultVars
  <2>1. ASSUME NEW w \in Workers, NEW q \in Requests, Receive(w, q)
        PROVE  TypeOK'
    BY <2>1, NoneAssumption DEF Receive, Inside, Outside
  <2>2. ASSUME NEW w \in Workers, LockCreateMu(w)
        PROVE  TypeOK'
    BY <2>2 DEF LockCreateMu, Goto, Inside, Outside
  <2>3. ASSUME NEW w \in Workers, CheckEvidence(w)
        PROVE  TypeOK'
    <3>1. CASE ReturnSaved(w)
      BY <2>3, <3>1, ReturnType, ReturnSavedType DEF CheckEvidence
    <3>2. CASE Refuse(w)
      BY <2>3, <3>2, ReturnType DEF CheckEvidence, Refuse
    <3>3. CASE Goto(w, "caseLock") /\ UNCHANGED <<lockVars, copy>>
      BY <2>3, <3>3 DEF CheckEvidence, Goto, Inside, Outside
    <3>4. QED
      BY <2>3, <3>1, <3>2, <3>3 DEF CheckEvidence
  <2>4. ASSUME NEW w \in Workers, LockCase(w)
        PROVE  TypeOK'
    BY <2>4, RequestsAssumption DEF LockCase, Goto, Inside, Outside
  <2>5. ASSUME NEW w \in Workers, Lookup(w)
        PROVE  TypeOK'
    <3>1. CASE ReturnSaved(w)
      BY <2>5, <3>1, ReturnType, ReturnSavedType DEF Lookup
    <3>2. CASE Goto(w, "load") /\ UNCHANGED <<lockVars, copy>>
      BY <2>5, <3>2 DEF Lookup, Goto, Inside, Outside
    <3>3. QED
      BY <2>5, <3>1, <3>2 DEF Lookup
  <2>6. ASSUME NEW w \in Workers, Load(w)
        PROVE  TypeOK'
    <3>1. CASE Refuse(w)
      BY <2>6, <3>1, ReturnType DEF Load, Refuse
    <3>2. CASE /\ copy' = [copy EXCEPT ![w] = cases[req[w].case]]
               /\ Goto(w, "decide")
               /\ UNCHANGED lockVars
      <4>1. req[w] \in Requests /\ pc[w] = "load"
        BY <2>6, NoneAssumption DEF Load
      <4>2. cases[req[w].case] \in Case
        BY <4>1, RequestsAssumption
      <4>3. cases[req[w].case] # None
        BY <4>2, NoneAssumption
      <4>4. UNCHANGED <<cases, idem, auditMem, auditFile, crashes, auditFaults>>
        BY <2>6 DEF Load
      <4>5. QED
        BY <3>2, <4>1, <4>2, <4>3, <4>4 DEF Goto, Inside, Outside
    <3>3. QED
      BY <2>6, <3>1, <3>2 DEF Load
  <2>7. ASSUME NEW w \in Workers, Decide(w)
        PROVE  TypeOK'
    <3>1. CASE Refuse(w)
      BY <2>7, <3>1, ReturnType DEF Decide, Refuse
    <3>2. CASE /\ copy' = [copy EXCEPT ![w] =
                             Applied(@, req[w], Trail(auditMem, req[w].case))]
               /\ Goto(w, "commit")
               /\ UNCHANGED lockVars
      <4>1. req[w] \in Requests /\ copy[w] \in Case
        BY <2>7, NoneAssumption DEF Decide
      <4>2. Applied(copy[w], req[w], Trail(auditMem, req[w].case)) \in Case
        BY <4>1, AppliedType, TrailType, RequestsAssumption
      <4>3. QED
        BY <2>7, <3>2, <4>2, NoneAssumption DEF Decide, Goto, Inside, Outside
    <3>3. QED
      BY <2>7, <3>1, <3>2 DEF Decide
  <2>8. ASSUME NEW w \in Workers, Commit(w)
        PROVE  TypeOK'
    <3>1. CASE Refuse(w) /\ UNCHANGED storeVars
      BY <2>8, <3>1, ReturnType DEF Commit, Refuse
    <3>2. CASE /\ cases' = [cases EXCEPT ![req[w].case] = copy[w]]
               /\ idem' = [idem EXCEPT ![Key(req[w])] =
                             [request |-> req[w], rev |-> copy[w].rev]]
               /\ Goto(w, "audit")
               /\ UNCHANGED <<lockVars, copy>>
      <4>1. req[w] \in Requests /\ copy[w] \in Case
        BY <2>8, NoneAssumption DEF Commit
      <4>2. [request |-> req[w], rev |-> copy[w].rev] \in Receipt
        BY <4>1 DEF Receipt, Case
      <4>3. idem' \in [Keys -> Receipt \cup {None}]
        BY <3>2, <4>2
      <4>4. pc[w] = "commit"
        BY <2>8 DEF Commit
      <4>5. UNCHANGED <<auditMem, auditFile, crashes, auditFaults>>
        BY <2>8 DEF Commit
      <4>6. QED
        BY <3>2, <4>1, <4>3, <4>4, <4>5 DEF Goto, Inside, Outside
    <3>3. QED
      BY <2>8, <3>1, <3>2 DEF Commit
  <2>9. ASSUME NEW w \in Workers, AuditAppend(w)
         PROVE  TypeOK'
    <3>1. req[w] \in Requests /\ copy[w] \in Case
      BY <2>9, NoneAssumption DEF AuditAppend
    <3>2. copy[w].rev \in Nat
      BY <3>1 DEF Case
    <3>3. Event(req[w], copy[w].rev) \in AuditEvent
      BY <3>1, <3>2, EventType
    <3>4. Piece(Event(req[w], copy[w].rev)) \in Line
      BY <3>3 DEF Piece, Line
    <3>5. auditFile' \in Seq(Line) /\ auditMem' \in Seq(AuditEvent)
      BY <2>9, <3>3, <3>4 DEF AuditAppend
    <3>6. QED
      BY <2>9, <3>2, <3>5, ReturnType, SucceedType DEF AuditAppend, Succeed
  <2>10. ASSUME NEW w \in Workers, AuditFail(w)
         PROVE  TypeOK'
    <3>1. req[w] \in Requests /\ copy[w] \in Case
      BY <2>10, NoneAssumption DEF AuditFail
    <3>2. Event(req[w], copy[w].rev) \in AuditEvent
      BY <3>1, EventType DEF Case
    <3>3. auditFile' \in Seq(Line)
      BY <2>10, <3>2, LeftoversType DEF AuditFail
    <3>4. auditFaults' \in 0..MaxAuditFaults
      BY <2>10, BoundsAssumption DEF AuditFail
    <3>5. QED
      BY <2>10, <3>3, <3>4, ReturnType DEF AuditFail, Refuse
  <2>11. ASSUME Crash
         PROVE  TypeOK'
    <3>1. auditMem' \in Seq(AuditEvent)
      BY <2>11, ReplayType DEF Crash
    <3>2. crashes' \in 0..MaxCrashes
      BY <2>11, BoundsAssumption DEF Crash
    <3>3. QED
      BY <2>11, <3>1, <3>2 DEF Crash, Inside, Outside
  <2>12. CASE UNCHANGED vars
    BY <2>12 DEF vars
  <2>13. QED
    BY <2>1, <2>2, <2>3, <2>4, <2>5, <2>6, <2>7, <2>8, <2>9, <2>10,
       <2>11, <2>12 DEF Next, Step
<1>3. QED
  BY <1>1, <1>2, PTL DEF Spec

-----------------------------------------------------------------------------
(***************************************************************************)
(* The mutexes.                                                            *)
(***************************************************************************)
LockInv == LocksHeldInside /\ CreateMuHeldInside

LEMMA ReturnLocks ==
    ASSUME TypeOK, LockInv, NEW w \in Workers, Return(w)
    PROVE  LockInv'
<1>1. pc' = [pc EXCEPT ![w] = "idle"]
  BY DEF Return
<1>2. \A v \in Workers : v # w => pc'[v] = pc[v] /\ req'[v] = req[v]
  BY DEF Return, TypeOK
<1>3. pc'[w] = "idle"
  BY <1>1 DEF TypeOK
<1>4. \A c \in Cases : caseLock'[c] = IF caseLock[c] = w THEN None ELSE caseLock[c]
  BY DEF Return
<1>5. LocksHeldInside'
  BY <1>2, <1>3, <1>4, NoneAssumption DEF LockInv, LocksHeldInside, Inside
<1>6. CreateMuHeldInside'
  BY <1>2, <1>3, NoneAssumption DEF LockInv, CreateMuHeldInside, Return
<1>7. QED
  BY <1>5, <1>6 DEF LockInv

(* Moving on without taking or leaving a mutex.                            *)
LEMMA GotoLocks ==
    ASSUME TypeOK, LockInv, NEW w \in Workers, NEW label, Goto(w, label),
           UNCHANGED lockVars,
           pc[w] \in Inside <=> label \in Inside,
           pc[w] \notin {"idle", "createMu"}, label \notin {"idle", "createMu"}
    PROVE  LockInv'
<1>1. /\ \A v \in Workers : v # w => pc'[v] = pc[v]
      /\ pc'[w] = label
      /\ req' = req /\ createMu' = createMu /\ caseLock' = caseLock
  BY DEF Goto, TypeOK, lockVars
<1>2. LocksHeldInside'
  BY <1>1 DEF LockInv, LocksHeldInside
<1>3. CreateMuHeldInside'
  BY <1>1 DEF LockInv, CreateMuHeldInside
<1>4. QED
  BY <1>2, <1>3 DEF LockInv

LEMMA LockStep == TypeOK /\ LockInv /\ [Next]_vars => LockInv'
<1> SUFFICES ASSUME TypeOK, LockInv, [Next]_vars PROVE LockInv'
  OBVIOUS
<1>1. ASSUME NEW w \in Workers, NEW q \in Requests, Receive(w, q)
      PROVE  LockInv'
  <2>1. /\ \A v \in Workers : v # w => pc'[v] = pc[v] /\ req'[v] = req[v]
        /\ pc[w] = "idle" /\ pc'[w] \in {"createMu", "caseLock"}
        /\ pc'[w] = "createMu" <=> NeedsCreateMu(q)
        /\ req'[w] = q
        /\ createMu' = createMu /\ caseLock' = caseLock
    BY <1>1 DEF Receive, TypeOK, lockVars
  <2>2. LocksHeldInside'
    BY <2>1 DEF LockInv, LocksHeldInside, Inside
  <2>3. CreateMuHeldInside'
    BY <2>1 DEF LockInv, CreateMuHeldInside
  <2>4. QED
    BY <2>2, <2>3 DEF LockInv
<1>2. ASSUME NEW w \in Workers, LockCreateMu(w)
      PROVE  LockInv'
  <2>1. /\ \A v \in Workers : v # w => pc'[v] = pc[v]
        /\ pc[w] = "createMu" /\ pc'[w] \in {"evidence", "caseLock"}
        /\ req' = req /\ caseLock' = caseLock
        /\ createMu = None /\ createMu' = w
    BY <1>2 DEF LockCreateMu, Goto, TypeOK
  <2>2. LocksHeldInside'
    BY <2>1 DEF LockInv, LocksHeldInside, Inside
  <2>3. NeedsCreateMu(req[w])
    BY <2>1 DEF LockInv, CreateMuHeldInside
  <2>4. CreateMuHeldInside'
    BY <2>1, <2>3, NoneAssumption DEF LockInv, CreateMuHeldInside
  <2>5. QED
    BY <2>2, <2>4 DEF LockInv
<1>3. ASSUME NEW w \in Workers, LockCase(w)
      PROVE  LockInv'
  <2>1. req[w] \in Requests
    BY <1>3 DEF LockCase, TypeOK
  <2>2. /\ \A v \in Workers : v # w => pc'[v] = pc[v]
        /\ pc[w] = "caseLock" /\ pc'[w] = "lookup"
        /\ req' = req /\ createMu' = createMu
        /\ caseLock[req[w].case] = None
        /\ \A c \in Cases :
             caseLock'[c] = IF c = req[w].case THEN w ELSE caseLock[c]
    BY <1>3, <2>1, RequestsAssumption DEF LockCase, Goto, TypeOK
  <2>3. LocksHeldInside'
    BY <2>2, NoneAssumption DEF LockInv, LocksHeldInside, Inside
  <2>4. CreateMuHeldInside'
    BY <2>2 DEF LockInv, CreateMuHeldInside
  <2>5. QED
    BY <2>3, <2>4 DEF LockInv
<1>4. ASSUME NEW w \in Workers, Return(w)
      PROVE  LockInv'
  BY <1>4, ReturnLocks
<1>5. ASSUME NEW w \in Workers, ~Return(w),
             \/ CheckEvidence(w) \/ Lookup(w) \/ Load(w) \/ Decide(w)
             \/ Commit(w)
      PROVE  LockInv'
  <2>1. CASE CheckEvidence(w)
    BY <1>5, <2>1, GotoLocks
       DEF CheckEvidence, ReturnSaved, Succeed, Refuse, Inside
  <2>2. CASE Lookup(w)
    BY <1>5, <2>2, GotoLocks DEF Lookup, ReturnSaved, Succeed, Refuse, Inside
  <2>3. CASE Load(w)
    BY <1>5, <2>3, GotoLocks DEF Load, Refuse, Inside
  <2>4. CASE Decide(w)
    BY <1>5, <2>4, GotoLocks DEF Decide, Refuse, Inside
  <2>5. CASE Commit(w)
    BY <1>5, <2>5, GotoLocks DEF Commit, Refuse, Inside
  <2>6. QED
    BY <1>5, <2>1, <2>2, <2>3, <2>4, <2>5
<1>6. ASSUME NEW w \in Workers, AuditAppend(w) \/ AuditFail(w)
      PROVE  LockInv'
  BY <1>6, <1>4 DEF AuditAppend, AuditFail, Succeed, Refuse
<1>7. CASE Crash
  BY <1>7, NoneAssumption
     DEF Crash, LockInv, LocksHeldInside, CreateMuHeldInside, Inside
<1>8. CASE UNCHANGED vars
  BY <1>8 DEF vars, lockVars, localVars, LockInv,
              LocksHeldInside, CreateMuHeldInside
<1>9. QED
  BY <1>1, <1>2, <1>3, <1>4, <1>5, <1>6, <1>7, <1>8 DEF Next, Step

(* No path through a handler, no failed append and no restart leaves a     *)
(* mutex held by a worker that is not inside, or free around one that is:  *)
(* the deferred unlocks of the application are enough.                     *)
THEOREM MutexesAreHeldInside == Spec => []MutexesHeldInside
<1>1. Init => LockInv
  BY NoneAssumption
     DEF Init, LockInv, LocksHeldInside, CreateMuHeldInside, Inside
<1>2. QED
  BY <1>1, LockStep, TypeCorrect, PTL
     DEF Spec, LockInv, MutexesHeldInside

(* Two requests for one case are never between lookup and append at once.  *)
LEMMA CaseExclusion ==
    ASSUME LockInv, NEW v \in Workers, NEW w \in Workers,
           req[w].case \in Cases, req[v].case = req[w].case,
           pc[v] \in Inside, pc[w] \in Inside
    PROVE  v = w
BY DEF LockInv, LocksHeldInside

-----------------------------------------------------------------------------
(***************************************************************************)
(* The journals of the cases and the receipts.                             *)
(***************************************************************************)
LEMMA StoreFrame ==
    ASSUME StoreInv, UNCHANGED storeVars
    PROVE  StoreInv'
BY DEF StoreInv, NoBlindUpdate, ReceiptsMatchCases, SealedByRequest, storeVars

LEMMA ReturnCurrent ==
    ASSUME TypeOK, WorkersAreCurrent, UNCHANGED storeVars,
           NEW w \in Workers, Return(w)
    PROVE  WorkersAreCurrent'
<1>1. /\ \A v \in Workers : v # w =>
           pc'[v] = pc[v] /\ req'[v] = req[v] /\ copy'[v] = copy[v]
      /\ pc'[w] = "idle"
  BY DEF Return, TypeOK
<1>2. cases' = cases /\ idem' = idem
  BY DEF storeVars
<1>3. Current(w)'
  BY <1>1 DEF Current
<1>4. ASSUME NEW v \in Workers, v # w
      PROVE  Current(v)'
  <2>1. pc'[v] = pc[v] /\ req'[v] = req[v] /\ copy'[v] = copy[v]
    BY <1>1, <1>4
  <2>2. Current(v)
    BY DEF WorkersAreCurrent
  <2>3. QED
    BY <1>2, <2>1, <2>2, ZenonT(20) DEF Current
<1>5. QED
  BY <1>3, <1>4 DEF WorkersAreCurrent

(* A step of w that only moves w, to a place it knows nothing at.          *)
LEMMA GotoCurrent ==
    ASSUME TypeOK, WorkersAreCurrent, UNCHANGED storeVars, UNCHANGED copy,
           NEW w \in Workers, NEW label, Goto(w, label),
           label \notin {"load", "decide", "commit", "audit"}
    PROVE  WorkersAreCurrent'
<1>1. /\ \A v \in Workers : v # w => pc'[v] = pc[v]
      /\ pc'[w] = label /\ req' = req /\ copy' = copy
  BY DEF Goto, TypeOK
<1>2. cases' = cases /\ idem' = idem
  BY DEF storeVars
<1>3. QED
  BY <1>1, <1>2 DEF WorkersAreCurrent, Current

(* A success answer is given for a request the case holds.                 *)
LEMMA SucceedDurable ==
    ASSUME AnswerIsDurable, UNCHANGED cases, NEW w \in Workers, NEW r,
           Succeed(w, r),
           r - 1 \in DOMAIN cases[req[w].case].log,
           cases[req[w].case].log[r - 1] = req[w]
    PROVE  AnswerIsDurable'
<1>1. answered' = answered \cup {[request |-> req[w], revision |-> r]}
  BY DEF Succeed
<1>2. QED
  BY <1>1 DEF AnswerIsDurable

LEMMA ReturnSavedDurable ==
    ASSUME TypeOK, StoreInv, AnswerIsDurable, UNCHANGED cases,
           NEW w \in Workers, pc[w] # "idle", ReturnSaved(w)
    PROVE  AnswerIsDurable'
<1> DEFINE k == Key(req[w])
<1>1. k \in Keys
  BY KeyType DEF TypeOK
<1>2. CASE Refuse(w)
  BY <1>2 DEF Refuse, AnswerIsDurable
<1>3. CASE idem[k] # None /\ idem[k].request = req[w] /\ Succeed(w, idem[k].rev)
  <2>1. /\ idem[k].rev - 1 \in DOMAIN cases[req[w].case].log
        /\ cases[req[w].case].log[idem[k].rev - 1] = req[w]
    BY <1>1, <1>3 DEF StoreInv, ReceiptsMatchCases
  <2>2. QED
    BY <1>3, <2>1, SucceedDurable
<1>4. QED
  BY <1>2, <1>3 DEF ReturnSaved

(* A step that changes neither the store nor any worker but w.             *)
LEMMA OthersCurrent ==
    ASSUME WorkersAreCurrent, UNCHANGED storeVars, NEW w \in Workers,
           NEW v \in Workers, v # w,
           pc'[v] = pc[v] /\ req'[v] = req[v] /\ copy'[v] = copy[v]
    PROVE  Current(v)'
<1>1. Current(v) /\ cases' = cases /\ idem' = idem
  BY DEF WorkersAreCurrent, storeVars
<1>2. QED
  BY <1>1, ZenonT(20) DEF Current

LEMMA LookupCurrent ==
    ASSUME TypeOK, WorkersAreCurrent, NEW w \in Workers, Lookup(w), NotSaved(w),
           Goto(w, "load"), UNCHANGED copy
    PROVE  WorkersAreCurrent'
<1>1. /\ \A v \in Workers : v # w => pc'[v] = pc[v]
      /\ pc'[w] = "load" /\ req' = req /\ copy' = copy
      /\ UNCHANGED storeVars
  BY DEF Goto, TypeOK, Lookup
<1>2. Current(w)'
  BY <1>1 DEF Current, NotSaved, storeVars
<1>3. QED
  BY <1>1, <1>2, OthersCurrent DEF WorkersAreCurrent

LEMMA LoadCurrent ==
    ASSUME TypeOK, WorkersAreCurrent, NEW w \in Workers, Load(w), ~Return(w)
    PROVE  WorkersAreCurrent'
<1>1. /\ \A v \in Workers : v # w => pc'[v] = pc[v] /\ copy'[v] = copy[v]
      /\ pc[w] = "load" /\ pc'[w] = "decide" /\ req' = req
      /\ copy'[w] = cases[req[w].case]
      /\ cases[req[w].case].rev = req[w].rev
      /\ UNCHANGED storeVars
  BY DEF Goto, TypeOK, Load, Refuse
<1>2. Current(w) /\ cases' = cases /\ idem' = idem
  BY <1>1 DEF WorkersAreCurrent, storeVars
<1>3. Current(w)'
  BY <1>1, <1>2 DEF Current
<1>4. QED
  BY <1>1, <1>3, OthersCurrent DEF WorkersAreCurrent

LEMMA DecideCurrent ==
    ASSUME TypeOK, WorkersAreCurrent, NEW w \in Workers, Decide(w), ~Return(w)
    PROVE  WorkersAreCurrent'
<1>1. /\ \A v \in Workers : v # w => pc'[v] = pc[v] /\ copy'[v] = copy[v]
      /\ pc[w] = "decide" /\ pc'[w] = "commit" /\ req' = req
      /\ ~copy[w].sealed
      /\ copy'[w] = Applied(copy[w], req[w], Trail(auditMem, req[w].case))
      /\ UNCHANGED storeVars
  BY DEF Goto, TypeOK, Decide, Refuse
<1>2. Current(w) /\ cases' = cases /\ idem' = idem
  BY <1>1 DEF WorkersAreCurrent, storeVars
<1>3. /\ copy[w] = cases[req[w].case] /\ req[w].rev = cases[req[w].case].rev
      /\ idem[Key(req[w])] = None
  BY <1>1, <1>2 DEF Current
<1>4. /\ copy'[w].rev = cases[req[w].case].rev + 1
      /\ copy'[w].log = Append(cases[req[w].case].log, req[w])
      /\ req[w].op = "SEAL" => copy'[w].sealed
  <2> DEFINE x == cases[req[w].case]
             q == req[w]
             t == Trail(auditMem, req[w].case)
  <2>1. copy'[w] = Applied(x, q, t)
    BY <1>1, <1>3
  <2>2. /\ Applied(x, q, t).rev = x.rev + 1
        /\ Applied(x, q, t).log = Append(x.log, q)
        /\ q.op = "SEAL" => Applied(x, q, t).sealed
    BY DEF Applied
  <2>3. QED
    BY <2>1, <2>2, Zenon
<1>5. ~cases[req[w].case].sealed
  BY <1>1, <1>3
<1>6. Current(w)'
  BY <1>1, <1>2, <1>3, <1>4, <1>5 DEF Current
<1>7. QED
  BY <1>1, <1>6, OthersCurrent DEF WorkersAreCurrent

(* What a commit of w does, under the invariant.                           *)
LEMMA CommitEffect ==
    ASSUME TypeOK, WorkersAreCurrent, NEW w \in Workers, Commit(w), ~Return(w)
    PROVE  LET q == req[w]
               c == q.case
           IN  /\ q \in Requests /\ c \in Cases /\ Key(q) \in Keys
               /\ cases[c] \in Case /\ ~cases[c].sealed
               /\ q.rev = cases[c].rev
               /\ cases' = [cases EXCEPT ![c] = copy[w]]
               /\ copy[w] \in Case
               /\ copy[w].rev = cases[c].rev + 1
               /\ copy[w].log = Append(cases[c].log, q)
               /\ q.op = "SEAL" => copy[w].sealed
               /\ idem[Key(q)] = None
               /\ idem' = [idem EXCEPT ![Key(q)] =
                             [request |-> q, rev |-> copy[w].rev]]
               /\ \A v \in Workers : v # w => pc'[v] = pc[v]
               /\ pc[w] = "commit" /\ pc'[w] = "audit"
               /\ UNCHANGED <<req, copy, answered, lockVars,
                              auditVars, faultVars>>
<1>1. pc[w] = "commit"
  BY DEF Commit
<1>2. req[w] \in Requests /\ copy[w] \in Case
  BY <1>1, NoneAssumption DEF TypeOK
<1>3. req[w].case \in Cases /\ Key(req[w]) \in Keys
  BY <1>2, RequestsAssumption, KeyType
<1>4. cases[req[w].case] \in Case
  BY <1>3 DEF TypeOK
<1>5. Current(w)
  BY DEF WorkersAreCurrent
<1>6. /\ cases' = [cases EXCEPT ![req[w].case] = copy[w]]
      /\ idem' = [idem EXCEPT ![Key(req[w])] =
                    [request |-> req[w], rev |-> copy[w].rev]]
      /\ Goto(w, "audit")
      /\ UNCHANGED <<lockVars, copy, auditVars, faultVars>>
  BY DEF Commit, Refuse
<1>7. /\ \A v \in Workers : v # w => pc'[v] = pc[v]
      /\ pc'[w] = "audit"
      /\ UNCHANGED <<req, answered>>
  BY <1>6 DEF Goto, TypeOK
<1>8. /\ ~cases[req[w].case].sealed
      /\ req[w].rev = cases[req[w].case].rev
      /\ copy[w].rev = cases[req[w].case].rev + 1
      /\ copy[w].log = Append(cases[req[w].case].log, req[w])
      /\ req[w].op = "SEAL" => copy[w].sealed
      /\ idem[Key(req[w])] = None
  BY <1>1, <1>5 DEF Current
<1>9. QED
  BY <1>1, <1>2, <1>3, <1>4, <1>6, <1>7, <1>8

(* The log of the committed case grows by the request, the others stay.    *)
Grown(w, d) ==
    LET q == req[w]
        n == Len(cases[d].log)
    IN  /\ n \in Nat /\ DOMAIN cases[d].log = 1..n
        /\ \A i \in 1..n : cases'[d].log[i] = cases[d].log[i]
        /\ d # q.case => cases'[d] = cases[d]
        /\ d = q.case =>
             /\ q.rev = n + 1
             /\ DOMAIN cases'[d].log = 1..(n + 1)
             /\ Len(cases'[d].log) = n + 1
             /\ cases'[d].log[n + 1] = q
             /\ cases'[d].rev = n + 2
             /\ cases'[d] = copy[w]

LEMMA CommitLog ==
    ASSUME TypeOK, StoreInv, WorkersAreCurrent,
           NEW w \in Workers, Commit(w), ~Return(w),
           NEW d \in Cases
    PROVE  Grown(w, d)
<1>1. /\ cases[d].log \in Seq(Requests) /\ cases[d].rev \in Nat
      /\ cases \in [Cases -> Case] /\ req[w] \in Requests
  BY CommitEffect DEF TypeOK, Case
<1>2. cases[d].rev = Len(cases[d].log) + 1
  BY DEF StoreInv, NoBlindUpdate
<1>3. CASE d # req[w].case
  <2>1. cases'[d] = cases[d]
    BY <1>1, <1>3, CommitEffect
  <2>2. Len(cases[d].log) \in Nat /\ DOMAIN cases[d].log = 1..Len(cases[d].log)
    BY <1>1
  <2>3. QED
    BY <1>3, <2>1, <2>2 DEF Grown
<1>4. CASE d = req[w].case
  <2>1. /\ cases'[d] = copy[w]
        /\ copy[w].rev = cases[d].rev + 1
        /\ copy[w].log = Append(cases[d].log, req[w])
        /\ req[w].op = "SEAL" => copy[w].sealed
        /\ req[w].rev = cases[d].rev
    BY <1>1, <1>4, CommitEffect
  <2>2. /\ DOMAIN copy[w].log = 1..(Len(cases[d].log) + 1)
        /\ Len(copy[w].log) = Len(cases[d].log) + 1
        /\ copy[w].log[Len(cases[d].log) + 1] = req[w]
        /\ \A i \in 1..Len(cases[d].log) : copy[w].log[i] = cases[d].log[i]
    BY <1>1, <2>1
  <2>3. Len(cases[d].log) \in Nat /\ DOMAIN cases[d].log = 1..Len(cases[d].log)
    BY <1>1
  <2>4. /\ req[w].rev = Len(cases[d].log) + 1
        /\ cases'[d].rev = Len(cases[d].log) + 2
    BY <1>2, <2>1, <2>3
  <2>5. QED
    BY <1>4, <2>1, <2>2, <2>3, <2>4 DEF Grown
<1>5. QED
  BY <1>3, <1>4

LEMMA NewIndex ==
    ASSUME NEW w \in Workers, NEW d \in Cases, Grown(w, d), d = req[w].case,
           NEW i \in DOMAIN cases'[d].log, i \notin DOMAIN cases[d].log
    PROVE  i = Len(cases[d].log) + 1
<1> DEFINE n == Len(cases[d].log)
<1>1. n \in Nat /\ DOMAIN cases[d].log = 1..n
  BY DEF Grown
<1>2. DOMAIN cases'[d].log = 1..(n + 1)
  BY DEF Grown
<1>3. i \in 1..(n + 1) /\ i \notin 1..n
  BY <1>1, <1>2
<1> HIDE DEF n
<1>4. i = n + 1
  BY <1>1, <1>3
<1>5. QED
  BY <1>4 DEF n

LEMMA CommitStore ==
    ASSUME TypeOK, StoreInv, WorkersAreCurrent,
           NEW w \in Workers, Commit(w), ~Return(w)
    PROVE  StoreInv'
<1> DEFINE q == req[w]
<1>0. \A d \in Cases : Grown(w, d)
  BY CommitLog
<1>1. /\ q \in Requests /\ q.case \in Cases /\ Key(q) \in Keys
      /\ idem[Key(q)] = None /\ ~cases[q.case].sealed
      /\ \A k \in Keys : k # Key(q) => idem'[k] = idem[k]
      /\ idem'[Key(q)] = [request |-> q, rev |-> copy[w].rev]
  BY CommitEffect DEF TypeOK
<1>2. NoBlindUpdate'
  <2> SUFFICES ASSUME NEW d \in Cases
               PROVE  /\ cases'[d].rev = Len(cases'[d].log) + 1
                      /\ \A i \in DOMAIN cases'[d].log : cases'[d].log[i].rev = i
    BY DEF NoBlindUpdate
  <2>1. CASE d # q.case
    <3>1. cases'[d] = cases[d]
      BY <2>1, <1>0 DEF Grown
    <3>2. QED
      BY <3>1 DEF StoreInv, NoBlindUpdate
  <2>2. CASE d = q.case
    <3>1. cases[d].rev = Len(cases[d].log) + 1
          /\ \A i \in DOMAIN cases[d].log : cases[d].log[i].rev = i
      BY DEF StoreInv, NoBlindUpdate
    <3>2. Grown(w, d)
      BY <1>0
    <3>3. cases'[d].rev = Len(cases'[d].log) + 1
      BY <2>2, <3>2 DEF Grown
    <3>4. ASSUME NEW i \in DOMAIN cases'[d].log
          PROVE  cases'[d].log[i].rev = i
      <4>1. CASE i \in DOMAIN cases[d].log
        <5>1. cases'[d].log[i] = cases[d].log[i]
          BY <3>2, <4>1 DEF Grown
        <5>2. QED
          BY <3>1, <4>1, <5>1
      <4>2. CASE i \notin DOMAIN cases[d].log
        <5>1. i = Len(cases[d].log) + 1
          BY <2>2, <3>2, <3>4, <4>2, NewIndex
        <5>2. cases'[d].log[i] = q /\ q.rev = Len(cases[d].log) + 1
          BY <2>2, <3>2, <5>1 DEF Grown
        <5>3. QED
          BY <5>1, <5>2
      <4>3. QED
        BY <4>1, <4>2
    <3>5. QED
      BY <3>3, <3>4
  <2>3. QED
    BY <2>1, <2>2
<1>3. ASSUME NEW d \in Cases, NEW i \in DOMAIN cases[d].log
      PROVE  /\ cases[d].log[i].case = d
             /\ Key(cases[d].log[i]) \in Keys
             /\ Key(cases[d].log[i]) # Key(q)
             /\ idem'[Key(cases[d].log[i])] = [request |-> cases[d].log[i], rev |-> i + 1]
  <2>1. cases[d].log[i] \in Requests /\ i \in Nat
    BY <1>3 DEF TypeOK, Case
  <2>2. /\ cases[d].log[i].case = d
        /\ idem[Key(cases[d].log[i])] = [request |-> cases[d].log[i], rev |-> i + 1]
    BY DEF StoreInv, ReceiptsMatchCases
  <2>3. [request |-> cases[d].log[i], rev |-> i + 1] \in Receipt
    BY <2>1 DEF Receipt
  <2>4. Key(cases[d].log[i]) # Key(q)
    BY <1>1, <2>2, <2>3, NoneAssumption
  <2>5. QED
    BY <1>1, <2>1, <2>2, <2>4, KeyType
<1>4. ASSUME NEW d \in Cases, NEW i \in DOMAIN cases'[d].log
      PROVE  /\ cases'[d].log[i].case = d
             /\ idem'[Key(cases'[d].log[i])] =
                  [request |-> cases'[d].log[i], rev |-> i + 1]
  <2>1. CASE i \in DOMAIN cases[d].log
    <3>1. cases'[d].log[i] = cases[d].log[i]
      BY <2>1, <1>0 DEF Grown
    <3>2. QED
      BY <1>3, <2>1, <3>1
  <2>2. CASE i \notin DOMAIN cases[d].log
    <3>1. d = q.case /\ i = Len(cases[d].log) + 1 /\ cases'[d].log[i] = q
      BY <1>0, <1>4, <2>2 DEF Grown
    <3>2. copy[w].rev = i + 1
      BY <1>0, <3>1 DEF Grown
    <3>3. QED
      BY <1>1, <3>1, <3>2
  <2>3. QED
    BY <2>1, <2>2
<1>5. ASSUME NEW k \in Keys, idem'[k] # None
      PROVE  LET p == idem'[k].request
             IN  /\ Key(p) = k
                 /\ idem'[k].rev - 1 \in DOMAIN cases'[p.case].log
                 /\ cases'[p.case].log[idem'[k].rev - 1] = p
  <2>1. CASE k = Key(q)
    <3>1. idem'[k].request = q /\ idem'[k].rev = Len(cases[q.case].log) + 2
      BY <1>0, <1>1, <2>1 DEF Grown
    <3>2. Grown(w, q.case)
      BY <1>0, <1>1
    <3>3. Key(idem'[k].request) = k
      BY <2>1, <3>1
    <3>4. idem'[k].rev - 1 = Len(cases[q.case].log) + 1
      BY <3>1, <3>2 DEF Grown
    <3>5. /\ Len(cases[q.case].log) + 1 \in DOMAIN cases'[q.case].log
          /\ cases'[q.case].log[Len(cases[q.case].log) + 1] = q
      BY <3>2 DEF Grown
    <3>6. QED
      BY <3>1, <3>3, <3>4, <3>5
  <2>2. CASE k # Key(q)
    <3>1. idem'[k] = idem[k] /\ idem[k] \in Receipt
      BY <1>1, <1>5, <2>2 DEF TypeOK
    <3>2. idem[k].request.case \in Cases
      BY <3>1, RequestsAssumption DEF Receipt
    <3>3. /\ Key(idem[k].request) = k
          /\ idem[k].rev - 1 \in DOMAIN cases[idem[k].request.case].log
          /\ cases[idem[k].request.case].log[idem[k].rev - 1] = idem[k].request
      BY <1>5, <3>1 DEF StoreInv, ReceiptsMatchCases
    <3>4. QED
      <4>1. Grown(w, idem[k].request.case)
        BY <1>0, <3>2
      <4>2. /\ idem[k].rev - 1 \in DOMAIN cases'[idem[k].request.case].log
            /\ cases'[idem[k].request.case].log[idem[k].rev - 1] = idem[k].request
        <5> DEFINE e == idem[k].request.case
                   j == idem[k].rev - 1
        <5>1. /\ Len(cases[e].log) \in Nat
              /\ DOMAIN cases[e].log = 1..Len(cases[e].log)
              /\ \/ cases'[e] = cases[e]
                 \/ DOMAIN cases'[e].log = 1..(Len(cases[e].log) + 1)
          BY <4>1 DEF Grown
        <5>2. j \in 1..Len(cases[e].log)
          BY <3>3, <5>1
        <5>3. cases'[e].log[j] = cases[e].log[j]
          BY <4>1, <5>2 DEF Grown
        <5>4. j \in DOMAIN cases'[e].log
          <6> HIDE DEF j
          <6>1. QED
            BY <5>1, <5>2
        <5>5. QED
          BY <3>3, <5>3, <5>4
      <4>3. QED
        BY <3>1, <3>3, <4>2
  <2>3. QED
    BY <2>1, <2>2
<1>6. SealedByRequest'
  <2> SUFFICES ASSUME NEW d \in Cases, NEW i \in DOMAIN cases'[d].log,
                      cases'[d].log[i].op = "SEAL"
               PROVE  cases'[d].sealed
    BY DEF SealedByRequest
  <2>1. CASE d # q.case
    BY <2>1, <1>0 DEF Grown, StoreInv, SealedByRequest
  <2>2. CASE d = q.case /\ i \in DOMAIN cases[d].log
    <3>1. cases'[d].log[i] = cases[d].log[i]
      BY <1>0, <2>2 DEF Grown
    <3>2. QED
      BY <1>1, <2>2, <3>1 DEF StoreInv, SealedByRequest
  <2>3. CASE d = q.case /\ i \notin DOMAIN cases[d].log
    <3>1. /\ i = Len(cases[d].log) + 1
          /\ cases'[d].log[Len(cases[d].log) + 1] = q
          /\ cases'[d] = copy[w]
      <4>1. Grown(w, d)
        BY <1>0
      <4>2. i = Len(cases[d].log) + 1
        BY <2>3, <4>1, NewIndex
      <4>3. QED
        BY <2>3, <4>1, <4>2 DEF Grown
    <3>2. q.op = "SEAL"
      BY <3>1
    <3>3. copy[w].sealed
      BY <3>2, CommitEffect
    <3>4. QED
      BY <3>1, <3>3
  <2>4. QED
    BY <2>1, <2>2, <2>3
<1>7. QED
  BY <1>2, <1>4, <1>5, <1>6 DEF StoreInv, ReceiptsMatchCases

(* The commit of w leaves alone what the other workers know: only w is     *)
(* inside the mutex of the case, and a key names its case.                 *)
LEMMA CommitCurrent ==
    ASSUME TypeOK, LockInv, StoreInv, WorkersAreCurrent,
           NEW w \in Workers, Commit(w), ~Return(w)
    PROVE  WorkersAreCurrent'
<1> DEFINE q == req[w]
<1>1. /\ q \in Requests /\ q.case \in Cases
      /\ \A k \in Keys : k # Key(q) => idem'[k] = idem[k]
      /\ \A c \in Cases : c # q.case => cases'[c] = cases[c]
      /\ \A v \in Workers : v # w => pc'[v] = pc[v]
      /\ pc[w] = "commit" /\ pc'[w] = "audit"
      /\ req' = req /\ copy' = copy
  BY CommitEffect DEF TypeOK
<1>2. Current(w)'
  <2>1. Grown(w, q.case)
    BY <1>1, CommitLog
  <2>2. /\ cases'[q.case] = copy[w]
        /\ cases'[q.case].rev = Len(cases[q.case].log) + 2
        /\ Len(cases[q.case].log) \in Nat
        /\ DOMAIN cases'[q.case].log = 1..(Len(cases[q.case].log) + 1)
        /\ cases'[q.case].log[Len(cases[q.case].log) + 1] = q
    BY <2>1 DEF Grown
  <2>3. cases'[q.case].rev - 1 = Len(cases[q.case].log) + 1
    BY <2>2
  <2>4. /\ cases'[q.case].rev - 1 \in DOMAIN cases'[q.case].log
        /\ cases'[q.case].log[cases'[q.case].rev - 1] = q
    BY <2>2, <2>3
  <2>5. QED
    BY <1>1, <2>2, <2>4 DEF Current
<1>3. ASSUME NEW v \in Workers, v # w
      PROVE  Current(v)'
  <2>1. pc'[v] = pc[v] /\ req'[v] = req[v] /\ copy'[v] = copy[v]
    BY <1>1, <1>3
  <2>2. Current(v)
    BY DEF WorkersAreCurrent
  <2>3. CASE pc[v] \notin Inside
    BY <2>1, <2>3 DEF Current, Inside
  <2>4. CASE pc[v] \in Inside
    <3>1. req[v].case # q.case
      BY <1>1, <1>3, <2>4, CaseExclusion DEF Inside
    <3>2. req[v] \in Requests
      BY <2>4 DEF TypeOK, Inside
    <3>3. cases'[req[v].case] = cases[req[v].case]
      BY <1>1, <3>1, <3>2, RequestsAssumption
    <3>4. Key(req[v]) \in Keys /\ Key(req[v]) # Key(q)
      BY <3>1, <3>2, KeyType DEF Key
    <3>5. idem'[Key(req[v])] = idem[Key(req[v])]
      BY <1>1, <3>4
    <3>6. QED
      BY <2>1, <2>2, <3>3, <3>5, ZenonT(30) DEF Current
  <2>5. QED
    BY <2>3, <2>4
<1>4. QED
  BY <1>2, <1>3 DEF WorkersAreCurrent

LEMMA CommitDurable ==
    ASSUME TypeOK, StoreInv, WorkersAreCurrent, AnswerIsDurable,
           NEW w \in Workers, Commit(w), ~Return(w)
    PROVE  AnswerIsDurable'
<1>1. answered' = answered
  BY CommitEffect
<1> SUFFICES ASSUME NEW a \in answered
             PROVE  LET log == cases'[a.request.case].log
                    IN  /\ a.revision - 1 \in DOMAIN log
                        /\ log[a.revision - 1] = a.request
  BY <1>1 DEF AnswerIsDurable
<1> DEFINE c == a.request.case
           n == Len(cases[c].log)
           j == a.revision - 1
<1>2. c \in Cases
  BY RequestsAssumption DEF TypeOK
<1>3. j \in DOMAIN cases[c].log /\ cases[c].log[j] = a.request
  BY DEF AnswerIsDurable
<1>4. Grown(w, c)
  BY <1>2, CommitLog
<1>5. /\ n \in Nat /\ DOMAIN cases[c].log = 1..n
      /\ cases'[c] = cases[c] \/ DOMAIN cases'[c].log = 1..(n + 1)
  BY <1>4 DEF Grown
<1>6. cases'[c].log[j] = cases[c].log[j]
  BY <1>3, <1>4, <1>5 DEF Grown
<1>7. j \in DOMAIN cases'[c].log
  <2> HIDE DEF j, n
  <2>1. QED
    BY <1>3, <1>5
<1>8. QED
  BY <1>3, <1>6, <1>7

(* A handler that returns, whatever it answers.                            *)
LEMMA ReturnJournal ==
    ASSUME TypeOK, JournalInv, UNCHANGED storeVars, NEW w \in Workers,
           Return(w), AnswerIsDurable'
    PROVE  JournalInv'
BY StoreFrame, ReturnCurrent DEF JournalInv

(* A handler that goes on without touching the store.                      *)
LEMMA GoOnJournal ==
    ASSUME JournalInv, UNCHANGED storeVars, UNCHANGED answered,
           WorkersAreCurrent'
    PROVE  JournalInv'
<1>1. AnswerIsDurable'
  BY DEF JournalInv, AnswerIsDurable, storeVars
<1>2. QED
  BY <1>1, StoreFrame DEF JournalInv

LEMMA RefuseJournal ==
    ASSUME TypeOK, JournalInv, UNCHANGED storeVars, NEW w \in Workers,
           Refuse(w)
    PROVE  JournalInv'
<1>1. AnswerIsDurable'
  BY DEF JournalInv, AnswerIsDurable, storeVars, Refuse
<1>2. QED
  BY <1>1, ReturnJournal DEF Refuse

LEMMA SavedJournal ==
    ASSUME TypeOK, JournalInv, UNCHANGED storeVars, NEW w \in Workers,
           pc[w] # "idle", ReturnSaved(w)
    PROVE  JournalInv'
<1>1. Return(w)
  BY DEF ReturnSaved, Succeed, Refuse
<1>2. AnswerIsDurable'
  BY ReturnSavedDurable DEF JournalInv, storeVars
<1>3. QED
  BY <1>1, <1>2, ReturnJournal

LEMMA JournalStep == TypeOK /\ LockInv /\ JournalInv /\ [Next]_vars => JournalInv'
<1> SUFFICES ASSUME TypeOK, LockInv, JournalInv, [Next]_vars
             PROVE  JournalInv'
  OBVIOUS
<1>1. ASSUME NEW w \in Workers, NEW q \in Requests, Receive(w, q)
      PROVE  JournalInv'
  <2>1. /\ \A v \in Workers : v # w =>
             pc'[v] = pc[v] /\ req'[v] = req[v] /\ copy'[v] = copy[v]
        /\ pc'[w] \in {"createMu", "caseLock"}
        /\ UNCHANGED storeVars /\ UNCHANGED answered
    BY <1>1 DEF Receive, TypeOK
  <2>2. Current(w)'
    BY <2>1 DEF Current
  <2>3. WorkersAreCurrent'
    BY <2>1, <2>2, OthersCurrent DEF JournalInv, WorkersAreCurrent
  <2>4. QED
    BY <2>1, <2>3, GoOnJournal
<1>2. ASSUME NEW w \in Workers, LockCreateMu(w) \/ LockCase(w)
      PROVE  JournalInv'
  <2>1. CASE LockCreateMu(w)
    BY <2>1, GotoCurrent, GoOnJournal DEF LockCreateMu, Goto, JournalInv
  <2>2. CASE LockCase(w)
    BY <2>2, GotoCurrent, GoOnJournal DEF LockCase, Goto, JournalInv
  <2>3. QED
    BY <1>2, <2>1, <2>2
<1>3. ASSUME NEW w \in Workers, CheckEvidence(w)
      PROVE  JournalInv'
  <2>0. UNCHANGED storeVars /\ pc[w] # "idle"
    BY <1>3 DEF CheckEvidence
  <2>1. CASE ReturnSaved(w)
    BY <2>0, <2>1, SavedJournal
  <2>2. CASE Refuse(w)
    BY <2>0, <2>2, RefuseJournal
  <2>3. CASE Goto(w, "caseLock") /\ UNCHANGED copy
    BY <2>0, <2>3, GotoCurrent, GoOnJournal DEF Goto, JournalInv
  <2>4. QED
    BY <1>3, <2>1, <2>2, <2>3 DEF CheckEvidence
<1>4. ASSUME NEW w \in Workers, Lookup(w)
      PROVE  JournalInv'
  <2>0. UNCHANGED storeVars /\ pc[w] # "idle"
    BY <1>4 DEF Lookup
  <2>1. CASE ReturnSaved(w)
    BY <2>0, <2>1, SavedJournal
  <2>2. CASE NotSaved(w) /\ Goto(w, "load") /\ UNCHANGED copy
    BY <1>4, <2>0, <2>2, LookupCurrent, GoOnJournal DEF Goto, JournalInv
  <2>3. QED
    BY <1>4, <2>1, <2>2 DEF Lookup
<1>5. ASSUME NEW w \in Workers, Load(w)
      PROVE  JournalInv'
  <2>0. UNCHANGED storeVars
    BY <1>5 DEF Load
  <2>1. CASE Refuse(w)
    BY <2>0, <2>1, RefuseJournal
  <2>2. CASE ~Return(w)
    <3>1. UNCHANGED answered
      BY <1>5, <2>2 DEF Load, Refuse, Goto
    <3>2. QED
      BY <1>5, <2>0, <2>2, <3>1, LoadCurrent, GoOnJournal DEF JournalInv
  <2>3. CASE ~Refuse(w) /\ Return(w)
    <3>1. Goto(w, "decide")
      BY <1>5, <2>3 DEF Load
    <3>2. FALSE
      BY <2>3, <3>1 DEF Return, Goto, TypeOK
    <3>3. QED
      BY <3>2
  <2>4. QED
    BY <2>1, <2>2, <2>3
<1>6. ASSUME NEW w \in Workers, Decide(w)
      PROVE  JournalInv'
  <2>0. UNCHANGED storeVars
    BY <1>6 DEF Decide
  <2>1. CASE Refuse(w)
    BY <2>0, <2>1, RefuseJournal
  <2>2. CASE ~Return(w)
    <3>1. UNCHANGED answered
      BY <1>6, <2>2 DEF Decide, Refuse, Goto
    <3>2. QED
      BY <1>6, <2>0, <2>2, <3>1, DecideCurrent, GoOnJournal DEF JournalInv
  <2>3. CASE ~Refuse(w) /\ Return(w)
    <3>1. Goto(w, "commit")
      BY <1>6, <2>3 DEF Decide
    <3>2. FALSE
      BY <2>3, <3>1 DEF Return, Goto, TypeOK
    <3>3. QED
      BY <3>2
  <2>4. QED
    BY <2>1, <2>2, <2>3
<1>7. ASSUME NEW w \in Workers, Commit(w)
      PROVE  JournalInv'
  <2>1. CASE Refuse(w) /\ UNCHANGED storeVars
    BY <2>1, RefuseJournal
  <2>2. CASE ~Return(w)
    BY <1>7, <2>2, CommitStore, CommitCurrent, CommitDurable DEF JournalInv
  <2>3. CASE Goto(w, "audit") /\ Return(w)
    BY <2>3 DEF Return, Goto, TypeOK
  <2>4. QED
    BY <1>7, <2>1, <2>2, <2>3 DEF Commit
<1>8. ASSUME NEW w \in Workers, AuditAppend(w)
      PROVE  JournalInv'
  <2>1. /\ UNCHANGED storeVars /\ pc[w] = "audit"
        /\ Succeed(w, copy[w].rev)
    BY <1>8 DEF AuditAppend
  <2>2. /\ copy[w].rev - 1 \in DOMAIN cases[req[w].case].log
        /\ cases[req[w].case].log[copy[w].rev - 1] = req[w]
    BY <2>1 DEF JournalInv, WorkersAreCurrent, Current
  <2>3. AnswerIsDurable'
    BY <2>1, <2>2, SucceedDurable DEF JournalInv, storeVars
  <2>4. QED
    BY <2>1, <2>3, ReturnJournal DEF Succeed
<1>9. ASSUME NEW w \in Workers, AuditFail(w)
       PROVE  JournalInv'
  BY <1>9, RefuseJournal DEF AuditFail
<1>10. CASE Crash
  BY <1>10, StoreFrame
     DEF Crash, JournalInv, storeVars, WorkersAreCurrent, Current,
         AnswerIsDurable
<1>11. CASE UNCHANGED vars
  BY <1>11, StoreFrame
     DEF vars, JournalInv, storeVars, localVars,
         WorkersAreCurrent, Current, AnswerIsDurable
<1>12. QED
  BY <1>1, <1>2, <1>3, <1>4, <1>5, <1>6, <1>7, <1>8, <1>9, <1>10, <1>11
     DEF Next, Step

(* The inductive invariant: receipts and logs agree, and what a worker has *)
(* found out under the mutex of its case is still true when it uses it.    *)
THEOREM JournalInvariant == Spec => []JournalInv
<1>1. Init => JournalInv
  BY NoneAssumption
     DEF Init, JournalInv, StoreInv, NoBlindUpdate, ReceiptsMatchCases,
         SealedByRequest, WorkersAreCurrent, Current, AnswerIsDurable
<1>2. Spec => []LockInv
  BY MutexesAreHeldInside, PTL DEF LockInv, MutexesHeldInside
<1>3. QED
  BY <1>1, <1>2, JournalStep, TypeCorrect, PTL DEF Spec

(* Every update of every case was made by a client that had seen the       *)
(* revision it replaced: two App operations never overwrite one another.   *)
THEOREM NoUpdateIsBlind == Spec => []NoBlindUpdate
<1>1. JournalInv => NoBlindUpdate
  BY DEF JournalInv, StoreInv
<1>2. QED
  BY <1>1, JournalInvariant, PTL

(* Whatever is retried, duplicated or interrupted, an idempotency key      *)
(* takes effect at most once in the whole store.                           *)
THEOREM RequestsApplyAtMostOnce == Spec => []AtMostOnce
<1>1. TypeOK /\ JournalInv => AtMostOnce
  <2> SUFFICES ASSUME TypeOK, JournalInv,
                      NEW c \in Cases, NEW d \in Cases,
                      NEW i \in DOMAIN cases[c].log,
                      NEW j \in DOMAIN cases[d].log,
                      Key(cases[c].log[i]) = Key(cases[d].log[j])
               PROVE  c = d /\ i = j
    BY DEF AtMostOnce
  <2>1. /\ cases[c].log[i].case = c /\ cases[d].log[j].case = d
        /\ [request |-> cases[c].log[i], rev |-> i + 1]
             = [request |-> cases[d].log[j], rev |-> j + 1]
    BY DEF JournalInv, StoreInv, ReceiptsMatchCases
  <2>2. cases[c].log[i] = cases[d].log[j] /\ i + 1 = j + 1
    BY <2>1
  <2>3. i \in Nat /\ j \in Nat
    BY DEF TypeOK, Case
  <2>4. QED
    BY <2>1, <2>2, <2>3
<1>2. QED
  BY <1>1, JournalInvariant, TypeCorrect, PTL

(* An answer the client has received stays true of the store, through      *)
(* every later request, failed append and restart.                         *)
THEOREM AnswersAreDurable == Spec => []AnswerIsDurable
<1>1. JournalInv => AnswerIsDurable
  BY DEF JournalInv
<1>2. QED
  BY <1>1, JournalInvariant, PTL

(* No step takes a request back, rewrites one, or touches a sealed case.   *)
THEOREM LogsOnlyGrow == Spec => CasesOnlyGrow
<1> DEFINE Grows(c) ==
             \/ cases'[c] = cases[c]
             \/ /\ ~cases[c].sealed
                /\ \E q \in Requests : cases'[c].log = Append(cases[c].log, q)
<1>1. TypeOK /\ JournalInv /\ [Next]_vars =>
        [\A c \in Cases : Grows(c)]_cases
  <2> SUFFICES ASSUME TypeOK, JournalInv, [Next]_vars, cases' # cases
               PROVE  \A c \in Cases : Grows(c)
    OBVIOUS
  <2> TAKE c \in Cases
  <2>1. PICK w \in Workers : Commit(w)
    BY DEF Next, Step, Receive, LockCreateMu, CheckEvidence,
           LockCase, Lookup, Load, Decide, Commit, AuditAppend, AuditFail,
           Crash, vars, storeVars
  <2>2. ~Return(w)
    BY <2>1 DEF Commit, Return, Goto, TypeOK, storeVars
  <2>3. /\ req[w] \in Requests /\ ~cases[req[w].case].sealed
        /\ cases' = [cases EXCEPT ![req[w].case] = copy[w]]
        /\ copy[w].log = Append(cases[req[w].case].log, req[w])
        /\ req[w].case \in Cases
    BY <2>1, <2>2, CommitEffect DEF JournalInv
  <2>4. CASE c = req[w].case
    <3>1. cases'[c] = copy[w]
      BY <2>3, <2>4 DEF TypeOK
    <3>2. QED
      BY <2>3, <2>4, <3>1
  <2>5. CASE c # req[w].case
    BY <2>3, <2>5 DEF TypeOK
  <2>6. QED
    BY <2>4, <2>5
<1>2. QED
  BY <1>1, JournalInvariant, TypeCorrect, PTL DEF Spec, CasesOnlyGrow

-----------------------------------------------------------------------------
(***************************************************************************)
(* Capture assets.  The asset is looked up on the way to the mutex of the  *)
(* case and the capture committed five steps later; createMu, which every  *)
(* capture holds all the way, keeps the answer true.                       *)
(***************************************************************************)
Holds(c, asset) ==
    \E i \in DOMAIN cases[c].log :
        cases[c].log[i].op = "CAPTURE" /\ cases[c].log[i].asset = asset

Checked == {"caseLock", "lookup", "load", "decide", "commit"}

AssetChecked(w) ==
    pc[w] \in Checked /\ req[w].op = "CAPTURE" =>
        \A c \in Cases : ~Holds(c, req[w].asset)

AssetInv == AssetsUnique /\ \A w \in Workers : AssetChecked(w)

(* A step that leaves the cases alone and brings nobody to a checked place *)
(* with another request.                                                   *)
LEMMA AssetFrame ==
    ASSUME AssetInv, UNCHANGED cases,
           \A v \in Workers :
             pc'[v] \in Checked => pc[v] \in Checked /\ req'[v] = req[v]
    PROVE  AssetInv'
<1>1. AssetsUnique'
  BY DEF AssetInv, AssetsUnique
<1>2. ASSUME NEW v \in Workers
      PROVE  AssetChecked(v)'
  <2>1. \A c \in Cases : \A a : Holds(c, a)' <=> Holds(c, a)
    BY DEF Holds
  <2>2. AssetChecked(v)
    BY DEF AssetInv
  <2>3. QED
    BY <2>1, <2>2 DEF AssetChecked, Holds
<1>3. QED
  BY <1>1, <1>2 DEF AssetInv

LEMMA AssetReturn ==
    ASSUME TypeOK, AssetInv, UNCHANGED cases, NEW w \in Workers, Return(w)
    PROVE  AssetInv'
<1>1. \A v \in Workers :
        pc'[v] \in Checked => pc[v] \in Checked /\ req'[v] = req[v]
  BY DEF Return, TypeOK, Checked
<1>2. QED
  BY <1>1, AssetFrame

(* Moving on within the checked places.                                    *)
LEMMA AssetGoto ==
    ASSUME TypeOK, AssetInv, UNCHANGED cases, NEW w \in Workers, NEW label,
           Goto(w, label), pc[w] \in Checked \/ label \notin Checked
    PROVE  AssetInv'
<1>1. \A v \in Workers :
        pc'[v] \in Checked => pc[v] \in Checked /\ req'[v] = req[v]
  BY DEF Goto, TypeOK
<1>2. QED
  BY <1>1, AssetFrame

(* Arriving at the mutex of the case with no capture, or with one whose    *)
(* asset nobody holds.                                                     *)
LEMMA AssetArrival ==
    ASSUME TypeOK, AssetInv, UNCHANGED cases, NEW w \in Workers,
           \A v \in Workers : v # w => pc'[v] = pc[v] /\ req'[v] = req[v],
           \/ pc'[w] \notin Checked
           \/ req'[w].op # "CAPTURE"
           \/ \A c \in Cases : ~Holds(c, req'[w].asset)
    PROVE  AssetInv'
<1>1. AssetsUnique'
  BY DEF AssetInv, AssetsUnique
<1>2. \A c \in Cases : \A a : Holds(c, a)' <=> Holds(c, a)
  BY DEF Holds
<1>3. ASSUME NEW v \in Workers, v # w
      PROVE  AssetChecked(v)'
  <2>1. AssetChecked(v)
    BY DEF AssetInv
  <2>2. QED
    BY <1>3, <2>1 DEF AssetChecked, Holds
<1>4. AssetChecked(w)'
  BY DEF AssetChecked, Holds
<1>5. QED
  BY <1>1, <1>3, <1>4 DEF AssetInv

(* A commit is of a request other than a capture, or of the one capture    *)
(* that holds createMu.                                                    *)
LEMMA AssetCommit ==
    ASSUME TypeOK, LockInv, JournalInv, AssetInv,
           NEW w \in Workers, Commit(w), ~Return(w)
    PROVE  AssetInv'
<1> DEFINE q == req[w]
           old(d) == DOMAIN cases[d].log
<1>1. /\ pc[w] = "commit" /\ pc'[w] = "audit" /\ req' = req
      /\ q \in Requests /\ q.case \in Cases
      /\ \A v \in Workers : v # w => pc'[v] = pc[v]
  BY CommitEffect DEF JournalInv
<1>2. \A d \in Cases : Grown(w, d)
  BY CommitLog DEF JournalInv
<1>3. ASSUME NEW d \in Cases, NEW i \in DOMAIN cases'[d].log
      PROVE  \/ i \in old(d) /\ cases'[d].log[i] = cases[d].log[i]
             \/ /\ d = q.case /\ i = Len(cases[d].log) + 1
                /\ cases'[d].log[i] = q
  <2>1. CASE i \in old(d)
    BY <1>2, <2>1 DEF Grown
  <2>2. CASE i \notin old(d)
    <3>1. d = q.case
      BY <1>2, <1>3, <2>2 DEF Grown
    <3>2. i = Len(cases[d].log) + 1
      BY <1>2, <1>3, <2>2, <3>1, NewIndex
    <3>3. QED
      BY <1>2, <3>1, <3>2 DEF Grown
  <2>3. QED
    BY <2>1, <2>2
<1>4. q.op = "CAPTURE" => \A c \in Cases : ~Holds(c, q.asset)
  BY <1>1 DEF AssetInv, AssetChecked, Checked
<1>5. AssetsUnique'
  <2> SUFFICES ASSUME NEW c \in Cases, NEW d \in Cases,
                      NEW i \in DOMAIN cases'[c].log,
                      NEW j \in DOMAIN cases'[d].log,
                      cases'[c].log[i].op = "CAPTURE",
                      cases'[d].log[j].op = "CAPTURE",
                      cases'[c].log[i].asset = cases'[d].log[j].asset
               PROVE  c = d /\ i = j
    BY DEF AssetsUnique
  <2>1. CASE /\ i \in old(c) /\ cases'[c].log[i] = cases[c].log[i]
             /\ j \in old(d) /\ cases'[d].log[j] = cases[d].log[j]
    BY <2>1 DEF AssetInv, AssetsUnique
  <2>2. CASE /\ i \in old(c) /\ cases'[c].log[i] = cases[c].log[i]
             /\ cases'[d].log[j] = q
    BY <1>4, <2>2 DEF Holds
  <2>3. CASE /\ cases'[c].log[i] = q
             /\ j \in old(d) /\ cases'[d].log[j] = cases[d].log[j]
    BY <1>4, <2>3 DEF Holds
  <2>4. CASE /\ c = q.case /\ i = Len(cases[c].log) + 1
             /\ d = q.case /\ j = Len(cases[d].log) + 1
    BY <2>4
  <2>5. QED
    BY <1>3, <2>1, <2>2, <2>3, <2>4
<1>6. ASSUME NEW v \in Workers
      PROVE  AssetChecked(v)'
  <2> SUFFICES ASSUME pc'[v] \in Checked, req'[v].op = "CAPTURE",
                      NEW d \in Cases, NEW i \in DOMAIN cases'[d].log,
                      cases'[d].log[i].op = "CAPTURE",
                      cases'[d].log[i].asset = req'[v].asset
               PROVE  FALSE
    BY DEF AssetChecked, Holds
  <2>1. v # w /\ pc[v] \in Checked /\ req[v] = req'[v]
    BY <1>1 DEF Checked
  <2>2. createMu = v
    BY <2>1 DEF LockInv, CreateMuHeldInside, NeedsCreateMu, Checked
  <2>3. ~Holds(d, req[v].asset)
    BY <2>1 DEF AssetInv, AssetChecked
  <2>4. CASE i \in old(d) /\ cases'[d].log[i] = cases[d].log[i]
    BY <2>1, <2>3, <2>4 DEF Holds
  <2>5. CASE cases'[d].log[i] = q
    <3>1. createMu = w
      BY <1>1, <2>5 DEF LockInv, CreateMuHeldInside, NeedsCreateMu
    <3>2. QED
      BY <2>1, <2>2, <3>1
  <2>6. QED
    BY <1>3, <2>4, <2>5
<1>7. QED
  BY <1>5, <1>6 DEF AssetInv

LEMMA AssetStep ==
    TypeOK /\ LockInv /\ JournalInv /\ AssetInv /\ [Next]_vars => AssetInv'
<1> SUFFICES ASSUME TypeOK, LockInv, JournalInv, AssetInv, [Next]_vars
             PROVE  AssetInv'
  OBVIOUS
<1>1. ASSUME NEW w \in Workers, NEW q \in Requests, Receive(w, q)
      PROVE  AssetInv'
  <2>1. /\ \A v \in Workers : v # w => pc'[v] = pc[v] /\ req'[v] = req[v]
        /\ req'[w] = q
        /\ pc'[w] = IF NeedsCreateMu(q) THEN "createMu" ELSE "caseLock"
        /\ UNCHANGED cases
    BY <1>1 DEF Receive, TypeOK, storeVars
  <2>2. QED
    BY <2>1, AssetArrival DEF NeedsCreateMu, Checked
<1>2. ASSUME NEW w \in Workers, LockCreateMu(w)
      PROVE  AssetInv'
  <2>1. /\ \A v \in Workers : v # w => pc'[v] = pc[v] /\ req'[v] = req[v]
        /\ req'[w] = req[w]
        /\ pc'[w] = IF req[w].op = "CAPTURE" THEN "evidence" ELSE "caseLock"
        /\ UNCHANGED cases
    BY <1>2 DEF LockCreateMu, Goto, TypeOK, storeVars
  <2>2. QED
    BY <2>1, AssetArrival DEF Checked
<1>3. ASSUME NEW w \in Workers, CheckEvidence(w)
      PROVE  AssetInv'
  <2>0. UNCHANGED cases
    BY <1>3 DEF CheckEvidence, storeVars
  <2>1. CASE Return(w)
    BY <2>0, <2>1, AssetReturn
  <2>2. CASE ~EvidenceConflict(req[w]) /\ Goto(w, "caseLock")
    <3>1. /\ \A v \in Workers : v # w => pc'[v] = pc[v] /\ req'[v] = req[v]
          /\ req'[w] = req[w]
      BY <2>2 DEF Goto, TypeOK
    <3>2. \A c \in Cases : ~Holds(c, req[w].asset)
      BY <2>2 DEF EvidenceConflict, Holds
    <3>3. QED
      BY <2>0, <3>1, <3>2, AssetArrival
  <2>3. QED
    BY <1>3, <2>1, <2>2 DEF CheckEvidence, ReturnSaved, Succeed, Refuse
<1>4. ASSUME NEW w \in Workers, LockCase(w)
      PROVE  AssetInv'
  BY <1>4, AssetGoto DEF LockCase, storeVars, Checked
<1>5. ASSUME NEW w \in Workers, Lookup(w)
      PROVE  AssetInv'
  <2>1. UNCHANGED cases /\ pc[w] \in Checked
    BY <1>5 DEF Lookup, storeVars, Checked
  <2>2. Return(w) \/ Goto(w, "load")
    BY <1>5 DEF Lookup, ReturnSaved, Succeed, Refuse
  <2>3. QED
    BY <2>1, <2>2, AssetReturn, AssetGoto
<1>6. ASSUME NEW w \in Workers, Load(w)
      PROVE  AssetInv'
  <2>1. UNCHANGED cases /\ pc[w] \in Checked
    BY <1>6 DEF Load, storeVars, Checked
  <2>2. Return(w) \/ Goto(w, "decide")
    BY <1>6 DEF Load, Refuse
  <2>3. QED
    BY <2>1, <2>2, AssetReturn, AssetGoto
<1>7. ASSUME NEW w \in Workers, Decide(w)
      PROVE  AssetInv'
  <2>1. UNCHANGED cases /\ pc[w] \in Checked
    BY <1>7 DEF Decide, storeVars, Checked
  <2>2. Return(w) \/ Goto(w, "commit")
    BY <1>7 DEF Decide, Refuse
  <2>3. QED
    BY <2>1, <2>2, AssetReturn, AssetGoto
<1>8. ASSUME NEW w \in Workers, Commit(w)
      PROVE  AssetInv'
  <2>1. CASE Return(w)
    <3>1. UNCHANGED cases
      BY <1>8, <2>1 DEF Commit, Return, Goto, TypeOK, storeVars
    <3>2. QED
      BY <2>1, <3>1, AssetReturn
  <2>2. CASE ~Return(w)
    BY <1>8, <2>2, AssetCommit
  <2>3. QED
    BY <2>1, <2>2
<1>9. ASSUME NEW w \in Workers, AuditAppend(w) \/ AuditFail(w)
      PROVE  AssetInv'
  <2>1. UNCHANGED cases /\ Return(w)
    BY <1>9 DEF AuditAppend, AuditFail, Succeed, Refuse, storeVars
  <2>2. QED
    BY <2>1, AssetReturn
<1>10. CASE Crash
  <2>1. UNCHANGED cases /\ \A v \in Workers : pc'[v] = "idle"
    BY <1>10 DEF Crash, storeVars
  <2>2. QED
    BY <2>1, AssetFrame DEF Checked
<1>11. CASE UNCHANGED vars
  BY <1>11, AssetFrame DEF vars, storeVars, localVars
<1>12. QED
  BY <1>1, <1>2, <1>3, <1>4, <1>5, <1>6, <1>7, <1>8, <1>9, <1>10, <1>11
     DEF Next, Step

LEMMA AssetInvariant == Spec => []AssetInv
<1>1. Init => AssetInv
  BY DEF Init, AssetInv, AssetsUnique, AssetChecked, Checked
<1>2. Spec => []LockInv
  BY MutexesAreHeldInside, PTL DEF LockInv, MutexesHeldInside
<1>3. QED
  BY <1>1, <1>2, AssetStep, TypeCorrect, JournalInvariant, PTL DEF Spec

(* No two captures of the archive have the same asset digest: createMu     *)
(* makes the look at all cases and the commit into one of them atomic for  *)
(* other captures.                                                         *)
THEOREM AssetsAreUnique == Spec => []AssetsUnique
<1>1. AssetInv => AssetsUnique
  BY DEF AssetInv
<1>2. QED
  BY <1>1, AssetInvariant, PTL
-----------------------------------------------------------------------------
(***************************************************************************)
(* The ledger.                                                             *)
(***************************************************************************)
Journals == [c \in Cases |-> cases[c].log]

(* Every request in a journal holds a receipt, so its key is not free.     *)
LEMMA RecordedKeysAreTaken ==
    ASSUME TypeOK, StoreInv, NEW d \in Cases, NEW i \in DOMAIN cases[d].log,
           NEW q \in Requests, idem[Key(q)] = None
    PROVE  /\ cases[d].log[i] \in Requests
           /\ Key(cases[d].log[i]) # Key(q)
<1>1. cases[d].log[i] \in Requests /\ i \in Nat
  BY DEF TypeOK, Case
<1>2. idem[Key(cases[d].log[i])] = [request |-> cases[d].log[i], rev |-> i + 1]
  BY DEF StoreInv, ReceiptsMatchCases
<1>3. [request |-> cases[d].log[i], rev |-> i + 1] \in Receipt
  BY <1>1 DEF Receipt
<1>4. QED
  BY <1>1, <1>2, <1>3, NoneAssumption

(* A commit is one application of its request.                             *)
LEMMA CommitApplies ==
    ASSUME TypeOK, JournalInv, AssetInv, NEW w \in Workers, Commit(w), ~Return(w)
    PROVE  Ledger!Apply(req[w])
<1> DEFINE q == req[w]
           c == q.case
<1>1. /\ q \in Requests /\ c \in Cases /\ cases[c] \in Case
      /\ ~cases[c].sealed /\ q.rev = cases[c].rev /\ idem[Key(q)] = None
      /\ pc[w] = "commit" /\ UNCHANGED answered
      /\ cases' = [cases EXCEPT ![c] = copy[w]]
      /\ copy[w].log = Append(cases[c].log, q)
  BY CommitEffect DEF JournalInv
<1>2. q.rev = Len(Journals[c]) + 1
  BY <1>1 DEF JournalInv, StoreInv, NoBlindUpdate, Journals
<1>3. ~ \E i \in DOMAIN Journals[c] : Journals[c][i].op = "SEAL"
  BY <1>1 DEF JournalInv, StoreInv, SealedByRequest, Journals
<1>4. ASSUME NEW d \in Cases, NEW i \in DOMAIN Journals[d]
      PROVE  /\ ~Ledger!SameKey(Journals[d][i], q)
             /\ q.op = "CAPTURE" /\ Journals[d][i].op = "CAPTURE"
                  => Journals[d][i].asset # q.asset
  <2>1. Journals[d] = cases[d].log
    BY DEF Journals
  <2>2. Key(cases[d].log[i]) # Key(q)
    BY <1>1, <1>4, <2>1, RecordedKeysAreTaken DEF JournalInv
  <2>3. q.op = "CAPTURE" => ~Holds(d, q.asset)
    BY <1>1 DEF AssetInv, AssetChecked, Checked
  <2>4. QED
    BY <1>4, <2>1, <2>2, <2>3 DEF Ledger!SameKey, Key, Holds
<1>5. Journals' = [Journals EXCEPT ![c] = Append(@, q)]
  <2>1. \A d \in Cases : cases'[d].log =
          IF d = c THEN Append(cases[d].log, q) ELSE cases[d].log
    BY <1>1 DEF TypeOK
  <2>2. QED
    BY <1>1, <2>1 DEF Journals
<1>6. q.rev = Len([d \in Cases |-> cases[d].log][c]) + 1 /\ ~Ledger!Closed(c)
  BY <1>2, <1>3 DEF Ledger!Closed, Journals
<1>7. ASSUME NEW p \in Ledger!Entries
      PROVE  /\ ~Ledger!SameKey(p, q)
             /\ q.op = "CAPTURE" /\ p.op = "CAPTURE" => p.asset # q.asset
  <2>1. PICK d \in Cases : \E i \in DOMAIN Journals[d] : p = Journals[d][i]
    BY DEF Ledger!Entries, Journals
  <2>2. QED
    BY <1>4, <2>1
<1>8. QED
  BY <1>1, <1>5, <1>6, <1>7, Zenon DEF Ledger!Apply, Journals

(* A success answer is the answer of the ledger.                           *)
LEMMA SuccessAnswers ==
    ASSUME UNCHANGED cases, NEW w \in Workers, NEW r \in Nat, Succeed(w, r),
           req[w].case \in Cases,
           r - 1 \in DOMAIN cases[req[w].case].log,
           cases[req[w].case].log[r - 1] = req[w]
    PROVE  Ledger!Answer(req[w])
<1>1. answered' = answered \cup {[request |-> req[w], revision |-> (r - 1) + 1]}
  BY DEF Succeed
<1>2. Journals[req[w].case] = cases[req[w].case].log /\ Journals' = Journals
  BY DEF Journals
<1>3. QED
  BY <1>1, <1>2 DEF Ledger!Answer, Journals

LEMMA SavedAnswers ==
    ASSUME TypeOK, JournalInv, UNCHANGED cases, NEW w \in Workers,
           pc[w] # "idle", ReturnSaved(w)
    PROVE  Ledger!Answer(req[w]) \/ UNCHANGED answered
<1> DEFINE k == Key(req[w])
<1>1. req[w] \in Requests /\ req[w].case \in Cases /\ k \in Keys
  BY RequestsAssumption, KeyType DEF TypeOK
<1>2. CASE Refuse(w)
  BY <1>2 DEF Refuse
<1>3. CASE idem[k] # None /\ idem[k].request = req[w] /\ Succeed(w, idem[k].rev)
  <2>1. idem[k] \in Receipt
    BY <1>1, <1>3 DEF TypeOK
  <2>2. /\ idem[k].rev - 1 \in DOMAIN cases[req[w].case].log
        /\ cases[req[w].case].log[idem[k].rev - 1] = req[w]
    BY <1>1, <1>3 DEF JournalInv, StoreInv, ReceiptsMatchCases
  <2>3. QED
    BY <1>1, <1>3, <2>1, <2>2, SuccessAnswers DEF Receipt
<1>4. QED
  BY <1>2, <1>3 DEF ReturnSaved

LEMMA Unnoticed ==
    ASSUME UNCHANGED <<cases, answered>>
    PROVE  UNCHANGED Ledger!vars
BY DEF Ledger!vars

LEMMA LedgerStep ==
    TypeOK /\ JournalInv /\ AssetInv /\ [Next]_vars
      => [Ledger!Next]_(Ledger!vars)
<1> SUFFICES ASSUME TypeOK, JournalInv, AssetInv, [Next]_vars
             PROVE  Ledger!Next \/ UNCHANGED Ledger!vars
  OBVIOUS
<1>0. \A w \in Workers : pc[w] # "idle" =>
        req[w] \in Requests /\ req[w].case \in Cases
  BY RequestsAssumption DEF TypeOK
<1>1. ASSUME NEW w \in Workers, Commit(w)
      PROVE  Ledger!Next \/ UNCHANGED Ledger!vars
  <2>1. CASE ~Return(w)
    <3>1. Ledger!Apply(req[w])
      BY <1>1, <2>1, CommitApplies
    <3>2. req[w] \in Requests
      BY <1>0, <1>1 DEF Commit
    <3>3. QED
      BY <3>1, <3>2, Zenon DEF Ledger!Next, Ledger!Apply
  <2>2. CASE Return(w)
    <3>1. UNCHANGED <<cases, answered>>
      BY <1>1, <2>2 DEF Commit, Refuse, Return, Goto, TypeOK, storeVars
    <3>2. QED
      BY <3>1, Unnoticed
  <2>3. QED
    BY <2>1, <2>2
<1>2. ASSUME NEW w \in Workers, CheckEvidence(w) \/ Lookup(w)
      PROVE  Ledger!Next \/ UNCHANGED Ledger!vars
  <2>1. UNCHANGED cases /\ pc[w] # "idle"
    BY <1>2 DEF CheckEvidence, Lookup, storeVars
  <2>2. ReturnSaved(w) \/ UNCHANGED answered
    BY <1>2 DEF CheckEvidence, Lookup, Goto, Refuse
  <2>3. Ledger!Answer(req[w]) \/ UNCHANGED answered
    BY <2>1, <2>2, SavedAnswers
  <2>4. QED
    BY <1>0, <2>1, <2>3, Unnoticed DEF Ledger!Next
<1>3. ASSUME NEW w \in Workers, AuditAppend(w)
      PROVE  Ledger!Next \/ UNCHANGED Ledger!vars
  <2>1. /\ UNCHANGED cases /\ pc[w] = "audit"
        /\ Succeed(w, copy[w].rev)
    BY <1>3 DEF AuditAppend, storeVars
  <2>2. /\ copy[w] = cases[req[w].case]
        /\ copy[w].rev - 1 \in DOMAIN cases[req[w].case].log
        /\ cases[req[w].case].log[copy[w].rev - 1] = req[w]
    BY <2>1 DEF JournalInv, WorkersAreCurrent, Current
  <2>3. copy[w].rev \in Nat
    BY <1>0, <2>1, <2>2 DEF TypeOK, Case
  <2>4. Ledger!Answer(req[w])
    BY <1>0, <2>1, <2>2, <2>3, SuccessAnswers
  <2>5. QED
    BY <1>0, <2>1, <2>4 DEF Ledger!Next
<1>4. ASSUME NEW w \in Workers,
             \/ LockCreateMu(w) \/ LockCase(w) \/ Load(w) \/ Decide(w)
             \/ AuditFail(w) \/ \E q \in Requests : Receive(w, q)
      PROVE  UNCHANGED Ledger!vars
  <2>1. UNCHANGED <<cases, answered>>
    BY <1>4 DEF LockCreateMu, LockCase, Load, Decide, AuditFail, Receive,
                Goto, Refuse, storeVars
  <2>2. QED
    BY <2>1, Unnoticed
<1>5. CASE Crash
  BY <1>5, Unnoticed DEF Crash, storeVars
<1>6. CASE UNCHANGED vars
  BY <1>6, Unnoticed DEF vars, storeVars
<1>7. QED
  BY <1>1, <1>2, <1>3, <1>4, <1>5, <1>6 DEF Next, Step

(* The handlers, with their two mutexes, copies, receipts, two files and   *)
(* crashes, do what the ledger does in one step: each request takes effect *)
(* at one moment or not at all, and success answers tell of nothing else.  *)
THEOREM HandlersImplementLedger == Spec => ImplementsLedger
<1>1. Init => Ledger!Init
  BY DEF Init, Ledger!Init
<1>2. QED
  BY <1>1, LedgerStep, TypeCorrect, JournalInvariant, AssetInvariant, PTL
     DEF Spec, ImplementsLedger, Ledger!Spec
=============================================================================
