------------------------ MODULE ArchiveReadersProofs ------------------------
(***************************************************************************)
(* Proofs about ArchiveReaders, for every set of readers, handlers, cases  *)
(* and requests: readers leave the service alone, and what they report is  *)
(* true of the archive, whatever falls between their steps.                *)
(***************************************************************************)
EXTENDS ArchiveReaders, ArchiveAuditProofs, FiniteSetTheorems

(***************************************************************************)
(* The service next to readers.                                            *)
(***************************************************************************)

(* Next to any readers the service is the service: all that is proved of   *)
(* ArchiveService holds here.  A reader takes no step of a handler, and a  *)
(* handler that waits for a reader's mutex is only delayed.                *)
THEOREM ReadersLeaveTheServiceAlone == ReadSpec => Spec
<1>1. ReadInit => Init
  BY DEF ReadInit
<1>2. ASSUME [ReadNext]_readVars
      PROVE  [Next]_vars
  <2>1. ASSUME NEW w \in Workers, HandlerStep(w)
        PROVE  Next
    BY <2>1 DEF HandlerStep, EnterCase, Step, Next
  <2>2. ASSUME NEW w \in Workers, NEW q \in Requests, Receive(w, q)
        PROVE  Next
    BY <2>2 DEF Next
  <2>3. CASE CrashAll
    BY <2>3 DEF CrashAll, Next
  <2>4. CASE UNCHANGED readVars
    BY <2>4 DEF readVars
  <2>5. QED
    BY <1>2, <2>1, <2>2, <2>3, <2>4 DEF ReadNext
<1>3. QED
  BY <1>1, <1>2, PTL DEF ReadSpec, Spec

(* The requests of a case make transitions the audit's table has.          *)
Transitions(case) == \A i \in DOMAIN case.log : case.log[i].op # "REAUTHORIZE"

LEMMA TransitionsOfEvents ==
    ASSUME TypeOK, StoreInv, NEW c \in Cases
    PROVE  (\E e \in Complete(c, cases[c].rev) : e.op = "REAUTHORIZE")
             <=> ~Transitions(cases[c])
<1> DEFINE log == cases[c].log
           n == cases[c].rev
<1>1. n \in Nat /\ DOMAIN log = 1..(n - 1)
  BY DEF TypeOK, Case, StoreInv, NoBlindUpdate
<1>2. \A r \in 2..n : Event(log[r - 1], r).op = log[r - 1].op /\ r - 1 \in DOMAIN log
  BY <1>1 DEF Event
<1>3. \A i \in DOMAIN log : i + 1 \in 2..n /\ (i + 1) - 1 = i
  BY <1>1
<1>4. Registered(c).op # "REAUTHORIZE"
  BY DEF Registered
<1>5. ASSUME NEW e \in Complete(c, n), e.op = "REAUTHORIZE"
      PROVE  ~Transitions(cases[c])
  <2>1. PICK r \in 2..n : e = Event(log[r - 1], r)
    BY <1>4, <1>5 DEF Complete
  <2>2. QED
    BY <1>2, <1>5, <2>1 DEF Transitions
<1>6. ASSUME NEW i \in DOMAIN log, log[i].op = "REAUTHORIZE"
      PROVE  \E e \in Complete(c, n) : e.op = "REAUTHORIZE"
  <2>1. Event(log[(i + 1) - 1], i + 1).op = "REAUTHORIZE"
    BY <1>2, <1>3, <1>6
  <2>2. Event(log[(i + 1) - 1], i + 1) \in Complete(c, n)
    BY <1>3, <1>6 DEF Complete
  <2>3. QED
    BY <2>1, <2>2
<1>7. QED
  BY <1>5, <1>6 DEF Transitions

(* What is sealed, or about to be, was validated: it is not the first      *)
(* revision, and the table has all its transitions.                        *)
SealedIsValidated ==
    /\ \A c \in Cases :
         cases[c].sealed => cases[c].rev > 1 /\ Transitions(cases[c])
    /\ \A w \in Workers :
         pc[w] = "commit" /\ copy[w].sealed => Transitions(copy[w])

(* A request accepted as a seal has found no transition the table lacks.   *)
LEMMA DecideValidated ==
    ASSUME TypeOK, JournalInv, RecordInv, NEW w \in Workers, Decide(w),
           pc'[w] = "commit", copy'[w].sealed
    PROVE  Transitions(copy'[w])
<1> DEFINE q == req[w]
           c == q.case
           t == Trail(auditMem, c)
<1>1. pc[w] = "decide" /\ ~Return(w)
  BY DEF Decide, Return, TypeOK
<1>2. /\ q.op = "SEAL" => Validate(auditMem, c, copy[w].rev)
      /\ copy' = [copy EXCEPT ![w] = Applied(copy[w], q, t)]
  BY <1>1 DEF Decide, Refuse, Sealable
<1>3. q \in Requests /\ c \in Cases /\ copy[w] = cases[c]
  BY <1>1, RequestsAssumption DEF TypeOK, JournalInv, WorkersAreCurrent, Current
<1>4. copy'[w] = Applied(copy[w], q, t)
  BY <1>2 DEF TypeOK
<1>5. q.op = "SEAL" /\ copy'[w].log = Append(cases[c].log, q)
  <2>1. /\ Applied(copy[w], q, t).sealed = (q.op = "SEAL")
        /\ Applied(copy[w], q, t).log = Append(copy[w].log, q)
    BY DEF Applied
  <2>2. QED
    BY <1>3, <1>4, <2>1
<1>6. Validate(auditMem, c, cases[c].rev)
  BY <1>2, <1>3, <1>5
<1>7. t = Complete(c, cases[c].rev)
  BY <1>3, <1>6, ValidatedIsComplete DEF JournalInv, RecordInv, TypeOK
<1>8. \A e \in t : e.op # "REAUTHORIZE"
  BY <1>6 DEF Validate, ValidTransitions
<1>9. Transitions(cases[c])
  BY <1>3, <1>7, <1>8, TransitionsOfEvents DEF JournalInv
<1>10. cases[c].log \in Seq(Requests)
  BY <1>3 DEF TypeOK, Case
<1>11. /\ DOMAIN copy'[w].log = (DOMAIN cases[c].log) \cup {Len(cases[c].log) + 1}
       /\ \A i \in DOMAIN cases[c].log : copy'[w].log[i] = cases[c].log[i]
       /\ copy'[w].log[Len(cases[c].log) + 1] = q
  <2>1. q \in Requests
    BY <1>3
  <2> HIDE DEF q, c
  <2>2. copy'[w].log = Append(cases[c].log, q)
    BY <1>5
  <2>3. QED
    BY <1>10, <2>1, <2>2, AppendDomain
<1>12. QED
  BY <1>5, <1>9, <1>11 DEF Transitions

LEMMA SealedIsValidatedInvariant == Spec => []SealedIsValidated
<1>1. Init => SealedIsValidated
  BY DEF Init, SealedIsValidated
<1>2. TypeOK /\ JournalInv /\ RecordInv /\ SealedIsValidated /\ [Next]_vars
        => SealedIsValidated'
  <2> SUFFICES ASSUME TypeOK, JournalInv, RecordInv, SealedIsValidated, [Next]_vars
               PROVE  SealedIsValidated'
    OBVIOUS
  <2>1. ASSUME NEW c \in Cases, cases'[c].sealed
        PROVE  cases'[c].rev > 1 /\ Transitions(cases'[c])
    <3>1. CASE cases' = cases
      BY <2>1, <3>1 DEF SealedIsValidated
    <3>2. CASE cases' # cases
      <4>1. PICK w \in Workers : Commit(w)
        BY <3>2 DEF Next, Step, Receive, LockCreateMu, CheckEvidence, LockCase,
                    Lookup, Load, Decide, AuditAppend, AuditFail, Crash, vars,
                    storeVars
      <4>2. ~Return(w) /\ pc[w] = "commit"
        BY <3>2, <4>1 DEF Commit, Return, Goto, TypeOK, storeVars
      <4>3. Grown(w, c)
        BY <4>1, <4>2, CommitLog DEF JournalInv
      <4>4. QED
        BY <2>1, <4>2, <4>3 DEF Grown, SealedIsValidated
    <3>3. QED
      BY <3>1, <3>2
  <2>2. ASSUME NEW w \in Workers, pc'[w] = "commit", copy'[w].sealed
        PROVE  Transitions(copy'[w])
    <3>1. CASE pc[w] = "commit" /\ copy'[w] = copy[w]
      BY <2>2, <3>1 DEF SealedIsValidated
    <3>2. CASE Decide(w)
      BY <2>2, <3>2, DecideValidated
    <3>3. CASE ~Decide(w) /\ ~(pc[w] = "commit" /\ copy'[w] = copy[w])
      <4>1. ASSUME NEW v \in Workers, v # w,
                   Step(v) \/ \E q \in Requests : Receive(v, q)
            PROVE  pc'[w] = pc[w] /\ copy'[w] = copy[w]
        BY <4>1 DEF Step, Receive, LockCreateMu, CheckEvidence, LockCase, Lookup,
                    Load, Decide, Commit, AuditAppend, AuditFail, ReturnSaved,
                    Succeed, Refuse, Return, Goto, TypeOK
      <4>2. ASSUME Step(w) \/ \E q \in Requests : Receive(w, q)
            PROVE  FALSE
        BY <2>2, <3>3, <4>2
           DEF Step, Receive, LockCreateMu, CheckEvidence, LockCase, Lookup,
               Load, Commit, AuditAppend, AuditFail, ReturnSaved,
               Succeed, Refuse, Return, Goto, TypeOK
      <4>3. CASE Crash
        BY <2>2, <4>3 DEF Crash
      <4>4. CASE UNCHANGED vars
        BY <2>2, <3>3, <4>4 DEF vars, localVars
      <4>5. QED
        BY <2>2, <3>3, <4>1, <4>2, <4>3, <4>4 DEF Next
    <3>4. QED
      BY <3>1, <3>2, <3>3
  <2>3. QED
    BY <2>1, <2>2 DEF SealedIsValidated, Transitions
<1>3. QED
  BY <1>1, <1>2, TypeCorrect, JournalInvariant, AuditInvariant,
     MutexesAreHeldInside, PTL DEF Spec, AuditInv, LockInv, MutexesHeldInside

(* What holds of the service, for the readers to rely on.                  *)
ServiceInv ==
    TypeOK /\ LockInv /\ JournalInv /\ AuditInv /\ AnchorInv /\ SealedIsValidated

LEMMA ServiceInvariant == ReadSpec => []ServiceInv
<1>1. Spec => []LockInv
  BY MutexesAreHeldInside, PTL DEF LockInv, MutexesHeldInside
<1>2. QED
  BY <1>1, ReadersLeaveTheServiceAlone, TypeCorrect, JournalInvariant,
     AuditInvariant, AnchorInvariant, SealedIsValidatedInvariant,
     PTL DEF ServiceInv
-----------------------------------------------------------------------------
(***************************************************************************)
(* Readers: where they are and what they hold.                             *)
(***************************************************************************)
Seen == [case : Case \cup {None}, head : (SUBSET AuditEvent) \cup {None},
         valid : BOOLEAN, quiet : BOOLEAN]

(* The labels a reader of a kind passes.                                   *)
Route(kind) ==
    CASE kind = "VERIFY"   -> {"get", "validate", "anchor"}
      [] kind = "PREVIEW"  -> {"get", "head", "validate"}
      [] kind = "MANIFEST" -> {"lock", "get", "validate", "anchor"}
      [] kind = "SEARCH"   -> {"lock", "get", "inspect"}
      [] kind = "DRYRUN"   -> {"saved", "lock", "again", "check", "save"}

Places == {"idle", "saved", "lock", "again", "get", "head", "validate",
           "anchor", "inspect", "check", "save"}

WithCase == {"head", "validate", "anchor", "inspect", "check", "save"}

At(r) ==
    /\ rpc[r] = "idle" <=> rreq[r] = None
    /\ rpc[r] # "idle" => rpc[r] \in Route(rreq[r].kind)
    /\ rpc[r] \in WithCase => seen[r].case \in Case

ReadTypeOK ==
    /\ readLock \in [Cases -> Readers \cup {None}]
    /\ rpc \in [Readers -> Places]
    /\ rreq \in [Readers -> Reads \cup {None}]
    /\ seen \in [Readers -> Seen]
    /\ dryIdem \in [DryKeys -> DryReceipt \cup {None}]
    /\ \A r \in Readers : At(r)

(* The mutex of a case is held exactly by the readers that take it, from   *)
(* there to their answer, and by no handler at the same time.              *)
HoldsMutex(r, c) ==
    /\ rreq[r] # None /\ rreq[r].case = c
    /\ rreq[r].kind \in {"MANIFEST", "SEARCH", "DRYRUN"}
    /\ rpc[r] \notin {"lock", "saved"}

ReadLockInv ==
    /\ \A r \in Readers, c \in Cases : readLock[c] = r <=> HoldsMutex(r, c)
    /\ \A c \in Cases : readLock[c] # None => caseLock[c] = None

LEMMA AtWork ==
    ASSUME ReadTypeOK, NEW r \in Readers, rpc[r] # "idle"
    PROVE  /\ rreq[r] \in Reads /\ rreq[r] # None
           /\ rreq[r].case \in Cases /\ rreq[r].kind \in Kinds
           /\ rpc[r] \in Route(rreq[r].kind)
BY ReadsAssumption DEF ReadTypeOK, At

(* A reader leaves the other readers where they are.                       *)
LEMMA OneReader ==
    ASSUME ReadTypeOK, NEW r \in Readers,
           ReadStep(r) \/ \E q \in Reads : StartRead(r, q),
           NEW p \in Readers, p # r
    PROVE  /\ rpc'[p] = rpc[p] /\ rreq'[p] = rreq[p] /\ seen'[p] = seen[p]
           /\ \A c \in Cases : readLock'[c] = p <=> readLock[c] = p
<1>1. /\ rpc \in [Readers -> Places] /\ rreq \in [Readers -> Reads \cup {None}]
      /\ seen \in [Readers -> Seen]
      /\ readLock \in [Cases -> Readers \cup {None}]
      /\ p # None
  BY ReadsAssumption DEF ReadTypeOK
<1>2. ASSUME NEW outcome, NEW events, Answer(r, outcome, events)
      PROVE  /\ rpc'[p] = rpc[p] /\ rreq'[p] = rreq[p] /\ seen'[p] = seen[p]
             /\ \A c \in Cases : readLock'[c] = p <=> readLock[c] = p
  BY <1>1, <1>2 DEF Answer
<1>3. ASSUME NEW q \in Reads, StartRead(r, q)
      PROVE  /\ rpc'[p] = rpc[p] /\ rreq'[p] = rreq[p] /\ seen'[p] = seen[p]
             /\ \A c \in Cases : readLock'[c] = p <=> readLock[c] = p
  BY <1>1, <1>3 DEF StartRead
<1>4. CASE LockForRead(r)
  BY <1>1, <1>4 DEF LockForRead, Proceed
<1>5. CASE GetCase(r) \/ ReadHead(r) \/ DryRun(r)
  BY <1>1, <1>5 DEF GetCase, ReadHead, DryRun, Proceed
<1>6. CASE ValidateChain(r)
  BY <1>1, <1>2, <1>6 DEF ValidateChain, Proceed
<1>7. CASE CompareAnchor(r) \/ Preview(r) \/ Search(r)
  BY <1>2, <1>7 DEF CompareAnchor, Preview, Search
<1>8. ASSUME ReturnSavedReport(r)
      PROVE  \E outcome, events : Answer(r, outcome, events)
  BY <1>8 DEF ReturnSavedReport, ReportTo, RefuseRead
<1>9. CASE LookupReport(r)
  BY <1>1, <1>2, <1>8, <1>9 DEF LookupReport, Proceed
<1>10. CASE LookupReportAgain(r)
  BY <1>1, <1>2, <1>8, <1>10 DEF LookupReportAgain, RefuseRead, Proceed
<1>11. CASE SaveReport(r)
  BY <1>2, <1>11 DEF SaveReport, ReportTo, RefuseRead
<1>12. QED
  BY <1>3, <1>4, <1>5, <1>6, <1>7, <1>9, <1>10, <1>11 DEF ReadStep

(* What an answer leaves of its reader.                                    *)
LEMMA AnswerEffect ==
    ASSUME ReadTypeOK, NEW r \in Readers, rpc[r] # "idle",
           NEW outcome, NEW events, Answer(r, outcome, events)
    PROVE  /\ rpc' \in [Readers -> Places] /\ rpc'[r] = "idle"
           /\ rreq' \in [Readers -> Reads \cup {None}] /\ rreq'[r] = None
           /\ seen' \in [Readers -> Seen]
           /\ readLock' \in [Cases -> Readers \cup {None}]
           /\ \A c \in Cases :
                readLock'[c] = IF readLock[c] = r THEN None ELSE readLock[c]
           /\ reply' = [read |-> rreq[r], quiet |-> seen[r].quiet,
                        outcome |-> outcome, events |-> events]
<1>1. Nothing \in Seen
  BY DEF Nothing, Seen
<1>2. /\ rpc \in [Readers -> Places] /\ rreq \in [Readers -> Reads \cup {None}]
      /\ seen \in [Readers -> Seen]
      /\ readLock \in [Cases -> Readers \cup {None}]
  BY DEF ReadTypeOK
<1>3. rpc' \in [Readers -> Places] /\ rpc'[r] = "idle"
  BY <1>2 DEF Answer, Places
<1>4. rreq' \in [Readers -> Reads \cup {None}] /\ rreq'[r] = None
  BY <1>2 DEF Answer
<1>5. seen' \in [Readers -> Seen]
  BY <1>1, <1>2 DEF Answer
<1>6. /\ readLock' \in [Cases -> Readers \cup {None}]
      /\ \A c \in Cases :
           readLock'[c] = IF readLock[c] = r THEN None ELSE readLock[c]
  BY <1>2 DEF Answer
<1>7. QED
  BY <1>3, <1>4, <1>5, <1>6 DEF Answer

LEMMA ProceedEffect ==
    ASSUME ReadTypeOK, NEW r \in Readers, NEW label \in Places, Proceed(r, label)
    PROVE  /\ rpc' \in [Readers -> Places] /\ rpc'[r] = label
           /\ rreq' = rreq /\ reply' = None
           /\ UNCHANGED <<dryIdem, dryAnswers>>
BY DEF Proceed, ReadTypeOK

(* A reader that takes the case takes a case.                              *)
LEMMA SeenType ==
    ASSUME TypeOK, ReadTypeOK, NEW r \in Readers, rpc[r] # "idle"
    PROVE  /\ seen[r] \in Seen /\ cases[rreq[r].case] \in Case
           /\ \A case \in Case, b \in BOOLEAN :
                /\ [seen EXCEPT ![r].case = case] \in [Readers -> Seen]
                /\ [seen EXCEPT ![r].case = case, ![r].quiet = b]
                     \in [Readers -> Seen]
           /\ \A b \in BOOLEAN : [seen EXCEPT ![r].valid = b] \in [Readers -> Seen]
           /\ \A t \in SUBSET AuditEvent :
                [seen EXCEPT ![r].head = t] \in [Readers -> Seen]
<1>1. seen \in [Readers -> Seen] /\ rreq[r].case \in Cases
  BY AtWork DEF ReadTypeOK
<1>2. cases[rreq[r].case] \in Case
  BY <1>1 DEF TypeOK
<1>3. ASSUME NEW case \in Case, NEW b \in BOOLEAN
      PROVE  /\ [seen EXCEPT ![r].case = case] \in [Readers -> Seen]
             /\ [seen EXCEPT ![r].case = case, ![r].quiet = b] \in [Readers -> Seen]
  <2>1. /\ [seen[r] EXCEPT !.case = case] \in Seen
        /\ [[seen[r] EXCEPT !.case = case] EXCEPT !.quiet = b] \in Seen
    BY <1>1 DEF Seen
  <2>2. QED
    BY <1>1, <2>1
<1>4. ASSUME NEW b \in BOOLEAN
      PROVE  [seen EXCEPT ![r].valid = b] \in [Readers -> Seen]
  BY <1>1 DEF Seen
<1>5. ASSUME NEW t \in SUBSET AuditEvent
      PROVE  [seen EXCEPT ![r].head = t] \in [Readers -> Seen]
  BY <1>1 DEF Seen
<1>6. QED
  BY <1>1, <1>2, <1>3, <1>4, <1>5

(* An answer, and what is left of a reader once it has answered.           *)
LEMMA AnswerKeepsTypes ==
    ASSUME ReadTypeOK, ReadLockInv, NEW r \in Readers, rpc[r] # "idle",
           ReadStep(r), NEW outcome, NEW events, Answer(r, outcome, events),
           dryIdem' \in [DryKeys -> DryReceipt \cup {None}],
           UNCHANGED vars
    PROVE  ReadTypeOK' /\ ReadLockInv'
<1>1. /\ rpc' \in [Readers -> Places] /\ rpc'[r] = "idle"
      /\ rreq' \in [Readers -> Reads \cup {None}] /\ rreq'[r] = None
      /\ seen' \in [Readers -> Seen]
      /\ readLock' \in [Cases -> Readers \cup {None}]
      /\ \A c \in Cases :
           readLock'[c] = IF readLock[c] = r THEN None ELSE readLock[c]
  BY AnswerEffect
<1>2. At(r)'
  BY <1>1 DEF At, WithCase
<1>3. ASSUME NEW p \in Readers, p # r
      PROVE  /\ At(p)' /\ \A c \in Cases : HoldsMutex(p, c)' <=> HoldsMutex(p, c)
             /\ \A c \in Cases : readLock'[c] = p <=> readLock[c] = p
  BY <1>3, OneReader DEF At, ReadTypeOK, HoldsMutex
<1>4. ReadTypeOK'
  BY <1>1, <1>2, <1>3 DEF ReadTypeOK
<1>5. \A c \in Cases : readLock'[c] # r /\ ~HoldsMutex(r, c)'
  BY <1>1, ReadsAssumption DEF HoldsMutex
<1>6. \A c \in Cases : readLock'[c] # None => caseLock'[c] = None
  BY <1>1 DEF ReadLockInv, vars, lockVars
<1>7. QED
  BY <1>3, <1>4, <1>5, <1>6 DEF ReadLockInv

(* A reader that goes on keeps its mutex or takes it.                      *)
LEMMA GoingOnKeepsTypes ==
    ASSUME ReadTypeOK, ReadLockInv, NEW r \in Readers,
           ReadStep(r) \/ \E q \in Reads : StartRead(r, q),
           rpc' \in [Readers -> Places],
           rreq' \in [Readers -> Reads \cup {None}],
           seen' \in [Readers -> Seen],
           readLock' \in [Cases -> Readers \cup {None}],
           dryIdem' \in [DryKeys -> DryReceipt \cup {None}],
           At(r)',
           \A c \in Cases : readLock'[c] = r <=> HoldsMutex(r, c)',
           \A c \in Cases : readLock'[c] = readLock[c] \/ caseLock[c] = None,
           UNCHANGED vars
    PROVE  ReadTypeOK' /\ ReadLockInv'
<1>1. ASSUME NEW p \in Readers, p # r
      PROVE  /\ At(p)' /\ \A c \in Cases : HoldsMutex(p, c)' <=> HoldsMutex(p, c)
             /\ \A c \in Cases : readLock'[c] = p <=> readLock[c] = p
  BY <1>1, OneReader DEF At, ReadTypeOK, HoldsMutex
<1>2. ReadTypeOK'
  BY <1>1 DEF ReadTypeOK
<1>3. \A c \in Cases : readLock'[c] # None => caseLock'[c] = None
  BY DEF ReadLockInv, vars, lockVars
<1>4. \A p \in Readers, c \in Cases : readLock'[c] = p <=> HoldsMutex(p, c)'
  BY <1>1 DEF ReadLockInv
<1>5. QED
  BY <1>2, <1>3, <1>4 DEF ReadLockInv

(* Where a reader is tells what it was asked for.                          *)
LEMMA Routes ==
    ASSUME ReadTypeOK, NEW r \in Readers
    PROVE  /\ rpc[r] \in {"saved", "again", "check", "save"} =>
                rreq[r].kind = "DRYRUN"
           /\ rpc[r] = "lock" => rreq[r].kind \in {"MANIFEST", "SEARCH", "DRYRUN"}
           /\ rpc[r] = "get" => rreq[r].kind # "DRYRUN"
           /\ rpc[r] = "head" => rreq[r].kind = "PREVIEW"
           /\ rpc[r] = "validate" => rreq[r].kind \in {"VERIFY", "PREVIEW", "MANIFEST"}
           /\ rpc[r] = "anchor" => rreq[r].kind \in {"VERIFY", "MANIFEST"}
           /\ rpc[r] = "inspect" => rreq[r].kind = "SEARCH"
<1>1. CASE rpc[r] = "idle"
  BY <1>1
<1>2. CASE rpc[r] # "idle"
  BY <1>2, AtWork DEF Kinds, Route
<1>3. QED
  BY <1>1, <1>2

(* The receipt of a dry run is found under the key of its request.         *)
LEMMA DryKeyType == \A q \in DryRuns : DryKey(q) \in DryKeys
BY DEF DryKeys

LEMMA SavedReportAnswers ==
    ASSUME ReadTypeOK, NEW r \in Readers, ReturnSavedReport(r)
    PROVE  UNCHANGED dryIdem /\ \E outcome, events : Answer(r, outcome, events)
BY DEF ReturnSavedReport, ReportTo, RefuseRead

LEMMA ReadStepTypes ==
    ASSUME TypeOK, ReadTypeOK, ReadLockInv, NEW r \in Readers,
           ReadStep(r), UNCHANGED vars
    PROVE  ReadTypeOK' /\ ReadLockInv'
<1> DEFINE c == rreq[r].case
<1>1. /\ rpc \in [Readers -> Places] /\ rreq \in [Readers -> Reads \cup {None}]
      /\ seen \in [Readers -> Seen]
      /\ readLock \in [Cases -> Readers \cup {None}]
      /\ dryIdem \in [DryKeys -> DryReceipt \cup {None}]
      /\ At(r) /\ r # None
      /\ \A d \in Cases : readLock[d] = r <=> HoldsMutex(r, d)
  BY ReadsAssumption DEF ReadTypeOK, ReadLockInv
<1>2. rpc[r] # "idle"
  BY DEF ReadStep, LockForRead, GetCase, ValidateChain, CompareAnchor, ReadHead,
         Preview, Search, LookupReport, LookupReportAgain, DryRun, SaveReport
<1>3. /\ rreq[r] \in Reads /\ rreq[r] # None /\ c \in Cases /\ rreq[r].kind \in Kinds
      /\ rpc[r] \in Route(rreq[r].kind) /\ cases[c] \in Case
  BY <1>2, AtWork DEF TypeOK
<1>4. ASSUME NEW outcome, NEW events, Answer(r, outcome, events), UNCHANGED dryIdem
      PROVE  ReadTypeOK' /\ ReadLockInv'
  BY <1>1, <1>2, <1>4, AnswerKeepsTypes
<1>5. CASE LockForRead(r)
  <2>1. /\ rpc[r] = "lock" /\ caseLock[c] = None /\ readLock[c] = None
        /\ readLock' = [readLock EXCEPT ![c] = r]
        /\ rpc' = [rpc EXCEPT ![r] = IF rreq[r].kind = "DRYRUN" THEN "again" ELSE "get"]
        /\ UNCHANGED <<rreq, seen, dryIdem>>
    BY <1>5 DEF LockForRead, Proceed
  <2>2. rreq[r].kind \in {"MANIFEST", "SEARCH", "DRYRUN"}
    BY <2>1, Routes
  <2>3. At(r)'
    BY <1>1, <1>3, <2>1, <2>2 DEF At, Route, WithCase
  <2>4. ~HoldsMutex(r, c) /\ \A d \in Cases : readLock[d] = r => d = c
    BY <1>1, <2>1 DEF HoldsMutex
  <2>5. \A d \in Cases : readLock'[d] = r <=> HoldsMutex(r, d)'
    BY <1>1, <1>3, <2>1, <2>2, <2>4 DEF HoldsMutex
  <2>6. \A d \in Cases : readLock'[d] = readLock[d] \/ caseLock[d] = None
    BY <1>1, <2>1
  <2>7. /\ rpc' \in [Readers -> Places] /\ readLock' \in [Cases -> Readers \cup {None}]
    BY <1>1, <2>1 DEF Places
  <2>8. QED
    BY <1>1, <2>1, <2>3, <2>5, <2>6, <2>7, GoingOnKeepsTypes
<1>6. ASSUME NEW label \in WithCase, Proceed(r, label), UNCHANGED readLock,
             seen' \in [Readers -> Seen], seen'[r].case \in Case,
             label \in Route(rreq[r].kind), rpc[r] \notin {"lock", "saved"}
      PROVE  ReadTypeOK' /\ ReadLockInv'
  <2>1. /\ rpc' = [rpc EXCEPT ![r] = label] /\ label \in Places
        /\ UNCHANGED <<rreq, dryIdem, readLock>>
    BY <1>6 DEF Proceed, WithCase, Places
  <2>2. rpc' \in [Readers -> Places] /\ rpc'[r] = label
    BY <1>1, <2>1
  <2>3. At(r)'
    BY <1>3, <1>6, <2>1, <2>2 DEF At, WithCase
  <2>4. \A d \in Cases : readLock'[d] = r <=> HoldsMutex(r, d)'
    BY <1>1, <1>6, <2>1, <2>2 DEF HoldsMutex, WithCase
  <2>5. QED
    BY <1>1, <1>6, <2>1, <2>2, <2>3, <2>4, GoingOnKeepsTypes
<1>7. CASE GetCase(r)
  <2> DEFINE label == CASE rreq[r].kind = "PREVIEW" -> "head"
                        [] rreq[r].kind = "SEARCH"  -> "inspect"
                        [] OTHER -> "validate"
  <2>1. /\ rpc[r] = "get" /\ Proceed(r, label) /\ UNCHANGED readLock
        /\ seen' = [seen EXCEPT ![r].case = cases[c], ![r].quiet = caseLock[c] = None]
    BY <1>7 DEF GetCase
  <2>2. label \in WithCase /\ label \in Route(rreq[r].kind)
    BY <1>3, <2>1, Routes DEF WithCase, Route, Kinds
  <2>3. seen' \in [Readers -> Seen]
    BY <1>2, <1>3, <2>1, SeenType
  <2>4. seen'[r].case \in Case
    BY <1>1, <1>3, <2>1 DEF Seen
  <2>5. QED
    BY <1>6, <2>1, <2>2, <2>3, <2>4
<1>8. CASE ValidateChain(r)
  <2>1. CASE \E outcome, events : Answer(r, outcome, events) /\ UNCHANGED dryIdem
    BY <1>4, <2>1
  <2>2. CASE ~\E outcome, events : Answer(r, outcome, events) /\ UNCHANGED dryIdem
    <3> DEFINE b == Validate(auditMem, c, seen[r].case.rev)
    <3>1. /\ rpc[r] = "validate" /\ rreq[r].kind # "PREVIEW"
          /\ seen' = [seen EXCEPT ![r].valid = b]
          /\ Proceed(r, "anchor") /\ UNCHANGED readLock
      BY <1>8, <2>2 DEF ValidateChain
    <3>2. b \in BOOLEAN
      BY DEF Validate
    <3>3. seen' \in [Readers -> Seen] /\ seen'[r].case = seen[r].case
      BY <1>1, <1>2, <3>1, <3>2, SeenType DEF Seen
    <3>4. "anchor" \in WithCase /\ "anchor" \in Route(rreq[r].kind)
      BY <3>1, Routes DEF WithCase, Route
    <3>5. seen[r].case \in Case
      BY <1>1, <3>1 DEF At, WithCase
    <3>6. QED
      BY <1>6, <3>1, <3>3, <3>4, <3>5
  <2>3. QED
    BY <2>1, <2>2
<1>9. CASE CompareAnchor(r) \/ Preview(r) \/ Search(r)
  BY <1>4, <1>9 DEF CompareAnchor, Preview, Search
<1>10. CASE ReadHead(r)
  <2>1. /\ rpc[r] = "head" /\ Proceed(r, "validate") /\ UNCHANGED readLock
        /\ seen' = [seen EXCEPT ![r].head = Trail(auditMem, c)]
    BY <1>10 DEF ReadHead
  <2>2. Trail(auditMem, c) \in SUBSET AuditEvent
    BY <1>3, TrailType DEF TypeOK
  <2>3. seen' \in [Readers -> Seen] /\ seen'[r].case = seen[r].case
    BY <1>1, <1>2, <2>1, <2>2, SeenType DEF Seen
  <2>4. "validate" \in WithCase /\ "validate" \in Route(rreq[r].kind)
    BY <2>1, Routes DEF WithCase, Route
  <2>5. seen[r].case \in Case
    BY <1>1, <2>1 DEF At, WithCase
  <2>6. QED
    BY <1>6, <2>1, <2>3, <2>4, <2>5
<1>11. CASE LookupReport(r)
  <2>1. CASE ReturnSavedReport(r)
    BY <1>4, <2>1, SavedReportAnswers
  <2>2. CASE ~ReturnSavedReport(r)
    <3>1. /\ rpc[r] = "saved" /\ Proceed(r, "lock") /\ UNCHANGED <<readLock, seen>>
      BY <1>11, <2>2 DEF LookupReport
    <3>2. /\ rpc' = [rpc EXCEPT ![r] = "lock"] /\ UNCHANGED <<rreq, dryIdem>>
      BY <3>1 DEF Proceed
    <3>3. rpc' \in [Readers -> Places] /\ rpc'[r] = "lock"
      BY <1>1, <3>2 DEF Places
    <3>4. At(r)'
      BY <1>3, <3>1, <3>2, <3>3, Routes DEF At, Route, WithCase
    <3>5. \A d \in Cases : readLock'[d] = r <=> HoldsMutex(r, d)'
      BY <1>1, <3>1, <3>2, <3>3 DEF HoldsMutex
    <3>6. QED
      BY <1>1, <3>1, <3>2, <3>3, <3>4, <3>5, GoingOnKeepsTypes
  <2>3. QED
    BY <2>1, <2>2
<1>12. CASE LookupReportAgain(r)
  <2>1. CASE ReturnSavedReport(r)
    BY <1>4, <2>1, SavedReportAnswers
  <2>2. CASE RefuseRead(r)
    BY <1>4, <2>2 DEF RefuseRead
  <2>3. CASE ~ReturnSavedReport(r) /\ ~RefuseRead(r)
    <3>1. /\ rpc[r] = "again" /\ Proceed(r, "check") /\ UNCHANGED readLock
          /\ seen' = [seen EXCEPT ![r].case = cases[c]]
      BY <1>12, <2>3 DEF LookupReportAgain
    <3>2. seen' \in [Readers -> Seen]
      BY <1>2, <1>3, <3>1, SeenType
    <3>3. seen'[r].case \in Case
      BY <1>1, <1>3, <3>1 DEF Seen
    <3>4. "check" \in WithCase /\ "check" \in Route(rreq[r].kind)
      BY <3>1, Routes DEF WithCase, Route
    <3>5. QED
      BY <1>6, <3>1, <3>2, <3>3, <3>4
  <2>4. QED
    BY <2>1, <2>2, <2>3
<1>13. CASE DryRun(r)
  <2>1. PICK accepted \in BOOLEAN :
          seen' = [seen EXCEPT ![r].valid = accepted /\ ~EvidenceConflict(rreq[r])]
    BY <1>13 DEF DryRun
  <2>2. rpc[r] = "check" /\ Proceed(r, "save") /\ UNCHANGED readLock
    BY <1>13 DEF DryRun
  <2>3. seen' \in [Readers -> Seen] /\ seen'[r].case = seen[r].case
    BY <1>1, <1>2, <2>1, SeenType DEF Seen
  <2>4. "save" \in WithCase /\ "save" \in Route(rreq[r].kind)
    BY <2>2, Routes DEF WithCase, Route
  <2>5. seen[r].case \in Case
    BY <1>1, <2>2 DEF At, WithCase
  <2>6. QED
    BY <1>6, <2>2, <2>3, <2>4, <2>5
<1>14. CASE SaveReport(r)
  <2>1. CASE RefuseRead(r)
    BY <1>4, <2>1 DEF RefuseRead
  <2>2. CASE ~RefuseRead(r)
    <3> DEFINE report == [rev |-> seen[r].case.rev, valid |-> seen[r].valid]
               k == DryKey(rreq[r])
    <3>1. /\ rpc[r] = "save" /\ Answer(r, "REPORT", None)
          /\ dryIdem' = [dryIdem EXCEPT ![k] = [read |-> rreq[r], report |-> report]]
      BY <1>14, <2>2 DEF SaveReport, ReportTo
    <3>2. report \in [rev : Nat, valid : BOOLEAN]
      BY <1>1, <3>1 DEF At, WithCase, Seen, Case
    <3>3. [read |-> rreq[r], report |-> report] \in DryReceipt
      BY <1>3, <3>2 DEF DryReceipt
    <3>4. dryIdem' \in [DryKeys -> DryReceipt \cup {None}]
      BY <1>1, <3>1, <3>3
    <3>5. QED
      BY <1>2, <3>1, <3>4, AnswerKeepsTypes
  <2>3. QED
    BY <2>1, <2>2
<1>15. QED
  BY <1>5, <1>7, <1>8, <1>9, <1>10, <1>11, <1>12, <1>13, <1>14 DEF ReadStep

LEMMA StartReadTypes ==
    ASSUME TypeOK, ReadTypeOK, ReadLockInv, NEW r \in Readers,
           NEW q \in Reads, StartRead(r, q), UNCHANGED vars
    PROVE  ReadTypeOK' /\ ReadLockInv'
<1>1. /\ rpc \in [Readers -> Places] /\ rreq \in [Readers -> Reads \cup {None}]
      /\ \A d \in Cases : readLock[d] = r <=> HoldsMutex(r, d)
      /\ At(r)
  BY DEF ReadTypeOK, ReadLockInv
<1>2. /\ rpc[r] = "idle"
      /\ rpc' = [rpc EXCEPT ![r] = Entry(q)]
      /\ rreq' = [rreq EXCEPT ![r] = q]
      /\ UNCHANGED <<readLock, seen, dryIdem>>
  BY DEF StartRead
<1>3. /\ q.kind \in Kinds /\ q # None
      /\ Entry(q) \in {"get", "lock", "saved"} /\ Entry(q) \in Route(q.kind)
      /\ q.kind \in {"MANIFEST", "SEARCH", "DRYRUN"} => Entry(q) \in {"lock", "saved"}
  BY ReadsAssumption DEF Kinds, Entry, Route
<1>4. /\ rpc' \in [Readers -> Places] /\ rpc'[r] = Entry(q)
      /\ rreq' \in [Readers -> Reads \cup {None}] /\ rreq'[r] = q
  BY <1>1, <1>2, <1>3 DEF Places
<1>5. At(r)'
  BY <1>2, <1>3, <1>4 DEF At, WithCase
<1>6. rreq[r] = None
  BY <1>1, <1>2 DEF At
<1>7. \A d \in Cases : readLock'[d] = r <=> HoldsMutex(r, d)'
  BY <1>1, <1>2, <1>3, <1>4, <1>6 DEF HoldsMutex
<1>8. QED
  BY <1>2, <1>4, <1>5, <1>7, GoingOnKeepsTypes DEF ReadTypeOK

(* Handlers leave readers where they are, and their mutexes to them.       *)
LEMMA HandlerTypes ==
    ASSUME ReadTypeOK, ReadLockInv,
           UNCHANGED <<readLock, rpc, rreq, dryIdem>>, seen' \in [Readers -> Seen],
           \A r \in Readers : seen'[r].case = seen[r].case,
           \A c \in Cases : \/ caseLock'[c] = caseLock[c]
                            \/ caseLock'[c] = None
                            \/ readLock[c] = None
    PROVE  ReadTypeOK' /\ ReadLockInv'
<1>1. \A r \in Readers : At(r)'
  BY DEF ReadTypeOK, At
<1>2. \A r \in Readers, c \in Cases : HoldsMutex(r, c)' <=> HoldsMutex(r, c)
  BY DEF HoldsMutex
<1>3. QED
  BY <1>1, <1>2 DEF ReadTypeOK, ReadLockInv

(* Whoever enters a case ends the quiet of its readers.                    *)
LEMMA EnterCaseSeen ==
    ASSUME ReadTypeOK, NEW w \in Workers, EnterCase(w), NEW r \in Readers
    PROVE  LET ended == rreq[r] # None /\ rreq[r].case = req[w].case
           IN  /\ seen'[r] \in Seen
               /\ seen'[r].case = seen[r].case
               /\ seen'[r].head = seen[r].head
               /\ seen'[r].valid = seen[r].valid
               /\ ended => seen'[r].quiet = FALSE
               /\ ~ended => seen'[r] = seen[r]
BY DEF EnterCase, ReadTypeOK, Seen

LEMMA CaseLockTaken ==
    ASSUME TypeOK, NEW w \in Workers, Step(w), pc[w] # "caseLock", NEW c \in Cases
    PROVE  caseLock'[c] = caseLock[c] \/ caseLock'[c] = None
<1>1. CASE Return(w)
  BY <1>1 DEF Return
<1>2. CASE ~Return(w)
  BY <1>2 DEF Step, LockCreateMu, CheckEvidence, LockCase, Lookup, Load, Decide,
              Commit, AuditAppend, AuditFail, ReturnSaved, Succeed, Refuse, lockVars
<1>3. QED
  BY <1>1, <1>2

LEMMA ReadTypeStep ==
    TypeOK /\ ReadTypeOK /\ ReadLockInv /\ [ReadNext]_readVars
      => ReadTypeOK' /\ ReadLockInv'
<1> SUFFICES ASSUME TypeOK, ReadTypeOK, ReadLockInv, [ReadNext]_readVars
             PROVE  ReadTypeOK' /\ ReadLockInv'
  OBVIOUS
<1>1. ASSUME NEW w \in Workers, EnterCase(w)
      PROVE  ReadTypeOK' /\ ReadLockInv'
  <2>1. /\ seen' \in [Readers -> Seen]
        /\ \A r \in Readers : seen'[r].case = seen[r].case
    <3>1. DOMAIN seen' = Readers /\ seen' = [r \in Readers |-> seen'[r]]
      BY <1>1 DEF EnterCase
    <3>2. QED
      BY <1>1, <3>1, EnterCaseSeen
  <2>2. ASSUME NEW c \in Cases
        PROVE  \/ caseLock'[c] = caseLock[c]
               \/ readLock[c] = None
    BY <1>1 DEF EnterCase, LockCase, FreeOfReaders, TypeOK
  <2>3. UNCHANGED <<readLock, rpc, rreq, dryIdem>>
    BY <1>1 DEF EnterCase
  <2>4. QED
    BY <2>1, <2>2, <2>3, HandlerTypes
<1>2. ASSUME NEW w \in Workers, Step(w), pc[w] # "caseLock", ReadersWait
      PROVE  ReadTypeOK' /\ ReadLockInv'
  BY <1>2, CaseLockTaken, HandlerTypes DEF ReadersWait, ReadTypeOK
<1>3. ASSUME NEW w \in Workers, NEW q \in Requests, Receive(w, q), ReadersWait
      PROVE  ReadTypeOK' /\ ReadLockInv'
  BY <1>3, HandlerTypes DEF Receive, ReadersWait, lockVars, ReadTypeOK
<1>4. ASSUME NEW r \in Readers, ReadStep(r) \/ \E q \in Reads : StartRead(r, q),
             UNCHANGED vars
      PROVE  ReadTypeOK' /\ ReadLockInv'
  BY <1>4, ReadStepTypes, StartReadTypes
<1>5. CASE CrashAll
  <2>1. /\ rpc' = [r \in Readers |-> "idle"] /\ rreq' = [r \in Readers |-> None]
        /\ seen' = [r \in Readers |-> Nothing] /\ UNCHANGED dryIdem
        /\ readLock' = [c \in Cases |-> None]
    BY <1>5 DEF CrashAll
  <2>2. Nothing \in Seen /\ "idle" \in Places
    BY DEF Nothing, Seen, Places
  <2>3. \A r \in Readers : At(r)'
    BY <2>1 DEF At, WithCase
  <2>4. \A r \in Readers, c \in Cases : readLock'[c] # r /\ ~HoldsMutex(r, c)'
    BY <2>1, ReadsAssumption DEF HoldsMutex
  <2>5. QED
    BY <2>1, <2>2, <2>3, <2>4 DEF ReadTypeOK, ReadLockInv
<1>6. CASE UNCHANGED readVars
  BY <1>6, HandlerTypes DEF readVars, readerVars, vars, lockVars, ReadTypeOK
<1>7. QED
  BY <1>1, <1>2, <1>3, <1>4, <1>5, <1>6 DEF ReadNext, HandlerStep

LEMMA ReadTypes == ReadSpec => [](ReadTypeOK /\ ReadLockInv)
<1>1. ReadInit => ReadTypeOK /\ ReadLockInv
  <2> SUFFICES ASSUME ReadInit PROVE ReadTypeOK /\ ReadLockInv
    OBVIOUS
  <2>1. Nothing \in Seen /\ "idle" \in Places
    BY DEF Nothing, Seen, Places
  <2>2. \A r \in Readers : At(r)
    BY DEF ReadInit, At, WithCase
  <2>3. \A r \in Readers, c \in Cases : readLock[c] # r /\ ~HoldsMutex(r, c)
    BY ReadsAssumption DEF ReadInit, HoldsMutex
  <2>4. QED
    BY <2>1, <2>2, <2>3 DEF ReadInit, ReadTypeOK, ReadLockInv
<1>2. Spec => []TypeOK
  BY TypeCorrect
<1>3. QED
  BY <1>1, <1>2, ReadTypeStep, ReadersLeaveTheServiceAlone, PTL DEF ReadSpec
-----------------------------------------------------------------------------
(***************************************************************************)
(* Dry runs.  A report that somebody has received is the saved one, and a  *)
(* dry run on its way to save one, under the mutex of its case, is the     *)
(* only one of its key and has found nothing saved.                        *)
(***************************************************************************)
DryInv ==
    /\ \A a \in dryAnswers :
         a \in DryReceipt /\ a.read \in DryRuns /\ dryIdem[DryKey(a.read)] = a
    /\ \A r \in Readers :
         rpc[r] \in {"check", "save"} => dryIdem[DryKey(rreq[r])] = None

(* Nobody arrives at the check, and nothing is saved.                      *)
LEMMA DryFrame ==
    ASSUME DryInv, UNCHANGED <<dryIdem, dryAnswers>>,
           \A p \in Readers : rpc'[p] \in {"check", "save"} =>
             rpc[p] \in {"check", "save"} /\ rreq'[p] = rreq[p]
    PROVE  DryInv'
<1>1. ASSUME NEW a \in dryAnswers'
      PROVE  /\ a \in DryReceipt /\ a.read \in DryRuns
             /\ dryIdem'[DryKey(a.read)] = a
  BY <1>1 DEF DryInv
<1>2. ASSUME NEW r \in Readers, rpc'[r] \in {"check", "save"}
      PROVE  dryIdem'[DryKey(rreq'[r])] = None
  BY <1>2 DEF DryInv
<1>3. QED
  BY <1>1, <1>2 DEF DryInv, DryKey

(* A dry run that is answered, whether it has saved a report or not.       *)
LEMMA SavedReportIsIt ==
    ASSUME ReadTypeOK, DryInv, NEW r \in Readers, rreq[r] \in DryRuns,
           ReadStep(r), rpc[r] # "idle", ReturnSavedReport(r)
    PROVE  DryInv'
<1> DEFINE k == DryKey(rreq[r])
<1>1. k \in DryKeys
  BY DryKeyType
<1>2. PICK outcome, events : Answer(r, outcome, events)
  BY SavedReportAnswers
<1>3. \A p \in Readers : rpc'[p] \in {"check", "save"} =>
        p # r /\ rpc'[p] = rpc[p] /\ rreq'[p] = rreq[p]
  BY <1>2, AnswerEffect, OneReader
<1>4. CASE UNCHANGED dryAnswers
  BY <1>3, <1>4, DryFrame, SavedReportAnswers
<1>5. CASE ReportTo(r, SavedReport(r).report) /\ SavedReport(r).read = rreq[r]
  <2> DEFINE a == [read |-> rreq[r], report |-> SavedReport(r).report]
  <2>1. dryIdem[k] \in DryReceipt
    BY <1>1 DEF ReadTypeOK, ReturnSavedReport, SavedReport
  <2>2. a = dryIdem[k] /\ a \in DryReceipt /\ a.read = rreq[r]
    BY <1>5, <2>1 DEF DryReceipt, SavedReport
  <2>3. dryAnswers' = dryAnswers \cup {a} /\ dryIdem' = dryIdem
    BY <1>5, SavedReportAnswers DEF ReportTo
  <2> HIDE DEF a
  <2>4. ASSUME NEW b \in dryAnswers'
        PROVE  /\ b \in DryReceipt /\ b.read \in DryRuns
               /\ dryIdem'[DryKey(b.read)] = b
    BY <2>2, <2>3 DEF DryInv
  <2>5. ASSUME NEW p \in Readers, rpc'[p] \in {"check", "save"}
        PROVE  dryIdem'[DryKey(rreq'[p])] = None
    BY <1>3, <2>3, <2>5 DEF DryInv
  <2>6. QED
    BY <2>4, <2>5 DEF DryInv, DryKey
<1>6. QED
  BY <1>4, <1>5 DEF ReturnSavedReport, RefuseRead

(* The report that is saved is the first of its key, and stays the only    *)
(* one: whoever else has the key waits for the mutex of the case.          *)
LEMMA SaveReportOnce ==
    ASSUME ReadTypeOK, ReadLockInv, DryInv, NEW r \in Readers,
           rreq[r] \in DryRuns, rpc[r] = "save", SaveReport(r)
    PROVE  DryInv'
<1> DEFINE k == DryKey(rreq[r])
           report == [rev |-> seen[r].case.rev, valid |-> seen[r].valid]
           a == [read |-> rreq[r], report |-> report]
<1>1. /\ k \in DryKeys /\ rreq[r] \in Reads /\ rreq[r].case \in Cases
      /\ rreq[r] # None /\ rreq[r].kind = "DRYRUN" /\ dryIdem[k] = None
  BY DryKeyType, ReadsAssumption DEF DryRuns, DryInv
<1>2. PICK outcome, events : Answer(r, outcome, events)
  BY DEF SaveReport, ReportTo, RefuseRead
<1>3. \A p \in Readers : rpc'[p] \in {"check", "save"} =>
        p # r /\ rpc'[p] = rpc[p] /\ rreq'[p] = rreq[p]
  BY <1>2, AnswerEffect, OneReader DEF ReadStep
<1>4. CASE RefuseRead(r)
  BY <1>3, <1>4, DryFrame DEF RefuseRead
<1>5. CASE ~RefuseRead(r)
  <2>1. /\ dryAnswers' = dryAnswers \cup {a}
        /\ dryIdem' = [dryIdem EXCEPT ![k] = a]
    BY <1>5 DEF SaveReport, ReportTo
  <2>2. a \in DryReceipt /\ a.read = rreq[r]
    <3>1. seen[r] \in Seen /\ seen[r].case \in Case
      BY DEF ReadTypeOK, At, WithCase
    <3>2. report \in [rev : Nat, valid : BOOLEAN]
      BY <3>1 DEF Seen, Case
    <3>3. QED
      BY <1>1, <3>2 DEF DryReceipt
  <2> HIDE DEF a
  <2>3. dryIdem'[k] = a /\ \A l \in DryKeys : l # k => dryIdem'[l] = dryIdem[l]
    BY <1>1, <2>1 DEF ReadTypeOK
  <2>4. ASSUME NEW b \in dryAnswers
        PROVE  DryKey(b.read) \in DryKeys /\ DryKey(b.read) # k
    BY <1>1, DryKeyType, ReadsAssumption DEF DryInv
  <2>5. ASSUME NEW b \in dryAnswers'
        PROVE  /\ b \in DryReceipt /\ b.read \in DryRuns
               /\ dryIdem'[DryKey(b.read)] = b
    BY <2>1, <2>2, <2>3, <2>4 DEF DryInv
  <2>6. ASSUME NEW p \in Readers, rpc'[p] \in {"check", "save"}
        PROVE  dryIdem'[DryKey(rreq'[p])] = None
    <3>1. p # r /\ rpc[p] \in {"check", "save"} /\ rreq'[p] = rreq[p]
      BY <1>3, <2>6
    <3>2. rreq[p] \in DryRuns /\ rreq[p] # None /\ rreq[p].kind = "DRYRUN"
      BY <3>1, AtWork, Routes DEF DryRuns
    <3>3. ASSUME DryKey(rreq[p]) = k
          PROVE  FALSE
      <4>1. rreq[p].case = rreq[r].case
        BY <3>3 DEF DryKey
      <4>2. HoldsMutex(p, rreq[r].case) /\ HoldsMutex(r, rreq[r].case)
        BY <1>1, <3>1, <3>2, <4>1 DEF HoldsMutex
      <4>3. QED
        BY <1>1, <3>1, <4>2 DEF ReadLockInv
    <3>4. QED
      BY <2>3, <3>1, <3>2, <3>3, DryKeyType DEF DryInv
  <2>7. QED
    BY <2>5, <2>6 DEF DryInv, DryKey
<1>6. QED
  BY <1>4, <1>5

LEMMA DryStep ==
    ReadTypeOK /\ ReadLockInv /\ DryInv /\ [ReadNext]_readVars => DryInv'
<1> SUFFICES ASSUME ReadTypeOK, ReadLockInv, DryInv, [ReadNext]_readVars
             PROVE  DryInv'
  OBVIOUS
<1>1. ASSUME NEW r \in Readers, ReadStep(r)
      PROVE  DryInv'
  <2>1. rpc[r] # "idle"
    BY <1>1 DEF ReadStep, LockForRead, GetCase, ValidateChain, CompareAnchor,
                ReadHead, Preview, Search, LookupReport, LookupReportAgain,
                DryRun, SaveReport
  <2>2. rreq[r] \in Reads
    BY <2>1, AtWork
  <2>3. \A p \in Readers : p # r => rpc'[p] = rpc[p] /\ rreq'[p] = rreq[p]
    BY <1>1, OneReader
  <2>4. ASSUME NEW outcome, NEW events, Answer(r, outcome, events),
               UNCHANGED <<dryIdem, dryAnswers>>
        PROVE  DryInv'
    BY <2>1, <2>3, <2>4, AnswerEffect, DryFrame
  <2>5. ASSUME NEW label \in Places \ {"check", "save"}, Proceed(r, label)
        PROVE  DryInv'
    BY <2>3, <2>5, ProceedEffect, DryFrame
  <2>6. CASE LockForRead(r) \/ GetCase(r) \/ ReadHead(r)
    BY <1>1, <2>5, <2>6 DEF LockForRead, GetCase, ReadHead, Places
  <2>7. CASE ValidateChain(r)
    BY <2>4, <2>5, <2>7 DEF ValidateChain, Places
  <2>8. CASE CompareAnchor(r) \/ Preview(r) \/ Search(r)
    BY <2>4, <2>8 DEF CompareAnchor, Preview, Search
  <2>9. rpc[r] \in {"saved", "again", "check", "save"} => rreq[r] \in DryRuns
    BY <2>2, Routes DEF DryRuns
  <2>10. CASE LookupReport(r)
    <3>1. rpc[r] = "saved"
      BY <2>10 DEF LookupReport
    <3>2. CASE ReturnSavedReport(r)
      BY <1>1, <2>1, <2>9, <3>1, <3>2, SavedReportIsIt
    <3>3. CASE ~ReturnSavedReport(r)
      BY <2>5, <2>10, <3>3 DEF LookupReport, Places
    <3>4. QED
      BY <3>2, <3>3
  <2>11. CASE LookupReportAgain(r)
    <3>1. rpc[r] = "again"
      BY <2>11 DEF LookupReportAgain
    <3>2. CASE ReturnSavedReport(r)
      BY <1>1, <2>1, <2>9, <3>1, <3>2, SavedReportIsIt
    <3>3. CASE RefuseRead(r)
      BY <2>4, <3>3 DEF RefuseRead
    <3>4. CASE ~ReturnSavedReport(r) /\ ~RefuseRead(r)
      <4>1. SavedReport(r) = None /\ Proceed(r, "check")
        BY <2>11, <3>4 DEF LookupReportAgain
      <4>2. /\ rreq' = rreq /\ UNCHANGED <<dryIdem, dryAnswers>>
        BY <4>1 DEF Proceed
      <4>3. ASSUME NEW p \in Readers, rpc'[p] \in {"check", "save"}
            PROVE  dryIdem'[DryKey(rreq'[p])] = None
        BY <2>3, <4>1, <4>2, <4>3 DEF DryInv, SavedReport
      <4>4. \A a \in dryAnswers' :
              a \in DryReceipt /\ a.read \in DryRuns /\ dryIdem'[DryKey(a.read)] = a
        BY <4>2 DEF DryInv
      <4>5. QED
        BY <4>3, <4>4 DEF DryInv, DryKey
    <3>5. QED
      BY <3>2, <3>3, <3>4
  <2>12. CASE DryRun(r)
    BY <2>3, <2>12, DryFrame DEF DryRun, Proceed
  <2>13. CASE SaveReport(r)
    BY <2>9, <2>13, SaveReportOnce DEF SaveReport
  <2>14. QED
    BY <1>1, <2>6, <2>7, <2>8, <2>10, <2>11, <2>12, <2>13 DEF ReadStep
<1>2. ASSUME NEW r \in Readers, NEW q \in Reads, StartRead(r, q)
      PROVE  DryInv'
  <2>1. Entry(q) \notin {"check", "save"}
    BY ReadsAssumption DEF Entry, Kinds
  <2>2. \A p \in Readers : rpc'[p] \in {"check", "save"} =>
          p # r /\ rpc'[p] = rpc[p] /\ rreq'[p] = rreq[p]
    BY <1>2, <2>1 DEF StartRead, ReadTypeOK
  <2>3. QED
    BY <1>2, <2>2, DryFrame DEF StartRead
<1>3. CASE CrashAll
  BY <1>3, DryFrame DEF CrashAll
<1>4. CASE UNCHANGED <<rpc, rreq, dryIdem, dryAnswers>>
  BY <1>4, DryFrame
<1>5. QED
  BY <1>1, <1>2, <1>3, <1>4 DEF ReadNext, HandlerStep, EnterCase, ReadersWait,
                                readVars, readerVars

(* Every answer to a dry run is the one report that was saved for it.      *)
THEOREM DryRunsGetOneReport == ReadSpec => []DryRunsAgree
<1>1. ReadInit => DryInv
  BY DEF ReadInit, DryInv
<1>2. DryInv => DryRunsAgree
  BY DEF DryInv, DryRunsAgree
<1>3. QED
  BY <1>1, <1>2, DryStep, ReadTypes, PTL DEF ReadSpec
-----------------------------------------------------------------------------
(***************************************************************************)
(* Complete audits: one event for each revision.                           *)
(***************************************************************************)
EventAt(c, r) == IF r = 1 THEN Registered(c) ELSE Event(cases[c].log[r - 1], r)

LEMMA EventsOfRevisions ==
    ASSUME NEW c, NEW n \in Nat \ {0}
    PROVE  /\ Complete(c, n) = {EventAt(c, r) : r \in 1..n}
           /\ \A r \in 1..n : EventAt(c, r).rev = r
<1>1. \A r \in 1..n : EventAt(c, r).rev = r
  BY DEF EventAt, Registered, Event
<1>2. \A r \in 2..n : EventAt(c, r) = Event(cases[c].log[r - 1], r) /\ r \in 1..n
  BY DEF EventAt
<1>3. EventAt(c, 1) = Registered(c) /\ 1 \in 1..n
  BY DEF EventAt
<1>4. \A r \in 1..n : r = 1 \/ r \in 2..n
  OBVIOUS
<1>5. {EventAt(c, r) : r \in 1..n} =
        {Registered(c)} \cup {Event(cases[c].log[r - 1], r) : r \in 2..n}
  <2>1. ASSUME NEW r \in 1..n
        PROVE  EventAt(c, r) \in
                 {Registered(c)} \cup {Event(cases[c].log[x - 1], x) : x \in 2..n}
    BY <1>2, <1>3, <1>4
  <2>2. ASSUME NEW e \in {Registered(c)}
                           \cup {Event(cases[c].log[x - 1], x) : x \in 2..n}
        PROVE  e \in {EventAt(c, r) : r \in 1..n}
    BY <1>2, <1>3
  <2>3. QED
    BY <2>1, <2>2
<1>6. QED
  BY <1>1, <1>5 DEF Complete

LEMMA EventsCounted ==
    ASSUME NEW c, NEW n \in Nat
    PROVE  Cardinality({EventAt(c, r) : r \in 1..n}) = n
<1> DEFINE S == {EventAt(c, r) : r \in 1..n}
           f == [r \in 1..n |-> EventAt(c, r)]
<1>1. \A r \in 1..n : EventAt(c, r).rev = r
  BY DEF EventAt, Registered, Event
<1>2. /\ f \in [1..n -> S]
      /\ \A a, b \in 1..n : f[a] = f[b] => a = b
      /\ \A e \in S : \E r \in 1..n : f[r] = e
  <2>1. \A r \in 1..n : f[r] = EventAt(c, r) /\ f[r] \in S
    OBVIOUS
  <2>2. \A a, b \in 1..n : f[a] = f[b] => a = b
    BY <1>1, <2>1
  <2>3. \A e \in S : \E r \in 1..n : f[r] = e
    BY <2>1
  <2>4. QED
    BY <2>1, <2>2, <2>3
<1> HIDE DEF S, f
<1>3. f \in Bijection(1..n, S)
  BY <1>2 DEF Bijection, Injection, Surjection, IsInjective
<1>4. ExistsBijection(1..n, S)
  BY <1>3 DEF ExistsBijection
<1>5. IsFiniteSet(1..n) /\ Cardinality(1..n) = n
  BY FS_Interval
<1>6. Cardinality(S) = n
  BY <1>4, <1>5, FS_Bijection
<1>7. QED
  BY <1>6 DEF S

(* The head after the first n events of a complete audit stands for the    *)
(* first n revisions.                                                      *)
LEMMA HeadOfComplete ==
    ASSUME NEW c, NEW s, NEW m \in Nat \ {0}, NEW n \in 1..m,
           Trail(s, c) = Complete(c, m)
    PROVE  HeadAt(s, c, n) = Complete(c, n)
<1> DEFINE T == Trail(s, c)
<1>1. /\ T = {EventAt(c, r) : r \in 1..m}
      /\ \A r \in 1..m : EventAt(c, r).rev = r
      /\ Complete(c, n) = {EventAt(c, r) : r \in 1..n}
  BY EventsOfRevisions
<1>2. Cardinality(T) = m
  BY <1>1, EventsCounted
<1>3. ASSUME NEW r \in 1..m
      PROVE  Cardinality({d \in T : d.rev < r}) = r - 1
  <2>1. {d \in T : d.rev < r} = {EventAt(c, x) : x \in 1..(r - 1)}
    BY <1>1
  <2>2. QED
    BY <2>1, EventsCounted
<1>4. {e \in T : Cardinality({d \in T : d.rev < e.rev}) < n}
        = {EventAt(c, r) : r \in 1..n}
  <2>1. ASSUME NEW e \in T
        PROVE  Cardinality({d \in T : d.rev < e.rev}) < n
                 <=> e \in {EventAt(c, r) : r \in 1..n}
    <3>1. PICK r \in 1..m : e = EventAt(c, r) /\ e.rev = r
      BY <1>1
    <3>2. Cardinality({d \in T : d.rev < e.rev}) = r - 1
      BY <1>3, <3>1
    <3>3. e \in {EventAt(c, x) : x \in 1..n} <=> r \in 1..n
      BY <1>1, <3>1
    <3>4. r - 1 < n <=> r \in 1..n
      OBVIOUS
    <3>5. QED
      BY <3>2, <3>3, <3>4
  <2>2. {EventAt(c, r) : r \in 1..n} \subseteq T
    BY <1>1
  <2>3. QED
    BY <2>1, <2>2
<1>5. ~(n > m)
  OBVIOUS
<1>6. QED
  BY <1>1, <1>2, <1>4, <1>5 DEF HeadAt

(* Where the audit records the case, Validate accepts what is complete and *)
(* has no transition its table lacks.                                      *)
LEMMA CompleteIsValidated ==
    ASSUME TypeOK, NEW s \in Seq(AuditEvent), Recorded(s, cases),
           NEW c \in Cases, NEW n \in Nat \ {0}, Trail(s, c) = Complete(c, n),
           ValidTransitions(s, c)
    PROVE  Validate(s, c, n)
<1>1. InOrder(s, c)
  <2>1. \A i \in Positions(s, c) : i \in DOMAIN s /\ s[i] # None /\ s[i].case = c
    BY NoneAssumption DEF Positions
  <2>2. QED
    BY <2>1 DEF InOrder, Recorded
<1>2. {e.rev : e \in Trail(s, c)} = 1..n
  <2>1. /\ Trail(s, c) = {EventAt(c, r) : r \in 1..n}
        /\ \A r \in 1..n : EventAt(c, r).rev = r
    BY EventsOfRevisions
  <2>2. \A e \in Trail(s, c) : e.rev \in 1..n
    BY <2>1
  <2>3. \A r \in 1..n : \E e \in Trail(s, c) : e.rev = r
    BY <2>1
  <2>4. QED
    BY <2>2, <2>3
<1>3. QED
  BY <1>1, <1>2 DEF Validate
-----------------------------------------------------------------------------
(***************************************************************************)
(* What handlers leave alone while readers look.                           *)
(***************************************************************************)
LEMMA TrailElsewhere ==
    ASSUME ServiceInv, NEW w \in Workers, Step(w), NEW c \in Cases,
           pc[w] # "audit" \/ req[w].case # c
    PROVE  /\ Trail(auditMem', c) = Trail(auditMem, c)
           /\ \A n : Validate(auditMem', c, n) <=> Validate(auditMem, c, n)
<1>1. CASE auditMem' = auditMem
  BY <1>1
<1>2. CASE AuditAppend(w)
  <2> DEFINE e == Event(req[w], copy[w].rev)
  <2>1. pc[w] = "audit" /\ auditMem' = Append(auditMem, e)
    BY <1>2 DEF AuditAppend
  <2>2. e \in AuditEvent /\ e.case # c
    BY <2>1, PendingEvent DEF ServiceInv
  <2> HIDE DEF e
  <2>3. auditMem \in Seq(AuditEvent)
    BY DEF ServiceInv, TypeOK
  <2>4. /\ DOMAIN auditMem' = (DOMAIN auditMem) \cup {Len(auditMem) + 1}
        /\ \A i \in DOMAIN auditMem : auditMem'[i] = auditMem[i]
        /\ auditMem'[Len(auditMem) + 1] = e
    BY <2>1, <2>2, <2>3, AppendDomain
  <2>5. /\ Positions(auditMem', c) = Positions(auditMem, c)
        /\ \A i \in Positions(auditMem, c) : auditMem'[i] = auditMem[i]
    BY <2>2, <2>4 DEF Positions
  <2>6. Trail(auditMem', c) = Trail(auditMem, c)
    BY <2>5 DEF Trail
  <2>7. InOrder(auditMem', c) <=> InOrder(auditMem, c)
    BY <2>5 DEF InOrder
  <2>8. QED
    BY <2>6, <2>7 DEF Validate, ValidTransitions
<1>3. QED
  BY <1>1, <1>2 DEF Step, LockCreateMu, CheckEvidence, LockCase, Lookup, Load,
                    Decide, Commit, AuditFail, auditVars

LEMMA CaseElsewhere ==
    ASSUME ServiceInv, NEW w \in Workers, Step(w), NEW c \in Cases,
           pc[w] # "commit" \/ req[w].case # c \/ cases[c].sealed
    PROVE  cases'[c] = cases[c]
<1>1. CASE cases' = cases
  BY <1>1
<1>2. CASE Commit(w) /\ ~Return(w)
  <2>1. /\ cases' = [cases EXCEPT ![req[w].case] = copy[w]]
        /\ ~cases[req[w].case].sealed /\ pc[w] = "commit"
    BY <1>2, CommitEffect DEF ServiceInv, JournalInv
  <2>2. QED
    BY <2>1 DEF ServiceInv, TypeOK
<1>3. CASE Commit(w) /\ Return(w)
  BY <1>1, <1>3 DEF Commit, Return, Goto, ServiceInv, TypeOK, storeVars
<1>4. CASE ~Commit(w)
  BY <1>1, <1>4 DEF Step, LockCreateMu, CheckEvidence, LockCase, Lookup, Load,
                    Decide, AuditAppend, AuditFail, storeVars
<1>5. QED
  BY <1>2, <1>3, <1>4

(* What nobody holds the mutex of stays as it is.                          *)
LEMMA UnlockedStaysPut ==
    ASSUME ServiceInv, NEW w \in Workers, Step(w), NEW c \in Cases,
           caseLock[c] = None
    PROVE  /\ cases'[c] = cases[c]
           /\ Trail(auditMem', c) = Trail(auditMem, c)
           /\ \A n : Validate(auditMem', c, n) <=> Validate(auditMem, c, n)
<1>1. pc[w] \notin {"commit", "audit"} \/ req[w].case # c
  BY NoneAssumption DEF ServiceInv, LockInv, LocksHeldInside, Inside
<1>2. QED
  BY <1>1, TrailElsewhere, CaseElsewhere

(* The complete audit of a sealed case stays complete: the only event that *)
(* was missing when the seal was committed is there.                       *)
LEMMA SealedStaysComplete ==
    ASSUME ServiceInv, NEW w \in Workers, Step(w), NEW c \in Cases,
           cases[c].sealed, Trail(auditMem, c) = Complete(c, cases[c].rev)
    PROVE  Trail(auditMem', c) = Complete(c, cases[c].rev)'
<1>1. cases'[c] = cases[c]
  BY CaseElsewhere
<1>2. Complete(c, cases[c].rev)' = Complete(c, cases[c].rev)
  BY <1>1 DEF Complete
<1>3. ASSUME pc[w] = "audit", req[w].case = c
      PROVE  FALSE
  <2> DEFINE n == cases[c].rev
             e == Event(cases[c].log[n - 1], n)
  <2>1. n \in Nat /\ n >= 2 /\ Before(auditMem, c, n)
    BY <1>3, PendingEvent DEF ServiceInv, Event
  <2>2. n \in 2..n
    BY <2>1
  <2>3. e \in Complete(c, n)
    BY <2>2 DEF Complete
  <2>4. e.rev = n /\ e # Registered(c)
    BY <2>1 DEF Event, Registered
  <2>5. PICK i \in Positions(auditMem, c) : e = auditMem[i]
    BY <2>3, <2>4 DEF Trail
  <2>6. i \in DOMAIN auditMem /\ auditMem[i].case = c /\ auditMem[i] # None
    BY <2>5, NoneAssumption DEF Positions, ServiceInv, TypeOK
  <2>7. n < n
    BY <2>1, <2>4, <2>5, <2>6 DEF Before
  <2>8. QED
    BY <2>1, <2>7
<1>4. QED
  BY <1>2, <1>3, TrailElsewhere

(* The same between steps: the chain of a stored case is accepted when it  *)
(* is complete and has no transition the table lacks, and only then.       *)
LEMMA AcceptedIsComplete ==
    ASSUME ServiceInv, NEW c \in Cases
    PROVE  /\ cases[c].rev \in Nat \ {0}
           /\ Validate(auditMem, c, cases[c].rev)
                <=> /\ Trail(auditMem, c) = Complete(c, cases[c].rev)
                    /\ Transitions(cases[c])
<1>1. /\ TypeOK /\ StoreInv /\ Recorded(auditMem, cases)
      /\ auditMem \in Seq(AuditEvent)
  BY DEF ServiceInv, JournalInv, AuditInv, RecordInv, TypeOK
<1>2. cases[c].rev \in Nat \ {0}
  BY <1>1 DEF TypeOK, Case, StoreInv, NoBlindUpdate
<1>3. Validate(auditMem, c, cases[c].rev) =>
        Trail(auditMem, c) = Complete(c, cases[c].rev)
  BY <1>1, ValidatedIsComplete
<1>4. Trail(auditMem, c) = Complete(c, cases[c].rev) =>
        (ValidTransitions(auditMem, c) <=> Transitions(cases[c]))
  BY <1>1, TransitionsOfEvents DEF ValidTransitions
<1>5. Validate(auditMem, c, cases[c].rev) => ValidTransitions(auditMem, c)
  BY DEF Validate
<1>6. QED
  BY <1>1, <1>2, <1>3, <1>4, <1>5, CompleteIsValidated
-----------------------------------------------------------------------------
(***************************************************************************)
(* What a reader has seen.  A sealed case is still as it was seen, and its *)
(* chain, once found complete, still is; a quiet reader has seen the case  *)
(* and the audit as they are.                                              *)
(***************************************************************************)
SeenOf(r) ==
    LET c == rreq[r].case
        case == seen[r].case
    IN  rpc[r] \in WithCase =>
          /\ case.sealed => cases[c] = case
          /\ rpc[r] = "anchor" => case.sealed
          /\ rpc[r] = "anchor" /\ seen[r].valid =>
               Trail(auditMem, c) = Complete(c, cases[c].rev)
          /\ rreq[r].kind \in {"MANIFEST", "SEARCH"} => seen[r].quiet
          /\ seen[r].quiet =>
               /\ cases[c] = case /\ caseLock[c] = None
               /\ rpc[r] = "anchor" =>
                    (seen[r].valid <=> Validate(auditMem, c, case.rev))
               /\ rreq[r].kind = "PREVIEW" /\ rpc[r] = "validate" =>
                    seen[r].head = Trail(auditMem, c)

SeenInv == \A r \in Readers : SeenOf(r)

LEMMA SeenFrame ==
    ASSUME NEW r \in Readers, SeenOf(r), UNCHANGED <<cases, auditMem, caseLock>>,
           rpc'[r] = rpc[r], rreq'[r] = rreq[r], seen'[r] = seen[r]
    PROVE  SeenOf(r)'
BY DEF SeenOf, Complete

(* A handler at work: sealed cases stay as they are, and so does the case  *)
(* of a quiet reader, as no handler is in it.                              *)
LEMMA SeenByHandler ==
    ASSUME ServiceInv, ReadTypeOK, ReadLockInv, NEW w \in Workers, Step(w),
           NEW r \in Readers, SeenOf(r),
           UNCHANGED <<readLock, rpc, rreq>>,
           seen'[r].case = seen[r].case, seen'[r].valid = seen[r].valid,
           seen'[r].head = seen[r].head,
           \/ seen'[r].quiet = seen[r].quiet /\ caseLock'[rreq[r].case] \in
                {None, caseLock[rreq[r].case]}
           \/ ~seen'[r].quiet /\ readLock[rreq[r].case] = None
    PROVE  SeenOf(r)'
<1> DEFINE c == rreq[r].case
           case == seen[r].case
<1> SUFFICES ASSUME rpc[r] \in WithCase PROVE SeenOf(r)'
  BY DEF SeenOf
<1>1. rpc[r] # "idle" /\ c \in Cases
  BY AtWork DEF WithCase
<1>2. case.sealed => cases'[c] = case
  BY <1>1, CaseElsewhere DEF SeenOf
<1>3. rpc[r] = "anchor" /\ seen[r].valid =>
        Trail(auditMem', c) = Complete(c, cases[c].rev)'
  BY <1>1, SealedStaysComplete DEF SeenOf
<1>4. rreq[r].kind \in {"MANIFEST", "SEARCH"} => seen'[r].quiet
  <2>1. rreq[r].kind \in {"MANIFEST", "SEARCH"} => HoldsMutex(r, c)
    BY <1>1, AtWork DEF HoldsMutex, WithCase
  <2>2. HoldsMutex(r, c) => readLock[c] # None
    BY <1>1, ReadsAssumption DEF ReadLockInv
  <2>3. QED
    BY <2>1, <2>2 DEF SeenOf
<1>5. ASSUME seen'[r].quiet
      PROVE  /\ cases'[c] = case /\ caseLock'[c] = None
             /\ Trail(auditMem', c) = Trail(auditMem, c)
             /\ \A n : Validate(auditMem', c, n) <=> Validate(auditMem, c, n)
  <2>1. seen[r].quiet /\ caseLock[c] = None /\ cases[c] = case
    BY <1>5 DEF SeenOf
  <2>2. QED
    BY <1>1, <1>5, <2>1, UnlockedStaysPut
<1>6. seen'[r].quiet => seen[r].quiet
  OBVIOUS
<1>7. QED
  BY <1>2, <1>3, <1>4, <1>5, <1>6 DEF SeenOf

(* A step of the reader itself.                                            *)
LEMMA SeenByReader ==
    ASSUME ServiceInv, ReadTypeOK, ReadLockInv, NEW r \in Readers,
           ReadStep(r), UNCHANGED vars, SeenOf(r)
    PROVE  SeenOf(r)'
<1> DEFINE c == rreq[r].case
           case == seen[r].case
<1>1. /\ rpc[r] # "idle" /\ c \in Cases /\ rreq[r].kind \in Kinds
      /\ seen[r] \in Seen /\ seen \in [Readers -> Seen] /\ rpc \in [Readers -> Places]
  <2>1. rpc[r] # "idle"
    BY DEF ReadStep, LockForRead, GetCase, ValidateChain, CompareAnchor,
           ReadHead, Preview, Search, LookupReport, LookupReportAgain,
           DryRun, SaveReport
  <2>2. QED
    BY <2>1, AtWork DEF ReadTypeOK
<1>2. UNCHANGED <<cases, auditMem, caseLock>>
  BY DEF vars, storeVars, lockVars, auditVars
<1>3. ASSUME NEW outcome, NEW events, Answer(r, outcome, events)
      PROVE  SeenOf(r)'
  BY <1>1, <1>3, AnswerEffect DEF SeenOf, WithCase
<1>4. ASSUME NEW label \in Places \ WithCase, Proceed(r, label)
      PROVE  SeenOf(r)'
  BY <1>4, ProceedEffect DEF SeenOf
<1>5. HoldsMutex(r, c) => caseLock[c] = None
  BY <1>1, ReadsAssumption DEF ReadLockInv
<1>6. CASE LockForRead(r)
  BY <1>4, <1>6 DEF LockForRead, Places, WithCase
<1>7. CASE GetCase(r)
  <2> DEFINE label == CASE rreq[r].kind = "PREVIEW" -> "head"
                        [] rreq[r].kind = "SEARCH"  -> "inspect"
                        [] OTHER -> "validate"
  <2>1. /\ rpc[r] = "get" /\ Proceed(r, label) /\ label \in Places
        /\ seen' = [seen EXCEPT ![r].case = cases[c], ![r].quiet = caseLock[c] = None]
    BY <1>7 DEF GetCase, Places
  <2>2. /\ rpc'[r] = label /\ rreq' = rreq
        /\ seen'[r].case = cases[c] /\ seen'[r].quiet = (caseLock[c] = None)
    BY <1>1, <2>1, ProceedEffect DEF Seen
  <2>3. rreq[r].kind \in {"MANIFEST", "SEARCH"} => HoldsMutex(r, c)
    BY <1>1, <2>1, AtWork DEF HoldsMutex
  <2>4. label # "anchor" /\ (rreq[r].kind = "PREVIEW" => label # "validate")
    OBVIOUS
  <2> HIDE DEF label
  <2>5. QED
    BY <1>2, <1>5, <2>2, <2>3, <2>4 DEF SeenOf
<1>8. CASE ValidateChain(r) /\ Proceed(r, "anchor")
  <2>1. /\ rpc[r] = "validate" /\ case.sealed
        /\ seen' = [seen EXCEPT ![r].valid = Validate(auditMem, c, case.rev)]
    BY <1>1, <1>8, ProceedEffect, AnswerEffect DEF ValidateChain, Places
  <2>2. /\ rpc'[r] = "anchor" /\ rreq' = rreq
        /\ seen'[r].case = case /\ seen'[r].quiet = seen[r].quiet
        /\ seen'[r].valid = Validate(auditMem, c, case.rev)
    BY <1>1, <1>8, <2>1, ProceedEffect DEF Seen, Places
  <2>3. cases[c] = case
    BY <2>1 DEF SeenOf, WithCase
  <2>4. seen'[r].valid => Trail(auditMem', c) = Complete(c, cases[c].rev)'
    BY <1>1, <1>2, <2>2, <2>3, AcceptedIsComplete DEF Complete
  <2>5. QED
    BY <1>2, <2>1, <2>2, <2>3, <2>4 DEF SeenOf, WithCase
<1>9. CASE ValidateChain(r) /\ ~Proceed(r, "anchor")
  BY <1>3, <1>9 DEF ValidateChain
<1>10. CASE CompareAnchor(r) \/ Preview(r) \/ Search(r)
  BY <1>3, <1>10 DEF CompareAnchor, Preview, Search
<1>11. CASE ReadHead(r)
  <2>1. /\ rpc[r] = "head" /\ Proceed(r, "validate")
        /\ seen' = [seen EXCEPT ![r].head = Trail(auditMem, c)]
    BY <1>11 DEF ReadHead
  <2>2. /\ rpc'[r] = "validate" /\ rreq' = rreq
        /\ seen'[r].case = case /\ seen'[r].quiet = seen[r].quiet
        /\ seen'[r].head = Trail(auditMem, c)
    BY <1>1, <2>1, ProceedEffect DEF Seen, Places
  <2>3. QED
    BY <1>2, <2>1, <2>2 DEF SeenOf, WithCase
<1>12. CASE LookupReport(r)
  BY <1>3, <1>4, <1>12, SavedReportAnswers DEF LookupReport, Places, WithCase
<1>13. CASE LookupReportAgain(r)
  <2>1. CASE \E outcome, events : Answer(r, outcome, events)
    BY <1>3, <2>1
  <2>2. CASE ~\E outcome, events : Answer(r, outcome, events)
    <3>1. /\ rpc[r] = "again" /\ Proceed(r, "check")
          /\ seen' = [seen EXCEPT ![r].case = cases[c]]
      BY <1>13, <2>2, SavedReportAnswers DEF LookupReportAgain, RefuseRead
    <3>2. /\ rpc'[r] = "check" /\ rreq' = rreq /\ seen'[r].case = cases[c]
      BY <1>1, <3>1, ProceedEffect DEF Seen, Places
    <3>3. rreq[r].kind = "DRYRUN" /\ HoldsMutex(r, c)
      BY <1>1, <3>1, Routes, AtWork DEF HoldsMutex
    <3>4. QED
      BY <1>2, <1>5, <3>2, <3>3 DEF SeenOf
  <2>3. QED
    BY <2>1, <2>2
<1>14. CASE DryRun(r)
  <2>1. PICK accepted \in BOOLEAN :
          seen' = [seen EXCEPT ![r].valid = accepted /\ ~EvidenceConflict(rreq[r])]
    BY <1>14 DEF DryRun
  <2>2. rpc[r] = "check" /\ Proceed(r, "save")
    BY <1>14 DEF DryRun
  <2>3. /\ rpc'[r] = "save" /\ rreq' = rreq
        /\ seen'[r].case = case /\ seen'[r].quiet = seen[r].quiet
    BY <1>1, <2>1, <2>2, ProceedEffect DEF Seen, Places
  <2>4. rreq[r].kind = "DRYRUN"
    BY <2>2, Routes
  <2>5. QED
    BY <1>2, <2>2, <2>3, <2>4 DEF SeenOf, WithCase
<1>15. CASE SaveReport(r)
  BY <1>3, <1>15 DEF SaveReport, ReportTo, RefuseRead
<1>16. QED
  BY <1>6, <1>7, <1>8, <1>9, <1>10, <1>11, <1>12, <1>13, <1>14, <1>15 DEF ReadStep

LEMMA SeenStep ==
    ServiceInv /\ ReadTypeOK /\ ReadLockInv /\ SeenInv /\ [ReadNext]_readVars
      => SeenInv'
<1> SUFFICES ASSUME ServiceInv, ReadTypeOK, ReadLockInv, SeenInv,
                    [ReadNext]_readVars, NEW r \in Readers
             PROVE  SeenOf(r)'
  BY DEF SeenInv
<1>1. SeenOf(r)
  BY DEF SeenInv
<1>2. ASSUME NEW w \in Workers, EnterCase(w)
      PROVE  SeenOf(r)'
  <2>1. Step(w) /\ LockCase(w) /\ UNCHANGED <<readLock, rpc, rreq>>
    BY <1>2 DEF EnterCase, Step
  <2>2. CASE rreq[r] # None /\ rreq[r].case = req[w].case
    <3>1. readLock[rreq[r].case] = None
      BY <1>2, <2>2 DEF EnterCase, FreeOfReaders
    <3>2. /\ seen'[r].case = seen[r].case /\ seen'[r].valid = seen[r].valid
          /\ seen'[r].head = seen[r].head /\ ~seen'[r].quiet
      BY <1>2, <2>2, EnterCaseSeen
    <3>3. QED
      BY <1>1, <2>1, <3>1, <3>2, SeenByHandler
  <2>3. CASE ~(rreq[r] # None /\ rreq[r].case = req[w].case)
    <3>1. seen'[r] = seen[r]
      BY <1>2, <2>3, EnterCaseSeen
    <3>2. CASE rpc[r] = "idle"
      BY <2>1, <3>2 DEF SeenOf, WithCase
    <3>3. CASE rpc[r] # "idle"
      <4>1. rreq[r].case # req[w].case /\ rreq[r].case \in Cases
        BY <2>3, <3>3, AtWork
      <4>2. caseLock'[rreq[r].case] = caseLock[rreq[r].case]
        BY <2>1, <4>1 DEF LockCase, ServiceInv, TypeOK
      <4>3. QED
        BY <1>1, <2>1, <3>1, <4>2, SeenByHandler
    <3>4. QED
      BY <3>2, <3>3
  <2>4. QED
    BY <2>2, <2>3
<1>3. ASSUME NEW w \in Workers, Step(w), pc[w] # "caseLock", ReadersWait
      PROVE  SeenOf(r)'
  <2>1. UNCHANGED <<readLock, rpc, rreq, seen>>
    BY <1>3 DEF ReadersWait
  <2>2. CASE rpc[r] = "idle"
    BY <2>1, <2>2 DEF SeenOf, WithCase
  <2>3. CASE rpc[r] # "idle"
    <3>1. caseLock'[rreq[r].case] \in {None, caseLock[rreq[r].case]}
      BY <1>3, <2>3, AtWork, CaseLockTaken DEF ServiceInv
    <3>2. QED
      BY <1>1, <1>3, <2>1, <3>1, SeenByHandler
  <2>4. QED
    BY <2>2, <2>3
<1>4. ASSUME NEW w \in Workers, NEW q \in Requests, Receive(w, q), ReadersWait
      PROVE  SeenOf(r)'
  BY <1>1, <1>4, SeenFrame DEF Receive, ReadersWait, storeVars, lockVars, auditVars
<1>5. ASSUME NEW p \in Readers, UNCHANGED vars, p # r,
             ReadStep(p) \/ \E q \in Reads : StartRead(p, q)
      PROVE  SeenOf(r)'
  BY <1>1, <1>5, OneReader, SeenFrame DEF vars, storeVars, lockVars, auditVars
<1>6. CASE ReadStep(r) /\ UNCHANGED vars
  BY <1>1, <1>6, SeenByReader
<1>7. ASSUME NEW q \in Reads, StartRead(r, q)
      PROVE  SeenOf(r)'
  <2>1. rpc'[r] = Entry(q) /\ Entry(q) \notin WithCase
    BY <1>7, ReadsAssumption DEF StartRead, ReadTypeOK, Entry, WithCase, Kinds
  <2>2. QED
    BY <2>1 DEF SeenOf
<1>8. CASE CrashAll
  BY <1>8 DEF CrashAll, SeenOf, WithCase
<1>9. CASE UNCHANGED readVars
  BY <1>1, <1>9, SeenFrame DEF readVars, readerVars, vars, storeVars, lockVars,
                               auditVars
<1>10. QED
  BY <1>2, <1>3, <1>4, <1>5, <1>6, <1>7, <1>8, <1>9 DEF ReadNext, HandlerStep

LEMMA SeenInvariant == ReadSpec => []SeenInv
<1>1. ReadInit => SeenInv
  BY DEF ReadInit, SeenInv, SeenOf, WithCase
<1>2. QED
  BY <1>1, SeenStep, ServiceInvariant, ReadTypes, PTL DEF ReadSpec
-----------------------------------------------------------------------------
(***************************************************************************)
(* Answers.  A step that leaves an answer is one of these, at which        *)
(* nothing but the reader changes.                                         *)
(***************************************************************************)
Answering(r, outcome, events) ==
    /\ reply' = [read |-> rreq[r], quiet |-> seen[r].quiet,
                 outcome |-> outcome, events |-> events]
    /\ rreq[r].case \in Cases
    /\ UNCHANGED vars
    /\ \/ /\ rpc[r] = "validate" /\ outcome = "UNAVAILABLE"
          /\ ~seen[r].case.sealed
       \/ /\ rpc[r] = "anchor"
          /\ outcome = IF Anchored(r) THEN "VALID" ELSE "INVALID"
       \/ /\ rpc[r] = "validate" /\ rreq[r].kind = "PREVIEW"
          /\ outcome = "SEALABLE" /\ Continuous(r) /\ events = seen[r].head
       \/ /\ rpc[r] = "inspect"
          /\ events = Trail(Persisted(auditFile), rreq[r].case)
          /\ outcome = IF Intact(rreq[r].case, seen[r].case)
                       THEN "VERIFIED" ELSE "INTEGRITY_ERROR"
       \/ /\ rreq[r].kind \in {"PREVIEW", "DRYRUN"}
          /\ outcome \in {"BLOCKED", "REPORT", "REFUSED"}

LEMMA AnswersAre ==
    ASSUME ReadTypeOK, [ReadNext]_readVars, reply' # None, ~UNCHANGED readVars
    PROVE  \E r \in Readers : \E outcome, events : Answering(r, outcome, events)
<1>1. PICK r \in Readers : ReadStep(r) /\ UNCHANGED vars
  BY DEF ReadNext, HandlerStep, EnterCase, ReadersWait, StartRead, CrashAll
<1>2. rpc[r] # "idle"
  BY <1>1 DEF ReadStep, LockForRead, GetCase, ValidateChain, CompareAnchor,
              ReadHead, Preview, Search, LookupReport, LookupReportAgain,
              DryRun, SaveReport
<1>3. rreq[r].case \in Cases
  BY <1>2, AtWork
<1>4. ~\E label : Proceed(r, label)
  BY DEF Proceed
<1>5. CASE ValidateChain(r)
  BY <1>1, <1>3, <1>4, <1>5 DEF ValidateChain, Answer, Answering
<1>6. CASE CompareAnchor(r)
  BY <1>1, <1>3, <1>6 DEF CompareAnchor, Answer, Answering
<1>7. CASE Preview(r)
  BY <1>1, <1>3, <1>7 DEF Preview, Answer, Answering
<1>8. CASE Search(r)
  BY <1>1, <1>3, <1>8 DEF Search, Answer, Answering
<1>9. ASSUME ReturnSavedReport(r) \/ RefuseRead(r) \/ \E x : ReportTo(r, x),
             rreq[r].kind = "DRYRUN"
      PROVE  \E outcome, events : Answering(r, outcome, events)
  BY <1>1, <1>3, <1>9 DEF ReturnSavedReport, RefuseRead, ReportTo, Answer, Answering
<1>10. CASE LookupReport(r) \/ LookupReportAgain(r) \/ SaveReport(r)
  <2>1. rreq[r].kind = "DRYRUN"
    BY <1>10, Routes DEF LookupReport, LookupReportAgain, SaveReport
  <2>2. QED
    BY <1>4, <1>9, <1>10, <2>1 DEF LookupReport, LookupReportAgain, SaveReport
<1>11. QED
  BY <1>1, <1>4, <1>5, <1>6, <1>7, <1>8, <1>10
     DEF ReadStep, LockForRead, GetCase, ReadHead, DryRun

(* Where every line is whole, the lines are the events a restart decodes.  *)
LEMMA ReadableFile ==
    ASSUME TypeOK, ~Unreadable(auditFile)
    PROVE  /\ Persisted(auditFile) = Written(auditFile)
           /\ Written(auditFile) \in Seq(AuditEvent)
           /\ \A n \in Decodable(auditFile) : Replay(auditFile, n) = Written(auditFile)
<1> DEFINE file == auditFile
           m == Len(file)
<1>1. /\ file \in Seq(Line) /\ m \in Nat /\ DOMAIN file = 1..m
      /\ \A i \in 1..m : file[i].event \in AuditEvent /\ file[i].event # None
      /\ \A i \in DOMAIN file : WholeLine(file, i)
  <2>1. file \in Seq(Line) /\ m \in Nat /\ DOMAIN file = 1..m
    BY DEF TypeOK
  <2>2. \A i \in DOMAIN file : WholeLine(file, i)
    BY DEF Unreadable
  <2>3. \A i \in 1..m : file[i] \in Line /\ file[i].event # None
    BY <2>1, <2>2 DEF WholeLine
  <2>4. QED
    BY <2>1, <2>2, <2>3 DEF Line
<1>2. Persisted(file) = Written(file)
  BY <1>1 DEF Persisted, Written
<1>3. Written(file) = [i \in 1..m |-> file[i].event]
  BY <1>1 DEF Written
<1>4. Written(file) \in Seq(AuditEvent)
  BY <1>1, <1>3
<1>5. ASSUME NEW n \in Decodable(file)
      PROVE  Replay(file, n) = Written(file)
  <2>1. n \in 0..m /\ (n < m => file[n + 1].event = None)
    BY DEF Decodable
  <2> HIDE DEF m
  <2>2. n < m => n + 1 \in 1..m
    BY <1>1, <2>1
  <2>3. n = m
    BY <1>1, <2>1, <2>2
  <2>4. QED
    BY <1>3, <2>3 DEF Replay
<1>6. QED
  BY <1>2, <1>4, <1>5

(* The seal anchors what HeadAt finds in a complete audit.                 *)
LEMMA AnchorIsHead ==
    ASSUME ServiceInv, NEW c \in Cases, cases[c].sealed,
           NEW s, Trail(s, c) = Complete(c, cases[c].rev)
    PROVE  HeadAt(s, c, cases[c].rev - 1) = cases[c].anchor
<1>1. cases[c].rev \in Nat \ {0} /\ cases[c].rev > 1
  BY AcceptedIsComplete DEF ServiceInv, SealedIsValidated
<1>2. cases[c].rev - 1 \in 1..cases[c].rev
  BY <1>1
<1>3. HeadAt(s, c, cases[c].rev - 1) = Complete(c, cases[c].rev - 1)
  BY <1>1, <1>2, HeadOfComplete
<1>4. QED
  BY <1>3 DEF ServiceInv, AnchorInv, SealedOverCompleteAudit

LEMMA ValidIsTrue ==
    ASSUME ServiceInv, SeenInv, NEW r \in Readers, rreq[r].case \in Cases,
           rpc[r] = "anchor", Anchored(r)
    PROVE  LET c == rreq[r].case
           IN  /\ cases[c].sealed /\ AuditIsComplete(c)
               /\ cases[c].anchor = Complete(c, cases[c].rev - 1)
BY DEF SeenInv, SeenOf, WithCase, Anchored, AuditIsComplete, ServiceInv, AnchorInv,
       SealedOverCompleteAudit

LEMMA InvalidIsTrue ==
    ASSUME ServiceInv, SeenInv, NEW r \in Readers, rreq[r].case \in Cases,
           rpc[r] = "anchor", ~Anchored(r), seen[r].quiet
    PROVE  cases[rreq[r].case].sealed /\ ~AuditIsComplete(rreq[r].case)
<1> DEFINE c == rreq[r].case
<1>1. /\ cases[c] = seen[r].case /\ cases[c].sealed
      /\ seen[r].valid <=> Validate(auditMem, c, cases[c].rev)
  BY DEF SeenInv, SeenOf, WithCase
<1>2. ASSUME AuditIsComplete(c)
      PROVE  FALSE
  <2>1. seen[r].valid
    BY <1>1, <1>2, AcceptedIsComplete
       DEF AuditIsComplete, ServiceInv, SealedIsValidated
  <2>2. HeadAt(auditMem, c, cases[c].rev - 1) = cases[c].anchor
    BY <1>1, <1>2, AnchorIsHead DEF AuditIsComplete
  <2>3. QED
    BY <1>1, <2>1, <2>2 DEF Anchored
<1>3. QED
  BY <1>1, <1>2

LEMMA VerifiedIsTrue ==
    ASSUME ServiceInv, ReadTypeOK, SeenInv, NEW r \in Readers,
           rreq[r].case \in Cases, rpc[r] = "inspect",
           Intact(rreq[r].case, seen[r].case)
    PROVE  LET c == rreq[r].case
               events == Trail(Persisted(auditFile), c)
           IN  /\ events = Complete(c, cases[c].rev)
               /\ \A n \in Decodable(auditFile) :
                    Trail(Replay(auditFile, n), c) = events
<1> DEFINE c == rreq[r].case
<1>1. cases[c] = seen[r].case
  BY Routes DEF SeenInv, SeenOf, WithCase
<1>2. /\ ~Unreadable(auditFile)
      /\ Validate(Persisted(auditFile), c, cases[c].rev)
  BY <1>1 DEF Intact
<1>3. /\ Persisted(auditFile) = Written(auditFile)
      /\ Written(auditFile) \in Seq(AuditEvent)
      /\ \A n \in Decodable(auditFile) : Replay(auditFile, n) = Written(auditFile)
  BY <1>2, ReadableFile DEF ServiceInv
<1>4. Recorded(Written(auditFile), cases) /\ TypeOK /\ StoreInv
  BY DEF ServiceInv, AuditInv, RecordInv, JournalInv
<1>5. Trail(Written(auditFile), c) = Complete(c, cases[c].rev)
  BY <1>2, <1>3, <1>4, ValidatedIsComplete
<1>6. QED
  BY <1>3, <1>5

(* Until an append fails or the process stops, whoever has the case to     *)
(* himself finds its audit complete.                                       *)
LEMMA QuietIsComplete ==
    ASSUME ServiceInv, SeenInv, NEW r \in Readers, rreq[r].case \in Cases,
           rpc[r] \in WithCase, seen[r].quiet, crashes = 0, auditFaults = 0
    PROVE  AuditIsComplete(rreq[r].case) /\ cases[rreq[r].case] = seen[r].case
<1> DEFINE c == rreq[r].case
<1>1. caseLock[c] = None /\ cases[c] = seen[r].case
  BY DEF SeenInv, SeenOf
<1>2. ~Auditing(c)
  BY <1>1, NoneAssumption DEF Auditing, ServiceInv, LockInv, LocksHeldInside, Inside
<1>3. QED
  BY <1>1, <1>2 DEF ServiceInv, AuditInv, GapInv, AuditIsComplete

(* Then all a search can find is a transition the table lacks.             *)
LEMMA IntactUntilFault ==
    ASSUME ServiceInv, SeenInv, ReadTypeOK, NEW r \in Readers,
           rreq[r].case \in Cases, rpc[r] = "inspect", crashes = 0, auditFaults = 0
    PROVE  Intact(rreq[r].case, seen[r].case) <=> Transitions(cases[rreq[r].case])
<1> DEFINE c == rreq[r].case
<1>1. seen[r].quiet
  BY Routes DEF SeenInv, SeenOf, WithCase
<1>2. cases[c] = seen[r].case /\ Trail(auditMem, c) = Complete(c, cases[c].rev)
  BY <1>1, QuietIsComplete DEF WithCase, AuditIsComplete
<1>3. /\ auditMem \in Seq(AuditEvent) /\ TypeOK
      /\ auditFile = [i \in DOMAIN auditMem |-> Piece(auditMem[i])]
  BY NoneAssumption DEF ServiceInv, TypeOK, AuditInv, FileInv
<1>4. /\ DOMAIN auditFile = DOMAIN auditMem
      /\ \A i \in DOMAIN auditFile :
           /\ auditFile[i].event = auditMem[i] /\ auditFile[i].newline
           /\ auditMem[i] # None
  BY <1>3, NoneAssumption DEF Piece
<1>5. ~Unreadable(auditFile)
  <2> DEFINE m == Len(auditFile)
  <2>1. m \in Nat /\ DOMAIN auditFile = 1..m
    BY <1>3 DEF TypeOK
  <2> HIDE DEF m
  <2>2. ASSUME NEW i \in DOMAIN auditFile
        PROVE  /\ auditFile[i].event # None
               /\ i > 1 => i - 1 \in DOMAIN auditFile
    BY <1>4, <2>1, <2>2
  <2>3. QED
    BY <1>4, <2>2 DEF Unreadable, WholeLine
<1>6. Persisted(auditFile) = auditMem
  <2>1. Persisted(auditFile) = [i \in DOMAIN auditMem |-> auditMem[i]]
    BY <1>4, <1>5 DEF Persisted, Unreadable
  <2>2. QED
    BY <1>3, <2>1
<1>7. Validate(auditMem, c, cases[c].rev) <=> Transitions(cases[c])
  BY <1>2, AcceptedIsComplete
<1>8. cases[c].sealed => HeadAt(auditMem, c, cases[c].rev - 1) = cases[c].anchor
  BY <1>2, AnchorIsHead
<1>9. QED
  BY <1>2, <1>5, <1>6, <1>7, <1>8 DEF Intact

(* The invariants primed: at an answer nothing of the service changes.     *)
LEMMA TruthsStay ==
    ASSUME UNCHANGED vars
    PROVE  /\ \A c \in Cases : \A n : Complete(c, n)' = Complete(c, n)
           /\ \A c \in Cases : AuditIsComplete(c)' <=> AuditIsComplete(c)
           /\ UNCHANGED <<cases, auditMem, auditFile, crashes, auditFaults>>
BY DEF vars, storeVars, auditVars, faultVars, Complete, AuditIsComplete

(* A manifest called valid, and a page of the audit called verified, are   *)
(* of a complete audit, whatever has failed and whoever was at work        *)
(* between the steps of the reader.                                        *)
THEOREM WhatReadersVerifyIsComplete == ReadSpec => []VerifiedMeansComplete
<1>1. ReadInit => VerifiedMeansComplete
  BY DEF ReadInit, VerifiedMeansComplete
<1>2. ServiceInv /\ ReadTypeOK /\ SeenInv /\ VerifiedMeansComplete
        /\ [ReadNext]_readVars => VerifiedMeansComplete'
  <2> SUFFICES ASSUME ServiceInv, ReadTypeOK, SeenInv, VerifiedMeansComplete,
                      [ReadNext]_readVars, reply' # None
               PROVE  VerifiedMeansComplete'
    BY DEF VerifiedMeansComplete
  <2>1. CASE UNCHANGED readVars
    BY <2>1, TruthsStay DEF readVars, readerVars, vars, storeVars, auditVars,
                            VerifiedMeansComplete, AuditIsComplete, Complete
  <2>2. CASE ~UNCHANGED readVars
    <3>0. PICK r \in Readers : \E outcome, events : Answering(r, outcome, events)
      BY <2>2, AnswersAre
    <3>1. PICK outcome, events : Answering(r, outcome, events)
      BY <3>0
    <3> DEFINE c == rreq[r].case
    <3>2. /\ c \in Cases /\ reply'.read = rreq[r] /\ reply'.outcome = outcome
          /\ reply'.events = events /\ UNCHANGED vars
      BY <3>1 DEF Answering
    <3>3. CASE outcome = "VALID"
      <4>1. rpc[r] = "anchor" /\ Anchored(r)
        BY <3>1, <3>3 DEF Answering
      <4>2. /\ cases[c].sealed /\ AuditIsComplete(c)
            /\ cases[c].anchor = Complete(c, cases[c].rev - 1)
        BY <3>2, <4>1, ValidIsTrue
      <4>3. QED
        BY <3>2, <3>3, <4>2, TruthsStay
           DEF VerifiedMeansComplete, AuditIsComplete, Complete
    <3>4. CASE outcome = "VERIFIED"
      <4>1. /\ rpc[r] = "inspect" /\ Intact(c, seen[r].case)
            /\ events = Trail(Persisted(auditFile), c)
        BY <3>1, <3>4 DEF Answering
      <4>2. /\ events = Complete(c, cases[c].rev)
            /\ \A n \in Decodable(auditFile) :
                 Trail(Replay(auditFile, n), c) = events
        BY <3>2, <4>1, VerifiedIsTrue
      <4>3. QED
        BY <3>2, <3>4, <4>2, TruthsStay DEF VerifiedMeansComplete, Complete
    <3>5. CASE outcome \notin {"VALID", "VERIFIED"}
      BY <3>2, <3>5 DEF VerifiedMeansComplete
    <3>6. QED
      BY <3>3, <3>4, <3>5
  <2>3. QED
    BY <2>1, <2>2
<1>3. QED
  BY <1>1, <1>2, ServiceInvariant, ReadTypes, SeenInvariant, PTL DEF ReadSpec

(* A reader no handler has overlapped tells the truth, in both directions: *)
(* valid or not, sealed or not, and where a candidate is anchored.         *)
THEOREM QuietReadersTellTheTruth == ReadSpec => []QuietReadsAreExact
<1>1. ReadInit => QuietReadsAreExact
  BY DEF ReadInit, QuietReadsAreExact
<1>2. ServiceInv /\ ReadTypeOK /\ SeenInv /\ QuietReadsAreExact
        /\ [ReadNext]_readVars => QuietReadsAreExact'
  <2> SUFFICES ASSUME ServiceInv, ReadTypeOK, SeenInv, QuietReadsAreExact,
                      [ReadNext]_readVars, reply' # None, reply'.quiet
               PROVE  QuietReadsAreExact'
    BY DEF QuietReadsAreExact
  <2>1. CASE UNCHANGED readVars
    BY <2>1, TruthsStay DEF readVars, readerVars, vars, storeVars, auditVars,
                            QuietReadsAreExact, AuditIsComplete, Complete
  <2>2. CASE ~UNCHANGED readVars
    <3>0. PICK r \in Readers : \E outcome, events : Answering(r, outcome, events)
      BY <2>2, AnswersAre
    <3>1. PICK outcome, events : Answering(r, outcome, events)
      BY <3>0
    <3> DEFINE c == rreq[r].case
    <3>2. /\ c \in Cases /\ reply'.read = rreq[r] /\ reply'.outcome = outcome
          /\ reply'.events = events /\ UNCHANGED vars /\ seen[r].quiet
      BY <3>1 DEF Answering
    <3>3. rpc[r] \in WithCase => cases[c] = seen[r].case
      BY <3>2 DEF SeenInv, SeenOf
    <3>4. CASE outcome = "VALID"
      <4>1. cases[c].sealed /\ AuditIsComplete(c)
        BY <3>1, <3>2, <3>4, ValidIsTrue DEF Answering
      <4>2. QED
        BY <3>2, <3>4, <4>1, TruthsStay DEF QuietReadsAreExact
    <3>5. CASE outcome = "INVALID"
      <4>1. cases[c].sealed /\ ~AuditIsComplete(c)
        BY <3>1, <3>2, <3>5, InvalidIsTrue DEF Answering
      <4>2. QED
        BY <3>2, <3>5, <4>1, TruthsStay DEF QuietReadsAreExact
    <3>6. CASE outcome = "UNAVAILABLE"
      <4>1. ~cases[c].sealed
        BY <3>1, <3>3, <3>6 DEF Answering, WithCase
      <4>2. QED
        BY <3>2, <3>6, <4>1, TruthsStay DEF QuietReadsAreExact
    <3>7. CASE outcome = "SEALABLE"
      <4>1. /\ rpc[r] = "validate" /\ rreq[r].kind = "PREVIEW"
            /\ Continuous(r) /\ events = seen[r].head
        BY <3>1, <3>7 DEF Answering
      <4>2. /\ Validate(auditMem, c, cases[c].rev)
            /\ events = Trail(auditMem, c)
        BY <3>2, <3>3, <4>1 DEF Continuous, SeenInv, SeenOf, WithCase
      <4>3. events = Complete(c, cases[c].rev)
        BY <3>2, <4>2, AcceptedIsComplete
      <4>4. QED
        BY <3>2, <3>7, <4>3, TruthsStay DEF QuietReadsAreExact, Complete
    <3>8. CASE outcome \notin {"VALID", "INVALID", "UNAVAILABLE", "SEALABLE"}
      BY <3>2, <3>8 DEF QuietReadsAreExact
    <3>9. QED
      BY <3>4, <3>5, <3>6, <3>7, <3>8
  <2>3. QED
    BY <2>1, <2>2
<1>3. QED
  BY <1>1, <1>2, ServiceInvariant, ReadTypes, SeenInvariant, PTL DEF ReadSpec

(* Until an append fails or the process stops, a reader that holds the     *)
(* mutex of its case reports the transition the table lacks, where there   *)
(* is one, and nothing else.                                               *)
THEOREM LockedReadersReportExactly == ReadSpec => []LockedReadersAreExact
<1>1. ReadInit => LockedReadersAreExact
  BY DEF ReadInit, LockedReadersAreExact
<1>2. ServiceInv /\ ReadTypeOK /\ SeenInv /\ LockedReadersAreExact
        /\ [ReadNext]_readVars => LockedReadersAreExact'
  <2> SUFFICES ASSUME ServiceInv, ReadTypeOK, SeenInv, LockedReadersAreExact,
                      [ReadNext]_readVars, reply' # None
               PROVE  LockedReadersAreExact'
    BY DEF LockedReadersAreExact
  <2>1. CASE UNCHANGED readVars
    <3>1. UNCHANGED <<vars, reply>>
      BY <2>1 DEF readVars, readerVars
    <3>2. UNCHANGED <<cases, crashes, auditFaults>>
      BY <3>1, TruthsStay
    <3>3. QED
      BY <3>1, <3>2 DEF LockedReadersAreExact, Complete
  <2>2. CASE ~UNCHANGED readVars
    <3>0. PICK r \in Readers : \E outcome, events : Answering(r, outcome, events)
      BY <2>2, AnswersAre
    <3>1. PICK outcome, events : Answering(r, outcome, events)
      BY <3>0
    <3> DEFINE c == rreq[r].case
    <3>2. /\ c \in Cases /\ reply'.read = rreq[r] /\ reply'.outcome = outcome
          /\ UNCHANGED vars
      BY <3>1 DEF Answering
    <3>3. ASSUME crashes = 0, auditFaults = 0, rreq[r].kind = "SEARCH"
          PROVE  outcome = "INTEGRITY_ERROR" <=>
                   \E e \in Complete(c, cases[c].rev) : e.op = "REAUTHORIZE"
      <4>1. /\ rpc[r] = "inspect"
            /\ outcome = IF Intact(c, seen[r].case)
                         THEN "VERIFIED" ELSE "INTEGRITY_ERROR"
        BY <3>1, <3>3, Routes DEF Answering
      <4>2. Intact(c, seen[r].case) <=> Transitions(cases[c])
        BY <3>2, <3>3, <4>1, IntactUntilFault
      <4>3. QED
        BY <3>2, <4>1, <4>2, TransitionsOfEvents DEF ServiceInv, JournalInv
    <3>4. ASSUME crashes = 0, auditFaults = 0, outcome = "INVALID",
                 rreq[r].kind = "MANIFEST"
          PROVE  FALSE
      <4>1. rpc[r] = "anchor" /\ ~Anchored(r)
        BY <3>1, <3>4 DEF Answering
      <4>2. seen[r].quiet
        BY <3>4, <4>1 DEF SeenInv, SeenOf, WithCase
      <4>3. ~AuditIsComplete(c)
        BY <3>2, <4>1, <4>2, InvalidIsTrue
      <4>4. QED
        BY <3>2, <3>4, <4>1, <4>2, <4>3, QuietIsComplete DEF WithCase
    <3>5. QED
      BY <3>2, <3>3, <3>4, TruthsStay DEF LockedReadersAreExact
  <2>3. QED
    BY <2>1, <2>2
<1>3. QED
  BY <1>1, <1>2, ServiceInvariant, ReadTypes, SeenInvariant, PTL DEF ReadSpec
=============================================================================
