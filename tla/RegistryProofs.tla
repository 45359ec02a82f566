--------------------------- MODULE RegistryProofs ---------------------------
(***************************************************************************)
(* Proofs about Registry for all identifiers, requests and workers, and    *)
(* any number of restarts and failed appends.                              *)
(***************************************************************************)
EXTENDS Registry, FunctionTheorems, FiniteSetTheorems, SequenceTheorems, TLAPS

(***************************************************************************)
(* Types.                                                                  *)
(***************************************************************************)
Case == [item : Items, key : Keys, index : Nat, rev : {1, 2}]

Verdicts == {"ok", "conflict", "invalid"}

Events == [type : {"REGISTERED", "ASSESSED"}, case : Nat]

Places == {"idle", "createMu", "lookup", "check", "commit", "append"}

TypeInv ==
    /\ cases \in Seq(Case)
    /\ idem \in [Keys -> Receipt \cup {None}]
    /\ createMu \in Workers \cup {None}
    /\ pc \in [Workers -> Places]
    /\ req \in [Workers -> Requests \cup {None}]
    /\ verdicts \in [Workers -> Seq(Verdicts)]
    /\ result \in [Workers -> Seq(Entry)]
    /\ pending \in [Workers -> Seq(Events)]
    /\ audit \in Seq(Events)
    /\ answered \subseteq Receipt
    /\ crashes \in Nat /\ auditFaults \in Nat

(***************************************************************************)
(* The mutex.                                                              *)
(***************************************************************************)
Registers(w) == req[w] # None /\ req[w].kind # "PREFLIGHT"

Inside(w) ==
    Registers(w) /\ pc[w] \in {"lookup", "check", "commit", "append"}

(* A registration holds createMu exactly inside the handler; the request,  *)
(* the verdicts and the events of a worker are those of the place it is at.*)
WorkerOK(w) ==
    /\ Inside(w) <=> createMu = w
    /\ pc[w] = "idle" => req[w] = None
    /\ pc[w] \in {"createMu", "lookup", "check", "commit"} => req[w] # None
    /\ pc[w] \in {"createMu", "append"} /\ req[w] # None => Registers(w)
    /\ pc[w] # "append" => pending[w] = <<>>
    /\ pc[w] \notin {"check", "commit", "append"} => verdicts[w] = <<>>
    /\ pc[w] \in {"check", "commit"} => Len(verdicts[w]) =< Len(req[w].items)

LockInv == \A w \in Workers : WorkerOK(w)

(***************************************************************************)
(* What is stored, and what a worker knows of it.                          *)
(***************************************************************************)
Created(r) == {i \in DOMAIN r : r[i].status = "created"}

(* Every receipt is kept under the key of its request, dry runs create     *)
(* nothing, and a case is of an item its receipt tells of.                 *)
ReceiptsAreOwn ==
    /\ \A k \in Keys : idem[k] # None =>
         /\ Key(idem[k].request) = k
         /\ idem[k].request.kind = "PREFLIGHT" => Created(idem[k].result) = {}
    /\ \A n \in DOMAIN cases :
         cases[n].index \in DOMAIN idem[cases[n].key].result

(* What a client was told is what is stored.                               *)
AnswersAreStored ==
    \A a \in answered :
        a.request.kind # "PREFLIGHT" => a = idem[Key(a.request)]

(* What a registration has found out is still true: nobody has used its    *)
(* key, no case has taken an identifier of an item that is to be created.  *)
Informed(w) ==
    /\ pc[w] \in {"check", "commit"} /\ Registers(w) =>
         /\ idem[Key(req[w])] = None
         /\ \A i \in DOMAIN verdicts[w] : verdicts[w][i] = "ok" =>
              /\ BatchVerdict(req[w].items, i) = "ok"
              /\ ~Taken(req[w].items[i])
    /\ pc[w] = "append" /\ Registers(w) =>
         idem[Key(req[w])] = [request |-> req[w], result |-> result[w]]

StoreInv ==
    /\ IdentifiersUnique /\ ReceiptsMatchCases
    /\ ReceiptsAreOwn /\ AnswersAreStored
    /\ \A w \in Workers : Informed(w)

(***************************************************************************)
(* The audit.                                                              *)
(***************************************************************************)
(* An event is of a case there is, and an assessment of one assessed.      *)
EventOK(stored, e) ==
    /\ e.case \in DOMAIN stored
    /\ e.type = "ASSESSED" => stored[e.case].rev = 2

(* No event is in two places: in the audit, or in the hands of a worker.   *)
AuditInv ==
    /\ \A i \in DOMAIN audit : EventOK(cases, audit[i])
    /\ \A w \in Workers : \A i \in DOMAIN pending[w] : EventOK(cases, pending[w][i])
    /\ \A i, j \in DOMAIN audit : audit[i] = audit[j] => i = j
    /\ \A w \in Workers : \A i, j \in DOMAIN pending[w] :
         pending[w][i] = pending[w][j] => i = j
    /\ \A w \in Workers : \A i \in DOMAIN pending[w], j \in DOMAIN audit :
         pending[w][i] # audit[j]
    /\ \A v, w \in Workers : v # w =>
         \A i \in DOMAIN pending[v], j \in DOMAIN pending[w] :
           pending[v][i] # pending[w][j]

RegistryInv == TypeInv /\ LockInv /\ StoreInv /\ AuditInv

-----------------------------------------------------------------------------
(***************************************************************************)
(* The operators the model is built from.                                  *)
(***************************************************************************)
LEMMA RequestFacts ==
    ASSUME NEW q \in Requests
    PROVE  /\ q.kind \in Kinds /\ q.items \in Seq(Items) /\ q.items # <<>>
           /\ Key(q) \in Keys /\ q # None
           /\ \A p \in Requests : Key(p) = Key(q) =>
                (p.kind = "PREFLIGHT" <=> q.kind = "PREFLIGHT")
<1>1. \A p \in Requests : p.kind \in Kinds
  BY RequestsAssumption
<1>2. \A p \in Requests :
        Key(p)[1] = "preflight" <=> p.kind = "PREFLIGHT"
  BY <1>1 DEF Key, Kinds
<1>3. QED
  BY <1>2, RequestsAssumption, NoneAssumption DEF Keys

(* The ranks of the members of a finite set of numbers are the numbers     *)
(* from one to its size, each the rank of one member.                      *)
LEMMA Ranks ==
    ASSUME NEW S \in SUBSET Nat, IsFiniteSet(S)
    PROVE  LET Rank(i) == Cardinality({j \in S : j =< i})
           IN  /\ \A i \in S : Rank(i) \in 1..Cardinality(S)
               /\ \A i, j \in S : Rank(i) = Rank(j) => i = j
               /\ \A n \in 1..Cardinality(S) : \E i \in S : Rank(i) = n
<1> DEFINE Upto(i) == {j \in S : j =< i}
           Rank(i) == Cardinality(Upto(i))
           rank == [i \in S |-> Rank(i)]
           N == Cardinality(S)
<1>1. N \in Nat /\ \A i \in S : i \in Nat
  BY FS_CardinalityType
<1>2. ASSUME NEW i \in S
      PROVE  IsFiniteSet(Upto(i)) /\ Rank(i) \in 1..N
  <2>1. Upto(i) \in SUBSET S /\ Upto(i) # {}
    BY <1>1
  <2> HIDE DEF Upto
  <2>2. IsFiniteSet(Upto(i)) /\ Rank(i) =< N
    BY <2>1, FS_Subset
  <2>3. Rank(i) \in Nat /\ Rank(i) # 0
    BY <2>1, <2>2, FS_CardinalityType, FS_EmptySet
  <2>4. QED
    BY <1>1, <2>2, <2>3
<1>3. ASSUME NEW i \in S, NEW j \in S, i < j
      PROVE  Rank(i) # Rank(j)
  <2>1. i \in Nat /\ j \in Nat
    BY <1>1
  <2>2. Upto(i) \in SUBSET Upto(j) /\ j \in Upto(j) /\ j \notin Upto(i)
    <3>1. \A k \in Nat : k =< i => k =< j
      BY <1>3, <2>1
    <3>2. ~(j =< i) /\ j =< j
      BY <1>3, <2>1
    <3>3. QED
      BY <1>1, <3>1, <3>2
  <2>3. IsFiniteSet(Upto(j))
    BY <1>2
  <2> HIDE DEF Upto
  <2>4. QED
    BY <2>2, <2>3, FS_Subset
<1> HIDE DEF Upto, N
<1>4. \A i, j \in S : Rank(i) = Rank(j) => i = j
  BY <1>1, <1>3
<1>5. rank \in [S -> 1..N] /\ \A i \in S : rank[i] = Rank(i)
  BY <1>2
<1> HIDE DEF Rank, rank
<1>6. rank \in Injection(S, 1..N)
  <2>1. \A i, j \in S : rank[i] = rank[j] => i = j
    BY <1>4, <1>5
  <2>2. QED
    BY <1>5, <2>1, Fun_IsInj
<1>7. IsFiniteSet(1..N) /\ Cardinality(1..N) = N
  BY <1>1, FS_Interval
<1>8. rank \in Surjection(S, 1..N)
  BY <1>6, <1>7, FS_Injection DEF N
<1>9. \A n \in 1..N : \E i \in S : rank[i] = n
  BY <1>8, Fun_SurjectionProperties
<1>10. QED
  BY <1>2, <1>4, <1>5, <1>9 DEF Rank, Upto, N

(* A function on an initial segment of the numbers is a sequence.          *)
LEMMA SequenceOf ==
    ASSUME NEW S, NEW n \in Nat, NEW f \in [1..n -> S]
    PROVE  f \in Seq(S) /\ Len(f) = n /\ DOMAIN f = 1..n
  OBVIOUS

LEMMA VerdictTypes ==
    ASSUME NEW q \in Requests, NEW i \in DOMAIN q.items
    PROVE  Verdict(q, i) \in Verdicts
<1>1. BatchVerdict(q.items, i) \in Verdicts
  BY DEF BatchVerdict, Verdicts
<1>2. PreflightVerdict(q.items, i) \in Verdicts
  BY DEF PreflightVerdict, Verdicts
<1>3. QED
  BY <1>1, <1>2 DEF Verdict, Verdicts
(***************************************************************************)
(* What a commit of a registration brings about.                           *)
(***************************************************************************)
Registered(w, i) ==
    [item |-> req[w].items[i], key |-> Key(req[w]), index |-> i, rev |-> 1]

LEMMA CommitTypes ==
    ASSUME TypeInv, LockInv, NEW w \in Workers, pc[w] = "commit"
    PROVE  /\ req[w] \in Requests
           /\ verdicts[w] \in Seq(Verdicts)
           /\ DOMAIN verdicts[w] = 1..Len(verdicts[w])
           /\ Len(verdicts[w]) \in Nat
           /\ DOMAIN verdicts[w] \subseteq DOMAIN req[w].items
           /\ req[w].items \in Seq(Items)
<1>1. req[w] \in Requests /\ Len(verdicts[w]) =< Len(req[w].items)
  BY DEF TypeInv, LockInv, WorkerOK
<1>2. req[w].items \in Seq(Items) /\ verdicts[w] \in Seq(Verdicts)
  BY <1>1, RequestFacts DEF TypeInv
<1>3. QED
  BY <1>1, <1>2

LEMMA CreatedCases ==
    ASSUME TypeInv, LockInv, NEW w \in Workers, pc[w] = "commit"
    PROVE  LET S == ToCreate(w)
               N == Cardinality(S)
           IN  /\ S \subseteq DOMAIN verdicts[w] /\ N \in Nat
               /\ \A i \in S : /\ verdicts[w][i] = "ok"
                               /\ NumberOf(w, i) \in Len(cases) + 1 .. Len(cases) + N
               /\ NewCases(w) \in Seq(Case) /\ Len(NewCases(w)) = N
               /\ DOMAIN NewCases(w) = 1..N
               /\ \A n \in 1..N : \E i \in S :
                    /\ NumberOf(w, i) = Len(cases) + n
                    /\ NewCases(w)[n] = Registered(w, i)
<1> DEFINE S == ToCreate(w)
           N == Cardinality(S)
           Rank(i) == Cardinality({j \in S : j =< i})
           Chosen(n) == CHOOSE j \in S : NumberOf(w, j) = Len(cases) + n
<1>1. S \subseteq DOMAIN verdicts[w] /\ \A i \in S : verdicts[w][i] = "ok"
  BY DEF ToCreate
<1>2. S \in SUBSET Nat /\ S \in SUBSET (1..Len(verdicts[w]))
  BY <1>1, CommitTypes
<1>3. IsFiniteSet(S) /\ N \in Nat
  <2>1. IsFiniteSet(1..Len(verdicts[w]))
    BY CommitTypes, FS_Interval
  <2>2. QED
    BY <1>2, <2>1, FS_Subset, FS_CardinalityType
<1>4. Len(cases) \in Nat
  BY DEF TypeInv
<1>5. \A i \in S : NumberOf(w, i) = Len(cases) + Rank(i)
  BY DEF NumberOf
<1> HIDE DEF S
<1>6. /\ \A i \in S : Rank(i) \in 1..N
      /\ \A n \in 1..N : \E i \in S : Rank(i) = n
  BY <1>2, <1>3, Ranks
<1> HIDE DEF Rank, N
<1>7. ASSUME NEW i \in S
      PROVE  NumberOf(w, i) \in Len(cases) + 1 .. Len(cases) + N
  <2>1. Rank(i) \in Int /\ 1 =< Rank(i) /\ Rank(i) =< N
    BY <1>3, <1>6
  <2>2. QED
    BY <1>3, <1>4, <1>5, <2>1
<1>8. ASSUME NEW n \in 1..N
      PROVE  Chosen(n) \in S /\ NumberOf(w, Chosen(n)) = Len(cases) + n
  <2>1. \E i \in S : NumberOf(w, i) = Len(cases) + n
    BY <1>5, <1>6
  <2>2. QED
    BY <2>1
<1>9. NewCases(w) = [n \in 1..N |-> Registered(w, Chosen(n))]
  BY DEF NewCases, Registered, S, N
<1>10. ASSUME NEW i \in S
       PROVE  Registered(w, i) \in Case
  <2>1. i \in Nat /\ req[w].items[i] \in Items /\ Key(req[w]) \in Keys
    BY <1>1, <1>2, CommitTypes, RequestFacts
  <2>2. QED
    BY <2>1 DEF Registered, Case
<1> HIDE DEF Chosen
<1>11. NewCases(w) \in [1..N -> Case]
  BY <1>8, <1>9, <1>10
<1>12. NewCases(w) \in Seq(Case) /\ Len(NewCases(w)) = N /\ DOMAIN NewCases(w) = 1..N
  BY <1>3, <1>11, SequenceOf
<1>13. \A n \in 1..N : \E i \in S :
         /\ NumberOf(w, i) = Len(cases) + n
         /\ NewCases(w)[n] = Registered(w, i)
  BY <1>8, <1>9
<1>14. QED
  BY <1>1, <1>3, <1>7, <1>12, <1>13 DEF S, N

LEMMA OutcomeOf ==
    ASSUME TypeInv, LockInv, NEW w \in Workers, pc[w] = "commit"
    PROVE  /\ Outcome(w) \in Seq(Entry)
           /\ DOMAIN Outcome(w) = DOMAIN verdicts[w]
           /\ Created(Outcome(w)) = ToCreate(w)
           /\ \A i \in ToCreate(w) :
                Outcome(w)[i] = [status |-> "created", case |-> NumberOf(w, i)]
<1>1. /\ ToCreate(w) \subseteq DOMAIN verdicts[w]
      /\ \A i \in ToCreate(w) : verdicts[w][i] = "ok" /\ NumberOf(w, i) \in Nat
  <2>1. Len(cases) \in Nat
    BY DEF TypeInv
  <2>2. QED
    BY <2>1, CreatedCases
<1>2. \A i \in DOMAIN verdicts[w] : verdicts[w][i] \in Verdicts
  BY CommitTypes
<1>3. /\ DOMAIN Outcome(w) = DOMAIN verdicts[w]
      /\ \A i \in DOMAIN verdicts[w] :
           /\ i \in ToCreate(w) =>
                Outcome(w)[i] = [status |-> "created", case |-> NumberOf(w, i)]
           /\ i \notin ToCreate(w) =>
                \E v \in Verdicts : Outcome(w)[i] = [status |-> v, case |-> None]
  BY <1>2 DEF Outcome, Verdicts
<1>4. Outcome(w) \in [DOMAIN verdicts[w] -> Entry]
  <2>1. ASSUME NEW i \in DOMAIN verdicts[w]
        PROVE  Outcome(w)[i] \in Entry
    <3>1. CASE i \in ToCreate(w)
      <4>1. Outcome(w)[i] = [status |-> "created", case |-> NumberOf(w, i)]
        BY <1>3, <3>1
      <4>2. NumberOf(w, i) \in Nat
        BY <1>1, <3>1
      <4>3. QED
        BY <4>1, <4>2 DEF Entry, Verdicts
    <3>2. CASE i \notin ToCreate(w)
      <4>1. PICK v \in Verdicts : Outcome(w)[i] = [status |-> v, case |-> None]
        BY <1>3, <3>2
      <4>2. QED
        BY <4>1 DEF Entry, Verdicts
    <3>3. QED
      BY <3>1, <3>2
  <2>2. Outcome(w) = [i \in DOMAIN verdicts[w] |-> Outcome(w)[i]]
    BY DEF Outcome
  <2>3. QED
    BY <2>1, <2>2
<1>5. Outcome(w) \in Seq(Entry)
  BY <1>4, CommitTypes, SequenceOf
<1>6. Created(Outcome(w)) = ToCreate(w)
  <2>1. ASSUME NEW i \in DOMAIN verdicts[w]
        PROVE  Outcome(w)[i].status = "created" <=> i \in ToCreate(w)
    <3>1. CASE i \in ToCreate(w)
      <4>1. Outcome(w)[i] = [status |-> "created", case |-> NumberOf(w, i)]
        BY <1>3, <3>1
      <4>2. QED
        BY <3>1, <4>1
    <3>2. CASE i \notin ToCreate(w)
      <4>1. PICK v \in Verdicts : Outcome(w)[i] = [status |-> v, case |-> None]
        BY <1>3, <3>2
      <4>2. QED
        BY <3>2, <4>1 DEF Verdicts
    <3>3. QED
      BY <3>1, <3>2
  <2>2. QED
    BY <1>1, <1>3, <2>1 DEF Created
<1>7. QED
  BY <1>1, <1>3, <1>5, <1>6
-----------------------------------------------------------------------------
(***************************************************************************)
(* Steps of one worker.                                                    *)
(***************************************************************************)
Stays(v) ==
    /\ pc'[v] = pc[v] /\ req'[v] = req[v] /\ verdicts'[v] = verdicts[v]
    /\ result'[v] = result[v] /\ pending'[v] = pending[v]

OthersStay(w) == \A v \in Workers \ {w} : Stays(v)

LEMMA ReturnEffect ==
    ASSUME TypeInv, NEW w \in Workers, Return(w)
    PROVE  /\ OthersStay(w)
           /\ pc'[w] = "idle" /\ req'[w] = None /\ verdicts'[w] = <<>>
           /\ result'[w] = <<>> /\ pending'[w] = <<>>
           /\ createMu' = IF createMu = w THEN None ELSE createMu
           /\ pc' \in [Workers -> Places]
           /\ req' \in [Workers -> Requests \cup {None}]
           /\ verdicts' \in [Workers -> Seq(Verdicts)]
           /\ result' \in [Workers -> Seq(Entry)]
           /\ pending' \in [Workers -> Seq(Events)]
           /\ createMu' \in Workers \cup {None}
<1>1. <<>> \in Seq(Verdicts) /\ <<>> \in Seq(Entry) /\ <<>> \in Seq(Events)
  OBVIOUS
<1>2. QED
  BY <1>1 DEF TypeInv, Return, OthersStay, Stays, Places

(* A worker that has a receipt of its own to answer with.                  *)
LEMMA SucceedEffect ==
    ASSUME TypeInv, NEW w \in Workers, req[w] \in Requests,
           NEW r \in Seq(Entry), Succeed(w, r)
    PROVE  /\ Return(w)
           /\ answered' = answered \cup {[request |-> req[w], result |-> r]}
           /\ answered' \subseteq Receipt
  BY DEF Succeed, TypeInv, Receipt

LEMMA ReceiptTypes ==
    ASSUME TypeInv, NEW k \in Keys, idem[k] # None
    PROVE  /\ idem[k] \in Receipt
           /\ idem[k].request \in Requests /\ idem[k].result \in Seq(Entry)
           /\ idem[k] = [request |-> idem[k].request, result |-> idem[k].result]
<1>1. idem[k] \in Receipt
  BY DEF TypeInv
<1>2. QED
  BY <1>1 DEF Receipt

LEMMA WorkingRequest ==
    ASSUME TypeInv, LockInv, NEW w \in Workers,
           \/ pc[w] \in {"createMu", "lookup", "check", "commit"}
           \/ req[w] # None
    PROVE  /\ req[w] \in Requests /\ Key(req[w]) \in Keys
           /\ req[w].items \in Seq(Items) /\ req[w].kind \in Kinds
<1>1. req[w] \in Requests
  BY DEF TypeInv, LockInv, WorkerOK
<1>2. QED
  BY <1>1, RequestFacts

(* The report of a dry run.                                                *)
Report(w) ==
    [i \in DOMAIN verdicts[w] |-> [status |-> verdicts[w][i], case |-> None]]

LEMMA ReportTypes ==
    ASSUME TypeInv, LockInv, NEW w \in Workers, pc[w] = "commit"
    PROVE  Report(w) \in Seq(Entry) /\ Created(Report(w)) = {}
<1>1. ASSUME NEW i \in DOMAIN verdicts[w]
      PROVE  Report(w)[i] \in Entry /\ Report(w)[i].status # "created"
  <2>1. verdicts[w][i] \in Verdicts
    BY CommitTypes
  <2>2. Report(w)[i] = [status |-> verdicts[w][i], case |-> None]
    BY DEF Report
  <2>3. QED
    BY <2>1, <2>2 DEF Entry, Verdicts
<1>2. Report(w) \in [1..Len(verdicts[w]) -> Entry]
  BY <1>1, CommitTypes DEF Report
<1>3. QED
  BY <1>1, <1>2, CommitTypes, SequenceOf DEF Created, Report

LEMMA EventFields ==
    \A t, n : Event(t, n).type = t /\ Event(t, n).case = n
  BY DEF Event

LEMMA EventTypes ==
    ASSUME NEW n \in Nat
    PROVE  /\ Event("REGISTERED", n) \in Events
           /\ Event("ASSESSED", n) \in Events
  BY DEF Event, Events

(* The successful commit of a registration.                                *)
Registrations(w) ==
    [n \in DOMAIN NewCases(w) |-> Event("REGISTERED", Len(cases) + n)]

CommitEffect(w) ==
    /\ OthersStay(w)
    /\ pc'[w] = "append" /\ req'[w] = req[w] /\ result'[w] = Outcome(w)
    /\ verdicts'[w] = verdicts[w] /\ pending'[w] = Registrations(w)
    /\ createMu' = createMu
    /\ Registrable([n \in DOMAIN NewCases(w) |-> NewCases(w)[n].item])
    /\ cases' = cases \o NewCases(w)
    /\ idem' = [idem EXCEPT ![Key(req[w])] =
                  [request |-> req[w], result |-> Outcome(w)]]
    /\ UNCHANGED <<answered, audit, crashes, auditFaults>>

LEMMA CommitSteps ==
    ASSUME TypeInv, LockInv, NEW w \in Workers, Commit(w)
    PROVE  /\ pc[w] = "commit" /\ Registers(w)
           /\ \/ Return(w) /\ UNCHANGED <<cases, idem, answered, audit, crashes, auditFaults>>
              \/ CommitEffect(w) /\ TypeInv'
<1>1. pc[w] = "commit" /\ Registers(w)
  BY WorkingRequest, NoneAssumption DEF Commit, Registers
<1>2. CASE Refuse(w) /\ UNCHANGED <<cases, idem>>
  BY <1>1, <1>2 DEF Commit, Refuse
<1>3. CASE ~(Refuse(w) /\ UNCHANGED <<cases, idem>>)
  <2>1. /\ Registrable([n \in DOMAIN NewCases(w) |-> NewCases(w)[n].item])
        /\ cases' = cases \o NewCases(w)
        /\ idem' = [idem EXCEPT ![Key(req[w])] =
                      [request |-> req[w], result |-> Outcome(w)]]
        /\ result' = [result EXCEPT ![w] = Outcome(w)]
        /\ pending' = [pending EXCEPT ![w] = Registrations(w)]
        /\ pc' = [pc EXCEPT ![w] = "append"]
        /\ UNCHANGED <<req, verdicts, createMu, answered, audit, crashes, auditFaults>>
    BY <1>3 DEF Commit, Registrations
  <2>2. CommitEffect(w)
    BY <2>1 DEF CommitEffect, TypeInv, OthersStay, Stays
  <2>3. /\ NewCases(w) \in Seq(Case) /\ Len(NewCases(w)) \in Nat
        /\ DOMAIN NewCases(w) = 1..Len(NewCases(w))
    BY <1>1, CreatedCases
  <2>4. Outcome(w) \in Seq(Entry)
    BY <1>1, OutcomeOf
  <2>5. Registrations(w) \in Seq(Events)
    <3>1. Registrations(w) \in [1..Len(NewCases(w)) -> Events]
      BY <2>3, EventTypes DEF Registrations, TypeInv
    <3>2. QED
      BY <2>3, <3>1, SequenceOf
  <2>6. cases' \in Seq(Case)
    BY <2>1, <2>3 DEF TypeInv
  <2>7. [request |-> req[w], result |-> Outcome(w)] \in Receipt
    BY <1>1, <2>4, WorkingRequest DEF Receipt
  <2>8. TypeInv'
    BY <2>1, <2>4, <2>5, <2>6, <2>7 DEF TypeInv, Places
  <2>9. QED
    BY <1>1, <2>2, <2>8
<1>4. QED
  BY <1>2, <1>3
(* Answering, with what is stored or has just been stored.                 *)
Answers(w, r) ==
    /\ Return(w) /\ req[w] \in Requests /\ r \in Seq(Entry)
    /\ answered' = answered \cup {[request |-> req[w], result |-> r]}

LEMMA LookupSteps ==
    ASSUME TypeInv, LockInv, NEW w \in Workers, Lookup(w)
    PROVE  /\ pc[w] = "lookup" /\ req[w] \in Requests
           /\ UNCHANGED <<cases, idem, audit, crashes, auditFaults>>
           /\ \/ /\ idem[Key(req[w])] # None
                 /\ idem[Key(req[w])].request = req[w]
                 /\ Answers(w, idem[Key(req[w])].result)
              \/ Return(w) /\ UNCHANGED answered
              \/ /\ idem[Key(req[w])] = None
                 /\ OthersStay(w) /\ pc'[w] = "check" /\ pc' \in [Workers -> Places]
                 /\ UNCHANGED <<req, verdicts, result, pending, createMu, answered>>
<1>1. pc[w] = "lookup" /\ UNCHANGED <<cases, idem, audit, crashes, auditFaults>>
  BY DEF Lookup
<1>2. req[w] \in Requests /\ Key(req[w]) \in Keys
  BY <1>1, WorkingRequest
<1>3. CASE /\ idem[Key(req[w])] # None /\ idem[Key(req[w])].request = req[w]
           /\ Succeed(w, idem[Key(req[w])].result)
  BY <1>1, <1>2, <1>3, ReceiptTypes DEF Answers, Succeed
<1>4. CASE Refuse(w)
  BY <1>1, <1>2, <1>4 DEF Refuse
<1>5. CASE /\ idem[Key(req[w])] = None /\ pc' = [pc EXCEPT ![w] = "check"]
           /\ UNCHANGED <<req, verdicts, result, pending, createMu, answered>>
  BY <1>1, <1>2, <1>5 DEF TypeInv, OthersStay, Stays, Places
<1>6. QED
  BY <1>3, <1>4, <1>5 DEF Lookup

LEMMA CheckItemSteps ==
    ASSUME TypeInv, LockInv, NEW w \in Workers, CheckItem(w)
    PROVE  LET i == Len(verdicts[w]) + 1
           IN  /\ pc[w] = "check" /\ req[w] \in Requests
               /\ UNCHANGED <<cases, idem, answered, audit, crashes, auditFaults>>
               /\ \/ Return(w)
                  \/ /\ OthersStay(w) /\ pc'[w] \in {"check", "commit"}
                     /\ pc' \in [Workers -> Places]
                     /\ i \in DOMAIN req[w].items
                     /\ verdicts'[w] = Append(verdicts[w], Verdict(req[w], i))
                     /\ verdicts' \in [Workers -> Seq(Verdicts)]
                     /\ Len(verdicts'[w]) = i /\ i =< Len(req[w].items)
                     /\ UNCHANGED <<req, result, pending, createMu>>
<1> DEFINE q == req[w]
           i == Len(verdicts[w]) + 1
<1>1. /\ pc[w] = "check" /\ Len(verdicts[w]) < Len(q.items)
      /\ UNCHANGED <<cases, idem, audit, crashes, auditFaults>>
  BY DEF CheckItem
<1>2. q \in Requests /\ q.items \in Seq(Items)
  BY <1>1, WorkingRequest
<1>3. verdicts[w] \in Seq(Verdicts) /\ i \in DOMAIN q.items /\ i =< Len(q.items)
  BY <1>1, <1>2 DEF TypeInv
<1>4. Verdict(q, i) \in Verdicts
  BY <1>2, <1>3, VerdictTypes
<1>5. CASE Refuse(w)
  BY <1>1, <1>2, <1>5 DEF Refuse
<1>6. CASE /\ verdicts' = [verdicts EXCEPT ![w] = Append(@, Verdict(q, i))]
           /\ pc' = [pc EXCEPT ![w] = IF Len(verdicts'[w]) = Len(q.items)
                                      THEN "commit" ELSE "check"]
           /\ UNCHANGED <<req, result, pending, createMu, answered>>
  <2>1. /\ verdicts'[w] = Append(verdicts[w], Verdict(q, i))
        /\ \A v \in Workers \ {w} : verdicts'[v] = verdicts[v]
        /\ verdicts' \in [Workers -> Seq(Verdicts)]
    BY <1>3, <1>4, <1>6 DEF TypeInv
  <2>2. Len(verdicts'[w]) = i
    BY <1>3, <1>4, <2>1
  <2>3. /\ pc'[w] \in {"check", "commit"} /\ pc' \in [Workers -> Places]
        /\ \A v \in Workers \ {w} : pc'[v] = pc[v]
    BY <1>6 DEF TypeInv, Places
  <2>4. QED
    BY <1>1, <1>2, <1>3, <1>6, <2>1, <2>2, <2>3 DEF OthersStay, Stays
<1>7. QED
  BY <1>5, <1>6 DEF CheckItem

LEMMA PutReportSteps ==
    ASSUME TypeInv, LockInv, NEW w \in Workers, PutReport(w)
    PROVE  /\ pc[w] = "commit" /\ req[w] \in Requests
           /\ req[w].kind = "PREFLIGHT"
           /\ UNCHANGED <<cases, audit, crashes, auditFaults>>
           /\ \/ Return(w) /\ UNCHANGED <<idem, answered>>
              \/ /\ Answers(w, Report(w))
                 /\ idem' = [idem EXCEPT ![Key(req[w])] =
                               [request |-> req[w], result |-> Report(w)]]
<1>1. /\ pc[w] = "commit" /\ req[w].kind = "PREFLIGHT"
      /\ UNCHANGED <<cases, audit, crashes, auditFaults>>
  BY DEF PutReport
<1>2. req[w] \in Requests /\ Report(w) \in Seq(Entry)
  BY <1>1, WorkingRequest, ReportTypes
<1>3. CASE Refuse(w) /\ UNCHANGED idem
  BY <1>1, <1>2, <1>3 DEF Refuse
<1>4. CASE /\ idem' = [idem EXCEPT ![Key(req[w])] =
                         [request |-> req[w], result |-> Report(w)]]
           /\ Succeed(w, Report(w))
  BY <1>1, <1>2, <1>4 DEF Answers, Succeed
<1>5. QED
  BY <1>3, <1>4 DEF PutReport, Report

LEMMA AnswerSteps ==
    ASSUME TypeInv, LockInv, NEW w \in Workers, Answer(w)
    PROVE  /\ pc[w] = "append" /\ pending[w] = <<>>
           /\ UNCHANGED <<cases, idem, audit, crashes, auditFaults>>
           /\ \/ req[w] # None /\ Answers(w, result[w])
              \/ Return(w) /\ UNCHANGED answered
<1>1. /\ pc[w] = "append" /\ pending[w] = <<>>
      /\ UNCHANGED <<cases, idem, audit, crashes, auditFaults>>
  BY DEF Answer
<1>2. CASE req[w] # None
  BY <1>1, <1>2, WorkingRequest DEF Answer, Answers, Succeed, TypeInv
<1>3. CASE req[w] = None
  BY <1>1, <1>3 DEF Answer, Refuse
<1>4. QED
  BY <1>2, <1>3

LEMMA AuditAppendSteps ==
    ASSUME TypeInv, NEW w \in Workers, AuditAppend(w)
    PROVE  /\ pc[w] = "append" /\ pending[w] # <<>>
           /\ OthersStay(w)
           /\ Head(pending[w]) \in Events
           /\ audit' = Append(audit, Head(pending[w]))
           /\ pending'[w] = Tail(pending[w])
           /\ pending' \in [Workers -> Seq(Events)]
           /\ UNCHANGED <<cases, idem, createMu, pc, req, verdicts, result,
                          answered, crashes, auditFaults>>
  BY DEF AuditAppend, TypeInv, OthersStay, Stays

LEMMA AssessSteps ==
    ASSUME TypeInv, NEW w \in Workers, NEW n \in DOMAIN cases, Assess(w, n)
    PROVE  /\ pc[w] = "idle" /\ pc'[w] = "append" /\ pc' \in [Workers -> Places]
           /\ OthersStay(w)
           /\ cases[n].rev = 1 /\ n \in Nat
           /\ cases' = [cases EXCEPT ![n].rev = 2] /\ cases' \in Seq(Case)
           /\ pending'[w] = <<Event("ASSESSED", n)>>
           /\ pending' \in [Workers -> Seq(Events)]
           /\ UNCHANGED <<idem, createMu, req, verdicts, result, audit, answered,
                          crashes, auditFaults>>
<1>1. n \in 1..Len(cases) /\ cases[n] \in Case
  BY DEF TypeInv
<1>2. <<Event("ASSESSED", n)>> \in Seq(Events)
  BY <1>1, EventTypes
<1>3. [cases[n] EXCEPT !.rev = 2] \in Case
  BY <1>1 DEF Case
<1>4. cases' = [cases EXCEPT ![n] = [cases[n] EXCEPT !.rev = 2]]
  BY DEF Assess
<1>5. cases' \in Seq(Case)
  BY <1>1, <1>3, <1>4, ExceptSeq DEF TypeInv
<1>6. QED
  BY <1>1, <1>2, <1>5 DEF Assess, TypeInv, OthersStay, Stays, Places
LEMMA TypeOfReturn ==
    ASSUME TypeInv, NEW w \in Workers, Return(w),
           cases' = cases, audit' = audit, idem' \in [Keys -> Receipt \cup {None}],
           crashes' = crashes, auditFaults' \in Nat, answered' \subseteq Receipt
    PROVE  TypeInv'
  BY ReturnEffect DEF TypeInv

LEMMA TypeOfAnswer ==
    ASSUME TypeInv, NEW w \in Workers, NEW r, Answers(w, r)
    PROVE  answered' \subseteq Receipt
  BY DEF TypeInv, Answers, Receipt

LEMMA TypeStep == TypeInv /\ LockInv /\ [Next]_vars => TypeInv'
<1> SUFFICES ASSUME TypeInv, LockInv, [Next]_vars
             PROVE  TypeInv'
  OBVIOUS
<1>1. ASSUME NEW w \in Workers, NEW q \in Requests, Receive(w, q)
      PROVE  TypeInv'
  BY <1>1 DEF Receive, TypeInv, Places
<1>2. ASSUME NEW w \in Workers, LockCreateMu(w)
      PROVE  TypeInv'
  BY <1>2 DEF LockCreateMu, TypeInv, Places
<1>3. ASSUME NEW w \in Workers, Lookup(w)
      PROVE  TypeInv'
  <2>1. \/ Return(w) /\ UNCHANGED answered
        \/ Answers(w, idem[Key(req[w])].result)
        \/ /\ pc' \in [Workers -> Places]
           /\ UNCHANGED <<req, verdicts, result, pending, createMu, answered>>
    BY <1>3, LookupSteps
  <2>2. /\ UNCHANGED <<cases, idem, audit, crashes, auditFaults>>
        /\ idem' \in [Keys -> Receipt \cup {None}] /\ auditFaults' \in Nat
    BY <1>3 DEF Lookup, TypeInv
  <2>3. CASE Return(w) /\ UNCHANGED answered
    <3>1. answered' \subseteq Receipt
      BY <2>3 DEF TypeInv
    <3>2. QED
      BY <2>2, <2>3, <3>1, TypeOfReturn
  <2>4. CASE Answers(w, idem[Key(req[w])].result)
    BY <2>2, <2>4, TypeOfReturn, TypeOfAnswer DEF Answers
  <2>5. CASE /\ pc' \in [Workers -> Places]
             /\ UNCHANGED <<req, verdicts, result, pending, createMu, answered>>
    BY <2>2, <2>5 DEF TypeInv
  <2>6. QED
    BY <2>1, <2>3, <2>4, <2>5
<1>4. ASSUME NEW w \in Workers, CheckItem(w)
      PROVE  TypeInv'
  <2>1. /\ UNCHANGED <<cases, idem, answered, audit, crashes, auditFaults>>
        /\ \/ Return(w)
           \/ /\ pc' \in [Workers -> Places]
              /\ verdicts' \in [Workers -> Seq(Verdicts)]
              /\ UNCHANGED <<req, result, pending, createMu>>
    BY <1>4, CheckItemSteps
  <2>2. QED
    BY <2>1, TypeOfReturn DEF TypeInv
<1>5. ASSUME NEW w \in Workers, Commit(w)
      PROVE  TypeInv'
  <2>1. CASE Return(w) /\ UNCHANGED <<cases, idem, answered, audit, crashes, auditFaults>>
    BY <2>1, TypeOfReturn DEF TypeInv
  <2>2. QED
    BY <1>5, <2>1, CommitSteps
<1>6. ASSUME NEW w \in Workers, PutReport(w)
      PROVE  TypeInv'
  <2>1. /\ UNCHANGED <<cases, audit, crashes, auditFaults>>
        /\ pc[w] = "commit" /\ req[w] \in Requests /\ auditFaults' \in Nat
    BY <1>6, PutReportSteps DEF TypeInv
  <2>2. CASE Return(w) /\ UNCHANGED <<idem, answered>>
    BY <2>1, <2>2, TypeOfReturn DEF TypeInv
  <2>3. CASE /\ Answers(w, Report(w))
             /\ idem' = [idem EXCEPT ![Key(req[w])] =
                           [request |-> req[w], result |-> Report(w)]]
    <3>1. [request |-> req[w], result |-> Report(w)] \in Receipt
      BY <2>1, ReportTypes DEF Receipt
    <3>2. idem' \in [Keys -> Receipt \cup {None}]
      BY <2>3, <3>1 DEF TypeInv
    <3>3. QED
      BY <2>1, <2>3, <3>2, TypeOfReturn, TypeOfAnswer DEF Answers
  <2>4. QED
    BY <1>6, <2>2, <2>3, PutReportSteps
<1>7. ASSUME NEW w \in Workers, AuditAppend(w)
      PROVE  TypeInv'
  <2>1. audit' \in Seq(Events)
    <3>1. /\ audit' = Append(audit, Head(pending[w]))
          /\ Head(pending[w]) \in Events
      BY <1>7, AuditAppendSteps
    <3>2. audit \in Seq(Events)
      BY DEF TypeInv
    <3>3. QED
      BY <3>1, <3>2
  <2>2. QED
    BY <1>7, <2>1, AuditAppendSteps DEF TypeInv
<1>8. ASSUME NEW w \in Workers, AuditFail(w)
      PROVE  TypeInv'
  <2>1. /\ Return(w) /\ UNCHANGED <<cases, idem, audit, crashes, answered>>
        /\ auditFaults' \in Nat
    BY <1>8 DEF AuditFail, Refuse, TypeInv
  <2>2. QED
    BY <2>1, TypeOfReturn DEF TypeInv
<1>9. ASSUME NEW w \in Workers, Answer(w)
      PROVE  TypeInv'
  <2>1. /\ UNCHANGED <<cases, idem, audit, crashes, auditFaults>>
        /\ \/ Answers(w, result[w])
           \/ Return(w) /\ UNCHANGED answered
    BY <1>9, AnswerSteps
  <2>2. Return(w) /\ answered' \subseteq Receipt
    BY <2>1, TypeOfAnswer DEF Answers, TypeInv
  <2>3. QED
    BY <2>1, <2>2, TypeOfReturn DEF TypeInv
<1>10. ASSUME NEW w \in Workers, NEW n \in DOMAIN cases, Assess(w, n)
       PROVE  TypeInv'
  BY <1>10, AssessSteps DEF TypeInv
<1>11. CASE Crash
  <2>1. /\ <<>> \in Seq(Verdicts) /\ <<>> \in Seq(Entry) /\ <<>> \in Seq(Events)
        /\ crashes' \in Nat
    BY <1>11 DEF Crash, TypeInv
  <2>2. QED
    BY <1>11, <2>1 DEF Crash, TypeInv, Places
<1>12. CASE UNCHANGED vars
  BY <1>12 DEF vars, localVars, TypeInv
<1>13. QED
  BY <1>1, <1>2, <1>3, <1>4, <1>5, <1>6, <1>7, <1>8, <1>9, <1>10, <1>11, <1>12
     DEF Next, Step

(***************************************************************************)
(* createMu is a mutex.                                                    *)
(***************************************************************************)
LEMMA LockOfOthers ==
    ASSUME LockInv, NEW w \in Workers, OthersStay(w), WorkerOK(w)',
           \A v \in Workers \ {w} : createMu' = v <=> createMu = v
    PROVE  LockInv'
<1>1. ASSUME NEW v \in Workers, v # w
      PROVE  WorkerOK(v)'
  BY <1>1 DEF LockInv, WorkerOK, Inside, Registers, OthersStay, Stays
<1>2. QED
  BY <1>1 DEF LockInv

LEMMA LockOfReturn ==
    ASSUME TypeInv, LockInv, NEW w \in Workers, Return(w)
    PROVE  LockInv'
<1>1. WorkerOK(w)'
  <2>1. createMu' # w
    BY ReturnEffect, NoneAssumption
  <2>2. QED
    BY <2>1, ReturnEffect DEF WorkerOK, Inside, Registers
<1>2. \A v \in Workers \ {w} : createMu' = v <=> createMu = v
  BY ReturnEffect, NoneAssumption
<1>3. QED
  BY <1>1, <1>2, ReturnEffect, LockOfOthers

LEMMA LockStep == TypeInv /\ LockInv /\ [Next]_vars => LockInv'
<1> SUFFICES ASSUME TypeInv, LockInv, [Next]_vars
             PROVE  LockInv'
  OBVIOUS
<1>1. ASSUME NEW w \in Workers, NEW q \in Requests, Receive(w, q)
      PROVE  LockInv'
  <2>1. /\ OthersStay(w) /\ req'[w] = q /\ pc[w] = "idle"
        /\ pc'[w] = IF q.kind = "PREFLIGHT" THEN "lookup" ELSE "createMu"
        /\ verdicts'[w] = verdicts[w] /\ pending'[w] = pending[w]
        /\ createMu' = createMu
    BY <1>1 DEF Receive, TypeInv, OthersStay, Stays
  <2>2. WorkerOK(w)'
    BY <2>1, RequestFacts DEF LockInv, WorkerOK, Inside, Registers
  <2>3. QED
    BY <2>1, <2>2, LockOfOthers
<1>2. ASSUME NEW w \in Workers, LockCreateMu(w)
      PROVE  LockInv'
  <2>1. /\ OthersStay(w) /\ req'[w] = req[w] /\ pc[w] = "createMu"
        /\ pc'[w] = "lookup" /\ createMu = None /\ createMu' = w
        /\ verdicts'[w] = verdicts[w] /\ pending'[w] = pending[w]
    BY <1>2 DEF LockCreateMu, TypeInv, OthersStay, Stays
  <2>2. WorkerOK(w)'
    BY <2>1 DEF LockInv, WorkerOK, Inside, Registers
  <2>3. QED
    BY <2>1, <2>2, LockOfOthers, NoneAssumption
<1>3. ASSUME NEW w \in Workers, Lookup(w)
      PROVE  LockInv'
  <2>1. CASE Return(w)
    BY <2>1, LockOfReturn
  <2>2. CASE /\ OthersStay(w) /\ pc'[w] = "check"
             /\ UNCHANGED <<req, verdicts, result, pending, createMu, answered>>
    <3>1. pc[w] = "lookup" /\ req[w] \in Requests
      BY <1>3, LookupSteps
    <3>2. verdicts[w] = <<>> /\ Len(verdicts[w]) =< Len(req[w].items)
      BY <3>1, RequestFacts DEF LockInv, WorkerOK
    <3>3. WorkerOK(w)'
      BY <2>2, <3>1, <3>2 DEF LockInv, WorkerOK, Inside, Registers
    <3>4. QED
      BY <2>2, <3>3, LockOfOthers
  <2>3. QED
    BY <1>3, <2>1, <2>2, LookupSteps DEF Answers
<1>4. ASSUME NEW w \in Workers, CheckItem(w)
      PROVE  LockInv'
  <2>1. CASE Return(w)
    BY <2>1, LockOfReturn
  <2>2. CASE ~Return(w)
    <3>1. /\ OthersStay(w) /\ pc[w] = "check" /\ pc'[w] \in {"check", "commit"}
          /\ Len(verdicts'[w]) =< Len(req[w].items)
          /\ UNCHANGED <<req, result, pending, createMu>>
      BY <1>4, <2>2, CheckItemSteps
    <3>2. WorkerOK(w)'
      BY <3>1 DEF LockInv, WorkerOK, Inside, Registers
    <3>3. QED
      BY <3>1, <3>2, LockOfOthers
  <2>3. QED
    BY <2>1, <2>2
<1>5. ASSUME NEW w \in Workers, Commit(w)
      PROVE  LockInv'
  <2>1. CASE Return(w)
    BY <2>1, LockOfReturn
  <2>2. CASE CommitEffect(w)
    <3>1. pc[w] = "commit" /\ Registers(w)
      BY <1>5, CommitSteps
    <3>2. WorkerOK(w)'
      BY <2>2, <3>1 DEF CommitEffect, LockInv, WorkerOK, Inside, Registers
    <3>3. QED
      BY <2>2, <3>2, LockOfOthers DEF CommitEffect
  <2>3. QED
    BY <1>5, <2>1, <2>2, CommitSteps
<1>6. ASSUME NEW w \in Workers, PutReport(w) \/ AuditFail(w) \/ Answer(w)
      PROVE  LockInv'
  <2>1. Return(w)
    BY <1>6, PutReportSteps, AnswerSteps DEF AuditFail, Refuse, Answers
  <2>2. QED
    BY <2>1, LockOfReturn
<1>7. ASSUME NEW w \in Workers, AuditAppend(w)
      PROVE  LockInv'
  <2>1. WorkerOK(w)'
    BY <1>7, AuditAppendSteps DEF LockInv, WorkerOK, Inside, Registers
  <2>2. QED
    BY <1>7, <2>1, AuditAppendSteps, LockOfOthers
<1>8. ASSUME NEW w \in Workers, NEW n \in DOMAIN cases, Assess(w, n)
      PROVE  LockInv'
  <2>1. req[w] = None
    BY <1>8, AssessSteps DEF LockInv, WorkerOK
  <2>2. WorkerOK(w)'
    BY <1>8, <2>1, AssessSteps DEF LockInv, WorkerOK, Inside, Registers
  <2>3. QED
    BY <1>8, <2>2, AssessSteps, LockOfOthers
<1>9. CASE Crash
  BY <1>9, NoneAssumption
     DEF Crash, LockInv, WorkerOK, Inside, Registers
<1>10. CASE UNCHANGED vars
  BY <1>10 DEF vars, localVars, LockInv, WorkerOK, Inside, Registers
<1>11. QED
  BY <1>1, <1>2, <1>3, <1>4, <1>5, <1>6, <1>7, <1>8, <1>9, <1>10 DEF Next, Step
-----------------------------------------------------------------------------
(***************************************************************************)
(* What is stored.                                                         *)
(***************************************************************************)
(* An item that is in order on its own shares nothing with another such    *)
(* item of the same batch.                                                 *)
LEMMA BatchOk ==
    ASSUME NEW items, NEW i \in DOMAIN items, BatchVerdict(items, i) = "ok"
    PROVE  /\ WellFormed(items[i]) /\ ~SharesAccession(items, i)
           /\ \A j \in DOMAIN items \ {i} :
                BatchVerdict(items, j) = "ok" =>
                  Names(items[i]) \cap Names(items[j]) = {}
<1> DEFINE Left == {j \in DOMAIN items :
                      WellFormed(items[j]) /\ ~SharesAccession(items, j)}
<1>1. ASSUME NEW j \in DOMAIN items, BatchVerdict(items, j) = "ok"
      PROVE  j \in Left /\ ~SharesName(items, j, Left)
  BY <1>1 DEF BatchVerdict
<1>2. QED
  BY <1>1 DEF SharesName

LEMMA StoreStill ==
    ASSUME StoreInv, cases' = cases, idem' = idem
    PROVE  IdentifiersUnique' /\ ReceiptsMatchCases' /\ ReceiptsAreOwn'
<1>1. IdentifiersUnique'
  BY DEF StoreInv, IdentifiersUnique
<1>2. ReceiptsMatchCases'
  BY DEF StoreInv, ReceiptsMatchCases
<1>3. ReceiptsAreOwn'
  BY DEF StoreInv, ReceiptsAreOwn
<1>4. QED
  BY <1>1, <1>2, <1>3

(* Nothing is stored: what a worker knows stays as true as it was.         *)
LEMMA StoreFrame ==
    ASSUME StoreInv, NEW w \in Workers, OthersStay(w),
           cases' = cases, idem' = idem, Informed(w)', AnswersAreStored'
    PROVE  StoreInv'
<1>1. ASSUME NEW v \in Workers, v # w
      PROVE  Informed(v)'
  BY <1>1 DEF StoreInv, Informed, OthersStay, Stays, Registers, Taken
<1>2. QED
  BY <1>1, StoreStill DEF StoreInv

LEMMA StoreOfReturn ==
    ASSUME TypeInv, StoreInv, NEW w \in Workers, Return(w),
           cases' = cases, idem' = idem, AnswersAreStored'
    PROVE  StoreInv'
<1>1. Informed(w)'
  BY ReturnEffect DEF Informed
<1>2. QED
  BY <1>1, ReturnEffect, StoreFrame

(* Two workers that register are never both inside.                        *)
LEMMA OneInside ==
    ASSUME LockInv, NEW v \in Workers, NEW w \in Workers, Inside(v), Inside(w)
    PROVE  v = w
  BY DEF LockInv, WorkerOK

LEMMA CommittedCases ==
    ASSUME TypeInv, LockInv, NEW w \in Workers, pc[w] = "commit", CommitEffect(w)
    PROVE  LET L == Len(cases)
               N == Len(NewCases(w))
           IN  /\ L \in Nat /\ N \in Nat
               /\ DOMAIN cases = 1..L /\ DOMAIN cases' = 1..(L + N)
               /\ DOMAIN NewCases(w) = 1..N /\ Len(cases') = L + N
               /\ \A n \in 1..L : cases'[n] = cases[n]
               /\ \A n \in 1..N : cases'[L + n] = NewCases(w)[n]
               /\ \A m \in 1..(L + N) : m \in 1..L \/ m - L \in 1..N
<1>1. cases \in Seq(Case) /\ NewCases(w) \in Seq(Case) /\ cases' = cases \o NewCases(w)
  BY CreatedCases DEF TypeInv, CommitEffect
<1>2. QED
  BY <1>1
LEMMA CommitKeepsIdentifiers ==
    ASSUME TypeInv, LockInv, StoreInv, NEW w \in Workers, pc[w] = "commit",
           Registers(w), CommitEffect(w)
    PROVE  IdentifiersUnique'
<1> DEFINE L == Len(cases)
           N == Len(NewCases(w))
<1>1. /\ L \in Nat /\ N \in Nat
      /\ DOMAIN cases = 1..L /\ DOMAIN cases' = 1..(L + N)
      /\ DOMAIN NewCases(w) = 1..N
      /\ \A n \in 1..L : cases'[n] = cases[n]
      /\ \A n \in 1..N : cases'[L + n] = NewCases(w)[n]
      /\ \A m \in 1..(L + N) : m \in 1..L \/ m - L \in 1..N
  BY CommittedCases
<1> HIDE DEF L, N
<1>2. ASSUME NEW n \in 1..N
      PROVE  /\ WellFormed(NewCases(w)[n].item)
             /\ ~Taken(NewCases(w)[n].item)
             /\ \A m \in 1..N : m # n =>
                  Names(NewCases(w)[m].item) \cap Names(NewCases(w)[n].item) = {}
  <2>1. PICK i \in ToCreate(w) : NewCases(w)[n] = Registered(w, i)
    BY CreatedCases DEF N
  <2>2. i \in DOMAIN verdicts[w] /\ verdicts[w][i] = "ok" /\ i \in DOMAIN req[w].items
    BY CreatedCases, CommitTypes
  <2>3. BatchVerdict(req[w].items, i) = "ok"
    BY <2>2 DEF StoreInv, Informed
  <2>4. WellFormed(NewCases(w)[n].item)
    BY <2>1, <2>2, <2>3, BatchOk DEF Registered
  <2>5. Registrable([m \in 1..N |-> NewCases(w)[m].item])
    BY <1>1 DEF CommitEffect
  <2>6. QED
    BY <2>4, <2>5 DEF Registrable
<1>3. ASSUME NEW m \in DOMAIN cases', NEW n \in DOMAIN cases', m # n
      PROVE  Names(cases'[m].item) \cap Names(cases'[n].item) = {}
  <2>1. CASE m \in 1..L /\ n \in 1..L
    BY <1>1, <1>3, <2>1 DEF StoreInv, IdentifiersUnique
  <2>2. CASE m \in 1..L /\ n - L \in 1..N
    <3>1. cases'[n] = NewCases(w)[n - L]
      BY <1>1, <1>3, <2>2
    <3>2. QED
      BY <1>1, <1>2, <2>2, <3>1 DEF Taken
  <2>3. CASE m - L \in 1..N /\ n \in 1..L
    <3>1. cases'[m] = NewCases(w)[m - L]
      BY <1>1, <1>3, <2>3
    <3>2. QED
      BY <1>1, <1>2, <2>3, <3>1 DEF Taken
  <2>4. CASE m - L \in 1..N /\ n - L \in 1..N
    <3>1. cases'[m] = NewCases(w)[m - L] /\ cases'[n] = NewCases(w)[n - L]
      BY <1>1, <1>3, <2>4
    <3>2. m - L # n - L
      BY <1>1, <1>3
    <3>3. QED
      BY <1>2, <2>4, <3>1, <3>2
  <2>5. QED
    BY <1>1, <1>3, <2>1, <2>2, <2>3, <2>4
<1>4. ASSUME NEW n \in DOMAIN cases'
      PROVE  WellFormed(cases'[n].item)
  <2>1. CASE n \in 1..L
    BY <1>1, <2>1 DEF StoreInv, IdentifiersUnique
  <2>2. CASE n - L \in 1..N
    <3>1. cases'[n] = NewCases(w)[n - L]
      BY <1>1, <1>4, <2>2
    <3>2. QED
      BY <1>2, <2>2, <3>1
  <2>3. QED
    BY <1>1, <1>4, <2>1, <2>2
<1>5. QED
  BY <1>3, <1>4 DEF IdentifiersUnique

LEMMA CommitKeepsReceipts ==
    ASSUME TypeInv, LockInv, StoreInv, NEW w \in Workers, pc[w] = "commit",
           Registers(w), CommitEffect(w)
    PROVE  ReceiptsMatchCases' /\ ReceiptsAreOwn' /\ AnswersAreStored'
<1> DEFINE L == Len(cases)
           N == Len(NewCases(w))
           k == Key(req[w])
           S == ToCreate(w)
<1>1. /\ L \in Nat /\ N \in Nat
      /\ DOMAIN cases = 1..L /\ DOMAIN cases' = 1..(L + N)
      /\ DOMAIN NewCases(w) = 1..N
      /\ \A n \in 1..L : cases'[n] = cases[n]
      /\ \A n \in 1..N : cases'[L + n] = NewCases(w)[n]
      /\ \A m \in 1..(L + N) : m \in 1..L \/ m - L \in 1..N
  BY CommittedCases
<1>2. /\ req[w] \in Requests /\ k \in Keys /\ idem[k] = None
      /\ req[w].kind # "PREFLIGHT"
  BY WorkingRequest DEF StoreInv, Informed, Registers
<1>3. /\ idem'[k] = [request |-> req[w], result |-> Outcome(w)]
      /\ idem'[k] # None
      /\ \A h \in Keys : h # k => idem'[h] = idem[h]
  <2>1. [request |-> req[w], result |-> Outcome(w)] \in Receipt
    BY <1>2, OutcomeOf DEF Receipt
  <2>2. QED
    BY <1>2, <2>1, NoneAssumption DEF CommitEffect, TypeInv
<1>4. /\ Created(Outcome(w)) = S /\ S \subseteq DOMAIN Outcome(w)
      /\ DOMAIN Outcome(w) = DOMAIN verdicts[w]
      /\ \A i \in S : /\ Outcome(w)[i] = [status |-> "created", case |-> NumberOf(w, i)]
                      /\ NumberOf(w, i) \in L + 1 .. L + N
  BY CreatedCases, OutcomeOf
<1>5. ASSUME NEW n \in 1..N
      PROVE  \E i \in S : NumberOf(w, i) = L + n /\ cases'[L + n] = Registered(w, i)
  BY <1>1, CreatedCases
<1> HIDE DEF L, N, S
<1>6. ASSUME NEW n \in DOMAIN cases
      PROVE  /\ cases[n].key \in Keys /\ cases[n].key # k
             /\ cases'[n] = cases[n] /\ idem'[cases[n].key] = idem[cases[n].key]
  <2>1. cases[n] \in Case
    BY DEF TypeInv
  <2>2. idem[cases[n].key] # None
    BY DEF StoreInv, ReceiptsMatchCases
  <2>3. QED
    BY <1>1, <1>2, <1>3, <2>1, <2>2 DEF Case
<1>7. ASSUME NEW n \in DOMAIN cases'
      PROVE  LET saved == idem'[cases'[n].key]
             IN  /\ saved # None
                 /\ saved.result[cases'[n].index] = [status |-> "created", case |-> n]
                 /\ saved.request.items[cases'[n].index] = cases'[n].item
                 /\ cases'[n].index \in DOMAIN saved.result
  <2>1. CASE n \in DOMAIN cases
    BY <1>6, <2>1 DEF StoreInv, ReceiptsMatchCases, ReceiptsAreOwn
  <2>2. CASE n - L \in 1..N
    <3>1. PICK i \in S : /\ NumberOf(w, i) = L + (n - L)
                         /\ cases'[L + (n - L)] = Registered(w, i)
      BY <1>5, <2>2
    <3>2. L + (n - L) = n
      BY <1>1, <1>7
    <3>3. /\ cases'[n].key = k /\ cases'[n].index = i
          /\ cases'[n].item = req[w].items[i]
      BY <3>1, <3>2 DEF Registered
    <3>4. QED
      BY <1>3, <1>4, <3>1, <3>2, <3>3
  <2>3. QED
    BY <1>1, <1>7, <2>1, <2>2
<1>8. ASSUME NEW h \in Keys, idem'[h] # None
      PROVE  /\ \A i \in Created(idem'[h].result) :
                  /\ idem'[h].result[i].case \in DOMAIN cases'
                  /\ cases'[idem'[h].result[i].case].key = h
             /\ idem'[h].request.kind = "ATOMIC" =>
                  Created(idem'[h].result) \in {{}, DOMAIN idem'[h].result}
  <2>1. CASE h # k
    <3>1. idem'[h] = idem[h]
      BY <1>3, <2>1
    <3>2. QED
      BY <1>1, <1>6, <1>8, <3>1 DEF StoreInv, ReceiptsMatchCases, Created
  <2>2. CASE h = k
    <3>1. ASSUME NEW i \in S
          PROVE  /\ NumberOf(w, i) \in DOMAIN cases'
                 /\ cases'[NumberOf(w, i)].key = k
      <4>1. NumberOf(w, i) \in L + 1 .. L + N
        BY <1>4
      <4>2. /\ NumberOf(w, i) \in DOMAIN cases' /\ NumberOf(w, i) - L \in 1..N
            /\ L + (NumberOf(w, i) - L) = NumberOf(w, i)
        BY <1>1, <4>1
      <4>3. PICK j \in S : /\ NumberOf(w, j) = L + (NumberOf(w, i) - L)
                           /\ cases'[L + (NumberOf(w, i) - L)] = Registered(w, j)
        BY <1>5, <4>2
      <4>4. cases'[NumberOf(w, i)] = Registered(w, j)
        BY <4>2, <4>3
      <4>5. QED
        BY <4>2, <4>4 DEF Registered
    <3>2. req[w].kind = "ATOMIC" => S \in {{}, DOMAIN verdicts[w]}
      BY DEF S, ToCreate
    <3>3. /\ idem'[h].result = Outcome(w) /\ idem'[h].request = req[w]
          /\ Created(idem'[h].result) = S
      BY <1>3, <1>4, <2>2
    <3>4. ASSUME NEW i \in S
          PROVE  idem'[h].result[i].case = NumberOf(w, i)
      <4>1. Outcome(w)[i] = [status |-> "created", case |-> NumberOf(w, i)]
        BY <1>4
      <4>2. QED
        BY <3>3, <4>1
    <3>5. QED
      BY <1>4, <2>2, <3>1, <3>2, <3>3, <3>4
  <2>3. QED
    BY <2>1, <2>2
<1>9. ReceiptsMatchCases'
  BY <1>7, <1>8 DEF ReceiptsMatchCases, Created
<1>10. ReceiptsAreOwn'
  <2>1. ASSUME NEW h \in Keys, idem'[h] # None
        PROVE  /\ Key(idem'[h].request) = h
               /\ idem'[h].request.kind = "PREFLIGHT" =>
                    Created(idem'[h].result) = {}
    <3>1. CASE h = k
      <4>1. idem'[h].request = req[w]
        BY <1>3, <3>1
      <4>2. QED
        BY <1>2, <3>1, <4>1
    <3>2. CASE h # k
      BY <1>3, <2>1, <3>2 DEF StoreInv, ReceiptsAreOwn
    <3>3. QED
      BY <3>1, <3>2
  <2>2. QED
    BY <1>7, <2>1 DEF ReceiptsAreOwn, Created
<1>11. AnswersAreStored'
  <2> SUFFICES ASSUME NEW a \in answered, a.request.kind # "PREFLIGHT"
               PROVE  a = idem'[Key(a.request)]
    BY DEF AnswersAreStored, CommitEffect
  <2>1. a \in Receipt /\ Key(a.request) \in Keys
    BY RequestFacts DEF TypeInv, Receipt
  <2>2. a = idem[Key(a.request)]
    BY DEF StoreInv, AnswersAreStored
  <2>3. QED
    BY <1>2, <1>3, <2>1, <2>2, NoneAssumption
<1>12. QED
  BY <1>9, <1>10, <1>11
LEMMA StoreOfCommit ==
    ASSUME TypeInv, LockInv, StoreInv, NEW w \in Workers, Commit(w)
    PROVE  StoreInv'
<1>1. pc[w] = "commit" /\ Registers(w)
  BY CommitSteps
<1>2. CASE Return(w) /\ UNCHANGED <<cases, idem, answered, audit, crashes, auditFaults>>
  BY <1>2, StoreOfReturn DEF StoreInv, AnswersAreStored
<1>3. CASE CommitEffect(w)
  <2>1. ASSUME NEW v \in Workers, v # w
        PROVE  Informed(v)'
    <3>1. Inside(w) /\ Stays(v)
      BY <1>1, <1>3, <2>1 DEF Inside, CommitEffect, OthersStay
    <3>2. ~Inside(v)
      BY <2>1, <3>1, OneInside
    <3>3. QED
      BY <3>1, <3>2 DEF Informed, Inside, Registers, Stays
  <2>2. Informed(w)'
    <3>1. Key(req[w]) \in Keys
      BY <1>1, WorkingRequest
    <3>2. QED
      BY <1>1, <1>3, <3>1 DEF Informed, CommitEffect, TypeInv
  <2>3. QED
    BY <1>1, <1>3, <2>1, <2>2, CommitKeepsIdentifiers, CommitKeepsReceipts DEF StoreInv
<1>4. QED
  BY <1>2, <1>3, CommitSteps

(* A report is saved under a key of its own kind, so it is in nobody's way.*)
LEMMA StoreOfReport ==
    ASSUME TypeInv, LockInv, StoreInv, NEW w \in Workers, PutReport(w)
    PROVE  StoreInv'
<1> DEFINE k == Key(req[w])
<1>1. /\ pc[w] = "commit" /\ req[w] \in Requests /\ req[w].kind = "PREFLIGHT"
      /\ k \in Keys /\ UNCHANGED cases
  BY PutReportSteps, RequestFacts
<1>2. CASE Return(w) /\ UNCHANGED <<idem, answered>>
  BY <1>1, <1>2, StoreOfReturn DEF StoreInv, AnswersAreStored
<1>3. CASE /\ Answers(w, Report(w))
           /\ idem' = [idem EXCEPT ![k] =
                         [request |-> req[w], result |-> Report(w)]]
  <2>1. /\ idem'[k].request = req[w] /\ Created(idem'[k].result) = {}
        /\ \A h \in Keys : h # k => idem'[h] = idem[h]
    BY <1>1, <1>3, ReportTypes DEF TypeInv
  <2>2. \A q \in Requests : q.kind # "PREFLIGHT" => Key(q) # k
    BY <1>1, RequestFacts
  <2>3. ASSUME NEW n \in DOMAIN cases
        PROVE  cases[n].key \in Keys /\ cases[n].key # k
    <3>1. cases[n].key \in Keys
      <4>1. cases[n] \in Case
        BY DEF TypeInv
      <4>2. QED
        BY <4>1 DEF Case
    <3>2. /\ idem[cases[n].key] # None
          /\ cases[n].index \in Created(idem[cases[n].key].result)
      <4>1. /\ idem[cases[n].key] # None
            /\ idem[cases[n].key].result[cases[n].index]
                 = [status |-> "created", case |-> n]
            /\ cases[n].index \in DOMAIN idem[cases[n].key].result
        BY DEF StoreInv, ReceiptsMatchCases, ReceiptsAreOwn
      <4>2. idem[cases[n].key].result[cases[n].index].status = "created"
        BY <4>1
      <4>3. QED
        BY <4>1, <4>2 DEF Created
    <3>3. idem[cases[n].key].request.kind # "PREFLIGHT"
      BY <3>1, <3>2 DEF StoreInv, ReceiptsAreOwn
    <3>4. /\ idem[cases[n].key].request \in Requests
          /\ Key(idem[cases[n].key].request) = cases[n].key
      BY <3>1, <3>2, ReceiptTypes DEF StoreInv, ReceiptsAreOwn
    <3>5. QED
      BY <2>2, <3>1, <3>3, <3>4
  <2>4. IdentifiersUnique'
    BY <1>1 DEF StoreInv, IdentifiersUnique
  <2>5. ReceiptsMatchCases'
    <3>1. ASSUME NEW n \in DOMAIN cases
          PROVE  LET saved == idem'[cases[n].key]
                 IN  /\ saved # None
                     /\ saved.result[cases[n].index] = [status |-> "created", case |-> n]
                     /\ saved.request.items[cases[n].index] = cases[n].item
      BY <2>1, <2>3 DEF StoreInv, ReceiptsMatchCases
    <3>2. ASSUME NEW h \in Keys, idem'[h] # None
          PROVE  /\ \A i \in Created(idem'[h].result) :
                      /\ idem'[h].result[i].case \in DOMAIN cases
                      /\ cases[idem'[h].result[i].case].key = h
                 /\ idem'[h].request.kind = "ATOMIC" =>
                      Created(idem'[h].result) \in {{}, DOMAIN idem'[h].result}
      <4>1. CASE h = k
        BY <1>1, <2>1, <4>1
      <4>2. CASE h # k
        <5>1. idem'[h] = idem[h] /\ idem[h] # None
          BY <2>1, <3>2, <4>2
        <5>2. QED
          BY <5>1 DEF StoreInv, ReceiptsMatchCases, Created
      <4>3. QED
        BY <4>1, <4>2
    <3>3. QED
      BY <1>1, <3>1, <3>2 DEF ReceiptsMatchCases, Created
  <2>6. ReceiptsAreOwn'
    <3>1. ASSUME NEW h \in Keys, idem'[h] # None
          PROVE  /\ Key(idem'[h].request) = h
                 /\ idem'[h].request.kind = "PREFLIGHT" =>
                      Created(idem'[h].result) = {}
      BY <2>1, <3>1 DEF StoreInv, ReceiptsAreOwn
    <3>2. \A n \in DOMAIN cases : cases[n].index \in DOMAIN idem'[cases[n].key].result
      BY <2>1, <2>3 DEF StoreInv, ReceiptsAreOwn
    <3>3. QED
      BY <1>1, <3>1, <3>2 DEF ReceiptsAreOwn, Created
  <2>7. AnswersAreStored'
    <3> SUFFICES ASSUME NEW a \in answered', a.request.kind # "PREFLIGHT"
                 PROVE  a = idem'[Key(a.request)]
      BY DEF AnswersAreStored
    <3>1. a \in answered
      BY <1>1, <1>3 DEF Answers
    <3>2. a.request \in Requests /\ Key(a.request) \in Keys
      BY <3>1, RequestFacts DEF TypeInv, Receipt
    <3>3. QED
      BY <2>1, <2>2, <3>1, <3>2 DEF StoreInv, AnswersAreStored
  <2>8. ASSUME NEW v \in Workers
        PROVE  Informed(v)'
    <3>1. CASE v = w
      BY <1>3, <3>1, ReturnEffect DEF Answers, Informed
    <3>2. CASE v # w
      <4>1. Stays(v)
        BY <1>3, <3>2, ReturnEffect DEF Answers, OthersStay
      <4>2. CASE Registers(v)
        <5>1. Key(req[v]) \in Keys /\ Key(req[v]) # k
          BY <2>2, <4>2, WorkingRequest DEF Registers
        <5>2. idem'[Key(req[v])] = idem[Key(req[v])]
          BY <2>1, <5>1
        <5>3. \A item : Taken(item)' <=> Taken(item)
          BY <1>1 DEF Taken
        <5>4. Informed(v)
          BY DEF StoreInv
        <5>5. QED
          BY <4>1, <5>2, <5>3, <5>4 DEF Informed, Stays, Registers
      <4>3. CASE ~Registers(v)
        BY <4>1, <4>3 DEF Informed, Stays, Registers
      <4>4. QED
        BY <4>2, <4>3
    <3>3. QED
      BY <3>1, <3>2
  <2>9. QED
    BY <2>4, <2>5, <2>6, <2>7, <2>8 DEF StoreInv
<1>4. QED
  BY <1>2, <1>3, PutReportSteps

(* The update of a case changes nothing that registrations look at.        *)
LEMMA StoreOfAssess ==
    ASSUME TypeInv, LockInv, StoreInv, NEW w \in Workers,
           NEW n \in DOMAIN cases, Assess(w, n)
    PROVE  StoreInv'
<1>1. /\ OthersStay(w) /\ pc'[w] = "append" /\ req'[w] = req[w]
      /\ UNCHANGED <<idem, answered>> /\ req[w] = None
  BY AssessSteps DEF LockInv, WorkerOK
<1>2. /\ DOMAIN cases' = DOMAIN cases
      /\ \A m \in DOMAIN cases : /\ cases'[m].item = cases[m].item
                                 /\ cases'[m].key = cases[m].key
                                 /\ cases'[m].index = cases[m].index
  <2>1. cases' = [cases EXCEPT ![n].rev = 2]
    BY DEF Assess
  <2>2. DOMAIN cases' = DOMAIN cases
    BY <2>1
  <2>3. \A m \in DOMAIN cases : m # n => cases'[m] = cases[m]
    BY <2>1
  <2>4. cases'[n] = [cases[n] EXCEPT !.rev = 2]
    BY <2>1
  <2>5. cases[n] \in Case
    BY DEF TypeInv
  <2>6. /\ cases'[n].item = cases[n].item /\ cases'[n].key = cases[n].key
        /\ cases'[n].index = cases[n].index
    BY <2>4, <2>5 DEF Case
  <2>7. QED
    BY <2>2, <2>3, <2>6
<1>3. \A item : Taken(item)' <=> Taken(item)
  BY <1>2 DEF Taken
<1>4. IdentifiersUnique'
  BY <1>2 DEF StoreInv, IdentifiersUnique
<1>5. ReceiptsMatchCases'
  BY <1>1, <1>2 DEF StoreInv, ReceiptsMatchCases
<1>6. ReceiptsAreOwn' /\ AnswersAreStored'
  BY <1>1, <1>2 DEF StoreInv, ReceiptsAreOwn, AnswersAreStored
<1>7. ASSUME NEW v \in Workers
      PROVE  Informed(v)'
  <2>1. CASE v = w
    BY <1>1, <2>1 DEF Informed, Registers
  <2>2. CASE v # w
    BY <1>1, <1>3, <2>2 DEF StoreInv, Informed, Registers, OthersStay, Stays
  <2>3. QED
    BY <2>1, <2>2
<1>8. QED
  BY <1>4, <1>5, <1>6, <1>7 DEF StoreInv

LEMMA StoreOfAnswer ==
    ASSUME TypeInv, StoreInv, NEW w \in Workers, UNCHANGED <<cases, idem>>,
           NEW r, Answers(w, r),
           req[w].kind # "PREFLIGHT" =>
             [request |-> req[w], result |-> r] = idem[Key(req[w])]
    PROVE  StoreInv'
<1>1. AnswersAreStored'
  BY DEF Answers, StoreInv, AnswersAreStored
<1>2. QED
  BY <1>1, StoreOfReturn DEF Answers

LEMMA StoreStep == TypeInv /\ LockInv /\ StoreInv /\ [Next]_vars => StoreInv'
<1> SUFFICES ASSUME TypeInv, LockInv, StoreInv, [Next]_vars
             PROVE  StoreInv'
  OBVIOUS
<1>1. ASSUME NEW w \in Workers, NEW q \in Requests, Receive(w, q)
      PROVE  StoreInv'
  <2>1. /\ OthersStay(w) /\ pc'[w] \in {"lookup", "createMu"}
        /\ UNCHANGED <<cases, idem, answered>>
    BY <1>1 DEF Receive, TypeInv, OthersStay, Stays
  <2>2. QED
    BY <2>1, StoreFrame DEF Informed, StoreInv, AnswersAreStored
<1>2. ASSUME NEW w \in Workers, LockCreateMu(w)
      PROVE  StoreInv'
  <2>1. /\ OthersStay(w) /\ pc'[w] = "lookup"
        /\ UNCHANGED <<cases, idem, answered>>
    BY <1>2 DEF LockCreateMu, TypeInv, OthersStay, Stays
  <2>2. QED
    BY <2>1, StoreFrame DEF Informed, StoreInv, AnswersAreStored
<1>3. ASSUME NEW w \in Workers, Lookup(w)
      PROVE  StoreInv'
  <2>1. /\ UNCHANGED <<cases, idem>> /\ pc[w] = "lookup"
        /\ req[w] \in Requests /\ Key(req[w]) \in Keys
    BY <1>3, LookupSteps, RequestFacts
  <2>2. CASE /\ idem[Key(req[w])] # None /\ idem[Key(req[w])].request = req[w]
             /\ Answers(w, idem[Key(req[w])].result)
    BY <2>1, <2>2, ReceiptTypes, StoreOfAnswer
  <2>3. CASE Return(w) /\ UNCHANGED answered
    BY <2>1, <2>3, StoreOfReturn DEF StoreInv, AnswersAreStored
  <2>4. CASE /\ idem[Key(req[w])] = None /\ OthersStay(w) /\ pc'[w] = "check"
             /\ UNCHANGED <<req, verdicts, answered>>
    <3>1. verdicts[w] = <<>>
      BY <2>1 DEF LockInv, WorkerOK
    <3>2. Informed(w)'
      BY <2>1, <2>4, <3>1 DEF Informed, Registers
    <3>3. QED
      BY <2>1, <2>4, <3>2, StoreFrame DEF StoreInv, AnswersAreStored
  <2>5. QED
    BY <1>3, <2>2, <2>3, <2>4, LookupSteps
<1>4. ASSUME NEW w \in Workers, CheckItem(w)
      PROVE  StoreInv'
  <2> DEFINE i == Len(verdicts[w]) + 1
  <2>1. /\ UNCHANGED <<cases, idem, answered>> /\ pc[w] = "check"
    BY <1>4, CheckItemSteps
  <2>2. CASE Return(w)
    BY <2>1, <2>2, StoreOfReturn DEF StoreInv, AnswersAreStored
  <2>3. CASE /\ OthersStay(w) /\ pc'[w] \in {"check", "commit"} /\ req' = req
             /\ i \in DOMAIN req[w].items
             /\ verdicts'[w] = Append(verdicts[w], Verdict(req[w], i))
    <3>1. verdicts[w] \in Seq(Verdicts)
      BY DEF TypeInv
    <3>2. ASSUME NEW j \in DOMAIN verdicts'[w]
          PROVE  \/ j \in DOMAIN verdicts[w] /\ verdicts'[w][j] = verdicts[w][j]
                 \/ j = i /\ verdicts'[w][j] = Verdict(req[w], i)
      BY <2>3, <3>1
    <3>3. ASSUME Registers(w), Verdict(req[w], i) = "ok"
          PROVE  /\ BatchVerdict(req[w].items, i) = "ok"
                 /\ ~Taken(req[w].items[i])
      BY <3>3 DEF Verdict, Registers
    <3>4. \A item : Taken(item)' <=> Taken(item)
      BY <2>1 DEF Taken
    <3>5. Registers(w)' <=> Registers(w)
      BY <2>3 DEF Registers
    <3>6. CASE Registers(w)
      <4>1. /\ idem[Key(req[w])] = None
            /\ \A j \in DOMAIN verdicts[w] : verdicts[w][j] = "ok" =>
                 /\ BatchVerdict(req[w].items, j) = "ok"
                 /\ ~Taken(req[w].items[j])
        BY <2>1, <3>6 DEF StoreInv, Informed
      <4>2. \A j \in DOMAIN verdicts'[w] : verdicts'[w][j] = "ok" =>
                 /\ BatchVerdict(req[w].items, j) = "ok"
                 /\ ~Taken(req[w].items[j])
        BY <3>2, <3>3, <3>6, <4>1
      <4>3. Informed(w)'
        BY <2>1, <2>3, <3>4, <4>1, <4>2 DEF Informed
      <4>4. QED
        BY <2>1, <2>3, <4>3, StoreFrame DEF StoreInv, AnswersAreStored
    <3>7. CASE ~Registers(w)
      <4>1. Informed(w)'
        BY <3>5, <3>7 DEF Informed
      <4>2. QED
        BY <2>1, <2>3, <4>1, StoreFrame DEF StoreInv, AnswersAreStored
    <3>8. QED
      BY <3>6, <3>7
  <2>4. QED
    BY <1>4, <2>2, <2>3, CheckItemSteps
<1>5. ASSUME NEW w \in Workers, Commit(w)
      PROVE  StoreInv'
  BY <1>5, StoreOfCommit
<1>6. ASSUME NEW w \in Workers, PutReport(w)
      PROVE  StoreInv'
  BY <1>6, StoreOfReport
<1>7. ASSUME NEW w \in Workers, AuditAppend(w)
      PROVE  StoreInv'
  <2>1. OthersStay(w) /\ UNCHANGED <<cases, idem, pc, req, verdicts, result, answered>>
    BY <1>7, AuditAppendSteps
  <2>2. Informed(w)'
    BY <2>1 DEF StoreInv, Informed, Registers, Taken
  <2>3. QED
    BY <2>1, <2>2, StoreFrame DEF StoreInv, AnswersAreStored
<1>8. ASSUME NEW w \in Workers, AuditFail(w)
      PROVE  StoreInv'
  BY <1>8, StoreOfReturn DEF AuditFail, Refuse, StoreInv, AnswersAreStored
<1>9. ASSUME NEW w \in Workers, Answer(w)
      PROVE  StoreInv'
  <2>1. pc[w] = "append" /\ UNCHANGED <<cases, idem>>
    BY <1>9, AnswerSteps
  <2>2. CASE req[w] # None /\ Answers(w, result[w])
    <3>1. Registers(w)
      BY <2>1, <2>2 DEF LockInv, WorkerOK
    <3>2. [request |-> req[w], result |-> result[w]] = idem[Key(req[w])]
      BY <2>1, <3>1 DEF StoreInv, Informed
    <3>3. QED
      BY <2>1, <2>2, <3>2, StoreOfAnswer
  <2>3. CASE Return(w) /\ UNCHANGED answered
    BY <2>1, <2>3, StoreOfReturn DEF StoreInv, AnswersAreStored
  <2>4. QED
    BY <1>9, <2>2, <2>3, AnswerSteps
<1>10. ASSUME NEW w \in Workers, NEW n \in DOMAIN cases, Assess(w, n)
       PROVE  StoreInv'
  BY <1>10, StoreOfAssess
<1>11. CASE Crash
  <2>1. \A v \in Workers : Informed(v)'
    BY <1>11 DEF Crash, Informed
  <2>2. UNCHANGED <<cases, idem, answered>>
    BY <1>11 DEF Crash
  <2>3. QED
    BY <2>1, <2>2, StoreStill DEF StoreInv, AnswersAreStored
<1>12. CASE UNCHANGED vars
  <2>1. UNCHANGED <<cases, idem, answered, pc, req, verdicts, result>>
    BY <1>12 DEF vars, localVars
  <2>2. \A v \in Workers : Informed(v)'
    BY <2>1 DEF StoreInv, Informed, Registers, Taken
  <2>3. QED
    BY <2>1, <2>2, StoreStill DEF StoreInv, AnswersAreStored
<1>13. QED
  BY <1>1, <1>2, <1>3, <1>4, <1>5, <1>6, <1>7, <1>8, <1>9, <1>10, <1>11, <1>12
     DEF Next, Step
-----------------------------------------------------------------------------
(***************************************************************************)
(* The audit.                                                              *)
(***************************************************************************)
LEMMA AuditFrame ==
    ASSUME AuditInv, cases' = cases, audit' = audit,
           \A v \in Workers : pending'[v] = pending[v] \/ pending'[v] = <<>>
    PROVE  AuditInv'
<1>1. \A e : EventOK(cases', e) <=> EventOK(cases, e)
  BY DEF EventOK
<1>2. \A v \in Workers : /\ DOMAIN pending'[v] \subseteq DOMAIN pending[v]
                         /\ \A i \in DOMAIN pending'[v] :
                              pending'[v][i] = pending[v][i]
  OBVIOUS
<1>3. QED
  BY <1>1, <1>2 DEF AuditInv

(* A worker takes events in hand that could not have been there before.    *)
LEMMA AuditFresh ==
    ASSUME AuditInv, NEW w \in Workers, OthersStay(w), audit' = audit,
           \A e : EventOK(cases, e) => EventOK(cases', e),
           \A i \in DOMAIN pending'[w] :
             EventOK(cases', pending'[w][i]) /\ ~EventOK(cases, pending'[w][i]),
           \A i, j \in DOMAIN pending'[w] :
             pending'[w][i] = pending'[w][j] => i = j
    PROVE  AuditInv'
<1>1. \A i \in DOMAIN audit' : audit'[i] = audit[i] /\ EventOK(cases, audit[i])
  BY DEF AuditInv
<1>2. \A v \in Workers \ {w} : /\ pending'[v] = pending[v]
                               /\ \A i \in DOMAIN pending[v] : EventOK(cases, pending[v][i])
  BY DEF AuditInv, OthersStay, Stays
<1>3. \A v \in Workers : \A i \in DOMAIN pending'[v] : EventOK(cases', pending'[v][i])
  BY <1>2
<1>4. \A i, j \in DOMAIN audit' : audit'[i] = audit'[j] => i = j
  BY DEF AuditInv
<1>5. \A v \in Workers : \A i, j \in DOMAIN pending'[v] :
        pending'[v][i] = pending'[v][j] => i = j
  BY <1>2 DEF AuditInv
<1>6. \A v \in Workers : \A i \in DOMAIN pending'[v], j \in DOMAIN audit' :
        pending'[v][i] # audit'[j]
  BY <1>1, <1>2 DEF AuditInv
<1>7. \A u, v \in Workers : u # v =>
        \A i \in DOMAIN pending'[u], j \in DOMAIN pending'[v] :
          pending'[u][i] # pending'[v][j]
  BY <1>2 DEF AuditInv
<1>8. QED
  BY <1>1, <1>3, <1>4, <1>5, <1>6, <1>7 DEF AuditInv

LEMMA AuditOfCommit ==
    ASSUME TypeInv, LockInv, AuditInv, NEW w \in Workers, pc[w] = "commit",
           CommitEffect(w)
    PROVE  AuditInv'
<1> DEFINE L == Len(cases)
           N == Len(NewCases(w))
<1>1. /\ L \in Nat /\ N \in Nat
      /\ DOMAIN cases = 1..L /\ DOMAIN cases' = 1..(L + N)
      /\ DOMAIN NewCases(w) = 1..N
      /\ \A n \in 1..L : cases'[n] = cases[n]
  BY CommittedCases
<1>2. /\ DOMAIN pending'[w] = 1..N
      /\ \A n \in 1..N : pending'[w][n] = Event("REGISTERED", L + n)
  BY <1>1 DEF CommitEffect, Registrations
<1> HIDE DEF L, N
<1>3. \A e : EventOK(cases, e) => EventOK(cases', e)
  BY <1>1 DEF EventOK
<1>4. ASSUME NEW n \in 1..N
      PROVE  EventOK(cases', pending'[w][n]) /\ ~EventOK(cases, pending'[w][n])
  <2>1. L + n \in 1..(L + N) /\ L + n \notin 1..L
    BY <1>1
  <2>2. pending'[w][n].case = L + n /\ pending'[w][n].type = "REGISTERED"
    BY <1>2, EventFields
  <2>3. QED
    BY <1>1, <2>1, <2>2 DEF EventOK
<1>5. ASSUME NEW m \in 1..N, NEW n \in 1..N, pending'[w][m] = pending'[w][n]
      PROVE  m = n
  <2>1. L + m = L + n
    BY <1>2, <1>5, EventFields
  <2>2. QED
    BY <1>1, <2>1
<1>6. OthersStay(w) /\ audit' = audit
  BY DEF CommitEffect
<1>7. QED
  BY <1>2, <1>3, <1>4, <1>5, <1>6, AuditFresh

LEMMA AuditOfAssess ==
    ASSUME TypeInv, AuditInv, NEW w \in Workers,
           NEW n \in DOMAIN cases, Assess(w, n)
    PROVE  AuditInv'
<1>1. /\ OthersStay(w) /\ audit' = audit
      /\ cases[n].rev = 1 /\ pending'[w] = <<Event("ASSESSED", n)>>
  BY AssessSteps
<1>2. /\ DOMAIN cases' = DOMAIN cases /\ cases'[n].rev = 2
      /\ \A m \in DOMAIN cases : m # n => cases'[m] = cases[m]
  <2>1. cases' = [cases EXCEPT ![n].rev = 2]
    BY AssessSteps
  <2>2. cases[n] \in Case
    BY DEF TypeInv
  <2>3. cases'[n] = [cases[n] EXCEPT !.rev = 2]
    BY <2>1
  <2>4. cases'[n].rev = 2
    BY <2>2, <2>3 DEF Case
  <2>5. QED
    BY <2>1, <2>4
<1>3. \A e : EventOK(cases, e) => EventOK(cases', e)
  BY <1>2 DEF EventOK
<1>4. /\ DOMAIN pending'[w] = {1} /\ pending'[w][1] = Event("ASSESSED", n)
  BY <1>1
<1>5. EventOK(cases', Event("ASSESSED", n)) /\ ~EventOK(cases, Event("ASSESSED", n))
  BY <1>1, <1>2 DEF EventOK, Event
<1>6. QED
  BY <1>1, <1>3, <1>4, <1>5, AuditFresh

(* An event goes from the hands of a worker into the audit.                *)
LEMMA AuditOfAppend ==
    ASSUME TypeInv, AuditInv, NEW w \in Workers, AuditAppend(w)
    PROVE  AuditInv'
<1> DEFINE p == pending[w]
           n == Len(audit) + 1
<1>1. /\ p \in Seq(Events) /\ p # <<>> /\ audit \in Seq(Events)
      /\ audit' = Append(audit, Head(p)) /\ pending'[w] = Tail(p)
      /\ OthersStay(w) /\ cases' = cases
  BY AuditAppendSteps DEF TypeInv
<1>2. /\ 1 \in DOMAIN p /\ Head(p) = p[1]
      /\ \A i \in DOMAIN Tail(p) : /\ i + 1 \in DOMAIN p /\ Tail(p)[i] = p[i + 1]
                                   /\ i \in Int /\ i + 1 # 1
  BY <1>1
<1>3. /\ \A i \in DOMAIN audit' :
           \/ i \in DOMAIN audit /\ audit'[i] = audit[i]
           \/ i = n /\ audit'[i] = p[1]
  BY <1>1, <1>2
<1> HIDE DEF n
<1>4. \A e : EventOK(cases', e) <=> EventOK(cases, e)
  BY <1>1 DEF EventOK
<1>5. \A v \in Workers \ {w} : pending'[v] = pending[v]
  BY <1>1 DEF OthersStay, Stays
<1>6. ASSUME NEW v \in Workers, NEW i \in DOMAIN pending'[v]
      PROVE  /\ \E j \in DOMAIN pending[v] : pending'[v][i] = pending[v][j]
             /\ pending'[v][i] # p[1]
  <2>1. CASE v = w
    <3>1. i + 1 \in DOMAIN p /\ pending'[w][i] = p[i + 1] /\ i + 1 # 1
      BY <1>1, <1>2, <1>6, <2>1
    <3>2. p[i + 1] # p[1]
      BY <1>2, <3>1 DEF AuditInv
    <3>3. QED
      BY <2>1, <3>1, <3>2
  <2>2. CASE v # w
    BY <1>2, <1>5, <1>6, <2>2 DEF AuditInv
  <2>3. QED
    BY <2>1, <2>2
<1>7. \A i \in DOMAIN audit' : EventOK(cases', audit'[i])
  BY <1>2, <1>3, <1>4 DEF AuditInv
<1>8. \A v \in Workers : \A i \in DOMAIN pending'[v] : EventOK(cases', pending'[v][i])
  BY <1>4, <1>6 DEF AuditInv
<1>9. \A i, j \in DOMAIN audit' : audit'[i] = audit'[j] => i = j
  BY <1>2, <1>3 DEF AuditInv
<1>10. ASSUME NEW v \in Workers, NEW i \in DOMAIN pending'[v],
              NEW j \in DOMAIN pending'[v], pending'[v][i] = pending'[v][j]
       PROVE  i = j
  <2>1. CASE v = w
    <3>1. p[i + 1] = p[j + 1] /\ i \in Int /\ j \in Int
          /\ i + 1 \in DOMAIN p /\ j + 1 \in DOMAIN p
      BY <1>1, <1>2, <1>10, <2>1
    <3>2. i + 1 = j + 1
      BY <3>1 DEF AuditInv
    <3>3. QED
      BY <3>1, <3>2
  <2>2. CASE v # w
    BY <1>5, <1>10, <2>2 DEF AuditInv
  <2>3. QED
    BY <2>1, <2>2
<1>11. \A v \in Workers : \A i \in DOMAIN pending'[v], j \in DOMAIN audit' :
         pending'[v][i] # audit'[j]
  BY <1>3, <1>6 DEF AuditInv
<1>12. \A u, v \in Workers : u # v =>
         \A i \in DOMAIN pending'[u], j \in DOMAIN pending'[v] :
           pending'[u][i] # pending'[v][j]
  BY <1>6 DEF AuditInv
<1>13. QED
  BY <1>7, <1>8, <1>9, <1>10, <1>11, <1>12 DEF AuditInv
LEMMA AuditOfReturn ==
    ASSUME TypeInv, AuditInv, NEW w \in Workers, Return(w),
           cases' = cases, audit' = audit
    PROVE  AuditInv'
<1>1. \A v \in Workers : pending'[v] = pending[v] \/ pending'[v] = <<>>
  BY ReturnEffect DEF OthersStay, Stays
<1>2. QED
  BY <1>1, AuditFrame

LEMMA AuditStep ==
    TypeInv /\ LockInv /\ AuditInv /\ [Next]_vars => AuditInv'
<1> SUFFICES ASSUME TypeInv, LockInv, AuditInv, [Next]_vars
             PROVE  AuditInv'
  OBVIOUS
<1>1. ASSUME NEW w \in Workers, NEW q \in Requests, Receive(w, q)
      PROVE  AuditInv'
  BY <1>1, AuditFrame DEF Receive
<1>2. ASSUME NEW w \in Workers, LockCreateMu(w)
      PROVE  AuditInv'
  BY <1>2, AuditFrame DEF LockCreateMu
<1>3. ASSUME NEW w \in Workers, Lookup(w)
      PROVE  AuditInv'
  BY <1>3, LookupSteps, AuditOfReturn, AuditFrame DEF Answers
<1>4. ASSUME NEW w \in Workers, CheckItem(w)
      PROVE  AuditInv'
  BY <1>4, CheckItemSteps, AuditOfReturn, AuditFrame
<1>5. ASSUME NEW w \in Workers, Commit(w)
      PROVE  AuditInv'
  BY <1>5, CommitSteps, AuditOfReturn, AuditOfCommit
<1>6. ASSUME NEW w \in Workers, PutReport(w)
      PROVE  AuditInv'
  BY <1>6, PutReportSteps, AuditOfReturn DEF Answers
<1>7. ASSUME NEW w \in Workers, AuditAppend(w)
      PROVE  AuditInv'
  BY <1>7, AuditOfAppend
<1>8. ASSUME NEW w \in Workers, AuditFail(w)
      PROVE  AuditInv'
  BY <1>8, AuditOfReturn DEF AuditFail, Refuse
<1>9. ASSUME NEW w \in Workers, Answer(w)
      PROVE  AuditInv'
  BY <1>9, AnswerSteps, AuditOfReturn DEF Answers
<1>10. ASSUME NEW w \in Workers, NEW n \in DOMAIN cases, Assess(w, n)
       PROVE  AuditInv'
  BY <1>10, AuditOfAssess
<1>11. CASE Crash
  BY <1>11, AuditFrame DEF Crash
<1>12. CASE UNCHANGED vars
  BY <1>12, AuditFrame DEF vars, localVars
<1>13. QED
  BY <1>1, <1>2, <1>3, <1>4, <1>5, <1>6, <1>7, <1>8, <1>9, <1>10, <1>11, <1>12
     DEF Next, Step

(* As long as nothing fails, a worker lets go of events only by appending  *)
(* them.                                                                   *)
LEMMA ReachFrame ==
    ASSUME RegistrationsReachAudit, audit' = audit, DOMAIN cases' = DOMAIN cases,
           crashes' = crashes, auditFaults' = auditFaults,
           \A v \in Workers : pending'[v] = pending[v] \/ pending[v] = <<>>
    PROVE  RegistrationsReachAudit'
<1>1. \A n : Audited(n) => Audited(n)'
  BY DEF Audited
<1>2. ASSUME NEW n, InHand(n)
      PROVE  InHand(n)'
  <2>1. PICK v \in Workers : \E i \in DOMAIN pending[v] :
          pending[v][i] = Event("REGISTERED", n)
    BY <1>2 DEF InHand
  <2>2. pending'[v] = pending[v]
    BY <2>1
  <2>3. QED
    BY <2>1, <2>2 DEF InHand
<1>3. QED
  BY <1>1, <1>2 DEF RegistrationsReachAudit

LEMMA ReachOfReturn ==
    ASSUME TypeInv, RegistrationsReachAudit, NEW w \in Workers, Return(w),
           pending[w] = <<>>, UNCHANGED <<cases, audit, crashes, auditFaults>>
    PROVE  RegistrationsReachAudit'
<1>1. \A v \in Workers : pending'[v] = pending[v] \/ pending[v] = <<>>
  BY ReturnEffect DEF OthersStay, Stays
<1>2. QED
  BY <1>1, ReachFrame

LEMMA ReachOfCommit ==
    ASSUME TypeInv, LockInv, RegistrationsReachAudit, NEW w \in Workers,
           pc[w] = "commit", CommitEffect(w)
    PROVE  RegistrationsReachAudit'
<1> DEFINE L == Len(cases)
           N == Len(NewCases(w))
<1>1. /\ L \in Nat /\ N \in Nat
      /\ DOMAIN cases = 1..L /\ DOMAIN cases' = 1..(L + N)
      /\ DOMAIN NewCases(w) = 1..N
      /\ \A m \in 1..(L + N) : m \in 1..L \/ m - L \in 1..N
  BY CommittedCases
<1>2. /\ DOMAIN pending'[w] = 1..N
      /\ \A n \in 1..N : pending'[w][n] = Event("REGISTERED", L + n)
  BY <1>1 DEF CommitEffect, Registrations
<1> HIDE DEF L, N
<1> SUFFICES ASSUME crashes' = 0, auditFaults' = 0, NEW n \in DOMAIN cases'
             PROVE  Audited(n)' \/ InHand(n)'
  BY DEF RegistrationsReachAudit
<1>3. CASE n \in 1..L
  <2>1. Audited(n) \/ InHand(n)
    BY <1>1, <1>3 DEF RegistrationsReachAudit, CommitEffect
  <2>2. CASE Audited(n)
    BY <2>2 DEF Audited, CommitEffect
  <2>3. CASE InHand(n)
    <3>1. PICK v \in Workers : \E i \in DOMAIN pending[v] :
            pending[v][i] = Event("REGISTERED", n)
      BY <2>3 DEF InHand
    <3>2. v # w
      BY <3>1 DEF LockInv, WorkerOK
    <3>3. pending'[v] = pending[v]
      BY <3>2 DEF CommitEffect, OthersStay, Stays
    <3>4. QED
      BY <3>1, <3>3 DEF InHand
  <2>4. QED
    BY <2>1, <2>2, <2>3
<1>4. CASE n - L \in 1..N
  <2>1. L + (n - L) = n
    BY <1>1
  <2>2. QED
    BY <1>2, <1>4, <2>1 DEF InHand
<1>5. QED
  BY <1>1, <1>3, <1>4

LEMMA ReachOfAppend ==
    ASSUME TypeInv, RegistrationsReachAudit, NEW w \in Workers, AuditAppend(w)
    PROVE  RegistrationsReachAudit'
<1> DEFINE p == pending[w]
<1>1. /\ p \in Seq(Events) /\ p # <<>> /\ audit \in Seq(Events)
      /\ audit' = Append(audit, Head(p)) /\ pending'[w] = Tail(p)
      /\ OthersStay(w)
      /\ UNCHANGED <<cases, crashes, auditFaults>>
  BY AuditAppendSteps DEF TypeInv
<1>2. /\ \A i \in DOMAIN audit : i \in DOMAIN audit' /\ audit'[i] = audit[i]
      /\ Len(audit) + 1 \in DOMAIN audit' /\ audit'[Len(audit) + 1] = p[1]
  BY <1>1
<1>3. \A i \in DOMAIN p : i = 1 \/ /\ i - 1 \in DOMAIN Tail(p)
                                   /\ Tail(p)[i - 1] = p[i]
  BY <1>1
<1>4. \A n : Audited(n) => Audited(n)'
  BY <1>2 DEF Audited
<1>5. ASSUME NEW n, InHand(n)
      PROVE  Audited(n)' \/ InHand(n)'
  <2>0. PICK v \in Workers : \E i \in DOMAIN pending[v] :
          pending[v][i] = Event("REGISTERED", n)
    BY <1>5 DEF InHand
  <2>1. PICK i \in DOMAIN pending[v] : pending[v][i] = Event("REGISTERED", n)
    BY <2>0
  <2>2. CASE v # w
    BY <1>1, <2>1, <2>2 DEF InHand, OthersStay, Stays
  <2>3. CASE v = w /\ i = 1
    BY <1>2, <2>1, <2>3 DEF Audited
  <2>4. CASE v = w /\ i # 1
    BY <1>1, <1>3, <2>1, <2>4 DEF InHand
  <2>5. QED
    BY <2>2, <2>3, <2>4
<1>6. QED
  BY <1>1, <1>4, <1>5 DEF RegistrationsReachAudit

LEMMA ReachOfAssess ==
    ASSUME TypeInv, LockInv, RegistrationsReachAudit, NEW w \in Workers,
           NEW n \in DOMAIN cases, Assess(w, n)
    PROVE  RegistrationsReachAudit'
<1>1. /\ pc[w] = "idle" /\ OthersStay(w)
      /\ UNCHANGED <<audit, crashes, auditFaults>>
      /\ DOMAIN cases' = DOMAIN cases
  BY AssessSteps DEF Assess
<1>2. pending[w] = <<>>
  BY <1>1 DEF LockInv, WorkerOK
<1>3. QED
  BY <1>1, <1>2, ReachFrame DEF OthersStay, Stays

LEMMA ReachStep ==
    TypeInv /\ LockInv /\ RegistrationsReachAudit /\ [Next]_vars
      => RegistrationsReachAudit'
<1> SUFFICES ASSUME TypeInv, LockInv, RegistrationsReachAudit, [Next]_vars
             PROVE  RegistrationsReachAudit'
  OBVIOUS
<1>0. \A w \in Workers : pc[w] # "append" => pending[w] = <<>>
  BY DEF LockInv, WorkerOK
<1>1. ASSUME NEW w \in Workers, NEW q \in Requests, Receive(w, q)
      PROVE  RegistrationsReachAudit'
  BY <1>1, ReachFrame DEF Receive
<1>2. ASSUME NEW w \in Workers, LockCreateMu(w)
      PROVE  RegistrationsReachAudit'
  BY <1>2, ReachFrame DEF LockCreateMu
<1>3. ASSUME NEW w \in Workers, Lookup(w)
      PROVE  RegistrationsReachAudit'
  BY <1>0, <1>3, LookupSteps, ReachOfReturn, ReachFrame DEF Answers
<1>4. ASSUME NEW w \in Workers, CheckItem(w)
      PROVE  RegistrationsReachAudit'
  BY <1>0, <1>4, CheckItemSteps, ReachOfReturn, ReachFrame
<1>5. ASSUME NEW w \in Workers, Commit(w)
      PROVE  RegistrationsReachAudit'
  BY <1>0, <1>5, CommitSteps, ReachOfReturn, ReachOfCommit
<1>6. ASSUME NEW w \in Workers, PutReport(w)
      PROVE  RegistrationsReachAudit'
  BY <1>0, <1>6, PutReportSteps, ReachOfReturn DEF Answers
<1>7. ASSUME NEW w \in Workers, AuditAppend(w)
      PROVE  RegistrationsReachAudit'
  BY <1>7, ReachOfAppend
<1>8. ASSUME NEW w \in Workers, AuditFail(w)
      PROVE  RegistrationsReachAudit'
  <2>1. auditFaults' = auditFaults + 1 /\ auditFaults \in Nat
    BY <1>8 DEF AuditFail, TypeInv
  <2>2. QED
    BY <2>1 DEF RegistrationsReachAudit
<1>9. ASSUME NEW w \in Workers, Answer(w)
      PROVE  RegistrationsReachAudit'
  BY <1>9, AnswerSteps, ReachOfReturn DEF Answers
<1>10. ASSUME NEW w \in Workers, NEW n \in DOMAIN cases, Assess(w, n)
       PROVE  RegistrationsReachAudit'
  BY <1>10, ReachOfAssess
<1>11. CASE Crash
  <2>1. crashes' = crashes + 1 /\ crashes \in Nat
    BY <1>11 DEF Crash, TypeInv
  <2>2. QED
    BY <2>1 DEF RegistrationsReachAudit
<1>12. CASE UNCHANGED vars
  BY <1>12, ReachFrame DEF vars, localVars
<1>13. QED
  BY <1>1, <1>2, <1>3, <1>4, <1>5, <1>6, <1>7, <1>8, <1>9, <1>10, <1>11, <1>12
     DEF Next, Step

-----------------------------------------------------------------------------
(***************************************************************************)
(* The theorems.                                                           *)
(***************************************************************************)
LEMMA InitiallyEmpty == Init => RegistryInv /\ RegistrationsReachAudit
<1> SUFFICES ASSUME Init
             PROVE  RegistryInv /\ RegistrationsReachAudit
  OBVIOUS
<1>1. /\ <<>> \in Seq(Case) /\ <<>> \in Seq(Verdicts) /\ <<>> \in Seq(Entry)
      /\ <<>> \in Seq(Events)
  OBVIOUS
<1>2. TypeInv
  BY <1>1 DEF Init, TypeInv, Places
<1>3. LockInv
  BY NoneAssumption DEF Init, LockInv, WorkerOK, Inside, Registers
<1>4. StoreInv
  <2>1. IdentifiersUnique
    BY DEF Init, IdentifiersUnique
  <2>2. ReceiptsMatchCases
    BY DEF Init, ReceiptsMatchCases
  <2>3. ReceiptsAreOwn /\ AnswersAreStored
    BY DEF Init, ReceiptsAreOwn, AnswersAreStored
  <2>4. \A w \in Workers : Informed(w)
    BY DEF Init, Informed
  <2>5. QED
    BY <2>1, <2>2, <2>3, <2>4 DEF StoreInv
<1>5. AuditInv
  BY DEF Init, AuditInv
<1>6. RegistrationsReachAudit
  BY DEF Init, RegistrationsReachAudit
<1>7. QED
  BY <1>2, <1>3, <1>4, <1>5, <1>6 DEF RegistryInv

(* The inductive invariant: types, createMu is a mutex of registrations,   *)
(* receipts, cases and answers tell the same, what a registration has      *)
(* found out is still true, and no event is in two places.                 *)
THEOREM RegistryInvariant == Spec => []RegistryInv
<1>1. Init => RegistryInv
  BY InitiallyEmpty
<1>2. RegistryInv /\ [Next]_vars => RegistryInv'
  BY TypeStep, LockStep, StoreStep, AuditStep DEF RegistryInv
<1>3. QED
  BY <1>1, <1>2, PTL DEF Spec

(* No identifier names two cases, nor one case twice, whether they were    *)
(* registered one by one, in a batch, or concurrently.                     *)
THEOREM IdentifiersAreUnique == Spec => []IdentifiersUnique
<1>1. RegistryInv => IdentifiersUnique
  BY DEF RegistryInv, StoreInv
<1>2. QED
  BY <1>1, RegistryInvariant, PTL

(* The stored receipts tell which cases there are and what they were       *)
(* registered from, and an atomic batch is created whole or not at all.    *)
THEOREM ReceiptsTellTheCases == Spec => []ReceiptsMatchCases
<1>1. RegistryInv => ReceiptsMatchCases
  BY DEF RegistryInv, StoreInv
<1>2. QED
  BY <1>1, RegistryInvariant, PTL

(* A registration is effective at most once, and audited at most once.     *)
THEOREM RegistrationsHappenOnce == Spec => []RegisteredOnce
<1>1. ASSUME RegistryInv
      PROVE  RegisteredOnce
  <2>1. ASSUME NEW m \in DOMAIN cases, NEW n \in DOMAIN cases,
               cases[m].key = cases[n].key, cases[m].index = cases[n].index
        PROVE  m = n
    <3>1. [status |-> "created", case |-> m] = [status |-> "created", case |-> n]
      BY <1>1, <2>1 DEF RegistryInv, StoreInv, ReceiptsMatchCases
    <3>2. QED
      BY <3>1
  <2>2. \A i, j \in DOMAIN audit : audit[i] = audit[j] => i = j
    BY <1>1 DEF RegistryInv, AuditInv
  <2>3. QED
    BY <2>1, <2>2 DEF RegisteredOnce
<1>2. QED
  BY <1>1, RegistryInvariant, PTL

(* However often a registration is sent, it gets the same answer.          *)
THEOREM RetriesGetOneAnswer == Spec => []AnswersAgree
<1>1. RegistryInv => AnswersAgree
  <2> SUFFICES ASSUME RegistryInv, NEW a \in answered, NEW b \in answered,
                      Key(a.request) = Key(b.request),
                      a.request.kind # "PREFLIGHT"
               PROVE  a = b
    BY DEF AnswersAgree
  <2>1. a.request \in Requests /\ b.request \in Requests
    BY DEF RegistryInv, TypeInv, Receipt
  <2>2. b.request.kind # "PREFLIGHT"
    BY <2>1, RequestFacts
  <2>3. QED
    BY <2>2 DEF RegistryInv, StoreInv, AnswersAreStored
<1>2. QED
  BY <1>1, RegistryInvariant, PTL

(* What a registration has found free stays free until it commits: the     *)
(* second look of the store at the identifiers never finds a conflict.     *)
THEOREM CheckedItemsStayFree == Spec => []CheckedStaysFree
<1>1. ASSUME RegistryInv
      PROVE  CheckedStaysFree
  <2> SUFFICES ASSUME NEW w \in Workers, pc[w] = "commit",
                      req[w].kind # "PREFLIGHT"
               PROVE  Registrable([n \in DOMAIN NewCases(w) |-> NewCases(w)[n].item])
    BY DEF CheckedStaysFree
  <2> DEFINE new == NewCases(w)
             N == Cardinality(ToCreate(w))
  <2>1. TypeInv /\ LockInv /\ Registers(w) /\ Informed(w)
    BY <1>1 DEF RegistryInv, StoreInv, LockInv, WorkerOK, Registers
  <2>2. /\ DOMAIN new = 1..N /\ N \in Nat
        /\ \A n \in 1..N : \E i \in ToCreate(w) :
             NumberOf(w, i) = Len(cases) + n /\ new[n] = Registered(w, i)
    BY <2>1, CreatedCases
  <2>3. \A i \in ToCreate(w) : /\ i \in DOMAIN req[w].items
                               /\ BatchVerdict(req[w].items, i) = "ok"
                               /\ ~Taken(req[w].items[i])
    BY <2>1, CreatedCases, CommitTypes DEF Informed
  <2> HIDE DEF new, N
  <2>4. ASSUME NEW n \in 1..N
        PROVE  ~Taken(new[n].item)
    BY <2>2, <2>3 DEF Registered
  <2>5. ASSUME NEW m \in 1..N, NEW n \in 1..N, m # n
        PROVE  Names(new[m].item) \cap Names(new[n].item) = {}
    <3>1. PICK i \in ToCreate(w) :
            NumberOf(w, i) = Len(cases) + m /\ new[m] = Registered(w, i)
      BY <2>2
    <3>2. PICK j \in ToCreate(w) :
            NumberOf(w, j) = Len(cases) + n /\ new[n] = Registered(w, j)
      BY <2>2
    <3>3. i # j
      <4>1. Len(cases) \in Nat
        BY <2>1 DEF TypeInv
      <4>2. QED
        BY <2>2, <2>5, <3>1, <3>2, <4>1
    <3>4. QED
      BY <2>3, <3>1, <3>2, <3>3, BatchOk DEF Registered
  <2>6. QED
    BY <2>2, <2>4, <2>5 DEF Registrable, new
<1>2. QED
  BY <1>1, RegistryInvariant, PTL

(* While no append has failed and the process has not stopped, every case  *)
(* has its registration audited, or in the hands of who registers it.      *)
THEOREM RegistrationsAreAudited == Spec => []RegistrationsReachAudit
<1>1. RegistryInv => TypeInv /\ LockInv
  BY DEF RegistryInv
<1>2. QED
  BY <1>1, InitiallyEmpty, ReachStep, RegistryInvariant, PTL DEF Spec
=============================================================================
