------------------------------ MODULE Registry ------------------------------
(***************************************************************************)
(* Registration: single cases, atomic and partial batches, and the dry run *)
(* of either (preflight), served concurrently.  Registrations are made     *)
(* under application.App.createMu, the preflight under no mutex, and the   *)
(* mutex of a case is taken by neither, so a new case may be worked on     *)
(* before its registration has been audited.                               *)
(*                                                                         *)
(* The audit is one sequence here, kept over a crash, and a failed append  *)
(* leaves nothing; ArchiveService tells memory and file apart.             *)
(***************************************************************************)
EXTENDS Integers, Sequences, FiniteSets

CONSTANTS
    Identifiers,        \* normalized accession codes and other identifiers
    Requests,           \* what clients may send, any number of times
    Workers,            \* the goroutines serving them
    None,               \* no holder, no request, no receipt, no identifier
    MaxCrashes,         \* bound: restarts of the process
    MaxAuditFaults      \* bound: audit appends that fail

(* An accession code that cannot be normalized is None; an item may lack a *)
(* field or have identifiers that cannot be normalized.                    *)
Items == [accession : Identifiers \cup {None}, others : SUBSET Identifiers,
          flaw : {"NONE", "FIELD", "IDENTIFIER"}]

Kinds == {"CREATE", "ATOMIC", "PARTIAL", "PREFLIGHT"}

(* What is said of an item in the end, and what is kept of a request.      *)
Entry == [status : {"created", "ok", "conflict", "invalid"},
          case : Nat \cup {None}]

Receipt == [request : Requests, result : Seq(Entry)]

ASSUME RequestsAssumption ==
    \A q \in Requests :
        /\ q.kind \in Kinds /\ q.items \in Seq(Items) /\ q.items # <<>>
        /\ q.kind = "CREATE" => Len(q.items) = 1
ASSUME BoundsAssumption == MaxCrashes \in Nat /\ MaxAuditFaults \in Nat
ASSUME NoneAssumption ==
    /\ None \notin Workers /\ None \notin Requests /\ None \notin Identifiers
    /\ None \notin Nat /\ None \notin Receipt

VARIABLES
    cases,      \* store.Store.cases in the order of their registration
    idem,       \* store.Store.idem: the receipts by key
    createMu,   \* application.App.createMu: its holder
    pc,         \* where each worker is in the handler
    req,        \* the request each worker serves
    verdicts,   \* what each worker has found out about the items so far
    result,     \* what each worker will answer
    pending,    \* the audit events each worker has yet to append
    audit,      \* the audit events appended
    answered,   \* the success answers clients have received
    crashes,
    auditFaults

localVars == <<pc, req, verdicts, result, pending>>
vars == <<cases, idem, createMu, localVars, audit, answered, crashes, auditFaults>>

Key(q) ==
    <<CASE q.kind = "CREATE" -> "create"
        [] q.kind \in {"ATOMIC", "PARTIAL"} -> "create-batch"
        [] q.kind = "PREFLIGHT" -> "preflight", q.id>>

Keys == {Key(q) : q \in Requests}

Event(type, n) == [type |-> type, case |-> n]

(***************************************************************************)
(* What an item says of itself and of the others it is sent with.          *)
(***************************************************************************)
Names(item) == item.others \cup ({item.accession} \ {None})

WellFormed(item) ==
    /\ item.flaw = "NONE" /\ item.accession # None
    /\ item.accession \notin item.others

SharesAccession(items, i) ==
    \E j \in DOMAIN items \ {i} :
        items[i].accession # None /\ items[j].accession = items[i].accession

SharesName(items, i, among) ==
    \E j \in among \ {i} : Names(items[i]) \cap Names(items[j]) # {}

(* Fault: other identifiers are not compared                             *)
BatchVerdictByAccession(items, i) ==
    CASE SharesAccession(items, i) -> "conflict"
      [] ~SharesAccession(items, i) /\ ~WellFormed(items[i]) -> "invalid"
      [] OTHER -> "ok"

(* CreateBatch before it looks into the store: duplicates of an accession  *)
(* code are out whether they are well formed or not, then what is left     *)
(* must not share an identifier.                                           *)
BatchVerdict(items, i) ==
    LET Left == {j \in DOMAIN items :
                   WellFormed(items[j]) /\ ~SharesAccession(items, j)}
    IN  CASE SharesAccession(items, i) -> "conflict"
          [] ~SharesAccession(items, i) /\ i \notin Left -> "invalid"
          [] i \in Left /\ SharesName(items, i, Left) -> "conflict"
          [] OTHER -> "ok"

(* Preflight: a missing field does not count, duplicates of an accession   *)
(* code stay in, and identifiers it cannot normalize are dropped.          *)
Normalized(item) ==
    IF item.flaw = "IDENTIFIER" THEN [item EXCEPT !.others = {}] ELSE item

PreflightVerdict(items, i) ==
    LET Shown == [j \in DOMAIN items |-> Normalized(items[j])]
        Left == {j \in DOMAIN items :
                   \/ SharesAccession(items, j)
                   \/ items[j].flaw # "IDENTIFIER" /\ items[j].accession # None}
    IN  CASE i \notin Left -> "invalid"
          [] i \in Left /\ \/ SharesAccession(items, i)
                           \/ SharesName(Shown, i, Left)
                           \/ Shown[i].accession \in Shown[i].others -> "conflict"
          [] OTHER -> "ok"

(* Fault: only accession codes are compared                              *)
TakenAccession(item) ==
    \E n \in DOMAIN cases : item.accession \in Names(cases[n].item)

(* identifierConflict with a stored case.                                  *)
Taken(item) ==
    \E n \in DOMAIN cases : Names(cases[n].item) \cap Names(item) # {}

Registrable(items) ==
    /\ \A i \in DOMAIN items : ~Taken(items[i])
    /\ \A i, j \in DOMAIN items :
         i # j => Names(items[i]) \cap Names(items[j]) = {}

Init ==
    /\ cases = <<>>
    /\ idem = [k \in Keys |-> None]
    /\ createMu = None
    /\ pc = [w \in Workers |-> "idle"]
    /\ req = [w \in Workers |-> None]
    /\ verdicts = [w \in Workers |-> <<>>]
    /\ result = [w \in Workers |-> <<>>]
    /\ pending = [w \in Workers |-> <<>>]
    /\ audit = <<>>
    /\ answered = {}
    /\ crashes = 0
    /\ auditFaults = 0

(***************************************************************************)
(* The end of a handler, and the steps of one.                             *)
(***************************************************************************)
Return(w) ==
    /\ createMu' = IF createMu = w THEN None ELSE createMu
    /\ pc' = [pc EXCEPT ![w] = "idle"]
    /\ req' = [req EXCEPT ![w] = None]
    /\ verdicts' = [verdicts EXCEPT ![w] = <<>>]
    /\ result' = [result EXCEPT ![w] = <<>>]
    /\ pending' = [pending EXCEPT ![w] = <<>>]

Succeed(w, r) ==
    /\ Return(w)
    /\ answered' = answered \cup {[request |-> req[w], result |-> r]}

Refuse(w) == Return(w) /\ UNCHANGED answered

Receive(w, q) ==
    /\ pc[w] = "idle"
    /\ req' = [req EXCEPT ![w] = q]
    /\ pc' = [pc EXCEPT ![w] =
                IF q.kind = "PREFLIGHT" THEN "lookup" ELSE "createMu"]
    /\ UNCHANGED <<cases, idem, createMu, verdicts, result, pending, audit,
                   answered, crashes, auditFaults>>

(* Fault: createMu is not a mutex                                        *)
LockNothing(w) ==
    /\ pc[w] = "createMu"
    /\ createMu' = w
    /\ pc' = [pc EXCEPT ![w] = "lookup"]
    /\ UNCHANGED <<cases, idem, req, verdicts, result, pending, audit,
                   answered, crashes, auditFaults>>

LockCreateMu(w) ==
    /\ pc[w] = "createMu" /\ createMu = None
    /\ createMu' = w
    /\ pc' = [pc EXCEPT ![w] = "lookup"]
    /\ UNCHANGED <<cases, idem, req, verdicts, result, pending, audit,
                   answered, crashes, auditFaults>>

(* Fault: a retry appends the event again                                *)
LookupRepairing(w) ==
    LET saved == idem[Key(req[w])]
    IN  /\ pc[w] = "lookup"
        /\ \/ /\ saved # None
              /\ result' = [result EXCEPT ![w] = saved.result]
              /\ pending' = [pending EXCEPT ![w] =
                   IF saved.result[1].status # "created" THEN <<>>
                   ELSE <<Event("REGISTERED", saved.result[1].case)>>]
              /\ pc' = [pc EXCEPT ![w] = "append"]
              /\ UNCHANGED <<req, verdicts, createMu, answered>>
           \/ /\ saved = None
              /\ pc' = [pc EXCEPT ![w] = "check"]
              /\ UNCHANGED <<req, verdicts, result, pending, createMu, answered>>
        /\ UNCHANGED <<cases, idem, audit, crashes, auditFaults>>

(* The saved result, a conflict when the key was used for another request, *)
(* or nothing saved.                                                       *)
Lookup(w) ==
    LET saved == idem[Key(req[w])]
    IN  /\ pc[w] = "lookup"
        /\ \/ saved # None /\ saved.request = req[w] /\ Succeed(w, saved.result)
           \/ saved # None /\ saved.request # req[w] /\ Refuse(w)
           \/ /\ saved = None
              /\ pc' = [pc EXCEPT ![w] = "check"]
              /\ UNCHANGED <<req, verdicts, result, pending, createMu, answered>>
        /\ UNCHANGED <<cases, idem, audit, crashes, auditFaults>>

(* What the store says of the next item; only an item that is still in is  *)
(* looked up.                                                              *)
Verdict(q, i) ==
    LET own == IF q.kind = "PREFLIGHT" THEN PreflightVerdict(q.items, i)
                                       ELSE BatchVerdict(q.items, i)
    IN  IF own = "ok" /\ Taken(q.items[i]) THEN "conflict" ELSE own

(* A single case is refused at once.                                       *)
CheckItem(w) ==
    LET q == req[w]
        verdict == Verdict(q, Len(verdicts[w]) + 1)
    IN  /\ pc[w] = "check" /\ Len(verdicts[w]) < Len(q.items)
        /\ \/ q.kind = "CREATE" /\ verdict # "ok" /\ Refuse(w)
           \/ /\ q.kind = "CREATE" => verdict = "ok"
              /\ verdicts' = [verdicts EXCEPT ![w] = Append(@, verdict)]
              /\ pc' = [pc EXCEPT ![w] = IF Len(verdicts'[w]) = Len(q.items)
                                         THEN "commit" ELSE "check"]
              /\ UNCHANGED <<req, result, pending, createMu, answered>>
        /\ UNCHANGED <<cases, idem, audit, crashes, auditFaults>>

(* Fault: an atomic batch is created in part                             *)
EverythingOk(w) == {i \in DOMAIN verdicts[w] : verdicts[w][i] = "ok"}

(* The items to create: none of an atomic batch in which one has failed.   *)
ToCreate(w) ==
    LET ok == {i \in DOMAIN verdicts[w] : verdicts[w][i] = "ok"}
    IN  IF req[w].kind = "ATOMIC" /\ ok # DOMAIN verdicts[w] THEN {} ELSE ok

(* The number a new case is registered under.                              *)
NumberOf(w, i) ==
    Len(cases) + Cardinality({j \in ToCreate(w) : j =< i})

Outcome(w) ==
    [i \in DOMAIN verdicts[w] |->
        CASE i \in ToCreate(w) ->
               [status |-> "created", case |-> NumberOf(w, i)]
          [] i \notin ToCreate(w) /\ verdicts[w][i] = "ok" ->
               [status |-> "invalid", case |-> None]
          [] OTHER -> [status |-> verdicts[w][i], case |-> None]]

NewCases(w) ==
    [n \in 1..Cardinality(ToCreate(w)) |->
        LET i == CHOOSE j \in ToCreate(w) : NumberOf(w, j) = Len(cases) + n
        IN  [item |-> req[w].items[i], key |-> Key(req[w]), index |-> i, rev |-> 1]]

(* store.Commit and store.CommitBatch check the identifiers again and save *)
(* the cases and the receipt in one snapshot.                              *)
Commit(w) ==
    LET new == NewCases(w)
    IN  /\ pc[w] = "commit" /\ req[w].kind # "PREFLIGHT"
        /\ \/ Refuse(w) /\ UNCHANGED <<cases, idem>>
           \/ /\ Registrable([n \in DOMAIN new |-> new[n].item])
              /\ cases' = cases \o new
              /\ idem' = [idem EXCEPT ![Key(req[w])] =
                            [request |-> req[w], result |-> Outcome(w)]]
              /\ result' = [result EXCEPT ![w] = Outcome(w)]
              /\ pending' = [pending EXCEPT ![w] =
                   [n \in DOMAIN new |-> Event("REGISTERED", Len(cases) + n)]]
              /\ pc' = [pc EXCEPT ![w] = "append"]
              /\ UNCHANGED <<req, verdicts, createMu, answered>>
        /\ UNCHANGED <<audit, crashes, auditFaults>>

(* A preflight saves its report over whatever has been saved meanwhile.    *)
PutReport(w) ==
    LET report == [i \in DOMAIN verdicts[w] |->
                     [status |-> verdicts[w][i], case |-> None]]
    IN  /\ pc[w] = "commit" /\ req[w].kind = "PREFLIGHT"
        /\ \/ Refuse(w) /\ UNCHANGED idem
           \/ /\ idem' = [idem EXCEPT ![Key(req[w])] =
                            [request |-> req[w], result |-> report]]
              /\ Succeed(w, report)
        /\ UNCHANGED <<cases, audit, crashes, auditFaults>>

(* One event after the other; the first that fails is an error.            *)
AuditAppend(w) ==
    /\ pc[w] = "append" /\ pending[w] # <<>>
    /\ audit' = Append(audit, Head(pending[w]))
    /\ pending' = [pending EXCEPT ![w] = Tail(@)]
    /\ UNCHANGED <<cases, idem, createMu, pc, req, verdicts, result, answered,
                   crashes, auditFaults>>

AuditFail(w) ==
    /\ pc[w] = "append" /\ pending[w] # <<>>
    /\ auditFaults < MaxAuditFaults
    /\ auditFaults' = auditFaults + 1
    /\ Refuse(w)
    /\ UNCHANGED <<cases, idem, audit, crashes>>

(* Fault: the answer does not wait for the audit                         *)
AnswerAtOnce(w) ==
    /\ pc[w] = "append"
    /\ IF req[w] # None THEN Succeed(w, result[w]) ELSE Refuse(w)
    /\ UNCHANGED <<cases, idem, audit, crashes, auditFaults>>

Answer(w) ==
    /\ pc[w] = "append" /\ pending[w] = <<>>
    /\ IF req[w] # None THEN Succeed(w, result[w]) ELSE Refuse(w)
    /\ UNCHANGED <<cases, idem, audit, crashes, auditFaults>>

(* The first update of a case by somebody who has found it in the listing; *)
(* its own mutex and receipt are ArchiveService's.                         *)
Assess(w, n) ==
    /\ pc[w] = "idle" /\ cases[n].rev = 1
    /\ cases' = [cases EXCEPT ![n].rev = 2]
    /\ pending' = [pending EXCEPT ![w] = <<Event("ASSESSED", n)>>]
    /\ pc' = [pc EXCEPT ![w] = "append"]
    /\ UNCHANGED <<idem, createMu, req, verdicts, result, audit, answered,
                   crashes, auditFaults>>

Crash ==
    /\ crashes < MaxCrashes
    /\ crashes' = crashes + 1
    /\ createMu' = None
    /\ pc' = [w \in Workers |-> "idle"]
    /\ req' = [w \in Workers |-> None]
    /\ verdicts' = [w \in Workers |-> <<>>]
    /\ result' = [w \in Workers |-> <<>>]
    /\ pending' = [w \in Workers |-> <<>>]
    /\ UNCHANGED <<cases, idem, audit, answered, auditFaults>>

Step(w) ==
    \/ LockCreateMu(w) \/ Lookup(w) \/ CheckItem(w) \/ Commit(w) \/ PutReport(w)
    \/ AuditAppend(w) \/ AuditFail(w) \/ Answer(w)

Next ==
    \/ \E w \in Workers :
         \/ Step(w)
         \/ \E q \in Requests : Receive(w, q)
         \/ \E n \in DOMAIN cases : Assess(w, n)
    \/ Crash

Spec == Init /\ [][Next]_vars

(***************************************************************************)
(* Properties.                                                             *)
(***************************************************************************)
(* No identifier, main or alternative, names two cases, nor one case twice,*)
(* whether they were registered one by one, in a batch, or concurrently.   *)
IdentifiersUnique ==
    /\ \A m, n \in DOMAIN cases :
         m # n => Names(cases[m].item) \cap Names(cases[n].item) = {}
    /\ \A n \in DOMAIN cases : WellFormed(cases[n].item)

(* A registration is effective at most once: no retry, concurrent          *)
(* duplicate, failed append or restart registers an item of a request      *)
(* again, or audits its registration again.                                *)
RegisteredOnce ==
    /\ \A m, n \in DOMAIN cases :
         cases[m].key = cases[n].key /\ cases[m].index = cases[n].index => m = n
    /\ \A i, j \in DOMAIN audit : audit[i] = audit[j] => i = j

(* The stored receipts tell exactly which cases there are and what they    *)
(* were registered from; those of an atomic batch name all items or none.  *)
ReceiptsMatchCases ==
    /\ \A n \in DOMAIN cases :
         LET saved == idem[cases[n].key]
         IN  /\ saved # None
             /\ saved.result[cases[n].index] = [status |-> "created", case |-> n]
             /\ saved.request.items[cases[n].index] = cases[n].item
    /\ \A k \in Keys : idem[k] # None =>
         LET created == {i \in DOMAIN idem[k].result :
                           idem[k].result[i].status = "created"}
         IN  /\ \A i \in created :
                  /\ idem[k].result[i].case \in DOMAIN cases
                  /\ cases[idem[k].result[i].case].key = k
             /\ idem[k].request.kind = "ATOMIC" =>
                  created \in {{}, DOMAIN idem[k].result}

(* What a registration has found free stays free until it commits, so that *)
(* one taken identifier never fails a whole batch at the last moment.      *)
CheckedStaysFree ==
    \A w \in Workers :
        pc[w] = "commit" /\ req[w].kind # "PREFLIGHT" =>
            Registrable([n \in DOMAIN NewCases(w) |-> NewCases(w)[n].item])

(* However often a registration is sent, it gets the same answer.          *)
AnswersAgree ==
    \A a, b \in answered :
        /\ Key(a.request) = Key(b.request) /\ a.request.kind # "PREFLIGHT"
        => a = b

Audited(n) == \E i \in DOMAIN audit : audit[i] = Event("REGISTERED", n)

InHand(n) ==
    \E w \in Workers : \E i \in DOMAIN pending[w] :
        pending[w][i] = Event("REGISTERED", n)

(* While no append has failed and the process has not stopped, every case  *)
(* has its registration audited, or in the hands of who registers it.      *)
RegistrationsReachAudit ==
    crashes = 0 /\ auditFaults = 0 =>
        \A n \in DOMAIN cases : Audited(n) \/ InHand(n)

(***************************************************************************)
(* What the documentation says and the code does not.                      *)
(***************************************************************************)

(* The first audit event of a case is its registration.                    *)
FirstEventIsRegistration ==
    \A i \in DOMAIN audit :
        \/ audit[i].type = "REGISTERED"
        \/ \E j \in 1..(i - 1) : audit[j] = Event("REGISTERED", audit[i].case)
=============================================================================
