------------------------ MODULE ArchiveAuditProofs ------------------------
(***************************************************************************)
(* Proofs about the audit of ArchiveService, for every set of cases,       *)
(* requests and workers and every number of crashes and failed appends:    *)
(* the audit follows the cases, a seal is never set over a gap, and no     *)
(* gap comes from anything but a failed append or a restart.               *)
(***************************************************************************)
EXTENDS ArchiveServiceProofs

(***************************************************************************)
(* Sequences of events, in memory or in the file; a torn line is None.     *)
(***************************************************************************)
Written(file) == [i \in DOMAIN file |-> file[i].event]

Logged == Seq(AuditEvent \cup {None})

(* An event names a request the case holds, and the revision it produced.  *)
Records(e, cs) ==
    /\ e.rev - 1 \in DOMAIN cs[e.case].log
    /\ e = Event(cs[e.case].log[e.rev - 1], e.rev)

Recorded(s, cs) ==
    /\ \A i \in DOMAIN s : s[i] # None => Records(s[i], cs)
    /\ \A i, j \in DOMAIN s :
         i < j /\ s[i] # None /\ s[j] # None /\ s[i].case = s[j].case
           => s[i].rev < s[j].rev

(* Nothing of the case is in s but what comes before revision r.           *)
Before(s, c, r) ==
    \A i \in DOMAIN s : s[i] # None /\ s[i].case = c => s[i].rev < r

LEMMA RecordedPart ==
    ASSUME NEW s, NEW t, NEW cs, Recorded(s, cs),
           DOMAIN t \subseteq DOMAIN s, \A i \in DOMAIN t : t[i] = s[i]
    PROVE  Recorded(t, cs)
BY DEF Recorded

LEMMA RecordedByMore ==
    ASSUME NEW s, NEW cs, NEW ds, Recorded(s, cs),
           \A i \in DOMAIN s : Records(s[i], cs) => Records(s[i], ds)
    PROVE  Recorded(s, ds)
BY DEF Recorded

LEMMA AppendDomain ==
    ASSUME NEW S, NEW s \in Seq(S), NEW e \in S
    PROVE  /\ Append(s, e) \in Seq(S)
           /\ DOMAIN Append(s, e) = (DOMAIN s) \cup {Len(s) + 1}
           /\ Len(s) \in Nat /\ DOMAIN s = 1..Len(s)
           /\ \A i \in DOMAIN s : i < Len(s) + 1 /\ Append(s, e)[i] = s[i]
           /\ Append(s, e)[Len(s) + 1] = e
OBVIOUS

LEMMA RecordedAppend ==
    ASSUME NEW cs, NEW s \in Logged, NEW e \in AuditEvent \cup {None},
           Recorded(s, cs),
           e # None => Records(e, cs) /\ Before(s, e.case, e.rev)
    PROVE  Recorded(Append(s, e), cs)
<1> DEFINE t == Append(s, e)
           n == Len(s) + 1
<1>1. /\ DOMAIN t = (DOMAIN s) \cup {n} /\ t[n] = e
      /\ \A i \in DOMAIN s : i < n /\ i \in Nat /\ t[i] = s[i]
      /\ n \in Nat
  BY AppendDomain DEF Logged
<1> HIDE DEF t, n
<1>2. \A i \in DOMAIN t : t[i] # None => Records(t[i], cs)
  BY <1>1 DEF Recorded
<1>3. ASSUME NEW i \in DOMAIN t, NEW j \in DOMAIN t, i < j,
             t[i] # None, t[j] # None, t[i].case = t[j].case
      PROVE  t[i].rev < t[j].rev
  <2>1. CASE i \in DOMAIN s /\ j \in DOMAIN s
    BY <1>1, <1>3, <2>1 DEF Recorded
  <2>2. CASE i \in DOMAIN s /\ j = n
    BY <1>1, <1>3, <2>2 DEF Before
  <2>3. CASE i = n
    BY <1>1, <1>3, <2>3
  <2>4. QED
    BY <1>1, <2>1, <2>2, <2>3
<1>4. QED
  BY <1>2, <1>3 DEF Recorded, t

LEMMA BeforeAppend ==
    ASSUME NEW s \in Logged, NEW e \in AuditEvent \cup {None}, NEW c, NEW r,
           Before(s, c, r), e = None \/ e.case # c
    PROVE  Before(Append(s, e), c, r)
BY AppendDomain DEF Before, Logged

LEMMA EventsAreLogged ==
    /\ Seq(AuditEvent) \subseteq Logged
    /\ \A file \in Seq(Line) : Written(file) \in Logged
<1>1. \A x \in Line : x.event \in AuditEvent \cup {None}
  BY DEF Line
<1>2. ASSUME NEW file \in Seq(Line)
      PROVE  Written(file) \in Logged
  BY <1>1 DEF Written, Logged
<1>3. Seq(AuditEvent) \subseteq Logged
  BY DEF Logged
<1>4. QED
  BY <1>2, <1>3

(* One write more to the file is one event more, or a torn line.           *)
LEMMA WrittenAppend ==
    ASSUME NEW file \in Seq(Line), NEW p \in Line
    PROVE  /\ Written(file) \in Logged
           /\ Written(file \o <<p>>) = Append(Written(file), p.event)
           /\ p.event \in AuditEvent \cup {None}
<1>1. \A x \in Line : x.event \in AuditEvent \cup {None}
  BY DEF Line
<1>2. Written(file) \in Logged
  BY EventsAreLogged
<1>3. Written(file \o <<p>>) = Append(Written(file), p.event)
  <2> DEFINE n == Len(file)
             all == file \o <<p>>
  <2>1. /\ n \in Nat /\ DOMAIN file = 1..n /\ DOMAIN all = 1..(n + 1)
        /\ \A i \in 1..n : all[i] = file[i]
        /\ all[n + 1] = p
    OBVIOUS
  <2>2. Written(file) \in Seq(AuditEvent \cup {None}) /\ Len(Written(file)) = n
    BY <1>2, <2>1 DEF Written, Logged
  <2> DEFINE more == Append(Written(file), p.event)
  <2>3. /\ DOMAIN more = 1..(n + 1)
        /\ \A i \in 1..n : more[i] = Written(file)[i]
        /\ more[n + 1] = p.event
    BY <1>1, <2>1, <2>2
  <2>4. \A i \in 1..n : Written(file)[i] = file[i].event
    BY <2>1 DEF Written
  <2>5. more = [i \in 1..(n + 1) |-> all[i].event]
    <3>1. \A i \in 1..(n + 1) : more[i] = all[i].event
      BY <2>1, <2>3, <2>4
    <3>2. more = [i \in 1..(n + 1) |-> more[i]]
      <4>1. more \in Seq(AuditEvent \cup {None})
        BY <1>1, <2>2
      <4>2. QED
        BY <2>3, <4>1
    <3>3. QED
      BY <3>1, <3>2
  <2>6. Written(all) = [i \in 1..(n + 1) |-> all[i].event]
    BY <2>1 DEF Written
  <2>7. QED
    BY <2>5, <2>6
<1>4. QED
  BY <1>1, <1>2, <1>3
-----------------------------------------------------------------------------
(***************************************************************************)
(* The invariants.                                                         *)
(***************************************************************************)

(* Memory and file record the cases; a worker about to append is ahead of  *)
(* all they hold of its case.                                              *)
RecordInv ==
    /\ Recorded(auditMem, cases)
    /\ Recorded(Written(auditFile), cases)
    /\ \A w \in Workers : pc[w] = "audit" =>
         /\ Before(auditMem, req[w].case, copy[w].rev)
         /\ Before(Written(auditFile), req[w].case, copy[w].rev)

(* Until an append fails, the file holds what memory holds, line by line.  *)
FileInv ==
    auditFaults = 0 => auditFile = [i \in DOMAIN auditMem |-> Piece(auditMem[i])]

Auditing(c) == \E w \in Workers : pc[w] = "audit" /\ req[w].case = c

(* Until an append fails or the process stops, an audit lacks at most the  *)
(* event that is about to be appended.                                     *)
GapInv ==
    crashes = 0 /\ auditFaults = 0 =>
        \A c \in Cases :
            /\ Auditing(c) => Trail(auditMem, c) = Complete(c, cases[c].rev - 1)
            /\ ~Auditing(c) => Trail(auditMem, c) = Complete(c, cases[c].rev)

(* What is sealed, or about to be, is anchored at the complete audit.      *)
AnchorInv ==
    /\ SealedOverCompleteAudit
    /\ \A w \in Workers : pc[w] = "commit" /\ copy[w].sealed =>
         copy[w].anchor = Complete(req[w].case, cases[req[w].case].rev)

AuditInv == RecordInv /\ FileInv /\ GapInv

(* A step that leaves cases, audit and faults alone, and nobody arrives at *)
(* the append or leaves it.                                                *)
LEMMA AuditFrame ==
    ASSUME AuditInv,
           UNCHANGED <<cases, auditMem, auditFile, crashes, auditFaults>>,
           \A v \in Workers :
             /\ pc'[v] = "audit" <=> pc[v] = "audit"
             /\ pc[v] = "audit" => req'[v] = req[v] /\ copy'[v] = copy[v]
    PROVE  AuditInv'
<1>1. RecordInv'
  <2>1. ASSUME NEW v \in Workers, pc'[v] = "audit"
        PROVE  /\ Before(auditMem', req'[v].case, copy'[v].rev)
               /\ Before(Written(auditFile'), req'[v].case, copy'[v].rev)
    BY <2>1 DEF AuditInv, RecordInv
  <2>2. QED
    BY <2>1 DEF AuditInv, RecordInv
<1>2. FileInv'
  BY DEF AuditInv, FileInv
<1>3. GapInv'
  <2>1. \A c \in Cases : Auditing(c)' <=> Auditing(c)
    BY DEF Auditing
  <2>2. \A c \in Cases : \A n : Complete(c, n)' = Complete(c, n)
    BY DEF Complete
  <2>3. QED
    BY <2>1, <2>2 DEF AuditInv, GapInv, Auditing, Complete
<1>4. QED
  BY <1>1, <1>2, <1>3 DEF AuditInv

LEMMA AuditReturn ==
    ASSUME TypeOK, AuditInv, NEW w \in Workers, Return(w), pc[w] # "audit",
           UNCHANGED <<cases, auditMem, auditFile, crashes, auditFaults>>
    PROVE  AuditInv'
<1>1. \A v \in Workers :
        /\ pc'[v] = "audit" <=> pc[v] = "audit"
        /\ pc[v] = "audit" => req'[v] = req[v] /\ copy'[v] = copy[v]
  BY DEF Return, TypeOK
<1>2. QED
  BY <1>1, AuditFrame

(* The trail of a case whose audit Validate accepts is complete.           *)
LEMMA ValidatedIsComplete ==
    ASSUME TypeOK, StoreInv, NEW s \in Seq(AuditEvent), Recorded(s, cases),
           NEW c \in Cases, Validate(s, c, cases[c].rev)
    PROVE  Trail(s, c) = Complete(c, cases[c].rev)
<1> DEFINE log == cases[c].log
           n == cases[c].rev
           Ev(r) == Event(log[r - 1], r)
<1>1. /\ log \in Seq(Requests) /\ n \in Nat /\ n = Len(log) + 1
      /\ DOMAIN log = 1..(n - 1)
  BY DEF TypeOK, Case, StoreInv, NoBlindUpdate
<1>2. ASSUME NEW i \in Positions(s, c)
      PROVE  /\ s[i].rev \in 2..n
             /\ s[i] = Ev(s[i].rev)
  <2>1. i \in DOMAIN s /\ s[i].case = c
    BY DEF Positions
  <2>2. s[i] \in AuditEvent
    BY <2>1
  <2>3. Records(s[i], cases)
    BY <2>1, <2>2, NoneAssumption DEF Recorded
  <2>4. s[i].rev \in Nat /\ s[i].rev - 1 \in 1..(n - 1)
    BY <1>1, <2>1, <2>2, <2>3 DEF Records, AuditEvent
  <2>5. s[i].rev \in 2..n
    BY <1>1, <2>4
  <2>6. QED
    BY <2>1, <2>3, <2>5 DEF Records
<1>3. \A r \in 2..n : \E e \in Trail(s, c) : e.rev = r
  BY <1>1 DEF Validate
<1>4. ASSUME NEW r \in 2..n
      PROVE  Ev(r) \in Trail(s, c)
  <2>1. PICK e \in Trail(s, c) : e.rev = r
    BY <1>3
  <2>2. e # Registered(c)
    BY <2>1, <1>1 DEF Registered
  <2>3. PICK i \in Positions(s, c) : e = s[i]
    BY <2>2 DEF Trail
  <2>4. QED
    BY <1>2, <2>1, <2>3
<1>5. Trail(s, c) \subseteq {Registered(c)} \cup {Ev(r) : r \in 2..n}
  BY <1>2 DEF Trail
<1>6. {Registered(c)} \cup {Ev(r) : r \in 2..n} \subseteq Trail(s, c)
  BY <1>4 DEF Trail
<1>7. QED
  BY <1>5, <1>6 DEF Complete

LEMMA CommitAudit ==
    ASSUME TypeOK, LockInv, JournalInv, AuditInv,
           NEW w \in Workers, Commit(w), ~Return(w)
    PROVE  AuditInv'
<1> DEFINE q == req[w]
<1>1. /\ q \in Requests /\ q.case \in Cases
      /\ pc[w] = "commit" /\ pc'[w] = "audit" /\ req' = req /\ copy' = copy
      /\ \A v \in Workers : v # w => pc'[v] = pc[v]
      /\ UNCHANGED <<auditMem, auditFile, crashes, auditFaults>>
  BY CommitEffect DEF JournalInv, auditVars, faultVars
<1>2. \A d \in Cases : Grown(w, d)
  BY CommitLog DEF JournalInv
<1>3. ASSUME NEW e \in AuditEvent, Records(e, cases)
      PROVE  Records(e, cases')
  <2>1. e.case \in Cases /\ e.rev \in Nat
    BY DEF AuditEvent
  <2>2. e.rev - 1 \in DOMAIN cases[e.case].log
    BY <1>3 DEF Records
  <2>3. /\ e.rev - 1 \in DOMAIN cases'[e.case].log
        /\ cases'[e.case].log[e.rev - 1] = cases[e.case].log[e.rev - 1]
    <3> DEFINE d == e.case
               j == e.rev - 1
               n == Len(cases[d].log)
    <3>1. /\ n \in Nat /\ DOMAIN cases[d].log = 1..n
          /\ \A i \in 1..n : cases'[d].log[i] = cases[d].log[i]
          /\ cases'[d] = cases[d] \/ DOMAIN cases'[d].log = 1..(n + 1)
      BY <1>2, <2>1 DEF Grown
    <3>2. j \in 1..n
      BY <2>2, <3>1
    <3> HIDE DEF j, n, d
    <3>3. j \in DOMAIN cases'[d].log /\ cases'[d].log[j] = cases[d].log[j]
      BY <3>1, <3>2
    <3>4. QED
      BY <3>3 DEF j, d
  <2>4. QED
    BY <1>3, <2>3 DEF Records
<1>4. auditMem \in Logged /\ Written(auditFile) \in Logged
  BY EventsAreLogged DEF TypeOK
<1>5. ASSUME NEW s \in Logged, Recorded(s, cases)
      PROVE  Recorded(s, cases') /\ Before(s, q.case, copy[w].rev)
  <2>1. \A i \in DOMAIN s : s[i] # None => s[i] \in AuditEvent
    BY DEF Logged
  <2>2. Recorded(s, cases')
    BY <1>3, <1>5, <2>1 DEF Recorded
  <2>3. ASSUME NEW i \in DOMAIN s, s[i] # None, s[i].case = q.case
        PROVE  s[i].rev < copy[w].rev
    <3>1. s[i].rev \in Nat /\ s[i].rev - 1 \in DOMAIN cases[q.case].log
      BY <1>5, <2>1, <2>3 DEF Recorded, Records, AuditEvent
    <3>2. /\ Len(cases[q.case].log) \in Nat
          /\ DOMAIN cases[q.case].log = 1..Len(cases[q.case].log)
          /\ copy[w].rev = Len(cases[q.case].log) + 2
      BY <1>1, <1>2 DEF Grown
    <3>3. QED
      BY <3>1, <3>2
  <2>4. QED
    BY <2>2, <2>3 DEF Before
<1>6. RecordInv'
  <2>1. Recorded(auditMem', cases') /\ Recorded(Written(auditFile'), cases')
    BY <1>1, <1>4, <1>5 DEF AuditInv, RecordInv
  <2>2. ASSUME NEW v \in Workers, pc'[v] = "audit"
        PROVE  /\ Before(auditMem', req'[v].case, copy'[v].rev)
               /\ Before(Written(auditFile'), req'[v].case, copy'[v].rev)
    BY <1>1, <1>4, <1>5, <2>2 DEF AuditInv, RecordInv
  <2>3. QED
    BY <2>1, <2>2 DEF RecordInv
<1>7. FileInv'
  BY <1>1 DEF AuditInv, FileInv
<1>8. GapInv'
  <2> SUFFICES ASSUME crashes = 0, auditFaults = 0, NEW c \in Cases
               PROVE  /\ Auditing(c)' => Trail(auditMem, c)
                            = Complete(c, cases[c].rev - 1)'
                      /\ ~Auditing(c)' => Trail(auditMem, c)
                            = Complete(c, cases[c].rev)'
    BY <1>1 DEF GapInv
  <2>1. CASE c = q.case
    <3>1. Auditing(c)'
      BY <1>1, <2>1 DEF Auditing
    <3>2. ~Auditing(c)
      BY <1>1, <2>1, CaseExclusion DEF Auditing, Inside
    <3>3. Complete(c, cases[c].rev - 1)' = Complete(c, cases[c].rev)
      <4> DEFINE n == cases[c].rev
      <4>1. /\ n \in Nat /\ DOMAIN cases[c].log = 1..(n - 1)
            /\ cases'[c].rev - 1 = n
        <5>1. n \in Nat /\ n = Len(cases[c].log) + 1
          BY DEF TypeOK, Case, JournalInv, StoreInv, NoBlindUpdate
        <5>2. /\ DOMAIN cases[c].log = 1..Len(cases[c].log)
              /\ cases'[c].rev = Len(cases[c].log) + 2
          BY <1>2, <2>1 DEF Grown
        <5>3. QED
          BY <5>1, <5>2
      <4>2. \A r \in 2..n : cases'[c].log[r - 1] = cases[c].log[r - 1]
        BY <1>2, <4>1 DEF Grown
      <4>3. QED
        BY <4>1, <4>2 DEF Complete
    <3>4. QED
      BY <3>1, <3>2, <3>3 DEF AuditInv, GapInv
  <2>2. CASE c # q.case
    <3>1. cases'[c] = cases[c]
      BY <1>2, <2>2 DEF Grown
    <3>2. Auditing(c)' <=> Auditing(c)
      BY <1>1, <2>2 DEF Auditing
    <3>3. /\ Complete(c, cases[c].rev - 1)' = Complete(c, cases[c].rev - 1)
          /\ Complete(c, cases[c].rev)' = Complete(c, cases[c].rev)
      BY <3>1 DEF Complete
    <3>4. QED
      BY <3>2, <3>3 DEF AuditInv, GapInv
  <2>3. QED
    BY <2>1, <2>2
<1>9. QED
  BY <1>6, <1>7, <1>8 DEF AuditInv

(* The event of a request whose worker is about to append it.              *)
LEMMA PendingEvent ==
    ASSUME TypeOK, LockInv, JournalInv, AuditInv, NEW w \in Workers, pc[w] = "audit"
    PROVE  LET e == Event(req[w], copy[w].rev)
               c == req[w].case
           IN  /\ c \in Cases /\ e \in AuditEvent /\ e.case = c
               /\ e.rev = cases[c].rev /\ copy[w].rev = cases[c].rev
               /\ cases[c].rev \in Nat /\ cases[c].rev >= 2
               /\ cases[c].log[cases[c].rev - 1] = req[w]
               /\ Records(e, cases)
               /\ Before(auditMem, c, e.rev) /\ Before(Written(auditFile), c, e.rev)
               /\ \A v \in Workers :
                    v # w /\ pc[v] = "audit" => req[v].case # c
<1> DEFINE c == req[w].case
           e == Event(req[w], copy[w].rev)
<1>1. req[w] \in Requests /\ c \in Cases
  BY RequestsAssumption DEF TypeOK
<1>2. /\ copy[w] = cases[c]
      /\ cases[c].rev - 1 \in DOMAIN cases[c].log
      /\ cases[c].log[cases[c].rev - 1] = req[w]
  BY DEF JournalInv, WorkersAreCurrent, Current
<1>3. cases[c].rev \in Nat /\ cases[c].log \in Seq(Requests)
  BY <1>1 DEF TypeOK, Case
<1>4. e \in AuditEvent /\ e.case = c /\ e.rev = cases[c].rev
  BY <1>1, <1>2, <1>3, EventType DEF Event
<1>5. Records(e, cases)
  BY <1>2, <1>4 DEF Records
<1>6. cases[c].rev >= 2
  BY <1>2, <1>3
<1>7. Before(auditMem, c, e.rev) /\ Before(Written(auditFile), c, e.rev)
  BY <1>2, <1>4 DEF AuditInv, RecordInv
<1>8. \A v \in Workers : v # w /\ pc[v] = "audit" => req[v].case # c
  BY <1>1, CaseExclusion DEF Inside
<1>9. QED
  BY <1>1, <1>2, <1>3, <1>4, <1>5, <1>6, <1>7, <1>8

LEMMA AppendAudit ==
    ASSUME TypeOK, LockInv, JournalInv, AuditInv, NEW w \in Workers, AuditAppend(w)
    PROVE  AuditInv'
<1> DEFINE c == req[w].case
           e == Event(req[w], copy[w].rev)
<1>1. /\ pc[w] = "audit" /\ pc'[w] = "idle"
      /\ \A v \in Workers : v # w =>
           pc'[v] = pc[v] /\ req'[v] = req[v] /\ copy'[v] = copy[v]
      /\ auditMem' = Append(auditMem, e)
      /\ auditFile' = Append(auditFile, Piece(e))
      /\ UNCHANGED <<cases, crashes, auditFaults>>
  BY DEF AuditAppend, Succeed, Return, TypeOK, storeVars, faultVars
<1>2. /\ c \in Cases /\ e \in AuditEvent /\ e.case = c /\ e.rev = cases[c].rev
      /\ cases[c].rev \in Nat /\ cases[c].rev >= 2
      /\ cases[c].log[cases[c].rev - 1] = req[w] /\ copy[w].rev = cases[c].rev
      /\ Records(e, cases)
      /\ Before(auditMem, c, e.rev) /\ Before(Written(auditFile), c, e.rev)
      /\ \A v \in Workers : v # w /\ pc[v] = "audit" => req[v].case # c
  BY <1>1, PendingEvent
<1>3. /\ auditMem \in Logged /\ auditMem \in Seq(AuditEvent)
      /\ auditFile \in Seq(Line) /\ Piece(e) \in Line
      /\ Written(auditFile) \in Logged /\ e # None /\ Piece(e).event = e
  <2>1. auditMem \in Seq(AuditEvent) /\ auditFile \in Seq(Line)
    BY DEF TypeOK
  <2>2. Piece(e) \in Line /\ e # None /\ Piece(e).event = e
    BY <1>2, NoneAssumption DEF Line, Piece
  <2>3. QED
    BY <2>1, <2>2, EventsAreLogged
<1>4. Written(auditFile') = Append(Written(auditFile), e)
  <2> DEFINE p == Piece(e)
  <2>1. p \in Line /\ p.event = e /\ auditFile' = Append(auditFile, p)
    BY <1>1, <1>3
  <2> HIDE DEF p, e
  <2>2. Append(auditFile, p) = auditFile \o <<p>>
    BY <1>3, <2>1
  <2>3. QED
    BY <1>3, <2>1, <2>2, WrittenAppend
<1> HIDE DEF e, c
<1>5. RecordInv'
  <2>1. /\ Recorded(Append(auditMem, e), cases)
        /\ Recorded(Append(Written(auditFile), e), cases)
    BY <1>2, <1>3, RecordedAppend DEF AuditInv, RecordInv
  <2>2. Recorded(auditMem', cases') /\ Recorded(Written(auditFile'), cases')
    BY <1>1, <1>4, <2>1
  <2>3. ASSUME NEW v \in Workers, pc'[v] = "audit"
        PROVE  /\ Before(auditMem', req'[v].case, copy'[v].rev)
               /\ Before(Written(auditFile'), req'[v].case, copy'[v].rev)
    <3>1. /\ v # w /\ pc[v] = "audit" /\ req[v].case # e.case
          /\ req'[v] = req[v] /\ copy'[v] = copy[v]
      BY <1>1, <1>2, <2>3
    <3>2. /\ Before(auditMem, req[v].case, copy[v].rev)
          /\ Before(Written(auditFile), req[v].case, copy[v].rev)
      BY <3>1 DEF AuditInv, RecordInv
    <3>3. /\ Before(Append(auditMem, e), req[v].case, copy[v].rev)
          /\ Before(Append(Written(auditFile), e), req[v].case, copy[v].rev)
      BY <1>2, <1>3, <3>1, <3>2, BeforeAppend
    <3>4. QED
      BY <1>1, <1>4, <3>1, <3>3
  <2>4. QED
    BY <2>2, <2>3 DEF RecordInv
<1>6. FileInv'
  <2> SUFFICES ASSUME auditFaults = 0
               PROVE  auditFile' = [i \in DOMAIN auditMem' |-> Piece(auditMem'[i])]
    BY <1>1 DEF FileInv
  <2>1. auditFile = [i \in DOMAIN auditMem |-> Piece(auditMem[i])]
    BY DEF AuditInv, FileInv
  <2>2. DOMAIN auditFile = DOMAIN auditMem /\ Len(auditFile) = Len(auditMem)
    BY <1>3, <2>1
  <2>3. /\ DOMAIN auditMem' = 1..(Len(auditMem) + 1)
        /\ \A i \in 1..Len(auditMem) : auditMem'[i] = auditMem[i]
        /\ auditMem'[Len(auditMem) + 1] = e
        /\ Len(auditMem) \in Nat /\ DOMAIN auditMem = 1..Len(auditMem)
    BY <1>1, <1>2, <1>3
  <2>4. /\ auditFile' \in Seq(Line)
        /\ DOMAIN auditFile' = 1..(Len(auditMem) + 1)
        /\ \A i \in 1..Len(auditMem) : auditFile'[i] = auditFile[i]
        /\ auditFile'[Len(auditMem) + 1] = Piece(e)
    BY <1>1, <1>3, <2>2
  <2>5. \A i \in 1..(Len(auditMem) + 1) : auditFile'[i] = Piece(auditMem'[i])
    BY <2>1, <2>3, <2>4
  <2>6. auditFile' = [i \in 1..(Len(auditMem) + 1) |-> auditFile'[i]]
    BY <2>4
  <2>7. QED
    BY <2>3, <2>5, <2>6
<1>7. GapInv'
  <2> SUFFICES ASSUME crashes = 0, auditFaults = 0, NEW d \in Cases
               PROVE  /\ Auditing(d)' => Trail(auditMem', d)
                            = Complete(d, cases[d].rev - 1)
                      /\ ~Auditing(d)' => Trail(auditMem', d)
                            = Complete(d, cases[d].rev)
    BY <1>1 DEF GapInv, Complete
  <2>1. Trail(auditMem', d) =
          IF d = c THEN Trail(auditMem, d) \cup {e} ELSE Trail(auditMem, d)
    <3>1. /\ DOMAIN auditMem' = (DOMAIN auditMem) \cup {Len(auditMem) + 1}
          /\ \A i \in DOMAIN auditMem : auditMem'[i] = auditMem[i]
          /\ auditMem'[Len(auditMem) + 1] = e
      BY <1>1, <1>2, <1>3, AppendDomain
    <3>2. QED
      BY <1>2, <3>1 DEF Trail, Positions
  <2>2. CASE d = c
    <3>1. Auditing(d) /\ ~Auditing(d)'
      BY <1>1, <1>2, <2>2 DEF Auditing, c
    <3>2. Trail(auditMem, d) = Complete(d, cases[d].rev - 1)
      BY <3>1 DEF AuditInv, GapInv
    <3>3. Complete(d, cases[d].rev) = Complete(d, cases[d].rev - 1) \cup {e}
      <4>1. e = Event(cases[d].log[cases[d].rev - 1], cases[d].rev)
        BY <1>2, <2>2 DEF e
      <4>2. 2..cases[d].rev = (2..(cases[d].rev - 1)) \cup {cases[d].rev}
        BY <1>2, <2>2
      <4>3. QED
        BY <4>1, <4>2 DEF Complete
    <3>4. QED
      BY <2>1, <2>2, <3>1, <3>2, <3>3
  <2>3. CASE d # c
    <3>1. Auditing(d)' <=> Auditing(d)
      BY <1>1, <2>3 DEF Auditing, c
    <3>2. QED
      BY <2>1, <2>3, <3>1 DEF AuditInv, GapInv
  <2>4. QED
    BY <2>2, <2>3
<1>8. QED
  BY <1>5, <1>6, <1>7 DEF AuditInv

(* An append that fails leaves the event, a torn line or nothing in the    *)
(* file, and in each case nothing that is wrong or out of order.           *)
LEMMA FailAudit ==
    ASSUME TypeOK, LockInv, JournalInv, AuditInv, NEW w \in Workers, AuditFail(w)
    PROVE  AuditInv'
<1> DEFINE c == req[w].case
           e == Event(req[w], copy[w].rev)
<1>1. /\ pc[w] = "audit" /\ pc'[w] = "idle"
      /\ \A v \in Workers : v # w =>
           pc'[v] = pc[v] /\ req'[v] = req[v] /\ copy'[v] = copy[v]
      /\ UNCHANGED <<cases, auditMem, crashes>>
      /\ auditFaults' = auditFaults + 1 /\ auditFaults \in Nat
  BY DEF AuditFail, Refuse, Return, TypeOK, storeVars
<1>2. /\ e \in AuditEvent /\ e.case = c /\ Records(e, cases)
      /\ Before(Written(auditFile), c, e.rev)
      /\ \A v \in Workers : v # w /\ pc[v] = "audit" => req[v].case # c
  BY <1>1, PendingEvent
<1> HIDE DEF c, e
<1>3. \/ auditFile' = auditFile
      \/ \E p \in Line : /\ p.event \in {None, e}
                         /\ auditFile' = auditFile \o <<p>>
  <2>1. PICK left \in Leftovers(e) : auditFile' = auditFile \o left
    BY DEF AuditFail, e
  <2>2. CASE left = <<>>
    BY <2>1, <2>2 DEF TypeOK
  <2>3. CASE \E p \in {Torn, Unended(e), Piece(e)} : left = <<p>>
    <3>1. PICK p \in {Torn, Unended(e), Piece(e)} : left = <<p>>
      BY <2>3
    <3>2. p \in Line /\ p.event \in {None, e}
      <4>1. Torn \in Line /\ Unended(e) \in Line /\ Piece(e) \in Line
        BY <1>2 DEF Torn, Unended, Piece, Line
      <4>2. Torn.event = None /\ Unended(e).event = e /\ Piece(e).event = e
        BY DEF Torn, Unended, Piece
      <4>3. QED
        BY <4>1, <4>2
    <3>3. QED
      BY <2>1, <3>1, <3>2
  <2>4. QED
    BY <2>1, <2>2, <2>3 DEF Leftovers
<1>4. \/ Written(auditFile') = Written(auditFile)
      \/ \E x \in {None, e} : Written(auditFile') = Append(Written(auditFile), x)
  BY <1>3, WrittenAppend DEF TypeOK
<1>5. Written(auditFile) \in Logged
  BY EventsAreLogged DEF TypeOK
<1>6. Recorded(Written(auditFile'), cases)
  <2>1. Recorded(Written(auditFile), cases)
    BY DEF AuditInv, RecordInv
  <2>2. \A x \in {None, e} : Recorded(Append(Written(auditFile), x), cases)
    BY <1>2, <1>5, <2>1, RecordedAppend
  <2>3. QED
    BY <1>4, <2>1, <2>2
<1>7. ASSUME NEW v \in Workers, pc'[v] = "audit"
      PROVE  /\ Before(auditMem', req'[v].case, copy'[v].rev)
             /\ Before(Written(auditFile'), req'[v].case, copy'[v].rev)
  <2>1. /\ v # w /\ pc[v] = "audit" /\ req[v].case # e.case
        /\ req'[v] = req[v] /\ copy'[v] = copy[v]
    BY <1>1, <1>2, <1>7
  <2>2. /\ Before(auditMem, req[v].case, copy[v].rev)
        /\ Before(Written(auditFile), req[v].case, copy[v].rev)
    BY <2>1 DEF AuditInv, RecordInv
  <2>3. \A x \in {None, e} :
          Before(Append(Written(auditFile), x), req[v].case, copy[v].rev)
    BY <1>2, <1>5, <2>1, <2>2, BeforeAppend
  <2>4. QED
    BY <1>1, <1>4, <2>1, <2>2, <2>3
<1>8. RecordInv'
  BY <1>1, <1>6, <1>7 DEF RecordInv, AuditInv
<1>9. FileInv' /\ GapInv'
  BY <1>1 DEF FileInv, GapInv
<1>10. QED
  BY <1>8, <1>9 DEF AuditInv

(* Where every line is whole the decoder reads them all.                   *)
LEMMA WholeFileIsReplayed ==
    ASSUME NEW mem \in Seq(AuditEvent), NEW file \in Seq(Line),
           file = [i \in DOMAIN mem |-> Piece(mem[i])],
           NEW n \in Decodable(file)
    PROVE  Replay(file, n) = mem
<1>1. /\ Len(mem) \in Nat /\ DOMAIN mem = 1..Len(mem)
      /\ Len(file) = Len(mem)
      /\ \A i \in 1..Len(mem) : file[i].event = mem[i] /\ mem[i] # None
  BY NoneAssumption DEF Piece
<1> DEFINE m == Len(mem)
<1>2. n \in 0..m /\ (n < m => file[n + 1].event = None)
  BY <1>1 DEF Decodable
<1>3. n = m
  <2>1. m \in Nat /\ \A i \in 1..m : file[i].event # None
    BY <1>1
  <2> HIDE DEF m
  <2>2. n < m => n + 1 \in 1..m
    BY <1>2, <2>1
  <2>3. ~(n < m)
    BY <1>2, <2>1, <2>2
  <2>4. QED
    BY <1>2, <2>1, <2>3
<1>4. Replay(file, n) = [i \in 1..Len(mem) |-> mem[i]]
  BY <1>1, <1>3 DEF Replay
<1>5. QED
  BY <1>1, <1>4

LEMMA CrashAudit ==
    ASSUME TypeOK, AuditInv, Crash
    PROVE  AuditInv'
<1>1. PICK n \in Decodable(auditFile) : auditMem' = Replay(auditFile, n)
  BY DEF Crash
<1>2. /\ UNCHANGED <<cases, auditFile, auditFaults>>
      /\ crashes' = crashes + 1 /\ crashes \in Nat
      /\ \A v \in Workers : pc'[v] = "idle"
  BY DEF Crash, storeVars, TypeOK
<1>3. RecordInv'
  <2>1. Recorded(Replay(auditFile, n), cases)
    <3> DEFINE s == Written(auditFile)
               t == Replay(auditFile, n)
    <3>1. n \in 0..Len(auditFile) /\ DOMAIN auditFile = 1..Len(auditFile)
      BY DEF Decodable, TypeOK
    <3>2. DOMAIN t \subseteq DOMAIN s /\ \A i \in DOMAIN t : t[i] = s[i]
      BY <3>1 DEF Replay, Written
    <3>3. Recorded(s, cases)
      BY DEF AuditInv, RecordInv
    <3> HIDE DEF s, t
    <3>4. Recorded(t, cases)
      BY <3>2, <3>3, RecordedPart
    <3>5. QED
      BY <3>4 DEF t
  <2>2. QED
    BY <1>1, <1>2, <2>1 DEF AuditInv, RecordInv
<1>4. FileInv'
  <2>1. CASE auditFaults = 0
    <3>1. auditFile = [i \in DOMAIN auditMem |-> Piece(auditMem[i])]
      BY <2>1 DEF AuditInv, FileInv
    <3>2. auditMem' = auditMem
      BY <1>1, <3>1, WholeFileIsReplayed DEF TypeOK
    <3>3. QED
      BY <1>2, <3>1, <3>2 DEF FileInv
  <2>2. CASE auditFaults # 0
    BY <1>2, <2>2 DEF FileInv
  <2>3. QED
    BY <2>1, <2>2
<1>5. GapInv'
  BY <1>2 DEF GapInv
<1>6. QED
  BY <1>3, <1>4, <1>5 DEF AuditInv

LEMMA AuditStep ==
    TypeOK /\ LockInv /\ JournalInv /\ AuditInv /\ [Next]_vars => AuditInv'
<1> SUFFICES ASSUME TypeOK, LockInv, JournalInv, AuditInv, [Next]_vars
             PROVE  AuditInv'
  OBVIOUS
<1> USE DEF storeVars, lockVars, localVars, auditVars, faultVars
<1>1. ASSUME NEW w \in Workers,
             \/ \E q \in Requests : Receive(w, q)
             \/ LockCreateMu(w) \/ LockCase(w)
      PROVE  AuditInv'
  <2>1. /\ UNCHANGED <<cases, auditMem, auditFile, crashes, auditFaults, copy>>
        /\ pc[w] # "audit" /\ pc'[w] # "audit"
        /\ \A v \in Workers : v # w => pc'[v] = pc[v] /\ req'[v] = req[v]
    BY <1>1 DEF Receive, LockCreateMu, LockCase, Goto, TypeOK
  <2>2. QED
    BY <2>1, AuditFrame
<1>2. ASSUME NEW w \in Workers,
             CheckEvidence(w) \/ Lookup(w) \/ Load(w) \/ Decide(w)
      PROVE  AuditInv'
  <2>1. /\ UNCHANGED <<cases, auditMem, auditFile, crashes, auditFaults>>
        /\ pc[w] # "audit"
    BY <1>2 DEF CheckEvidence, Lookup, Load, Decide
  <2>2. CASE Return(w)
    BY <2>1, <2>2, AuditReturn
  <2>3. CASE ~Return(w)
    <3>1. /\ pc'[w] # "audit"
          /\ \A v \in Workers : v # w =>
               pc'[v] = pc[v] /\ req'[v] = req[v] /\ copy'[v] = copy[v]
      BY <1>2, <2>3 DEF CheckEvidence, Lookup, Load, Decide, ReturnSaved,
                        Succeed, Refuse, Goto, TypeOK
    <3>2. QED
      BY <2>1, <3>1, AuditFrame
  <2>4. QED
    BY <2>2, <2>3
<1>3. ASSUME NEW w \in Workers, Commit(w)
      PROVE  AuditInv'
  <2>1. CASE Return(w)
    <3>1. /\ pc[w] # "audit"
          /\ UNCHANGED <<cases, auditMem, auditFile, crashes, auditFaults>>
      BY <1>3, <2>1 DEF Commit, Return, Goto, TypeOK
    <3>2. QED
      BY <2>1, <3>1, AuditReturn
  <2>2. CASE ~Return(w)
    BY <1>3, <2>2, CommitAudit
  <2>3. QED
    BY <2>1, <2>2
<1>4. ASSUME NEW w \in Workers, AuditAppend(w) \/ AuditFail(w)
      PROVE  AuditInv'
  BY <1>4, AppendAudit, FailAudit
<1>5. CASE Crash
  BY <1>5, CrashAudit
<1>6. CASE UNCHANGED vars
  BY <1>6, AuditFrame DEF vars
<1>7. QED
  BY <1>1, <1>2, <1>3, <1>4, <1>5, <1>6 DEF Next, Step

LEMMA AuditInvariant == Spec => []AuditInv
<1>1. Init => AuditInv
  <2> SUFFICES ASSUME Init PROVE AuditInv
    OBVIOUS
  <2>1. RecordInv
    BY DEF Init, RecordInv, Recorded, Written
  <2>2. FileInv
    BY DEF Init, FileInv
  <2>3. GapInv
    <3>1. \A c \in Cases : ~Auditing(c) /\ cases[c].rev = 1 /\ auditMem = <<>>
      BY DEF Init, Auditing
    <3>2. \A c : Complete(c, 1) = {Registered(c)}
      BY DEF Complete
    <3>3. \A c : auditMem = <<>> => Trail(auditMem, c) = {Registered(c)}
      BY DEF Trail, Positions
    <3>4. QED
      BY <3>1, <3>2, <3>3 DEF GapInv
  <2>4. QED
    BY <2>1, <2>2, <2>3 DEF AuditInv
<1>2. Spec => []LockInv
  BY MutexesAreHeldInside, PTL DEF LockInv, MutexesHeldInside
<1>3. QED
  BY <1>1, <1>2, AuditStep, TypeCorrect, JournalInvariant, PTL DEF Spec

(* Whatever fails and wherever the process stops, the audit of a case      *)
(* holds nothing but its requests, in the order they were made: the mutex  *)
(* of the case covers the commit and the append.                           *)
THEOREM AuditFollowsTheCase == Spec => []AuditFollowsCase
<1>1. TypeOK /\ RecordInv => AuditFollowsCase
  <2> SUFFICES ASSUME TypeOK, RecordInv, NEW c \in Cases
               PROVE  Follows(auditMem, c)
    BY DEF AuditFollowsCase
  <2>1. \A i \in DOMAIN auditMem : auditMem[i] # None
    BY NoneAssumption DEF TypeOK
  <2>2. QED
    BY <2>1 DEF RecordInv, Recorded, Records, Follows, InOrder, Positions
<1>2. QED
  BY <1>1, AuditInvariant, TypeCorrect, PTL DEF AuditInv

(* Until an append fails or the process stops, a case nobody works on has  *)
(* a complete audit, so sealing is never refused for a gap.                *)
THEOREM AuditsAreComplete == Spec => []AuditComplete
<1>1. LockInv /\ GapInv => AuditComplete
  <2> SUFFICES ASSUME LockInv, GapInv, crashes = 0, auditFaults = 0,
                      NEW c \in Cases, caseLock[c] = None
               PROVE  Trail(auditMem, c) = Complete(c, cases[c].rev)
    BY DEF AuditComplete
  <2>1. ~Auditing(c)
    BY NoneAssumption DEF Auditing, LockInv, LocksHeldInside, Inside
  <2>2. QED
    BY <2>1 DEF GapInv
<1>2. Spec => []LockInv
  BY MutexesAreHeldInside, PTL DEF LockInv, MutexesHeldInside
<1>3. QED
  BY <1>1, <1>2, AuditInvariant, PTL DEF AuditInv

(* Until an append fails, a restart remembers the audit as it was.         *)
THEOREM RestartsKeepTheAudit == Spec => []RestartKeepsAudit
<1>1. TypeOK /\ FileInv => RestartKeepsAudit
  BY WholeFileIsReplayed DEF TypeOK, FileInv, RestartKeepsAudit
<1>2. QED
  BY <1>1, AuditInvariant, TypeCorrect, PTL DEF AuditInv
-----------------------------------------------------------------------------
(***************************************************************************)
(* Sealing.  The chain is validated on the way to the commit, and what     *)
(* Validate accepts is complete only because the audit follows the case.   *)
(***************************************************************************)

(* A step that leaves the cases alone and brings nobody to a commit.       *)
LEMMA AnchorFrame ==
    ASSUME AnchorInv, UNCHANGED cases,
           \A v \in Workers : pc'[v] = "commit" =>
             pc[v] = "commit" /\ req'[v] = req[v] /\ copy'[v] = copy[v]
    PROVE  AnchorInv'
<1>1. \A c \in Cases : \A n : Complete(c, n)' = Complete(c, n)
  BY DEF Complete
<1>2. SealedOverCompleteAudit'
  BY <1>1 DEF AnchorInv, SealedOverCompleteAudit, Complete
<1>3. ASSUME NEW v \in Workers, pc'[v] = "commit", copy'[v].sealed
      PROVE  copy'[v].anchor = Complete(req[v].case, cases[req[v].case].rev)
  BY <1>3 DEF AnchorInv
<1>4. \A v \in Workers : pc'[v] = "commit" => req'[v] = req[v]
  OBVIOUS
<1>5. QED
  BY <1>2, <1>3, <1>4 DEF AnchorInv, Complete

(* A request accepted as a seal carries the complete audit it validated.   *)
LEMMA DecideAnchor ==
    ASSUME TypeOK, JournalInv, RecordInv, AnchorInv,
           NEW w \in Workers, Decide(w), ~Return(w)
    PROVE  AnchorInv'
<1> DEFINE q == req[w]
           c == q.case
           x == copy[w]
           t == Trail(auditMem, c)
<1>1. /\ pc[w] = "decide" /\ cases' = cases /\ req' = req
      /\ q.op = "SEAL" => Validate(auditMem, c, x.rev)
      /\ copy' = [copy EXCEPT ![w] = Applied(x, q, t)]
      /\ \A v \in Workers : v # w => pc'[v] = pc[v] /\ copy'[v] = copy[v]
  BY DEF Decide, Refuse, Goto, Sealable, TypeOK, storeVars
<1>2. q \in Requests /\ c \in Cases
  BY <1>1, RequestsAssumption DEF TypeOK
<1>3. x = cases[c]
  BY <1>1 DEF JournalInv, WorkersAreCurrent, Current
<1>4. q.op = "SEAL" => t = Complete(c, cases[c].rev)
  BY <1>1, <1>2, <1>3, ValidatedIsComplete DEF JournalInv, RecordInv, TypeOK
<1>5. copy'[w] = Applied(x, q, t)
  BY <1>1 DEF TypeOK
<1>6. copy'[w].sealed => copy'[w].anchor = Complete(c, cases[c].rev)
  <2>1. /\ Applied(x, q, t).sealed <=> q.op = "SEAL"
        /\ q.op = "SEAL" => Applied(x, q, t).anchor = t
    BY DEF Applied
  <2>2. QED
    BY <1>4, <1>5, <2>1
<1>7. SealedOverCompleteAudit'
  BY <1>1 DEF AnchorInv, SealedOverCompleteAudit, Complete
<1>8. ASSUME NEW v \in Workers, pc'[v] = "commit", copy'[v].sealed
      PROVE  copy'[v].anchor = Complete(req[v].case, cases[req[v].case].rev)
  BY <1>1, <1>6, <1>8 DEF AnchorInv
<1>9. QED
  BY <1>1, <1>7, <1>8 DEF AnchorInv, Complete

LEMMA CommitAnchor ==
    ASSUME TypeOK, LockInv, JournalInv, AnchorInv,
           NEW w \in Workers, Commit(w), ~Return(w)
    PROVE  AnchorInv'
<1> DEFINE q == req[w]
<1>1. /\ q \in Requests /\ q.case \in Cases
      /\ pc[w] = "commit" /\ pc'[w] = "audit" /\ req' = req /\ copy' = copy
      /\ \A v \in Workers : v # w => pc'[v] = pc[v]
  BY CommitEffect DEF JournalInv
<1>2. \A d \in Cases : Grown(w, d)
  BY CommitLog DEF JournalInv
<1>3. ASSUME NEW c \in Cases, c # q.case
      PROVE  cases'[c] = cases[c] /\ \A n : Complete(c, n)' = Complete(c, n)
  <2>1. cases'[c] = cases[c]
    BY <1>2, <1>3 DEF Grown
  <2>2. QED
    BY <2>1 DEF Complete
<1>4. ASSUME NEW c \in Cases, cases'[c].sealed
      PROVE  cases'[c].anchor = Complete(c, cases[c].rev - 1)'
  <2>1. CASE c # q.case
    <3>1. Complete(c, cases[c].rev - 1)' = Complete(c, cases[c].rev - 1)
      BY <1>3, <2>1 DEF Complete
    <3>2. QED
      BY <1>3, <1>4, <2>1, <3>1 DEF AnchorInv, SealedOverCompleteAudit
  <2>2. CASE c = q.case
    <3> DEFINE n == cases[c].rev
    <3>1. /\ n \in Nat /\ DOMAIN cases[c].log = 1..(n - 1)
          /\ cases'[c].rev - 1 = n /\ cases'[c] = copy[w]
      <4>1. n \in Nat /\ n = Len(cases[c].log) + 1
        BY DEF TypeOK, Case, JournalInv, StoreInv, NoBlindUpdate
      <4>2. /\ DOMAIN cases[c].log = 1..Len(cases[c].log)
            /\ cases'[c].rev = Len(cases[c].log) + 2 /\ cases'[c] = copy[w]
        BY <1>2, <2>2 DEF Grown
      <4>3. QED
        BY <4>1, <4>2
    <3>2. \A r \in 2..n : cases'[c].log[r - 1] = cases[c].log[r - 1]
      <4>1. \A i \in DOMAIN cases[c].log : cases'[c].log[i] = cases[c].log[i]
        BY <1>2 DEF Grown
      <4>2. \A r \in 2..n : r - 1 \in DOMAIN cases[c].log
        BY <3>1
      <4>3. QED
        BY <4>1, <4>2
    <3>3. Complete(c, cases[c].rev - 1)' = Complete(c, n)
      BY <3>1, <3>2 DEF Complete
    <3>4. copy[w].anchor = Complete(c, n)
      BY <1>1, <1>4, <2>2, <3>1 DEF AnchorInv
    <3>5. QED
      BY <3>1, <3>3, <3>4
  <2>3. QED
    BY <2>1, <2>2
<1>5. ASSUME NEW v \in Workers, pc'[v] = "commit", copy'[v].sealed
      PROVE  copy'[v].anchor = Complete(req[v].case, cases[req[v].case].rev)'
  <2>1. v # w /\ pc[v] = "commit"
    BY <1>1, <1>5
  <2>2. req[v].case \in Cases /\ req[v].case # q.case
    BY <1>1, <2>1, CaseExclusion, RequestsAssumption DEF Inside, TypeOK
  <2>3. Complete(req[v].case, cases[req[v].case].rev)'
          = Complete(req[v].case, cases[req[v].case].rev)
    BY <1>1, <1>3, <2>2 DEF Complete
  <2>4. QED
    BY <1>1, <1>5, <2>1, <2>3 DEF AnchorInv
<1>6. QED
  BY <1>4, <1>5 DEF AnchorInv, SealedOverCompleteAudit

LEMMA AnchorStep ==
    TypeOK /\ LockInv /\ JournalInv /\ RecordInv /\ AnchorInv /\ [Next]_vars
      => AnchorInv'
<1> SUFFICES ASSUME TypeOK, LockInv, JournalInv, RecordInv, AnchorInv, [Next]_vars
             PROVE  AnchorInv'
  OBVIOUS
<1> USE DEF storeVars, lockVars, localVars, auditVars, faultVars
<1>1. ASSUME NEW w \in Workers, UNCHANGED cases, Return(w)
      PROVE  AnchorInv'
  BY <1>1, AnchorFrame DEF Return, TypeOK
<1>2. ASSUME NEW w \in Workers, UNCHANGED <<cases, copy>>, pc'[w] # "commit",
             \A v \in Workers : v # w => pc'[v] = pc[v] /\ req'[v] = req[v]
      PROVE  AnchorInv'
  BY <1>2, AnchorFrame
<1>3. ASSUME NEW w \in Workers, NEW q \in Requests, Receive(w, q)
      PROVE  AnchorInv'
  BY <1>2, <1>3 DEF Receive, TypeOK
<1>4. ASSUME NEW w \in Workers,
             LockCreateMu(w) \/ CheckEvidence(w) \/ LockCase(w) \/ Lookup(w)
      PROVE  AnchorInv'
  <2>1. UNCHANGED cases
    BY <1>4 DEF LockCreateMu, CheckEvidence, LockCase, Lookup
  <2>2. Return(w) \/ (UNCHANGED copy /\ Goto(w, pc'[w]) /\ pc'[w] # "commit")
    BY <1>4 DEF LockCreateMu, CheckEvidence, LockCase, Lookup, ReturnSaved,
                Succeed, Refuse, Goto, TypeOK
  <2>3. QED
    BY <1>1, <1>2, <2>1, <2>2 DEF Goto, TypeOK
<1>5. ASSUME NEW w \in Workers, Load(w)
      PROVE  AnchorInv'
  <2>1. CASE Return(w)
    BY <1>1, <1>5, <2>1 DEF Load
  <2>2. CASE ~Return(w)
    BY <1>5, <2>2, AnchorFrame DEF Load, Refuse, Goto, TypeOK
  <2>3. QED
    BY <2>1, <2>2
<1>6. ASSUME NEW w \in Workers, Decide(w)
      PROVE  AnchorInv'
  <2>1. CASE Return(w)
    BY <1>1, <1>6, <2>1 DEF Decide
  <2>2. CASE ~Return(w)
    BY <1>6, <2>2, DecideAnchor
  <2>3. QED
    BY <2>1, <2>2
<1>7. ASSUME NEW w \in Workers, Commit(w)
      PROVE  AnchorInv'
  <2>1. CASE Return(w)
    <3>1. UNCHANGED cases
      BY <1>7, <2>1 DEF Commit, Return, Goto, TypeOK
    <3>2. QED
      BY <1>1, <2>1, <3>1
  <2>2. CASE ~Return(w)
    BY <1>7, <2>2, CommitAnchor
  <2>3. QED
    BY <2>1, <2>2
<1>8. ASSUME NEW w \in Workers, AuditAppend(w) \/ AuditFail(w)
      PROVE  AnchorInv'
  BY <1>1, <1>8 DEF AuditAppend, AuditFail, Succeed, Refuse
<1>9. CASE Crash
  BY <1>9, AnchorFrame DEF Crash
<1>10. CASE UNCHANGED vars
  BY <1>10, AnchorFrame DEF vars
<1>11. QED
  BY <1>3, <1>4, <1>5, <1>6, <1>7, <1>8, <1>9, <1>10 DEF Next, Step

LEMMA AnchorInvariant == Spec => []AnchorInv
<1>1. Init => AnchorInv
  BY DEF Init, AnchorInv, SealedOverCompleteAudit
<1>2. Spec => []LockInv
  BY MutexesAreHeldInside, PTL DEF LockInv, MutexesHeldInside
<1>3. QED
  BY <1>1, <1>2, AnchorStep, TypeCorrect, JournalInvariant, AuditInvariant,
     PTL DEF Spec, AuditInv

(* A seal is never set over a gap, whatever appends have failed and        *)
(* wherever the process has stopped: the manifest is anchored at the       *)
(* complete audit of every revision before the seal.                       *)
THEOREM SealsAreOverCompleteAudits == Spec => []SealedOverCompleteAudit
<1>1. AnchorInv => SealedOverCompleteAudit
  BY DEF AnchorInv
<1>2. QED
  BY <1>1, AnchorInvariant, PTL
=============================================================================
