------------------------ MODULE CaseLifecycleProofs ------------------------
(***************************************************************************)
(* Proofs about CaseLifecycle: for every staff, every set of tasks and     *)
(* every bound, a case only ever holds the evidence its state calls for,   *)
(* whoever acts and in whatever order.                                     *)
(***************************************************************************)
EXTENDS CaseLifecycle, FunctionTheorems, FiniteSetTheorems, TLAPS

-----------------------------------------------------------------------------
(***************************************************************************)
(* The inductive invariant, one conjunct per part of the case.             *)
(***************************************************************************)

(* Generations are decided in order, so the g-th decision is that of the   *)
(* g-th generation.                                                        *)
Concluded(g, decision) ==
    /\ g \in DOMAIN quality /\ Settled(quality[g])
    /\ EffectiveDecision(quality[g]) = decision

(* How far the decisions are behind the captures in each state.            *)
StageInv ==
    /\ plan = None => generation = 0
    /\ state # "CAPTURED" => Len(quality) = generation
    /\ state = "CAPTURED" =>
         \/ Len(quality) = generation - 1
         \/ Len(quality) = generation /\ ~Settled(quality[generation])
    /\ state \in {"CAPTURED", "QC_PASSED", "RECAPTURE_REQUIRED", "SEALED"} =>
         generation >= 1
    /\ state \in {"QC_PASSED", "SEALED"} => Concluded(generation, "PASS")
    /\ state = "RECAPTURE_REQUIRED" => Concluded(generation, "FAIL")
    /\ state = "READY_FOR_CAPTURE" /\ generation >= 1 => Concluded(generation, "FAIL")

(* A second opinion and an adjudication are there when the status of the   *)
(* decision says so.                                                       *)
OpinionOK(q) ==
    /\ q.countersign \in {"NONE", "PENDING"} => q.countersigner = None
    /\ q.countersign \in {"NONE", "PENDING", "CONFIRMED", "DISAGREED"} =>
         q.adjudication = None
    /\ q.countersign = "ADJUDICATED" => q.adjudication # None

QualityInv ==
    /\ \A g \in DOMAIN quality :
         quality[g].generation = g /\ OpinionOK(quality[g])
    /\ \A g \in 1..(generation - 1) : Concluded(g, "FAIL")

(* Every generation has captures, as many of them as generations at least. *)
CaptureInv ==
    /\ IsFiniteSet(captures) /\ Cardinality(captures) >= generation
    /\ \A x \in captures : x.generation \in 1..generation
    /\ \A g \in 1..generation : \E x \in captures : x.generation = g

(* Versions of the plan are numbered without gaps, each by somebody who    *)
(* does not approve it; only the last may hold a window.                   *)
VersionOK(history, p, i) ==
    /\ history[i].revision = p.revision - (Len(history) - i)
    /\ history[i].operator # history[i].approver
    /\ history[i].window = None <=> history[i].reservation = "NONE"
    /\ i < Len(history) => history[i].reservation \in {"NONE", "RELEASED"}

PlanInv ==
    /\ plan = None <=> planHistory = <<>>
    /\ plan # None => plan = LastOf(planHistory)
    /\ \A i \in DOMAIN planHistory : VersionOK(planHistory, plan, i)
    /\ \A x \in captures :
         /\ x.plan = plan.revision /\ x.task \in plan.tasks /\ WithinPlan(x)
         /\ plan.window # None => plan.reservation = "CONSUMED"

(* An authorization is for the next generation until it is spent by it,    *)
(* and it is spent as the last record of its generation.                   *)
ActionOK(i) ==
    LET a == recaptures[i]
    IN  /\ a.generation \in 2..(generation + 1)
        /\ state \notin {"READY_FOR_CAPTURE", "RECAPTURE_REQUIRED"} =>
             a.generation =< generation
        /\ a.consumedBy = 0 =>
             a.status = (IF a.action = "revoke" THEN "REVOKED" ELSE "ACTIVE")
        /\ a.consumedBy # 0 =>
             /\ a.consumedBy = a.generation /\ a.generation =< generation
             /\ a.status = "CONSUMED" /\ i \in ActiveAuthorization(a.generation)

SpentFor(x, i) ==
    /\ recaptures[i].consumedBy = x.generation
    /\ recaptures[i].version = x.version
    /\ recaptures[i].authorizedAt =< x.startedAt
    /\ x.startedAt =< recaptures[i].expiresAt

RecaptureInv ==
    /\ \A i \in DOMAIN recaptures : ActionOK(i)
    /\ \A x \in captures : x.generation > 1 =>
         \E i \in ActiveAuthorization(x.generation) : SpentFor(x, i)
    /\ state = "RECAPTURE_REQUIRED" => ActiveAuthorization(generation + 1) = {}
    /\ state = "READY_FOR_CAPTURE" /\ generation >= 1 =>
         ActiveAuthorization(generation + 1) # {}

(* Second opinions are independent of the operator, of each other and of   *)
(* the remediations before them.                                           *)
OpinionDuties(g) ==
    LET q == quality[g]
    IN  /\ q.countersigner # None =>
             /\ q.countersigner \notin {q.reviewer, plan.operator}
             /\ \A i \in DOMAIN recaptures :
                  recaptures[i].generation =< g =>
                    recaptures[i].owner # q.countersigner
        /\ q.adjudication # None =>
             q.adjudication.by \notin {q.reviewer, q.countersigner, plan.operator}

(* An authorization is independent of the failure it answers, and names an *)
(* officer when the generation before failed for the same reason.          *)
ActionDuties(i) ==
    LET a == recaptures[i]
        g == a.generation - 1
    IN  a.action # "revoke" =>
          /\ g \in DOMAIN quality
          /\ a.by # quality[g].reviewer
          /\ a.performer \notin {plan.operator, quality[g].reviewer, a.by}
          /\ g > 1 /\ EffectiveFailures(quality[g - 1])
                        \cap EffectiveFailures(quality[g]) # {} =>
               /\ a.escalation # None
               /\ a.escalation.officer \notin
                    {plan.operator, quality[g].reviewer, quality[g].countersigner}
               /\ quality[g].adjudication # None =>
                    a.escalation.officer # quality[g].adjudication.by
               /\ \A j \in 1..i : recaptures[j].action # "revoke" =>
                    a.escalation.officer # recaptures[j].by

DutyInv ==
    /\ \A g \in DOMAIN quality : OpinionDuties(g)
    /\ \A i \in DOMAIN recaptures : ActionDuties(i)

(* The last event of the audit that is not a custody transfer is one that  *)
(* leads to the state the case is in.                                      *)
AnchoredAt(events, j) ==
    /\ j \in DOMAIN events /\ (j = 1 \/ events[j] # "CUSTODY_TRANSFER")
    /\ \A k \in DOMAIN events : k > j => events[k] = "CUSTODY_TRANSFER"

Anchored(types) == \E j \in DOMAIN trail : AnchoredAt(trail, j) /\ trail[j] \in types

TrailInv ==
    /\ AuditAcceptsLifecycle
    /\ state = "REGISTERED" => Anchored({"REGISTERED"})
    /\ state = "ASSESSED" => Anchored(AssessmentEvents)
    /\ state = "READY_FOR_CAPTURE" /\ generation = 0 =>
         \/ Anchored(PlanEvents)
         \/ Anchored({"PLAN_RESERVATION_RELEASED"}) /\ plan.reservation = "RELEASED"
    /\ state = "READY_FOR_CAPTURE" /\ generation >= 1 =>
         Anchored({"RECAPTURE_AUTHORIZED", "RECAPTURE_RENEWED"})
    /\ state = "CAPTURED" =>
         IF Len(quality) = generation THEN Anchored({"QUALITY"})
                                      ELSE Anchored({"CAPTURED"})
    /\ state = "QC_PASSED" => Anchored({"QUALITY", "QUALITY_ADJUDICATED"})
    /\ state = "RECAPTURE_REQUIRED" =>
         \/ Anchored({"RECAPTURE_REVOKED"})
         \/ /\ Anchored({"QUALITY", "QUALITY_ADJUDICATED"})
            /\ \A i \in DOMAIN recaptures : recaptures[i].generation =< generation

CaseInv ==
    /\ TypeOK /\ StageInv /\ QualityInv /\ CaptureInv /\ PlanInv /\ RecaptureInv
    /\ DutyInv /\ TrailInv /\ SealStaysVerified

-----------------------------------------------------------------------------
(***************************************************************************)
(* The operators the model is built from.                                  *)
(***************************************************************************)
LEMMA Persons == \A r \in Roles : Staff[r] \subseteq People
BY StaffAssumption

LEMMA Absent ==
    /\ None \notin People /\ None \notin ConditionAssessment
    /\ None \notin CapturePlan /\ None \notin QualityAdjudication
    /\ None \notin RecaptureEscalation /\ None \notin PreservationManifest
BY NoneAssumption

LEMMA Choices ==
    /\ Risks \subseteq {"none", "other", "high"} /\ Summing \subseteq BOOLEAN
    /\ Splicing \subseteq BOOLEAN /\ Listening \subseteq BOOLEAN
    /\ MaxTerm \in Nat /\ MaxTime \in Nat
    /\ Starts \subseteq Nat /\ Lengths \subseteq Nat
BY ChoicesAssumption, TimesAssumption

LEMMA AssessmentType ==
    ASSUME NEW n \in Nat, NEW f \in Findings
    PROVE  Assessed(f, n) \in ConditionAssessment
<1>1. f.risk \in {"none", "other", "high"} /\ f.resums \in BOOLEAN
  BY Choices DEF Findings
<1>2. QED
  BY <1>1 DEF Assessed, ConditionAssessment

(* What a request for a plan becomes.                                      *)
LEMMA NumberedFacts ==
    ASSUME TypeOK, NEW p \in PlanRequests, NEW n \in Nat
    PROVE  /\ Numbered(p, n) \in CapturePlan /\ Numbered(p, n).revision = n
           /\ Numbered(p, n).operator # Numbered(p, n).approver
           /\ Numbered(p, n).window = None <=> Numbered(p, n).reservation = "NONE"
           /\ Numbered(p, n).controls = Stored(Numbered(p, n).fingerprint)
           /\ Numbered(p, n).fingerprint = "listed" => assessment.risk # "none"
<1> DEFINE q == Numbered(p, n)
<1>1. /\ p.operator \in People /\ p.approver \in People
      /\ p.tasks \in TaskSets /\ p.approvedAt = now
      /\ p.validUntil \in (now + 1)..(now + MaxTerm)
      /\ p.window \in {None} \cup Windows(now + MaxTerm)
      /\ p.reservation \in {"NONE", "ACTIVE"} /\ p.operator # p.approver
      /\ p.reservation = "ACTIVE" <=> p.window # None
      /\ p.fingerprint \in {NormalControls(d) : d \in Controlling}
  BY Persons DEF PlanRequests, Roles
<1>2. now \in Nat
  BY DEF TypeOK, CreatedAt
<1>3. p.window \in CaptureWindow \cup {None}
  <2>1. Windows(now + MaxTerm) \subseteq [start : Nat, end : Nat]
    BY <1>2, Choices DEF Windows
  <2>2. QED
    BY <1>1, <2>1 DEF CaptureWindow
<1>4. p.validUntil \in Nat
  BY <1>1, <1>2, Choices
<1>5. /\ q.revision = n /\ q.operator = p.operator /\ q.approver = p.approver
      /\ q.window = p.window /\ q.reservation = p.reservation
      /\ q.fingerprint = p.fingerprint /\ q.controls = Stored(p.fingerprint)
  BY DEF Numbered
<1>6. /\ p.fingerprint \in {"none", "empty", "listed"}
      /\ p.fingerprint = "listed" => assessment.risk # "none"
      /\ Stored(p.fingerprint) \in {"none", "listed"}
  BY <1>1 DEF NormalControls, Stored
<1>7. q \in CapturePlan
  BY <1>1, <1>2, <1>3, <1>4, <1>6 DEF Numbered, CapturePlan
<1>8. QED
  BY <1>1, <1>5, <1>6, <1>7

(* Setting the status of a reservation changes nothing else.               *)
LEMMA ReservationOf ==
    ASSUME NEW history \in Seq(CapturePlan), NEW n,
           NEW status \in {"NONE", "ACTIVE", "RELEASED", "CONSUMED"},
           NEW h, h = WithReservation(history, n, status)
    PROVE  /\ h \in Seq(CapturePlan) /\ Len(h) = Len(history)
           /\ DOMAIN h = DOMAIN history
           /\ \A i \in DOMAIN history :
                /\ h[i].revision = history[i].revision
                /\ h[i].operator = history[i].operator
                /\ h[i].approver = history[i].approver
                /\ h[i].window = history[i].window
                /\ h[i].fingerprint = history[i].fingerprint
                /\ h[i].controls = history[i].controls
                /\ SameFields(h[i], history[i])
                /\ h[i].reservation = IF history[i].revision = n THEN status
                                      ELSE history[i].reservation
<1> DEFINE Set(p) == [p EXCEPT !.reservation = status]
<1>1. \A p \in CapturePlan :
        /\ Set(p) \in CapturePlan
        /\ Set(p).revision = p.revision /\ Set(p).operator = p.operator
        /\ Set(p).approver = p.approver /\ Set(p).window = p.window
        /\ Set(p).tasks = p.tasks /\ Set(p).validUntil = p.validUntil
        /\ Set(p).fingerprint = p.fingerprint /\ Set(p).controls = p.controls
        /\ Set(p).reservation = status
  BY DEF CapturePlan
<1>2. h = [i \in DOMAIN history |->
             IF history[i].revision = n THEN Set(history[i]) ELSE history[i]]
  BY DEF WithReservation
<1>3. \A i \in DOMAIN history : history[i] \in CapturePlan
  OBVIOUS
<1> HIDE DEF Set
<1>4. \A i \in DOMAIN history :
        h[i] = IF history[i].revision = n THEN Set(history[i]) ELSE history[i]
  BY <1>2
<1>5. DOMAIN h = 1..Len(history) /\ \A i \in 1..Len(history) : h[i] \in CapturePlan
  BY <1>1, <1>2, <1>3, <1>4
<1>6. h \in Seq(CapturePlan) /\ Len(h) = Len(history) /\ DOMAIN h = DOMAIN history
  <2>1. h = [i \in 1..Len(history) |-> h[i]]
    BY <1>2, <1>5
  <2>2. QED
    BY <1>5, <2>1
<1>7. \A i \in DOMAIN history :
        /\ h[i].revision = history[i].revision
        /\ h[i].operator = history[i].operator
        /\ h[i].approver = history[i].approver
        /\ h[i].window = history[i].window
        /\ h[i].fingerprint = history[i].fingerprint
        /\ h[i].controls = history[i].controls
        /\ SameFields(h[i], history[i])
        /\ h[i].reservation = IF history[i].revision = n THEN status
                              ELSE history[i].reservation
  BY <1>1, <1>3, <1>4 DEF SameFields
<1>8. QED
  BY <1>6, <1>7

(* The items of a request for captures of the current plan.                *)
Captured(items) ==
    /\ items # {} /\ IsFiniteSet(items)
    /\ \A x \in items :
         /\ x.task \in plan.tasks /\ x.splice \in BOOLEAN
         /\ x.startedAt \in Nat /\ x.endedAt \in Nat /\ x.length \in Nat
         /\ \A y \in items : x.task = y.task => x = y

LEMMA CapturedOf ==
    ASSUME NEW t \in plan.tasks, NEW r \in Recordings
    PROVE  LET x == CaptureOf(t, r)
           IN  /\ x.task = t /\ x.splice \in BOOLEAN
               /\ x.startedAt \in Nat /\ x.endedAt \in Nat /\ x.length \in Nat
<1>1. r.startedAt \in Nat /\ r.splice \in BOOLEAN /\ r.length \in Nat
  BY Choices DEF Recordings
<1>2. r.startedAt + 1 \in Nat
  BY <1>1
<1>3. QED
  BY <1>1, <1>2 DEF CaptureOf

LEMMA CapturedItems ==
    ASSUME NEW tasks \in SUBSET plan.tasks, IsFiniteSet(tasks), tasks # {},
           NEW r \in [tasks -> Recordings]
    PROVE  Captured({CaptureOf(t, r[t]) : t \in tasks})
<1> DEFINE items == {CaptureOf(t, r[t]) : t \in tasks}
           f == [t \in tasks |-> CaptureOf(t, r[t])]
<1>1. f \in Surjection(tasks, items)
  BY DEF Surjection
<1>2. IsFiniteSet(items)
  BY <1>1, FS_Surjection
<1>3. \A t \in tasks : r[t] \in Recordings
  OBVIOUS
<1>4. \A t \in tasks : LET x == CaptureOf(t, r[t])
                        IN  /\ x.task = t /\ x.splice \in BOOLEAN
                            /\ x.startedAt \in Nat /\ x.endedAt \in Nat
                            /\ x.length \in Nat
  BY <1>3, CapturedOf
<1>5. QED
  BY <1>2, <1>4 DEF Captured

LEMMA RecordedFacts ==
    ASSUME plan \in CapturePlan, NEW gen \in Nat, NEW version \in Nat, NEW x,
           x.task \in plan.tasks, x.splice \in BOOLEAN,
           x.startedAt \in Nat, x.endedAt \in Nat, x.length \in Nat,
           NEW y, y = Recorded(x, gen, version)
    PROVE  /\ y \in CaptureGeneration /\ y.generation = gen
           /\ y.plan = plan.revision /\ y.version = version
           /\ y.task = x.task /\ y.startedAt = x.startedAt /\ y.endedAt = x.endedAt
<1>1. plan.revision \in Nat /\ x.task \in UNION TaskSets
  BY DEF CapturePlan
<1>2. QED
  BY <1>1 DEF Recorded, CaptureGeneration

(* Consuming an authorization changes its status and its escalation.       *)
LEMMA ConsumedFacts ==
    ASSUME NEW a \in RecaptureAction, Usable(a), NEW gen \in Nat
    PROVE  LET c == Consumed(a, gen)
           IN  /\ c \in RecaptureAction
               /\ c.status = "CONSUMED" /\ c.consumedBy = gen
               /\ c.action = a.action /\ c.version = a.version
               /\ c.generation = a.generation /\ c.by = a.by
               /\ c.owner = a.owner /\ c.performer = a.performer
               /\ c.authorizedAt = a.authorizedAt /\ c.expiresAt = a.expiresAt
               /\ c.escalation # None <=> a.escalation # None
               /\ a.escalation # None =>
                    c.escalation.officer = a.escalation.officer
<1> DEFINE c == Consumed(a, gen)
           e == Attempted(a.escalation)
<1>1. /\ a.escalation # None =>
           /\ a.escalation \in RecaptureEscalation
           /\ a.escalation.remaining \in Nat /\ a.escalation.remaining > 0
      /\ a.escalation \in RecaptureEscalation \cup {None}
  BY DEF RecaptureAction, RecaptureEscalation, Usable
<1>2. /\ e \in RecaptureEscalation \cup {None}
      /\ e # None <=> a.escalation # None
      /\ a.escalation # None => e.officer = a.escalation.officer
  <2>1. CASE a.escalation # None
    <3>1. /\ e \in RecaptureEscalation /\ e.officer = a.escalation.officer
      BY <1>1, <2>1 DEF RecaptureEscalation, Attempted
    <3>2. QED
      BY <2>1, <3>1, Absent
  <2>2. QED
    BY <2>1 DEF Attempted
<1>3. c = [a EXCEPT !.status = "CONSUMED", !.consumedBy = gen, !.escalation = e]
  BY DEF Consumed, RecaptureAction
<1> HIDE DEF c, e
<1>4. /\ c.escalation = e /\ c.status = "CONSUMED" /\ c.consumedBy = gen
      /\ c.action = a.action /\ c.version = a.version
      /\ c.generation = a.generation /\ c.by = a.by
      /\ c.owner = a.owner /\ c.performer = a.performer
      /\ c.authorizedAt = a.authorizedAt /\ c.expiresAt = a.expiresAt
      /\ c \in RecaptureAction
  BY <1>2, <1>3 DEF RecaptureAction
<1>5. QED
  BY <1>2, <1>4 DEF c

-----------------------------------------------------------------------------
(***************************************************************************)
(* The audit of the case.                                                  *)
(***************************************************************************)
LEMMA SuccessorTypes ==
    \A t \in EventTypes : /\ Successors(t) \subseteq EventTypes
                          /\ "CUSTODY_TRANSFER" \notin Successors(t)
                          /\ "REGISTERED" \notin Successors(t)
BY DEF EventTypes, PlanEvents, AssessmentEvents, Successors

LEMMA SuccessorsOf ==
    /\ Successors("REGISTERED") = {"ASSESSED"}
    /\ \A e \in AssessmentEvents :
         Successors(e) = {"ASSESSMENT_CORRECTED", "PLAN_APPROVED"}
    /\ \A e \in PlanEvents :
         Successors(e) = {"PLAN_REVISED", "PLAN_REAPPROVED", "CAPTURED",
                          "PLAN_RESERVATION_RELEASED"}
    /\ Successors("PLAN_RESERVATION_RELEASED") = {"PLAN_REVISED", "PLAN_REAPPROVED"}
    /\ \A e \in {"RECAPTURE_AUTHORIZED", "RECAPTURE_RENEWED"} :
         Successors(e) = {"CAPTURED", "RECAPTURE_REVOKED", "RECAPTURE_RENEWED"}
    /\ Successors("RECAPTURE_REVOKED") = {"RECAPTURE_RENEWED"}
    /\ Successors("CAPTURED") = {"QUALITY"}
    /\ Successors("QUALITY") =
         {"QUALITY", "QUALITY_ADJUDICATED", "RECAPTURE_AUTHORIZED", "SEALED"}
    /\ Successors("QUALITY_ADJUDICATED") = {"RECAPTURE_AUTHORIZED", "SEALED"}
BY DEF Successors, AssessmentEvents, PlanEvents

(* What comes later changes nothing about a transition.                    *)
LEMMA TransitionOfPrefix ==
    ASSUME NEW s \in Seq(EventTypes), NEW t \in EventTypes, NEW i \in DOMAIN s
    PROVE  ValidTransition(Append(s, t), i) <=> ValidTransition(s, i)
<1> DEFINE u == Append(s, t)
<1>1. i \in 1..Len(s) /\ \A k \in 1..Len(s) : u[k] = s[k]
  OBVIOUS
<1> HIDE DEF u
<1>2. Anchors(u, i) = Anchors(s, i)
  BY <1>1 DEF Anchors
<1>3. \A j \in Anchors(s, i) : u[j] = s[j]
  BY <1>1 DEF Anchors
<1>4. u[1] = s[1] /\ u[i] = s[i] /\ (i > 1 => u[i - 1] = s[i - 1])
  BY <1>1
<1>5. QED
  BY <1>1, <1>2, <1>3, <1>4 DEF ValidTransition, u

LEMMA TransitionOf ==
    ASSUME NEW s, NEW i \in Nat, i > 1
    PROVE  /\ s[i] = "CUSTODY_TRANSFER" =>
                (ValidTransition(s, i) <=> s[i - 1] # "SEALED")
           /\ s[i] # "CUSTODY_TRANSFER" =>
                (ValidTransition(s, i) <=>
                   \E j \in Anchors(s, i) : /\ s[i] \in Successors(s[j])
                                            /\ \A k \in Anchors(s, i) : k =< j)
BY DEF ValidTransition

(* The i-th event is accepted, or authorizes after a revocation.           *)
Accepted(s, i) ==
    \/ ValidTransition(s, i)
    \/ /\ s[i] = "RECAPTURE_AUTHORIZED"
       /\ \E j \in 1..(i - 1) :
            /\ s[j] = "RECAPTURE_REVOKED"
            /\ \A k \in (j + 1)..(i - 1) : s[k] = "CUSTODY_TRANSFER"

LEMMA AcceptedPrefix ==
    ASSUME NEW s \in Seq(EventTypes), NEW t \in EventTypes, NEW i \in DOMAIN s,
           Accepted(s, i)
    PROVE  Accepted(Append(s, t), i)
<1> DEFINE u == Append(s, t)
<1>1. i \in 1..Len(s) /\ \A k \in 1..Len(s) : u[k] = s[k]
  OBVIOUS
<1>2. ValidTransition(u, i) <=> ValidTransition(s, i)
  BY TransitionOfPrefix
<1> HIDE DEF u
<1>3. CASE ~ValidTransition(s, i)
  <2>1. PICK m \in 1..(i - 1) :
          /\ s[m] = "RECAPTURE_REVOKED"
          /\ \A k \in (m + 1)..(i - 1) : s[k] = "CUSTODY_TRANSFER"
    BY <1>3 DEF Accepted
  <2>2. u[m] = s[m] /\ \A k \in (m + 1)..(i - 1) : u[k] = s[k]
    BY <1>1, <2>1
  <2>3. u[i] = "RECAPTURE_AUTHORIZED"
    BY <1>1, <1>3 DEF Accepted
  <2>4. QED
    BY <2>1, <2>2, <2>3 DEF Accepted, u
<1>4. QED
  BY <1>2, <1>3 DEF Accepted, u

LEMMA TrailAccepts ==
    ASSUME TypeOK, AuditAcceptsLifecycle, NEW t \in EventTypes,
           trail' = Append(trail, t), Accepted(trail', Len(trail) + 1)
    PROVE  AuditAcceptsLifecycle'
<1>1. /\ trail \in Seq(EventTypes) /\ Len(trail) \in Nat
      /\ DOMAIN trail = 1..Len(trail) /\ DOMAIN trail' = 1..(Len(trail) + 1)
  BY DEF TypeOK
<1>2. \A i \in DOMAIN trail : Accepted(trail', i)
  <2>1. \A i \in DOMAIN trail : Accepted(trail, i)
    BY DEF AuditAcceptsLifecycle, Accepted
  <2>2. QED
    BY <1>1, <2>1, AcceptedPrefix
<1>3. \A i \in DOMAIN trail' : Accepted(trail', i)
  BY <1>1, <1>2
<1>4. QED
  BY <1>3 DEF AuditAcceptsLifecycle, Accepted

(* An event that may follow the last anchor is the next one.               *)
LEMMA TrailGrows ==
    ASSUME TypeOK, AuditAcceptsLifecycle, NEW t \in EventTypes,
           trail' = Append(trail, t), t # "CUSTODY_TRANSFER",
           NEW j, AnchoredAt(trail, j),
           \/ t \in Successors(trail[j])
           \/ t = "RECAPTURE_AUTHORIZED" /\ trail[j] = "RECAPTURE_REVOKED"
    PROVE  /\ AuditAcceptsLifecycle' /\ AnchoredAt(trail', Len(trail'))
           /\ trail'[Len(trail')] = t
           /\ t \in Successors(trail[j]) => ValidTransition(trail', Len(trail'))
<1> DEFINE n == Len(trail)
<1>1. /\ trail \in Seq(EventTypes) /\ n \in Nat /\ n >= 1 /\ Len(trail') = n + 1
      /\ DOMAIN trail' = 1..(n + 1) /\ trail'[n + 1] = t
      /\ \A k \in 1..n : trail'[k] = trail[k]
  BY DEF TypeOK
<1>2. j \in 1..n /\ (j = 1 \/ trail[j] # "CUSTODY_TRANSFER")
      /\ \A k \in 1..n : k > j => trail[k] = "CUSTODY_TRANSFER"
  BY <1>1 DEF AnchoredAt
<1>3. AnchoredAt(trail', n + 1)
  BY <1>1 DEF AnchoredAt
<1>4. ASSUME t \in Successors(trail[j])
      PROVE  ValidTransition(trail', n + 1)
  <2>1. j \in Anchors(trail', n + 1) /\ \A k \in Anchors(trail', n + 1) : k =< j
    BY <1>1, <1>2 DEF Anchors
  <2>2. trail'[n + 1] \in Successors(trail'[j])
    BY <1>1, <1>2, <1>4
  <2>3. n + 1 \in Nat /\ n + 1 > 1 /\ trail'[n + 1] # "CUSTODY_TRANSFER"
    BY <1>1
  <2>4. ValidTransition(trail', n + 1) <=>
          \E m \in Anchors(trail', n + 1) :
            /\ trail'[n + 1] \in Successors(trail'[m])
            /\ \A k \in Anchors(trail', n + 1) : k =< m
    BY <2>3, TransitionOf
  <2>5. QED
    BY <2>1, <2>2, <2>4
<1>5. Accepted(trail', n + 1)
  <2>1. CASE t \in Successors(trail[j])
    BY <1>4, <2>1 DEF Accepted
  <2>2. CASE t = "RECAPTURE_AUTHORIZED" /\ trail[j] = "RECAPTURE_REVOKED"
    <3>1. /\ trail'[n + 1] = "RECAPTURE_AUTHORIZED"
          /\ j \in 1..((n + 1) - 1) /\ trail'[j] = "RECAPTURE_REVOKED"
          /\ \A k \in (j + 1)..((n + 1) - 1) : trail'[k] = "CUSTODY_TRANSFER"
      BY <1>1, <1>2, <2>2
    <3>2. QED
      BY <3>1 DEF Accepted
  <2>3. QED
    BY <2>1, <2>2
<1>6. QED
  BY <1>1, <1>3, <1>4, <1>5, TrailAccepts

(* A custody transfer may come at any time, and is no anchor.              *)
LEMMA TrailTransferred ==
    ASSUME TypeOK, AuditAcceptsLifecycle, NEW j, AnchoredAt(trail, j),
           trail' = Append(trail, "CUSTODY_TRANSFER"), trail[j] # "SEALED"
    PROVE  /\ AuditAcceptsLifecycle' /\ AnchoredAt(trail', j)
           /\ trail'[j] = trail[j]
<1> DEFINE n == Len(trail)
<1>1. /\ trail \in Seq(EventTypes) /\ n \in Nat /\ n >= 1
      /\ DOMAIN trail' = 1..(n + 1) /\ trail'[n + 1] = "CUSTODY_TRANSFER"
      /\ \A k \in 1..n : trail'[k] = trail[k]
      /\ "CUSTODY_TRANSFER" \in EventTypes
  BY DEF TypeOK, EventTypes
<1>2. j \in 1..n /\ (j = 1 \/ trail[j] # "CUSTODY_TRANSFER")
      /\ \A k \in 1..n : k > j => trail[k] = "CUSTODY_TRANSFER"
  BY <1>1 DEF AnchoredAt
<1>3. trail[n] # "SEALED"
  BY <1>1, <1>2
<1>4. trail'[(n + 1) - 1] # "SEALED"
  BY <1>1, <1>3
<1>5. n + 1 \in Nat /\ n + 1 > 1
  BY <1>1
<1>6. ValidTransition(trail', n + 1) <=> trail'[(n + 1) - 1] # "SEALED"
  BY <1>1, <1>5, TransitionOf
<1>7. AuditAcceptsLifecycle'
  BY <1>1, <1>4, <1>6, TrailAccepts DEF Accepted
<1>8. AnchoredAt(trail', j) /\ trail'[j] = trail[j]
  BY <1>1, <1>2 DEF AnchoredAt
<1>9. QED
  BY <1>7, <1>8

-----------------------------------------------------------------------------
(***************************************************************************)
(* What a request leaves alone stays as it was.                            *)
(***************************************************************************)
LEMMA StageFrame ==
    ASSUME StageInv, UNCHANGED <<state, quality, generation, plan>>
    PROVE  StageInv'
BY DEF StageInv, Concluded, Settled, EffectiveDecision

LEMMA QualityFrame ==
    ASSUME QualityInv, UNCHANGED <<quality, generation>>
    PROVE  QualityInv'
BY DEF QualityInv, Concluded, Settled, EffectiveDecision, OpinionOK

LEMMA CaptureFrame ==
    ASSUME CaptureInv, UNCHANGED captureVars
    PROVE  CaptureInv'
BY DEF CaptureInv, captureVars

LEMMA PlanFrame ==
    ASSUME PlanInv, UNCHANGED planVars, UNCHANGED captures
    PROVE  PlanInv'
BY DEF PlanInv, planVars, VersionOK, WithinPlan, LastOf

LEMMA RecaptureFrame ==
    ASSUME RecaptureInv, UNCHANGED <<state, captures, generation, recaptures>>
    PROVE  RecaptureInv'
BY DEF RecaptureInv, ActionOK, SpentFor, ActiveAuthorization

LEMMA DutyFrame ==
    ASSUME DutyInv, UNCHANGED <<quality, recaptures, plan>>
    PROVE  DutyInv'
BY DEF DutyInv, OpinionDuties, ActionDuties, EffectiveFailures

LEMMA SealFrame ==
    ASSUME state' # "SEALED"
    PROVE  SealStaysVerified'
BY DEF SealStaysVerified

LEMMA EventsFrame ==
    ASSUME TypeOK, NEW t \in EventTypes, Accept(t)
    PROVE  /\ revision' = revision + 1 /\ revision' \in 1..MaxRevision
           /\ revision \in Nat
           /\ now' = now /\ receipt' = receipt
           /\ trail' = Append(trail, t) /\ trail' \in Seq(EventTypes)
           /\ Len(trail') = revision'
BY TimesAssumption DEF Accept, TypeOK

LEMMA RecaptureKept ==
    ASSUME RecaptureInv, UNCHANGED <<captures, generation, recaptures>>,
           state \notin {"READY_FOR_CAPTURE", "RECAPTURE_REQUIRED"},
           state' \notin {"READY_FOR_CAPTURE", "RECAPTURE_REQUIRED"}
    PROVE  RecaptureInv'
<1>1. \A gen : ActiveAuthorization(gen)' = ActiveAuthorization(gen)
  BY DEF ActiveAuthorization
<1>2. \A i \in DOMAIN recaptures' : ActionOK(i)'
  BY <1>1 DEF RecaptureInv, ActionOK
<1>3. \A x, i : SpentFor(x, i)' <=> SpentFor(x, i)
  BY DEF SpentFor
<1>4. QED
  BY <1>1, <1>2, <1>3 DEF RecaptureInv

LEMMA TrailFollows ==
    ASSUME TypeOK, AuditAcceptsLifecycle, NEW t \in EventTypes,
           t # "CUSTODY_TRANSFER", trail' = Append(trail, t),
           NEW E \in SUBSET EventTypes, Anchored(E),
           \A e \in E : \/ t \in Successors(e)
                        \/ t = "RECAPTURE_AUTHORIZED" /\ e = "RECAPTURE_REVOKED"
    PROVE  /\ AuditAcceptsLifecycle'
           /\ \A F : t \in F => Anchored(F)'
<1>1. PICK j \in DOMAIN trail : AnchoredAt(trail, j) /\ trail[j] \in E
  BY DEF Anchored
<1>2. /\ AuditAcceptsLifecycle' /\ AnchoredAt(trail', Len(trail'))
      /\ trail'[Len(trail')] = t
  BY <1>1, TrailGrows
<1>3. Len(trail') \in DOMAIN trail'
  BY <1>2 DEF AnchoredAt
<1>4. QED
  BY <1>2, <1>3 DEF Anchored

-----------------------------------------------------------------------------
(***************************************************************************)
(* Assessments and plans.                                                  *)
(***************************************************************************)
LEMMA AssessStep ==
    ASSUME CaseInv, NEW f \in Findings, Assess(f)
    PROVE  CaseInv'
<1> USE DEF CaseInv
<1>1. /\ state = "REGISTERED" /\ state' = "ASSESSED" /\ Accept("ASSESSED")
      /\ assessment' = Assessed(f, 1)
      /\ UNCHANGED <<assessmentHistory, planVars, captureVars, quality, recaptures,
                     custody, custodian, manifest>>
  BY DEF Assess
<1>2. assessment' \in ConditionAssessment /\ assessment' # None
  BY <1>1, AssessmentType, Absent
<1>3. "ASSESSED" \in EventTypes
  BY DEF EventTypes, AssessmentEvents
<1>4. TypeOK'
  BY <1>1, <1>2, <1>3, EventsFrame DEF TypeOK, planVars, captureVars, States
<1>5. StageInv'
  BY <1>1 DEF StageInv, planVars, captureVars, TypeOK
<1>6. QualityInv' /\ CaptureInv' /\ PlanInv' /\ RecaptureInv' /\ DutyInv'
  BY <1>1, QualityFrame, CaptureFrame, PlanFrame, RecaptureKept, DutyFrame
     DEF planVars, captureVars
<1>7. TrailInv'
  <2>1. Anchored({"REGISTERED"}) /\ AuditAcceptsLifecycle
    BY <1>1 DEF TrailInv
  <2>2. "ASSESSED" \in Successors("REGISTERED") /\ {"REGISTERED"} \subseteq EventTypes
    BY SuccessorsOf DEF EventTypes
  <2>3. AuditAcceptsLifecycle' /\ Anchored(AssessmentEvents)'
    BY <1>1, <1>3, <2>1, <2>2, EventsFrame, TrailFollows DEF AssessmentEvents
  <2>4. QED
    BY <1>1, <2>3 DEF TrailInv
<1>8. QED
  BY <1>1, <1>4, <1>5, <1>6, <1>7, SealFrame

LEMMA CorrectAssessmentStep ==
    ASSUME CaseInv, NEW f \in Findings, CorrectAssessment(f)
    PROVE  CaseInv'
<1> USE DEF CaseInv
<1> DEFINE t == "ASSESSMENT_CORRECTED"
<1>1. /\ state = "ASSESSED" /\ state' = state /\ Accept(t)
      /\ assessment' = Assessed(f, assessment.version + 1)
      /\ assessmentHistory' = Append(assessmentHistory, assessment)
      /\ UNCHANGED <<planVars, captureVars, quality, recaptures, custody,
                     custodian, manifest>>
  BY DEF CorrectAssessment
<1>2. assessment \in ConditionAssessment /\ assessment.version + 1 \in Nat
  BY <1>1 DEF TypeOK, ConditionAssessment
<1>3. /\ assessment' \in ConditionAssessment /\ assessment' # None
      /\ assessmentHistory' \in Seq(ConditionAssessment)
  BY <1>1, <1>2, AssessmentType, Absent DEF TypeOK
<1>4. t \in EventTypes
  BY DEF EventTypes, AssessmentEvents
<1>5. TypeOK'
  BY <1>1, <1>3, <1>4, EventsFrame DEF TypeOK, planVars, captureVars, States
<1>6. StageInv' /\ QualityInv' /\ CaptureInv' /\ PlanInv' /\ RecaptureInv' /\ DutyInv'
  BY <1>1, StageFrame, QualityFrame, CaptureFrame, PlanFrame, RecaptureFrame,
     DutyFrame DEF planVars, captureVars
<1>7. TrailInv'
  <2>1. Anchored(AssessmentEvents) /\ AuditAcceptsLifecycle
    BY <1>1 DEF TrailInv
  <2>2. /\ \A e \in AssessmentEvents : t \in Successors(e)
        /\ AssessmentEvents \subseteq EventTypes
    BY SuccessorsOf DEF EventTypes, AssessmentEvents
  <2>3. AuditAcceptsLifecycle' /\ Anchored(AssessmentEvents)'
    BY <1>1, <1>4, <2>1, <2>2, EventsFrame, TrailFollows DEF AssessmentEvents
  <2>4. QED
    BY <1>1, <2>3 DEF TrailInv
<1>8. QED
  BY <1>1, <1>5, <1>6, <1>7, SealFrame

(* A case without a plan has no captures, decisions or authorizations.     *)
LEMMA NothingYet ==
    ASSUME CaseInv, generation = 0, state # "CAPTURED"
    PROVE  captures = {} /\ quality = <<>> /\ recaptures = <<>>
<1>1. captures = {}
  BY DEF CaseInv, CaptureInv
<1>2. quality = <<>>
  BY DEF CaseInv, StageInv, TypeOK
<1>3. recaptures = <<>>
  <2>1. \A i \in DOMAIN recaptures : recaptures[i].generation \in 2..1
    BY DEF CaseInv, RecaptureInv, ActionOK
  <2>2. DOMAIN recaptures = {}
    <3>1. \A x : x \notin 2..1
      OBVIOUS
    <3>2. QED
      BY <2>1, <3>1, Zenon
  <2>3. QED
    BY <2>2 DEF CaseInv, TypeOK
<1>4. QED
  BY <1>1, <1>2, <1>3

LEMMA ApprovePlanStep ==
    ASSUME CaseInv, NEW p \in PlanRequests, ApprovePlan(p)
    PROVE  CaseInv'
<1> USE DEF CaseInv
<1> DEFINE t == "PLAN_APPROVED"
           q == Numbered(p, revision + 1)
<1>1. /\ state = "ASSESSED" /\ state' = "READY_FOR_CAPTURE" /\ Accept(t)
      /\ plan' = q /\ planHistory' = Append(planHistory, q)
      /\ UNCHANGED <<assessmentVars, captureVars, quality, recaptures, custody,
                     custodian, manifest>>
  BY DEF ApprovePlan
<1>2. /\ plan = None /\ planHistory = <<>> /\ generation = 0 /\ captures = {}
      /\ quality = <<>> /\ recaptures = <<>>
  <2>1. plan = None
    BY <1>1 DEF TypeOK
  <2>2. planHistory = <<>> /\ generation = 0
    BY <2>1 DEF PlanInv, StageInv
  <2>3. QED
    BY <1>1, <2>1, <2>2, NothingYet
<1>3. /\ q \in CapturePlan /\ q.operator # q.approver /\ q # None
      /\ q.window = None <=> q.reservation = "NONE"
  <2>1. revision + 1 \in Nat
    BY DEF TypeOK
  <2>2. QED
    BY <2>1, NumberedFacts, Absent
<1> HIDE DEF q
<1>4. planHistory' = <<q>> /\ planHistory' \in Seq(CapturePlan)
  BY <1>1, <1>2, <1>3
<1>5. t \in EventTypes
  BY DEF EventTypes, PlanEvents
<1>6. TypeOK'
  BY <1>1, <1>3, <1>4, <1>5, EventsFrame
     DEF TypeOK, assessmentVars, captureVars, States
<1>7. StageInv'
  BY <1>1, <1>2 DEF StageInv, captureVars
<1>8. QualityInv' /\ CaptureInv'
  BY <1>1, QualityFrame, CaptureFrame DEF captureVars
<1>9. PlanInv'
  <2>1. /\ Len(planHistory') = 1 /\ DOMAIN planHistory' = {1}
        /\ planHistory'[1] = q /\ planHistory' # <<>>
    BY <1>4
  <2>2. q.revision \in Nat
    BY <1>3 DEF CapturePlan
  <2>3. VersionOK(planHistory', plan', 1)
    BY <1>1, <1>3, <2>1, <2>2 DEF VersionOK
  <2>4. QED
    BY <1>1, <1>2, <1>3, <2>1, <2>3 DEF PlanInv, LastOf, captureVars
<1>10. RecaptureInv' /\ DutyInv'
  BY <1>1, <1>2 DEF RecaptureInv, DutyInv, captureVars
<1>11. TrailInv'
  <2>1. Anchored(AssessmentEvents) /\ AuditAcceptsLifecycle
    BY <1>1 DEF TrailInv
  <2>2. /\ \A e \in AssessmentEvents : t \in Successors(e)
        /\ AssessmentEvents \subseteq EventTypes /\ t \in PlanEvents
    BY SuccessorsOf DEF EventTypes, AssessmentEvents, PlanEvents
  <2>3. AuditAcceptsLifecycle' /\ Anchored(PlanEvents)'
    BY <1>1, <1>5, <2>1, <2>2, EventsFrame, TrailFollows
  <2>4. QED
    BY <1>1, <1>2, <2>3 DEF TrailInv, captureVars
<1>12. QED
  BY <1>1, <1>6, <1>7, <1>8, <1>9, <1>10, <1>11, SealFrame

LEMMA PlanFields ==
    ASSUME NEW p \in CapturePlan,
           NEW status \in {"NONE", "ACTIVE", "RELEASED", "CONSUMED"},
           NEW q, q = [p EXCEPT !.reservation = status]
    PROVE  /\ q \in CapturePlan /\ q.reservation = status
           /\ q.revision = p.revision /\ q.operator = p.operator
           /\ q.approver = p.approver /\ q.tasks = p.tasks
           /\ q.approvedAt = p.approvedAt /\ q.validUntil = p.validUntil
           /\ q.window = p.window
BY DEF CapturePlan

(* The status of the reservation is set in the plan and in the last entry  *)
(* of its history, which is the only one with its number.                  *)
LEMMA ReservationSet ==
    ASSUME TypeOK, PlanInv, plan # None, plan.window # None,
           NEW status \in {"RELEASED", "CONSUMED"},
           plan' = [plan EXCEPT !.reservation = status],
           planHistory' = WithReservation(planHistory, plan.revision, status)
    PROVE  /\ plan' \in CapturePlan /\ planHistory' \in Seq(CapturePlan)
           /\ plan' # None /\ planHistory' # <<>> /\ plan' = LastOf(planHistory')
           /\ \A i \in DOMAIN planHistory' : VersionOK(planHistory', plan', i)
           /\ plan'.reservation = status
           /\ plan'.revision = plan.revision /\ plan'.operator = plan.operator
           /\ plan'.tasks = plan.tasks /\ plan'.window = plan.window
           /\ plan'.approvedAt = plan.approvedAt
           /\ plan'.validUntil = plan.validUntil
           /\ Len(planHistory') = Len(planHistory)
           /\ \A i \in DOMAIN planHistory :
                /\ i \in DOMAIN planHistory'
                /\ SameFields(planHistory'[i], planHistory[i])
<1> DEFINE n == Len(planHistory)
<1>1. /\ plan \in CapturePlan /\ planHistory \in Seq(CapturePlan)
      /\ planHistory # <<>> /\ n \in Nat /\ n >= 1 /\ DOMAIN planHistory = 1..n
      /\ plan = planHistory[n] /\ plan.revision \in Nat
      /\ \A i \in 1..n : VersionOK(planHistory, plan, i)
  <2>1. plan \in CapturePlan /\ planHistory \in Seq(CapturePlan)
    BY DEF TypeOK
  <2>2. /\ planHistory # <<>> /\ plan = planHistory[n]
        /\ \A i \in DOMAIN planHistory : VersionOK(planHistory, plan, i)
    BY DEF PlanInv, LastOf
  <2>3. n \in Nat /\ n >= 1 /\ DOMAIN planHistory = 1..n
    BY <2>1, <2>2
  <2>4. plan.revision \in Nat
    BY <2>1 DEF CapturePlan
  <2>5. QED
    BY <2>1, <2>2, <2>3, <2>4
<1>2. /\ planHistory' \in Seq(CapturePlan) /\ Len(planHistory') = n
      /\ DOMAIN planHistory' = DOMAIN planHistory
      /\ \A i \in DOMAIN planHistory :
           /\ planHistory'[i].revision = planHistory[i].revision
           /\ planHistory'[i].operator = planHistory[i].operator
           /\ planHistory'[i].approver = planHistory[i].approver
           /\ planHistory'[i].window = planHistory[i].window
           /\ SameFields(planHistory'[i], planHistory[i])
           /\ planHistory'[i].reservation =
                IF planHistory[i].revision = plan.revision THEN status
                ELSE planHistory[i].reservation
  BY <1>1, ReservationOf
<1>3. /\ plan' \in CapturePlan /\ plan'.reservation = status
      /\ plan'.revision = plan.revision /\ plan'.operator = plan.operator
      /\ plan'.tasks = plan.tasks /\ plan'.window = plan.window
      /\ plan'.approvedAt = plan.approvedAt /\ plan'.validUntil = plan.validUntil
  BY <1>1, PlanFields
<1>4. plan' # None
  BY <1>3, Absent
<1>5. planHistory' # <<>> /\ plan' = LastOf(planHistory')
  <2>1. planHistory'[n] = [planHistory[n] EXCEPT !.reservation = status]
    BY <1>1 DEF WithReservation
  <2>2. QED
    BY <1>1, <1>2, <2>1 DEF LastOf
<1>6. ASSUME NEW i \in 1..n
      PROVE  VersionOK(planHistory', plan', i)
  <2>1. VersionOK(planHistory, plan, i)
    BY <1>1
  <2>2. planHistory[i].revision = plan.revision <=> i = n
    BY <1>1, <2>1 DEF VersionOK
  <2>3. i = n => planHistory'[i].window # None /\ planHistory'[i].reservation = status
    BY <1>1, <1>2, <2>2
  <2>4. i # n => planHistory'[i].reservation = planHistory[i].reservation
    BY <1>1, <1>2, <2>2
  <2>5. /\ planHistory'[i].revision = planHistory[i].revision
        /\ planHistory'[i].operator = planHistory[i].operator
        /\ planHistory'[i].approver = planHistory[i].approver
        /\ planHistory'[i].window = planHistory[i].window
    BY <1>1, <1>2
  <2>6. QED
    BY <1>2, <1>3, <2>1, <2>3, <2>4, <2>5 DEF VersionOK
<1>7. QED
  BY <1>1, <1>2, <1>3, <1>4, <1>5, <1>6

LEMMA RevisePlanStep ==
    ASSUME CaseInv, NEW p \in PlanRequests,
           NEW t \in {"PLAN_REVISED", "PLAN_REAPPROVED"}, RevisePlan(p, t)
    PROVE  CaseInv'
<1> USE DEF CaseInv
<1> DEFINE q == Numbered(p, plan.revision + 1)
           n == Len(planHistory)
           h == IF plan.window = None THEN planHistory
                ELSE WithReservation(planHistory, plan.revision, "RELEASED")
<1>1. /\ state = "READY_FOR_CAPTURE" /\ state' = state /\ Accept(t)
      /\ captures = {} /\ quality = <<>>
      /\ plan' = q /\ planHistory' = Append(h, q)
      /\ UNCHANGED <<assessmentVars, captureVars, quality, recaptures, custody,
                     custodian, manifest>>
  BY DEF RevisePlan
<1>2. /\ generation = 0 /\ recaptures = <<>> /\ plan # None
      /\ plan \in CapturePlan
  <2>1. generation = 0
    BY <1>1 DEF StageInv, TypeOK
  <2>2. QED
    BY <1>1, <2>1, NothingYet DEF TypeOK
<1>3. /\ planHistory \in Seq(CapturePlan) /\ planHistory # <<>>
      /\ n \in Nat /\ n >= 1 /\ DOMAIN planHistory = 1..n
      /\ plan = planHistory[n] /\ plan.revision \in Nat
      /\ \A i \in 1..n : VersionOK(planHistory, plan, i)
  <2>1. planHistory \in Seq(CapturePlan)
    BY DEF TypeOK
  <2>2. /\ planHistory # <<>> /\ plan = planHistory[n]
        /\ \A i \in DOMAIN planHistory : VersionOK(planHistory, plan, i)
    BY <1>2 DEF PlanInv, LastOf
  <2>3. n \in Nat /\ n >= 1 /\ DOMAIN planHistory = 1..n
    BY <2>1, <2>2
  <2>4. plan.revision \in Nat
    BY <1>2 DEF CapturePlan
  <2>5. QED
    BY <2>1, <2>2, <2>3, <2>4
<1>4. /\ q \in CapturePlan /\ q.revision = plan.revision + 1
      /\ q.operator # q.approver /\ q # None
      /\ q.window = None <=> q.reservation = "NONE"
  <2>1. plan.revision + 1 \in Nat
    BY <1>3
  <2>2. QED
    BY <2>1, NumberedFacts, Absent
<1> HIDE DEF q
<1>5. /\ h \in Seq(CapturePlan) /\ Len(h) = n
      /\ \A i \in 1..n :
           /\ h[i].revision = planHistory[i].revision
           /\ h[i].operator = planHistory[i].operator
           /\ h[i].approver = planHistory[i].approver
           /\ h[i].window = planHistory[i].window
           /\ h[i].reservation =
                IF plan.window # None /\ planHistory[i].revision = plan.revision
                THEN "RELEASED" ELSE planHistory[i].reservation
  <2>1. CASE plan.window = None
    BY <1>3, <2>1
  <2>2. CASE plan.window # None
    <3>1. PICK g : g = WithReservation(planHistory, plan.revision, "RELEASED")
      OBVIOUS
    <3>2. /\ g \in Seq(CapturePlan) /\ Len(g) = n
          /\ \A i \in DOMAIN planHistory :
               /\ g[i].revision = planHistory[i].revision
               /\ g[i].operator = planHistory[i].operator
               /\ g[i].approver = planHistory[i].approver
               /\ g[i].window = planHistory[i].window
               /\ g[i].reservation =
                    IF planHistory[i].revision = plan.revision THEN "RELEASED"
                    ELSE planHistory[i].reservation
      BY <1>3, <3>1, ReservationOf
    <3>3. h = g
      BY <2>2, <3>1
    <3> HIDE DEF h
    <3>4. QED
      BY <1>3, <2>2, <3>2, <3>3
  <2>3. QED
    BY <2>1, <2>2
<1> HIDE DEF h
<1>6. /\ planHistory' \in Seq(CapturePlan) /\ Len(planHistory') = n + 1
      /\ DOMAIN planHistory' = 1..(n + 1) /\ planHistory'[n + 1] = q
      /\ \A i \in 1..n : planHistory'[i] = h[i]
  BY <1>1, <1>3, <1>4, <1>5
<1>7. t \in EventTypes /\ t \in PlanEvents
  BY DEF EventTypes, PlanEvents
<1>8. TypeOK'
  BY <1>1, <1>2, <1>4, <1>6, <1>7, EventsFrame
     DEF TypeOK, assessmentVars, captureVars, States
<1>9. StageInv'
  BY <1>1, <1>2 DEF StageInv, captureVars
<1>10. QualityInv' /\ CaptureInv'
  BY <1>1, QualityFrame, CaptureFrame DEF captureVars
<1>11. PlanInv'
  <2>1. ASSUME NEW i \in 1..(n + 1)
        PROVE  VersionOK(planHistory', plan', i)
    <3>1. CASE i = n + 1
      BY <1>1, <1>3, <1>4, <1>6, <3>1 DEF VersionOK
    <3>2. CASE i # n + 1
      <4>1. i \in 1..n /\ VersionOK(planHistory, plan, i) /\ planHistory'[i] = h[i]
        BY <1>3, <1>6, <3>2
      <4>2. planHistory[i].revision = plan.revision <=> i = n
        BY <1>3, <4>1 DEF VersionOK
      <4>3. /\ planHistory'[i].reservation \in {"NONE", "RELEASED"}
            /\ planHistory'[i].window = None <=> planHistory'[i].reservation = "NONE"
        <5>1. CASE i = n
          BY <1>3, <1>5, <1>6, <4>1, <4>2, <5>1 DEF VersionOK
        <5>2. CASE i # n
          <6>1. i < n
            BY <1>3, <4>1, <5>2
          <6>2. h[i].reservation = planHistory[i].reservation
            BY <1>5, <4>1, <4>2, <5>2
          <6>3. QED
            BY <1>5, <4>1, <6>1, <6>2 DEF VersionOK
        <5>3. QED
          BY <5>1, <5>2
      <4>4. planHistory'[i].revision = plan'.revision - ((n + 1) - i)
        <5>1. planHistory'[i].revision = planHistory[i].revision
          BY <1>5, <4>1
        <5>2. planHistory[i].revision = plan.revision - (n - i)
          BY <4>1 DEF VersionOK
        <5>3. plan'.revision = plan.revision + 1
          BY <1>1, <1>4
        <5>4. i \in Nat /\ n \in Nat /\ plan.revision \in Nat
          BY <1>3, <4>1
        <5>5. QED
          BY <5>1, <5>2, <5>3, <5>4
      <4>5. planHistory'[i].operator # planHistory'[i].approver
        BY <1>5, <4>1 DEF VersionOK
      <4>6. QED
        BY <1>6, <4>3, <4>4, <4>5 DEF VersionOK
    <3>3. QED
      BY <3>1, <3>2
  <2>2. planHistory' # <<>> /\ plan' = LastOf(planHistory')
    BY <1>1, <1>3, <1>6 DEF LastOf
  <2>3. QED
    BY <1>1, <1>4, <1>6, <2>1, <2>2 DEF PlanInv, captureVars
<1>12. RecaptureInv' /\ DutyInv'
  BY <1>1, <1>2 DEF RecaptureInv, DutyInv, captureVars
<1>13. TrailInv'
  <2>1. /\ AuditAcceptsLifecycle
        /\ Anchored(PlanEvents) \/ Anchored({"PLAN_RESERVATION_RELEASED"})
    BY <1>1, <1>2 DEF TrailInv
  <2>2. /\ \A e \in PlanEvents : t \in Successors(e)
        /\ \A e \in {"PLAN_RESERVATION_RELEASED"} : t \in Successors(e)
        /\ PlanEvents \subseteq EventTypes /\ t # "CUSTODY_TRANSFER"
        /\ {"PLAN_RESERVATION_RELEASED"} \subseteq EventTypes
    BY SuccessorsOf DEF EventTypes
  <2>3. AuditAcceptsLifecycle' /\ Anchored(PlanEvents)'
    BY <1>1, <1>7, <2>1, <2>2, EventsFrame, TrailFollows
  <2>4. QED
    BY <1>1, <1>2, <2>3 DEF TrailInv, captureVars
<1>14. QED
  BY <1>1, <1>8, <1>9, <1>10, <1>11, <1>12, <1>13, SealFrame

LEMMA ReleaseStep ==
    ASSUME CaseInv, ReleasePlanReservation
    PROVE  CaseInv'
<1> USE DEF CaseInv
<1> DEFINE t == "PLAN_RESERVATION_RELEASED"
<1>1. /\ state = "READY_FOR_CAPTURE" /\ state' = state /\ Accept(t)
      /\ captures = {} /\ generation = 0
      /\ plan.window # None /\ plan.reservation = "ACTIVE"
      /\ plan' = [plan EXCEPT !.reservation = "RELEASED"]
      /\ planHistory' = WithReservation(planHistory, plan.revision, "RELEASED")
      /\ UNCHANGED <<assessmentVars, captureVars, quality, recaptures, custody,
                     custodian, manifest>>
  BY DEF ReleasePlanReservation
<1>2. plan # None /\ recaptures = <<>> /\ quality = <<>>
  BY <1>1, NothingYet DEF TypeOK
<1>3. /\ plan' \in CapturePlan /\ planHistory' \in Seq(CapturePlan)
      /\ plan' # None /\ planHistory' # <<>> /\ plan' = LastOf(planHistory')
      /\ \A i \in DOMAIN planHistory' : VersionOK(planHistory', plan', i)
      /\ plan'.reservation = "RELEASED"
  BY <1>1, <1>2, ReservationSet
<1>4. t \in EventTypes
  BY DEF EventTypes
<1>5. TypeOK'
  BY <1>1, <1>3, <1>4, EventsFrame DEF TypeOK, assessmentVars, captureVars, States
<1>6. StageInv' /\ QualityInv' /\ CaptureInv'
  BY <1>1, <1>3, QualityFrame, CaptureFrame
     DEF StageInv, Concluded, captureVars
<1>7. PlanInv'
  BY <1>1, <1>3 DEF PlanInv, captureVars
<1>8. RecaptureInv' /\ DutyInv'
  BY <1>1, <1>2 DEF RecaptureInv, DutyInv, captureVars
<1>9. TrailInv'
  <2>1. AuditAcceptsLifecycle /\ Anchored(PlanEvents)
    BY <1>1 DEF TrailInv
  <2>2. /\ \A e \in PlanEvents : t \in Successors(e)
        /\ PlanEvents \subseteq EventTypes
    BY SuccessorsOf DEF EventTypes
  <2>3. AuditAcceptsLifecycle' /\ Anchored({t})'
    BY <1>1, <1>4, <2>1, <2>2, EventsFrame, TrailFollows
  <2>4. QED
    BY <1>1, <1>3, <2>3 DEF TrailInv, captureVars
<1>10. QED
  BY <1>1, <1>5, <1>6, <1>7, <1>8, <1>9, SealFrame

-----------------------------------------------------------------------------
(***************************************************************************)
(* Captures.                                                               *)
(***************************************************************************)
LEMMA CapturePlanSteps ==
    ASSUME CaseInv, NEW items, Capture(items)
    PROVE  /\ plan \in CapturePlan /\ plan' \in CapturePlan /\ plan' # None
           /\ planHistory' \in Seq(CapturePlan) /\ planHistory' # <<>>
           /\ plan' = LastOf(planHistory')
           /\ \A i \in DOMAIN planHistory' : VersionOK(planHistory', plan', i)
           /\ plan'.revision = plan.revision /\ plan'.operator = plan.operator
           /\ plan'.tasks = plan.tasks /\ plan'.window = plan.window
           /\ plan'.approvedAt = plan.approvedAt
           /\ plan'.validUntil = plan.validUntil
           /\ plan.window # None => plan'.reservation = "CONSUMED"
           /\ Len(planHistory') = Len(planHistory)
           /\ \A i \in DOMAIN planHistory :
                /\ i \in DOMAIN planHistory'
                /\ SameFields(planHistory'[i], planHistory[i])
<1>1. state = "READY_FOR_CAPTURE"
  BY DEF Capture
<1>2. /\ plan # None /\ plan \in CapturePlan /\ planHistory # <<>>
      /\ planHistory \in Seq(CapturePlan) /\ plan = LastOf(planHistory)
      /\ \A i \in DOMAIN planHistory : VersionOK(planHistory, plan, i)
  BY <1>1 DEF CaseInv, TypeOK, PlanInv
<1>3. CASE plan.window = None \/ plan.reservation = "CONSUMED"
  <2>1. plan' = plan /\ planHistory' = planHistory
    BY <1>3 DEF Capture, planVars
  <2>2. \A i \in DOMAIN planHistory : SameFields(planHistory[i], planHistory[i])
    BY DEF SameFields
  <2>3. QED
    BY <1>2, <1>3, <2>1, <2>2
<1>4. CASE ~(plan.window = None \/ plan.reservation = "CONSUMED")
  <2>1. /\ plan' = [plan EXCEPT !.reservation = "CONSUMED"]
        /\ planHistory' = WithReservation(planHistory, plan.revision, "CONSUMED")
    BY <1>4 DEF Capture
  <2>2. QED
    BY <1>2, <1>4, <2>1, ReservationSet DEF CaseInv
<1>5. QED
  BY <1>3, <1>4

(* What a generation is recorded as.                                       *)
Generation(items, v) == {Recorded(x, generation + 1, v) : x \in items}

(* The first generation needs no authorization, a later one spends the     *)
(* active one.                                                             *)
Spends(items, i) ==
    /\ i \in ActiveAuthorization(generation + 1) /\ Usable(recaptures[i])
    /\ \A x \in items : /\ recaptures[i].authorizedAt =< x.startedAt
                        /\ x.startedAt =< recaptures[i].expiresAt
    /\ captures' = captures \cup Generation(items, recaptures[i].version)
    /\ recaptures' = [recaptures EXCEPT ![i] = Consumed(@, generation + 1)]

LEMMA CaptureSteps ==
    ASSUME CaseInv, NEW items, Capture(items)
    PROVE  /\ state = "READY_FOR_CAPTURE" /\ state' = "CAPTURED"
           /\ generation \in Nat /\ generation' = generation + 1
           /\ plan.reservation # "RELEASED"
           /\ \A x \in items : WithinPlan(x)
           /\ Accept("CAPTURED")
           /\ UNCHANGED <<assessmentVars, quality, custody, custodian, manifest>>
           /\ \/ /\ generation = 0 /\ recaptures' = recaptures
                 /\ captures' = captures \cup Generation(items, 0)
              \/ generation >= 1 /\ \E i \in DOMAIN recaptures : Spends(items, i)
<1>1. generation \in Nat
  BY DEF CaseInv, TypeOK
<1>2. generation + 1 = 1 <=> generation = 0
  BY <1>1
<1>3. generation + 1 > 1 <=> generation >= 1
  BY <1>1
<1>4. CASE generation + 1 = 1 /\ UNCHANGED recaptures
             /\ captures' = captures \cup Generation(items, 0)
  BY <1>1, <1>2, <1>4 DEF Capture
<1>5. CASE generation + 1 > 1 /\ \E i \in DOMAIN recaptures : Spends(items, i)
  BY <1>1, <1>3, <1>5 DEF Capture
<1>6. \/ /\ generation + 1 = 1 /\ UNCHANGED recaptures
         /\ captures' = captures \cup Generation(items, 0)
      \/ generation + 1 > 1 /\ \E i \in DOMAIN recaptures : Spends(items, i)
  BY DEF Capture, Spends, Generation, ActiveAuthorization
<1>7. QED
  BY <1>4, <1>5, <1>6

LEMMA GenerationFacts ==
    ASSUME plan \in CapturePlan, generation \in Nat, NEW items, Captured(items),
           \A x \in items : WithinPlan(x), NEW v \in Nat
    PROVE  /\ Generation(items, v) \subseteq CaptureGeneration
           /\ Generation(items, v) # {} /\ IsFiniteSet(Generation(items, v))
           /\ \A y \in Generation(items, v) :
                /\ y.generation = generation + 1 /\ y.plan = plan.revision
                /\ y.version = v /\ y.task \in plan.tasks /\ WithinPlan(y)
                /\ \E x \in items : x.startedAt = y.startedAt
                /\ \A z \in Generation(items, v) : y.task = z.task => y = z
<1> DEFINE gen == generation + 1
           f == [x \in items |-> Recorded(x, gen, v)]
<1>1. gen \in Nat
  OBVIOUS
<1>2. f \in Surjection(items, Generation(items, v))
  BY DEF Surjection, Generation
<1>3. IsFiniteSet(Generation(items, v))
  BY <1>2, FS_Surjection DEF Captured
<1>4. ASSUME NEW y \in Generation(items, v)
      PROVE  /\ y \in CaptureGeneration
             /\ y.generation = generation + 1 /\ y.plan = plan.revision
             /\ y.version = v /\ y.task \in plan.tasks /\ WithinPlan(y)
             /\ \E x \in items : x.startedAt = y.startedAt
  <2>1. PICK x \in items : y = Recorded(x, gen, v)
    BY DEF Generation
  <2>2. /\ y \in CaptureGeneration /\ y.generation = gen
        /\ y.plan = plan.revision /\ y.version = v
        /\ y.task = x.task /\ y.startedAt = x.startedAt /\ y.endedAt = x.endedAt
    <3>1. /\ x.task \in plan.tasks /\ x.splice \in BOOLEAN
          /\ x.startedAt \in Nat /\ x.endedAt \in Nat /\ x.length \in Nat
      BY DEF Captured
    <3>2. QED
      BY <1>1, <2>1, <3>1, RecordedFacts
  <2>3. x.task \in plan.tasks /\ WithinPlan(x)
    BY DEF Captured
  <2>4. QED
    BY <2>2, <2>3 DEF WithinPlan
<1>5. Generation(items, v) # {}
  BY DEF Generation, Captured
<1>6. \A y, z \in Generation(items, v) : y.task = z.task => y = z
  <2>1. \A x \in items : Recorded(x, gen, v).task = x.task
    BY DEF Recorded
  <2>2. \A x, z \in items : x.task = z.task => x = z
    BY DEF Captured
  <2>3. \A y \in Generation(items, v) : \E x \in items : y = Recorded(x, gen, v)
    BY DEF Generation
  <2>4. QED
    BY <2>1, <2>2, <2>3
<1>7. QED
  BY <1>3, <1>4, <1>5, <1>6

(* One more generation is one more capture at least.                       *)
LEMMA CapturesGrow ==
    ASSUME CaptureInv, generation \in Nat, generation' = generation + 1,
           NEW new, new # {}, IsFiniteSet(new),
           \A y \in new : y.generation = generation + 1,
           captures' = captures \cup new
    PROVE  CaptureInv'
<1>1. PICK y \in new : y.generation = generation + 1
  OBVIOUS
<1>2. y \notin captures
  <2>1. \A x \in captures : x.generation # generation + 1
    BY DEF CaptureInv
  <2>2. QED
    BY <1>1, <2>1
<1>3. IsFiniteSet(captures \cup new)
  BY FS_Union DEF CaptureInv
<1>4. /\ Cardinality(captures) \in Nat
      /\ Cardinality(captures \cup {y}) = Cardinality(captures) + 1
  BY <1>2, FS_AddElement, FS_CardinalityType DEF CaptureInv
<1>5. Cardinality(captures \cup {y}) =< Cardinality(captures \cup new)
  BY <1>3, FS_Subset
<1>6. Cardinality(captures \cup new) \in Nat
  BY <1>3, FS_CardinalityType
<1>7. Cardinality(captures') >= generation'
  BY <1>4, <1>5, <1>6 DEF CaptureInv
<1>8. \A x \in captures' : x.generation \in 1..generation'
  BY DEF CaptureInv
<1>9. \A g \in 1..generation' : \E x \in captures' : x.generation = g
  <2>1. \A g \in 1..generation' : g \in 1..generation \/ g = generation + 1
    OBVIOUS
  <2>2. QED
    BY <1>1, <2>1 DEF CaptureInv
<1>10. QED
  BY <1>3, <1>7, <1>8, <1>9 DEF CaptureInv

(* Which authorizations are active depends on neither status.              *)
LEMMA ActiveKept ==
    ASSUME DOMAIN recaptures' = DOMAIN recaptures,
           \A j \in DOMAIN recaptures :
             /\ recaptures'[j].generation = recaptures[j].generation
             /\ recaptures'[j].action = recaptures[j].action
    PROVE  \A gen : ActiveAuthorization(gen)' = ActiveAuthorization(gen)
BY DEF ActiveAuthorization

LEMMA SpendFacts ==
    ASSUME CaseInv, generation >= 1, NEW items, NEW i \in DOMAIN recaptures,
           Spends(items, i)
    PROVE  /\ recaptures' \in Seq(RecaptureAction)
           /\ Len(recaptures') = Len(recaptures)
           /\ DOMAIN recaptures' = DOMAIN recaptures
           /\ \A j \in DOMAIN recaptures : j # i => recaptures'[j] = recaptures[j]
           /\ recaptures'[i] = Consumed(recaptures[i], generation + 1)
           /\ \A j \in DOMAIN recaptures :
                /\ recaptures'[j].action = recaptures[j].action
                /\ recaptures'[j].version = recaptures[j].version
                /\ recaptures'[j].generation = recaptures[j].generation
                /\ recaptures'[j].by = recaptures[j].by
                /\ recaptures'[j].owner = recaptures[j].owner
                /\ recaptures'[j].performer = recaptures[j].performer
                /\ recaptures'[j].authorizedAt = recaptures[j].authorizedAt
                /\ recaptures'[j].expiresAt = recaptures[j].expiresAt
                /\ recaptures'[j].escalation # None <=>
                     recaptures[j].escalation # None
                /\ recaptures[j].escalation # None =>
                     recaptures'[j].escalation.officer =
                       recaptures[j].escalation.officer
           /\ recaptures'[i].status = "CONSUMED"
           /\ recaptures'[i].consumedBy = generation + 1
           /\ recaptures[i].generation = generation + 1
           /\ recaptures[i].consumedBy = 0 /\ recaptures[i].status = "ACTIVE"
           /\ recaptures[i].version \in Nat
<1> DEFINE a == recaptures[i]
           c == Consumed(a, generation + 1)
<1>1. /\ recaptures \in Seq(RecaptureAction) /\ a \in RecaptureAction
      /\ generation \in Nat /\ generation + 1 \in Nat
  BY DEF CaseInv, TypeOK
<1>2. Usable(a) /\ a.generation = generation + 1 /\ a.status = "ACTIVE"
  BY DEF Spends, Usable, ActiveAuthorization
<1>3. /\ c \in RecaptureAction
      /\ c.status = "CONSUMED" /\ c.consumedBy = generation + 1
      /\ c.action = a.action /\ c.version = a.version
      /\ c.generation = a.generation /\ c.by = a.by
      /\ c.owner = a.owner /\ c.performer = a.performer
      /\ c.authorizedAt = a.authorizedAt /\ c.expiresAt = a.expiresAt
      /\ c.escalation # None <=> a.escalation # None
      /\ a.escalation # None => c.escalation.officer = a.escalation.officer
  BY <1>1, <1>2, ConsumedFacts
<1>4. recaptures' = [recaptures EXCEPT ![i] = c]
  BY DEF Spends
<1>5. a.consumedBy = 0 /\ a.version \in Nat
  <2>1. ActionOK(i)
    BY DEF CaseInv, RecaptureInv
  <2>2. a.consumedBy # 0 => a.generation =< generation
    BY <2>1 DEF ActionOK
  <2>3. QED
    BY <1>1, <1>2, <2>2 DEF RecaptureAction
<1> HIDE DEF c
<1>6. /\ recaptures' \in Seq(RecaptureAction) /\ Len(recaptures') = Len(recaptures)
      /\ DOMAIN recaptures' = DOMAIN recaptures
      /\ \A j \in DOMAIN recaptures : j # i => recaptures'[j] = recaptures[j]
      /\ recaptures'[i] = c
  BY <1>1, <1>3, <1>4
<1>7. ASSUME NEW j \in DOMAIN recaptures
      PROVE  /\ recaptures'[j].action = recaptures[j].action
             /\ recaptures'[j].version = recaptures[j].version
             /\ recaptures'[j].generation = recaptures[j].generation
             /\ recaptures'[j].by = recaptures[j].by
             /\ recaptures'[j].owner = recaptures[j].owner
             /\ recaptures'[j].performer = recaptures[j].performer
             /\ recaptures'[j].authorizedAt = recaptures[j].authorizedAt
             /\ recaptures'[j].expiresAt = recaptures[j].expiresAt
             /\ recaptures'[j].escalation # None <=> recaptures[j].escalation # None
             /\ recaptures[j].escalation # None =>
                  recaptures'[j].escalation.officer = recaptures[j].escalation.officer
  <2>1. CASE j # i
    <3>1. recaptures'[j] = recaptures[j]
      BY <1>6, <2>1
    <3>2. QED
      BY <3>1
  <2>2. CASE j = i
    <3>1. recaptures'[j] = c /\ recaptures[j] = a
      BY <1>6, <2>2
    <3>2. QED
      BY <1>3, <3>1
  <2>3. QED
    BY <2>1, <2>2
<1>8. recaptures'[i].status = "CONSUMED" /\ recaptures'[i].consumedBy = generation + 1
  BY <1>3, <1>6
<1>9. QED
  BY <1>2, <1>5, <1>6, <1>7, <1>8 DEF c

LEMMA SpendKeepsRecaptures ==
    ASSUME CaseInv, generation >= 1, generation' = generation + 1,
           state' = "CAPTURED", NEW items, NEW i \in DOMAIN recaptures,
           Spends(items, i),
           \A y \in Generation(items, recaptures[i].version) :
             /\ y.generation = generation + 1 /\ y.version = recaptures[i].version
             /\ \E x \in items : x.startedAt = y.startedAt
    PROVE  RecaptureInv'
<1>1. generation \in Nat /\ \A j \in DOMAIN recaptures : ActionOK(j)
  BY DEF CaseInv, TypeOK, RecaptureInv
<1>2. \A gen : ActiveAuthorization(gen)' = ActiveAuthorization(gen)
  <2>1. /\ DOMAIN recaptures' = DOMAIN recaptures
        /\ \A j \in DOMAIN recaptures :
             /\ recaptures'[j].generation = recaptures[j].generation
             /\ recaptures'[j].action = recaptures[j].action
    BY SpendFacts
  <2>2. QED
    BY <2>1, ActiveKept
<1>3. i \in ActiveAuthorization(generation + 1)
  BY DEF Spends
<1>4. ASSUME NEW j \in DOMAIN recaptures'
      PROVE  ActionOK(j)'
  <2>1. j \in DOMAIN recaptures /\ ActionOK(j)
    BY <1>1, SpendFacts
  <2>2. CASE j = i
    <3>1. /\ recaptures'[j].generation = generation + 1
          /\ recaptures'[j].consumedBy = generation + 1
          /\ recaptures'[j].status = "CONSUMED"
      BY <2>2, SpendFacts
    <3>2. j \in ActiveAuthorization(recaptures[j].generation)'
      BY <1>2, <1>3, <2>2, <3>1
    <3>3. QED
      BY <1>1, <3>1, <3>2 DEF ActionOK
  <2>3. CASE j # i
    <3>1. recaptures'[j] = recaptures[j]
      BY <2>1, <2>3, SpendFacts
    <3>2. QED
      BY <1>1, <1>2, <2>1, <3>1 DEF ActionOK
  <2>4. QED
    BY <2>2, <2>3
<1>5. ASSUME NEW y \in captures', y.generation > 1
      PROVE  \E j \in ActiveAuthorization(y.generation)' : SpentFor(y, j)'
  <2>1. CASE y \in captures
    <3>1. PICK j \in ActiveAuthorization(y.generation) : SpentFor(y, j)
      BY <1>5, <2>1 DEF CaseInv, RecaptureInv
    <3>2. j \in DOMAIN recaptures /\ recaptures[j].consumedBy # 0
      BY <1>5, <3>1 DEF SpentFor, ActiveAuthorization
    <3>3. recaptures'[j] = recaptures[j]
      BY <3>2, SpendFacts
    <3>4. SpentFor(y, j)'
      BY <3>1, <3>3 DEF SpentFor
    <3>5. QED
      BY <1>2, <3>1, <3>4
  <2>2. CASE y \in Generation(items, recaptures[i].version)
    <3>1. y.generation = generation + 1 /\ y.version = recaptures[i].version
      BY <2>2
    <3>2. PICK x \in items : x.startedAt = y.startedAt
      BY <2>2
    <3>3. /\ recaptures[i].authorizedAt =< y.startedAt
          /\ y.startedAt =< recaptures[i].expiresAt
      BY <3>2 DEF Spends
    <3>4. /\ recaptures'[i].consumedBy = generation + 1
          /\ recaptures'[i].version = recaptures[i].version
          /\ recaptures'[i].authorizedAt = recaptures[i].authorizedAt
          /\ recaptures'[i].expiresAt = recaptures[i].expiresAt
      BY SpendFacts
    <3>5. SpentFor(y, i)'
      BY <3>1, <3>3, <3>4 DEF SpentFor
    <3>6. QED
      BY <1>2, <1>3, <3>1, <3>5
  <2>3. QED
    BY <2>1, <2>2 DEF Spends
<1>6. QED
  BY <1>4, <1>5 DEF RecaptureInv

LEMMA DutyKept ==
    ASSUME DutyInv, quality' = quality, plan'.operator = plan.operator,
           recaptures \in Seq(RecaptureAction),
           DOMAIN recaptures' = DOMAIN recaptures,
           \A j \in DOMAIN recaptures :
             /\ recaptures'[j].action = recaptures[j].action
             /\ recaptures'[j].generation = recaptures[j].generation
             /\ recaptures'[j].by = recaptures[j].by
             /\ recaptures'[j].owner = recaptures[j].owner
             /\ recaptures'[j].performer = recaptures[j].performer
             /\ recaptures'[j].escalation # None <=> recaptures[j].escalation # None
             /\ recaptures[j].escalation # None =>
                  recaptures'[j].escalation.officer = recaptures[j].escalation.officer
    PROVE  DutyInv'
<1>1. \A g \in DOMAIN quality' : OpinionDuties(g)'
  BY DEF DutyInv, OpinionDuties
<1>2. \A q : EffectiveFailures(q)' = EffectiveFailures(q)
  BY DEF EffectiveFailures
<1>3. \A i \in DOMAIN recaptures : \A j \in 1..i : j \in DOMAIN recaptures
  OBVIOUS
<1>4. ASSUME NEW i \in DOMAIN recaptures
      PROVE  ActionDuties(i)'
  <2>1. /\ recaptures'[i].action = recaptures[i].action
        /\ recaptures'[i].generation = recaptures[i].generation
        /\ recaptures'[i].by = recaptures[i].by
        /\ recaptures'[i].performer = recaptures[i].performer
        /\ recaptures'[i].escalation # None <=> recaptures[i].escalation # None
        /\ recaptures[i].escalation # None =>
             recaptures'[i].escalation.officer = recaptures[i].escalation.officer
    OBVIOUS
  <2>2. \A j \in 1..i : /\ recaptures'[j].action = recaptures[j].action
                        /\ recaptures'[j].by = recaptures[j].by
    BY <1>3
  <2>3. ActionDuties(i)
    BY DEF DutyInv
  <2>4. QED
    BY <1>2, <2>1, <2>2, <2>3 DEF ActionDuties
<1>5. QED
  BY <1>1, <1>4 DEF DutyInv

LEMMA CaptureStep ==
    ASSUME CaseInv, NEW items, Captured(items), Capture(items)
    PROVE  CaseInv'
<1>1. /\ state = "READY_FOR_CAPTURE" /\ state' = "CAPTURED"
      /\ generation \in Nat /\ generation' = generation + 1
      /\ plan.reservation # "RELEASED"
      /\ \A x \in items : WithinPlan(x)
      /\ Accept("CAPTURED")
      /\ UNCHANGED <<assessmentVars, quality, custody, custodian, manifest>>
  BY CaptureSteps
<1>2. /\ plan \in CapturePlan /\ plan' \in CapturePlan /\ plan' # None
      /\ planHistory' \in Seq(CapturePlan) /\ planHistory' # <<>>
      /\ plan' = LastOf(planHistory')
      /\ \A i \in DOMAIN planHistory' : VersionOK(planHistory', plan', i)
      /\ plan'.revision = plan.revision /\ plan'.operator = plan.operator
      /\ plan'.tasks = plan.tasks /\ plan'.window = plan.window
      /\ plan'.approvedAt = plan.approvedAt
      /\ plan'.validUntil = plan.validUntil
      /\ plan.window # None => plan'.reservation = "CONSUMED"
  BY CapturePlanSteps
<1>3. /\ RecaptureInv' /\ DutyInv' /\ recaptures' \in Seq(RecaptureAction)
      /\ \E v \in Nat : captures' = captures \cup Generation(items, v)
  <2>1. CASE generation = 0 /\ recaptures' = recaptures
               /\ captures' = captures \cup Generation(items, 0)
    <3>1. recaptures = <<>> /\ captures = {}
      BY <1>1, <2>1, NothingYet
    <3>2. \A y \in captures' : y.generation = 1
      BY <1>1, <1>2, <2>1, <3>1, GenerationFacts
    <3>3. RecaptureInv'
      BY <1>1, <2>1, <3>1, <3>2 DEF RecaptureInv
    <3>4. DutyInv'
      BY <1>1, <1>2, <2>1, <3>1, DutyKept DEF CaseInv, TypeOK
    <3>5. QED
      BY <2>1, <3>3, <3>4 DEF CaseInv, TypeOK
  <2>2. ASSUME generation >= 1, NEW i \in DOMAIN recaptures, Spends(items, i)
        PROVE  /\ RecaptureInv' /\ DutyInv' /\ recaptures' \in Seq(RecaptureAction)
               /\ \E v \in Nat : captures' = captures \cup Generation(items, v)
    <3>1. recaptures[i].version \in Nat /\ recaptures' \in Seq(RecaptureAction)
      BY <2>2, SpendFacts
    <3>2. \A y \in Generation(items, recaptures[i].version) :
            /\ y.generation = generation + 1 /\ y.version = recaptures[i].version
            /\ \E x \in items : x.startedAt = y.startedAt
      BY <1>1, <1>2, <3>1, GenerationFacts
    <3>3. RecaptureInv'
      BY <1>1, <2>2, <3>2, SpendKeepsRecaptures
    <3>4. DutyInv'
      BY <1>1, <1>2, <2>2, SpendFacts, DutyKept DEF CaseInv, TypeOK
    <3>5. QED
      BY <2>2, <3>1, <3>3, <3>4 DEF Spends
  <2>3. QED
    BY <2>1, <2>2, CaptureSteps
<1>4. PICK v \in Nat : captures' = captures \cup Generation(items, v)
  BY <1>3
<1> DEFINE new == Generation(items, v)
<1>5. /\ new \subseteq CaptureGeneration /\ new # {} /\ IsFiniteSet(new)
      /\ \A y \in new :
           /\ y.generation = generation + 1 /\ y.plan = plan.revision
           /\ y.task \in plan.tasks /\ WithinPlan(y)
  BY <1>1, <1>2, GenerationFacts
<1> HIDE DEF new
<1>6. TypeOK'
  <2>1. "CAPTURED" \in EventTypes
    BY DEF EventTypes
  <2>2. captures' \subseteq CaptureGeneration /\ generation' \in Nat
    BY <1>1, <1>4, <1>5 DEF CaseInv, TypeOK, new
  <2>3. QED
    BY <1>1, <1>2, <1>3, <2>1, <2>2, EventsFrame
       DEF CaseInv, TypeOK, assessmentVars, States
<1>7. CaptureInv'
  BY <1>1, <1>4, <1>5, CapturesGrow DEF CaseInv, new
<1>8. /\ Len(quality) = generation
      /\ generation >= 1 => Concluded(generation, "FAIL")
  BY <1>1 DEF CaseInv, StageInv
<1>9. StageInv'
  BY <1>1, <1>2, <1>8 DEF StageInv
<1>10. QualityInv'
  <2>1. ASSUME NEW g \in 1..generation
        PROVE  Concluded(g, "FAIL")'
    <3>1. Concluded(g, "FAIL")
      BY <1>1, <1>8 DEF CaseInv, QualityInv
    <3>2. QED
      BY <1>1, <3>1 DEF Concluded, Settled, EffectiveDecision
  <2>2. \A g \in DOMAIN quality' : quality'[g].generation = g /\ OpinionOK(quality'[g])
    BY <1>1 DEF CaseInv, QualityInv
  <2>3. 1..(generation' - 1) = 1..generation
    BY <1>1
  <2>4. QED
    BY <2>1, <2>2, <2>3 DEF QualityInv, OpinionOK
<1>11. PlanInv'
  <2>1. ASSUME NEW x \in captures'
        PROVE  /\ x.plan = plan'.revision /\ x.task \in plan'.tasks /\ WithinPlan(x)'
               /\ plan'.window # None => plan'.reservation = "CONSUMED"
    <3>1. x.plan = plan.revision /\ x.task \in plan.tasks /\ WithinPlan(x)
      BY <1>4, <1>5 DEF CaseInv, PlanInv, new
    <3>2. QED
      BY <1>2, <3>1 DEF WithinPlan
  <2>2. QED
    BY <1>2, <2>1 DEF PlanInv
<1>12. TrailInv'
  <2>1. /\ AuditAcceptsLifecycle
        /\ \/ Anchored(PlanEvents)
           \/ Anchored({"RECAPTURE_AUTHORIZED", "RECAPTURE_RENEWED"})
    BY <1>1 DEF CaseInv, TrailInv
  <2>2. /\ \A e \in PlanEvents : "CAPTURED" \in Successors(e)
        /\ \A e \in {"RECAPTURE_AUTHORIZED", "RECAPTURE_RENEWED"} :
             "CAPTURED" \in Successors(e)
        /\ PlanEvents \subseteq EventTypes /\ "CAPTURED" \in EventTypes
        /\ {"RECAPTURE_AUTHORIZED", "RECAPTURE_RENEWED"} \subseteq EventTypes
    BY SuccessorsOf DEF EventTypes
  <2>3. AuditAcceptsLifecycle' /\ Anchored({"CAPTURED"})'
    BY <1>1, <2>1, <2>2, EventsFrame, TrailFollows DEF CaseInv
  <2>4. QED
    BY <1>1, <1>8, <2>3 DEF TrailInv
<1>13. QED
  BY <1>1, <1>3, <1>6, <1>7, <1>9, <1>10, <1>11, <1>12, SealFrame DEF CaseInv

-----------------------------------------------------------------------------
(***************************************************************************)
(* Decisions.                                                              *)
(***************************************************************************)

(* Deciding a generation leaves its authorizations alone.                  *)
LEMMA RecaptureDecided ==
    ASSUME TypeOK, RecaptureInv, state = "CAPTURED",
           state' \in {"CAPTURED", "QC_PASSED", "RECAPTURE_REQUIRED"},
           UNCHANGED <<captures, generation, recaptures>>
    PROVE  /\ RecaptureInv'
           /\ \A i \in DOMAIN recaptures : recaptures[i].generation =< generation
<1>1. generation \in Nat /\ recaptures \in Seq(RecaptureAction)
  BY DEF TypeOK
<1>2. \A i \in DOMAIN recaptures :
        ActionOK(i) /\ recaptures[i].generation =< generation
  BY DEF RecaptureInv, ActionOK
<1>3. \A gen : ActiveAuthorization(gen)' = ActiveAuthorization(gen)
  BY DEF ActiveAuthorization
<1>4. \A i \in DOMAIN recaptures' : ActionOK(i)'
  BY <1>2, <1>3 DEF ActionOK
<1>5. \A x, i : SpentFor(x, i)' <=> SpentFor(x, i)
  BY DEF SpentFor
<1>6. ASSUME NEW i \in DOMAIN recaptures
      PROVE  recaptures[i].generation # generation + 1
  <2>1. recaptures[i] \in RecaptureAction
    BY <1>1
  <2>2. recaptures[i].generation \in Nat
    BY <2>1 DEF RecaptureAction
  <2>3. recaptures[i].generation =< generation
    BY <1>2
  <2>4. QED
    BY <1>1, <2>2, <2>3
<1>7. ActiveAuthorization(generation + 1)' = {}
  BY <1>6 DEF ActiveAuthorization
<1>8. \A x \in captures' : x.generation > 1 =>
        \E i \in ActiveAuthorization(x.generation)' : SpentFor(x, i)'
  BY <1>3, <1>5 DEF RecaptureInv
<1>9. QED
  BY <1>2, <1>4, <1>7, <1>8 DEF RecaptureInv

(* A decision on the current generation, or a further opinion on it, that  *)
(* either leaves it open or concludes it one way or the other.             *)
Decides(q, d, t) ==
    /\ state = "CAPTURED" /\ Accept(t)
    /\ t \in {"QUALITY", "QUALITY_ADJUDICATED"}
    /\ Len(quality) # generation => t = "QUALITY"
    /\ quality' \in Seq(QualityDecision) /\ Len(quality') = generation
    /\ \A g \in 1..(generation - 1) : quality'[g] = quality[g]
    /\ quality'[generation] = q /\ q.generation = generation /\ OpinionOK(q)
    /\ q.countersigner # None =>
         /\ q.countersigner \notin {q.reviewer, plan.operator}
         /\ \A i \in DOMAIN recaptures : recaptures[i].owner # q.countersigner
    /\ q.adjudication # None =>
         q.adjudication.by \notin {q.reviewer, q.countersigner, plan.operator}
    /\ \/ state' = "CAPTURED" /\ ~Settled(q) /\ t = "QUALITY"
       \/ state' = StateAfter(d) /\ Settled(q) /\ EffectiveDecision(q) = d
    /\ UNCHANGED <<assessmentVars, planVars, captureVars, recaptures, custody,
                   custodian, manifest>>

LEMMA DecidesStep ==
    ASSUME CaseInv, NEW q \in QualityDecision, NEW d \in {"PASS", "FAIL"}, NEW t,
           Decides(q, d, t)
    PROVE  CaseInv'
<1>1. /\ state = "CAPTURED" /\ Accept(t) /\ t \in EventTypes
      /\ state' \in {"CAPTURED", "QC_PASSED", "RECAPTURE_REQUIRED"}
      /\ generation \in Nat /\ generation >= 1 /\ plan # None
      /\ Len(quality) \in {generation - 1, generation}
      /\ UNCHANGED <<assessmentVars, planVars, captureVars, recaptures, custody,
                     custodian, manifest>>
  BY DEF Decides, CaseInv, StageInv, TypeOK, StateAfter, EventTypes
<1>2. /\ quality \in Seq(QualityDecision) /\ quality' \in Seq(QualityDecision)
      /\ Len(quality') = generation /\ DOMAIN quality' = 1..generation
      /\ \A g \in 1..(generation - 1) :
           g \in DOMAIN quality /\ quality'[g] = quality[g]
      /\ quality'[generation] = q /\ q.generation = generation
  BY <1>1 DEF Decides, CaseInv, TypeOK
<1>3. \/ state' = "CAPTURED" /\ ~Settled(q) /\ t = "QUALITY"
      \/ /\ Settled(q) /\ EffectiveDecision(q) = d
         /\ d = "PASS" => state' = "QC_PASSED"
         /\ d = "FAIL" => state' = "RECAPTURE_REQUIRED"
  BY DEF Decides, StateAfter
<1>4. TypeOK'
  BY <1>1, <1>2, EventsFrame
     DEF CaseInv, TypeOK, assessmentVars, planVars, captureVars, States
<1>5. StageInv'
  <2>1. Settled(quality'[generation]) <=> Settled(q)
    BY <1>2
  <2>2. Settled(q) => Concluded(generation, EffectiveDecision(q))'
    BY <1>1, <1>2 DEF Concluded, Settled, EffectiveDecision, captureVars
  <2>3. QED
    BY <1>1, <1>2, <1>3, <2>1, <2>2
       DEF StageInv, planVars, captureVars, Settled
<1>6. QualityInv'
  <2>1. ASSUME NEW g \in 1..(generation - 1)
        PROVE  /\ Concluded(g, "FAIL")' /\ quality'[g].generation = g
               /\ OpinionOK(quality'[g])
    <3>1. /\ Concluded(g, "FAIL") /\ quality[g].generation = g
          /\ OpinionOK(quality[g])
      BY <1>2 DEF CaseInv, QualityInv
    <3>2. QED
      BY <1>1, <1>2, <3>1 DEF Concluded, Settled, EffectiveDecision
  <2>2. OpinionOK(q)
    BY DEF Decides
  <2>3. generation' = generation
    BY <1>1 DEF captureVars
  <2>4. \A g \in DOMAIN quality' : g \in 1..(generation - 1) \/ g = generation
    BY <1>1, <1>2
  <2>5. QED
    BY <1>2, <2>1, <2>2, <2>3, <2>4 DEF QualityInv, OpinionOK
<1>7. CaptureInv' /\ PlanInv'
  BY <1>1, CaptureFrame, PlanFrame DEF CaseInv, captureVars
<1>8. /\ RecaptureInv'
      /\ \A i \in DOMAIN recaptures : recaptures[i].generation =< generation
  BY <1>1, RecaptureDecided DEF CaseInv, captureVars
<1>9. DutyInv'
  <2>1. ASSUME NEW g \in 1..(generation - 1)
        PROVE  OpinionDuties(g)'
    <3>1. OpinionDuties(g) /\ quality'[g] = quality[g]
      BY <1>2 DEF CaseInv, DutyInv
    <3>2. QED
      BY <1>1, <3>1 DEF OpinionDuties, planVars
  <2>2. ASSUME NEW g \in {generation}
        PROVE  OpinionDuties(g)'
    <3>1. quality'[g] = q
      BY <1>2
    <3>2. QED
      BY <1>1, <3>1 DEF OpinionDuties, Decides, planVars
  <2>3. ASSUME NEW i \in DOMAIN recaptures
        PROVE  ActionDuties(i)'
    <3>1. ActionDuties(i) /\ ActionOK(i) /\ recaptures[i].generation =< generation
      BY <1>8 DEF CaseInv, DutyInv, RecaptureInv
    <3> DEFINE g == recaptures[i].generation - 1
    <3>2. /\ g \in Nat /\ g >= 1 /\ g =< generation - 1
          /\ g > 1 => g - 1 \in 1..(generation - 1)
      BY <1>1, <3>1 DEF ActionOK
    <3>3. /\ quality'[g] = quality[g] /\ g \in DOMAIN quality'
          /\ g > 1 => quality'[g - 1] = quality[g - 1]
      BY <1>1, <1>2, <3>2
    <3>4. recaptures' = recaptures /\ plan' = plan
      BY <1>1 DEF planVars
    <3>5. \A p : EffectiveFailures(p)' = EffectiveFailures(p)
      BY DEF EffectiveFailures
    <3>6. QED
      BY <3>1, <3>3, <3>4, <3>5 DEF ActionDuties
  <2>4. DOMAIN quality' = 1..generation
    BY <1>2
  <2>5. \A g \in 1..generation : g \in 1..(generation - 1) \/ g = generation
    BY <1>1
  <2>6. QED
    BY <1>1, <2>1, <2>2, <2>3, <2>4, <2>5 DEF DutyInv
<1>10. TrailInv'
  <2>1. AuditAcceptsLifecycle /\ \/ Anchored({"QUALITY"})
                                 \/ Anchored({"CAPTURED"}) /\ t = "QUALITY"
    BY <1>1 DEF CaseInv, TrailInv, Decides
  <2>2. /\ \A e \in {"QUALITY"} : t \in Successors(e)
        /\ t = "QUALITY" => \A e \in {"CAPTURED"} : t \in Successors(e)
        /\ {"QUALITY"} \subseteq EventTypes /\ {"CAPTURED"} \subseteq EventTypes
        /\ t # "CUSTODY_TRANSFER"
    BY SuccessorsOf DEF EventTypes, Decides
  <2>3. AuditAcceptsLifecycle' /\ \A F : t \in F => Anchored(F)'
    <3>1. CASE Anchored({"QUALITY"})
      BY <1>1, <2>1, <2>2, <3>1, EventsFrame, TrailFollows DEF CaseInv
    <3>2. CASE Anchored({"CAPTURED"}) /\ t = "QUALITY"
      BY <1>1, <2>1, <2>2, <3>2, EventsFrame, TrailFollows DEF CaseInv
    <3>3. QED
      BY <2>1, <3>1, <3>2
  <2>4. /\ Anchored({"QUALITY", "QUALITY_ADJUDICATED"})'
        /\ state' = "CAPTURED" => Anchored({"QUALITY"})'
    BY <1>3, <2>3 DEF Decides, StateAfter
  <2>5. QED
    BY <1>1, <1>2, <1>8, <2>3, <2>4 DEF TrailInv, captureVars
<1>11. QED
  BY <1>1, <1>4, <1>5, <1>6, <1>7, <1>8, <1>9, <1>10, SealFrame DEF CaseInv

LEMMA DecideQualitySteps ==
    ASSUME CaseInv, NEW reviewer \in Staff["reviewer"],
           NEW failures \in SUBSET Categories, NEW listened \in Listening,
           DecideQuality(reviewer, failures, listened)
    PROVE  \E q \in QualityDecision, d \in {"PASS", "FAIL"} :
             /\ Decides(q, d, "QUALITY") /\ quality' = Append(quality, q)
             /\ Len(quality) = generation - 1
             /\ \E x \in LastItem(generation) : x.length = q.length
<1>0. PICK x \in LastItem(generation) :
        quality' = Append(quality,
               [generation |-> generation, reviewer |-> reviewer,
                decision |-> IF failures = {} THEN "PASS" ELSE "FAIL",
                failures |-> failures,
                listened |-> listened, length |-> x.length,
                revision |-> revision + 1, reviewedAt |-> now,
                countersign |-> IF NeedsCountersign THEN "PENDING" ELSE "NONE",
                countersigner |-> None, adjudication |-> None])
  BY DEF DecideQuality
<1> DEFINE d == IF failures = {} THEN "PASS" ELSE "FAIL"
           status == IF NeedsCountersign THEN "PENDING" ELSE "NONE"
           q == [generation |-> generation, reviewer |-> reviewer,
                 decision |-> d, failures |-> failures,
                 listened |-> listened, length |-> x.length,
                 revision |-> revision + 1, reviewedAt |-> now,
                 countersign |-> status,
                 countersigner |-> None, adjudication |-> None]
<1>1. /\ state = "CAPTURED" /\ quality' = Append(quality, q) /\ Accept("QUALITY")
      /\ \A p \in Members(quality) : p.generation # generation
      /\ state' = IF NeedsCountersign THEN "CAPTURED" ELSE StateAfter(d)
      /\ UNCHANGED <<assessmentVars, planVars, captureVars, recaptures, custody,
                     custodian, manifest>>
  BY <1>0 DEF DecideQuality
<1>2. /\ generation \in Nat /\ revision + 1 \in Nat /\ now \in Nat
      /\ quality \in Seq(QualityDecision) /\ reviewer \in People
  BY Persons DEF CaseInv, TypeOK, CreatedAt, Roles
<1>12. x.length \in Nat /\ listened \in BOOLEAN
  BY Choices DEF LastItem, Items, CaseInv, TypeOK, CaptureGeneration
<1>3. d \in {"PASS", "FAIL"} /\ status \in {"PENDING", "NONE"}
  OBVIOUS
<1>4. /\ q.generation = generation /\ q.countersigner = None
      /\ q.adjudication = None /\ q.countersign = status /\ q.decision = d
      /\ q.length = x.length
  OBVIOUS
<1>5. q \in QualityDecision
  <2> HIDE DEF d, status
  <2>1. QED
    BY <1>2, <1>3, <1>12 DEF QualityDecision
<1> HIDE DEF q
<1>6. Len(quality) = generation - 1
  <2>1. CASE Len(quality) = generation
    <3>1. generation \in DOMAIN quality
      BY <1>1, <1>2, <2>1 DEF CaseInv, StageInv
    <3>2. quality[generation].generation = generation
      BY <3>1 DEF CaseInv, QualityInv
    <3>3. QED
      BY <1>1, <3>1, <3>2 DEF Members
  <2>2. QED
    BY <1>1, <2>1 DEF CaseInv, StageInv
<1>7. /\ quality' \in Seq(QualityDecision) /\ Len(quality') = generation
      /\ \A g \in 1..(generation - 1) : quality'[g] = quality[g]
      /\ quality'[generation] = q
  BY <1>1, <1>2, <1>5, <1>6
<1>8. OpinionOK(q)
  BY <1>3, <1>4 DEF OpinionOK
<1>9. \/ state' = "CAPTURED" /\ ~Settled(q)
      \/ state' = StateAfter(d) /\ Settled(q) /\ EffectiveDecision(q) = d
  <2>1. CASE NeedsCountersign
    BY <1>1, <1>4, <2>1 DEF Settled
  <2>2. CASE ~NeedsCountersign
    BY <1>1, <1>4, <2>2 DEF Settled, EffectiveDecision
  <2>3. QED
    BY <2>1, <2>2
<1>10. Decides(q, d, "QUALITY")
  <2> HIDE DEF d, status
  <2>1. QED
    BY <1>1, <1>4, <1>7, <1>8, <1>9 DEF Decides
<1>11. QED
  BY <1>1, <1>3, <1>4, <1>5, <1>6, <1>10

(* The decision that a second opinion is about is that of the generation.  *)
LEMMA ReviewedIsLast ==
    ASSUME CaseInv, state = "CAPTURED", NEW status, NEW i \in Reviewed(status)
    PROVE  /\ i = generation /\ Len(quality) = generation
           /\ generation \in DOMAIN quality /\ generation \in Nat
           /\ quality \in Seq(QualityDecision)
           /\ quality[generation] \in QualityDecision
           /\ quality[generation].generation = generation
           /\ quality[generation].countersign = status
           /\ OpinionOK(quality[generation])
<1>1. /\ i \in DOMAIN quality /\ quality[i].generation = generation
      /\ quality[i].countersign = status
  BY DEF Reviewed
<1>2. i = generation /\ OpinionOK(quality[i])
  BY <1>1 DEF CaseInv, QualityInv
<1>3. /\ quality \in Seq(QualityDecision) /\ generation \in Nat
      /\ Len(quality) \in {generation - 1, generation}
  BY DEF CaseInv, TypeOK, StageInv
<1>4. QED
  BY <1>1, <1>2, <1>3

LEMMA CountersignSteps ==
    ASSUME CaseInv, NEW reviewer \in Staff["reviewer"],
           NEW d \in {"PASS", "FAIL"}, Countersign(reviewer, d)
    PROVE  \E q \in QualityDecision :
             /\ Decides(q, d, "QUALITY") /\ Len(quality) = generation
             /\ generation \in DOMAIN quality /\ ~Settled(quality[generation])
             /\ quality[generation].countersigner = None
             /\ q.reviewer = quality[generation].reviewer
             /\ q.decision = quality[generation].decision
             /\ q.failures = quality[generation].failures
             /\ q.length = quality[generation].length
<1>1. /\ state = "CAPTURED" /\ Accept("QUALITY")
      /\ UNCHANGED <<assessmentVars, planVars, captureVars, recaptures, custody,
                     custodian, manifest>>
  BY DEF Countersign
<1>2. PICK i \in Reviewed("PENDING") :
        /\ reviewer \notin Involved(quality[i]) \cup Owners
        /\ quality' = [quality EXCEPT
             ![i].countersigner = reviewer,
             ![i].countersign = IF d = quality[i].decision
                                THEN "CONFIRMED" ELSE "DISAGREED"]
        /\ state' = IF d = quality[i].decision THEN StateAfter(d) ELSE "CAPTURED"
  BY DEF Countersign
<1>3. /\ i = generation /\ Len(quality) = generation
      /\ generation \in DOMAIN quality /\ generation \in Nat
      /\ quality \in Seq(QualityDecision) /\ quality[i] \in QualityDecision
      /\ quality[i].generation = generation
      /\ quality[i].countersign = "PENDING" /\ OpinionOK(quality[i])
  BY <1>1, ReviewedIsLast
<1> DEFINE p == quality[i]
           status == IF d = p.decision THEN "CONFIRMED" ELSE "DISAGREED"
           q == [p EXCEPT !.countersigner = reviewer, !.countersign = status]
<1>4. p.countersigner = None /\ p.adjudication = None /\ ~Settled(p)
  BY <1>3 DEF OpinionOK, Settled
<1>5. status \in {"CONFIRMED", "DISAGREED"} /\ reviewer \in People
  BY Persons DEF Roles
<1>6. quality' = [quality EXCEPT ![i] = q]
  BY <1>2, <1>3 DEF QualityDecision
<1> HIDE DEF status, p
<1>7. /\ q \in QualityDecision /\ q.countersigner = reviewer
      /\ q.countersign = status /\ q.adjudication = p.adjudication
      /\ q.reviewer = p.reviewer /\ q.decision = p.decision
      /\ q.failures = p.failures /\ q.generation = p.generation
      /\ q.length = p.length
  BY <1>3, <1>5 DEF QualityDecision, p
<1> HIDE DEF q
<1>8. /\ quality' \in Seq(QualityDecision) /\ Len(quality') = generation
      /\ \A g \in 1..(generation - 1) : quality'[g] = quality[g]
      /\ quality'[generation] = q
  BY <1>3, <1>6, <1>7
<1>9. OpinionOK(q)
  BY <1>4, <1>5, <1>7 DEF OpinionOK
<1>10. \/ state' = "CAPTURED" /\ ~Settled(q)
       \/ state' = StateAfter(d) /\ Settled(q) /\ EffectiveDecision(q) = d
  <2>1. CASE d = p.decision
    BY <1>2, <1>4, <1>7, <2>1 DEF Settled, EffectiveDecision, p, status
  <2>2. CASE d # p.decision
    BY <1>2, <1>7, <2>2 DEF Settled, p, status
  <2>3. QED
    BY <2>1, <2>2
<1>11. /\ q.countersigner \notin {q.reviewer, plan.operator}
       /\ \A j \in DOMAIN recaptures : recaptures[j].owner # q.countersigner
  <2>1. reviewer # None
    BY <1>5, Absent
  <2>2. reviewer # p.reviewer /\ reviewer # plan.operator /\ reviewer \notin Owners
    BY <1>2 DEF Involved, p
  <2>3. \A j \in DOMAIN recaptures : recaptures[j].owner # reviewer
    BY <2>1, <2>2 DEF Owners, Members
  <2>4. QED
    BY <1>7, <2>2, <2>3
<1>12. Decides(q, d, "QUALITY")
  BY <1>1, <1>3, <1>4, <1>7, <1>8, <1>9, <1>10, <1>11 DEF Decides, p
<1>13. QED
  BY <1>3, <1>4, <1>7, <1>12 DEF p

LEMMA AdjudicateSteps ==
    ASSUME CaseInv, NEW reviewer \in Staff["reviewer"],
           NEW d \in {"PASS", "FAIL"}, Adjudicate(reviewer, d)
    PROVE  \E q \in QualityDecision :
             /\ Decides(q, d, "QUALITY_ADJUDICATED") /\ Len(quality) = generation
             /\ generation \in DOMAIN quality /\ ~Settled(quality[generation])
             /\ q.countersigner = quality[generation].countersigner
             /\ q.reviewer = quality[generation].reviewer
             /\ q.decision = quality[generation].decision
             /\ q.failures = quality[generation].failures
             /\ q.length = quality[generation].length
<1>1. /\ state = "CAPTURED" /\ Accept("QUALITY_ADJUDICATED")
      /\ state' = StateAfter(d)
      /\ UNCHANGED <<assessmentVars, planVars, captureVars, recaptures, custody,
                     custodian, manifest>>
  BY DEF Adjudicate
<1>2. PICK i \in Reviewed("DISAGREED") :
        /\ reviewer \notin Involved(quality[i])
        /\ quality' = [quality EXCEPT ![i] = Adjudicated(@, reviewer, d)]
  BY DEF Adjudicate
<1>3. /\ i = generation /\ Len(quality) = generation
      /\ generation \in DOMAIN quality /\ generation \in Nat
      /\ quality \in Seq(QualityDecision) /\ quality[i] \in QualityDecision
      /\ quality[i].generation = generation
      /\ quality[i].countersign = "DISAGREED"
  BY <1>1, ReviewedIsLast
<1> DEFINE p == quality[i]
           a == [by |-> reviewer, decision |-> d]
           q == [p EXCEPT !.adjudication = a, !.countersign = "ADJUDICATED"]
<1>4. reviewer \in People
  BY Persons DEF Roles
<1>5. a \in QualityAdjudication /\ a # None /\ a.by = reviewer /\ a.decision = d
  BY <1>4, Absent DEF QualityAdjudication
<1>6. quality' = [quality EXCEPT ![i] = q]
  BY <1>2, <1>3 DEF Adjudicated
<1> HIDE DEF a, p
<1>7. /\ q \in QualityDecision /\ q.countersigner = p.countersigner
      /\ q.countersign = "ADJUDICATED" /\ q.adjudication = a
      /\ q.reviewer = p.reviewer /\ q.decision = p.decision
      /\ q.failures = p.failures /\ q.generation = p.generation
      /\ q.length = p.length
  BY <1>3, <1>5 DEF QualityDecision, p
<1> HIDE DEF q
<1>8. /\ quality' \in Seq(QualityDecision) /\ Len(quality') = generation
      /\ \A g \in 1..(generation - 1) : quality'[g] = quality[g]
      /\ quality'[generation] = q
  BY <1>3, <1>6, <1>7
<1>9. OpinionOK(q) /\ Settled(q) /\ EffectiveDecision(q) = d
  BY <1>5, <1>7 DEF OpinionOK, Settled, EffectiveDecision
<1>10. q.adjudication.by \notin {q.reviewer, q.countersigner, plan.operator}
  BY <1>2, <1>5, <1>7 DEF Involved, p
<1>11. ASSUME q.countersigner # None
       PROVE  /\ q.countersigner \notin {q.reviewer, plan.operator}
              /\ \A j \in DOMAIN recaptures : recaptures[j].owner # q.countersigner
  <2>1. OpinionDuties(generation) /\ quality[generation] = p
    BY <1>3 DEF CaseInv, DutyInv, p
  <2>2. \A j \in DOMAIN recaptures : recaptures[j].generation =< generation
    BY <1>1 DEF CaseInv, RecaptureInv, ActionOK
  <2>3. QED
    BY <1>7, <1>11, <2>1, <2>2 DEF OpinionDuties
<1>12. ~Settled(p)
  BY <1>3 DEF Settled, p
<1>13. Decides(q, d, "QUALITY_ADJUDICATED")
  BY <1>1, <1>3, <1>7, <1>8, <1>9, <1>10, <1>11 DEF Decides, p
<1>14. QED
  BY <1>3, <1>7, <1>12, <1>13 DEF p

-----------------------------------------------------------------------------
(***************************************************************************)
(* Authorizations, renewals and revocations.                               *)
(***************************************************************************)

(* A record is added for the next generation: one that authorizes it, with *)
(* its duties separated, or one that revokes the authorization.            *)
Records(r, t) ==
    /\ state \in {"READY_FOR_CAPTURE", "RECAPTURE_REQUIRED"} /\ generation >= 1
    /\ Accept(t) /\ recaptures' = Append(recaptures, r)
    /\ r.generation = generation + 1 /\ r.consumedBy = 0
    /\ r.action = "revoke" =>
         r.status = "REVOKED" /\ state' = "RECAPTURE_REQUIRED"
    /\ r.action # "revoke" =>
         /\ r.status = "ACTIVE" /\ state' = "READY_FOR_CAPTURE"
         /\ r.by # quality[generation].reviewer
         /\ r.performer \notin {plan.operator, quality[generation].reviewer, r.by}
         /\ generation > 1 /\ EffectiveFailures(quality[generation - 1])
                                \cap EffectiveFailures(quality[generation]) # {} =>
              /\ r.escalation # None
              /\ r.escalation.officer \notin
                   {plan.operator, quality[generation].reviewer,
                    quality[generation].countersigner, r.by}
              /\ quality[generation].adjudication # None =>
                   r.escalation.officer # quality[generation].adjudication.by
              /\ \A j \in DOMAIN recaptures : recaptures[j].action # "revoke" =>
                   r.escalation.officer # recaptures[j].by
    /\ \/ /\ t = "RECAPTURE_AUTHORIZED" /\ r.action # "revoke"
          /\ state = "RECAPTURE_REQUIRED"
       \/ t = "RECAPTURE_RENEWED" /\ r.action # "revoke" /\ Renewable # {}
       \/ t = "RECAPTURE_REVOKED" /\ r.action = "revoke"
          /\ state = "READY_FOR_CAPTURE"
    /\ UNCHANGED <<assessmentVars, planVars, captureVars, quality, custody,
                   custodian, manifest>>

(* The new record is the last of its generation, and of no other.          *)
LEMMA ActiveAfter ==
    ASSUME recaptures \in Seq(RecaptureAction), generation \in Nat,
           NEW r, r.generation = generation + 1,
           recaptures' = Append(recaptures, r)
    PROVE  /\ \A gen : gen # generation + 1 =>
                ActiveAuthorization(gen)' = ActiveAuthorization(gen)
           /\ \A gen : gen = generation + 1 =>
                ActiveAuthorization(gen)' =
                  IF r.action = "revoke" THEN {} ELSE {Len(recaptures) + 1}
<1> DEFINE n == Len(recaptures) + 1
<1>1. /\ n \in Nat /\ DOMAIN recaptures = 1..(n - 1) /\ DOMAIN recaptures' = 1..n
      /\ recaptures'[n] = r
      /\ \A j \in 1..(n - 1) : recaptures'[j] = recaptures[j]
  OBVIOUS
<1>2. ASSUME NEW gen, gen # generation + 1
      PROVE  ActiveAuthorization(gen)' = ActiveAuthorization(gen)
  <2>1. ASSUME NEW i \in ActiveAuthorization(gen)
        PROVE  i \in ActiveAuthorization(gen)'
    BY <1>1, <1>2 DEF ActiveAuthorization
  <2>2. ASSUME NEW i \in ActiveAuthorization(gen)'
        PROVE  i \in ActiveAuthorization(gen)
    <3>1. /\ i \in 1..n /\ recaptures'[i].generation = gen
          /\ recaptures'[i].action # "revoke"
          /\ \A j \in 1..n : j > i => recaptures'[j].generation # gen
      BY <1>1 DEF ActiveAuthorization
    <3>2. i \in 1..(n - 1)
      BY <1>1, <1>2, <3>1
    <3>3. QED
      BY <1>1, <3>1, <3>2 DEF ActiveAuthorization
  <2>3. QED
    BY <2>1, <2>2
<1>3. ASSUME NEW gen, gen = generation + 1
      PROVE  ActiveAuthorization(gen)' = IF r.action = "revoke" THEN {} ELSE {n}
  <2>1. ASSUME NEW i \in ActiveAuthorization(gen)'
        PROVE  i = n /\ r.action # "revoke"
    BY <1>1, <1>3 DEF ActiveAuthorization
  <2>2. r.action # "revoke" => n \in ActiveAuthorization(gen)'
    BY <1>1, <1>3 DEF ActiveAuthorization
  <2>3. QED
    BY <2>1, <2>2
<1>4. QED
  BY <1>2, <1>3

LEMMA RecordsKeepRecaptures ==
    ASSUME CaseInv, NEW r \in RecaptureAction, NEW t, Records(r, t)
    PROVE  RecaptureInv'
<1> DEFINE n == Len(recaptures) + 1
<1>1. /\ recaptures \in Seq(RecaptureAction) /\ generation \in Nat
      /\ generation >= 1 /\ generation' = generation /\ captures' = captures
      /\ state' \in {"READY_FOR_CAPTURE", "RECAPTURE_REQUIRED"}
      /\ state' = "RECAPTURE_REQUIRED" <=> r.action = "revoke"
      /\ r.generation = generation + 1 /\ r.consumedBy = 0
      /\ r.status = IF r.action = "revoke" THEN "REVOKED" ELSE "ACTIVE"
  BY DEF CaseInv, TypeOK, Records, captureVars
<1>2. /\ n \in Nat /\ DOMAIN recaptures = 1..(n - 1) /\ DOMAIN recaptures' = 1..n
      /\ recaptures'[n] = r
      /\ \A j \in 1..(n - 1) : recaptures'[j] = recaptures[j]
  BY <1>1 DEF Records
<1>3. /\ \A gen : gen # generation + 1 =>
           ActiveAuthorization(gen)' = ActiveAuthorization(gen)
      /\ \A gen : gen = generation + 1 =>
           ActiveAuthorization(gen)' = IF r.action = "revoke" THEN {} ELSE {n}
  BY <1>1, ActiveAfter DEF Records
<1>4. ASSUME NEW j \in 1..n
      PROVE  ActionOK(j)'
  <2>1. CASE j = n
    BY <1>1, <1>2, <2>1 DEF ActionOK
  <2>2. CASE j # n
    <3>1. recaptures'[j] = recaptures[j] /\ ActionOK(j) /\ j \in DOMAIN recaptures
      BY <1>2, <2>2 DEF CaseInv, RecaptureInv
    <3>2. recaptures[j] \in RecaptureAction
      BY <1>1, <3>1
    <3>3. recaptures[j].generation =< generation =>
            recaptures[j].generation # generation + 1
      BY <1>1, <3>2 DEF RecaptureAction
    <3>4. QED
      BY <1>1, <1>3, <3>1, <3>3 DEF ActionOK
  <2>3. QED
    BY <2>1, <2>2
<1>5. ASSUME NEW x \in captures', x.generation > 1
      PROVE  \E i \in ActiveAuthorization(x.generation)' : SpentFor(x, i)'
  <2>1. PICK i \in ActiveAuthorization(x.generation) : SpentFor(x, i)
    BY <1>1, <1>5 DEF CaseInv, RecaptureInv
  <2>2. x.generation # generation + 1
    BY <1>1 DEF CaseInv, CaptureInv
  <2>3. i \in ActiveAuthorization(x.generation)'
    BY <1>3, <2>1, <2>2
  <2>4. i \in DOMAIN recaptures
    BY <2>1 DEF ActiveAuthorization
  <2>5. recaptures'[i] = recaptures[i]
    BY <1>2, <2>4
  <2>6. SpentFor(x, i)'
    BY <2>1, <2>5 DEF SpentFor
  <2>7. QED
    BY <2>3, <2>6
<1>6. PICK gen : gen = generation + 1
  OBVIOUS
<1>7. /\ state' = "RECAPTURE_REQUIRED" => ActiveAuthorization(gen)' = {}
      /\ state' = "READY_FOR_CAPTURE" => ActiveAuthorization(gen)' # {}
  BY <1>1, <1>3, <1>6
<1>8. generation' + 1 = gen
  BY <1>1, <1>6
<1>9. QED
  BY <1>2, <1>4, <1>5, <1>7, <1>8 DEF RecaptureInv

LEMMA RecordsStep ==
    ASSUME CaseInv, NEW r \in RecaptureAction, NEW t, Records(r, t)
    PROVE  CaseInv'
<1> DEFINE n == Len(recaptures) + 1
<1>1. /\ state \in {"READY_FOR_CAPTURE", "RECAPTURE_REQUIRED"}
      /\ state' \in {"READY_FOR_CAPTURE", "RECAPTURE_REQUIRED"}
      /\ generation \in Nat /\ generation >= 1 /\ plan # None
      /\ Accept(t) /\ t \in EventTypes
      /\ recaptures \in Seq(RecaptureAction)
      /\ recaptures' = Append(recaptures, r) /\ r.generation = generation + 1
      /\ UNCHANGED <<assessmentVars, planVars, captureVars, quality, custody,
                     custodian, manifest>>
  BY DEF Records, CaseInv, TypeOK, EventTypes
<1>2. /\ n \in Nat /\ DOMAIN recaptures = 1..(n - 1) /\ DOMAIN recaptures' = 1..n
      /\ recaptures' \in Seq(RecaptureAction) /\ recaptures'[n] = r
      /\ \A j \in 1..(n - 1) : recaptures'[j] = recaptures[j]
  BY <1>1
<1>3. Len(quality) = generation /\ Concluded(generation, "FAIL")
  BY <1>1 DEF CaseInv, StageInv
<1>4. quality \in Seq(QualityDecision) /\ DOMAIN quality = 1..generation
  BY <1>3 DEF CaseInv, TypeOK
<1>5. TypeOK'
  BY <1>1, <1>2, EventsFrame
     DEF CaseInv, TypeOK, assessmentVars, planVars, captureVars, States
<1>6. StageInv'
  <2>1. Concluded(generation, "FAIL")'
    BY <1>1, <1>3 DEF Concluded, Settled, EffectiveDecision, captureVars
  <2>2. QED
    BY <1>1, <1>3, <2>1 DEF StageInv, planVars, captureVars
<1>7. QualityInv' /\ CaptureInv' /\ PlanInv'
  BY <1>1, QualityFrame, CaptureFrame, PlanFrame DEF CaseInv, captureVars
<1>8. RecaptureInv'
  BY RecordsKeepRecaptures
<1>9. DutyInv'
  <2>1. ASSUME NEW g \in DOMAIN quality
        PROVE  OpinionDuties(g)'
    <3>1. OpinionDuties(g) /\ ~(generation + 1 =< g)
      BY <1>1, <1>4 DEF CaseInv, DutyInv
    <3>2. \A i \in DOMAIN recaptures' : recaptures'[i].generation =< g =>
            i \in DOMAIN recaptures /\ recaptures'[i] = recaptures[i]
      BY <1>1, <1>2, <3>1
    <3>3. quality' = quality /\ plan' = plan
      BY <1>1 DEF planVars
    <3>4. QED
      BY <3>1, <3>2, <3>3 DEF OpinionDuties
  <2>2. \A p : EffectiveFailures(p)' = EffectiveFailures(p)
    BY DEF EffectiveFailures
  <2>3. ASSUME NEW i \in 1..(n - 1)
        PROVE  ActionDuties(i)'
    <3>1. ActionDuties(i) /\ recaptures'[i] = recaptures[i]
      BY <1>2 DEF CaseInv, DutyInv
    <3>2. \A j \in 1..i : recaptures'[j] = recaptures[j]
      BY <1>2
    <3>3. QED
      BY <1>1, <2>2, <3>1, <3>2 DEF ActionDuties, planVars
  <2>4. ASSUME NEW i \in {n}
        PROVE  ActionDuties(i)'
    <3>1. recaptures'[i] = r /\ r.generation - 1 = generation
      BY <1>1, <1>2
    <3>2. generation \in DOMAIN quality
      BY <1>1, <1>4
    <3>3. \A j \in 1..i : j = n \/ (/\ j \in DOMAIN recaptures
                                    /\ recaptures'[j] = recaptures[j])
      BY <1>2
    <3>4. QED
      BY <1>1, <1>2, <2>2, <3>1, <3>2, <3>3 DEF ActionDuties, Records, planVars
  <2>5. \A i \in 1..n : i \in 1..(n - 1) \/ i = n
    BY <1>2
  <2>6. QED
    BY <1>1, <1>2, <2>1, <2>3, <2>4, <2>5 DEF DutyInv
<1>10. TrailInv'
  <2>1. AuditAcceptsLifecycle
    BY DEF CaseInv, TrailInv
  <2>2. /\ {"RECAPTURE_AUTHORIZED", "RECAPTURE_RENEWED"} \subseteq EventTypes
        /\ {"QUALITY", "QUALITY_ADJUDICATED"} \subseteq EventTypes
        /\ {"RECAPTURE_REVOKED"} \subseteq EventTypes /\ t # "CUSTODY_TRANSFER"
    BY DEF EventTypes, Records
  <2>3. AuditAcceptsLifecycle' /\ \A F : t \in F => Anchored(F)'
    <3>1. CASE t = "RECAPTURE_AUTHORIZED" /\ state = "RECAPTURE_REQUIRED"
      <4>1. \/ Anchored({"RECAPTURE_REVOKED"})
            \/ Anchored({"QUALITY", "QUALITY_ADJUDICATED"})
        BY <3>1 DEF CaseInv, TrailInv
      <4>2. \A e \in {"QUALITY", "QUALITY_ADJUDICATED"} : t \in Successors(e)
        BY <3>1, SuccessorsOf
      <4>3. CASE Anchored({"RECAPTURE_REVOKED"})
        BY <1>1, <2>1, <2>2, <3>1, <4>3, EventsFrame, TrailFollows DEF CaseInv
      <4>4. CASE Anchored({"QUALITY", "QUALITY_ADJUDICATED"})
        BY <1>1, <2>1, <2>2, <4>2, <4>4, EventsFrame, TrailFollows DEF CaseInv
      <4>5. QED
        BY <4>1, <4>3, <4>4
    <3>2. CASE /\ t \in {"RECAPTURE_RENEWED", "RECAPTURE_REVOKED"}
               /\ state = "READY_FOR_CAPTURE"
      <4>1. Anchored({"RECAPTURE_AUTHORIZED", "RECAPTURE_RENEWED"})
        BY <1>1, <3>2 DEF CaseInv, TrailInv
      <4>2. \A e \in {"RECAPTURE_AUTHORIZED", "RECAPTURE_RENEWED"} :
              t \in Successors(e)
        BY <3>2, SuccessorsOf
      <4>3. QED
        BY <1>1, <2>1, <2>2, <4>1, <4>2, EventsFrame, TrailFollows DEF CaseInv
    <3>3. CASE t = "RECAPTURE_RENEWED" /\ state = "RECAPTURE_REQUIRED"
      <4>1. Renewable # {}
        BY <3>3 DEF Records
      <4>2. PICK i \in DOMAIN recaptures : recaptures[i].generation = generation + 1
        BY <4>1 DEF Renewable
      <4>3. ~(recaptures[i].generation =< generation)
        BY <1>1, <4>2
      <4>4. Anchored({"RECAPTURE_REVOKED"})
        BY <3>3, <4>2, <4>3 DEF CaseInv, TrailInv
      <4>5. \A e \in {"RECAPTURE_REVOKED"} : t \in Successors(e)
        BY <3>3, SuccessorsOf
      <4>6. QED
        BY <1>1, <2>1, <2>2, <4>4, <4>5, EventsFrame, TrailFollows DEF CaseInv
    <3>4. QED
      BY <1>1, <3>1, <3>2, <3>3 DEF Records
  <2>4. /\ state' = "READY_FOR_CAPTURE" =>
             Anchored({"RECAPTURE_AUTHORIZED", "RECAPTURE_RENEWED"})'
        /\ state' = "RECAPTURE_REQUIRED" => Anchored({"RECAPTURE_REVOKED"})'
    BY <2>3 DEF Records
  <2>5. QED
    BY <1>1, <2>3, <2>4 DEF TrailInv, captureVars
<1>11. QED
  BY <1>1, <1>5, <1>6, <1>7, <1>8, <1>9, <1>10, SealFrame DEF CaseInv

LEMMA AuthorizationFacts ==
    ASSUME TypeOK, NEW a \in AuthorizationRequests, NEW version \in Nat,
           NEW gen \in Nat, NEW action \in {"authorize", "renew"},
           NEW r, r = Authorization(a, action, version, gen)
    PROVE  /\ r \in RecaptureAction /\ r.action = action /\ r.generation = gen
           /\ r.status = "ACTIVE" /\ r.consumedBy = 0 /\ r.by = a.by
           /\ r.performer = a.performer /\ r.escalation = a.escalation
           /\ a.by \in People
<1>1. /\ a.by \in Staff["authorizer"] /\ a.owner \in Staff["remediator"]
      /\ a.performer \in Staff["remediator"] \cup {None}
      /\ a.authorizedAt \in CreatedAt..now
      /\ a.expiresAt \in (now + 1)..(now + MaxTerm)
      /\ a.escalation \in EscalationRequests
  BY DEF AuthorizationRequests
<1>2. a.by \in People /\ a.owner \in People /\ a.performer \in People \cup {None}
  BY <1>1, Persons DEF Roles
<1>3. a.authorizedAt \in Nat /\ a.expiresAt \in Nat
  BY <1>1, Choices DEF TypeOK, CreatedAt
<1>4. a.escalation \in RecaptureEscalation \cup {None}
  <2>1. Staff["officer"] \subseteq People /\ 0..1 \subseteq Nat
    BY Persons DEF Roles
  <2>2. \A e \in [officer : Staff["officer"], remaining : 0..1] :
          e \in [officer : People, remaining : Nat]
    BY <2>1
  <2>3. \/ a.escalation = None
        \/ a.escalation \in [officer : Staff["officer"], remaining : 0..1]
    BY <1>1 DEF EscalationRequests
  <2>4. QED
    BY <2>2, <2>3 DEF RecaptureEscalation
<1>5. QED
  BY <1>2, <1>3, <1>4 DEF Authorization, RecaptureAction

(* The failures of the last two generations that they have in common are   *)
(* the repeated ones.                                                      *)
LEMMA CommonFailuresRepeat ==
    ASSUME CaseInv, Len(quality) = generation, generation > 1,
           EffectiveDecision(quality[generation]) = "FAIL",
           EffectiveFailures(quality[generation - 1])
             \cap EffectiveFailures(quality[generation]) # {}
    PROVE  RepeatedFailures # {}
<1>1. /\ generation \in Nat /\ LastOf(quality) = quality[generation]
      /\ generation - 1 \in 1..(generation - 1) /\ generation \in DOMAIN quality
  BY DEF CaseInv, TypeOK, LastOf
<1>2. Concluded(generation - 1, "FAIL")
  BY <1>1 DEF CaseInv, QualityInv
<1>3. /\ quality[generation - 1].generation = generation - 1
      /\ quality[generation].generation = generation
      /\ generation - 1 \in DOMAIN quality
  BY <1>1, <1>2 DEF CaseInv, QualityInv, Concluded
<1>4. PICK f : /\ f \in EffectiveFailures(quality[generation - 1])
               /\ f \in EffectiveFailures(quality[generation])
  OBVIOUS
<1>5. quality[generation - 1] \in Members(quality)
  BY <1>3 DEF Members
<1>6. f \in RepeatedFailures
  BY <1>1, <1>2, <1>3, <1>4, <1>5 DEF RepeatedFailures, Concluded
<1>7. QED
  BY <1>6

(* Authorizing and renewing both add a record with its duties separated.   *)
LEMMA AuthorizeVersionSteps ==
    ASSUME CaseInv, NEW a \in AuthorizationRequests, NEW version \in Nat,
           NEW action \in {"authorize", "renew"}, NEW t, Accept(t),
           state \in {"READY_FOR_CAPTURE", "RECAPTURE_REQUIRED"},
           AuthorizeVersion(a, action, version, generation + 1),
           \/ t = "RECAPTURE_AUTHORIZED" /\ state = "RECAPTURE_REQUIRED"
           \/ t = "RECAPTURE_RENEWED" /\ Renewable # {}
    PROVE  \E r \in RecaptureAction : Records(r, t)
<1> DEFINE r == Authorization(a, action, version, generation + 1)
           failed == LastOf(quality)
<1>1. /\ quality # <<>> /\ EffectiveDecision(failed) = "FAIL"
      /\ EscalationAccepted(a, failed) /\ a.by # failed.reviewer
      /\ a.performer # None =>
           a.performer \notin {plan.operator, failed.reviewer, a.by}
      /\ recaptures' = Append(recaptures, r)
      /\ state' = "READY_FOR_CAPTURE"
      /\ UNCHANGED <<assessmentVars, planVars, captureVars, quality, custody,
                     custodian, manifest>>
  BY DEF AuthorizeVersion
<1>2. /\ generation \in Nat /\ generation + 1 \in Nat /\ generation >= 1
      /\ Len(quality) = generation /\ generation \in DOMAIN quality
      /\ failed = quality[generation] /\ quality[generation] \in QualityDecision
      /\ plan \in CapturePlan
  <2>1. /\ generation \in Nat /\ quality \in Seq(QualityDecision)
        /\ plan \in CapturePlan
    BY DEF CaseInv, TypeOK
  <2>2. Len(quality) = generation
    BY DEF CaseInv, StageInv
  <2>3. QED
    BY <1>1, <2>1, <2>2 DEF LastOf
<1>3. /\ r \in RecaptureAction /\ r.action = action
      /\ r.generation = generation + 1
      /\ r.status = "ACTIVE" /\ r.consumedBy = 0 /\ r.by = a.by
      /\ r.performer = a.performer /\ r.escalation = a.escalation
      /\ a.by \in People
  BY <1>2, AuthorizationFacts DEF CaseInv
<1> HIDE DEF r
<1>4. r.performer \notin {plan.operator, quality[generation].reviewer, r.by}
  <2>1. /\ plan.operator \in People /\ quality[generation].reviewer \in People
        /\ r.by \in People /\ None \notin People
    BY <1>2, <1>3, Absent DEF CapturePlan, QualityDecision
  <2>2. CASE a.performer = None
    BY <1>3, <2>1, <2>2
  <2>3. CASE a.performer # None
    BY <1>1, <1>2, <1>3, <2>3
  <2>4. QED
    BY <2>2, <2>3
<1>5. ASSUME generation > 1, EffectiveFailures(quality[generation - 1])
                               \cap EffectiveFailures(quality[generation]) # {}
      PROVE  /\ r.escalation # None
             /\ r.escalation.officer \notin
                  {plan.operator, quality[generation].reviewer,
                   quality[generation].countersigner, r.by}
             /\ quality[generation].adjudication # None =>
                  r.escalation.officer # quality[generation].adjudication.by
             /\ \A j \in DOMAIN recaptures : recaptures[j].action # "revoke" =>
                  r.escalation.officer # recaptures[j].by
  <2>1. RepeatedFailures # {}
    BY <1>1, <1>2, <1>5, CommonFailuresRepeat
  <2>2. /\ a.escalation # None
        /\ a.escalation.officer \notin
             {plan.operator, failed.reviewer, a.by, failed.countersigner}
        /\ failed.adjudication # None =>
             a.escalation.officer # failed.adjudication.by
    BY <1>1, <2>1 DEF EscalationAccepted
  <2>3. \A j \in DOMAIN recaptures : recaptures[j].action # "revoke" =>
          a.escalation.officer # recaptures[j].by
    BY <1>1, <2>1 DEF EscalationAccepted, Members
  <2>4. QED
    BY <1>2, <1>3, <2>2, <2>3
<1>6. r.by # quality[generation].reviewer
  BY <1>1, <1>2, <1>3
<1>7. Records(r, t)
  BY <1>1, <1>2, <1>3, <1>4, <1>5, <1>6 DEF Records
<1>8. QED
  BY <1>3, <1>7

LEMMA AuthorizeSteps ==
    ASSUME CaseInv, NEW a \in AuthorizationRequests, AuthorizeRecapture(a)
    PROVE  \E r \in RecaptureAction : Records(r, "RECAPTURE_AUTHORIZED")
BY AuthorizeVersionSteps DEF AuthorizeRecapture

LEMMA RenewSteps ==
    ASSUME CaseInv, NEW a \in AuthorizationRequests, RenewRecapture(a)
    PROVE  \E r \in RecaptureAction : Records(r, "RECAPTURE_RENEWED")
<1>1. PICK i \in Renewable :
        AuthorizeVersion(a, "renew", recaptures[i].version + 1,
                         recaptures[i].generation)
  BY DEF RenewRecapture
<1>2. i \in DOMAIN recaptures /\ recaptures[i].generation = generation + 1
  BY DEF Renewable
<1>3. recaptures[i] \in RecaptureAction
  BY <1>2 DEF CaseInv, TypeOK
<1>4. recaptures[i].version + 1 \in Nat
  BY <1>3 DEF RecaptureAction
<1>5. /\ state \in {"READY_FOR_CAPTURE", "RECAPTURE_REQUIRED"}
      /\ Accept("RECAPTURE_RENEWED")
  BY DEF RenewRecapture
<1>6. QED
  BY <1>1, <1>2, <1>4, <1>5, AuthorizeVersionSteps

LEMMA RevokeSteps ==
    ASSUME CaseInv, NEW person \in Staff["authorizer"], RevokeRecapture(person)
    PROVE  \E r \in RecaptureAction : Records(r, "RECAPTURE_REVOKED")
<1>1. /\ state \in {"READY_FOR_CAPTURE", "RECAPTURE_REQUIRED"}
      /\ state' = "RECAPTURE_REQUIRED" /\ Accept("RECAPTURE_REVOKED")
      /\ UNCHANGED <<assessmentVars, planVars, captureVars, quality, custody,
                     custodian, manifest>>
  BY DEF RevokeRecapture
<1>2. PICK i \in ActiveAuthorization(generation + 1) :
        recaptures' = Append(recaptures,
          [recaptures[i] EXCEPT !.action = "revoke", !.status = "REVOKED",
                                !.by = person, !.owner = None,
                                !.performer = None, !.authorizedAt = now,
                                !.expiresAt = now, !.escalation = None])
  BY DEF RevokeRecapture
<1> DEFINE a == recaptures[i]
           r == [a EXCEPT !.action = "revoke", !.status = "REVOKED",
                          !.by = person, !.owner = None,
                          !.performer = None, !.authorizedAt = now,
                          !.expiresAt = now, !.escalation = None]
<1>3. i \in DOMAIN recaptures /\ a.generation = generation + 1
  BY DEF ActiveAuthorization
<1>4. /\ a \in RecaptureAction /\ person \in People /\ now \in Nat
      /\ generation \in Nat
  BY <1>3, Persons DEF CaseInv, TypeOK, CreatedAt, Roles
<1>5. a.consumedBy = 0 /\ generation >= 1
  <2>1. ActionOK(i)
    BY <1>3 DEF CaseInv, RecaptureInv
  <2>2. generation + 1 \in 2..(generation + 1)
    BY <1>3, <2>1 DEF ActionOK
  <2>3. a.consumedBy # 0 => generation + 1 =< generation
    BY <1>3, <2>1 DEF ActionOK
  <2>4. QED
    BY <1>4, <2>2, <2>3
<1>6. state = "READY_FOR_CAPTURE"
  BY <1>1, <1>2 DEF CaseInv, RecaptureInv
<1>7. /\ r \in RecaptureAction /\ r.action = "revoke" /\ r.status = "REVOKED"
      /\ r.generation = a.generation /\ r.consumedBy = a.consumedBy
  <2> HIDE DEF a
  <2>1. QED
    BY <1>4 DEF RecaptureAction
<1>8. recaptures' = Append(recaptures, r)
  BY <1>2
<1> HIDE DEF r
<1>9. Records(r, "RECAPTURE_REVOKED")
  BY <1>1, <1>3, <1>5, <1>6, <1>7, <1>8 DEF Records
<1>10. QED
  BY <1>7, <1>9

-----------------------------------------------------------------------------
(***************************************************************************)
(* Custody, the seal and the clock.                                        *)
(***************************************************************************)
LEMMA AnchoredTransferred ==
    ASSUME TypeOK, AuditAcceptsLifecycle, NEW E, "SEALED" \notin E, Anchored(E),
           trail' = Append(trail, "CUSTODY_TRANSFER")
    PROVE  AuditAcceptsLifecycle' /\ Anchored(E)'
<1>1. PICK j \in DOMAIN trail : AnchoredAt(trail, j) /\ trail[j] \in E
  BY DEF Anchored
<1>2. trail[j] # "SEALED"
  BY <1>1
<1>3. /\ AuditAcceptsLifecycle' /\ AnchoredAt(trail', j)
      /\ trail'[j] = trail[j]
  BY <1>1, <1>2, TrailTransferred
<1>4. j \in DOMAIN trail'
  BY <1>3 DEF AnchoredAt
<1>5. QED
  BY <1>1, <1>3, <1>4 DEF Anchored

LEMMA TransferType ==
    ASSUME NEW e \in Transfers
    PROVE  e \in CustodyEvent /\ e.to \in People
<1>1. Staff["custodian"] \subseteq People /\ 0..(MaxTime + 1) \subseteq Nat
  BY Persons, Choices DEF Roles
<1>2. /\ e \in [from : Staff["custodian"], to : Staff["custodian"],
                place : Places, at : 0..(MaxTime + 1)]
      /\ e.to \in Staff["custodian"]
  BY DEF Transfers
<1>3. QED
  BY <1>1, <1>2 DEF CustodyEvent

LEMMA TransferStep ==
    ASSUME CaseInv, NEW e \in Transfers, AppendCustodyTransfer(e)
    PROVE  CaseInv'
<1> USE DEF CaseInv
<1> DEFINE t == "CUSTODY_TRANSFER"
<1>1. /\ state # "SEALED" /\ state' = state /\ Accept(t)
      /\ custody' = Append(custody, e) /\ custodian' = e.to
      /\ UNCHANGED <<assessmentVars, planVars, captureVars, quality, recaptures,
                     manifest>>
  BY DEF AppendCustodyTransfer, Mutable
<1>2. t \in EventTypes
  BY DEF EventTypes
<1>3. custody' \in Seq(CustodyEvent) /\ custodian' \in People \cup {None}
  BY <1>1, TransferType DEF TypeOK
<1>4. TypeOK'
  BY <1>1, <1>2, <1>3, EventsFrame
     DEF TypeOK, assessmentVars, planVars, captureVars, States
<1>5. StageInv' /\ QualityInv' /\ CaptureInv' /\ PlanInv' /\ RecaptureInv' /\ DutyInv'
  BY <1>1, StageFrame, QualityFrame, CaptureFrame, PlanFrame, RecaptureFrame,
     DutyFrame DEF planVars, captureVars
<1>6. TrailInv'
  <2>1. AuditAcceptsLifecycle /\ trail' = Append(trail, t)
    BY <1>1, <1>2, EventsFrame DEF TrailInv
  <2>2. \A E : "SEALED" \notin E /\ Anchored(E) =>
               AuditAcceptsLifecycle' /\ Anchored(E)'
    BY <2>1, AnchoredTransferred
  <2>3. /\ "SEALED" \notin {"REGISTERED"} /\ "SEALED" \notin AssessmentEvents
        /\ "SEALED" \notin PlanEvents
        /\ "SEALED" \notin {"PLAN_RESERVATION_RELEASED"}
        /\ "SEALED" \notin {"RECAPTURE_AUTHORIZED", "RECAPTURE_RENEWED"}
        /\ "SEALED" \notin {"QUALITY"} /\ "SEALED" \notin {"CAPTURED"}
        /\ "SEALED" \notin {"QUALITY", "QUALITY_ADJUDICATED"}
        /\ "SEALED" \notin {"RECAPTURE_REVOKED"}
    BY DEF AssessmentEvents, PlanEvents
  <2>4. AuditAcceptsLifecycle'
    <3>1. /\ state \in States /\ state # "SEALED"
          /\ state = "READY_FOR_CAPTURE" => generation = 0 \/ generation >= 1
      BY <1>1 DEF TypeOK
    <3>2. \E E : "SEALED" \notin E /\ Anchored(E)
      BY <2>3, <3>1 DEF TrailInv, States
    <3>3. QED
      BY <2>2, <3>2
  <2>5. /\ state' = state /\ generation' = generation /\ quality' = quality
        /\ plan' = plan /\ recaptures' = recaptures
    BY <1>1 DEF planVars, captureVars
  <2>6. QED
    BY <1>1, <2>2, <2>3, <2>4, <2>5 DEF TrailInv
<1>7. QED
  BY <1>1, <1>4, <1>5, <1>6, SealFrame

LEMMA TickStep ==
    ASSUME CaseInv, Tick
    PROVE  CaseInv'
<1> USE DEF CaseInv
<1>1. /\ now < MaxTime /\ now' = now + 1
      /\ UNCHANGED <<state, revision, assessmentVars, planVars, captureVars,
                     quality, recaptures, custodyVars, manifest, trail>>
  BY DEF Tick
<1>2. now' \in CreatedAt..MaxTime
  BY <1>1, Choices DEF TypeOK, CreatedAt
<1>3. TypeOK'
  BY <1>1, <1>2
     DEF TypeOK, assessmentVars, planVars, captureVars, custodyVars, States
<1>4. StageInv' /\ QualityInv' /\ CaptureInv' /\ PlanInv' /\ RecaptureInv' /\ DutyInv'
  BY <1>1, StageFrame, QualityFrame, CaptureFrame, PlanFrame, RecaptureFrame,
     DutyFrame DEF planVars, captureVars
<1>5. TrailInv'
  BY <1>1
     DEF TrailInv, AuditAcceptsLifecycle, Anchored, planVars, captureVars
<1>6. SealStaysVerified'
  BY <1>1 DEF SealStaysVerified, ManifestPayload, assessmentVars, planVars,
              captureVars, custodyVars
<1>7. QED
  BY <1>3, <1>4, <1>5, <1>6

LEMMA StutterStep ==
    ASSUME CaseInv, UNCHANGED vars
    PROVE  CaseInv'
<1> USE DEF CaseInv
<1>1. /\ now' = now
      /\ UNCHANGED <<state, revision, assessmentVars, planVars, captureVars,
                     quality, recaptures, custodyVars, manifest, trail>>
  BY DEF vars
<1>2. TypeOK'
  BY <1>1
     DEF TypeOK, assessmentVars, planVars, captureVars, custodyVars, States
<1>3. StageInv' /\ QualityInv' /\ CaptureInv' /\ PlanInv' /\ RecaptureInv' /\ DutyInv'
  BY <1>1, StageFrame, QualityFrame, CaptureFrame, PlanFrame, RecaptureFrame,
     DutyFrame DEF planVars, captureVars
<1>4. TrailInv'
  BY <1>1
     DEF TrailInv, AuditAcceptsLifecycle, Anchored, planVars, captureVars
<1>5. SealStaysVerified'
  BY <1>1 DEF SealStaysVerified, ManifestPayload, assessmentVars, planVars,
              captureVars, custodyVars
<1>6. QED
  BY <1>2, <1>3, <1>4, <1>5

LEMMA PayloadType ==
    ASSUME TypeOK, assessment # None, plan # None
    PROVE  [auditRevision |-> revision, anchor |-> trail,
            payload |-> ManifestPayload] \in PreservationManifest
<1>1. /\ assessment \in ConditionAssessment
      /\ assessmentHistory \in Seq(ConditionAssessment)
      /\ plan \in CapturePlan /\ planHistory \in Seq(CapturePlan)
      /\ captures \in SUBSET CaptureGeneration /\ quality \in Seq(QualityDecision)
      /\ recaptures \in Seq(RecaptureAction) /\ receipt \in IntakeReceipt \cup {None}
      /\ custody \in Seq(CustodyEvent) /\ custodian \in People \cup {None}
      /\ revision \in Nat /\ trail \in Seq(EventTypes)
  BY DEF TypeOK
<1>2. ManifestPayload \in
        ConditionAssessment \X Seq(ConditionAssessment)
        \X CapturePlan \X Seq(CapturePlan) \X (SUBSET CaptureGeneration)
        \X Seq(QualityDecision) \X Seq(RecaptureAction)
        \X (IntakeReceipt \cup {None}) \X Seq(CustodyEvent)
        \X (People \cup {None})
  BY <1>1 DEF ManifestPayload
<1>3. QED
  BY <1>1, <1>2 DEF PreservationManifest

LEMMA SealStep ==
    ASSUME CaseInv, Seal
    PROVE  CaseInv'
<1> USE DEF CaseInv
<1>1. /\ state = "QC_PASSED" /\ state' = "SEALED" /\ Accept("SEALED")
      /\ ValidChain(trail) /\ assessment # None /\ plan # None
      /\ manifest' = [auditRevision |-> revision, anchor |-> trail,
                      payload |-> ManifestPayload]
      /\ UNCHANGED <<assessmentVars, planVars, captureVars, quality, recaptures,
                     custody, custodian>>
  BY DEF Seal, EvidenceComplete
<1>2. "SEALED" \in EventTypes
  BY DEF EventTypes
<1>3. manifest' \in PreservationManifest /\ manifest' # None
  <2>1. manifest' \in PreservationManifest
    BY <1>1, PayloadType
  <2>2. QED
    BY <2>1, Absent
<1>4. TypeOK'
  BY <1>1, <1>2, <1>3, EventsFrame
     DEF TypeOK, assessmentVars, planVars, captureVars, States
<1>5. StageInv'
  BY <1>1 DEF StageInv, Concluded, Settled, EffectiveDecision, planVars, captureVars
<1>6. QualityInv' /\ CaptureInv' /\ PlanInv' /\ RecaptureInv' /\ DutyInv'
  BY <1>1, QualityFrame, CaptureFrame, PlanFrame, RecaptureKept, DutyFrame
     DEF planVars, captureVars
<1>7. Anchored({"QUALITY", "QUALITY_ADJUDICATED"}) /\ AuditAcceptsLifecycle
  BY <1>1 DEF TrailInv
<1>8. PICK j \in DOMAIN trail :
        /\ AnchoredAt(trail, j) /\ trail[j] \in {"QUALITY", "QUALITY_ADJUDICATED"}
  BY <1>7 DEF Anchored
<1>9. trail' = Append(trail, "SEALED") /\ receipt' = receipt
  BY <1>1, <1>2, EventsFrame
<1>10. AuditAcceptsLifecycle' /\ ValidTransition(trail', Len(trail'))
  <2>1. "SEALED" \in Successors(trail[j])
    BY <1>8, SuccessorsOf
  <2>2. QED
    BY <1>2, <1>7, <1>8, <1>9, <2>1, TrailGrows
<1>11. TrailInv'
  BY <1>1, <1>10 DEF TrailInv
<1>12. SealStaysVerified'
  <2>1. manifest'.payload = ManifestPayload'
    BY <1>1, <1>9
       DEF ManifestPayload, assessmentVars, planVars, captureVars
  <2>2. manifest'.auditRevision = revision' - 1
    BY <1>1, <1>2, EventsFrame
  <2>3. /\ trail \in Seq(EventTypes) /\ Len(trail) = revision
        /\ revision \in Nat /\ revision' - 1 = revision
    BY <1>1, <1>2, EventsFrame DEF TypeOK
  <2>4. manifest'.anchor = SubSeq(trail', 1, revision' - 1)
    <3>1. SubSeq(Append(trail, "SEALED"), 1, Len(trail)) = trail
      BY <2>3
    <3>2. QED
      BY <1>1, <1>9, <2>3, <3>1
  <2>5. ValidChain(trail')
    <3>1. \A i \in DOMAIN trail : ValidTransition(trail', i)
      BY <1>1, <1>2, <1>9, <2>3, TransitionOfPrefix DEF ValidChain
    <3>2. \A i \in DOMAIN trail' : i \in DOMAIN trail \/ i = Len(trail')
      BY <1>9, <2>3
    <3>3. QED
      BY <1>10, <3>1, <3>2 DEF ValidChain
  <2>6. QED
    BY <2>1, <2>2, <2>4, <2>5 DEF SealStaysVerified
<1>13. QED
  BY <1>4, <1>5, <1>6, <1>11, <1>12

-----------------------------------------------------------------------------
(***************************************************************************)
(* The invariant holds in every state.                                     *)
(***************************************************************************)
LEMMA ReceiptType ==
    ASSUME Init
    PROVE  /\ receipt \in IntakeReceipt \cup {None}
           /\ receipt # None => receipt.to \in People
<1>1. receipt \in Receipts \cup {None}
  BY DEF Init
<1>2. Staff["custodian"] \subseteq People /\ 0..CreatedAt \subseteq Nat
  BY Persons DEF Roles, CreatedAt
<1>3. \A r \in Receipts : r \in IntakeReceipt /\ r.to \in People
  BY <1>2 DEF Receipts, IntakeReceipt
<1>4. QED
  BY <1>1, <1>3

LEMMA CustodyType ==
    ASSUME Init
    PROVE  custody \in Seq(CustodyEvent) /\ custodian \in People \cup {None}
<1>1. custody = <<>> \/ \E e \in Transfers : custody = <<e>>
  BY DEF Init
<1>2. custodian = CustodianOf(custody, receipt)
  BY DEF Init
<1>3. CASE custody = <<>>
  BY <1>2, <1>3, ReceiptType DEF CustodianOf
<1>4. CASE \E e \in Transfers : custody = <<e>>
  <2>1. PICK e \in Transfers : custody = <<e>>
    BY <1>4
  <2>2. e \in CustodyEvent /\ e.to \in People
    BY TransferType
  <2>3. custody # <<>> /\ LastOf(custody) = e
    BY <2>1 DEF LastOf
  <2>4. custodian = e.to
    BY <1>2, <2>3 DEF CustodianOf
  <2>5. QED
    BY <2>1, <2>2, <2>4
<1>5. QED
  BY <1>1, <1>3, <1>4

LEMMA InitInv == Init => CaseInv
<1> SUFFICES ASSUME Init
             PROVE  CaseInv
  OBVIOUS
<1>1. /\ state = "REGISTERED" /\ revision = 1 /\ now = 1
      /\ assessment = None /\ assessmentHistory = <<>>
      /\ plan = None /\ planHistory = <<>>
      /\ captures = {} /\ generation = 0
      /\ quality = <<>> /\ recaptures = <<>> /\ manifest = None
      /\ trail = <<"REGISTERED">>
  BY DEF Init, CreatedAt
<1>2. /\ trail \in Seq(EventTypes) /\ Len(trail) = 1 /\ DOMAIN trail = {1}
      /\ trail[1] = "REGISTERED"
  BY <1>1 DEF EventTypes
<1>3. 1 \in 1..MaxRevision /\ 1 \in 1..MaxTime
  BY TimesAssumption
<1>4. TypeOK
  BY <1>1, <1>2, <1>3, ReceiptType, CustodyType DEF TypeOK, States, CreatedAt
<1>5. StageInv /\ QualityInv
  BY <1>1 DEF StageInv, QualityInv
<1>6. CaptureInv
  BY <1>1, FS_EmptySet DEF CaptureInv
<1>7. PlanInv /\ RecaptureInv /\ DutyInv
  BY <1>1 DEF PlanInv, RecaptureInv, DutyInv
<1>8. TrailInv
  <2>1. ValidTransition(trail, 1)
    BY <1>2 DEF ValidTransition
  <2>2. AuditAcceptsLifecycle
    BY <1>2, <2>1 DEF AuditAcceptsLifecycle
  <2>3. Anchored({"REGISTERED"})
    BY <1>2 DEF Anchored, AnchoredAt
  <2>4. QED
    BY <1>1, <2>2, <2>3 DEF TrailInv
<1>9. SealStaysVerified
  BY <1>1 DEF SealStaysVerified
<1>10. QED
  BY <1>4, <1>5, <1>6, <1>7, <1>8, <1>9 DEF CaseInv

(* The requests for captures are for tasks of the plan, of which there are *)
(* finitely many.                                                          *)
LEMMA NextCases ==
    ASSUME CaseInv, Next
    PROVE  \/ \E f \in Findings : Assess(f) \/ CorrectAssessment(f)
           \/ \E p \in PlanRequests : ApprovePlan(p)
           \/ \E p \in PlanRequests, t \in {"PLAN_REVISED", "PLAN_REAPPROVED"} :
                RevisePlan(p, t)
           \/ ReleasePlanReservation
           \/ \E items : Captured(items) /\ Capture(items)
           \/ \E person \in Staff["reviewer"], failures \in SUBSET Categories,
                 listened \in Listening : DecideQuality(person, failures, listened)
           \/ \E person \in Staff["reviewer"], d \in {"PASS", "FAIL"} :
                Countersign(person, d) \/ Adjudicate(person, d)
           \/ \E a \in AuthorizationRequests :
                AuthorizeRecapture(a) \/ RenewRecapture(a)
           \/ \E person \in Staff["authorizer"] : RevokeRecapture(person)
           \/ \E e \in Transfers : AppendCustodyTransfer(e)
           \/ Seal
           \/ Tick
<1>1. ASSUME state = "READY_FOR_CAPTURE", NEW t \in plan.tasks, NEW r \in Recordings,
             AddCapture(CaptureOf(t, r))
      PROVE  \E items : Captured(items) /\ Capture(items)
  <2>1. Captured({CaptureOf(t, r)})
    <3>1. /\ CaptureOf(t, r).task \in plan.tasks
          /\ CaptureOf(t, r).splice \in BOOLEAN
          /\ CaptureOf(t, r).startedAt \in Nat /\ CaptureOf(t, r).endedAt \in Nat
          /\ CaptureOf(t, r).length \in Nat
      BY CapturedOf
    <3>2. QED
      BY <3>1, FS_Singleton DEF Captured
  <2>2. QED
    BY <1>1, <2>1 DEF AddCapture
<1>2. ASSUME state = "READY_FOR_CAPTURE", NEW tasks \in (SUBSET plan.tasks) \ {{}},
             NEW r \in [tasks -> Recordings],
             AddCaptureGroup({CaptureOf(t, r[t]) : t \in tasks})
      PROVE  \E items : Captured(items) /\ Capture(items)
  <2>1. plan \in CapturePlan
    BY <1>2 DEF CaseInv, TypeOK
  <2>2. IsFiniteSet(plan.tasks)
    BY <2>1, TasksAssumption DEF CapturePlan
  <2>3. tasks \in SUBSET plan.tasks /\ tasks # {}
    OBVIOUS
  <2>4. IsFiniteSet(tasks)
    BY <2>2, <2>3, FS_Subset
  <2>5. Captured({CaptureOf(t, r[t]) : t \in tasks})
    BY <2>3, <2>4, CapturedItems
  <2>6. QED
    BY <1>2, <2>5 DEF AddCaptureGroup
<1>3. QED
  BY <1>1, <1>2 DEF Next

LEMMA NextStep ==
    ASSUME CaseInv, [Next]_vars
    PROVE  CaseInv'
<1>1. CASE \E f \in Findings : Assess(f) \/ CorrectAssessment(f)
  BY <1>1, AssessStep, CorrectAssessmentStep
<1>2. CASE \E p \in PlanRequests : ApprovePlan(p)
  BY <1>2, ApprovePlanStep
<1>3. CASE \E p \in PlanRequests, t \in {"PLAN_REVISED", "PLAN_REAPPROVED"} :
             RevisePlan(p, t)
  BY <1>3, RevisePlanStep
<1>4. CASE ReleasePlanReservation
  BY <1>4, ReleaseStep
<1>5. CASE \E items : Captured(items) /\ Capture(items)
  BY <1>5, CaptureStep
<1>6. CASE \E person \in Staff["reviewer"], failures \in SUBSET Categories,
          listened \in Listening : DecideQuality(person, failures, listened)
  BY <1>6, DecideQualitySteps, DecidesStep
<1>7. CASE \E person \in Staff["reviewer"], d \in {"PASS", "FAIL"} :
             Countersign(person, d) \/ Adjudicate(person, d)
  BY <1>7, CountersignSteps, AdjudicateSteps, DecidesStep
<1>8. CASE \E a \in AuthorizationRequests :
             AuthorizeRecapture(a) \/ RenewRecapture(a)
  BY <1>8, AuthorizeSteps, RenewSteps, RecordsStep
<1>9. CASE \E person \in Staff["authorizer"] : RevokeRecapture(person)
  BY <1>9, RevokeSteps, RecordsStep
<1>10. CASE \E e \in Transfers : AppendCustodyTransfer(e)
  BY <1>10, TransferStep
<1>11. CASE Seal
  BY <1>11, SealStep
<1>12. CASE Tick
  BY <1>12, TickStep
<1>13. CASE UNCHANGED vars
  BY <1>13, StutterStep
<1>14. CASE Next
  BY <1>14, <1>1, <1>2, <1>3, <1>4, <1>5, <1>6, <1>7, <1>8, <1>9, <1>10, <1>11,
     <1>12, NextCases
<1>15. QED
  BY <1>13, <1>14

(* Whoever acts and in whatever order, the case holds the evidence, the    *)
(* authorizations and the audit its state calls for.                       *)
THEOREM CaseInvariant == Spec => []CaseInv
<1>1. Init => CaseInv
  BY InitInv
<1>2. CaseInv /\ [Next]_vars => CaseInv'
  BY NextStep
<1>3. QED
  BY <1>1, <1>2, PTL DEF Spec

(* The records of a case are well formed in every state, and each accepted *)
(* request is one event of its audit.                                      *)
THEOREM LifecycleTypes == Spec => []TypeOK
<1>1. CaseInv => TypeOK
  BY DEF CaseInv
<1>2. QED
  BY <1>1, CaseInvariant, PTL

(* VerifyManifest: no request the code accepts on a sealed case changes    *)
(* what its manifest holds or where it is anchored.                        *)
THEOREM SealsStayVerified == Spec => []SealStaysVerified
<1>1. CaseInv => SealStaysVerified
  BY DEF CaseInv
<1>2. QED
  BY <1>1, CaseInvariant, PTL

(* The audit's table of transitions accepts every order of requests the    *)
(* domain accepts, but for an authorization that follows a revocation.     *)
THEOREM AuditFollowsLifecycle == Spec => []AuditAcceptsLifecycle
<1>1. CaseInv => AuditAcceptsLifecycle
  BY DEF CaseInv, TrailInv
<1>2. QED
  BY <1>1, CaseInvariant, PTL

(* AddCapture: captures keep to the plan, the validity and the window they *)
(* were made in, and no window is used after it was released or replaced.  *)
THEOREM CapturesKeepToPlan == Spec => []CapturesFollowPlan
<1>1. ASSUME CaseInv
      PROVE  CapturesFollowPlan
  <2>1. /\ plan # None => plan = LastOf(planHistory)
        /\ \A i \in DOMAIN planHistory : VersionOK(planHistory, plan, i)
        /\ \A x \in captures :
             /\ x.plan = plan.revision /\ x.task \in plan.tasks /\ WithinPlan(x)
             /\ plan.window # None => plan.reservation = "CONSUMED"
    BY <1>1 DEF CaseInv, PlanInv
  <2>2. QED
    BY <2>1 DEF CapturesFollowPlan, VersionOK
<1>2. QED
  BY <1>1, CaseInvariant, PTL

-----------------------------------------------------------------------------
(***************************************************************************)
(* What the invariant says about the evidence.                             *)
(***************************************************************************)
LEMMA DecisionOf ==
    ASSUME CaseInv, NEW q \in Members(quality)
    PROVE  /\ q.generation \in DOMAIN quality /\ q = quality[q.generation]
           /\ q \in QualityDecision
<1>1. PICK g \in DOMAIN quality : q = quality[g]
  BY DEF Members
<1>2. q.generation = g
  BY <1>1 DEF CaseInv, QualityInv
<1>3. q \in QualityDecision
  BY <1>1 DEF CaseInv, TypeOK
<1>4. QED
  BY <1>1, <1>2, <1>3

LEMMA DecisionsOf ==
    ASSUME CaseInv, NEW g, NEW decision, Concluded(g, decision)
    PROVE  /\ quality[g] \in Members(quality) /\ quality[g].generation = g
           /\ Settled(quality[g]) /\ EffectiveDecision(quality[g]) = decision
           /\ {q \in Members(quality) : q.generation = g} = {quality[g]}
<1>1. /\ g \in DOMAIN quality /\ Settled(quality[g])
      /\ EffectiveDecision(quality[g]) = decision
  BY DEF Concluded
<1>2. quality[g].generation = g
  BY <1>1 DEF CaseInv, QualityInv
<1>3. quality[g] \in Members(quality)
  BY <1>1 DEF Members
<1>4. \A q \in Members(quality) : q.generation = g => q = quality[g]
  BY DecisionOf
<1>5. QED
  BY <1>1, <1>2, <1>3, <1>4

(* Of one generation there is one last record at most.                     *)
LEMMA OneActive ==
    ASSUME TypeOK, NEW gen, NEW i \in ActiveAuthorization(gen),
           NEW j \in ActiveAuthorization(gen)
    PROVE  /\ i = j /\ i \in DOMAIN recaptures
           /\ recaptures[i].generation = gen /\ recaptures[i].action # "revoke"
<1>1. /\ i \in DOMAIN recaptures /\ j \in DOMAIN recaptures
      /\ recaptures[i].generation = gen /\ recaptures[j].generation = gen
      /\ recaptures[i].action # "revoke" /\ ~(j > i) /\ ~(i > j)
  BY DEF ActiveAuthorization
<1>2. i \in Nat /\ j \in Nat
  BY <1>1 DEF TypeOK
<1>3. QED
  BY <1>1, <1>2

(* DecideQuality, Countersign, Adjudicate, AuthorizeRecapture: every       *)
(* generation but the current one was decided once and failed, and the     *)
(* state of the case tells the decision and the authorization it waits     *)
(* for.                                                                    *)
THEOREM StatesMatchEvidence == Spec => []StateMatchesEvidence
<1>1. ASSUME CaseInv
      PROVE  StateMatchesEvidence
  <2>1. generation \in Nat /\ quality \in Seq(QualityDecision)
    BY <1>1 DEF CaseInv, TypeOK
  <2>2. ASSUME NEW g \in 1..(generation - 1)
        PROVE  LET decisions == {q \in Members(quality) : q.generation = g}
               IN  /\ Cardinality(decisions) = 1
                   /\ \A q \in decisions :
                        Settled(q) /\ EffectiveDecision(q) = "FAIL"
    <3>1. Concluded(g, "FAIL")
      BY <1>1 DEF CaseInv, QualityInv
    <3>2. Cardinality({quality[g]}) = 1
      BY FS_Singleton
    <3>3. /\ {q \in Members(quality) : q.generation = g} = {quality[g]}
          /\ Settled(quality[g]) /\ EffectiveDecision(quality[g]) = "FAIL"
      BY <1>1, <3>1, DecisionsOf
    <3>4. QED
      BY <3>2, <3>3
  <2>3. \A g \in 1..generation : \E x \in captures : x.generation = g
    BY <1>1 DEF CaseInv, CaptureInv
  <2>4. state \in {"QC_PASSED", "SEALED"} => LastGenerationPassed
    <3>1. state \in {"QC_PASSED", "SEALED"} => Concluded(generation, "PASS")
      BY <1>1 DEF CaseInv, StageInv
    <3>2. QED
      BY <1>1, <3>1, DecisionsOf DEF LastGenerationPassed
  <2>5. ASSUME state = "RECAPTURE_REQUIRED"
        PROVE  /\ Settled(LastOf(quality))
               /\ LastOf(quality).generation = generation
               /\ EffectiveDecision(LastOf(quality)) = "FAIL"
               /\ ActiveAuthorization(generation + 1) = {}
    <3>1. Len(quality) = generation /\ Concluded(generation, "FAIL")
      BY <1>1, <2>5 DEF CaseInv, StageInv
    <3>2. ActiveAuthorization(generation + 1) = {}
      BY <1>1, <2>5 DEF CaseInv, RecaptureInv
    <3>3. LastOf(quality) = quality[generation]
      BY <3>1 DEF LastOf
    <3>4. QED
      BY <1>1, <3>1, <3>2, <3>3, DecisionsOf
  <2>6. ASSUME state = "READY_FOR_CAPTURE", generation > 0
        PROVE  \E i \in ActiveAuthorization(generation + 1) :
                 recaptures[i].status = "ACTIVE"
    <3>1. PICK i : i \in ActiveAuthorization(generation + 1)
      BY <1>1, <2>1, <2>6 DEF CaseInv, RecaptureInv
    <3>2. /\ i \in DOMAIN recaptures /\ recaptures[i].generation = generation + 1
          /\ recaptures[i].action # "revoke" /\ ActionOK(i)
      BY <1>1, <3>1, OneActive DEF CaseInv, RecaptureInv
    <3>3. ~(recaptures[i].generation =< generation)
      BY <2>1, <3>2
    <3>4. recaptures[i].status = "ACTIVE"
      BY <3>2, <3>3 DEF ActionOK
    <3>5. QED
      BY <3>1, <3>4
  <2>7. QED
    BY <2>2, <2>3, <2>4, <2>5, <2>6 DEF StateMatchesEvidence
<1>2. QED
  BY <1>1, CaseInvariant, PTL

(* consumeAuthorization: an authorization pays for one generation, the     *)
(* next, and every recapture was paid for while its authorization stood.   *)
THEOREM AuthorizationsSpentOnce == Spec => []AuthorizationSpentOnce
<1>1. ASSUME CaseInv
      PROVE  AuthorizationSpentOnce
  <2>1. \A i \in DOMAIN recaptures :
          recaptures[i].consumedBy # 0 =>
            /\ recaptures[i].consumedBy = recaptures[i].generation
            /\ recaptures[i].status = "CONSUMED"
            /\ recaptures[i].generation \in 2..(generation + 1)
            /\ recaptures[i].generation =< generation
            /\ i \in ActiveAuthorization(recaptures[i].generation)
    BY <1>1 DEF CaseInv, RecaptureInv, ActionOK
  <2>2. ASSUME NEW x \in captures, x.generation > 1
        PROVE  \E i \in ActiveAuthorization(x.generation) :
                 /\ recaptures[i].consumedBy = x.generation
                 /\ recaptures[i].version = x.version
                 /\ recaptures[i].authorizedAt =< x.startedAt
                 /\ x.startedAt =< recaptures[i].expiresAt
                 /\ \A j \in DOMAIN recaptures :
                      recaptures[j].consumedBy = x.generation => j = i
    <3>1. PICK i \in ActiveAuthorization(x.generation) : SpentFor(x, i)
      BY <1>1, <2>2 DEF CaseInv, RecaptureInv
    <3>2. x.generation # 0
      BY <1>1, <2>2 DEF CaseInv, TypeOK, CaptureGeneration
    <3>3. ASSUME NEW j \in DOMAIN recaptures,
                 recaptures[j].consumedBy = x.generation
          PROVE  j = i
      <4>1. j \in ActiveAuthorization(x.generation)
        BY <2>1, <3>2, <3>3
      <4>2. QED
        BY <1>1, <4>1, OneActive DEF CaseInv
    <3>4. QED
      BY <3>1, <3>3 DEF SpentFor
  <2>3. ASSUME NEW i \in DOMAIN recaptures, recaptures[i].consumedBy # 0
        PROVE  /\ recaptures[i].status = "CONSUMED"
               /\ \E x \in captures : x.generation = recaptures[i].consumedBy
    <3>1. generation \in Nat
      BY <1>1 DEF CaseInv, TypeOK
    <3>2. recaptures[i].generation \in 1..generation
      <4>1. /\ recaptures[i].generation \in 2..(generation + 1)
            /\ recaptures[i].generation =< generation
        BY <2>1, <2>3
      <4> DEFINE g == recaptures[i].generation
      <4> HIDE DEF g
      <4>2. QED
        BY <3>1, <4>1
    <3>3. QED
      BY <1>1, <2>1, <2>3, <3>2 DEF CaseInv, CaptureInv
  <2>4. QED
    BY <2>2, <2>3 DEF AuthorizationSpentOnce
<1>2. QED
  BY <1>1, CaseInvariant, PTL

(* ApprovePlan, Countersign, Adjudicate, AuthorizeRecapture: nobody judges *)
(* his own work, whatever was renewed, revoked or captured since.          *)
THEOREM DutiesStaySeparated == Spec => []DutiesSeparated
<1>1. ASSUME CaseInv
      PROVE  DutiesSeparated
  <2>1. \A p \in Members(planHistory) : p.operator # p.approver
    BY <1>1 DEF CaseInv, PlanInv, VersionOK, Members
  <2>2. ASSUME NEW q \in Members(quality)
        PROVE  /\ q.countersigner # None =>
                    /\ q.countersigner \notin {q.reviewer, plan.operator}
                    /\ \A a \in Members(recaptures) :
                         a.generation =< q.generation => a.owner # q.countersigner
               /\ q.adjudication # None =>
                    q.adjudication.by \notin
                      {q.reviewer, q.countersigner, plan.operator}
    <3>1. q.generation \in DOMAIN quality /\ q = quality[q.generation]
      BY <1>1, DecisionOf
    <3>2. OpinionDuties(q.generation)
      BY <1>1, <3>1 DEF CaseInv, DutyInv
    <3>3. QED
      BY <3>1, <3>2 DEF OpinionDuties, Members
  <2>3. ASSUME NEW a \in Members(recaptures), a.action # "revoke",
               NEW q \in Members(quality), q.generation = a.generation - 1
        PROVE  /\ a.by # q.reviewer
               /\ a.performer \notin {plan.operator, q.reviewer, a.by}
    <3>1. q = quality[a.generation - 1]
      BY <1>1, <2>3, DecisionOf
    <3>2. PICK i \in DOMAIN recaptures : a = recaptures[i]
      BY DEF Members
    <3>3. ActionDuties(i)
      BY <1>1 DEF CaseInv, DutyInv
    <3>4. QED
      BY <2>3, <3>1, <3>2, <3>3 DEF ActionDuties
  <2>4. QED
    BY <2>1, <2>2, <2>3 DEF DutiesSeparated
<1>2. QED
  BY <1>1, CaseInvariant, PTL

(* EscalationRequirement: when two generations in a row fail for the same  *)
(* reason, no other is captured without an officer who is not the operator,*)
(* gave no opinion on the later of the two, and authorized none of the     *)
(* recaptures so far.                                                      *)
THEOREM RepeatedFailuresEscalate == Spec => []RepeatedFailureEscalates
<1>1. ASSUME CaseInv
      PROVE  RepeatedFailureEscalates
  <2>1. SUFFICES ASSUME NEW x \in captures, x.generation > 2,
                        NEW p \in Members(quality), NEW q \in Members(quality),
                        p.generation = x.generation - 2,
                        q.generation = x.generation - 1,
                        EffectiveFailures(p) \cap EffectiveFailures(q) # {}
                 PROVE  \E i \in DOMAIN recaptures :
                          LET a == recaptures[i]
                              officer == a.escalation.officer
                          IN  /\ a.consumedBy = x.generation /\ a.escalation # None
                              /\ officer \notin
                                   {plan.operator, q.reviewer, q.countersigner}
                              /\ q.adjudication # None =>
                                   officer # q.adjudication.by
                              /\ \A j \in 1..i :
                                   recaptures[j].action # "revoke" =>
                                     officer # recaptures[j].by
    BY DEF RepeatedFailureEscalates
  <2>2. x.generation \in Nat
    BY <1>1 DEF CaseInv, TypeOK, CaptureGeneration
  <2> DEFINE g == x.generation - 1
  <2>3. x.generation > 1 /\ g > 1 /\ g - 1 = x.generation - 2
    BY <2>1, <2>2
  <2>4. PICK i \in ActiveAuthorization(x.generation) : SpentFor(x, i)
    BY <1>1, <2>3 DEF CaseInv, RecaptureInv
  <2>5. /\ i \in DOMAIN recaptures /\ recaptures[i].generation = x.generation
        /\ recaptures[i].action # "revoke" /\ ActionDuties(i)
    BY <1>1, OneActive DEF CaseInv, DutyInv
  <2>6. p = quality[g - 1] /\ q = quality[g]
    BY <1>1, <2>1, <2>3, DecisionOf
  <2>7. EffectiveFailures(quality[g - 1]) \cap EffectiveFailures(quality[g]) # {}
    BY <2>1, <2>6
  <2>8. /\ recaptures[i].escalation # None
        /\ recaptures[i].escalation.officer \notin
             {plan.operator, quality[g].reviewer, quality[g].countersigner}
        /\ quality[g].adjudication # None =>
             recaptures[i].escalation.officer # quality[g].adjudication.by
        /\ \A j \in 1..i : recaptures[j].action # "revoke" =>
             recaptures[i].escalation.officer # recaptures[j].by
    BY <2>3, <2>5, <2>7 DEF ActionDuties
  <2>9. QED
    BY <2>4, <2>5, <2>6, <2>8 DEF SpentFor
<1>2. QED
  BY <1>1, CaseInvariant, PTL

(* Each capture is backed by the plan, by a decision and, after a failure, *)
(* by the authorization that was spent for it.                             *)
LEMMA CapturesIndexed ==
    ASSUME CaseInv, state = "QC_PASSED", NEW x \in captures
    PROVE  Indexed(x)
<1>1. /\ generation \in Nat /\ generation >= 1 /\ x.generation \in Nat
      /\ x.generation \in 1..generation /\ plan # None
  BY DEF CaseInv, TypeOK, StageInv, CaptureInv, CaptureGeneration
<1>2. \E p \in Members(planHistory) : p.revision = x.plan /\ x.task \in p.tasks
  <2>1. /\ plan = planHistory[Len(planHistory)] /\ planHistory # <<>>
        /\ x.plan = plan.revision /\ x.task \in plan.tasks
    BY <1>1 DEF CaseInv, PlanInv, LastOf
  <2>2. Len(planHistory) \in DOMAIN planHistory
    BY <2>1 DEF CaseInv, TypeOK
  <2>3. QED
    BY <2>1, <2>2 DEF Members
<1>3. \E q \in Members(quality) : q.generation = x.generation /\ Settled(q)
  <2>1. CASE x.generation = generation
    <3>1. Concluded(x.generation, "PASS")
      BY <2>1 DEF CaseInv, StageInv
    <3>2. QED
      BY <3>1, DecisionsOf
  <2>2. CASE x.generation # generation
    <3>1. x.generation \in 1..(generation - 1)
      BY <1>1, <2>2
    <3>2. Concluded(x.generation, "FAIL")
      BY <3>1 DEF CaseInv, QualityInv
    <3>3. QED
      BY <3>2, DecisionsOf
  <2>3. QED
    BY <2>1, <2>2
<1>4. ASSUME x.generation > 1
      PROVE  /\ \E q \in Members(quality) : /\ q.generation = x.generation - 1
                                            /\ EffectiveDecision(q) = "FAIL"
             /\ \E i \in ActiveAuthorization(x.generation) :
                  /\ recaptures[i].consumedBy # 0
                  /\ recaptures[i].version = x.version
  <2>1. x.generation - 1 \in 1..(generation - 1)
    BY <1>1, <1>4
  <2>2. Concluded(x.generation - 1, "FAIL")
    BY <2>1 DEF CaseInv, QualityInv
  <2>3. PICK i \in ActiveAuthorization(x.generation) : SpentFor(x, i)
    BY <1>4 DEF CaseInv, RecaptureInv
  <2>4. recaptures[i].consumedBy # 0 /\ recaptures[i].version = x.version
    BY <1>1, <2>3 DEF SpentFor
  <2>5. QED
    BY <2>2, <2>3, <2>4, DecisionsOf
<1>5. QED
  BY <1>2, <1>3, <1>4 DEF Indexed

-----------------------------------------------------------------------------
(***************************************************************************)
(* What the seal computes again.                                           *)
(***************************************************************************)

(* Controls are listed for an assessment that found risks, and stored as   *)
(* listed.                                                                 *)
ControlsInv ==
    \A i \in DOMAIN planHistory :
        LET p == planHistory[i]
        IN  /\ p.controls = Stored(p.fingerprint)
            /\ p.fingerprint = "listed" => assessment.risk # "none"

(* The captures of a generation are of different tasks, and its decision   *)
(* has the length of the last.                                             *)
LengthsInv ==
    /\ \A x, y \in captures :
         x.generation = y.generation /\ x.task = y.task => x = y
    /\ \A g \in DOMAIN quality :
         \E y \in LastItem(g) : y.length = quality[g].length

LEMMA ControlsStep ==
    ASSUME CaseInv, ControlsInv, [Next]_vars
    PROVE  ControlsInv'
<1>1. planHistory \in Seq(CapturePlan)
  BY DEF CaseInv, TypeOK
<1>2. ASSUME NEW n, NEW status \in {"RELEASED", "CONSUMED"},
             planHistory' = WithReservation(planHistory, n, status),
             assessment' = assessment
      PROVE  ControlsInv'
  <2>1. /\ DOMAIN planHistory' = DOMAIN planHistory
        /\ \A i \in DOMAIN planHistory :
             /\ planHistory'[i].fingerprint = planHistory[i].fingerprint
             /\ planHistory'[i].controls = planHistory[i].controls
    BY <1>1, <1>2, ReservationOf
  <2>2. QED
    BY <1>2, <2>1 DEF ControlsInv
<1>3. ASSUME planHistory' = planHistory, assessment' = assessment
      PROVE  ControlsInv'
  BY <1>3 DEF ControlsInv
<1>4. CASE \E f \in Findings : Assess(f) \/ CorrectAssessment(f)
  <2>1. state \in {"REGISTERED", "ASSESSED"} /\ planHistory' = planHistory
    BY <1>4 DEF Assess, CorrectAssessment, planVars
  <2>2. planHistory = <<>>
    BY <2>1 DEF CaseInv, TypeOK, PlanInv
  <2>3. QED
    BY <2>1, <2>2 DEF ControlsInv
<1>5. ASSUME NEW p \in PlanRequests, ApprovePlan(p)
      PROVE  ControlsInv'
  <2> DEFINE q == Numbered(p, revision + 1)
  <2>1. /\ state = "ASSESSED" /\ planHistory' = Append(planHistory, q)
        /\ assessment' = assessment
    BY <1>5 DEF ApprovePlan, assessmentVars
  <2>2. planHistory = <<>> /\ revision + 1 \in Nat
    BY <2>1 DEF CaseInv, TypeOK, PlanInv
  <2>3. /\ q.controls = Stored(q.fingerprint)
        /\ q.fingerprint = "listed" => assessment.risk # "none"
    BY <2>2, NumberedFacts DEF CaseInv
  <2> HIDE DEF q
  <2>4. planHistory' = <<q>>
    BY <2>1, <2>2
  <2>5. DOMAIN planHistory' = {1} /\ planHistory'[1] = q
    BY <2>4
  <2>6. QED
    BY <2>1, <2>3, <2>5 DEF ControlsInv
<1>6. ASSUME NEW p \in PlanRequests,
             NEW t \in {"PLAN_REVISED", "PLAN_REAPPROVED"}, RevisePlan(p, t)
      PROVE  ControlsInv'
  <2> DEFINE q == Numbered(p, plan.revision + 1)
             h == IF plan.window = None THEN planHistory
                  ELSE WithReservation(planHistory, plan.revision, "RELEASED")
  <2>1. /\ state = "READY_FOR_CAPTURE" /\ planHistory' = Append(h, q)
        /\ assessment' = assessment
    BY <1>6 DEF RevisePlan, assessmentVars
  <2>2. plan \in CapturePlan /\ plan.revision + 1 \in Nat
    BY <2>1 DEF CaseInv, TypeOK, CapturePlan
  <2>3. /\ q \in CapturePlan /\ q.controls = Stored(q.fingerprint)
        /\ q.fingerprint = "listed" => assessment.risk # "none"
    BY <2>2, NumberedFacts DEF CaseInv
  <2>4. /\ h \in Seq(CapturePlan) /\ Len(h) = Len(planHistory)
        /\ \A i \in DOMAIN planHistory :
             /\ h[i].fingerprint = planHistory[i].fingerprint
             /\ h[i].controls = planHistory[i].controls
    <3>1. CASE plan.window = None
      BY <1>1, <3>1
    <3>2. CASE plan.window # None
      BY <1>1, <3>2, ReservationOf
    <3>3. QED
      BY <3>1, <3>2
  <2> HIDE DEF q, h
  <2>5. /\ DOMAIN planHistory' = 1..(Len(h) + 1) /\ planHistory'[Len(h) + 1] = q
        /\ \A i \in 1..Len(h) : i \in DOMAIN planHistory /\ planHistory'[i] = h[i]
    BY <1>1, <2>1, <2>3, <2>4
  <2>6. \A i \in DOMAIN planHistory' : i \in 1..Len(h) \/ i = Len(h) + 1
    BY <2>4, <2>5
  <2>7. QED
    BY <2>1, <2>3, <2>4, <2>5, <2>6 DEF ControlsInv
<1>7. CASE ReleasePlanReservation
  BY <1>2, <1>7 DEF ReleasePlanReservation, assessmentVars
<1>8. ASSUME NEW items, Capture(items)
      PROVE  ControlsInv'
  BY <1>2, <1>3, <1>8 DEF Capture, assessmentVars, planVars
<1>9. CASE \E person \in Staff["reviewer"], failures \in SUBSET Categories,
          listened \in Listening : DecideQuality(person, failures, listened)
  BY <1>3, <1>9 DEF DecideQuality, assessmentVars, planVars
<1>10. CASE \E person \in Staff["reviewer"], d \in {"PASS", "FAIL"} :
              Countersign(person, d) \/ Adjudicate(person, d)
  BY <1>3, <1>10 DEF Countersign, Adjudicate, assessmentVars, planVars
<1>11. CASE \E a \in AuthorizationRequests :
              AuthorizeRecapture(a) \/ RenewRecapture(a)
  <2>1. \E r \in RecaptureAction, t \in EventTypes : Records(r, t)
    BY <1>11, AuthorizeSteps, RenewSteps DEF EventTypes
  <2>2. QED
    BY <1>3, <2>1 DEF Records, assessmentVars, planVars
<1>12. CASE \E person \in Staff["authorizer"] : RevokeRecapture(person)
  BY <1>3, <1>12 DEF RevokeRecapture, assessmentVars, planVars
<1>13. CASE \/ \E e \in Transfers : AppendCustodyTransfer(e)
            \/ Seal \/ Tick \/ UNCHANGED vars
  BY <1>3, <1>13
     DEF AppendCustodyTransfer, Seal, Tick, vars, assessmentVars, planVars
<1>14. CASE Next
  BY <1>14, <1>4, <1>5, <1>6, <1>7, <1>8, <1>9, <1>10, <1>11, <1>12, <1>13,
     NextCases
<1>15. QED
  BY <1>13, <1>14

LEMMA LengthsKept ==
    ASSUME LengthsInv, captures' = captures, quality' = quality
    PROVE  LengthsInv'
BY DEF LengthsInv, LastItem, Items

(* A new generation leaves the items of the ones before it alone.          *)
LEMMA LengthsCaptured ==
    ASSUME CaseInv, LengthsInv, NEW items, Captured(items), Capture(items)
    PROVE  LengthsInv'
<1>1. /\ generation \in Nat /\ \A x \in items : WithinPlan(x)
      /\ state = "READY_FOR_CAPTURE" /\ quality' = quality
      /\ \/ /\ generation = 0 /\ captures' = captures \cup Generation(items, 0)
         \/ generation >= 1 /\ \E i \in DOMAIN recaptures : Spends(items, i)
  BY CaptureSteps
<1>2. PICK v \in Nat : captures' = captures \cup Generation(items, v)
  <2>1. CASE generation = 0 /\ captures' = captures \cup Generation(items, 0)
    BY <2>1
  <2>2. CASE generation >= 1 /\ \E i \in DOMAIN recaptures : Spends(items, i)
    BY <2>2, SpendFacts DEF Spends
  <2>3. QED
    BY <1>1, <2>1, <2>2
<1> DEFINE new == Generation(items, v)
<1>3. /\ \A y \in new : y.generation = generation + 1
      /\ \A y, z \in new : y.task = z.task => y = z
  <2>1. plan \in CapturePlan
    BY CapturePlanSteps
  <2>2. QED
    BY <1>1, <2>1, GenerationFacts
<1> HIDE DEF new
<1>4. /\ captures' = captures \cup new
      /\ \A x \in captures : x.generation # generation + 1
      /\ \A g \in DOMAIN quality : g # generation + 1
  BY <1>1, <1>2 DEF new, CaseInv, CaptureInv, StageInv, TypeOK
<1>5. \A x, y \in captures' :
        x.generation = y.generation /\ x.task = y.task => x = y
  BY <1>3, <1>4 DEF LengthsInv
<1>6. \A g : g # generation + 1 => Items(g)' = Items(g)
  BY <1>3, <1>4 DEF Items
<1>7. \A g : g # generation + 1 => LastItem(g)' = LastItem(g)
  BY <1>6 DEF LastItem
<1>8. QED
  BY <1>1, <1>4, <1>5, <1>7 DEF LengthsInv

LEMMA LengthsDecided ==
    ASSUME CaseInv, LengthsInv, NEW q \in QualityDecision, NEW d, NEW t,
           Decides(q, d, t), \E y \in LastItem(generation) : y.length = q.length
    PROVE  LengthsInv'
<1>1. /\ generation \in Nat /\ Len(quality) \in {generation - 1, generation}
      /\ quality \in Seq(QualityDecision)
  BY DEF Decides, CaseInv, StageInv, TypeOK
<1>2. /\ captures' = captures /\ DOMAIN quality' = 1..generation
      /\ quality'[generation] = q
      /\ \A g \in 1..(generation - 1) :
           g \in DOMAIN quality /\ quality'[g] = quality[g]
  BY <1>1 DEF Decides, captureVars
<1>3. \A g : LastItem(g)' = LastItem(g)
  BY <1>2 DEF LastItem, Items
<1>4. \A g \in DOMAIN quality' : g \in 1..(generation - 1) \/ g = generation
  BY <1>1, <1>2
<1>5. \A g \in DOMAIN quality' :
        \E y \in LastItem(g)' : y.length = quality'[g].length
  BY <1>2, <1>3, <1>4 DEF LengthsInv
<1>6. QED
  BY <1>2, <1>5 DEF LengthsInv

LEMMA LengthsStep ==
    ASSUME CaseInv, LengthsInv, [Next]_vars
    PROVE  LengthsInv'
<1>1. CASE \E items : Captured(items) /\ Capture(items)
  BY <1>1, LengthsCaptured
<1>2. CASE \E person \in Staff["reviewer"], failures \in SUBSET Categories,
          listened \in Listening : DecideQuality(person, failures, listened)
  BY <1>2, DecideQualitySteps, LengthsDecided
<1>3. ASSUME NEW person \in Staff["reviewer"], NEW d \in {"PASS", "FAIL"},
             Countersign(person, d) \/ Adjudicate(person, d)
      PROVE  LengthsInv'
  <2>1. PICK q \in QualityDecision, t \in {"QUALITY", "QUALITY_ADJUDICATED"} :
          /\ Decides(q, d, t) /\ generation \in DOMAIN quality
          /\ q.length = quality[generation].length
    BY <1>3, CountersignSteps, AdjudicateSteps
  <2>2. \E y \in LastItem(generation) : y.length = q.length
    BY <2>1 DEF LengthsInv
  <2>3. QED
    BY <2>1, <2>2, LengthsDecided
<1>4. CASE \E a \in AuthorizationRequests :
             AuthorizeRecapture(a) \/ RenewRecapture(a)
  <2>1. \E r \in RecaptureAction, t \in EventTypes : Records(r, t)
    BY <1>4, AuthorizeSteps, RenewSteps DEF EventTypes
  <2>2. QED
    BY <2>1, LengthsKept DEF Records, captureVars
<1>5. CASE \/ \E f \in Findings : Assess(f) \/ CorrectAssessment(f)
           \/ \E p \in PlanRequests : ApprovePlan(p)
           \/ \E p \in PlanRequests, t \in {"PLAN_REVISED", "PLAN_REAPPROVED"} :
                RevisePlan(p, t)
  BY <1>5, LengthsKept
     DEF Assess, CorrectAssessment, ApprovePlan, RevisePlan, captureVars
<1>6. CASE \/ ReleasePlanReservation
           \/ \E person \in Staff["authorizer"] : RevokeRecapture(person)
           \/ \E e \in Transfers : AppendCustodyTransfer(e)
           \/ Seal \/ Tick \/ UNCHANGED vars
  BY <1>6, LengthsKept
     DEF ReleasePlanReservation, RevokeRecapture, AppendCustodyTransfer, Seal,
         Tick, vars, captureVars
<1>7. CASE Next
  BY <1>7, <1>1, <1>2, <1>3, <1>4, <1>5, <1>6, NextCases
<1>8. QED
  BY <1>6, <1>7

LEMMA RepeatInvariant == Spec => [](ControlsInv /\ LengthsInv)
<1>1. Init => ControlsInv /\ LengthsInv
  BY DEF Init, ControlsInv, LengthsInv
<1>2. /\ CaseInv /\ [Next]_vars /\ ControlsInv /\ LengthsInv
      => ControlsInv' /\ LengthsInv'
  BY ControlsStep, LengthsStep
<1>3. QED
  BY <1>1, <1>2, CaseInvariant, PTL DEF Spec

LEMMA FingerprintsRepeat ==
    ASSUME CaseInv, ControlsInv, NEW p \in Members(planHistory)
    PROVE  FingerprintRepeats(p) <=> ~Waived(p)
<1>1. /\ p \in CapturePlan /\ p.controls = Stored(p.fingerprint)
      /\ p.fingerprint = "listed" => assessment.risk # "none"
  BY DEF CaseInv, TypeOK, ControlsInv, Members
<1>2. p.fingerprint \in {"none", "empty", "listed"}
  BY <1>1 DEF CapturePlan
<1>3. CASE p.fingerprint = "none"
  BY <1>1, <1>3 DEF FingerprintRepeats, Waived, Stored
<1>4. CASE p.fingerprint = "empty"
  BY <1>1, <1>4 DEF FingerprintRepeats, Waived, Stored
<1>5. CASE p.fingerprint = "listed"
  BY <1>1, <1>5 DEF FingerprintRepeats, Waived, Stored, NormalControls
<1>6. QED
  BY <1>2, <1>3, <1>4, <1>5

(* A generation has one last capture, and its length is the decision's.    *)
LEMMA ReviewsRepeat ==
    ASSUME CaseInv, LengthsInv, NEW q \in Members(quality)
    PROVE  ReviewRepeats(q) <=> (q.listened => Even(q.generation))
<1>1. PICK g \in DOMAIN quality : q = quality[g]
  BY DEF Members
<1>2. q.generation = g
  BY <1>1 DEF CaseInv, QualityInv
<1>3. PICK last \in LastItem(g) : last.length = q.length
  BY <1>1 DEF LengthsInv
<1>4. \A y \in LastItem(g) : y = last
  <2>1. ASSUME NEW x \in Items(g)
        PROVE  x \in captures /\ x.generation = g /\ x.task \in Int
    <3>1. x \in captures /\ x.generation = g
      BY DEF Items
    <3>2. x.task \in UNION TaskSets
      BY <3>1 DEF CaseInv, TypeOK, CaptureGeneration
    <3>3. PICK tasks \in TaskSets : x.task \in tasks
      BY <3>2
    <3>4. IsFiniteSet(tasks) /\ tasks = 1..Cardinality(tasks)
      BY TasksAssumption
    <3>5. Cardinality(tasks) \in Nat
      BY <3>4, FS_CardinalityType
    <3>6. 1..Cardinality(tasks) \subseteq Int
      BY <3>5
    <3>7. QED
      BY <3>1, <3>3, <3>4, <3>6
  <2>2. ASSUME NEW y \in LastItem(g)
        PROVE  y = last
    <3>1. /\ y \in Items(g) /\ last \in Items(g)
          /\ y.task =< last.task /\ last.task =< y.task
      BY DEF LastItem
    <3>2. y.task = last.task
      BY <2>1, <3>1
    <3>3. QED
      BY <2>1, <3>1, <3>2 DEF LengthsInv
  <2>3. QED
    BY <2>2
<1>5. Even(g) <=> \A x \in FirstItem(g) : x.length = q.length
  BY <1>3, <1>4 DEF Even
<1>6. QED
  BY <1>2, <1>5 DEF ReviewRepeats

(* Seal, validTimeline, BuildGenerationEvidenceIndex: a case that has      *)
(* passed its review can be sealed, unless its ratios do not add up alike, *)
(* one of its plans waived controls, or somebody listened to a generation  *)
(* whose first and last captures differ in length; and then it cannot.     *)
THEOREM PassedCasesAreSealable == Spec => []PassedCaseIsSealable
<1>1. ASSUME CaseInv, ControlsInv, LengthsInv
      PROVE  PassedCaseIsSealable
  <2>1. SUFFICES ASSUME state = "QC_PASSED"
                 PROVE  EvidenceComplete <=>
                          /\ assessment.resums
                          /\ \A p \in Members(planHistory) : ~Waived(p)
                          /\ \A q \in Members(quality) :
                               q.listened => Even(q.generation)
    BY DEF PassedCaseIsSealable
  <2>2. /\ assessment # None /\ plan # None /\ generation >= 1
        /\ planHistory \in Seq(CapturePlan)
    BY <1>1, <2>1 DEF CaseInv, TypeOK, StageInv
  <2>3. planHistory # <<>> /\ SameFields(LastOf(planHistory), plan)
    BY <1>1, <2>2 DEF CaseInv, PlanInv, SameFields
  <2>4. ASSUME NEW i \in 2..Len(planHistory)
        PROVE  planHistory[i].revision = planHistory[i - 1].revision + 1
    <3>1. /\ i \in DOMAIN planHistory /\ i - 1 \in DOMAIN planHistory
          /\ Len(planHistory) \in Nat /\ i \in Nat
      BY <2>2
    <3>2. plan.revision \in Nat
      BY <1>1, <2>2 DEF CaseInv, TypeOK, CapturePlan
    <3>3. /\ VersionOK(planHistory, plan, i)
          /\ VersionOK(planHistory, plan, i - 1)
      BY <1>1, <3>1 DEF CaseInv, PlanInv
    <3>4. /\ planHistory[i].revision = plan.revision - (Len(planHistory) - i)
          /\ planHistory[i - 1].revision =
               plan.revision - (Len(planHistory) - (i - 1))
      BY <3>3 DEF VersionOK
    <3>5. QED
      BY <3>1, <3>2, <3>4
  <2>5. /\ Cardinality(captures) >= generation
        /\ \A x \in captures : x.generation \in 1..generation /\ Indexed(x)
    BY <1>1, <2>1, CapturesIndexed DEF CaseInv, CaptureInv
  <2>6. LastGenerationPassed
    <3>1. Concluded(generation, "PASS")
      BY <1>1, <2>1 DEF CaseInv, StageInv
    <3>2. QED
      BY <1>1, <3>1, DecisionsOf DEF LastGenerationPassed
  <2>7. \A p \in Members(planHistory) : FingerprintRepeats(p) <=> ~Waived(p)
    BY <1>1, FingerprintsRepeat
  <2>8. \A q \in Members(quality) :
          ReviewRepeats(q) <=> (q.listened => Even(q.generation))
    BY <1>1, ReviewsRepeat
  <2>9. QED
    BY <2>2, <2>3, <2>4, <2>5, <2>6, <2>7, <2>8 DEF EvidenceComplete
<1>2. QED
  BY <1>1, CaseInvariant, RepeatInvariant, PTL

-----------------------------------------------------------------------------
(***************************************************************************)
(* What a step may change of the evidence.                                 *)
(***************************************************************************)
PlansGrow ==
    /\ Len(planHistory) =< Len(planHistory')
    /\ \A i \in DOMAIN planHistory : SameFields(planHistory'[i], planHistory[i])

OpenDecision(q, r) ==
    /\ ~Settled(q) /\ q.generation = generation
    /\ r.decision = q.decision /\ r.failures = q.failures
    /\ r.reviewer = q.reviewer /\ q.countersigner \in {None, r.countersigner}

QualityGrows ==
    /\ Len(quality) =< Len(quality')
    /\ \A i \in DOMAIN quality :
         \/ quality'[i] = quality[i]
         \/ OpenDecision(quality[i], quality'[i])

RecapturesGrow ==
    /\ Len(recaptures) =< Len(recaptures')
    /\ \A i \in DOMAIN recaptures :
         \/ recaptures'[i] = recaptures[i]
         \/ /\ recaptures[i].status = "ACTIVE"
            /\ recaptures'[i] = Consumed(recaptures[i], generation')

CustodyGrows == custody = SubSeq(custody', 1, Len(custody))

EvidenceGrows ==
    /\ captures \subseteq captures' /\ PlansGrow /\ QualityGrows /\ RecapturesGrow
    /\ CustodyGrows

LEMMA PlansKept ==
    ASSUME TypeOK, planHistory' = planHistory
    PROVE  PlansGrow
BY DEF TypeOK, PlansGrow, SameFields

LEMMA QualityKept ==
    ASSUME TypeOK, quality' = quality
    PROVE  QualityGrows
BY DEF TypeOK, QualityGrows

LEMMA RecapturesKept ==
    ASSUME TypeOK, recaptures' = recaptures
    PROVE  RecapturesGrow
BY DEF TypeOK, RecapturesGrow

LEMMA CustodyKept ==
    ASSUME TypeOK, custody' = custody
    PROVE  CustodyGrows
BY DEF TypeOK, CustodyGrows

LEMMA ApprovalGrows ==
    ASSUME CaseInv, NEW p \in PlanRequests, ApprovePlan(p)
    PROVE  EvidenceGrows
<1>1. /\ planHistory' = Append(planHistory, Numbered(p, revision + 1))
      /\ state = "ASSESSED"
      /\ UNCHANGED <<captureVars, quality, recaptures, custody>>
  BY DEF ApprovePlan
<1>2. planHistory = <<>>
  BY <1>1 DEF CaseInv, TypeOK, PlanInv
<1>3. PlansGrow
  BY <1>1, <1>2 DEF PlansGrow
<1>4. QED
  BY <1>1, <1>3, QualityKept, RecapturesKept, CustodyKept
     DEF CaseInv, EvidenceGrows, captureVars

LEMMA RevisionGrows ==
    ASSUME CaseInv, NEW p \in PlanRequests,
           NEW t \in {"PLAN_REVISED", "PLAN_REAPPROVED"}, RevisePlan(p, t)
    PROVE  EvidenceGrows
<1> DEFINE q == Numbered(p, plan.revision + 1)
           h == IF plan.window = None THEN planHistory
                ELSE WithReservation(planHistory, plan.revision, "RELEASED")
<1>1. /\ planHistory' = Append(h, q) /\ state = "READY_FOR_CAPTURE"
      /\ UNCHANGED <<captureVars, quality, recaptures, custody>>
  BY DEF RevisePlan
<1>2. /\ plan \in CapturePlan /\ planHistory \in Seq(CapturePlan)
      /\ plan.revision + 1 \in Nat
  BY <1>1 DEF CaseInv, TypeOK, CapturePlan
<1>3. q \in CapturePlan
  BY <1>2, NumberedFacts DEF CaseInv
<1>4. /\ h \in Seq(CapturePlan) /\ Len(h) = Len(planHistory)
      /\ \A i \in DOMAIN planHistory : SameFields(h[i], planHistory[i])
  <2>1. CASE plan.window = None
    BY <1>2, <2>1 DEF SameFields
  <2>2. CASE plan.window # None
    BY <1>2, <2>2, ReservationOf
  <2>3. QED
    BY <2>1, <2>2
<1> HIDE DEF h, q
<1>5. PlansGrow
  <2>1. /\ Len(planHistory') = Len(planHistory) + 1
        /\ \A i \in DOMAIN planHistory : planHistory'[i] = h[i]
    BY <1>1, <1>2, <1>3, <1>4
  <2>2. Len(planHistory) \in Nat
    BY <1>2
  <2>3. QED
    BY <1>4, <2>1, <2>2 DEF PlansGrow
<1>6. QED
  BY <1>1, <1>5, QualityKept, RecapturesKept, CustodyKept
     DEF CaseInv, EvidenceGrows, captureVars

LEMMA ReleaseGrows ==
    ASSUME CaseInv, ReleasePlanReservation
    PROVE  EvidenceGrows
<1>1. /\ state = "READY_FOR_CAPTURE"
      /\ planHistory' = WithReservation(planHistory, plan.revision, "RELEASED")
      /\ UNCHANGED <<captureVars, quality, recaptures, custody>>
  BY DEF ReleasePlanReservation
<1>2. planHistory \in Seq(CapturePlan) /\ Len(planHistory) \in Nat
  BY DEF CaseInv, TypeOK
<1>3. /\ Len(planHistory') = Len(planHistory)
      /\ \A i \in DOMAIN planHistory : SameFields(planHistory'[i], planHistory[i])
  BY <1>1, <1>2, ReservationOf
<1>4. PlansGrow
  BY <1>2, <1>3 DEF PlansGrow
<1>5. QED
  BY <1>1, <1>4, QualityKept, RecapturesKept, CustodyKept
     DEF CaseInv, EvidenceGrows, captureVars

LEMMA CaptureGrows ==
    ASSUME CaseInv, NEW items, Capture(items)
    PROVE  EvidenceGrows
<1>1. /\ Len(planHistory') = Len(planHistory)
      /\ \A i \in DOMAIN planHistory : SameFields(planHistory'[i], planHistory[i])
  BY CapturePlanSteps
<1>2. /\ generation \in Nat /\ generation' = generation + 1
      /\ UNCHANGED <<quality, custody>>
      /\ \/ /\ generation = 0 /\ recaptures' = recaptures
            /\ captures' = captures \cup Generation(items, 0)
         \/ generation >= 1 /\ \E i \in DOMAIN recaptures : Spends(items, i)
  BY CaptureSteps
<1>3. PlansGrow
  <2>1. Len(planHistory) \in Nat
    BY DEF CaseInv, TypeOK
  <2>2. QED
    BY <1>1, <2>1 DEF PlansGrow
<1>4. captures \subseteq captures'
  BY <1>2 DEF Spends
<1>5. RecapturesGrow
  <2>1. CASE recaptures' = recaptures
    BY <2>1, RecapturesKept DEF CaseInv
  <2>2. CASE generation >= 1 /\ \E i \in DOMAIN recaptures : Spends(items, i)
    <3>1. PICK i \in DOMAIN recaptures : Spends(items, i)
      BY <2>2
    <3>2. /\ Len(recaptures') = Len(recaptures)
          /\ \A j \in DOMAIN recaptures : j # i => recaptures'[j] = recaptures[j]
          /\ recaptures'[i] = Consumed(recaptures[i], generation + 1)
          /\ recaptures[i].status = "ACTIVE"
      BY <2>2, <3>1, SpendFacts
    <3>3. Len(recaptures) \in Nat
      BY DEF CaseInv, TypeOK
    <3>4. QED
      BY <1>2, <3>2, <3>3 DEF RecapturesGrow
  <2>3. QED
    BY <1>2, <2>1, <2>2
<1>6. QED
  BY <1>2, <1>3, <1>4, <1>5, QualityKept, CustodyKept DEF CaseInv, EvidenceGrows

(* Deciding leaves the decisions of earlier generations alone.             *)
LEMMA DecisionGrows ==
    ASSUME CaseInv, NEW q \in QualityDecision, NEW t, NEW d, Decides(q, d, t),
           Len(quality) = generation => OpenDecision(quality[generation], q)
    PROVE  EvidenceGrows
<1>1. /\ state = "CAPTURED" /\ Len(quality') = generation
      /\ \A g \in 1..(generation - 1) : quality'[g] = quality[g]
      /\ quality'[generation] = q
      /\ UNCHANGED <<planVars, captureVars, recaptures, custody>>
  BY DEF Decides
<1>2. /\ generation \in Nat /\ quality \in Seq(QualityDecision)
      /\ Len(quality) \in {generation - 1, generation}
  BY <1>1 DEF CaseInv, TypeOK, StageInv
<1>3. QualityGrows
  <2>1. \A i \in DOMAIN quality :
          \/ i \in 1..(generation - 1)
          \/ i = generation /\ Len(quality) = generation
    BY <1>2
  <2>2. Len(quality) =< Len(quality')
    BY <1>1, <1>2
  <2>3. QED
    BY <1>1, <2>1, <2>2 DEF QualityGrows
<1>4. QED
  BY <1>1, <1>3, PlansKept, RecapturesKept, CustodyKept
     DEF CaseInv, EvidenceGrows, planVars, captureVars

LEMMA ReviewGrows ==
    ASSUME CaseInv, NEW reviewer \in Staff["reviewer"],
           \/ \E failures \in SUBSET Categories, listened \in Listening :
                DecideQuality(reviewer, failures, listened)
           \/ \E d \in {"PASS", "FAIL"} :
                Countersign(reviewer, d) \/ Adjudicate(reviewer, d)
    PROVE  EvidenceGrows
<1>1. generation \in Nat
  BY DEF CaseInv, TypeOK
<1>2. CASE \E failures \in SUBSET Categories, listened \in Listening :
             DecideQuality(reviewer, failures, listened)
  <2>1. PICK q \in QualityDecision, d \in {"PASS", "FAIL"} :
          Decides(q, d, "QUALITY") /\ Len(quality) = generation - 1
    BY <1>2, DecideQualitySteps
  <2>2. Len(quality) # generation
    BY <1>1, <2>1
  <2>3. QED
    BY <2>1, <2>2, DecisionGrows
<1>3. ASSUME NEW d \in {"PASS", "FAIL"}, Countersign(reviewer, d)
      PROVE  EvidenceGrows
  <2>1. PICK q \in QualityDecision :
          /\ Decides(q, d, "QUALITY") /\ Len(quality) = generation
          /\ generation \in DOMAIN quality /\ ~Settled(quality[generation])
          /\ quality[generation].countersigner = None
          /\ q.reviewer = quality[generation].reviewer
          /\ q.decision = quality[generation].decision
          /\ q.failures = quality[generation].failures
    BY <1>3, CountersignSteps
  <2>2. OpenDecision(quality[generation], q)
    BY <2>1 DEF OpenDecision, CaseInv, QualityInv
  <2>3. QED
    BY <2>1, <2>2, DecisionGrows
<1>4. ASSUME NEW d \in {"PASS", "FAIL"}, Adjudicate(reviewer, d)
      PROVE  EvidenceGrows
  <2>1. PICK q \in QualityDecision :
          /\ Decides(q, d, "QUALITY_ADJUDICATED") /\ Len(quality) = generation
          /\ generation \in DOMAIN quality /\ ~Settled(quality[generation])
          /\ q.countersigner = quality[generation].countersigner
          /\ q.reviewer = quality[generation].reviewer
          /\ q.decision = quality[generation].decision
          /\ q.failures = quality[generation].failures
    BY <1>4, AdjudicateSteps
  <2>2. OpenDecision(quality[generation], q)
    BY <2>1 DEF OpenDecision, CaseInv, QualityInv
  <2>3. QED
    BY <2>1, <2>2, DecisionGrows
<1>5. QED
  BY <1>2, <1>3, <1>4

LEMMA RecordGrows ==
    ASSUME CaseInv, NEW r \in RecaptureAction, NEW t, Records(r, t)
    PROVE  EvidenceGrows
<1>1. /\ recaptures' = Append(recaptures, r)
      /\ UNCHANGED <<planVars, captureVars, quality, custody>>
  BY DEF Records
<1>2. recaptures \in Seq(RecaptureAction)
  BY DEF CaseInv, TypeOK
<1>3. RecapturesGrow
  BY <1>1, <1>2 DEF RecapturesGrow
<1>4. QED
  BY <1>1, <1>3, PlansKept, QualityKept, CustodyKept
     DEF CaseInv, EvidenceGrows, planVars, captureVars

LEMMA TransferGrows ==
    ASSUME CaseInv, NEW e \in Transfers, AppendCustodyTransfer(e)
    PROVE  EvidenceGrows
<1>1. /\ custody' = Append(custody, e)
      /\ UNCHANGED <<planVars, captureVars, quality, recaptures>>
  BY DEF AppendCustodyTransfer
<1>2. custody \in Seq(CustodyEvent) /\ e \in CustodyEvent
  BY TransferType DEF CaseInv, TypeOK
<1>3. CustodyGrows
  <2>1. SubSeq(Append(custody, e), 1, Len(custody)) = custody
    BY <1>2
  <2>2. QED
    BY <1>1, <2>1 DEF CustodyGrows
<1>4. QED
  BY <1>1, <1>3, PlansKept, QualityKept, RecapturesKept
     DEF CaseInv, EvidenceGrows, planVars, captureVars

LEMMA KeepingGrows ==
    ASSUME CaseInv, UNCHANGED <<planVars, captureVars, quality, recaptures, custody>>
    PROVE  EvidenceGrows
BY PlansKept, QualityKept, RecapturesKept, CustodyKept
   DEF CaseInv, EvidenceGrows, planVars, captureVars

LEMMA NextGrows ==
    ASSUME CaseInv, Next
    PROVE  EvidenceGrows
<1>1. CASE \E f \in Findings : Assess(f) \/ CorrectAssessment(f)
  BY <1>1, KeepingGrows DEF Assess, CorrectAssessment
<1>2. CASE \E p \in PlanRequests : ApprovePlan(p)
  BY <1>2, ApprovalGrows
<1>3. CASE \E p \in PlanRequests, t \in {"PLAN_REVISED", "PLAN_REAPPROVED"} :
             RevisePlan(p, t)
  BY <1>3, RevisionGrows
<1>4. CASE \E person \in Staff["reviewer"], failures \in SUBSET Categories,
          listened \in Listening : DecideQuality(person, failures, listened)
  BY <1>4, ReviewGrows
<1>5. CASE \E person \in Staff["reviewer"], d \in {"PASS", "FAIL"} :
             Countersign(person, d) \/ Adjudicate(person, d)
  BY <1>5, ReviewGrows
<1>6. CASE \E a \in AuthorizationRequests :
             AuthorizeRecapture(a) \/ RenewRecapture(a)
  BY <1>6, AuthorizeSteps, RenewSteps, RecordGrows
<1>7. CASE \E person \in Staff["authorizer"] : RevokeRecapture(person)
  BY <1>7, RevokeSteps, RecordGrows
<1>8. CASE Seal \/ Tick
  BY <1>8, KeepingGrows DEF Seal, Tick, custodyVars
<1>9. QED
  BY <1>1, <1>2, <1>3, <1>4, <1>5, <1>6, <1>7, <1>8, NextCases, ReleaseGrows,
     CaptureGrows, TransferGrows

(* Everything under domain.Case: no request rewrites recorded evidence,    *)
(* beyond the opinions on an open decision and the consumption of an       *)
(* authorization.                                                          *)
THEOREM EvidenceIsKept == Spec => EvidenceOnlyGrows
<1>1. CaseInv /\ [Next]_vars => [EvidenceGrows]_vars
  BY NextGrows
<1>2. EvidenceGrows =>
        /\ captures \subseteq captures'
        /\ Len(planHistory) =< Len(planHistory')
        /\ \A i \in DOMAIN planHistory :
             SameFields(planHistory'[i], planHistory[i])
        /\ Len(quality) =< Len(quality')
        /\ \A i \in DOMAIN quality :
             \/ quality'[i] = quality[i]
             \/ /\ ~Settled(quality[i]) /\ quality[i].generation = generation
                /\ quality'[i].decision = quality[i].decision
                /\ quality'[i].failures = quality[i].failures
                /\ quality'[i].reviewer = quality[i].reviewer
                /\ quality[i].countersigner \in {None, quality'[i].countersigner}
        /\ Len(recaptures) =< Len(recaptures')
        /\ \A i \in DOMAIN recaptures :
             \/ recaptures'[i] = recaptures[i]
             \/ /\ recaptures[i].status = "ACTIVE"
                /\ recaptures'[i] = Consumed(recaptures[i], generation')
        /\ custody = SubSeq(custody', 1, Len(custody))
  BY DEF EvidenceGrows, PlansGrow, QualityGrows, OpenDecision, RecapturesGrow,
         CustodyGrows
<1>3. QED
  BY <1>1, <1>2, CaseInvariant, PTL DEF Spec, EvidenceOnlyGrows
=============================================================================
