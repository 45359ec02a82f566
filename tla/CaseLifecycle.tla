--------------------------- MODULE CaseLifecycle ---------------------------
(***************************************************************************)
(* One registered case of package domain, from its registration to the     *)
(* seal: assessment, capture plan and its reservation, generations of      *)
(* captures, quality decisions with countersign and adjudication,          *)
(* recapture authorizations, custody transfers, and the manifest.          *)
(*                                                                         *)
(* The application works on a deep copy and stores it only when the domain *)
(* has accepted the request, so an action is an accepted request; each     *)
(* appends its event to the audit of the case.  ArchiveService models how  *)
(* requests are served concurrently and what a failure does to the audit.  *)
(* Technical parameters (calibration, fixity, segments, metrics) are       *)
(* abstracted: a request that breaks one is rejected and changes nothing.  *)
(***************************************************************************)
EXTENDS AuditChain, FiniteSets

CONSTANTS
    People,         \* names, compared ignoring case
    Staff,          \* who may act in which role: a bound on the inputs
    TaskSets,       \* the sets of capture tasks a plan may consist of
    Risks,          \* what assessments may find
    Summing,        \* whether damage ratios add up alike in any order
    Controlling,    \* whether plans say how the risks are controlled
    Categories,     \* the failures a review may compute
    Places,         \* locations of the carrier
    Splicing,       \* whether captures record a splice repair
    Scheduling,     \* whether plans book a time window
    Escalating,     \* whether authorizations may carry an escalation
    Starts,         \* when recordings may be said to have started
    Lengths,        \* how long they may be
    Listening,      \* whether reviews hold listening intervals
    None,           \* no value
    MaxTime,        \* bound: the clock
    MaxTerm,        \* how long plans and authorizations may be valid
    MaxRevision,    \* bound: accepted requests
    MaxPlans,       \* bound: plan versions
    MaxVersion,     \* bound: recapture records
    MaxTransfers    \* bound: custody transfers

Roles == {"operator", "approver", "reviewer", "authorizer", "remediator",
          "officer", "custodian"}

ASSUME StaffAssumption == Staff \in [Roles -> SUBSET People]
ASSUME ChoicesAssumption ==
    /\ {Summing, Controlling, Splicing, Scheduling, Escalating, Listening}
         \subseteq SUBSET BOOLEAN
    /\ Risks \subseteq {"none", "other", "high"}

(* A task stands for its place in the order of execution, which has no gap.*)
ASSUME TasksAssumption ==
    \A tasks \in TaskSets : IsFiniteSet(tasks) /\ tasks = 1..Cardinality(tasks)

ASSUME TimesAssumption ==
    /\ {MaxTime, MaxRevision} \subseteq Nat \ {0}
    /\ {MaxTerm, MaxPlans, MaxVersion, MaxTransfers} \subseteq Nat
    /\ Starts \subseteq Nat /\ Lengths \subseteq Nat

(***************************************************************************)
(* The records of a case, reduced to what its rules look at.               *)
(***************************************************************************)

(* "high" is a high playback risk.  The ratios of the damage located are   *)
(* floating point: resums says whether their sum in the order they were    *)
(* sent is their sum in the order they are stored.                         *)
ConditionAssessment ==
    [version : Nat, risk : {"none", "other", "high"}, resums : BOOLEAN]

CaptureWindow == [start : Nat, end : Nat]

(* controls is the list of risk controls as it is stored; the fingerprint, *)
(* of what the properties look at, is the list it was computed over.       *)
CapturePlan ==
    [revision : Nat, operator : People, approver : People, tasks : TaskSets,
     approvedAt : Nat, validUntil : Nat, window : CaptureWindow \cup {None},
     fingerprint : {"none", "empty", "listed"}, controls : {"none", "listed"},
     reservation : {"NONE", "ACTIVE", "RELEASED", "CONSUMED"}]

CaptureGeneration ==
    [task : UNION TaskSets, startedAt : Nat, endedAt : Nat, splice : BOOLEAN,
     length : Nat, generation : Nat, plan : Nat, version : Nat]

QualityAdjudication == [by : People, decision : {"PASS", "FAIL"}]

(* length is what the coverage of the listening intervals was computed of. *)
QualityDecision ==
    [generation : Nat, reviewer : People, decision : {"PASS", "FAIL"},
     failures : SUBSET Categories, listened : BOOLEAN, length : Nat,
     revision : Nat, reviewedAt : Nat,
     countersign : {"NONE", "PENDING", "CONFIRMED", "DISAGREED", "ADJUDICATED"},
     countersigner : People \cup {None},
     adjudication : QualityAdjudication \cup {None}]

RecaptureEscalation == [officer : People, remaining : Nat]

RecaptureAction ==
    [action : {"authorize", "renew", "revoke"}, version : Nat, generation : Nat,
     status : {"ACTIVE", "CONSUMED", "REVOKED"}, by : People,
     owner : People \cup {None}, performer : People \cup {None},
     authorizedAt : Nat, expiresAt : Nat,
     escalation : RecaptureEscalation \cup {None}, consumedBy : Nat]

IntakeReceipt == [from : People, to : People, at : Nat]

CustodyEvent == [from : People, to : People, place : Places, at : Nat]

(* The order of ManifestPayload.                                           *)
PreservationManifest ==
    [auditRevision : Nat, anchor : Seq(EventTypes),
     payload : ConditionAssessment \X Seq(ConditionAssessment)
               \X CapturePlan \X Seq(CapturePlan) \X (SUBSET CaptureGeneration)
               \X Seq(QualityDecision) \X Seq(RecaptureAction)
               \X (IntakeReceipt \cup {None}) \X Seq(CustodyEvent)
               \X (People \cup {None})]

ASSUME DecisionIsNoCategory == "decision" \notin Categories

(* What is absent cannot be taken for something that is there.             *)
ASSUME NoneAssumption ==
    None \notin People \cup ConditionAssessment \cup CapturePlan
               \cup QualityAdjudication \cup RecaptureEscalation
               \cup PreservationManifest

VARIABLES
    state, revision, now,
    assessment, assessmentHistory,
    plan, planHistory,
    captures,       \* the captures of all generations
    generation,     \* CurrentCaptureGeneration
    quality,        \* the quality decisions, one per generation
    recaptures,     \* authorizations, renewals and revocations, in order
    receipt, custody, custodian,
    manifest,
    trail           \* the types of the audit events of the case

assessmentVars == <<assessment, assessmentHistory>>
planVars == <<plan, planHistory>>
captureVars == <<captures, generation>>
custodyVars == <<receipt, custody, custodian>>
vars == <<state, revision, now, assessmentVars, planVars, captureVars, quality,
          recaptures, custodyVars, manifest, trail>>

(***************************************************************************)
(* Sequences of records.                                                   *)
(***************************************************************************)
LastOf(s) == s[Len(s)]

Members(s) == {s[i] : i \in DOMAIN s}

(* Fault: a request is not audited                                       *)
AcceptUnaudited(type) ==
    /\ revision < MaxRevision
    /\ revision' = revision + 1
    /\ UNCHANGED <<now, receipt, trail>>

(* Every accepted request increments the revision and is audited.          *)
Accept(type) ==
    /\ revision < MaxRevision
    /\ revision' = revision + 1
    /\ trail' = Append(trail, type)
    /\ UNCHANGED <<now, receipt>>

(***************************************************************************)
(* Registration: revision 1, with the custody chain up to that time.       *)
(***************************************************************************)
CreatedAt == 1

Transfers ==
    [from : Staff["custodian"], to : Staff["custodian"], place : Places,
     at : 0..(MaxTime + 1)]

Receipts ==
    [from : Staff["custodian"], to : Staff["custodian"], at : 0..CreatedAt]

(* NormalizeCustodyEvents: the chain, or nothing when it is refused.       *)
CustodyNormal(chain, voucher, ceiling) ==
    /\ \A i \in DOMAIN chain :
         /\ chain[i].from # chain[i].to /\ chain[i].at =< ceiling
         /\ \A j \in 1..(i - 1) : chain[j].place # chain[i].place
         /\ i > 1 => /\ chain[i - 1].at < chain[i].at
                     /\ chain[i - 1].to = chain[i].from
    /\ chain # <<>> /\ voucher # None =>
         chain[1].from = voucher.from /\ LastOf(chain).to = voucher.to

CustodianOf(chain, voucher) ==
    CASE chain # <<>> -> LastOf(chain).to
      [] chain = <<>> /\ voucher # None -> voucher.to
      [] OTHER -> None

Init ==
    /\ state = "REGISTERED" /\ revision = 1 /\ now = CreatedAt
    /\ assessment = None /\ assessmentHistory = <<>>
    /\ plan = None /\ planHistory = <<>>
    /\ captures = {} /\ generation = 0
    /\ quality = <<>> /\ recaptures = <<>>
    /\ receipt \in {r \in Receipts : r.from # r.to} \cup {None}
    /\ custody \in {<<>>} \cup {<<e>> : e \in Transfers}
    /\ Len(custody) =< MaxTransfers
    /\ CustodyNormal(custody, receipt, CreatedAt)
    /\ custodian = CustodianOf(custody, receipt)
    /\ manifest = None
    /\ trail = <<"REGISTERED">>

(***************************************************************************)
(* Assessment.                                                             *)
(***************************************************************************)
Findings ==
    {f \in [risk : Risks, resums : Summing] : f.risk = "none" => f.resums}

Assessed(f, n) == [version |-> n, risk |-> f.risk, resums |-> f.resums]

Assess(f) ==
    /\ state = "REGISTERED"
    /\ assessment' = Assessed(f, 1)
    /\ state' = "ASSESSED"
    /\ Accept("ASSESSED")
    /\ UNCHANGED <<assessmentHistory, planVars, captureVars, quality, recaptures,
                   custody, custodian, manifest>>

CorrectAssessment(f) ==
    /\ state = "ASSESSED" /\ plan = None /\ captures = {} /\ manifest = None
    /\ assessmentHistory' = Append(assessmentHistory, assessment)
    /\ assessment' = Assessed(f, assessment.version + 1)
    /\ Accept("ASSESSMENT_CORRECTED")
    /\ UNCHANGED <<state, planVars, captureVars, quality, recaptures, custody,
                   custodian, manifest>>

(***************************************************************************)
(* Plan and reservation.                                                   *)
(***************************************************************************)
Windows(until) ==
    {w \in [start : now..until, end : now..until] : w.start < w.end}

(* normalizeRiskControls: a plan that declares controls lists one for each *)
(* risk that was found, or none at all when there is no risk.              *)
NormalControls(declared) ==
    CASE ~declared -> "none"
      [] declared /\ assessment.risk = "none" -> "empty"
      [] OTHER -> "listed"

(* A list is left out of the stored form of the plan when it is empty.     *)
Stored(controls) == IF controls = "empty" THEN "none" ELSE controls

(* What a client asks for; the plan is valid from its approval, which is   *)
(* recorded to the second, the unit of the clock.                          *)
PlanRequests ==
    {p \in [operator : Staff["operator"], approver : Staff["approver"],
            tasks : TaskSets, approvedAt : {now},
            validUntil : (now + 1)..(now + MaxTerm),
            window : {None} \cup Windows(now + MaxTerm),
            fingerprint : {NormalControls(d) : d \in Controlling},
            reservation : {"NONE", "ACTIVE"}] :
       /\ p.operator # p.approver
       /\ (p.window # None) \in Scheduling
       /\ p.window # None => p.window.end =< p.validUntil
       /\ p.reservation = "ACTIVE" <=> p.window # None}

(* Fault: plans take the number of the case                              *)
NumberedByCase(p, n) == [revision |-> revision + 1, operator |-> p.operator,
    approver |-> p.approver, tasks |-> p.tasks, approvedAt |-> p.approvedAt,
    validUntil |-> p.validUntil, window |-> p.window,
    fingerprint |-> p.fingerprint, controls |-> Stored(p.fingerprint),
    reservation |-> p.reservation]

Numbered(p, n) == [revision |-> n, operator |-> p.operator,
    approver |-> p.approver, tasks |-> p.tasks, approvedAt |-> p.approvedAt,
    validUntil |-> p.validUntil, window |-> p.window,
    fingerprint |-> p.fingerprint, controls |-> Stored(p.fingerprint),
    reservation |-> p.reservation]

SameFields(p, q) ==
    /\ p.operator = q.operator /\ p.approver = q.approver
    /\ p.tasks = q.tasks /\ p.validUntil = q.validUntil
    /\ p.window = q.window /\ p.fingerprint = q.fingerprint

(* Fault: only the current plan is updated                               *)
WithoutHistory(history, n, status) == history

(* The reservation status is kept in the current plan and in its entry of  *)
(* the history.                                                            *)
WithReservation(history, n, status) ==
    [i \in DOMAIN history |->
        IF history[i].revision = n
        THEN [history[i] EXCEPT !.reservation = status] ELSE history[i]]

ApprovePlan(p) ==
    /\ state = "ASSESSED"
    /\ plan' = Numbered(p, revision + 1)
    /\ planHistory' = Append(planHistory, Numbered(p, revision + 1))
    /\ state' = "READY_FOR_CAPTURE"
    /\ Accept("PLAN_APPROVED")
    /\ UNCHANGED <<assessmentVars, captureVars, quality, recaptures, custody,
                   custodian, manifest>>

(* A complete new plan, audited as a reapproval when the client gives a    *)
(* reason for one; it gives up the old window.                             *)
RevisePlan(p, type) ==
    /\ state = "READY_FOR_CAPTURE"
    /\ captures = {} /\ quality = <<>> /\ manifest = None
    /\ ~SameFields(p, plan)
    /\ Len(planHistory) < MaxPlans
    /\ plan' = Numbered(p, plan.revision + 1)
    /\ planHistory' =
         Append(IF plan.window = None THEN planHistory
                ELSE WithReservation(planHistory, plan.revision, "RELEASED"),
                Numbered(p, plan.revision + 1))
    /\ Accept(type)
    /\ UNCHANGED <<state, assessmentVars, captureVars, quality, recaptures,
                   custody, custodian, manifest>>

ReleasePlanReservation ==
    /\ state = "READY_FOR_CAPTURE" /\ captures = {} /\ generation = 0
    /\ plan.window # None /\ plan.reservation = "ACTIVE"
    /\ now =< plan.validUntil /\ now =< plan.window.end
    /\ plan' = [plan EXCEPT !.reservation = "RELEASED"]
    /\ planHistory' = WithReservation(planHistory, plan.revision, "RELEASED")
    /\ Accept("PLAN_RESERVATION_RELEASED")
    /\ UNCHANGED <<state, assessmentVars, captureVars, quality, recaptures,
                   custody, custodian, manifest>>

(***************************************************************************)
(* Captures.                                                               *)
(***************************************************************************)

(* activeAuthorization: the last record of a generation, unless it revokes.*)
ActiveAuthorization(gen) ==
    {i \in DOMAIN recaptures :
        /\ recaptures[i].generation = gen /\ recaptures[i].action # "revoke"
        /\ \A j \in DOMAIN recaptures :
             j > i => recaptures[j].generation # gen}

(* A recording of a task; it takes one unit of time, whatever the length   *)
(* of what is on the tape.                                                 *)
Recordings == [startedAt : Starts, splice : Splicing, length : Lengths]

CaptureOf(task, r) ==
    [task |-> task, startedAt |-> r.startedAt, endedAt |-> r.startedAt + 1,
     splice |-> r.splice, length |-> r.length]

(* The clock plays no part: what counts is when the capture is said to     *)
(* have taken place.                                                       *)
WithinPlan(x) ==
    /\ plan.approvedAt =< x.startedAt /\ x.startedAt =< plan.validUntil
    /\ plan.window # None => /\ plan.window.start =< x.startedAt
                             /\ x.endedAt =< plan.window.end

Usable(a) ==
    /\ a.status = "ACTIVE"
    /\ a.escalation # None => a.escalation.remaining > 0

(* Fault: the status stays ACTIVE                                        *)
ConsumedOnce(a, gen) == [a EXCEPT !.consumedBy = gen]

Attempted(escalation) ==
    IF escalation = None THEN None
    ELSE [escalation EXCEPT !.remaining = @ - 1]

(* Fault: nothing is used up                                             *)
Unconsumed(a, gen) == a

Consumed(a, gen) ==
    [a EXCEPT !.status = "CONSUMED", !.consumedBy = gen,
              !.escalation = Attempted(@)]

Recorded(x, gen, version) ==
    [task |-> x.task, startedAt |-> x.startedAt, endedAt |-> x.endedAt,
     splice |-> x.splice, length |-> x.length, generation |-> gen,
     plan |-> plan.revision, version |-> version]

(* The items of one generation; a recapture consumes its authorization.    *)
Capture(items) ==
    LET next == generation + 1
    IN  /\ state = "READY_FOR_CAPTURE"
        /\ plan.reservation # "RELEASED"
        /\ \A x \in items : WithinPlan(x)
        /\ \/ /\ next = 1
              /\ captures' = captures \cup {Recorded(x, next, 0) : x \in items}
              /\ UNCHANGED recaptures
           \/ /\ next > 1
              /\ \E i \in ActiveAuthorization(next) :
                   LET a == recaptures[i]
                   IN  /\ Usable(a)
                       /\ \A x \in items : /\ a.authorizedAt =< x.startedAt
                                           /\ x.startedAt =< a.expiresAt
                       /\ captures' = captures \cup
                            {Recorded(x, next, a.version) : x \in items}
                       /\ recaptures' =
                            [recaptures EXCEPT ![i] = Consumed(a, next)]
        /\ IF plan.window = None \/ plan.reservation = "CONSUMED"
           THEN UNCHANGED planVars
           ELSE /\ plan' = [plan EXCEPT !.reservation = "CONSUMED"]
                /\ planHistory' =
                     WithReservation(planHistory, plan.revision, "CONSUMED")
        /\ generation' = next
        /\ state' = "CAPTURED"
        /\ Accept("CAPTURED")
        /\ UNCHANGED <<assessmentVars, quality, custody, custodian, manifest>>

(* One capture makes a generation, whatever the plan consists of.          *)
AddCapture(x) == Capture({x})

(* A group has exactly one item for each task of the plan.                 *)
AddCaptureGroup(items) ==
    /\ {x.task : x \in items} = plan.tasks
    /\ \A x, y \in items : x.task = y.task => x = y
    /\ Capture(items)

(***************************************************************************)
(* Quality.                                                                *)
(***************************************************************************)

(* Fault: adjudications do not count                                     *)
FirstDecision(q) == q.decision

EffectiveDecision(q) ==
    IF q.adjudication = None THEN q.decision ELSE q.adjudication.decision

(* An adjudicated failure has failed for what it was adjudicated about.    *)
EffectiveFailures(q) ==
    IF q.adjudication # None /\ q.adjudication.decision = "FAIL"
    THEN {"decision"} ELSE q.failures

Settled(q) == q.countersign \in {"NONE", "CONFIRMED", "ADJUDICATED"}

StateAfter(decision) ==
    IF decision = "PASS" THEN "QC_PASSED" ELSE "RECAPTURE_REQUIRED"

NeedsCountersign ==
    \/ assessment.risk = "high"
    \/ \E x \in captures : x.generation = generation /\ x.splice
    \/ generation >= 3

(* The captures of a generation are kept in the order of their tasks.      *)
Items(gen) == {x \in captures : x.generation = gen}

FirstItem(gen) == {x \in Items(gen) : \A y \in Items(gen) : x.task =< y.task}

LastItem(gen) == {x \in Items(gen) : \A y \in Items(gen) : y.task =< x.task}

DecideQuality(reviewer, failures, listened) ==
    LET decision == IF failures = {} THEN "PASS" ELSE "FAIL"
    IN  /\ state = "CAPTURED"
        /\ \A q \in Members(quality) : q.generation # generation
        /\ \E x \in LastItem(generation) :
             quality' = Append(quality,
               [generation |-> generation, reviewer |-> reviewer,
                decision |-> decision, failures |-> failures,
                listened |-> listened, length |-> x.length,
                revision |-> revision + 1, reviewedAt |-> now,
                countersign |-> IF NeedsCountersign THEN "PENDING" ELSE "NONE",
                countersigner |-> None, adjudication |-> None])
        /\ state' = IF NeedsCountersign THEN "CAPTURED" ELSE StateAfter(decision)
        /\ Accept("QUALITY")
        /\ UNCHANGED <<assessmentVars, planVars, captureVars, recaptures, custody,
                       custodian, manifest>>

(* The decision of the current generation that a second opinion refers to. *)
Reviewed(status) ==
    {i \in DOMAIN quality :
        quality[i].generation = generation /\ quality[i].countersign = status}

Owners == {a.owner : a \in Members(recaptures)} \ {None}

(* Fault: the operator may judge                                         *)
Judges(q) == {q.reviewer, q.countersigner}

(* Who may not give a further opinion on a decision.                       *)
Involved(q) == {q.reviewer, q.countersigner, plan.operator}

Countersign(reviewer, decision) ==
    /\ state = "CAPTURED"
    /\ \E i \in Reviewed("PENDING") :
         LET agreed == decision = quality[i].decision
         IN  /\ reviewer \notin Involved(quality[i]) \cup Owners
             /\ quality' = [quality EXCEPT
                  ![i].countersigner = reviewer,
                  ![i].countersign = IF agreed THEN "CONFIRMED" ELSE "DISAGREED"]
             /\ state' = IF agreed THEN StateAfter(decision) ELSE "CAPTURED"
    /\ Accept("QUALITY")
    /\ UNCHANGED <<assessmentVars, planVars, captureVars, recaptures, custody,
                   custodian, manifest>>

(* Fault: the first decision is overwritten                              *)
Overruled(q, adjudicator, decision) ==
    [q EXCEPT !.adjudication = [by |-> adjudicator, decision |-> decision],
              !.decision = decision, !.countersign = "ADJUDICATED"]

(* The first decision and the second opinion stay as they were.            *)
Adjudicated(q, adjudicator, decision) ==
    [q EXCEPT !.adjudication = [by |-> adjudicator, decision |-> decision],
              !.countersign = "ADJUDICATED"]

Adjudicate(adjudicator, decision) ==
    /\ state = "CAPTURED"
    /\ \E i \in Reviewed("DISAGREED") :
         /\ quality[i].adjudication = None
         /\ adjudicator \notin Involved(quality[i])
         /\ quality' = [quality EXCEPT ![i] = Adjudicated(@, adjudicator, decision)]
    /\ state' = StateAfter(decision)
    /\ Accept("QUALITY_ADJUDICATED")
    /\ UNCHANGED <<assessmentVars, planVars, captureVars, recaptures, custody,
                   custodian, manifest>>

(***************************************************************************)
(* Recapture authorizations.                                               *)
(***************************************************************************)

(* EscalationRequirement: the failures of the last decision that the       *)
(* previous generation failed with as well.                                *)
RepeatedFailures ==
    LET latest == LastOf(quality)
    IN  {f \in EffectiveFailures(latest) :
           /\ EffectiveDecision(latest) = "FAIL"
           /\ \E q \in Members(quality) :
                /\ q.generation = latest.generation - 1
                /\ EffectiveDecision(q) = "FAIL"
                /\ f \in EffectiveFailures(q)}

(* An escalation that was not required is kept as the client sent it.      *)
EscalationRequests ==
    {None} \cup
    {e \in [officer : Staff["officer"], remaining : 0..1] : TRUE \in Escalating}

(* Fault: any escalation will do                                         *)
EscalationSent(a, failed) == RepeatedFailures # {} => a.escalation # None

EscalationAccepted(a, failed) ==
    RepeatedFailures # {} =>
      /\ a.escalation # None
      /\ a.escalation.remaining > 0
      /\ a.escalation.officer \notin
           {plan.operator, failed.reviewer, a.by, failed.countersigner}
           \cup {q.adjudication.by : q \in {r \in {failed} : r.adjudication # None}}
           \cup {r.by : r \in {s \in Members(recaptures) : s.action # "revoke"}}

(* One owner and one performer stand for those of all the remediations;    *)
(* without a performer the remediations are the short, older form.         *)
AuthorizationRequests ==
    {a \in [by : Staff["authorizer"], owner : Staff["remediator"],
            performer : Staff["remediator"] \cup {None},
            authorizedAt : CreatedAt..now,
            expiresAt : (now + 1)..(now + MaxTerm),
            escalation : EscalationRequests] :
       a.expiresAt - a.authorizedAt =< MaxTerm}

Authorization(a, action, version, gen) ==
    [action |-> action, version |-> version, generation |-> gen,
     status |-> "ACTIVE", by |-> a.by, owner |-> a.owner, performer |-> a.performer,
     authorizedAt |-> a.authorizedAt, expiresAt |-> a.expiresAt,
     escalation |-> a.escalation, consumedBy |-> 0]

(* What authorize and renew have in common.                                *)
AuthorizeVersion(a, action, version, gen) ==
    LET failed == LastOf(quality)
    IN  /\ quality # <<>> /\ EffectiveDecision(failed) = "FAIL"
        /\ failed.generation = generation
        /\ EscalationAccepted(a, failed)
        /\ a.by # failed.reviewer
        /\ a.performer # None =>
             /\ failed.reviewedAt =< a.authorizedAt
             /\ a.performer \notin {plan.operator, failed.reviewer, a.by}
        /\ Len(recaptures) < MaxVersion
        /\ recaptures' = Append(recaptures, Authorization(a, action, version, gen))
        /\ state' = "READY_FOR_CAPTURE"
        /\ UNCHANGED <<assessmentVars, planVars, captureVars, quality, custody,
                       custodian, manifest>>

AuthorizeRecapture(a) ==
    /\ state = "RECAPTURE_REQUIRED"
    /\ AuthorizeVersion(a, "authorize", 1, generation + 1)
    /\ Accept("RECAPTURE_AUTHORIZED")

RevokeRecapture(person) ==
    /\ state \in {"READY_FOR_CAPTURE", "RECAPTURE_REQUIRED"}
    /\ Len(recaptures) < MaxVersion
    /\ \E i \in ActiveAuthorization(generation + 1) :
         LET a == recaptures[i]
         IN  /\ a.status = "ACTIVE" /\ a.by # person
             /\ recaptures' = Append(recaptures,
                  [a EXCEPT !.action = "revoke", !.status = "REVOKED",
                            !.by = person, !.owner = None, !.performer = None,
                            !.authorizedAt = now, !.expiresAt = now,
                            !.escalation = None])
    /\ state' = "RECAPTURE_REQUIRED"
    /\ Accept("RECAPTURE_REVOKED")
    /\ UNCHANGED <<assessmentVars, planVars, captureVars, quality, custody,
                   custodian, manifest>>

(* The last authorization or renewal for the next generation.              *)
Renewable ==
    {i \in DOMAIN recaptures :
        LET Candidate(j) == /\ recaptures[j].generation = generation + 1
                            /\ recaptures[j].action # "revoke"
        IN  /\ Candidate(i)
            /\ \A j \in DOMAIN recaptures : j > i => ~Candidate(j)}

RenewRecapture(a) ==
    /\ state \in {"READY_FOR_CAPTURE", "RECAPTURE_REQUIRED"}
    /\ \E i \in Renewable :
         LET current == recaptures[i]
             latest == LastOf(recaptures)
         IN  /\ \/ latest.action = "revoke" /\ latest.version = current.version
                \/ current.expiresAt =< now
             /\ AuthorizeVersion(a, "renew", current.version + 1,
                                 current.generation)
    /\ Accept("RECAPTURE_RENEWED")

(***************************************************************************)
(* Custody.                                                                *)
(***************************************************************************)

(* The carrier is handed over by its custodian, later than ever before.    *)
NextTransfer(e) ==
    /\ e.from # e.to /\ e.from = custodian
    /\ receipt # None => receipt.at =< e.at
    /\ custody # <<>> => LastOf(custody).at < e.at

(* Fault: a sealed case stays mutable                                    *)
Always == TRUE

Mutable == state # "SEALED"

AppendCustodyTransfer(e) ==
    /\ Mutable
    /\ Len(custody) < MaxTransfers
    /\ NextTransfer(e)
    /\ custody' = Append(custody, e)
    /\ custodian' = e.to
    /\ Accept("CUSTODY_TRANSFER")
    /\ UNCHANGED <<state, assessmentVars, planVars, captureVars, quality,
                   recaptures, manifest>>

(***************************************************************************)
(* The manifest.                                                           *)
(***************************************************************************)

(* BuildGenerationEvidenceIndex: what a capture must be backed by.         *)
Indexed(x) ==
    /\ \E p \in Members(planHistory) : p.revision = x.plan /\ x.task \in p.tasks
    /\ \E q \in Members(quality) : q.generation = x.generation /\ Settled(q)
    /\ x.generation > 1 =>
         /\ \E q \in Members(quality) : /\ q.generation = x.generation - 1
                                       /\ EffectiveDecision(q) = "FAIL"
         /\ \E i \in ActiveAuthorization(x.generation) :
              /\ recaptures[i].consumedBy # 0
              /\ recaptures[i].version = x.version

LastGenerationPassed ==
    \E q \in Members(quality) :
        /\ q.generation = generation /\ Settled(q)
        /\ EffectiveDecision(q) = "PASS"

ChainNormal == CustodyNormal(custody, receipt, CreatedAt)

(* The fingerprint and the controls of a plan are computed again, over the *)
(* list as it is stored.                                                   *)
Waived(p) == p.fingerprint = "empty"

FingerprintRepeats(p) ==
    /\ p.fingerprint = p.controls
    /\ p.controls # "none" \/ Waived(p) => NormalControls(TRUE) = p.controls

(* The coverage of the listening intervals is computed again, over the     *)
(* length of the first capture: another length gives another coverage.     *)
ReviewRepeats(q) ==
    q.listened => \A x \in FirstItem(q.generation) : x.length = q.length

(* validTimeline, the custody chain aside.  What it computes again of the  *)
(* receipt, the facets, the observations, the tasks, the fixity, segment,  *)
(* calibration and operation evidence is what was stored, as these         *)
(* conversions repeat themselves.                                          *)
EvidenceComplete ==
    /\ assessment # None /\ plan # None /\ planHistory # <<>>
    /\ SameFields(LastOf(planHistory), plan)
    /\ generation >= 1 /\ Cardinality(captures) >= generation
    /\ assessment.resums
    /\ \A p \in Members(planHistory) : FingerprintRepeats(p)
    /\ \A i \in 2..Len(planHistory) :
         planHistory[i].revision = planHistory[i - 1].revision + 1
    /\ \A x \in captures : x.generation \in 1..generation /\ Indexed(x)
    /\ \A q \in Members(quality) : ReviewRepeats(q)
    /\ LastGenerationPassed

ManifestPayload ==
    <<assessment, assessmentHistory, plan, planHistory, captures, quality,
      recaptures, receipt, custody, custodian>>

(* The audit is validated, the manifest built and the case sealed in one   *)
(* request.                                                                *)
Seal ==
    /\ state = "QC_PASSED"
    /\ Len(trail) = revision /\ ValidChain(trail)
    /\ EvidenceComplete /\ ChainNormal
    /\ manifest' = [auditRevision |-> revision, anchor |-> trail,
                    payload |-> ManifestPayload]
    /\ state' = "SEALED"
    /\ Accept("SEALED")
    /\ UNCHANGED <<assessmentVars, planVars, captureVars, quality, recaptures,
                   custody, custodian>>

Tick ==
    /\ now < MaxTime /\ now' = now + 1
    /\ UNCHANGED <<state, revision, assessmentVars, planVars, captureVars, quality,
                   recaptures, custodyVars, manifest, trail>>

Next ==
    \/ \E f \in Findings : Assess(f) \/ CorrectAssessment(f)
    \/ /\ state = "ASSESSED"
       /\ \E p \in PlanRequests : ApprovePlan(p)
    \/ /\ state = "READY_FOR_CAPTURE" /\ captures = {}
       /\ \E p \in PlanRequests, type \in {"PLAN_REVISED", "PLAN_REAPPROVED"} :
            RevisePlan(p, type)
    \/ ReleasePlanReservation
    \/ /\ state = "READY_FOR_CAPTURE"
       /\ \/ \E t \in plan.tasks, r \in Recordings : AddCapture(CaptureOf(t, r))
          \/ \E tasks \in (SUBSET plan.tasks) \ {{}} :
               \E r \in [tasks -> Recordings] :
                 AddCaptureGroup({CaptureOf(t, r[t]) : t \in tasks})
    \/ \E person \in Staff["reviewer"] :
         \/ \E failures \in SUBSET Categories, listened \in Listening :
              DecideQuality(person, failures, listened)
         \/ \E decision \in {"PASS", "FAIL"} :
              Countersign(person, decision) \/ Adjudicate(person, decision)
    \/ /\ state \in {"READY_FOR_CAPTURE", "RECAPTURE_REQUIRED"}
       /\ \E a \in AuthorizationRequests :
            AuthorizeRecapture(a) \/ RenewRecapture(a)
    \/ \E person \in Staff["authorizer"] : RevokeRecapture(person)
    \/ \E e \in Transfers : AppendCustodyTransfer(e)
    \/ Seal
    \/ Tick

Spec == Init /\ [][Next]_vars

(***************************************************************************)
(* Properties.                                                             *)
(***************************************************************************)
States == {"REGISTERED", "ASSESSED", "READY_FOR_CAPTURE", "CAPTURED",
           "QC_PASSED", "RECAPTURE_REQUIRED", "SEALED"}

(* The variables have their types, and every accepted request is one event *)
(* of the audit.                                                           *)
TypeOK ==
    /\ state \in States
    /\ revision \in 1..MaxRevision /\ now \in CreatedAt..MaxTime
    /\ assessment \in ConditionAssessment \cup {None}
    /\ assessmentHistory \in Seq(ConditionAssessment)
    /\ assessment = None <=> state = "REGISTERED"
    /\ plan \in CapturePlan \cup {None} /\ planHistory \in Seq(CapturePlan)
    /\ plan = None <=> state \in {"REGISTERED", "ASSESSED"}
    /\ captures \subseteq CaptureGeneration /\ generation \in Nat
    /\ quality \in Seq(QualityDecision) /\ recaptures \in Seq(RecaptureAction)
    /\ receipt \in IntakeReceipt \cup {None}
    /\ custody \in Seq(CustodyEvent) /\ custodian \in People \cup {None}
    /\ manifest \in PreservationManifest \cup {None}
    /\ manifest = None <=> state # "SEALED"
    /\ trail \in Seq(EventTypes) /\ Len(trail) = revision

(* The state the case is in is the one its evidence calls for: every       *)
(* generation before the current one was decided once and failed, a case   *)
(* that waits for a recapture holds no authorization for it, and one that  *)
(* may capture again holds exactly that.                                   *)
StateMatchesEvidence ==
    /\ \A g \in 1..(generation - 1) :
         LET decisions == {q \in Members(quality) : q.generation = g}
         IN  /\ Cardinality(decisions) = 1
             /\ \A q \in decisions : Settled(q) /\ EffectiveDecision(q) = "FAIL"
    /\ \A g \in 1..generation : \E x \in captures : x.generation = g
    /\ state \in {"QC_PASSED", "SEALED"} => LastGenerationPassed
    /\ state = "RECAPTURE_REQUIRED" =>
         /\ Settled(LastOf(quality)) /\ LastOf(quality).generation = generation
         /\ EffectiveDecision(LastOf(quality)) = "FAIL"
         /\ ActiveAuthorization(generation + 1) = {}
    /\ state = "READY_FOR_CAPTURE" /\ generation > 0 =>
         \E i \in ActiveAuthorization(generation + 1) :
           recaptures[i].status = "ACTIVE"

(* The captures at both ends of a generation are of the same length.       *)
Even(gen) == \A x \in FirstItem(gen), y \in LastItem(gen) : x.length = y.length

(* However a case has come to pass, the evidence of its captures, reviews  *)
(* and recaptures lets it be sealed.  Just three things in what it accepted*)
(* on the way keep it from it, for good: damage ratios whose sum depends   *)
(* on their order, a plan, even a revised one, that waived controls, and   *)
(* listening in a generation whose first and last captures differ in       *)
(* length.                                                                 *)
PassedCaseIsSealable ==
    state = "QC_PASSED" =>
        (EvidenceComplete <=>
           /\ assessment.resums
           /\ \A p \in Members(planHistory) : ~Waived(p)
           /\ \A q \in Members(quality) : q.listened => Even(q.generation))

(* The audit accepts whatever the domain accepts, except an authorization  *)
(* that follows a revocation.                                              *)
AuditAcceptsLifecycle ==
    \A i \in DOMAIN trail :
        \/ ValidTransition(trail, i)
        \/ /\ trail[i] = "RECAPTURE_AUTHORIZED"
           /\ \E j \in 1..(i - 1) :
                /\ trail[j] = "RECAPTURE_REVOKED"
                /\ \A k \in (j + 1)..(i - 1) : trail[k] = "CUSTODY_TRANSFER"

(* Every recapture spent exactly one authorization, its generation's last, *)
(* never revoked since, and took place while it was valid; an              *)
(* authorization is spent by one generation at most.                       *)
AuthorizationSpentOnce ==
    /\ \A x \in captures : x.generation > 1 =>
         \E i \in ActiveAuthorization(x.generation) :
           /\ recaptures[i].consumedBy = x.generation
           /\ recaptures[i].version = x.version
           /\ recaptures[i].authorizedAt =< x.startedAt
           /\ x.startedAt =< recaptures[i].expiresAt
           /\ \A j \in DOMAIN recaptures :
                recaptures[j].consumedBy = x.generation => j = i
    /\ \A i \in DOMAIN recaptures : recaptures[i].consumedBy # 0 =>
         /\ recaptures[i].status = "CONSUMED"
         /\ \E x \in captures : x.generation = recaptures[i].consumedBy

(* Second opinions are independent: reviewer, countersigner and adjudicator*)
(* of one decision are different people, and the latter two are never the  *)
(* operator, nor the countersigner somebody who owned a remediation behind *)
(* the generation; the authorizer of a recapture did not review the        *)
(* failure, and the remediations were not performed by the operator, the   *)
(* reviewer or the authorizer.  The first decision may be the operator's.  *)
DutiesSeparated ==
    /\ \A p \in Members(planHistory) : p.operator # p.approver
    /\ \A q \in Members(quality) :
         /\ q.countersigner # None =>
              /\ q.countersigner \notin {q.reviewer, plan.operator}
              /\ \A a \in Members(recaptures) :
                   a.generation =< q.generation => a.owner # q.countersigner
         /\ q.adjudication # None =>
              q.adjudication.by \notin {q.reviewer, q.countersigner, plan.operator}
    /\ \A a \in Members(recaptures) : a.action # "revoke" =>
         \A q \in Members(quality) : q.generation = a.generation - 1 =>
           /\ a.by # q.reviewer
           /\ a.performer \notin {plan.operator, q.reviewer, a.by}

(* A generation after two that failed for the same reason was authorized   *)
(* with the consent of an officer who is not the operator, gave none of    *)
(* the opinions on the later failure, and authorized none of the           *)
(* recaptures so far, whether they took place or not.  He may have         *)
(* judged the earlier failure.                                             *)
RepeatedFailureEscalates ==
    \A x \in captures : x.generation > 2 =>
        \A p, q \in Members(quality) :
            /\ p.generation = x.generation - 2 /\ q.generation = x.generation - 1
            /\ EffectiveFailures(p) \cap EffectiveFailures(q) # {}
            => \E i \in DOMAIN recaptures :
                 LET a == recaptures[i]
                     officer == a.escalation.officer
                 IN  /\ a.consumedBy = x.generation /\ a.escalation # None
                     /\ officer \notin {plan.operator, q.reviewer, q.countersigner}
                     /\ q.adjudication # None => officer # q.adjudication.by
                     /\ \A j \in 1..i :
                          recaptures[j].action # "revoke" =>
                              officer # recaptures[j].by

(* Captures were made under the last plan, in its validity and its window, *)
(* which is then consumed for good; a window that was given up or replaced *)
(* is never captured in.                                                   *)
CapturesFollowPlan ==
    /\ plan # None => plan = LastOf(planHistory)
    /\ \A x \in captures :
         /\ x.plan = plan.revision /\ x.task \in plan.tasks /\ WithinPlan(x)
         /\ plan.window # None => plan.reservation = "CONSUMED"
    /\ \A i \in DOMAIN planHistory : i < Len(planHistory) =>
         planHistory[i].reservation \in {"NONE", "RELEASED"}

(* VerifyManifest: what has been sealed still is what the manifest holds,  *)
(* anchored at the revision before the seal.                               *)
SealStaysVerified ==
    state = "SEALED" =>
        /\ manifest.payload = ManifestPayload
        /\ manifest.auditRevision = revision - 1
        /\ manifest.anchor = SubSeq(trail, 1, revision - 1)
        /\ ValidChain(trail)

(* Evidence is only added to: of what is recorded, only the opinions on an *)
(* open decision, the consumption of an authorization and the status of a  *)
(* reservation ever change.                                                *)
EvidenceOnlyGrows ==
    [][/\ captures \subseteq captures'
       /\ Len(planHistory) =< Len(planHistory')
       /\ \A i \in DOMAIN planHistory :
            SameFields(planHistory'[i], planHistory[i])
       /\ Len(quality) =< Len(quality')
       /\ \A i \in DOMAIN quality :
            \/ quality'[i] = quality[i]
            \/ /\ ~Settled(quality[i]) /\ quality[i].generation = generation
               /\ quality'[i].decision = quality[i].decision
               /\ quality'[i].failures = quality[i].failures
               /\ quality'[i].reviewer = quality[i].reviewer
               /\ quality[i].countersigner \in {None, quality'[i].countersigner}
       /\ Len(recaptures) =< Len(recaptures')
       /\ \A i \in DOMAIN recaptures :
            \/ recaptures'[i] = recaptures[i]
            \/ /\ recaptures[i].status = "ACTIVE"
               /\ recaptures'[i] = Consumed(recaptures[i], generation')
       /\ custody = SubSeq(custody', 1, Len(custody))]_vars

(***************************************************************************)
(* What a client is promised of the course of a case, read off its         *)
(* evidence: a generation is judged once a settled decision is on record.  *)
(***************************************************************************)
JudgedGenerations == {g \in DOMAIN quality : Settled(quality[g])}

Verdicts == [g \in JudgedGenerations |-> EffectiveDecision(quality[g])]

Unjudged == \E x \in captures : x.generation \notin JudgedGenerations

Permitted == ActiveAuthorization(generation + 1) # {}

Spent == Cardinality({i \in DOMAIN recaptures : recaptures[i].consumedBy # 0})

Protocol == INSTANCE CaseProtocol WITH
    planned <- plan # None, open <- Unjudged, verdicts <- Verdicts,
    permitted <- Permitted, spent <- Spent, sealed <- manifest # None

(* Whatever else clients send, and in whatever order, the evidence of a    *)
(* case follows the protocol: one generation at a time, one verdict each   *)
(* that is never taken back, one permit for each recapture, used up by it, *)
(* no seal over anything but a passed generation and nothing after it.     *)
ImplementsProtocol == Protocol!Spec

(***************************************************************************)
(* What the documentation says and the code does not.                      *)
(***************************************************************************)

(* Only an audit that was tampered with is refused.                        *)
AuditAccepts == ValidChain(trail)

(* Transfers after the registration leave the chain of custody valid.      *)
TransfersStayValid == ChainNormal

(* A carrier without risks is planned for with no additional controls and  *)
(* an empty list of them, and passes through to the seal as any other.     *)
WaivedControlsAreSealable ==
    /\ state = "QC_PASSED" /\ assessment.resums
    /\ \A q \in Members(quality) : Even(q.generation)
    => EvidenceComplete
=============================================================================
