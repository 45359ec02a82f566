------------------------- MODULE ReservationsProofs -------------------------
(***************************************************************************)
(* Proofs about Reservations for every set of cases, workers, devices,     *)
(* teams and windows, and every length of time.                            *)
(***************************************************************************)
EXTENDS Reservations, TLAPS

(***************************************************************************)
(* The inductive invariant.                                                *)
(***************************************************************************)

(* A case is planned from its first plan on; its window is consumed        *)
(* exactly when it has been captured with, and the first recording lies    *)
(* within it.                                                              *)
PlanOK(case) ==
    LET p == case.plan
    IN  /\ p.window = None <=> p.reservation = "NONE"
        /\ p.window # None =>
             /\ case.generation > 0 <=> p.reservation = "CONSUMED"
             /\ \A x \in case.captures :
                  x.generation = 1 => /\ p.window.start =< x.span.start
                                      /\ x.span.end =< p.window.end

CaseOK(case) ==
    /\ case \in Case
    /\ case.state # "ASSESSED" => case.plan # None
    /\ case.plan # None => PlanOK(case)
    /\ case.captures = {} <=> case.generation = 0
    /\ case.state = "ASSESSED" => case.generation = 0
    /\ case.state \notin {"ASSESSED", "READY_FOR_CAPTURE"} => case.generation > 0

(* The first recording of the case had been reported when the other plan   *)
(* was decided: it was made by then, if what is reported has been made.    *)
RecordedBefore(case, p) ==
    /\ case.generation > 0
    /\ \A x \in case.captures : x.generation = 1 => x.reportedAt =< p.decidedAt

(* The case had lost its window when the other plan was decided: it was    *)
(* over, or given up for a recording.                                      *)
OverBefore(case, p) ==
    case.plan.window.end =< p.decidedAt \/ RecordedBefore(case, p)

Rivals(case, other) ==
    /\ case.plan # None /\ other.plan # None
    /\ case.plan.window # None /\ other.plan.window # None
    /\ SharedResource(case.plan, other.plan)

(* Two cases that want the same device or operator, neither released nor   *)
(* decided over the end of the other's window, have windows apart, or one  *)
(* had lost its own when the other was planned.                            *)
Apart(case, other) ==
    LET p == case.plan
        q == other.plan
    IN  /\ Rivals(case, other)
        /\ p.reservation # "RELEASED" /\ q.reservation # "RELEASED"
        /\ ~DecidedOverTheEnd(p, q) /\ ~DecidedOverTheEnd(q, p)
        => \/ ~Overlap(p.window, q.window)
           \/ OverBefore(case, q) \/ OverBefore(other, p)

BookedApart(case, other) ==
    Held(case) /\ Held(other) /\ SharedResource(case.plan, other.plan)
      => ~Overlap(case.plan.window, other.plan.window)

ReportedInThePast(case) == \A x \in case.captures : x.reportedAt =< now

Fits(c, case) ==
    \A d \in Cases \ {c} : Apart(case, cases[d]) /\ BookedApart(case, cases[d])

(* What a worker has found out: its copy is the case until it decides; a   *)
(* plan it checks has not been captured with and was decided after every   *)
(* report; what it commits fits the other cases.                           *)
WorkerOK(w) ==
    LET c == req[w].case
        case == copy[w]
    IN  /\ pc[w] # "idle" => req[w] \in Requests
        /\ pc[w] = "decide" => caseLock[c] = w /\ case = cases[c]
        /\ pc[w] \in {"check", "commit"} =>
             /\ CaseOK(case) /\ case.plan # None
             /\ ReportedInThePast(case)
        /\ pc[w] = "check" =>
             /\ case.generation = 0
             /\ case.plan.reservation # "RELEASED"
             /\ \A d \in Cases : \A x \in cases[d].captures :
                  x.reportedAt =< case.plan.decidedAt
        /\ pc[w] = "commit" => Fits(c, case)

CasesOK == \A c \in Cases : CaseOK(cases[c]) /\ ReportedInThePast(cases[c])

BookingInv ==
    /\ TypeOK /\ CasesOK
    /\ \A c \in Cases : Fits(c, cases[c])
    /\ \A w \in Workers : WorkerOK(w)

(***************************************************************************)
(* The operations on one case.                                             *)
(***************************************************************************)

LEMMA TimesAreNumbers ==
    /\ Times \subseteq Int /\ Term \in Nat
    /\ \A s \in Spans : s.start \in Int /\ s.end \in Int /\ s.start < s.end
BY BoundsAssumption DEF Times, Spans

LEMMA NowIsATime ==
    ASSUME TypeOK
    PROVE  now \in Times /\ now \in Nat /\ Truncated \in Times
<1>1. now \in Nat /\ now =< MaxTime + Term /\ {Term, MaxTime} \subseteq Nat
  BY BoundsAssumption DEF TypeOK
<1>2. \A n \in Nat, s \in Nat \ {0} : n - (n % s) \in Nat /\ n - (n % s) =< n
  OBVIOUS
<1>3. Truncated \in Nat /\ Truncated =< now
  BY <1>1, <1>2, BoundsAssumption DEF Truncated
<1>4. QED
  BY <1>1, <1>3 DEF Times

LEMMA PlanFields ==
    ASSUME NEW p \in Plan
    PROVE  /\ p.decidedAt \in Int /\ p.checkedAt \in Int
           /\ p.window \in Spans \cup {None}
           /\ p.window # None => /\ p.window \in Spans
                                 /\ p.window.start \in Int /\ p.window.end \in Int
                                 /\ p.window.start < p.window.end
BY TimesAreNumbers DEF Plan

LEMMA CaseFields ==
    ASSUME NEW case \in Case
    PROVE  /\ case.rev \in Nat /\ case.generation \in Nat
           /\ case.plan \in Plan \cup {None}
           /\ case.captures \in SUBSET Recording
           /\ \A x \in case.captures :
                /\ x \in Recording /\ x.generation \in Nat /\ x.span \in Spans
                /\ x.span.start \in Int /\ x.span.end \in Int
                /\ x.span.start < x.span.end /\ x.reportedAt \in Int
BY TimesAreNumbers DEF Case, Recording

LEMMA RequestFields ==
    ASSUME NEW q \in Requests
    PROVE  /\ q.case \in Cases /\ q.op \in {"PLAN", "RELEASE", "CAPTURE"}
           /\ q.op = "PLAN" => /\ q.team \in Devices \X Operators
                               /\ q.window \in Spans \cup {None}
           /\ q.op = "CAPTURE" => q.span \in Spans
BY DEF Requests

(* Changing one field at a time.                                           *)
LEMMA FieldTypes ==
    ASSUME NEW case \in Case
    PROVE  /\ [case EXCEPT !.rev = @ + 1] \in Case
           /\ [case EXCEPT !.generation = @ + 1] \in Case
           /\ \A p \in Plan : [case EXCEPT !.plan = p] \in Case
           /\ \A s \in States : [case EXCEPT !.state = s] \in Case
           /\ \A t \in Times : [case EXCEPT !.authorizedAt = t] \in Case
           /\ \A x \in Recording :
                [case EXCEPT !.captures = @ \cup {x}] \in Case
<1>1. [case EXCEPT !.rev = @ + 1] \in Case
  BY DEF Case
<1>2. [case EXCEPT !.generation = @ + 1] \in Case
  BY DEF Case
<1>3. ASSUME NEW p \in Plan PROVE [case EXCEPT !.plan = p] \in Case
  BY DEF Case
<1>4. ASSUME NEW s \in States PROVE [case EXCEPT !.state = s] \in Case
  BY DEF Case
<1>5. ASSUME NEW t \in Times PROVE [case EXCEPT !.authorizedAt = t] \in Case
  BY DEF Case
<1>6. ASSUME NEW x \in Recording
      PROVE  [case EXCEPT !.captures = @ \cup {x}] \in Case
  BY DEF Case
<1>7. QED
  BY <1>1, <1>2, <1>3, <1>4, <1>5, <1>6

LEMMA PlannedOK ==
    ASSUME TypeOK, NEW case, CaseOK(case), NEW q \in Requests, q.op = "PLAN",
           CanPlan(case, q)
    PROVE  LET next == Planned(case, q)
           IN  /\ CaseOK(next) /\ next.plan # None
               /\ next.captures = {} /\ next.generation = 0
               /\ next.plan.reservation # "RELEASED"
               /\ next.plan.decidedAt = now
<1> DEFINE next == Planned(case, q)
           reservation == IF q.window = None THEN "NONE" ELSE "ACTIVE"
           plan == [device |-> q.team[1], operator |-> q.team[2],
                    approvedAt |-> Truncated, decidedAt |-> now,
                    checkedAt |-> now, window |-> q.window,
                    reservation |-> reservation]
<1>1. plan \in Plan
  <2>1. q.team[1] \in Devices /\ q.team[2] \in Operators
    BY RequestFields
  <2>2. reservation \in {"NONE", "ACTIVE", "RELEASED", "CONSUMED"}
    OBVIOUS
  <2>3. QED
    BY <2>1, <2>2, NowIsATime, RequestFields DEF Plan
<1>2. case \in Case /\ case.captures = {} /\ case.generation = 0
  BY DEF CaseOK, CanPlan
<1>3. next = [case EXCEPT !.rev = @ + 1, !.state = "READY_FOR_CAPTURE", !.plan = plan]
  BY DEF Planned
<1>4. next \in Case /\ next.plan = plan /\ next.captures = {} /\ next.generation = 0
      /\ next.state = "READY_FOR_CAPTURE"
  <2> HIDE DEF plan, next
  <2> DEFINE a == [case EXCEPT !.rev = @ + 1]
             b == [a EXCEPT !.state = "READY_FOR_CAPTURE"]
  <2>1. a \in Case
    BY <1>2, FieldTypes
  <2>2. b \in Case
    <3> HIDE DEF a
    <3> QED
      BY <2>1, FieldTypes DEF States
  <2>3. next = [b EXCEPT !.plan = plan]
    BY <1>3
  <2>4. next \in Case
    <3> HIDE DEF b
    <3> QED
      BY <1>1, <2>2, <2>3, FieldTypes
  <2>5. QED
    BY <1>2, <1>3, <2>4 DEF Case
<1>5. plan # None
  BY <1>1, NoneAssumption
<1>6. PlanOK(next)
  <2>1. plan.window = None <=> plan.reservation = "NONE"
    OBVIOUS
  <2>2. plan.reservation # "CONSUMED"
    OBVIOUS
  <2> HIDE DEF plan, next
  <2> QED
    BY <1>4, <2>1, <2>2 DEF PlanOK
<1>7. plan.reservation # "RELEASED" /\ plan.decidedAt = now
  OBVIOUS
<1> HIDE DEF plan, next
<1>8. QED
  BY <1>4, <1>5, <1>6, <1>7 DEF CaseOK, next

LEMMA ReleasedOK ==
    ASSUME NEW case, CaseOK(case), CanRelease(case)
    PROVE  LET next == Released(case)
           IN  /\ CaseOK(next) /\ next.plan # None
               /\ next.captures = case.captures
               /\ next.plan.reservation = "RELEASED"
<1> DEFINE next == Released(case)
           plan == [case.plan EXCEPT !.reservation = "RELEASED"]
<1>1. /\ case \in Case /\ case.plan \in Plan /\ case.generation = 0
      /\ case.captures = {} /\ case.plan.window # None
      /\ case.state = "READY_FOR_CAPTURE" /\ PlanOK(case)
  BY CaseFields DEF CaseOK, CanRelease, PlanOK
<1>2. plan \in Plan /\ plan # None /\ plan.reservation = "RELEASED"
      /\ plan.window = case.plan.window
  BY <1>1, NoneAssumption DEF Plan
<1>3. next = [case EXCEPT !.rev = @ + 1, !.plan = plan]
  BY <1>1 DEF Released, Case
<1>4. /\ next \in Case /\ next.plan = plan /\ next.captures = {}
      /\ next.generation = 0 /\ next.state = "READY_FOR_CAPTURE"
  <2> HIDE DEF plan, next
  <2> DEFINE a == [case EXCEPT !.rev = @ + 1]
  <2>1. a \in Case
    BY <1>1, FieldTypes
  <2>2. next = [a EXCEPT !.plan = plan]
    BY <1>3
  <2>3. next \in Case
    <3> HIDE DEF a
    <3> QED
      BY <1>2, <2>1, <2>2, FieldTypes
  <2>4. QED
    BY <1>1, <1>3, <2>3 DEF Case
<1> HIDE DEF plan, next
<1>5. PlanOK(next)
  BY <1>1, <1>2, <1>4 DEF PlanOK
<1>6. QED
  BY <1>1, <1>2, <1>4, <1>5 DEF CaseOK, next

LEMMA CapturedOK ==
    ASSUME TypeOK, NEW case, CaseOK(case), NEW s \in Spans, CanCapture(case, s)
    PROVE  LET next == Captured(case, s)
           IN  /\ CaseOK(next)
               /\ next.captures = case.captures \cup
                    {[span |-> s, generation |-> case.generation + 1,
                      reportedAt |-> now]}
               /\ next.generation = case.generation + 1
               /\ case.plan \in Plan /\ next.plan \in Plan
               /\ next.plan.window = case.plan.window
               /\ next.plan.device = case.plan.device
               /\ next.plan.operator = case.plan.operator
               /\ next.plan.decidedAt = case.plan.decidedAt
               /\ next.plan.checkedAt = case.plan.checkedAt
               /\ case.plan.reservation # "RELEASED"
               /\ case.plan.window # None => next.plan.reservation = "CONSUMED"
<1> DEFINE next == Captured(case, s)
           recording == [span |-> s, generation |-> case.generation + 1,
                         reportedAt |-> now]
           used == IF case.plan.window = None THEN case.plan.reservation
                   ELSE "CONSUMED"
           plan == [case.plan EXCEPT !.reservation = used]
<1>1. /\ case \in Case /\ case.plan \in Plan /\ case.generation \in Nat
      /\ case.state = "READY_FOR_CAPTURE" /\ PlanOK(case)
      /\ case.plan.reservation # "RELEASED"
      /\ case.plan.window # None => /\ case.plan.window.start =< s.start
                                    /\ s.end =< case.plan.window.end
  BY CaseFields DEF CaseOK, CanCapture
<1>2. used \in {"NONE", "ACTIVE", "RELEASED", "CONSUMED"}
  BY <1>1 DEF Plan
<1>3. /\ plan \in Plan /\ plan # None /\ plan.reservation = used
      /\ plan.window = case.plan.window /\ plan.decidedAt = case.plan.decidedAt
      /\ plan.device = case.plan.device /\ plan.operator = case.plan.operator
      /\ plan.checkedAt = case.plan.checkedAt
  <2> HIDE DEF used
  <2> QED
    BY <1>1, <1>2, NoneAssumption DEF Plan
<1>4. recording \in Recording
  BY <1>1, NowIsATime DEF Recording
<1>5. next = [case EXCEPT !.rev = @ + 1, !.state = "CAPTURED",
                          !.captures = @ \cup {recording},
                          !.generation = @ + 1, !.plan = plan]
  BY <1>1 DEF Captured, Case
<1>6. /\ next \in Case /\ next.plan = plan
      /\ next.captures = case.captures \cup {recording}
      /\ next.generation = case.generation + 1 /\ next.state = "CAPTURED"
  <2> HIDE DEF plan, next, recording
  <2> DEFINE a == [case EXCEPT !.rev = @ + 1]
             b == [a EXCEPT !.state = "CAPTURED"]
             d == [b EXCEPT !.captures = @ \cup {recording}]
             e == [d EXCEPT !.generation = @ + 1]
  <2>1. a \in Case
    BY <1>1, FieldTypes
  <2>2. b \in Case
    <3> HIDE DEF a
    <3> QED
      BY <2>1, FieldTypes DEF States
  <2>3. d \in Case
    <3> HIDE DEF b
    <3> QED
      BY <1>4, <2>2, FieldTypes
  <2>4. e \in Case
    <3> HIDE DEF d
    <3> QED
      BY <2>3, FieldTypes
  <2>5. next = [e EXCEPT !.plan = plan]
    BY <1>1, <1>5 DEF Case
  <2>6. next \in Case
    <3> HIDE DEF e
    <3> QED
      BY <1>3, <2>4, <2>5, FieldTypes
  <2>7. QED
    BY <1>1, <1>5, <2>6 DEF Case
<1>7. recording.span = s /\ recording.generation = case.generation + 1
  OBVIOUS
<1> HIDE DEF plan, next, recording
<1>8. PlanOK(next)
  <2>1. plan.window = None <=> plan.reservation = "NONE"
    BY <1>1, <1>3 DEF PlanOK, used
  <2>2. ASSUME plan.window # None
        PROVE  /\ plan.reservation = "CONSUMED"
               /\ \A x \in next.captures :
                    x.generation = 1 => /\ plan.window.start =< x.span.start
                                        /\ x.span.end =< plan.window.end
    BY <1>1, <1>3, <1>6, <1>7, <2>2 DEF PlanOK, used
  <2>3. next.generation > 0
    BY <1>1, <1>6
  <2>4. QED
    BY <1>6, <2>1, <2>2, <2>3 DEF PlanOK
<1>9. CaseOK(next)
  BY <1>1, <1>3, <1>6, <1>8 DEF CaseOK
<1>10. QED
  BY <1>1, <1>3, <1>6, <1>9 DEF next, used, recording

(***************************************************************************)
(* Two cases at a time.                                                    *)
(***************************************************************************)

LEMMA RelationsAreSymmetric ==
    ASSUME NEW case, NEW other
    PROVE  /\ Apart(case, other) => Apart(other, case)
           /\ BookedApart(case, other) => BookedApart(other, case)
BY DEF Apart, BookedApart, Rivals, SharedResource, Overlap, OverBefore

(* What is over or released is no longer held, and time only makes more    *)
(* windows be over.                                                        *)
LEMMA HeldFades ==
    ASSUME TypeOK, now' \in Nat, now =< now', NEW case \in Case, Held(case)'
    PROVE  Held(case)
BY CaseFields, PlanFields, NowIsATime DEF Held

(* A released reservation keeps nobody out.                                *)
LEMMA ReleasedFits ==
    ASSUME NEW case, NEW c \in Cases, CaseOK(case), CanRelease(case)
    PROVE  Fits(c, Released(case))
<1>1. Released(case).plan.reservation = "RELEASED"
  BY ReleasedOK
<1>2. QED
  BY <1>1 DEF Fits, Apart, BookedApart, Held

(* A capture changes neither the window of a case nor what it shares.      *)
LEMMA CapturedFits ==
    ASSUME TypeOK, NEW case, NEW c \in Cases, CaseOK(case), NEW s \in Spans,
           CanCapture(case, s), CasesOK, Fits(c, case)
    PROVE  Fits(c, Captured(case, s))
<1> DEFINE next == Captured(case, s)
<1> SUFFICES ASSUME NEW d \in Cases \ {c}
             PROVE  Apart(next, cases[d]) /\ BookedApart(next, cases[d])
  BY DEF Fits
<1>1. /\ next.plan.window = case.plan.window
      /\ next.plan.device = case.plan.device
      /\ next.plan.operator = case.plan.operator
      /\ next.plan.decidedAt = case.plan.decidedAt
      /\ next.plan.checkedAt = case.plan.checkedAt
      /\ case.plan # None /\ case.plan.reservation # "RELEASED"
      /\ case.plan.window # None => next.plan.reservation = "CONSUMED"
      /\ next.generation = case.generation + 1
      /\ next.captures = case.captures \cup
           {[span |-> s, generation |-> case.generation + 1,
             reportedAt |-> now]}
      /\ case.generation \in Nat
  BY CapturedOK, CaseFields, NoneAssumption DEF CaseOK
<1>2. Apart(case, cases[d])
  BY DEF Fits
<1> HIDE DEF next
<1>3. BookedApart(next, cases[d])
  BY <1>1 DEF BookedApart, Held
<1>4. Apart(next, cases[d])
  <2> DEFINE q == cases[d].plan
             p == case.plan
  <2> SUFFICES ASSUME Rivals(next, cases[d]), q.reservation # "RELEASED",
                      ~DecidedOverTheEnd(next.plan, q),
                      ~DecidedOverTheEnd(q, next.plan)
               PROVE  \/ ~Overlap(next.plan.window, q.window)
                      \/ OverBefore(next, q)
                      \/ OverBefore(cases[d], next.plan)
    BY DEF Apart
  <2>1. Rivals(case, cases[d])
    BY <1>1 DEF Rivals, SharedResource
  <2>2. ~DecidedOverTheEnd(p, q) /\ ~DecidedOverTheEnd(q, p)
    BY <1>1 DEF DecidedOverTheEnd
  <2>3. \/ ~Overlap(p.window, q.window)
        \/ OverBefore(case, q) \/ OverBefore(cases[d], p)
    BY <1>1, <1>2, <2>1, <2>2 DEF Apart
  <2>4. CASE ~Overlap(p.window, q.window) \/ p.window.end =< q.decidedAt
    BY <1>1, <2>4 DEF OverBefore
  <2>5. CASE RecordedBefore(case, q)
    <3>1. case.generation + 1 # 1
      BY <1>1, <2>5 DEF RecordedBefore
    <3>2. RecordedBefore(next, q)
      BY <1>1, <2>5, <3>1 DEF RecordedBefore
    <3>3. QED
      BY <3>2 DEF OverBefore
  <2>6. CASE OverBefore(cases[d], p)
    BY <1>1, <2>6 DEF OverBefore, RecordedBefore
  <2>7. QED
    BY <2>3, <2>4, <2>5, <2>6 DEF OverBefore
<1>5. QED
  BY <1>3, <1>4

(* A plan that has no conflicts fits: a reservation it was not compared    *)
(* with was over, so decided over, or over before it was decided; or it    *)
(* was consumed, by a recording reported before it was decided.            *)
LEMMA CheckedFits ==
    ASSUME TypeOK, CasesOK, NEW c \in Cases, NEW case, CaseOK(case),
           case.plan # None,
           case.plan.window # None => case.plan.checkedAt = now,
           \A d \in Cases : \A x \in cases[d].captures :
               x.reportedAt =< case.plan.decidedAt,
           PlanResourceConflicts(c, case.plan) = {}
    PROVE  Fits(c, case)
<1> DEFINE p == case.plan
<1> SUFFICES ASSUME NEW d \in Cases \ {c}
             PROVE  Apart(case, cases[d]) /\ BookedApart(case, cases[d])
  BY DEF Fits
<1> DEFINE q == cases[d].plan
<1>1. CaseOK(cases[d])
  BY DEF CasesOK
<1>2. ~(/\ p.window # None /\ Held(cases[d])
        /\ Overlap(p.window, q.window) /\ SharedResource(p, q))
  BY DEF PlanResourceConflicts
<1>3. BookedApart(case, cases[d])
  BY <1>2 DEF BookedApart, Held
<1>4. Apart(case, cases[d])
  <2> SUFFICES ASSUME Rivals(case, cases[d]), q.reservation # "RELEASED",
                      ~DecidedOverTheEnd(p, q)
               PROVE  ~Overlap(p.window, q.window) \/ OverBefore(cases[d], p)
    BY DEF Apart
  <2>1. /\ p \in Plan /\ q \in Plan /\ p.window # None /\ q.window # None
        /\ SharedResource(p, q)
        /\ PlanOK(case) /\ PlanOK(cases[d]) /\ p.checkedAt = now
    BY <1>1, CaseFields DEF CaseOK, Rivals
  <2>2. CASE Held(cases[d])
    BY <1>2, <2>1, <2>2
  <2>3. CASE cases[d].generation > 0
    BY <2>3 DEF OverBefore, RecordedBefore
  <2>4. CASE ~Held(cases[d]) /\ ~(cases[d].generation > 0)
    <3>1. q.window.end < now
      <4>1. cases[d].state # "SEALED"
        BY <1>1, <2>4 DEF CaseOK
      <4>2. q.reservation # "CONSUMED"
        BY <2>1, <2>4 DEF PlanOK
      <4>3. ~(now =< q.window.end)
        BY <2>1, <2>4, <4>1, <4>2, NoneAssumption DEF Held
      <4>4. QED
        BY <2>1, <4>3, PlanFields, NowIsATime
    <3>2. q.window.end =< p.decidedAt
      BY <2>1, <3>1, PlanFields DEF DecidedOverTheEnd
    <3>3. QED
      BY <3>2 DEF OverBefore
  <2>5. QED
    BY <2>2, <2>3, <2>4
<1>5. QED
  BY <1>3, <1>4

(* A case that goes on with the same plan and the same recordings fits     *)
(* where it did.                                                           *)
LEMMA SamePlanFits ==
    ASSUME NEW case, NEW old, NEW next,
           next.plan = old.plan, next.captures = old.captures,
           next.generation = old.generation, Held(next) => Held(old)
    PROVE  /\ Apart(case, old) => Apart(case, next)
           /\ Apart(old, case) => Apart(next, case)
           /\ BookedApart(case, old) => BookedApart(case, next)
           /\ BookedApart(old, case) => BookedApart(next, case)
<1>1. /\ Apart(case, old) => Apart(case, next)
      /\ Apart(old, case) => Apart(next, case)
  BY DEF Apart, Rivals, OverBefore, RecordedBefore
<1>2. /\ BookedApart(case, old) => BookedApart(case, next)
      /\ BookedApart(old, case) => BookedApart(next, case)
  BY DEF BookedApart
<1>3. QED
  BY <1>1, <1>2

LEMMA SameTime ==
    ASSUME now' = now, NEW case, NEW other
    PROVE  /\ Held(case)' <=> Held(case)
           /\ BookedApart(case, other)' <=> BookedApart(case, other)
           /\ ReportedInThePast(case)' <=> ReportedInThePast(case)
BY DEF BookedApart, Held, ReportedInThePast

(***************************************************************************)
(* The workers.                                                            *)
(***************************************************************************)

(* createMu lets one worker at a time do anything.                         *)
LEMMA OneAtATime ==
    ASSUME TypeOK, NEW w \in Workers, NEW v \in Workers, pc[w] # "idle", v # w
    PROVE  pc[v] = "idle"
BY DEF TypeOK

LEMMA StoreStays ==
    ASSUME BookingInv, UNCHANGED <<cases, now>>
    PROVE  CasesOK' /\ \A c \in Cases : Fits(c, cases[c])'
BY DEF BookingInv, CasesOK, ReportedInThePast, Fits, BookedApart, Held

LEMMA ReturnKeeps ==
    ASSUME TypeOK, NEW w \in Workers, pc[w] # "idle", Return(w)
    PROVE  /\ createMu' \in Workers \cup {None}
           /\ \A v \in Workers : createMu' = v <=> pc'[v] # "idle"
           /\ caseLock' \in [Cases -> Workers \cup {None}]
           /\ pc' \in [Workers -> {"idle", "caseLock", "decide", "check", "commit"}]
           /\ req' \in [Workers -> Requests \cup {None}]
           /\ copy' \in [Workers -> Case \cup {None}]
           /\ \A v \in Workers : pc'[v] = "idle"
           /\ \A v \in Workers : WorkerOK(v)'
<1>1. createMu = w /\ createMu' = None
  BY DEF TypeOK, Return
<1>2. \A v \in Workers : pc'[v] = "idle"
  BY OneAtATime DEF TypeOK, Return, Goto
<1>3. \A v \in Workers : WorkerOK(v)'
  BY <1>2 DEF WorkerOK
<1>4. QED
  BY <1>1, <1>2, <1>3, NoneAssumption DEF TypeOK, Return, Goto

LEMMA GoOnKeeps ==
    ASSUME TypeOK, NEW w \in Workers, pc[w] # "idle",
           NEW label \in {"decide", "check", "commit"}, Goto(w, label),
           createMu' = createMu, req' = req, WorkerOK(w)'
    PROVE  /\ \A v \in Workers : createMu' = v <=> pc'[v] # "idle"
           /\ pc' \in [Workers -> {"idle", "caseLock", "decide", "check", "commit"}]
           /\ \A v \in Workers : WorkerOK(v)'
<1>1. pc' \in [Workers -> {"idle", "caseLock", "decide", "check", "commit"}]
  BY DEF TypeOK, Goto
<1>2. pc'[w] = label /\ \A v \in Workers : v # w => pc'[v] = pc[v]
  BY DEF TypeOK, Goto
<1>3. \A v \in Workers : v # w => WorkerOK(v)'
  BY <1>2, OneAtATime DEF WorkerOK
<1>4. QED
  BY <1>1, <1>2, <1>3 DEF TypeOK

LEMMA OffersAreRequests ==
    ASSUME TypeOK, NEW c \in Cases, NEW q \in Offers(c)
    PROVE  q \in Requests
<1>1. cases[c].rev \in Nat
  BY CaseFields DEF TypeOK
<1>2. Teams[c] \subseteq Devices \X Operators
  BY BoundsAssumption
<1>3. QED
  BY <1>1, <1>2, SpansAssumption DEF Offers, Requests

LEMMA ReceiveStep ==
    ASSUME BookingInv, NEW w \in Workers, NEW c \in Cases, NEW q \in Offers(c),
           Receive(w, q)
    PROVE  BookingInv'
<1>1. TypeOK
  BY DEF BookingInv
<1>2. q \in Requests
  BY <1>1, OffersAreRequests
<1>3. \A v \in Workers : pc[v] = "idle"
  BY <1>1, NoneAssumption DEF TypeOK, Receive
<1>4. /\ pc'[w] = "caseLock" /\ req'[w] = q
      /\ \A v \in Workers : v # w => pc'[v] = "idle"
  BY <1>1, <1>3 DEF TypeOK, Receive, Goto
<1>5. TypeOK'
  BY <1>1, <1>2, <1>4, NoneAssumption DEF TypeOK, Receive, Goto
<1>6. \A v \in Workers : WorkerOK(v)'
  BY <1>2, <1>4 DEF WorkerOK, Receive
<1>7. QED
  BY <1>5, <1>6, StoreStays DEF BookingInv, Receive

LEMMA LockCaseStep ==
    ASSUME BookingInv, NEW w \in Workers, LockCase(w)
    PROVE  BookingInv'
<1> DEFINE c == req[w].case
<1>1. TypeOK /\ WorkerOK(w)
  BY DEF BookingInv
<1>2. req[w] \in Requests /\ c \in Cases /\ pc[w] = "caseLock"
  BY <1>1, RequestFields DEF WorkerOK, LockCase
<1>3. cases[c] \in Case
  BY <1>1, <1>2 DEF TypeOK
<1>4. /\ pc'[w] = "decide" /\ copy'[w] = cases[c] /\ caseLock'[c] = w
      /\ req' = req /\ cases' = cases /\ now' = now
  BY <1>1, <1>2 DEF TypeOK, LockCase, Goto
<1>5. WorkerOK(w)'
  BY <1>2, <1>4 DEF WorkerOK
<1>6. /\ Goto(w, "decide") /\ createMu' = createMu
      /\ caseLock' \in [Cases -> Workers \cup {None}]
      /\ copy' \in [Workers -> Case \cup {None}]
  BY <1>1, <1>2, <1>3 DEF TypeOK, LockCase
<1>7. /\ \A v \in Workers : createMu' = v <=> pc'[v] # "idle"
      /\ pc' \in [Workers -> {"idle", "caseLock", "decide", "check", "commit"}]
      /\ \A v \in Workers : WorkerOK(v)'
  BY <1>1, <1>2, <1>4, <1>5, <1>6, GoOnKeeps
<1>8. TypeOK'
  BY <1>1, <1>4, <1>6, <1>7 DEF TypeOK
<1>9. QED
  BY <1>4, <1>7, <1>8, StoreStays DEF BookingInv

(* A decided copy, ready to be checked or to be committed.                 *)
LEMMA DecidedOK ==
    ASSUME cases' = cases, now' = now, req' = req, NEW w \in Workers,
           NEW next, copy'[w] = next, pc'[w] \in {"check", "commit"},
           req[w] \in Requests,
           CaseOK(next), next.plan # None, ReportedInThePast(next),
           pc'[w] = "check" =>
             /\ next.generation = 0 /\ next.plan.reservation # "RELEASED"
             /\ \A d \in Cases : \A x \in cases[d].captures :
                  x.reportedAt =< next.plan.decidedAt,
           pc'[w] = "commit" => Fits(req[w].case, next)
    PROVE  WorkerOK(w)'
<1>1. ReportedInThePast(copy[w])'
  BY DEF ReportedInThePast
<1>2. pc'[w] = "commit" => Fits(req[w].case, copy[w])'
  BY DEF Fits, BookedApart, Held
<1>3. QED
  BY <1>1, <1>2 DEF WorkerOK

(* Whatever is decided on, the copy stays a possible case.                 *)
LEMMA DecideStep ==
    ASSUME BookingInv, NEW w \in Workers, Decide(w)
    PROVE  BookingInv'
<1> DEFINE q == req[w]
           c == q.case
           case == cases[c]
           next == Applied(case, q)
           label == IF q.op = "PLAN" THEN "check" ELSE "commit"
<1>1. TypeOK /\ WorkerOK(w) /\ CasesOK /\ pc[w] = "decide"
      /\ cases' = cases /\ now' = now
  BY DEF BookingInv, Decide
<1>2. q \in Requests /\ c \in Cases /\ copy[w] = case
  BY <1>1, RequestFields DEF WorkerOK
<1>3. /\ CaseOK(case) /\ case \in Case /\ ReportedInThePast(case)
      /\ Fits(c, case)
  BY <1>1, <1>2 DEF CasesOK, CaseOK, BookingInv
<1>4. CASE Return(w)
  <2>1. TypeOK' /\ \A v \in Workers : WorkerOK(v)'
    BY <1>1, <1>4, ReturnKeeps DEF TypeOK
  <2>2. QED
    BY <1>1, <2>1, StoreStays DEF BookingInv
<1>5. CASE /\ Accepted(case, q)
           /\ copy' = [copy EXCEPT ![w] = next]
           /\ Goto(w, label) /\ UNCHANGED <<lockVars, req>>
  <2>1. /\ createMu' = createMu /\ caseLock' = caseLock /\ req' = req
        /\ pc'[w] = label /\ copy'[w] = next
    BY <1>1, <1>5 DEF TypeOK, Goto, lockVars
  <2>2. CaseOK(next) /\ next.plan # None /\ ReportedInThePast(next) /\ WorkerOK(w)'
    <3>1. CASE q.op = "PLAN"
      <4>1. CanPlan(case, q) /\ next = Planned(case, q)
        BY <1>5, <3>1 DEF Accepted, Applied
      <4>2. /\ CaseOK(next) /\ next.plan # None
            /\ next.captures = {} /\ next.generation = 0
            /\ next.plan.reservation # "RELEASED"
            /\ next.plan.decidedAt = now
        BY <1>1, <1>2, <1>3, <3>1, <4>1, PlannedOK
      <4>3. ReportedInThePast(next)
        BY <4>2 DEF ReportedInThePast
      <4>4. \A d \in Cases : \A x \in cases[d].captures :
                x.reportedAt =< next.plan.decidedAt
        BY <1>1, <4>2 DEF CasesOK, ReportedInThePast
      <4>5. pc'[w] = "check"
        BY <2>1, <3>1
      <4> HIDE DEF next
      <4>6. WorkerOK(w)'
        BY <1>1, <1>2, <2>1, <4>2, <4>3, <4>4, <4>5, DecidedOK
      <4>7. QED
        BY <4>2, <4>3, <4>6
    <3>2. CASE q.op = "RELEASE"
      <4>1. CanRelease(case) /\ next = Released(case)
        BY <1>5, <3>2 DEF Accepted, Applied
      <4>2. /\ CaseOK(next) /\ next.plan # None
            /\ next.captures = case.captures /\ Fits(c, next)
        BY <1>2, <1>3, <4>1, ReleasedOK, ReleasedFits
      <4>3. ReportedInThePast(next)
        BY <1>3, <4>2 DEF ReportedInThePast
      <4>4. pc'[w] = "commit"
        BY <2>1, <3>2
      <4> HIDE DEF next
      <4>5. WorkerOK(w)'
        BY <1>1, <1>2, <2>1, <4>2, <4>3, <4>4, DecidedOK
      <4>6. QED
        BY <4>2, <4>3, <4>5
    <3>3. CASE q.op = "CAPTURE"
      <4>1. CanCapture(case, q.span) /\ next = Captured(case, q.span)
        BY <1>5, <3>3 DEF Accepted, Applied
      <4>2. q.span \in Spans
        BY <1>2, <3>3, RequestFields
      <4>3. /\ CaseOK(next) /\ next.plan \in Plan
            /\ next.captures = case.captures \cup
                 {[span |-> q.span, generation |-> case.generation + 1,
                   reportedAt |-> now]}
            /\ Fits(c, next)
        BY <1>1, <1>2, <1>3, <4>1, <4>2, CapturedOK, CapturedFits
      <4>4. ReportedInThePast(next)
        BY <1>1, <1>3, <4>3, NowIsATime DEF ReportedInThePast
      <4>5. pc'[w] = "commit" /\ next.plan # None
        BY <2>1, <3>3, <4>3, NoneAssumption
      <4> HIDE DEF next
      <4>6. WorkerOK(w)'
        BY <1>1, <1>2, <2>1, <4>3, <4>4, <4>5, DecidedOK
      <4>7. QED
        BY <4>3, <4>4, <4>5, <4>6
    <3>4. QED
      BY <1>2, <3>1, <3>2, <3>3, RequestFields
  <2>3. copy' \in [Workers -> Case \cup {None}]
    BY <1>1, <1>5, <2>2 DEF TypeOK, CaseOK
  <2>4. label \in {"decide", "check", "commit"}
    OBVIOUS
  <2>5. /\ \A v \in Workers : createMu' = v <=> pc'[v] # "idle"
        /\ pc' \in [Workers -> {"idle", "caseLock", "decide", "check", "commit"}]
        /\ \A v \in Workers : WorkerOK(v)'
    BY <1>1, <1>5, <2>1, <2>2, <2>4, GoOnKeeps
  <2>6. TypeOK'
    BY <1>1, <2>1, <2>3, <2>5 DEF TypeOK
  <2>7. QED
    BY <1>1, <2>5, <2>6, StoreStays DEF BookingInv
<1>6. QED
  BY <1>2, <1>4, <1>5 DEF Decide

LEMMA CheckStep ==
    ASSUME BookingInv, NEW w \in Workers, Check(w)
    PROVE  BookingInv'
<1> DEFINE c == req[w].case
           case == copy[w]
           checked == [case EXCEPT !.plan = [@ EXCEPT !.checkedAt = now]]
           next == IF case.plan.window = None THEN case ELSE checked
<1>1. TypeOK /\ WorkerOK(w) /\ CasesOK /\ pc[w] = "check"
      /\ cases' = cases /\ now' = now
  BY DEF BookingInv, Check
<1>2. /\ req[w] \in Requests /\ c \in Cases
      /\ CaseOK(case) /\ case \in Case /\ case.plan \in Plan
      /\ case.generation = 0 /\ ReportedInThePast(case)
      /\ \A d \in Cases : \A x \in cases[d].captures :
           x.reportedAt =< case.plan.decidedAt
  BY <1>1, RequestFields, CaseFields DEF WorkerOK, CaseOK
<1>3. CASE Return(w)
  <2>1. TypeOK' /\ \A v \in Workers : WorkerOK(v)'
    BY <1>1, <1>3, ReturnKeeps DEF TypeOK
  <2>2. QED
    BY <1>1, <2>1, StoreStays DEF BookingInv
<1>4. CASE /\ PlanResourceConflicts(c, case.plan) = {}
           /\ copy' = IF case.plan.window = None THEN copy
                      ELSE [copy EXCEPT ![w].plan.checkedAt = now]
           /\ Goto(w, "commit") /\ UNCHANGED <<lockVars, req>>
  <2>1. /\ createMu' = createMu /\ caseLock' = caseLock /\ req' = req
        /\ pc'[w] = "commit" /\ copy' = [copy EXCEPT ![w] = next]
        /\ copy'[w] = next
    BY <1>1, <1>2, <1>4 DEF TypeOK, Goto, lockVars, Case
  <2> DEFINE plan == [case.plan EXCEPT !.checkedAt = now]
  <2>2. /\ plan \in Plan /\ plan # None
        /\ plan.window = case.plan.window /\ plan.device = case.plan.device
        /\ plan.operator = case.plan.operator
        /\ plan.decidedAt = case.plan.decidedAt /\ plan.checkedAt = now
        /\ plan.reservation = case.plan.reservation
    BY <1>1, <1>2, NowIsATime, NoneAssumption DEF Plan
  <2>3. checked = [case EXCEPT !.plan = plan]
    BY <1>2 DEF Case
  <2>4. /\ checked \in Case /\ checked.plan = plan
        /\ checked.captures = case.captures /\ checked.generation = 0
        /\ checked.state = case.state
    <3> HIDE DEF plan, checked
    <3> QED
      BY <1>2, <2>2, <2>3, FieldTypes DEF Case
  <2>5. /\ CaseOK(next) /\ next.plan # None /\ ReportedInThePast(next)
        /\ next.plan.window # None => next.plan.checkedAt = now
        /\ next.plan.decidedAt = case.plan.decidedAt
        /\ PlanResourceConflicts(c, next.plan) = {}
    <3>1. CASE case.plan.window = None
      BY <1>2, <1>4, <3>1, NoneAssumption
    <3>2. CASE case.plan.window # None
      <4>1. next = checked
        BY <3>2
      <4> HIDE DEF plan, checked, next
      <4>2. PlanOK(case) => PlanOK(checked)
        BY <2>2, <2>4, <1>2 DEF PlanOK
      <4>3. CaseOK(checked)
        BY <1>2, <2>2, <2>4, <4>2, NoneAssumption DEF CaseOK
      <4>4. ReportedInThePast(checked)
        BY <1>2, <2>4 DEF ReportedInThePast
      <4>5. PlanResourceConflicts(c, checked.plan) = {}
        BY <1>4, <2>2, <2>4 DEF PlanResourceConflicts, SharedResource, Overlap
      <4>6. QED
        BY <2>2, <2>4, <4>1, <4>3, <4>4, <4>5
    <3>3. QED
      BY <3>1, <3>2
  <2> HIDE DEF next
  <2>6. Fits(c, next)
    BY <1>1, <1>2, <2>5, CheckedFits
  <2>7. WorkerOK(w)'
    BY <1>1, <1>2, <2>1, <2>5, <2>6, DecidedOK
  <2>8. copy' \in [Workers -> Case \cup {None}]
    BY <1>1, <2>1, <2>5 DEF TypeOK, CaseOK
  <2>9. /\ \A v \in Workers : createMu' = v <=> pc'[v] # "idle"
        /\ pc' \in [Workers -> {"idle", "caseLock", "decide", "check", "commit"}]
        /\ \A v \in Workers : WorkerOK(v)'
    BY <1>1, <1>4, <2>1, <2>7, GoOnKeeps
  <2>10. TypeOK'
    BY <1>1, <2>1, <2>8, <2>9 DEF TypeOK
  <2>11. QED
    BY <1>1, <2>9, <2>10, StoreStays DEF BookingInv
<1>5. QED
  BY <1>3, <1>4 DEF Check

(* The one step that books, gives up or uses a window.                     *)
LEMMA CommitStep ==
    ASSUME BookingInv, NEW w \in Workers, Commit(w)
    PROVE  BookingInv'
<1> DEFINE c == req[w].case
           next == copy[w]
<1>1. TypeOK /\ WorkerOK(w) /\ CasesOK /\ pc[w] = "commit"
      /\ Return(w) /\ now' = now
  BY DEF BookingInv, Commit
<1>2. /\ c \in Cases /\ CaseOK(next) /\ next \in Case
      /\ ReportedInThePast(next) /\ Fits(c, next)
  BY <1>1, RequestFields DEF WorkerOK, CaseOK
<1>3. CASE UNCHANGED cases
  <2>1. TypeOK' /\ \A v \in Workers : WorkerOK(v)'
    BY <1>1, <1>3, ReturnKeeps DEF TypeOK
  <2>2. QED
    BY <1>1, <1>3, <2>1, StoreStays DEF BookingInv
<1>4. CASE cases' = [cases EXCEPT ![c] = next]
  <2>1. cases'[c] = next /\ \A d \in Cases \ {c} : cases'[d] = cases[d]
    BY <1>1, <1>2, <1>4 DEF TypeOK
  <2>2. cases' \in [Cases -> Case]
    BY <1>1, <1>2, <1>4 DEF TypeOK
  <2>3. TypeOK' /\ \A v \in Workers : WorkerOK(v)'
    BY <1>1, <2>2, ReturnKeeps DEF TypeOK
  <2>4. CasesOK'
    BY <1>1, <1>2, <2>1 DEF CasesOK, ReportedInThePast
  <2>5. ASSUME NEW d \in Cases, NEW e \in Cases \ {d}
        PROVE  (Apart(cases[d], cases[e]) /\ BookedApart(cases[d], cases[e]))'
    <3>1. Apart(cases'[d], cases'[e]) /\ BookedApart(cases'[d], cases'[e])
      <4>1. CASE d = c
        BY <1>2, <2>1, <4>1 DEF Fits
      <4>2. CASE e = c
        <5>1. Apart(next, cases[d]) /\ BookedApart(next, cases[d])
          BY <1>2, <4>2 DEF Fits
        <5>2. Apart(cases[d], next) /\ BookedApart(cases[d], next)
          BY <5>1, RelationsAreSymmetric
        <5>3. QED
          BY <2>1, <4>2, <5>2
      <4>3. CASE d # c /\ e # c
        BY <2>1, <4>3 DEF BookingInv, Fits
      <4>4. QED
        BY <4>1, <4>2, <4>3
    <3>2. QED
      BY <1>1, <3>1 DEF BookedApart, Held
  <2>6. \A d \in Cases : Fits(d, cases[d])'
    BY <2>5 DEF Fits
  <2>7. QED
    BY <2>3, <2>4, <2>6 DEF BookingInv
<1>5. QED
  BY <1>3, <1>4 DEF Commit

(* Reviews, authorizations and seals: no worker is inside the case, and    *)
(* its plan and recordings stay as they are.                               *)
LEMMA UpdateStep ==
    ASSUME BookingInv, NEW c \in Cases, NEW from, NEW next, Update(c, from, next),
           CaseOK(next), next.plan = cases[c].plan,
           next.captures = cases[c].captures,
           next.generation = cases[c].generation,
           Held(next) => Held(cases[c])
    PROVE  BookingInv'
<1>1. /\ TypeOK /\ CasesOK /\ caseLock[c] = None
      /\ cases' = [cases EXCEPT ![c] = next] /\ now' = now
      /\ createMu' = createMu /\ caseLock' = caseLock
      /\ pc' = pc /\ req' = req /\ copy' = copy
  BY DEF BookingInv, Update, lockVars, localVars
<1>2. cases'[c] = next /\ \A d \in Cases \ {c} : cases'[d] = cases[d]
  BY <1>1 DEF TypeOK
<1>3. next \in Case
  BY DEF CaseOK
<1>4. TypeOK'
  BY <1>1, <1>3 DEF TypeOK
<1>5. CasesOK'
  BY <1>1, <1>2 DEF CasesOK, ReportedInThePast
<1>6. \A d \in Cases : /\ cases'[d].plan = cases[d].plan
                       /\ cases'[d].captures = cases[d].captures
                       /\ cases'[d].generation = cases[d].generation
                       /\ Held(cases'[d]) => Held(cases[d])
  BY <1>2
<1>7. \A d \in Cases : Fits(d, cases[d])'
  <2> SUFFICES ASSUME NEW d \in Cases, NEW e \in Cases \ {d}
               PROVE  (Apart(cases[d], cases[e]) /\ BookedApart(cases[d], cases[e]))'
    BY DEF Fits
  <2>1. Apart(cases[d], cases[e]) /\ BookedApart(cases[d], cases[e])
    BY DEF BookingInv, Fits
  <2>2. Apart(cases'[d], cases[e]) /\ BookedApart(cases'[d], cases[e])
    BY <1>6, <2>1, SamePlanFits
  <2>3. Apart(cases'[d], cases'[e]) /\ BookedApart(cases'[d], cases'[e])
    BY <1>6, <2>2, SamePlanFits
  <2>4. QED
    BY <1>1, <2>3 DEF BookedApart, Held
<1>8. ASSUME NEW w \in Workers PROVE WorkerOK(w)'
  <2>1. WorkerOK(w)
    BY DEF BookingInv
  <2>2. pc[w] = "decide" => copy[w] = cases'[req[w].case]
    <3>1. pc[w] = "decide" => req[w].case \in Cases /\ req[w].case # c
      BY <1>1, <2>1, RequestFields, NoneAssumption DEF WorkerOK
    <3>2. QED
      BY <1>2, <2>1, <3>1 DEF WorkerOK
  <2>3. pc[w] = "commit" => Fits(req[w].case, copy[w])'
    <3> SUFFICES ASSUME pc[w] = "commit", NEW d \in Cases \ {req[w].case}
                 PROVE  (Apart(copy[w], cases[d]) /\ BookedApart(copy[w], cases[d]))'
      BY <1>1 DEF Fits
    <3>1. Apart(copy[w], cases[d]) /\ BookedApart(copy[w], cases[d])
      BY <2>1 DEF WorkerOK, Fits
    <3>2. Apart(copy[w], cases'[d]) /\ BookedApart(copy[w], cases'[d])
      BY <1>6, <3>1, SamePlanFits
    <3>3. QED
      BY <1>1, <3>2 DEF BookedApart, Held
  <2>4. ReportedInThePast(copy[w])' <=> ReportedInThePast(copy[w])
    BY <1>1 DEF ReportedInThePast
  <2>5. pc[w] = "check" => \A d \in Cases : \A x \in cases'[d].captures :
                              x.reportedAt =< copy[w].plan.decidedAt
    BY <1>6, <2>1 DEF WorkerOK
  <2>6. QED
    BY <1>1, <2>1, <2>2, <2>3, <2>4, <2>5 DEF WorkerOK
<1>9. QED
  BY <1>4, <1>5, <1>7, <1>8 DEF BookingInv

(* The three of them change the state of the case, or when the capture of  *)
(* a generation was authorized.                                            *)
LEMMA DecideQualityStep ==
    ASSUME BookingInv, NEW c \in Cases,
           NEW outcome \in {"QC_PASSED", "RECAPTURE_REQUIRED", "SEALED"},
           NEW from \in {"CAPTURED", "QC_PASSED"},
           Update(c, from, [cases[c] EXCEPT !.rev = @ + 1, !.state = outcome])
    PROVE  BookingInv'
<1> DEFINE next == [cases[c] EXCEPT !.rev = @ + 1, !.state = outcome]
<1>1. /\ cases[c] \in Case /\ CaseOK(cases[c]) /\ cases[c].state = from
      /\ cases[c].generation > 0
  BY DEF BookingInv, CasesOK, CaseOK, Update
<1>2. next \in Case
  <2> DEFINE a == [cases[c] EXCEPT !.rev = @ + 1]
  <2>1. a \in Case
    BY <1>1, FieldTypes
  <2>2. next = [a EXCEPT !.state = outcome]
    OBVIOUS
  <2> HIDE DEF a, next
  <2>3. QED
    BY <2>1, <2>2, FieldTypes DEF States
<1>3. /\ next.plan = cases[c].plan /\ next.captures = cases[c].captures
      /\ next.generation = cases[c].generation /\ next.state = outcome
  BY <1>1 DEF Case
<1> HIDE DEF next
<1>4. CaseOK(next) /\ (Held(next) => Held(cases[c]))
  BY <1>1, <1>2, <1>3 DEF CaseOK, PlanOK, Held
<1>5. Update(c, from, next)
  BY DEF next
<1>6. QED
  BY <1>3, <1>4, <1>5, UpdateStep

LEMMA AuthorizeRecaptureStep ==
    ASSUME BookingInv, NEW c \in Cases, AuthorizeRecapture(c)
    PROVE  BookingInv'
<1> DEFINE next == [cases[c] EXCEPT !.rev = @ + 1, !.state = "READY_FOR_CAPTURE",
                                    !.authorizedAt = now]
<1>1. /\ cases[c] \in Case /\ CaseOK(cases[c])
      /\ cases[c].state = "RECAPTURE_REQUIRED" /\ cases[c].generation > 0
  BY DEF BookingInv, CasesOK, CaseOK, AuthorizeRecapture, Update
<1>2. next \in Case
  <2> DEFINE a == [cases[c] EXCEPT !.rev = @ + 1]
             b == [a EXCEPT !.state = "READY_FOR_CAPTURE"]
  <2>1. a \in Case
    BY <1>1, FieldTypes
  <2>2. b \in Case
    <3> HIDE DEF a
    <3> QED
      BY <2>1, FieldTypes DEF States
  <2>3. next = [b EXCEPT !.authorizedAt = now]
    OBVIOUS
  <2>4. now \in Times
    BY NowIsATime DEF BookingInv
  <2> HIDE DEF b, next
  <2>5. QED
    BY <2>2, <2>3, <2>4, FieldTypes
<1>3. /\ next.plan = cases[c].plan /\ next.captures = cases[c].captures
      /\ next.generation = cases[c].generation
      /\ next.state = "READY_FOR_CAPTURE"
  BY <1>1 DEF Case
<1> HIDE DEF next
<1>4. CaseOK(next) /\ (Held(next) => Held(cases[c]))
  BY <1>1, <1>2, <1>3 DEF CaseOK, PlanOK, Held
<1>5. Update(c, "RECAPTURE_REQUIRED", next)
  BY DEF next, AuthorizeRecapture
<1>6. QED
  BY <1>3, <1>4, <1>5, UpdateStep

LEMMA TickStep ==
    ASSUME BookingInv, Tick
    PROVE  BookingInv'
<1>1. /\ TypeOK /\ CasesOK /\ now' = now + 1 /\ now < MaxTime /\ now \in Nat
      /\ cases' = cases /\ createMu' = createMu /\ caseLock' = caseLock
      /\ pc' = pc /\ req' = req /\ copy' = copy
  BY NowIsATime DEF BookingInv, Tick, lockVars, localVars
<1>2. TypeOK'
  BY <1>1, BoundsAssumption DEF TypeOK
<1>3. ASSUME NEW case \in Case, ReportedInThePast(case)
      PROVE  \A x \in case.captures : x.reportedAt =< now'
  BY <1>1, <1>3, CaseFields DEF ReportedInThePast
<1>4. ASSUME NEW case \in Case, NEW other \in Case, BookedApart(case, other)
      PROVE  BookedApart(case, other)'
  <2>1. now' \in Nat /\ now =< now'
    BY <1>1
  <2>2. (Held(case)' => Held(case)) /\ (Held(other)' => Held(other))
    BY <1>1, <2>1, HeldFades
  <2>3. QED
    BY <1>4, <2>2 DEF BookedApart
<1>5. CasesOK'
  BY <1>1, <1>3 DEF CasesOK, CaseOK, ReportedInThePast
<1>6. \A c \in Cases : cases[c] \in Case
  BY <1>1 DEF TypeOK
<1>7. \A c \in Cases : Fits(c, cases[c])'
  <2> SUFFICES ASSUME NEW c \in Cases, NEW d \in Cases \ {c}
               PROVE  (Apart(cases[c], cases[d]) /\ BookedApart(cases[c], cases[d]))'
    BY DEF Fits
  <2>1. Apart(cases[c], cases[d]) /\ BookedApart(cases[c], cases[d])
    BY DEF BookingInv, Fits
  <2>2. QED
    BY <1>1, <1>4, <1>6, <2>1 DEF BookedApart, Held
<1>8. ASSUME NEW w \in Workers PROVE WorkerOK(w)'
  <2>1. WorkerOK(w)
    BY DEF BookingInv
  <2>2. pc[w] \in {"check", "commit"} => copy[w] \in Case
    BY <2>1 DEF WorkerOK, CaseOK
  <2>3. pc[w] \in {"check", "commit"} => ReportedInThePast(copy[w])'
    BY <1>1, <1>3, <2>1, <2>2 DEF WorkerOK, ReportedInThePast
  <2>4. pc[w] = "commit" => Fits(req[w].case, copy[w])'
    <3> SUFFICES ASSUME pc[w] = "commit", NEW d \in Cases \ {req[w].case}
                 PROVE  (Apart(copy[w], cases[d]) /\ BookedApart(copy[w], cases[d]))'
      BY <1>1 DEF Fits
    <3>1. Apart(copy[w], cases[d]) /\ BookedApart(copy[w], cases[d])
      BY <2>1 DEF WorkerOK, Fits
    <3>2. QED
      BY <1>1, <1>4, <1>6, <2>2, <3>1 DEF BookedApart, Held
  <2>5. QED
    BY <1>1, <2>1, <2>3, <2>4 DEF WorkerOK
<1>9. QED
  BY <1>2, <1>5, <1>7, <1>8 DEF BookingInv

(***************************************************************************)
(* The theorems.                                                           *)
(***************************************************************************)

(* The invariant holds, whoever takes which step when.                     *)
THEOREM BookingInvariant == Spec => []BookingInv
<1>1. Init => BookingInv
  <2> SUFFICES ASSUME Init PROVE BookingInv
    OBVIOUS
  <2> DEFINE new == [rev |-> 2, state |-> "ASSESSED", plan |-> None,
                     captures |-> {}, generation |-> 0, authorizedAt |-> 0]
  <2>1. new \in Case
    BY BoundsAssumption DEF Case, States, Times
  <2>2. \A c \in Cases : cases[c] = new
    BY DEF Init
  <2>3. CaseOK(new)
    BY <2>1 DEF CaseOK
  <2>4. /\ new.plan = None /\ new.captures = {}
    OBVIOUS
  <2> HIDE DEF new
  <2>5. CasesOK
    BY <2>2, <2>3, <2>4 DEF CasesOK, ReportedInThePast
  <2>6. \A c \in Cases : Fits(c, cases[c])
    BY <2>2, <2>4 DEF Fits, Apart, Rivals, BookedApart, Held
  <2>7. \A w \in Workers : WorkerOK(w)
    BY DEF Init, WorkerOK
  <2>8. TypeOK
    <3>1. cases \in [Cases -> Case]
      BY <2>1, <2>2 DEF Init
    <3>2. \A w \in Workers : createMu = w <=> pc[w] # "idle"
      BY NoneAssumption DEF Init
    <3>3. now \in 1..MaxTime
      BY BoundsAssumption DEF Init
    <3>4. QED
      BY <3>1, <3>2, <3>3 DEF Init, TypeOK
  <2>9. QED
    BY <2>5, <2>6, <2>7, <2>8 DEF BookingInv
<1>2. BookingInv /\ [Next]_vars => BookingInv'
  <2> SUFFICES ASSUME BookingInv, [Next]_vars PROVE BookingInv'
    OBVIOUS
  <2>1. ASSUME NEW w \in Workers, Step(w) PROVE BookingInv'
    BY <2>1, LockCaseStep, DecideStep, CheckStep, CommitStep DEF Step
  <2>2. ASSUME NEW w \in Workers, NEW c \in Cases, NEW q \in Offers(c),
               Receive(w, q)
        PROVE  BookingInv'
    BY <2>2, ReceiveStep
  <2>3. ASSUME NEW c \in Cases, NEW s \in {"QC_PASSED", "RECAPTURE_REQUIRED"},
               DecideQuality(c, s)
        PROVE  BookingInv'
    BY <2>3, DecideQualityStep DEF DecideQuality
  <2>4. ASSUME NEW c \in Cases, AuthorizeRecapture(c) PROVE BookingInv'
    BY <2>4, AuthorizeRecaptureStep
  <2>5. ASSUME NEW c \in Cases, Seal(c) PROVE BookingInv'
    BY <2>5, DecideQualityStep DEF Seal
  <2>6. CASE Tick
    BY <2>6, TickStep
  <2>7. CASE UNCHANGED vars
    <3>1. /\ UNCHANGED <<cases, now>> /\ createMu' = createMu
          /\ caseLock' = caseLock /\ pc' = pc /\ req' = req /\ copy' = copy
      BY <2>7 DEF vars, lockVars, localVars
    <3>2. TypeOK'
      BY <3>1 DEF BookingInv, TypeOK
    <3>3. \A w \in Workers : WorkerOK(w)'
      BY <3>1 DEF BookingInv, WorkerOK, Fits, BookedApart, Held, ReportedInThePast
    <3>4. QED
      BY <3>1, <3>2, <3>3, StoreStays DEF BookingInv
  <2>8. QED
    BY <2>1, <2>2, <2>3, <2>4, <2>5, <2>6, <2>7 DEF Next
<1>3. QED
  BY <1>1, <1>2, PTL DEF Spec

(* No device and no operator is promised to two cases for windows that     *)
(* overlap, however plans, releases, captures and the clock interleave.    *)
THEOREM NothingIsBookedTwice == Spec => []NoDoubleBooking
<1>1. BookingInv => NoDoubleBooking
  BY DEF BookingInv, Fits, BookedApart, NoDoubleBooking
<1>2. QED
  BY <1>1, BookingInvariant, PTL

(* The first recordings of two cases with windows are not made at one time *)
(* with one device or by one operator, when each was made after the        *)
(* approval and before its report, and neither plan was overtaken by the   *)
(* end of the other's window on its way through the handler.               *)
THEOREM FirstRecordingsAreApart == Spec => []RecordingsApart
<1>1. BookingInv => RecordingsApart
  <2> SUFFICES ASSUME BookingInv, NEW c \in Cases, NEW d \in Cases, c # d,
                      cases[c].plan # None, cases[d].plan # None,
                      cases[c].plan.window # None, cases[d].plan.window # None,
                      SharedResource(cases[c].plan, cases[d].plan),
                      ~DecidedOverTheEnd(cases[c].plan, cases[d].plan),
                      ~DecidedOverTheEnd(cases[d].plan, cases[c].plan),
                      NEW x \in cases[c].captures, NEW y \in cases[d].captures,
                      x.generation = 1, y.generation = 1,
                      Timely(x, cases[c].plan), Timely(y, cases[d].plan)
               PROVE  ~Overlap(x.span, y.span)
    BY DEF RecordingsApart
  <2> DEFINE p == cases[c].plan
             q == cases[d].plan
  <2>1. CaseOK(cases[c]) /\ CaseOK(cases[d]) /\ Apart(cases[c], cases[d])
    BY DEF BookingInv, CasesOK, Fits
  <2>2. /\ cases[c] \in Case /\ cases[d] \in Case /\ p \in Plan /\ q \in Plan
        /\ PlanOK(cases[c]) /\ PlanOK(cases[d])
        /\ cases[c].generation > 0 /\ cases[d].generation > 0
    <3>1. /\ cases[c] \in Case /\ cases[d] \in Case
          /\ cases[c].generation # 0 /\ cases[d].generation # 0
      BY <2>1 DEF CaseOK
    <3>2. QED
      BY <2>1, <3>1, CaseFields DEF CaseOK
  <2>3. /\ x.span.start \in Int /\ x.span.end \in Int /\ x.span.start < x.span.end
        /\ y.span.start \in Int /\ y.span.end \in Int /\ y.span.start < y.span.end
        /\ x.reportedAt \in Int /\ y.reportedAt \in Int
    BY <2>2, CaseFields
  <2>4. /\ p.window.start =< x.span.start /\ x.span.end =< p.window.end
        /\ q.window.start =< y.span.start /\ y.span.end =< q.window.end
        /\ p.reservation = "CONSUMED" /\ q.reservation = "CONSUMED"
    BY <2>2 DEF PlanOK
  <2>5. /\ p.window.start \in Int /\ p.window.end \in Int /\ p.decidedAt \in Int
        /\ q.window.start \in Int /\ q.window.end \in Int /\ q.decidedAt \in Int
    BY <2>2, PlanFields
  <2>6. \/ ~Overlap(p.window, q.window)
        \/ OverBefore(cases[c], q) \/ OverBefore(cases[d], p)
    BY <2>1, <2>4 DEF Apart, Rivals
  <2>7. /\ p.decidedAt =< x.span.start /\ x.span.end =< x.reportedAt
        /\ q.decidedAt =< y.span.start /\ y.span.end =< y.reportedAt
    BY DEF Timely
  <2>8. CASE ~Overlap(p.window, q.window)
    BY <2>3, <2>4, <2>5, <2>8 DEF Overlap
  <2>9. CASE OverBefore(cases[c], q)
    <3>1. x.span.end =< q.decidedAt
      <4>1. p.window.end =< q.decidedAt \/ x.reportedAt =< q.decidedAt
        BY <2>9 DEF OverBefore, RecordedBefore
      <4>2. QED
        BY <2>3, <2>4, <2>5, <2>7, <4>1
    <3>2. QED
      BY <2>3, <2>5, <2>7, <3>1 DEF Overlap
  <2>10. CASE OverBefore(cases[d], p)
    <3>1. y.span.end =< p.decidedAt
      <4>1. q.window.end =< p.decidedAt \/ y.reportedAt =< p.decidedAt
        BY <2>10 DEF OverBefore, RecordedBefore
      <4>2. QED
        BY <2>3, <2>4, <2>5, <2>7, <4>1
    <3>2. QED
      BY <2>3, <2>5, <2>7, <3>1 DEF Overlap
  <2>11. QED
    BY <2>6, <2>8, <2>9, <2>10
<1>2. QED
  BY <1>1, BookingInvariant, PTL
=============================================================================
