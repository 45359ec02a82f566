---------------------------- MODULE Reservations ----------------------------
(***************************************************************************)
(* The archive's playback devices and operators, shared by all cases.  A   *)
(* plan may book a window of time for its device and its operator; the     *)
(* window is compared with the plans of all other cases in one step and    *)
(* stored in a later one, while the clock moves, reservations are released *)
(* and revised, and captures consume them.                                 *)
(*                                                                         *)
(* Plans, releases and captures hold createMu; reviews, authorizations and *)
(* seals hold only the mutex of their case and are one step each here.     *)
(* Receipts and the audit are ArchiveService's business, the other fields  *)
(* of a plan and the people are CaseLifecycle's.                           *)
(***************************************************************************)
EXTENDS Integers

CONSTANTS
    Cases,          \* assessed cases
    Workers,        \* the goroutines that plan, release and capture
    Devices,        \* playback devices, compared ignoring case
    Operators,      \* operators, compared ignoring case
    Teams,          \* the pairs of them each case is planned with: a bound
    Slots,          \* the windows clients book: a bound
    Takes,          \* the times recordings are made at: a bound
    None,           \* no holder, no request, no plan, no window
    Term,           \* how long plans and authorizations are valid
    Second,         \* the units of the clock in a second
    MaxTime,        \* bound: the clock
    MaxPlanning,    \* bound: the revision of a case up to which it is planned
    MaxRevision     \* bound: the revision of a case

ASSUME BoundsAssumption ==
    /\ {Term, MaxPlanning, MaxRevision} \subseteq Nat
    /\ {Second, MaxTime} \subseteq Nat \ {0}
    /\ Teams \in [Cases -> SUBSET (Devices \X Operators)]

VARIABLES
    cases,      \* store.Store.cases
    now,
    createMu,   \* application.App.createMu: its holder
    caseLock,   \* application.App.locks: the holder of each case's mutex
    pc, req,    \* where each worker is, and the request it serves
    copy        \* the deep copy of the case it works on

localVars == <<pc, req, copy>>
lockVars == <<createMu, caseLock>>
vars == <<cases, now, lockVars, localVars>>

(***************************************************************************)
(* Data.                                                                   *)
(***************************************************************************)
Times == 0..(MaxTime + Term)

Spans == {s \in [start : Times, end : Times] : s.start < s.end}

ASSUME SpansAssumption == Slots \subseteq Spans /\ Takes \subseteq Spans

Overlap(s, t) == s.start < t.end /\ t.start < s.end

(* decidedAt and checkedAt are not in the code: when the plan was accepted *)
(* and when its window was compared with those of other cases.  The code   *)
(* stores approvedAt, which is decidedAt cut to whole seconds.             *)
Plan == [device : Devices, operator : Operators, approvedAt : Times,
         decidedAt : Times, checkedAt : Times, window : Spans \cup {None},
         reservation : {"NONE", "ACTIVE", "RELEASED", "CONSUMED"}]

(* reportedAt is not in the code: when the recording was accepted, which   *)
(* may be before it was made as far as the code is concerned.              *)
Recording == [span : Spans, generation : Nat, reportedAt : Times]

States == {"ASSESSED", "READY_FOR_CAPTURE", "CAPTURED", "RECAPTURE_REQUIRED",
           "QC_PASSED", "SEALED"}

Case == [rev : Nat, state : States, plan : Plan \cup {None},
         captures : SUBSET Recording, generation : Nat, authorizedAt : Times]

Requests ==
    [op : {"PLAN"}, case : Cases, rev : Nat, team : Devices \X Operators,
     window : Spans \cup {None}]
      \cup [op : {"RELEASE"}, case : Cases, rev : Nat]
      \cup [op : {"CAPTURE"}, case : Cases, rev : Nat, span : Spans]

ASSUME NoneAssumption ==
    /\ None \notin Workers /\ None \notin Requests /\ None \notin Spans
    /\ None \notin Plan /\ None \notin Case

Init ==
    /\ cases = [c \in Cases |->
                  [rev |-> 2, state |-> "ASSESSED", plan |-> None,
                   captures |-> {}, generation |-> 0, authorizedAt |-> 0]]
    /\ now = 1
    /\ createMu = None
    /\ caseLock = [c \in Cases |-> None]
    /\ pc = [w \in Workers |-> "idle"]
    /\ req = [w \in Workers |-> None]
    /\ copy = [w \in Workers |-> None]

(***************************************************************************)
(* The domain, on a copy of the case.                                      *)
(***************************************************************************)

(* The beginning of the current second: a plan is valid from then on.      *)
Truncated == now - (now % Second)

(* ApprovePlan: the first plan, or a revision of one that has not been     *)
(* captured with; a window lies within the validity of the plan.           *)
CanPlan(case, q) ==
    /\ \/ case.state = "ASSESSED"
       \/ case.state = "READY_FOR_CAPTURE" /\ case.captures = {}
    /\ q.window # None => /\ Truncated =< q.window.start
                          /\ q.window.end =< Truncated + Term

Planned(case, q) ==
    [case EXCEPT
        !.rev = @ + 1,
        !.state = "READY_FOR_CAPTURE",
        !.plan = [device |-> q.team[1], operator |-> q.team[2],
                  approvedAt |-> Truncated, decidedAt |-> now,
                  checkedAt |-> now, window |-> q.window,
                  reservation |-> IF q.window = None THEN "NONE" ELSE "ACTIVE"]]

(* ReleasePlanReservation.                                                 *)
CanRelease(case) ==
    /\ case.state = "READY_FOR_CAPTURE" /\ case.captures = {}
    /\ case.plan.reservation = "ACTIVE"
    /\ now =< case.plan.window.end

Released(case) == [case EXCEPT !.rev = @ + 1, !.plan.reservation = "RELEASED"]

(* AddCapture: within the plan's validity and window, whatever has become  *)
(* of the window, and in a recapture within the authorization's validity;  *)
(* the times of a recording are not compared with the clock.               *)
CanCapture(case, s) ==
    LET p == case.plan
    IN  /\ case.state = "READY_FOR_CAPTURE"
        /\ p.reservation # "RELEASED"
        /\ p.approvedAt =< s.start /\ s.start =< p.approvedAt + Term
        /\ p.window # None => p.window.start =< s.start /\ s.end =< p.window.end
        /\ case.generation > 0 => /\ case.authorizedAt =< s.start
                                  /\ s.start =< case.authorizedAt + Term

Captured(case, s) ==
    [case EXCEPT
        !.rev = @ + 1,
        !.state = "CAPTURED",
        !.captures = @ \cup {[span |-> s, generation |-> case.generation + 1,
                              reportedAt |-> now]},
        !.generation = @ + 1,
        !.plan.reservation = IF case.plan.window = None THEN @ ELSE "CONSUMED"]

Accepted(case, q) ==
    CASE q.op = "PLAN"    -> CanPlan(case, q)
      [] q.op = "RELEASE" -> CanRelease(case)
      [] q.op = "CAPTURE" -> CanCapture(case, q.span)

Applied(case, q) ==
    CASE q.op = "PLAN"    -> Planned(case, q)
      [] q.op = "RELEASE" -> Released(case)
      [] q.op = "CAPTURE" -> Captured(case, q.span)

(***************************************************************************)
(* The store's view of the reservations.                                   *)
(***************************************************************************)

(* A reservation counts until it is consumed, released, or over; EXPIRED   *)
(* is never stored, only computed from the clock.                          *)
Held(case) ==
    /\ case.state # "SEALED"
    /\ case.plan # None
    /\ case.plan.window # None
    /\ case.plan.reservation \notin {"CONSUMED", "RELEASED"}
    /\ now =< case.plan.window.end

SharedResource(p, q) == p.device = q.device \/ p.operator = q.operator

(* Fault: only the device is compared                                    *)
ConflictsByDevice(c, p) ==
    {d \in Cases \ {c} : /\ p.window # None
                         /\ Held(cases[d])
                         /\ Overlap(p.window, cases[d].plan.window)
                         /\ p.device = cases[d].plan.device}

PlanResourceConflicts(c, p) ==
    {d \in Cases \ {c} : /\ p.window # None
                         /\ Held(cases[d])
                         /\ Overlap(p.window, cases[d].plan.window)
                         /\ SharedResource(p, cases[d].plan)}

(***************************************************************************)
(* The steps of a handler.                                                 *)
(***************************************************************************)
Goto(w, label) == pc' = [pc EXCEPT ![w] = label]

Return(w) ==
    /\ createMu' = IF createMu = w THEN None ELSE createMu
    /\ caseLock' = [c \in Cases |->
                       IF caseLock[c] = w THEN None ELSE caseLock[c]]
    /\ Goto(w, "idle")
    /\ req' = [req EXCEPT ![w] = None]
    /\ copy' = [copy EXCEPT ![w] = None]

(* Fault: createMu is not a mutex                                        *)
ReceiveUnlocked(w, q) ==
    /\ pc[w] = "idle"
    /\ q.rev < IF q.op = "CAPTURE" THEN MaxRevision ELSE MaxPlanning
    /\ createMu' = w
    /\ req' = [req EXCEPT ![w] = q]
    /\ Goto(w, "caseLock")
    /\ UNCHANGED <<cases, now, caseLock, copy>>

(* A handler begins by taking createMu; while it waits nothing happens.    *)
Receive(w, q) ==
    /\ pc[w] = "idle"
    /\ q.rev < IF q.op = "CAPTURE" THEN MaxRevision ELSE MaxPlanning
    /\ createMu = None
    /\ createMu' = w
    /\ req' = [req EXCEPT ![w] = q]
    /\ Goto(w, "caseLock")
    /\ UNCHANGED <<cases, now, caseLock, copy>>

LockCase(w) ==
    LET c == req[w].case
    IN  /\ pc[w] = "caseLock"
        /\ caseLock[c] = None
        /\ caseLock' = [caseLock EXCEPT ![c] = w]
        /\ copy' = [copy EXCEPT ![w] = cases[c]]
        /\ Goto(w, "decide")
        /\ UNCHANGED <<cases, now, createMu, req>>

Decide(w) ==
    /\ pc[w] = "decide"
    /\ \/ /\ copy[w].rev # req[w].rev \/ ~Accepted(copy[w], req[w])
          /\ Return(w)
       \/ /\ copy[w].rev = req[w].rev /\ Accepted(copy[w], req[w])
          /\ copy' = [copy EXCEPT ![w] = Applied(@, req[w])]
          /\ Goto(w, IF req[w].op = "PLAN" THEN "check" ELSE "commit")
          /\ UNCHANGED <<lockVars, req>>
    /\ UNCHANGED <<cases, now>>

(* PlanWithRequest compares the approved copy with the other cases.        *)
Check(w) ==
    LET conflicts == PlanResourceConflicts(req[w].case, copy[w].plan)
    IN  /\ pc[w] = "check"
        /\ \/ conflicts # {} /\ Return(w)
           \/ /\ conflicts = {}
              /\ copy' = IF copy[w].plan.window = None THEN copy
                         ELSE [copy EXCEPT ![w].plan.checkedAt = now]
              /\ Goto(w, "commit")
              /\ UNCHANGED <<lockVars, req>>
        /\ UNCHANGED <<cases, now>>

(* store.Commit, or a snapshot that cannot be written.                     *)
Commit(w) ==
    /\ pc[w] = "commit"
    /\ \/ UNCHANGED cases
       \/ /\ cases[req[w].case].rev + 1 = copy[w].rev
          /\ cases' = [cases EXCEPT ![req[w].case] = copy[w]]
    /\ Return(w)
    /\ UNCHANGED now

(***************************************************************************)
(* Requests that hold only the mutex of the case, and the clock.           *)
(***************************************************************************)
Update(c, from, next) ==
    /\ caseLock[c] = None
    /\ cases[c].state = from
    /\ cases[c].rev < MaxRevision
    /\ cases' = [cases EXCEPT ![c] = next]
    /\ UNCHANGED <<now, lockVars, localVars>>

DecideQuality(c, outcome) ==
    Update(c, "CAPTURED",
           [cases[c] EXCEPT !.rev = @ + 1, !.state = outcome])

AuthorizeRecapture(c) ==
    Update(c, "RECAPTURE_REQUIRED",
           [cases[c] EXCEPT !.rev = @ + 1, !.state = "READY_FOR_CAPTURE",
                            !.authorizedAt = now])

Seal(c) ==
    Update(c, "QC_PASSED", [cases[c] EXCEPT !.rev = @ + 1, !.state = "SEALED"])

Tick ==
    /\ now < MaxTime
    /\ now' = now + 1
    /\ UNCHANGED <<cases, lockVars, localVars>>

Step(w) ==
    LockCase(w) \/ Decide(w) \/ Check(w) \/ Commit(w)

(* What clients ask for: they name the revision they see now; any window,  *)
(* and any recording, already made or not.                                 *)
Offers(c) ==
    [op : {"PLAN"}, case : {c}, rev : {cases[c].rev}, team : Teams[c],
     window : Slots \cup {None}]
      \cup [op : {"RELEASE"}, case : {c}, rev : {cases[c].rev}]
      \cup [op : {"CAPTURE"}, case : {c}, rev : {cases[c].rev}, span : Takes]

Next ==
    \/ \E w \in Workers :
         Step(w) \/ \E c \in Cases : \E q \in Offers(c) : Receive(w, q)
    \/ \E c \in Cases :
         \/ \E s \in {"QC_PASSED", "RECAPTURE_REQUIRED"} : DecideQuality(c, s)
         \/ AuthorizeRecapture(c) \/ Seal(c)
    \/ Tick

Spec == Init /\ [][Next]_vars

(***************************************************************************)
(* Properties.                                                             *)
(***************************************************************************)

(* Every variable has its type.                                            *)
TypeOK ==
    /\ cases \in [Cases -> Case]
    /\ now \in 1..MaxTime
    /\ createMu \in Workers \cup {None}
    /\ \A w \in Workers : createMu = w <=> pc[w] # "idle"
    /\ caseLock \in [Cases -> Workers \cup {None}]
    /\ pc \in [Workers -> {"idle", "caseLock", "decide", "check", "commit"}]
    /\ req \in [Workers -> Requests \cup {None}]
    /\ copy \in [Workers -> Case \cup {None}]

(* At any time, no device and no operator is promised to two cases for     *)
(* windows that overlap, though windows are checked in one step and booked *)
(* in another, and are given back, moved and used in between.              *)
NoDoubleBooking ==
    \A c, d \in Cases :
        c # d /\ Held(cases[c]) /\ Held(cases[d])
              /\ SharedResource(cases[c].plan, cases[d].plan)
          => ~Overlap(cases[c].plan.window, cases[d].plan.window)

(* Decided at a time when the other window was not over, compared with it  *)
(* only when it was.                                                       *)
DecidedOverTheEnd(p, q) ==
    p.decidedAt < q.window.end /\ q.window.end < p.checkedAt

(* Made between the approval of the plan and the report.  The code         *)
(* enforces neither end: approvals are stored to the second, and it takes  *)
(* recordings that have not ended, or not begun, for made.                 *)
Timely(x, p) == p.decidedAt =< x.span.start /\ x.span.end =< x.reportedAt

(* What the bookings are for: the first recordings of two cases with       *)
(* windows are not made at one time with one device or by one operator,    *)
(* although a capture gives its window up and late reports are accepted.   *)
(* It takes clients who record after the approval and report what was      *)
(* made: a recording reported ahead gives up a window that is still to be  *)
(* used.  And it takes a plan that was not overtaken by the end of the     *)
(* other window on its way through the handler.  Recaptures have no such   *)
(* promise: their window is somebody else's.                               *)
RecordingsApart ==
    \A c, d \in Cases :
        LET p == cases[c].plan
            q == cases[d].plan
        IN  /\ c # d /\ p # None /\ q # None
            /\ p.window # None /\ q.window # None /\ SharedResource(p, q)
            /\ ~DecidedOverTheEnd(p, q) /\ ~DecidedOverTheEnd(q, p)
            => \A x \in cases[c].captures, y \in cases[d].captures :
                 /\ x.generation = 1 /\ Timely(x, p)
                 /\ y.generation = 1 /\ Timely(y, q)
                 => ~Overlap(x.span, y.span)
=============================================================================
