----------------------------- MODULE AuditChain -----------------------------
(***************************************************************************)
(* The table of transitions of package audit: which event may follow which *)
(* in the audit of one case.  A case can only be sealed, and a sealed case *)
(* only verifies, while its whole audit is accepted by this table.         *)
(***************************************************************************)
EXTENDS Integers, Sequences

PlanEvents == {"PLAN_APPROVED", "PLAN_REVISED", "PLAN_REAPPROVED"}

AssessmentEvents == {"ASSESSED", "ASSESSMENT_CORRECTED"}

EventTypes ==
    PlanEvents \cup AssessmentEvents \cup
    {"REGISTERED", "PLAN_RESERVATION_RELEASED", "CAPTURED", "QUALITY",
     "QUALITY_ADJUDICATED", "RECAPTURE_AUTHORIZED", "RECAPTURE_REVOKED",
     "RECAPTURE_RENEWED", "CUSTODY_TRANSFER", "SEALED"}

(* What may come after an event, custody transfers aside.                  *)
Successors(type) ==
    CASE type = "REGISTERED" -> {"ASSESSED"}
      [] type \in AssessmentEvents -> {"ASSESSMENT_CORRECTED", "PLAN_APPROVED"}
      [] type \in PlanEvents ->
           {"PLAN_REVISED", "PLAN_REAPPROVED", "CAPTURED",
            "PLAN_RESERVATION_RELEASED"}
      [] type = "PLAN_RESERVATION_RELEASED" -> {"PLAN_REVISED", "PLAN_REAPPROVED"}
      [] type \in {"RECAPTURE_AUTHORIZED", "RECAPTURE_RENEWED"} ->
           {"CAPTURED", "RECAPTURE_REVOKED", "RECAPTURE_RENEWED"}
      [] type = "RECAPTURE_REVOKED" -> {"RECAPTURE_RENEWED"}
      [] type = "CAPTURED" -> {"QUALITY"}
      [] type = "QUALITY" ->
           {"QUALITY", "QUALITY_ADJUDICATED", "RECAPTURE_AUTHORIZED", "SEALED"}
      [] type = "QUALITY_ADJUDICATED" -> {"RECAPTURE_AUTHORIZED", "SEALED"}
      [] OTHER -> {}

(* Fault: a transfer is compared like any event                          *)
AllBefore(trail, i) == 1..(i - 1)

(* The events before the i-th that are not custody transfers; the first    *)
(* event of an audit counts whatever it is.                                *)
Anchors(trail, i) ==
    {j \in 1..(i - 1) : j = 1 \/ trail[j] # "CUSTODY_TRANSFER"}

(* The i-th event is compared with the last of those.                      *)
ValidTransition(trail, i) ==
    CASE i = 1 -> trail[1] = "REGISTERED"
      [] i > 1 /\ trail[i] = "CUSTODY_TRANSFER" -> trail[i - 1] # "SEALED"
      [] OTHER ->
           \E j \in Anchors(trail, i) :
             /\ trail[i] \in Successors(trail[j])
             /\ \A k \in Anchors(trail, i) : k =< j

ValidChain(trail) == \A i \in DOMAIN trail : ValidTransition(trail, i)
=============================================================================
