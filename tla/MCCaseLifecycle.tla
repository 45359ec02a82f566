-------------------------- MODULE MCCaseLifecycle --------------------------
(***************************************************************************)
(* Small instances of CaseLifecycle for TLC.                               *)
(***************************************************************************)
EXTENDS CaseLifecycle

(* The operator tries to review, to remedy and to be the officer, reviewers *)
(* to authorize, to remedy and to be the officer, and one who authorizes to *)
(* be the officer.  There are enough for a decision, a second opinion, an   *)
(* adjudication and what follows from them.                                 *)
ManyJobs ==
    [operator |-> {"olga"}, approver |-> {"ada"},
     reviewer |-> {"olga", "rui", "rosa", "remy"}, authorizer |-> {"rui", "ann"},
     remediator |-> {"olga", "rosa"}, officer |-> {"olga", "rosa", "ann"},
     custodian |-> {"kim"}]

(* The fewest people the workflow can do with.                             *)
FewPeople ==
    [operator |-> {"olga"}, approver |-> {"ada"}, reviewer |-> {"rui"},
     authorizer |-> {"abe", "ann"}, remediator |-> {"tom"}, officer |-> {"pia"},
     custodian |-> {"kim"}]

(* As few, with somebody to hand the carrier over to.                      *)
TwoCustodians == [FewPeople EXCEPT !["custodian"] = {"kim", "lou"}]

Everyone == {"olga", "ada", "rui", "rosa", "remy", "abe", "ann", "tom", "pia",
             "kim", "lou"}

(* Tasks are their places in the order of execution.                       *)
OneOrTwoTasks == {{1}, {1, 2}}
OneTask == {{1}}

(* A run over people follows one of these: who does what over three        *)
(* generations, or, over two with the plainest choice of people, what was  *)
(* assessed, planned, recorded and listened to.                            *)
UnlikeAssessment ==
    \E f \in Members(assessmentHistory) \cup {assessment} :
        f # None /\ (f.risk = "none" \/ ~f.resums)

Declared == \E p \in Members(planHistory) : p.fingerprint # "none"
Booked == \E p \in Members(planHistory) : p.window # None
UnlikePlans == Len(planHistory) > 1 \/ Declared \/ Booked

UnlikeCaptures ==
    \/ plan # None /\ Cardinality(plan.tasks) > 1
    \/ \E x \in captures : x.length > 1
    \/ \E q \in Members(quality) : q.listened

Varied == UnlikeAssessment \/ UnlikePlans \/ UnlikeCaptures
HighRisk == assessment # None /\ assessment.risk = "high"
Corrected == assessmentHistory # <<>>

PlainPeople ==
    /\ \A a \in Members(recaptures) : a.escalation = None
    /\ \A q \in Members(quality) : q.reviewer = "rui" /\ q.countersign = "NONE"

(* The operator only performs remediations, and the first generation is    *)
(* judged and recaptured in fewer ways than the later ones.                *)
FirstGeneration ==
    /\ \A a \in Members(recaptures) :
         /\ a.owner # "olga"
         /\ a.generation = 2 /\ a.escalation # None =>
              a.escalation.officer = "ann"
    /\ \A q \in Members(quality) :
         q.generation = 1 => q.reviewer \in {"rui", "rosa"}

(* A case that has used up its requests is checked and goes no further.    *)
PeopleOrEvidence ==
    /\ FirstGeneration
    /\ Varied => PlainPeople
    /\ Varied \/ HighRisk \/ Corrected => Len(recaptures) < 2
    /\ Varied \/ HighRisk => \A x \in captures : ~x.splice
    /\ UnlikeCaptures => ~UnlikeAssessment
    /\ Booked => ~Declared /\ ~UnlikeCaptures /\ ~UnlikeAssessment
    /\ Booked => recaptures = <<>> /\ ~Corrected
    /\ Len(assessmentHistory) < 2
    /\ revision < MaxRevision

(* A run over time follows one of these: the custody of the carrier, plans *)
(* with windows, several versions or tasks, or how authorizations expire.  *)
Chained == receipt # None \/ custody # <<>>

Scheduled ==
    \E p \in Members(planHistory) :
        p.window # None \/ Len(planHistory) > 1 \/ Cardinality(p.tasks) > 1

OneConcern ==
    /\ Chained =>
         /\ revision < 8 /\ now < 3
         /\ \A x \in captures : x.startedAt = CreatedAt
         /\ ~Scheduled
    /\ Scheduled => revision < 8 /\ now < 3 /\ recaptures = <<>>
    /\ assessmentHistory # <<>> => captures = {}
=============================================================================
