------------------------ MODULE CaseProtocolProofs ------------------------
(***************************************************************************)
(* Proof that CaseLifecycle implements CaseProtocol: the evidence of a     *)
(* case, read as generations, verdicts and permits, only changes the way   *)
(* a client is promised.                                                   *)
(***************************************************************************)
EXTENDS CaseLifecycleProofs

-----------------------------------------------------------------------------
(***************************************************************************)
(* What the invariant makes of the mapping.                                *)
(***************************************************************************)

(* How many generations have been judged.                                  *)
Judgements == IF state = "CAPTURED" THEN generation - 1 ELSE generation

LEMMA JudgedInOrder ==
    ASSUME CaseInv
    PROVE  /\ Judgements \in Nat /\ JudgedGenerations = 1..Judgements
           /\ Judgements =< Len(quality)
<1>1. /\ generation \in Nat /\ quality \in Seq(QualityDecision)
      /\ state = "CAPTURED" => generation >= 1
      /\ state # "CAPTURED" => Len(quality) = generation
      /\ state = "CAPTURED" => Len(quality) \in {generation - 1, generation}
      /\ state = "CAPTURED" /\ Len(quality) = generation =>
           ~Settled(quality[generation])
  BY DEF CaseInv, TypeOK, StageInv
<1>2. \A g \in 1..(generation - 1) : g \in DOMAIN quality /\ Settled(quality[g])
  BY DEF CaseInv, QualityInv, Concluded
<1>3. state # "CAPTURED" /\ generation >= 1 => Settled(quality[generation])
  <2>1. state \in {"QC_PASSED", "SEALED", "RECAPTURE_REQUIRED"} =>
          Settled(quality[generation])
    BY DEF CaseInv, StageInv, Concluded
  <2>2. state = "READY_FOR_CAPTURE" /\ generation >= 1 =>
          Settled(quality[generation])
    BY DEF CaseInv, StageInv, Concluded
  <2>3. state \in {"REGISTERED", "ASSESSED"} => generation = 0
    BY DEF CaseInv, StageInv, TypeOK
  <2>4. state \in States
    BY DEF CaseInv, TypeOK
  <2>5. QED
    BY <1>1, <2>1, <2>2, <2>3, <2>4 DEF States
<1>4. CASE state = "CAPTURED"
  <2>1. Judgements = generation - 1 /\ generation >= 1
    BY <1>1, <1>4 DEF Judgements
  <2>2. QED
    BY <1>1, <1>2, <1>4, <2>1 DEF JudgedGenerations
<1>5. CASE state # "CAPTURED"
  <2>1. Judgements = generation
    BY <1>5 DEF Judgements
  <2>2. \A g \in 1..generation : Settled(quality[g])
    BY <1>1, <1>2, <1>3, <1>5
  <2>3. QED
    BY <1>1, <1>5, <2>1, <2>2 DEF JudgedGenerations
<1>6. QED
  BY <1>4, <1>5

LEMMA EffectiveType ==
    ASSUME NEW q \in QualityDecision
    PROVE  EffectiveDecision(q) \in {"PASS", "FAIL"}
<1>1. CASE q.adjudication = None
  BY <1>1 DEF EffectiveDecision, QualityDecision
<1>2. CASE q.adjudication # None
  <2>1. q.adjudication \in QualityAdjudication
    BY <1>2 DEF QualityDecision
  <2>2. QED
    BY <1>2, <2>1 DEF EffectiveDecision, QualityAdjudication
<1>3. QED
  BY <1>1, <1>2

(* A generation is open exactly in the state CAPTURED.                     *)
LEMMA OpenWhenCaptured == CaseInv => (Unjudged <=> state = "CAPTURED")
<1>1. ASSUME CaseInv
      PROVE  Unjudged <=> state = "CAPTURED"
  <2>1. /\ JudgedGenerations = 1..Judgements /\ Judgements \in Nat
        /\ generation \in Nat
    BY <1>1, JudgedInOrder DEF CaseInv, TypeOK
  <2>2. /\ \A x \in captures : x.generation \in 1..generation
        /\ \A g \in 1..generation : \E x \in captures : x.generation = g
        /\ state = "CAPTURED" => generation >= 1
    BY <1>1 DEF CaseInv, CaptureInv, StageInv
  <2>3. CASE state = "CAPTURED"
    <3>1. generation \in 1..generation /\ generation \notin 1..Judgements
      BY <2>1, <2>2, <2>3 DEF Judgements
    <3>2. QED
      BY <2>1, <2>2, <2>3, <3>1 DEF Unjudged
  <2>4. CASE state # "CAPTURED"
    BY <2>1, <2>2, <2>4 DEF Unjudged, Judgements
  <2>5. QED
    BY <2>3, <2>4
<1>2. QED
  BY <1>1

LEMMA VerdictsKept ==
    ASSUME CaseInv
    PROVE  /\ Verdicts \in Seq({"PASS", "FAIL"}) /\ Len(Verdicts) = Judgements
           /\ Judgements \in Nat /\ DOMAIN Verdicts = 1..Judgements
           /\ \A g \in 1..Judgements : Verdicts[g] = EffectiveDecision(quality[g])
           /\ (Verdicts = <<>>) <=> (Judgements = 0)
<1>1. /\ Judgements \in Nat /\ JudgedGenerations = 1..Judgements
      /\ Judgements =< Len(quality) /\ quality \in Seq(QualityDecision)
  BY JudgedInOrder DEF CaseInv, TypeOK
<1>2. Verdicts = [g \in 1..Judgements |-> EffectiveDecision(quality[g])]
  BY <1>1 DEF Verdicts
<1>3. \A g \in 1..Judgements : EffectiveDecision(quality[g]) \in {"PASS", "FAIL"}
  <2>1. \A g \in 1..Judgements : quality[g] \in QualityDecision
    BY <1>1
  <2>2. QED
    BY <2>1, EffectiveType
<1> HIDE DEF Verdicts
<1>4. Verdicts \in Seq({"PASS", "FAIL"}) /\ Len(Verdicts) = Judgements
  BY <1>1, <1>2, <1>3
<1>5. QED
  BY <1>1, <1>2, <1>4

(* What the client is told about the last generation is what the state     *)
(* says.                                                                   *)
LEMMA LastVerdict ==
    ASSUME CaseInv
    PROVE  /\ state \in {"QC_PASSED", "SEALED"} => Protocol!Judged("PASS")
           /\ state = "RECAPTURE_REQUIRED" => Protocol!Judged("FAIL")
           /\ state = "READY_FOR_CAPTURE" /\ generation >= 1 =>
                Protocol!Judged("FAIL")
<1>1. /\ Verdicts \in Seq({"PASS", "FAIL"}) /\ Len(Verdicts) = Judgements
      /\ \A g \in 1..Judgements : Verdicts[g] = EffectiveDecision(quality[g])
      /\ (Verdicts = <<>>) <=> (Judgements = 0)
      /\ generation \in Nat /\ (Unjudged <=> state = "CAPTURED")
  BY VerdictsKept, OpenWhenCaptured DEF CaseInv, TypeOK
<1>2. ASSUME NEW d \in {"PASS", "FAIL"}, state # "CAPTURED", generation >= 1,
             Concluded(generation, d)
      PROVE  Protocol!Judged(d)
  <2>1. Judgements = generation /\ EffectiveDecision(quality[generation]) = d
    BY <1>2 DEF Judgements, Concluded
  <2>2. Len(Verdicts) = generation /\ Verdicts[generation] = d /\ Verdicts # <<>>
    BY <1>1, <1>2, <2>1
  <2>3. QED
    BY <1>1, <1>2, <2>2 DEF Protocol!Judged
<1>3. /\ state \in {"QC_PASSED", "SEALED"} =>
           generation >= 1 /\ Concluded(generation, "PASS")
      /\ state = "RECAPTURE_REQUIRED" =>
           generation >= 1 /\ Concluded(generation, "FAIL")
      /\ state = "READY_FOR_CAPTURE" /\ generation >= 1 =>
           Concluded(generation, "FAIL")
  BY DEF CaseInv, StageInv
<1>4. QED
  BY <1>2, <1>3

(* A permit is there exactly when a recapture is awaited and authorized.   *)
LEMMA PermitWhenReady ==
    ASSUME CaseInv
    PROVE  Permitted <=> state = "READY_FOR_CAPTURE" /\ generation >= 1
<1>1. /\ generation \in Nat /\ state \in States
      /\ recaptures \in Seq(RecaptureAction)
  BY DEF CaseInv, TypeOK
<1>2. /\ state = "RECAPTURE_REQUIRED" => ActiveAuthorization(generation + 1) = {}
      /\ state = "READY_FOR_CAPTURE" /\ generation >= 1 =>
           ActiveAuthorization(generation + 1) # {}
  BY DEF CaseInv, RecaptureInv
<1>3. ASSUME NEW i \in ActiveAuthorization(generation + 1)
      PROVE  generation >= 1 /\ state \in {"READY_FOR_CAPTURE", "RECAPTURE_REQUIRED"}
  <2>1. i \in DOMAIN recaptures /\ recaptures[i].generation = generation + 1
    BY DEF ActiveAuthorization
  <2>2. ActionOK(i)
    BY <2>1 DEF CaseInv, RecaptureInv
  <2>3. /\ generation + 1 \in 2..(generation + 1)
        /\ state \notin {"READY_FOR_CAPTURE", "RECAPTURE_REQUIRED"} =>
             generation + 1 =< generation
    BY <2>1, <2>2 DEF ActionOK
  <2>4. QED
    BY <1>1, <2>3
<1>4. QED
  BY <1>2, <1>3 DEF Permitted

(* The mapping in terms of the state of the case.                          *)
Mapped ==
    /\ Unjudged = (state = "CAPTURED")
    /\ Permitted = (state = "READY_FOR_CAPTURE" /\ generation >= 1)
    /\ (plan # None) = (state \notin {"REGISTERED", "ASSESSED"})
    /\ (manifest # None) = (state = "SEALED")
    /\ Verdicts \in Seq({"PASS", "FAIL"}) /\ Len(Verdicts) = Judgements
    /\ \A g \in 1..Judgements : Verdicts[g] = EffectiveDecision(quality[g])

LEMMA MappingOf == CaseInv => Mapped
<1>1. ASSUME CaseInv
      PROVE  Mapped
  <2>1. Unjudged = (state = "CAPTURED")
    <3>1. Unjudged \in BOOLEAN
      BY DEF Unjudged
    <3>2. QED
      BY <1>1, <3>1, OpenWhenCaptured
  <2>2. Permitted = (state = "READY_FOR_CAPTURE" /\ generation >= 1)
    <3>1. Permitted \in BOOLEAN
      BY DEF Permitted
    <3>2. QED
      BY <1>1, <3>1, PermitWhenReady
  <2>3. /\ (plan # None) = (state \notin {"REGISTERED", "ASSESSED"})
        /\ (manifest # None) = (state = "SEALED")
    BY <1>1 DEF CaseInv, TypeOK
  <2>4. QED
    BY <1>1, <2>1, <2>2, <2>3, VerdictsKept DEF Mapped
<1>2. QED
  BY <1>1

LEMMA MappedNext == CaseInv' => Mapped'
BY MappingOf, PTL

-----------------------------------------------------------------------------
(***************************************************************************)
(* The steps.                                                              *)
(***************************************************************************)

(* No verdict is taken back as long as the decisions stay.                 *)
LEMMA VerdictsStay ==
    ASSUME Mapped, Mapped', Judgements' = Judgements,
           \A g \in 1..Judgements : quality'[g] = quality[g]
    PROVE  Verdicts' = Verdicts
<1>1. /\ Verdicts \in Seq({"PASS", "FAIL"}) /\ Len(Verdicts) = Judgements
      /\ Verdicts' \in Seq({"PASS", "FAIL"}) /\ Len(Verdicts') = Judgements
  BY DEF Mapped
<1>2. \A g \in 1..Judgements : Verdicts[g] = EffectiveDecision(quality[g])
  BY DEF Mapped
<1>3. \A g \in 1..Judgements : Verdicts'[g] = EffectiveDecision(quality'[g])
  BY DEF Mapped, EffectiveDecision
<1>4. \A g \in 1..Judgements : Verdicts'[g] = Verdicts[g]
  BY <1>2, <1>3
<1>5. QED
  BY <1>1, <1>4

(* Requests that concern neither captures nor decisions nor permits.       *)
LEMMA NothingPromised ==
    ASSUME CaseInv, CaseInv', UNCHANGED <<generation, quality, recaptures>>,
           \/ state' = state
           \/ state = "REGISTERED" /\ state' = "ASSESSED"
    PROVE  UNCHANGED Protocol!vars
<1>1. Mapped /\ Mapped'
  BY MappingOf, MappedNext
<1>2. Judgements' = Judgements
  BY DEF Judgements
<1>3. Verdicts' = Verdicts
  BY <1>1, <1>2, VerdictsStay
<1>4. Spent' = Spent
  BY DEF Spent
<1>5. /\ Unjudged' = Unjudged /\ Permitted' = Permitted
      /\ (plan # None)' = (plan # None) /\ (manifest # None)' = (manifest # None)
  BY <1>1 DEF Mapped
<1>6. QED
  BY <1>3, <1>4, <1>5 DEF Protocol!vars

LEMMA PlanStep ==
    ASSUME CaseInv, CaseInv', NEW p \in PlanRequests, ApprovePlan(p)
    PROVE  Protocol!Plan
<1>1. /\ state = "ASSESSED" /\ state' = "READY_FOR_CAPTURE"
      /\ UNCHANGED <<generation, quality, recaptures>>
  BY DEF ApprovePlan, captureVars
<1>2. Mapped /\ Mapped'
  BY MappingOf, MappedNext
<1>3. generation = 0
  BY <1>1 DEF CaseInv, TypeOK, StageInv
<1>4. Judgements' = Judgements
  BY <1>1 DEF Judgements
<1>5. Verdicts' = Verdicts
  BY <1>1, <1>2, <1>4, VerdictsStay
<1>6. Spent' = Spent
  BY <1>1 DEF Spent
<1>7. /\ ~(plan # None) /\ (plan # None)' = TRUE
      /\ Unjudged' = Unjudged /\ Permitted' = Permitted
      /\ (manifest # None)' = (manifest # None)
  BY <1>1, <1>2, <1>3 DEF Mapped
<1>8. QED
  BY <1>5, <1>6, <1>7 DEF Protocol!Plan

(* The permits that have been used up are finitely many.                   *)
SpentRecords == {i \in DOMAIN recaptures : recaptures[i].consumedBy # 0}

LEMMA SpentFinite ==
    ASSUME CaseInv
    PROVE  IsFiniteSet(SpentRecords) /\ Spent = Cardinality(SpentRecords)
<1>1. recaptures \in Seq(RecaptureAction)
  BY DEF CaseInv, TypeOK
<1>2. DOMAIN recaptures = 1..Len(recaptures) /\ Len(recaptures) \in Nat
  BY <1>1
<1>3. IsFiniteSet(1..Len(recaptures))
  BY <1>2, FS_Interval
<1>4. SpentRecords \subseteq 1..Len(recaptures)
  BY <1>2 DEF SpentRecords
<1>5. QED
  BY <1>3, <1>4, FS_Subset DEF Spent, SpentRecords

LEMMA SpentOneMore ==
    ASSUME CaseInv, generation >= 1, NEW items, NEW i \in DOMAIN recaptures,
           Spends(items, i)
    PROVE  Spent' = Spent + 1
<1>1. /\ DOMAIN recaptures' = DOMAIN recaptures
      /\ \A j \in DOMAIN recaptures : j # i => recaptures'[j] = recaptures[j]
      /\ recaptures'[i].consumedBy = generation + 1
      /\ recaptures[i].consumedBy = 0
  BY SpendFacts
<1>2. generation + 1 # 0
  BY DEF CaseInv, TypeOK
<1>3. i \notin SpentRecords /\ SpentRecords' = SpentRecords \cup {i}
  BY <1>1, <1>2 DEF SpentRecords
<1>4. IsFiniteSet(SpentRecords) /\ Spent = Cardinality(SpentRecords)
  BY SpentFinite
<1>5. Spent' = Cardinality(SpentRecords')
  BY DEF Spent, SpentRecords
<1>6. Cardinality(SpentRecords \cup {i}) = Cardinality(SpentRecords) + 1
  BY <1>3, <1>4, FS_AddElement
<1>7. QED
  BY <1>3, <1>4, <1>5, <1>6

LEMMA CaptureImplements ==
    ASSUME CaseInv, CaseInv', NEW items, Capture(items)
    PROVE  Protocol!CaptureFirst \/ Protocol!CaptureAgain
<1>1. /\ state = "READY_FOR_CAPTURE" /\ state' = "CAPTURED"
      /\ generation \in Nat /\ generation' = generation + 1
      /\ UNCHANGED <<quality, manifest>>
      /\ \/ generation = 0 /\ recaptures' = recaptures
         \/ generation >= 1 /\ \E i \in DOMAIN recaptures : Spends(items, i)
  BY CaptureSteps
<1>2. Mapped /\ Mapped'
  BY MappingOf, MappedNext
<1>3. Judgements = generation /\ Judgements' = generation
  BY <1>1 DEF Judgements
<1>4. Verdicts' = Verdicts
  BY <1>1, <1>2, <1>3, VerdictsStay
<1>5. /\ Unjudged = FALSE /\ Unjudged' = TRUE /\ Permitted' = FALSE
      /\ (plan # None) = TRUE /\ (plan # None)' = TRUE
      /\ (manifest # None)' = (manifest # None)
      /\ Permitted = (state = "READY_FOR_CAPTURE" /\ generation >= 1)
  BY <1>1, <1>2 DEF Mapped
<1>6. CASE generation = 0 /\ recaptures' = recaptures
  <2>1. Verdicts = <<>>
    BY <1>3, <1>6, VerdictsKept
  <2>2. Spent' = Spent
    BY <1>6 DEF Spent
  <2>3. Permitted = FALSE
    <3>1. ~(generation >= 1)
      BY <1>6
    <3>2. QED
      BY <1>5, <3>1, Zenon
  <2>4. QED
    BY <1>4, <1>5, <2>1, <2>2, <2>3 DEF Protocol!CaptureFirst
<1>7. CASE generation >= 1 /\ \E i \in DOMAIN recaptures : Spends(items, i)
  <2>1. Spent' = Spent + 1
    BY <1>7, SpentOneMore
  <2>2. Protocol!Judged("FAIL")
    BY <1>1, <1>7, LastVerdict
  <2>3. Permitted
    BY <1>1, <1>5, <1>7, Zenon
  <2>4. QED
    BY <1>4, <1>5, <2>1, <2>2, <2>3 DEF Protocol!CaptureAgain
<1>8. QED
  BY <1>1, <1>6, <1>7

(* An opinion that settles the decision is the verdict; one that leaves it *)
(* open is none.                                                           *)
LEMMA DecisionImplements ==
    ASSUME CaseInv, CaseInv', NEW q, NEW d \in {"PASS", "FAIL"}, NEW t,
           Decides(q, d, t)
    PROVE  Protocol!Judge(d) \/ UNCHANGED Protocol!vars
<1>1. /\ state = "CAPTURED"
      /\ \A g \in 1..(generation - 1) : quality'[g] = quality[g]
      /\ quality'[generation] = q
      /\ \/ state' = "CAPTURED"
         \/ state' = StateAfter(d) /\ EffectiveDecision(q) = d
      /\ UNCHANGED <<planVars, generation, recaptures, manifest>>
  BY DEF Decides, captureVars
<1>2. Mapped /\ Mapped' /\ generation \in Nat /\ generation >= 1
  BY <1>1, MappingOf, MappedNext DEF CaseInv, TypeOK, StageInv
<1>3. Spent' = Spent
  BY <1>1 DEF Spent
<1>4. Judgements = generation - 1
  BY <1>1 DEF Judgements
<1>5. CASE state' = "CAPTURED"
  <2>1. Judgements' = Judgements
    BY <1>1, <1>5 DEF Judgements
  <2>2. Verdicts' = Verdicts
    BY <1>1, <1>2, <1>4, <2>1, VerdictsStay
  <2>3. /\ Unjudged' = Unjudged /\ Permitted' = Permitted
        /\ (plan # None)' = (plan # None) /\ (manifest # None)' = (manifest # None)
    BY <1>1, <1>2, <1>5 DEF Mapped
  <2>4. QED
    BY <1>3, <2>2, <2>3 DEF Protocol!vars
<1>6. CASE state' = StateAfter(d) /\ EffectiveDecision(q) = d
  <2>1. state' \in {"QC_PASSED", "RECAPTURE_REQUIRED"}
    BY <1>6 DEF StateAfter
  <2>2. Judgements' = generation
    BY <1>1, <2>1 DEF Judgements
  <2>3. Verdicts' = Append(Verdicts, d)
    <3>1. /\ Verdicts \in Seq({"PASS", "FAIL"}) /\ Len(Verdicts) = generation - 1
          /\ Verdicts' \in Seq({"PASS", "FAIL"}) /\ Len(Verdicts') = generation
      BY <1>2, <1>4, <2>2 DEF Mapped
    <3>2. \A g \in 1..(generation - 1) : Verdicts[g] = EffectiveDecision(quality[g])
      BY <1>2, <1>4 DEF Mapped
    <3>3. \A g \in 1..generation : Verdicts'[g] = EffectiveDecision(quality'[g])
      BY <1>2, <2>2 DEF Mapped, EffectiveDecision
    <3>4. \A g \in 1..(generation - 1) : Verdicts'[g] = Verdicts[g]
      BY <1>1, <1>2, <3>2, <3>3
    <3>5. Verdicts'[generation] = d
      BY <1>1, <1>2, <1>6, <3>3
    <3>6. QED
      BY <1>2, <3>1, <3>4, <3>5
  <2>4. /\ Unjudged = TRUE /\ Unjudged' = FALSE
        /\ Permitted = FALSE /\ Permitted' = FALSE
        /\ (plan # None)' = (plan # None) /\ (manifest # None)' = (manifest # None)
    BY <1>1, <1>2, <2>1 DEF Mapped, planVars
  <2>5. QED
    BY <1>3, <2>3, <2>4 DEF Protocol!Judge
<1>7. QED
  BY <1>1, <1>5, <1>6

(* A permit is given by an authorization or renewal, and withdrawn by a    *)
(* revocation; the renewal of one that has expired changes nothing.        *)
LEMMA RecordImplements ==
    ASSUME CaseInv, CaseInv', NEW r \in RecaptureAction, NEW t, Records(r, t)
    PROVE  \/ Protocol!Permit \/ Protocol!Withdraw
           \/ UNCHANGED Protocol!vars
<1>1. /\ state \in {"READY_FOR_CAPTURE", "RECAPTURE_REQUIRED"}
      /\ state' \in {"READY_FOR_CAPTURE", "RECAPTURE_REQUIRED"}
      /\ generation >= 1 /\ r.consumedBy = 0
      /\ recaptures' = Append(recaptures, r)
      /\ UNCHANGED <<planVars, generation, quality, manifest>>
  BY DEF Records, captureVars
<1>2. Mapped /\ Mapped'
  BY MappingOf, MappedNext
<1>3. Judgements' = Judgements
  BY <1>1 DEF Judgements
<1>4. Verdicts' = Verdicts
  BY <1>1, <1>2, <1>3, VerdictsStay
<1>5. Spent' = Spent
  <2>1. recaptures \in Seq(RecaptureAction)
    BY DEF CaseInv, TypeOK
  <2>2. \A i \in DOMAIN recaptures' :
          \/ i \in DOMAIN recaptures /\ recaptures'[i] = recaptures[i]
          \/ i \notin DOMAIN recaptures /\ recaptures'[i] = r
    BY <1>1, <2>1
  <2>3. DOMAIN recaptures \subseteq DOMAIN recaptures'
    BY <1>1, <2>1
  <2>4. SpentRecords' = SpentRecords
    BY <1>1, <2>2, <2>3 DEF SpentRecords
  <2>5. QED
    BY <2>4 DEF Spent, SpentRecords
<1>6. /\ Unjudged = FALSE /\ Unjudged' = FALSE
      /\ (plan # None)' = (plan # None) /\ (manifest # None)' = (manifest # None)
      /\ Permitted = (state = "READY_FOR_CAPTURE" /\ generation >= 1)
      /\ Permitted' = (state' = "READY_FOR_CAPTURE" /\ generation >= 1)
  BY <1>1, <1>2 DEF Mapped, planVars
<1>7. Permitted \in BOOLEAN /\ Permitted' \in BOOLEAN
  BY DEF Permitted
<1>8. Protocol!Judged("FAIL")
  BY <1>1, LastVerdict
<1>9. CASE Permitted' = Permitted
  BY <1>4, <1>5, <1>6, <1>9 DEF Protocol!vars
<1>10. CASE Permitted = FALSE /\ Permitted' = TRUE
  BY <1>4, <1>5, <1>6, <1>8, <1>10 DEF Protocol!Permit
<1>11. CASE Permitted = TRUE /\ Permitted' = FALSE
  BY <1>4, <1>5, <1>6, <1>8, <1>11 DEF Protocol!Withdraw
<1>12. QED
  BY <1>7, <1>9, <1>10, <1>11

LEMMA SealImplements ==
    ASSUME CaseInv, CaseInv', Seal
    PROVE  Protocol!Seal
<1>1. /\ state = "QC_PASSED" /\ state' = "SEALED"
      /\ UNCHANGED <<planVars, generation, quality, recaptures>>
  BY DEF Seal, captureVars
<1>2. Mapped /\ Mapped'
  BY MappingOf, MappedNext
<1>3. Judgements' = Judgements
  BY <1>1 DEF Judgements
<1>4. Verdicts' = Verdicts
  BY <1>1, <1>2, <1>3, VerdictsStay
<1>5. Spent' = Spent
  BY <1>1 DEF Spent
<1>6. /\ Unjudged' = Unjudged /\ Permitted' = Permitted
      /\ (plan # None)' = (plan # None)
      /\ ~(manifest # None) /\ (manifest # None)' = TRUE
  BY <1>1, <1>2 DEF Mapped, planVars
<1>7. Protocol!Judged("PASS")
  BY <1>1, LastVerdict
<1>8. QED
  BY <1>4, <1>5, <1>6, <1>7 DEF Protocol!Seal

-----------------------------------------------------------------------------
(***************************************************************************)
(* The refinement.                                                         *)
(***************************************************************************)
LEMMA NextImplements ==
    ASSUME CaseInv, CaseInv', [Next]_vars
    PROVE  [Protocol!Next]_(Protocol!vars)
<1>1. CASE \E f \in Findings : Assess(f) \/ CorrectAssessment(f)
  BY <1>1, NothingPromised DEF Assess, CorrectAssessment, captureVars
<1>2. CASE \E p \in PlanRequests : ApprovePlan(p)
  BY <1>2, PlanStep DEF Protocol!Next
<1>3. CASE \/ \E p \in PlanRequests, t \in {"PLAN_REVISED", "PLAN_REAPPROVED"} :
                RevisePlan(p, t)
           \/ ReleasePlanReservation
           \/ \E e \in Transfers : AppendCustodyTransfer(e)
           \/ Tick
  BY <1>3, NothingPromised
     DEF RevisePlan, ReleasePlanReservation, AppendCustodyTransfer, Tick,
         captureVars
<1>4. CASE \E items : Captured(items) /\ Capture(items)
  BY <1>4, CaptureImplements DEF Protocol!Next
<1>5. CASE \E person \in Staff["reviewer"], failures \in SUBSET Categories,
          listened \in Listening : DecideQuality(person, failures, listened)
  <2>1. \E q \in QualityDecision, d \in {"PASS", "FAIL"} : Decides(q, d, "QUALITY")
    BY <1>5, DecideQualitySteps
  <2>2. QED
    BY <2>1, DecisionImplements DEF Protocol!Next
<1>6. CASE \E person \in Staff["reviewer"], d \in {"PASS", "FAIL"} :
             Countersign(person, d) \/ Adjudicate(person, d)
  <2>1. \E q \in QualityDecision, d \in {"PASS", "FAIL"} :
          Decides(q, d, "QUALITY") \/ Decides(q, d, "QUALITY_ADJUDICATED")
    BY <1>6, CountersignSteps, AdjudicateSteps
  <2>2. QED
    BY <2>1, DecisionImplements DEF Protocol!Next
<1>7. CASE \E a \in AuthorizationRequests :
             AuthorizeRecapture(a) \/ RenewRecapture(a)
  <2>1. \E r \in RecaptureAction : \/ Records(r, "RECAPTURE_AUTHORIZED")
                                   \/ Records(r, "RECAPTURE_RENEWED")
    BY <1>7, AuthorizeSteps, RenewSteps
  <2>2. QED
    BY <2>1, RecordImplements DEF Protocol!Next
<1>8. CASE \E person \in Staff["authorizer"] : RevokeRecapture(person)
  <2>1. \E r \in RecaptureAction : Records(r, "RECAPTURE_REVOKED")
    BY <1>8, RevokeSteps
  <2>2. QED
    BY <2>1, RecordImplements DEF Protocol!Next
<1>9. CASE Seal
  BY <1>9, SealImplements DEF Protocol!Next
<1>10. CASE UNCHANGED vars
  BY <1>10, NothingPromised DEF vars, captureVars
<1>11. CASE Next
  BY <1>11, <1>1, <1>2, <1>3, <1>4, <1>5, <1>6, <1>7, <1>8, <1>9, NextCases
<1>12. QED
  BY <1>10, <1>11

LEMMA InitImplements == Init => Protocol!Init
<1>1. ASSUME Init
      PROVE  Protocol!Init
  <2>1. CaseInv /\ Mapped
    BY <1>1, InitInv, MappingOf
  <2>2. state = "REGISTERED" /\ generation = 0 /\ recaptures = <<>>
    BY <1>1 DEF Init
  <2>3. Verdicts = <<>>
    <3>1. Judgements = 0
      BY <2>2 DEF Judgements
    <3>2. QED
      BY <2>1, <3>1, VerdictsKept
  <2>4. Spent = 0
    <3>1. SpentRecords = {}
      BY <2>2 DEF SpentRecords
    <3>2. QED
      BY <2>1, <3>1, SpentFinite, FS_EmptySet
  <2>5. /\ (plan # None) = FALSE /\ (manifest # None) = FALSE
        /\ Unjudged = FALSE /\ Permitted = FALSE
    BY <2>1, <2>2 DEF Mapped
  <2>6. QED
    BY <2>3, <2>4, <2>5 DEF Protocol!Init
<1>2. QED
  BY <1>1

(* Everything under domain.Case: whatever clients request, a case goes     *)
(* through its generations as promised, one verdict and one permit at a    *)
(* time, up to the seal over one that passed.                              *)
THEOREM CasesImplementProtocol == Spec => ImplementsProtocol
<1>1. CaseInv /\ CaseInv' /\ [Next]_vars => [Protocol!Next]_(Protocol!vars)
  BY NextImplements
<1>2. QED
  BY <1>1, InitImplements, CaseInvariant, PTL
     DEF Spec, ImplementsProtocol, Protocol!Spec
=============================================================================
