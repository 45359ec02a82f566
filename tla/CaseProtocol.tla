---------------------------- MODULE CaseProtocol ----------------------------
(***************************************************************************)
(* What the service promises of the course of a case, whoever takes part   *)
(* in it: generations are captured and judged one at a time, each gets one *)
(* verdict that stands, after a failure the next is captured only with a   *)
(* permit, which it uses up, and only what has passed is sealed, for good. *)
(***************************************************************************)
EXTENDS Integers, Sequences

VARIABLES
    planned,    \* there is an approved plan
    open,       \* a generation is captured and has no verdict yet
    verdicts,   \* the verdicts on the generations, in order
    permitted,  \* the next generation may be captured
    spent,      \* how many permits have been used up
    sealed

vars == <<planned, open, verdicts, permitted, spent, sealed>>

Init ==
    /\ planned = FALSE /\ open = FALSE /\ verdicts = <<>>
    /\ permitted = FALSE /\ spent = 0 /\ sealed = FALSE

Judged(verdict) ==
    ~open /\ verdicts # <<>> /\ verdicts[Len(verdicts)] = verdict

Plan ==
    /\ ~planned
    /\ planned' = TRUE
    /\ UNCHANGED <<open, verdicts, permitted, spent, sealed>>

CaptureFirst ==
    /\ planned /\ ~open /\ verdicts = <<>>
    /\ open' = TRUE
    /\ UNCHANGED <<planned, verdicts, permitted, spent, sealed>>

CaptureAgain ==
    /\ Judged("FAIL") /\ permitted
    /\ open' = TRUE
    /\ permitted' = FALSE /\ spent' = spent + 1
    /\ UNCHANGED <<planned, verdicts, sealed>>

Judge(verdict) ==
    /\ open
    /\ open' = FALSE
    /\ verdicts' = Append(verdicts, verdict)
    /\ UNCHANGED <<planned, permitted, spent, sealed>>

Permit ==
    /\ Judged("FAIL") /\ ~permitted
    /\ permitted' = TRUE
    /\ UNCHANGED <<planned, open, verdicts, spent, sealed>>

Withdraw ==
    /\ Judged("FAIL") /\ permitted
    /\ permitted' = FALSE
    /\ UNCHANGED <<planned, open, verdicts, spent, sealed>>

Seal ==
    /\ Judged("PASS") /\ ~sealed
    /\ sealed' = TRUE
    /\ UNCHANGED <<planned, open, verdicts, permitted, spent>>

Next ==
    \/ Plan
    \/ CaptureFirst \/ CaptureAgain
    \/ \E verdict \in {"PASS", "FAIL"} : Judge(verdict)
    \/ Permit \/ Withdraw
    \/ Seal

Spec == Init /\ [][Next]_vars
=============================================================================
