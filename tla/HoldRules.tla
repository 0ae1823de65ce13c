----------------------------- MODULE HoldRules -----------------------------
(***************************************************************************)
(* The rules of a settlement hold that both repositories share             *)
(* (domain.py, database.py, repository.py): its states, what an analyst    *)
(* may submit, and the state that a recommendation or a review leads to.   *)
(***************************************************************************)
EXTENDS DecisionPolicy

CONSTANT None       \* a null: no evidence row, no outcome, no argument

HoldStates ==
  {"OPEN", "AWAITING_EVIDENCE", "EVIDENCE_SUBMITTED", "RESOLVED",
   "HUMAN_REVIEW", "DENIED"}
Terminal == {"RESOLVED", "DENIED"}

HoldRows == [state : HoldStates \cup {"ABSENT"}, round : {0, 1}]

(* AnalystReviewSubmission, as validate_human_action accepts it.           *)
Outcomes == {"CLEARED", "FRAUD_CONFIRMED", "CONTINUE_HOLD"}
Actions  == {"APPROVE_RELEASE", "REQUEST_EVIDENCE", "ESCALATE", "OVERRIDE_AI"}

Submissions ==
  {s \in [outcome : Outcomes \cup {None}, action : Actions \cup {None},
          authorized : Decisions \cup {None}] :
     /\ (s.outcome = None) # (s.action = None)
     /\ (s.action = "OVERRIDE_AI") = (s.authorized # None)}

ResolvedAction(s) ==
  CASE s.action # None -> s.action
    [] s.action = None /\ s.outcome = "CLEARED" -> "APPROVE_RELEASE"
    [] OTHER -> "ESCALATE"

ResolvedDecision(s) ==
  LET a == ResolvedAction(s) IN
  CASE a = "APPROVE_RELEASE"  -> "RELEASE"
    [] a = "REQUEST_EVIDENCE" -> "EVIDENCE_NEEDED"
    [] a = "OVERRIDE_AI"      -> s.authorized
    [] OTHER                  -> "ESCALATE"

TrainingLabel(s) ==
  CASE s.outcome = "FRAUD_CONFIRMED" -> "RISKY"
    [] s.outcome # "FRAUD_CONFIRMED" /\ ResolvedDecision(s) = "RELEASE" -> "LEGITIMATE"
    [] OTHER -> "UNRESOLVED"

StateAfterReview(s) ==
  LET d == ResolvedDecision(s) IN
  CASE d = "RELEASE"         -> "RESOLVED"
    [] d = "EVIDENCE_NEEDED" -> "AWAITING_EVIDENCE"
    [] d = "ESCALATE" -> IF ResolvedAction(s) = "OVERRIDE_AI"
                              \/ s.outcome = "FRAUD_CONFIRMED"
                           THEN "DENIED" ELSE "HUMAN_REVIEW"

(* Mutants: a second evidence round passes; a decision is stored as state; *)
(* a recommendation releases.                                              *)
SecondRoundPasses(d, round) == FALSE
DecisionAsState(d) == IF d = "ESCALATE" THEN "HUMAN_REVIEW" ELSE d
ReleaseResolves(d) ==
  CASE d = "EVIDENCE_NEEDED" -> "AWAITING_EVIDENCE" [] d = "RELEASE" -> "RESOLVED"
    [] OTHER -> "HUMAN_REVIEW"

(* _state_for_decision; the second evidence round raises.                  *)
SecondRound(d, round) == d = "EVIDENCE_NEEDED" /\ round = 1

StateForDecision(d) ==
  IF d = "EVIDENCE_NEEDED" THEN "AWAITING_EVIDENCE" ELSE "HUMAN_REVIEW"
=============================================================================
