--------------------------- MODULE MCHoldWorkflow ---------------------------
(* HoldWorkflow with probabilities in fifths: 4/5 is the release threshold *)
(* 0.80, 3/5 stands for 0.55 and 1/5 is the risk cap 0.20.                 *)
EXTENDS HoldWorkflow, TLC

(* A sure release, and an uncertain case: evidence is asked for in round 0 *)
(* and supported evidence releases it in round 1.  Escalations come from   *)
(* failures of the model and the engine.                                   *)
MCPredictions ==
  {[release |-> 5, needed |-> 0, escalate |-> 0, novelty |-> FALSE],
   [release |-> 3, needed |-> 2, escalate |-> 0, novelty |-> FALSE]}

MCUncertain ==
  {[release |-> 3, needed |-> 2, escalate |-> 0, novelty |-> FALSE]}

MCHumanOnly == {HumanOnlyPrediction}

MCReviews == Submissions

(* One submission for each state a review can lead to.                     *)
MCFewReviews ==
  {[outcome |-> None, action |-> "APPROVE_RELEASE", authorized |-> None],
   [outcome |-> None, action |-> "REQUEST_EVIDENCE", authorized |-> None],
   [outcome |-> "FRAUD_CONFIRMED", action |-> None, authorized |-> None],
   [outcome |-> "CONTINUE_HOLD", action |-> None, authorized |-> None],
   [outcome |-> None, action |-> "OVERRIDE_AI", authorized |-> "RELEASE"]}

Symmetry ==
  Permutations(Tasks) \cup Permutations(EvidenceIds) \cup Permutations(ReviewIds)
    \cup Permutations(Holds)
=============================================================================
