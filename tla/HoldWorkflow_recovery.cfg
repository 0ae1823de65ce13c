SPECIFICATION FairSpec
CONSTANTS
  Scale = 5
  ReleaseThreshold = 4
  EscalateThreshold = 3
  EvidenceRiskCap = 1
  Holds = {h1}
  Tasks = {t1, t2}
  AutoTask = auto
  EvidenceIds = {e1}
  ReviewIds = {q1}
  ModelPredictions <- MCHumanOnly
  VerifierAnswers = {"SUPPORTED"}
  ClientReviews <- MCFewReviews
  HumanOnly = TRUE
  None = None
  MaxCalls = 2
  MaxAborts = 2
INVARIANT HumanOnlyEscalates
PROPERTY InterruptedEvaluationRecovers
CHECK_DEADLOCK FALSE
