-------------------------- MODULE DecisionScoring --------------------------
(***************************************************************************)
(* HoldService._score as a pipeline over every prediction: score or fail,  *)
(* ask the policy engine the deployment runs, build the recommendation.    *)
(* The engine is LocalHoldPolicy (development) or OPA (staging and         *)
(* production); /v1/internal/policy/check enters at the engine with any    *)
(* PolicyCheck.                                                            *)
(***************************************************************************)
EXTENDS DecisionPolicy

CONSTANTS
  Deployments,    \* the policy engines and evidence verifiers configured together
  Recencies,      \* recencies of the evidence, in hours
  ExtraRounds     \* evidence rounds above 1 that a direct PolicyCheck may carry

Configurations ==
  [engine : {"local", "opa"}, verifier : {"signed", "legacy", "unavailable"}]

ASSUME InputAssumption ==
  /\ Deployments \subseteq Configurations
  /\ Recencies \subseteq Nat
  /\ ExtraRounds \subseteq Nat

VARIABLES
  deployment,     \* fixed when the process starts
  stage,          \* "score", "check", "respond"
  input,          \* prediction, evidence round and evidence of the call
  modelFailed,    \* error_reason is MODEL_ERROR
  request,        \* the PolicyCheck
  result          \* the PolicyResult

vars == <<deployment, stage, input, modelFailed, request, result>>

NoFacts == [typeMatch |-> FALSE, subjectMatch |-> FALSE, recency |-> 0, signed |-> FALSE]

Inputs ==
  [p : Predictions, round : {0}, facts : {NoFacts}]
    \cup [p : Predictions, round : {1}, facts : EvidenceFacts(Recencies)]

(* evidence_verifier.assess; evaluate passes no evidence, rescore does.    *)
Assess(in) ==
  CASE in.round = 0 -> NoVerdict
    [] in.round # 0 /\ deployment.verifier = "signed" -> SignedVerdict(in.facts)
    [] in.round # 0 /\ deployment.verifier = "legacy" -> LegacyVerdict(in.facts)
    [] OTHER -> UnavailableVerdict(in.facts)

CheckOf(candidate, p, round, verdict, failed) ==
  [candidate |-> candidate, p |-> p, round |-> round,
   systemError |-> failed, verdict |-> verdict]

(* Requests of the policy endpoint: any candidate, any round.              *)
DirectChecks ==
  [candidate : Decisions, p : Predictions, round : {0, 1} \cup ExtraRounds,
   systemError : BOOLEAN, verdict : Verdicts \cup {NoVerdict}]

NotAsked    == CheckOf("ESCALATE", FailurePrediction, 0, NoVerdict, FALSE)
NotAnswered == Allow("ESCALATE", "CANDIDATE_ESCALATE")

-----------------------------------------------------------------------------
ServiceInit ==
  /\ deployment \in Deployments
  /\ stage = "score"
  /\ input \in Inputs
  /\ modelFailed = FALSE
  /\ request = NotAsked
  /\ result = NotAnswered

DirectInit ==
  /\ deployment \in Deployments
  /\ stage = "check"
  /\ request \in DirectChecks
  /\ input = [p |-> FailurePrediction, round |-> 0, facts |-> NoFacts]
  /\ modelFailed = FALSE
  /\ result = NotAnswered

Init == ServiceInit \/ DirectInit

(* Features are built and the model answers.                               *)
ScoreModel ==
  /\ stage = "score"
  /\ request' = LET v == Assess(input) IN
                 CheckOf(Candidate(input.p, input.round, v), input.p, input.round, v, FALSE)
  /\ stage' = "check"
  /\ UNCHANGED <<deployment, input, modelFailed, result>>

(* An ArithmeticError, RuntimeError or ValueError anywhere in the scoring  *)
(* block.  The evidence assessment survives when it was made before the    *)
(* failure.                                                                *)
ScoreFails ==
  /\ stage = "score"
  /\ modelFailed' = TRUE
  /\ \E v \in {Assess(input), NoVerdict} :
       request' = CheckOf("ESCALATE", FailurePrediction, input.round, v, TRUE)
  /\ stage' = "check"
  /\ UNCHANGED <<deployment, input, result>>

(* The engine answers.                                                     *)
EngineCheck(q) == IF deployment.engine = "opa" THEN OpaCheck(q) ELSE LocalCheck(q)

PolicyAnswers ==
  /\ stage = "check"
  /\ result' = EngineCheck(request)
  /\ stage' = "respond"
  /\ UNCHANGED <<deployment, input, modelFailed, request>>

(* The engine is unreachable: only OPA is remote.                          *)
PolicyUnreachable ==
  /\ stage = "check"
  /\ deployment.engine = "opa"
  /\ result' = Unavailable
  /\ stage' = "respond"
  /\ UNCHANGED <<deployment, input, modelFailed, request>>

Next == ScoreModel \/ ScoreFails \/ PolicyAnswers \/ PolicyUnreachable

Spec == Init /\ [][Next]_vars

-----------------------------------------------------------------------------
(* Mutant: the failure of the model is not remembered.                     *)
ReasonOfResult ==
  IF result.reason = "POLICY_ENGINE_UNAVAILABLE" THEN "POLICY_ERROR"
  ELSE DecisionReason(result, request.round)

(* DecisionResponse.reason_code in model mode: POLICY_ERROR replaces       *)
(* MODEL_ERROR.                                                            *)
ReasonCode ==
  IF result.reason = "POLICY_ENGINE_UNAVAILABLE" THEN "POLICY_ERROR"
  ELSE IF modelFailed THEN "MODEL_ERROR"
  ELSE DecisionReason(result, request.round)

-----------------------------------------------------------------------------
(* Every variable holds a value of its type.                               *)
TypeOK ==
  /\ deployment \in Configurations
  /\ stage \in {"score", "check", "respond"}
  /\ input \in [p : Predictions, round : {0, 1}, facts : EvidenceFacts(Nat)]
  /\ modelFailed \in BOOLEAN
  /\ request \in PolicyChecks
  /\ result \in PolicyResults

(* What an answered RELEASE rests on, whichever caller asked with whatever *)
(* candidate: no failure, no novelty, and in round 0 the release           *)
(* threshold, in round 1 supported evidence under the risk cap.            *)
(* hold_policy.rego:22-46, policy.py:28-53.                                *)
ReleaseIsJustified ==
  stage = "respond" /\ result.allowed = "RELEASE" =>
    /\ ~request.systemError /\ ~request.p.novelty
    /\ \/ request.round = 0 /\ request.p.release >= ReleaseThreshold
       \/ /\ request.round = 1 /\ request.verdict = "SUPPORTED"
          /\ request.p.escalate < EvidenceRiskCap

(* engineering-decisions.md:7, "OPA can only preserve or make that action  *)
(* safer": the answer is never less cautious than the candidate.           *)
NeverLessCautious ==
  stage = "respond" => Caution(result.allowed) >= Caution(request.candidate)

(* policy.py:21, "Local mirror of the Rego guardrails": the two engines    *)
(* allow the same decision for every request, counting an evaluation error *)
(* of OPA as the escalation the caller makes of it.                        *)
EnginesAllowTheSame ==
  stage = "check" => LocalCheck(request).allowed = OpaCheck(request).allowed

(* A second round never asks for evidence again, and it recommends RELEASE *)
(* only on evidence of the right type, fresh enough, and with the signed   *)
(* verifier attested for this merchant: whatever the model said, and       *)
(* through the candidate, the engine and its failures (workflow.py:184-212,*)
(* evidence.py:60-65, 104-109).                                            *)
SecondRoundRestsOnEvidence ==
  stage = "respond" /\ input.round = 1 =>
    /\ result.allowed # "EVIDENCE_NEEDED"
    /\ result.allowed = "RELEASE" =>
         /\ input.facts.typeMatch /\ input.facts.recency <= MaxRecencyHours
         /\ deployment.verifier = "signed" => input.facts.signed /\ input.facts.subjectMatch

(* engineering-decisions.md:13, "model and OPA failures" become "explicit  *)
(* ESCALATE records with reason codes": when the model or the engine failed*)
(* the recommendation is ESCALATE, and on record as a failure.             *)
FailuresAreOnRecord ==
  stage = "respond" /\ (modelFailed \/ result = Unavailable) =>
    /\ result.allowed = "ESCALATE"
    /\ ReasonCode \in {"MODEL_ERROR", "POLICY_ERROR"}

(* A recommendation to release rests on what the code says it rests on, in *)
(* either round.                                                           *)
RecommendationsAreJustified == ReleaseIsJustified /\ SecondRoundRestsOnEvidence

(* The engines only ever tighten the candidate, and both to the same.      *)
EnginesOnlyTighten == NeverLessCautious /\ EnginesAllowTheSame
=============================================================================
