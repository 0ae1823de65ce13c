----------------------- MODULE DecisionScoringProofs -----------------------
(***************************************************************************)
(* The properties of DecisionScoring, for every scale, threshold and cap,  *)
(* every engine and verifier, and every round a direct PolicyCheck may     *)
(* carry, from what the two engines answer to one request.                 *)
(***************************************************************************)
EXTENDS DecisionScoring, DecisionPolicyProofs

(* What PolicyAnswers and PolicyUnreachable put into result.               *)
LEMMA AnswerKept ==
  ASSUME NEW q \in PolicyChecks, NEW a \in {EngineCheck(q), Unavailable}
  PROVE  Promised(q, a)
BY LocalKept, OpaKept, EscalationKept DEF EngineCheck, Unavailable, Reasons

-----------------------------------------------------------------------------
(* The invariant: types, and what the answer promises of the request.  The *)
(* last part ties the request to the call it came from: a first-round call *)
(* carries no verdict, and a second-round candidate is never a request for *)
(* evidence and is RELEASE only on a supporting verdict of this evidence;  *)
(* after a failure of the model the candidate is ESCALATE.                 *)
Answered == stage = "respond" => Promised(request, result)

RequestFollowsInput ==
  stage \in {"check", "respond"} /\ input.round = 1 =>
    /\ request.round = 1
    /\ request.candidate # "EVIDENCE_NEEDED"
    /\ request.verdict \in {Assess(input), NoVerdict}

FailedCandidate ==
  modelFailed => stage # "score" /\ request.candidate = "ESCALATE"

IInv == TypeOK /\ Answered /\ RequestFollowsInput /\ FailedCandidate

(* A verifier answers one of its verdicts, or there is no evidence.        *)
LEMMA AssessType ==
  ASSUME NEW in
  PROVE  Assess(in) \in Verdicts \cup {NoVerdict}
BY DEF Assess, SignedVerdict, LegacyVerdict, UnavailableVerdict, Verdicts, NoVerdict

(* What is asked of the policy engine is typed.                            *)
LEMMA CheckOfType ==
  ASSUME NEW c \in Decisions, NEW p \in Predictions, NEW round \in Nat,
         NEW v \in Verdicts \cup {NoVerdict}, NEW failed \in BOOLEAN
  PROVE  CheckOf(c, p, round, v, failed) \in PolicyChecks
BY DEF CheckOf, PolicyChecks

-----------------------------------------------------------------------------
(* The invariant holds at the start.                                       *)
LEMMA InitIInv == Init => IInv
<1>1. ASSUME ServiceInit  PROVE IInv
  <2>1. input \in [p : Predictions, round : {0, 1}, facts : EvidenceFacts(Nat)]
    <3>1. NoFacts \in EvidenceFacts(Nat)
      BY DEF EvidenceFacts, NoFacts
    <3>2. \A e \in EvidenceFacts(Recencies) : e \in EvidenceFacts(Nat)
      BY InputAssumption DEF EvidenceFacts
    <3>. QED  BY <1>1, <3>1, <3>2 DEF ServiceInit, Inputs
  <2>2. request \in PolicyChecks
    BY <1>1, FailurePredictionType, CheckOfType
    DEF ServiceInit, NotAsked, Decisions, NoVerdict
  <2>3. result \in PolicyResults
    BY <1>1, AllowType DEF ServiceInit, NotAnswered, Decisions, Reasons
  <2>4. deployment \in Configurations
    BY <1>1, InputAssumption DEF ServiceInit
  <2>. QED
    BY <1>1, <2>1, <2>2, <2>3, <2>4 DEF ServiceInit, IInv, TypeOK, Answered, RequestFollowsInput,
                                          FailedCandidate
<1>2. ASSUME DirectInit  PROVE IInv
  <2>1. input \in [p : Predictions, round : {0, 1}, facts : EvidenceFacts(Nat)]
    BY <1>2, FailurePredictionType DEF DirectInit, EvidenceFacts, NoFacts
  <2>2. request \in PolicyChecks
    <3>1. {0, 1} \cup ExtraRounds \subseteq Nat
      BY InputAssumption
    <3>2. request \in DirectChecks
      BY <1>2 DEF DirectInit
    <3>. QED  BY <3>1, <3>2 DEF DirectChecks, PolicyChecks
  <2>3. result \in PolicyResults
    BY <1>2, AllowType DEF DirectInit, NotAnswered, Decisions, Reasons
  <2>4. stage = "check" /\ modelFailed = FALSE /\ input.round = 0
    BY <1>2 DEF DirectInit
  <2>5. TypeOK
    <3>1. deployment \in Configurations
      BY <1>2, InputAssumption DEF DirectInit
    <3>. QED  BY <2>1, <2>2, <2>3, <2>4, <3>1 DEF TypeOK
  <2>6. Answered /\ RequestFollowsInput /\ FailedCandidate
    BY <2>4 DEF Answered, RequestFollowsInput, FailedCandidate
  <2>. QED  BY <2>5, <2>6 DEF IInv
<1>. QED  BY <1>1, <1>2 DEF Init

(* Every step keeps the invariant.                                         *)
LEMMA NextIInv == IInv /\ [Next]_vars => IInv'
<1>. SUFFICES ASSUME IInv, [Next]_vars  PROVE IInv'
  OBVIOUS
<1>. USE DEF IInv
<1>0. input.p \in Predictions /\ input.round \in Nat
  BY DEF TypeOK
<1>1. CASE ScoreModel
  <2>. DEFINE v == Assess(input)
              q == CheckOf(Candidate(input.p, input.round, v), input.p, input.round, v, FALSE)
  <2>1. request' = q /\ stage' = "check" /\ UNCHANGED <<deployment, input, modelFailed, result>>
    BY <1>1 DEF ScoreModel
  <2>2. q \in PolicyChecks
    BY <1>0, AssessType, CandidateType, CheckOfType
  <2>3. TypeOK'
    BY <2>1, <2>2 DEF TypeOK
  <2>4. RequestFollowsInput'
    BY <2>1, CandidateType DEF RequestFollowsInput, CheckOf, Assess
  <2>5. FailedCandidate'
    <3>1. ~modelFailed
      BY <1>1 DEF FailedCandidate, ScoreModel
    <3>. QED  BY <2>1, <3>1 DEF FailedCandidate
  <2>. QED  BY <2>1, <2>3, <2>4, <2>5 DEF Answered
<1>2. CASE ScoreFails
  <2>1. PICK v \in {Assess(input), NoVerdict} :
          request' = CheckOf("ESCALATE", FailurePrediction, input.round, v, TRUE)
    BY <1>2 DEF ScoreFails
  <2>2. request' \in PolicyChecks
    BY <1>0, <2>1, AssessType, FailurePredictionType, CheckOfType DEF Decisions
  <2>3. TypeOK'
    BY <1>2, <2>2 DEF ScoreFails, TypeOK
  <2>4. RequestFollowsInput'
    BY <1>2, <2>1 DEF ScoreFails, RequestFollowsInput, CheckOf, Assess
  <2>5. FailedCandidate'
    BY <1>2, <2>1 DEF ScoreFails, FailedCandidate, CheckOf
  <2>. QED  BY <1>2, <2>3, <2>4, <2>5 DEF ScoreFails, Answered
<1>3. CASE PolicyAnswers \/ PolicyUnreachable
  <2>1. /\ result' \in {EngineCheck(request), Unavailable}
        /\ stage = "check" /\ stage' = "respond"
        /\ UNCHANGED <<deployment, input, modelFailed, request>>
    BY <1>3 DEF PolicyAnswers, PolicyUnreachable
  <2>2. Promised(request, result')
    BY <2>1, AnswerKept DEF TypeOK
  <2>3. TypeOK'
    BY <2>1, <2>2 DEF TypeOK, Promised
  <2>4. RequestFollowsInput'
    BY <2>1 DEF RequestFollowsInput, Assess
  <2>. QED
    BY <2>1, <2>2, <2>3, <2>4 DEF Answered, Promised, Justified, FailedCandidate
<1>4. CASE UNCHANGED vars
  BY <1>4 
  DEF vars, TypeOK, Answered, Promised, Justified, RequestFollowsInput, Assess,
      FailedCandidate
<1>. QED  BY <1>1, <1>2, <1>3, <1>4 DEF Next

(* The inductive invariant holds in every reachable state.                 *)
THEOREM Invariance == Spec => []IInv
BY InitIInv, NextIInv, PTL DEF Spec

(* Every variable keeps its type.                                          *)
THEOREM Typing == Spec => []TypeOK
BY Invariance, PTL DEF IInv

(* policy.py and hold_policy.rego, every body and early return: a RELEASE  *)
(* answered to any request, of any caller, rests on no failure, no novelty *)
(* and the release threshold or supported evidence under the cap.          *)
THEOREM ReleaseJustified == Spec => []ReleaseIsJustified
<1>1. IInv => ReleaseIsJustified
  BY DEF IInv, Answered, Promised, Justified, ReleaseIsJustified
<1>. QED  BY <1>1, Invariance, PTL

(* "OPA can only preserve or make that action safer", for both engines and *)
(* when the engine fails.                                                  *)
THEOREM NeverSofter == Spec => []NeverLessCautious
<1>1. IInv => NeverLessCautious
  <2>. SUFFICES ASSUME IInv, stage = "respond"
                PROVE  Caution(result.allowed) >= Caution(request.candidate)
    BY DEF NeverLessCautious
  <2>1. result.allowed \in Decisions /\ request.candidate \in Decisions
    BY DEF IInv, TypeOK, PolicyResults, PolicyChecks
  <2>2. /\ result.allowed = "RELEASE" => request.candidate = "RELEASE"
        /\ result.allowed = "EVIDENCE_NEEDED" => request.candidate = "EVIDENCE_NEEDED"
    BY DEF IInv, Answered, Promised
  <2>. QED  BY <2>1, <2>2 DEF Decisions, Caution
<1>. QED  BY <1>1, Invariance, PTL

(* "Local mirror of the Rego guardrails": LocalHoldPolicy and OPA allow    *)
(* the same decision for every request a caller can make.                  *)
THEOREM EnginesMirror == Spec => []EnginesAllowTheSame
<1>1. IInv => EnginesAllowTheSame
  BY EnginesAgree DEF IInv, TypeOK, EnginesAllowTheSame
<1>. QED  BY <1>1, Invariance, PTL

(* The second round recommends RELEASE only on evidence that the verifier  *)
(* of the deployment holds to be of the right type, fresh and attested.    *)
THEOREM EvidenceRequired == Spec => []SecondRoundRestsOnEvidence
<1>1. IInv => SecondRoundRestsOnEvidence
  <2>. SUFFICES ASSUME IInv, stage = "respond", input.round = 1
                PROVE  SecondRoundRestsOnEvidence
    BY DEF SecondRoundRestsOnEvidence
  <2>1. /\ request.round = 1 /\ request.candidate # "EVIDENCE_NEEDED"
        /\ request.verdict \in {Assess(input), NoVerdict}
        /\ Promised(request, result)
    BY DEF IInv, RequestFollowsInput, Answered
  <2>2. ASSUME result.allowed = "RELEASE"  PROVE Assess(input) = "SUPPORTED"
    BY <2>1, <2>2 DEF Promised, Justified, NoVerdict
  <2>3. ASSUME Assess(input) = "SUPPORTED"
        PROVE  /\ input.facts.typeMatch /\ input.facts.recency <= MaxRecencyHours
               /\ deployment.verifier = "signed" => input.facts.signed /\ input.facts.subjectMatch
    BY <2>3 DEF Assess, SignedVerdict, LegacyVerdict, UnavailableVerdict, NoVerdict
  <2>. QED  BY <2>1, <2>2, <2>3 DEF Promised, SecondRoundRestsOnEvidence
<1>. QED  BY <1>1, Invariance, PTL

(* A failure of the model or of the engine, at any point of the call, is   *)
(* answered by ESCALATE and recorded as a failure (workflow.py:206-243).   *)
THEOREM FailuresRecorded == Spec => []FailuresAreOnRecord
<1>1. IInv => FailuresAreOnRecord
  <2>. SUFFICES ASSUME IInv, stage = "respond", modelFailed \/ result = Unavailable
                PROVE  /\ result.allowed = "ESCALATE"
                       /\ ReasonCode \in {"MODEL_ERROR", "POLICY_ERROR"}
    BY DEF FailuresAreOnRecord
  <2>1. CASE result = Unavailable
    BY <2>1 DEF Unavailable, Escalation, ReasonCode
  <2>2. CASE modelFailed
    <3>1. result.allowed \in Decisions
      BY DEF IInv, TypeOK, PolicyResults
    <3>2. request.candidate = "ESCALATE"
      BY <2>2 DEF IInv, FailedCandidate
    <3>3. result.allowed = "ESCALATE"
      BY <3>1, <3>2 DEF IInv, Answered, Promised, Decisions
    <3>. QED  BY <2>2, <3>3 DEF ReasonCode
  <2>. QED  BY <2>1, <2>2
<1>. QED  BY <1>1, Invariance, PTL

(* Both parts of the justification, for every scale and threshold          *)
(* (hold_policy.rego:22-46, workflow.py:184-212).                          *)
THEOREM ReleasesRest == Spec => []RecommendationsAreJustified
BY ReleaseJustified, EvidenceRequired, PTL DEF RecommendationsAreJustified

(* No step after the candidate is softer, and the engines agree            *)
(* (policy.py:21).                                                         *)
THEOREM EnginesTighten == Spec => []EnginesOnlyTighten
BY NeverSofter, EnginesMirror, PTL DEF EnginesOnlyTighten
=============================================================================
