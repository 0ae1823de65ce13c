------------------------ MODULE DecisionPolicyProofs ------------------------
(***************************************************************************)
(* What the two policy engines answer to one request, for every scale,     *)
(* threshold and cap and every request: the lemmas that the proofs about   *)
(* DecisionScoring and HoldWorkflow rest on.                               *)
(***************************************************************************)
EXTENDS DecisionPolicy, TLAPS

(* What an answered RELEASE rests on.                                      *)
Justified(q) ==
  /\ ~q.systemError /\ ~q.p.novelty
  /\ \/ q.round = 0 /\ q.p.release >= ReleaseThreshold
     \/ q.round = 1 /\ q.verdict = "SUPPORTED" /\ q.p.escalate < EvidenceRiskCap

(* What both engines promise of the result they give to a request.         *)
Promised(q, a) ==
  /\ a \in PolicyResults
  /\ a.allowed = "RELEASE" => q.candidate = "RELEASE" /\ Justified(q)
  /\ a.allowed = "EVIDENCE_NEEDED" => q.candidate = "EVIDENCE_NEEDED" /\ q.round = 0

(* An engine that allows a decision answers with a PolicyResult.           *)
LEMMA AllowType ==
  ASSUME NEW d \in Decisions, NEW r \in Reasons
  PROVE  Allow(d, r) \in PolicyResults
BY DEF Allow, PolicyResults

(* An escalation is safe for every request.                                *)
LEMMA EscalationKept ==
  ASSUME NEW q \in PolicyChecks, NEW r \in Reasons
  PROVE  Promised(q, Escalation(r))
BY DEF Promised, Escalation, PolicyResults, Decisions

(* The bodies of the Rego rule, one by one.                                *)
LEMMA RegoBodies ==
  ASSUME NEW q \in PolicyChecks, NEW a
  PROVE  a \in RegoDecisions(q) <=>
           \/ q.systemError /\ a = Escalation("SYSTEM_ERROR")
           \/ q.p.novelty /\ a = Escalation("NOVELTY_OVERRIDE")
           \/ q.round > 1 /\ a = Escalation("INVALID_EVIDENCE_ROUND")
           \/ /\ Sound(q) /\ q.round = 0 /\ q.candidate = "RELEASE"
              /\ q.p.release >= ReleaseThreshold
              /\ a = Allow("RELEASE", "RELEASE_GUARDRAILS_PASSED")
           \/ /\ Sound(q) /\ q.round = 1 /\ q.candidate = "RELEASE"
              /\ q.verdict = "SUPPORTED" /\ q.p.escalate < EvidenceRiskCap
              /\ a = Allow("RELEASE", "SUPPORTED_EVIDENCE_RELEASE")
           \/ /\ Sound(q) /\ q.round = 0 /\ q.candidate = "EVIDENCE_NEEDED"
              /\ a = Allow("EVIDENCE_NEEDED", "ONE_EVIDENCE_ROUND_AVAILABLE")
           \/ /\ Sound(q) /\ q.round <= 1 /\ q.candidate = "ESCALATE"
              /\ a = Allow("ESCALATE", "CANDIDATE_ESCALATE")
           \/ /\ Sound(q) /\ q.round = 1 /\ q.candidate = "EVIDENCE_NEEDED"
              /\ a = Escalation("EVIDENCE_ROUND_EXHAUSTED")
<1>1. ASSUME NEW body, NEW value
      PROVE  a \in Fires(body, value) <=> (body /\ a = value)
  BY DEF Fires
<1>2. a \in RegoDecisions(q) <=>
        \/ a \in Fires(q.systemError, Escalation("SYSTEM_ERROR"))
        \/ a \in Fires(q.p.novelty, Escalation("NOVELTY_OVERRIDE"))
        \/ a \in Fires(q.round > 1, Escalation("INVALID_EVIDENCE_ROUND"))
        \/ a \in RegoRelease(q) \/ a \in RegoEvidenceRelease(q)
        \/ a \in Fires(Sound(q) /\ q.round = 0 /\ q.candidate = "EVIDENCE_NEEDED",
                       Allow("EVIDENCE_NEEDED", "ONE_EVIDENCE_ROUND_AVAILABLE"))
        \/ a \in Fires(Sound(q) /\ q.round <= 1 /\ q.candidate = "ESCALATE",
                       Allow("ESCALATE", "CANDIDATE_ESCALATE"))
        \/ a \in Fires(Sound(q) /\ q.round = 1 /\ q.candidate = "EVIDENCE_NEEDED",
                       Escalation("EVIDENCE_ROUND_EXHAUSTED"))
  BY Zenon DEF RegoDecisions
<1>. QED
  BY <1>1, <1>2, Zenon DEF RegoRelease, RegoEvidenceRelease

(* The components of a PolicyCheck have their types.                       *)
LEMMA CheckTypes ==
  ASSUME NEW q \in PolicyChecks
  PROVE  /\ q.systemError \in BOOLEAN /\ q.p.novelty \in BOOLEAN
         /\ q.round \in Nat /\ q.candidate \in Decisions
         /\ q.p.release \in Int /\ q.p.escalate \in Int
         /\ q.verdict \in Verdicts \cup {NoVerdict}
<1>1. q.p \in Predictions
  BY DEF PolicyChecks
<1>. QED
  BY <1>1, ScaleAssumption DEF PolicyChecks, Predictions

(* What the Rego rule answers is a result that is safe for its request.    *)
LEMMA RegoKept ==
  ASSUME NEW q \in PolicyChecks, NEW a \in RegoDecisions(q)
  PROVE  Promised(q, a)
<1>1. CASE a.guardrail
  <2>1. a = Escalation("SYSTEM_ERROR") \/ a = Escalation("NOVELTY_OVERRIDE")
        \/ a = Escalation("INVALID_EVIDENCE_ROUND")
        \/ a = Escalation("EVIDENCE_ROUND_EXHAUSTED")
    BY <1>1, RegoBodies DEF Allow
  <2>. QED  BY <2>1, EscalationKept DEF Reasons
<1>2. CASE ~a.guardrail
  <2>1. a \in PolicyResults
    <3>1. \/ a = Allow("RELEASE", "RELEASE_GUARDRAILS_PASSED")
          \/ a = Allow("RELEASE", "SUPPORTED_EVIDENCE_RELEASE")
          \/ a = Allow("EVIDENCE_NEEDED", "ONE_EVIDENCE_ROUND_AVAILABLE")
          \/ a = Allow("ESCALATE", "CANDIDATE_ESCALATE")
      BY <1>2, RegoBodies DEF Escalation
    <3>. QED  BY <3>1, AllowType DEF Decisions, Reasons
  <2>2. a.allowed = "RELEASE" => q.candidate = "RELEASE" /\ Justified(q)
    BY <1>2, RegoBodies DEF Allow, Escalation, Justified, Sound
  <2>3. a.allowed = "EVIDENCE_NEEDED" => q.candidate = "EVIDENCE_NEEDED" /\ q.round = 0
    BY <1>2, RegoBodies DEF Allow, Escalation
  <2>. QED  BY <2>1, <2>2, <2>3 DEF Promised
<1>. QED  BY <1>1, <1>2

(* So is what the client of OPA makes of it, evaluation errors included.   *)
LEMMA OpaKept ==
  ASSUME NEW q \in PolicyChecks
  PROVE  Promised(q, OpaCheck(q))
<1>1. Promised(q, Unavailable)
  BY EscalationKept DEF Unavailable, Reasons
<1>2. Promised(q, RegoAnswer(q))
  <2>1. CASE RegoDecisions(q) = {}
    BY <2>1, EscalationKept DEF RegoAnswer, Reasons
  <2>2. CASE RegoDecisions(q) # {}
    <3>1. RegoAnswer(q) \in RegoDecisions(q)
      BY <2>2 DEF RegoAnswer
    <3>. QED  BY <3>1, RegoKept
  <2>. QED  BY <2>1, <2>2
<1>. QED  BY <1>1, <1>2 DEF OpaCheck

(* A RELEASE candidate the local policy lets pass is justified.            *)
LEMMA JustifiedReleases ==
  ASSUME NEW q \in PolicyChecks, Justified(q)
  PROVE  LocalRelease(q) = Allow("RELEASE", "RELEASE_GUARDRAILS_PASSED")
BY CheckTypes, ScaleAssumption DEF LocalRelease, Justified, Verdicts, NoVerdict

(* The local policy's answer to a RELEASE candidate is safe.               *)
LEMMA LocalReleaseKept ==
  ASSUME NEW q \in PolicyChecks, Sound(q), q.round <= 1, q.candidate = "RELEASE"
  PROVE  Promised(q, LocalRelease(q))
<1>. USE CheckTypes, ScaleAssumption
<1>0. q.round \in {0, 1} /\ q.verdict \in Verdicts \cup {NoVerdict}
  OBVIOUS
<1>1. CASE q.round = 0 /\ q.p.release < ReleaseThreshold
  <2>1. LocalRelease(q) = Escalation("RELEASE_THRESHOLD_NOT_MET")
    BY <1>1 DEF LocalRelease
  <2>. QED  BY <2>1, EscalationKept DEF Reasons
<1>2. CASE q.round = 1 /\ q.verdict = NoVerdict
  <2>1. LocalRelease(q) = Escalation("EVIDENCE_ASSESSMENT_MISSING")
    BY <1>2 DEF LocalRelease, Verdicts, NoVerdict
  <2>. QED  BY <2>1, EscalationKept DEF Reasons
<1>3. CASE q.round = 1 /\ q.verdict \in Verdicts \ {"SUPPORTED"}
  <2>1. LocalRelease(q) = Escalation("EVIDENCE_NOT_SUPPORTED")
    BY <1>3 DEF LocalRelease, Verdicts, NoVerdict
  <2>. QED  BY <2>1, EscalationKept DEF Reasons
<1>4. CASE q.round = 1 /\ q.verdict = "SUPPORTED" /\ q.p.escalate >= EvidenceRiskCap
  <2>1. LocalRelease(q) = Escalation("EVIDENCE_RELEASE_RISK_CAP_EXCEEDED")
    BY <1>4 DEF LocalRelease, Verdicts, NoVerdict
  <2>. QED  BY <2>1, EscalationKept DEF Reasons
<1>5. CASE \/ q.round = 0 /\ q.p.release >= ReleaseThreshold
           \/ q.round = 1 /\ q.verdict = "SUPPORTED" /\ q.p.escalate < EvidenceRiskCap
  <2>1. LocalRelease(q) = Allow("RELEASE", "RELEASE_GUARDRAILS_PASSED")
    BY <1>5, JustifiedReleases DEF Justified, Sound
  <2>. QED  BY <1>5, <2>1 DEF Promised, Justified, Sound, Allow, PolicyResults, Decisions, Reasons
<1>. QED
  <2>1. \/ q.round = 0 /\ q.p.release < ReleaseThreshold
        \/ q.round = 0 /\ q.p.release >= ReleaseThreshold
        \/ q.round = 1 /\ q.verdict = NoVerdict
        \/ q.round = 1 /\ q.verdict \in Verdicts \ {"SUPPORTED"}
        \/ q.round = 1 /\ q.verdict = "SUPPORTED" /\ q.p.escalate >= EvidenceRiskCap
        \/ q.round = 1 /\ q.verdict = "SUPPORTED" /\ q.p.escalate < EvidenceRiskCap
    BY <1>0
  <2>. QED  BY <2>1, <1>1, <1>2, <1>3, <1>4, <1>5

(* The local policy's answer to every candidate is safe.                   *)
LEMMA LocalKept ==
  ASSUME NEW q \in PolicyChecks
  PROVE  Promised(q, LocalCheck(q))
<1>. USE CheckTypes
<1>1. CASE ~Sound(q) \/ q.round > 1
  BY <1>1, EscalationKept DEF LocalCheck, Sound, Reasons
<1>2. CASE Sound(q) /\ q.round <= 1 /\ q.candidate = "RELEASE"
  BY <1>2, LocalReleaseKept DEF LocalCheck, Sound
<1>3. CASE Sound(q) /\ q.round = 0 /\ q.candidate = "EVIDENCE_NEEDED"
  <2>1. LocalCheck(q) = Allow("EVIDENCE_NEEDED", "ONE_EVIDENCE_ROUND_AVAILABLE")
    BY <1>3 DEF LocalCheck, Sound
  <2>. QED  BY <1>3, <2>1 DEF Promised, Allow, PolicyResults, Decisions, Reasons
<1>4. CASE Sound(q) /\ q.round = 1 /\ q.candidate = "EVIDENCE_NEEDED"
  <2>1. LocalCheck(q) = Escalation("EVIDENCE_ROUND_EXHAUSTED")
    BY <1>4 DEF LocalCheck, Sound
  <2>. QED  BY <2>1, EscalationKept DEF Reasons
<1>5. CASE Sound(q) /\ q.round <= 1 /\ q.candidate = "ESCALATE"
  <2>1. LocalCheck(q) = Allow("ESCALATE", "CANDIDATE_ESCALATE")
    BY <1>5 DEF LocalCheck, Sound
  <2>. QED  BY <2>1 DEF Promised, Allow, PolicyResults, Decisions, Reasons
<1>. QED
  BY <1>1, <1>2, <1>3, <1>4, <1>5 DEF Decisions

-----------------------------------------------------------------------------
(* The two engines side by side.  A sound request of round 0 or 1 makes at *)
(* most one body of the Rego rule hold, so OPA has no conflict there.      *)
LEMMA NoConflictWhenSound ==
  ASSUME NEW q \in PolicyChecks, Sound(q), q.round <= 1
  PROVE  ~RegoConflict(q)
<1>. SUFFICES ASSUME NEW a \in RegoDecisions(q), NEW b \in RegoDecisions(q)
              PROVE  a = b
  BY DEF RegoConflict
<1>. QED
  BY RegoBodies, CheckTypes DEF Sound

(* An unsound request, or one of a round above 1, is escalated by both.    *)
LEMMA UnsoundEscalates ==
  ASSUME NEW q \in PolicyChecks, ~Sound(q) \/ q.round > 1
  PROVE  LocalCheck(q).allowed = "ESCALATE" /\ OpaCheck(q).allowed = "ESCALATE"
<1>1. LocalCheck(q).allowed = "ESCALATE"
  BY CheckTypes DEF LocalCheck, Escalation, Sound
<1>2. \A a \in RegoDecisions(q) : a.allowed = "ESCALATE"
  BY RegoBodies, CheckTypes DEF Escalation, Allow
<1>3. RegoAnswer(q).allowed = "ESCALATE"
  BY <1>2 DEF RegoAnswer, Escalation
<1>. QED  BY <1>1, <1>3 DEF OpaCheck, Unavailable, Escalation

(* The two engines allow the same decision for every request.              *)
LEMMA EnginesAgree ==
  ASSUME NEW q \in PolicyChecks
  PROVE  LocalCheck(q).allowed = OpaCheck(q).allowed
<1>1. CASE ~Sound(q) \/ q.round > 1
  BY <1>1, UnsoundEscalates
<1>2. CASE Sound(q) /\ q.round <= 1
  <2>1. OpaCheck(q) = RegoAnswer(q)
    BY <1>2, NoConflictWhenSound DEF OpaCheck
  <2>2. ASSUME NEW a \in RegoDecisions(q)
        PROVE  LocalCheck(q).allowed = a.allowed
    <3>1. CASE a.allowed = "RELEASE"
      <4>1. q.candidate = "RELEASE" /\ Justified(q)
        BY <3>1, RegoKept DEF Promised
      <4>2. LocalRelease(q) = Allow("RELEASE", "RELEASE_GUARDRAILS_PASSED")
        BY <4>1, JustifiedReleases
      <4>. QED  BY <1>2, <3>1, <4>1, <4>2, CheckTypes DEF LocalCheck, Sound, Allow
    <3>2. CASE q.candidate = "RELEASE"
      <4>1. a.allowed = "RELEASE"
        BY <1>2, <3>2, RegoBodies, CheckTypes DEF Sound, Allow
      <4>. QED  BY <3>1, <4>1
    <3>3. CASE q.candidate # "RELEASE"
      BY <1>2, <3>3, RegoBodies, CheckTypes
      DEF LocalCheck, Sound, Allow, Escalation, Decisions
    <3>. QED  BY <3>2, <3>3
  <2>3. CASE RegoDecisions(q) # {}
    <3>1. RegoAnswer(q) \in RegoDecisions(q)
      BY <2>3 DEF RegoAnswer
    <3>. QED  BY <2>1, <2>2, <3>1
  <2>4. CASE RegoDecisions(q) = {}
    <3>1. RegoAnswer(q).allowed = "ESCALATE"
      BY <2>4 DEF RegoAnswer, Escalation
    <3>2. LocalCheck(q).allowed = "ESCALATE"
      <4>1. LocalCheck(q).allowed \in Decisions
        BY LocalKept DEF Promised, PolicyResults
      <4>2. ASSUME LocalCheck(q).allowed = "RELEASE"  PROVE FALSE
        <5>1. q.candidate = "RELEASE" /\ Justified(q)
          BY <4>2, LocalKept DEF Promised
        <5>2. \/ Allow("RELEASE", "RELEASE_GUARDRAILS_PASSED") \in RegoDecisions(q)
              \/ Allow("RELEASE", "SUPPORTED_EVIDENCE_RELEASE") \in RegoDecisions(q)
          BY <1>2, <5>1, RegoBodies DEF Justified
        <5>. QED  BY <2>4, <5>2
      <4>3. ASSUME LocalCheck(q).allowed = "EVIDENCE_NEEDED"  PROVE FALSE
        <5>1. q.candidate = "EVIDENCE_NEEDED" /\ q.round = 0
          BY <4>3, LocalKept DEF Promised
        <5>2. Allow("EVIDENCE_NEEDED", "ONE_EVIDENCE_ROUND_AVAILABLE") \in RegoDecisions(q)
          BY <1>2, <5>1, RegoBodies
        <5>. QED  BY <2>4, <5>2
      <4>. QED  BY <4>1, <4>2, <4>3 DEF Decisions
    <3>. QED  BY <2>1, <3>1, <3>2
  <2>. QED  BY <2>3, <2>4
<1>. QED
  BY <1>1, <1>2, CheckTypes

(* The prediction that stands in for a failed model is a prediction.       *)
LEMMA FailurePredictionType == FailurePrediction \in Predictions
BY ScaleAssumption DEF FailurePrediction, Predictions

(* The candidate of every prediction, round and verdict is a decision.     *)
LEMMA CandidateType ==
  ASSUME NEW p, NEW round, NEW v
  PROVE  /\ Candidate(p, round, v) \in Decisions
         /\ round = 1 => Candidate(p, round, v) # "EVIDENCE_NEEDED"
BY DEF Candidate, Choose, Decisions
=============================================================================
