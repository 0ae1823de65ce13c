--------------------------- MODULE DecisionPolicy ---------------------------
(***************************************************************************)
(* How one recommendation is computed: the cost policy that turns a        *)
(* prediction into a candidate (risk.py), the evidence rule of the second  *)
(* round (workflow.py), the guardrails as LocalHoldPolicy evaluates them   *)
(* (policy.py) and as the Rego package does (hold_policy.rego), and the    *)
(* evidence verifiers (evidence.py).                                       *)
(*                                                                         *)
(* Probabilities are multiples of 1/Scale: only their comparison with the  *)
(* two thresholds and the risk cap decides anything.                       *)
(***************************************************************************)
EXTENDS Integers

CONSTANTS
  Scale,             \* the probability 1
  ReleaseThreshold,  \* Thresholds.release
  EscalateThreshold, \* Thresholds.escalate
  EvidenceRiskCap    \* DecisionPolicyConfig.evidence_release_risk_cap

ASSUME ScaleAssumption ==
  /\ Scale \in Nat \ {0}
  /\ ReleaseThreshold \in 0 .. Scale
  /\ EscalateThreshold \in 0 .. Scale
  /\ EvidenceRiskCap \in 0 .. Scale

Decisions == {"RELEASE", "EVIDENCE_NEEDED", "ESCALATE"}
Verdicts  == {"SUPPORTED", "INSUFFICIENT", "CONTRADICTORY"}
NoVerdict == "NONE"      \* PolicyCheck.evidence_assessment is None

Predictions ==
  {p \in [release : 0 .. Scale, needed : 0 .. Scale, escalate : 0 .. Scale,
          novelty : BOOLEAN] :
     p.release + p.needed + p.escalate = Scale}

(* Mutant: a failure prediction whose probabilities do not add up.         *)
EmptyPrediction ==
  [release |-> 0, needed |-> 0, escalate |-> 0, novelty |-> TRUE]

FailurePrediction ==
  [release |-> 0, needed |-> 0, escalate |-> Scale, novelty |-> TRUE]

HumanOnlyPrediction ==
  [release |-> 0, needed |-> 0, escalate |-> Scale, novelty |-> FALSE]

-----------------------------------------------------------------------------
(* Mutant: no escalation threshold.                                        *)
ChooseWithoutEscalation(p, round) ==
  IF p.release >= ReleaseThreshold /\ ~p.novelty THEN "RELEASE"
  ELSE IF round = 0 THEN "EVIDENCE_NEEDED" ELSE "ESCALATE"

(* CostPolicy.choose.  The cheapest action it computes first is always     *)
(* overwritten by the threshold chain.                                     *)
Choose(p, round) ==
  CASE p.release >= ReleaseThreshold /\ ~p.novelty -> "RELEASE"
    [] ~(p.release >= ReleaseThreshold /\ ~p.novelty)
         /\ p.escalate >= EscalateThreshold        -> "ESCALATE"
    [] OTHER -> IF round = 0 THEN "EVIDENCE_NEEDED" ELSE "ESCALATE"

(* The candidate of HoldService._score: with evidence the cost policy's    *)
(* choice is replaced.                                                     *)
Candidate(p, round, verdict) ==
  IF verdict = NoVerdict
    THEN Choose(p, round)
    ELSE IF verdict = "SUPPORTED" /\ p.escalate < EvidenceRiskCap /\ ~p.novelty
           THEN "RELEASE" ELSE "ESCALATE"

-----------------------------------------------------------------------------
(* A PolicyCheck and the PolicyResult both engines give.                   *)
PolicyChecks ==
  [candidate : Decisions, p : Predictions, round : Nat,
   systemError : BOOLEAN, verdict : Verdicts \cup {NoVerdict}]

Reasons ==
  {"SYSTEM_ERROR", "NOVELTY_OVERRIDE", "INVALID_EVIDENCE_ROUND",
   "RELEASE_THRESHOLD_NOT_MET", "EVIDENCE_ASSESSMENT_MISSING",
   "EVIDENCE_NOT_SUPPORTED", "EVIDENCE_RELEASE_RISK_CAP_EXCEEDED",
   "RELEASE_GUARDRAILS_PASSED", "SUPPORTED_EVIDENCE_RELEASE",
   "ONE_EVIDENCE_ROUND_AVAILABLE", "EVIDENCE_ROUND_EXHAUSTED",
   "CANDIDATE_ESCALATE", "DEFAULT_ESCALATE", "POLICY_ENGINE_UNAVAILABLE"}

PolicyResults == [allowed : Decisions, guardrail : BOOLEAN, reason : Reasons]

Allow(decision, reason) ==
  [allowed |-> decision, guardrail |-> FALSE, reason |-> reason]

Escalation(reason) ==
  [allowed |-> "ESCALATE", guardrail |-> TRUE, reason |-> reason]

(* LocalHoldPolicy.check: an ordered chain of early returns.               *)
LocalRelease(q) ==
  CASE q.round = 0 /\ q.p.release < ReleaseThreshold ->
         Escalation("RELEASE_THRESHOLD_NOT_MET")
    [] q.round = 1 /\ q.verdict = NoVerdict ->
         Escalation("EVIDENCE_ASSESSMENT_MISSING")
    [] q.round = 1 /\ q.verdict \in Verdicts \ {"SUPPORTED"} ->
         Escalation("EVIDENCE_NOT_SUPPORTED")
    [] q.round = 1 /\ q.verdict = "SUPPORTED" /\ q.p.escalate >= EvidenceRiskCap ->
         Escalation("EVIDENCE_RELEASE_RISK_CAP_EXCEEDED")
    [] OTHER -> Allow("RELEASE", "RELEASE_GUARDRAILS_PASSED")

LocalCheck(q) ==
  IF q.systemError THEN Escalation("SYSTEM_ERROR")
  ELSE IF q.p.novelty THEN Escalation("NOVELTY_OVERRIDE")
  ELSE IF q.round > 1 THEN Escalation("INVALID_EVIDENCE_ROUND")
  ELSE CASE q.candidate = "RELEASE" -> LocalRelease(q)
         [] q.candidate = "EVIDENCE_NEEDED" ->
              IF q.round = 0 THEN Allow("EVIDENCE_NEEDED", "ONE_EVIDENCE_ROUND_AVAILABLE")
                             ELSE Escalation("EVIDENCE_ROUND_EXHAUSTED")
         [] OTHER -> Allow("ESCALATE", "CANDIDATE_ESCALATE")

(* hold_policy.rego: `decision` is a complete rule with several bodies.    *)
(* Every body that holds contributes its value.                            *)
Fires(body, value) == IF body THEN {value} ELSE {}

Sound(q) == ~q.systemError /\ ~q.p.novelty

(* Mutants: the candidate is not looked at; the cap is inclusive.          *)
RegoReleaseUnasked(q) ==
  Fires(Sound(q) /\ q.round = 0 /\ q.p.release >= ReleaseThreshold,
        Allow("RELEASE", "RELEASE_GUARDRAILS_PASSED"))

RegoEvidenceReleaseAtCap(q) ==
  Fires(Sound(q) /\ q.round = 1 /\ q.candidate = "RELEASE"
          /\ q.verdict = "SUPPORTED" /\ q.p.escalate <= EvidenceRiskCap,
        Allow("RELEASE", "SUPPORTED_EVIDENCE_RELEASE"))

RegoRelease(q) ==
  Fires(Sound(q) /\ q.round = 0 /\ q.candidate = "RELEASE"
          /\ q.p.release >= ReleaseThreshold,
        Allow("RELEASE", "RELEASE_GUARDRAILS_PASSED"))

RegoEvidenceRelease(q) ==
  Fires(Sound(q) /\ q.round = 1 /\ q.candidate = "RELEASE"
          /\ q.verdict = "SUPPORTED" /\ q.p.escalate < EvidenceRiskCap,
        Allow("RELEASE", "SUPPORTED_EVIDENCE_RELEASE"))

RegoDecisions(q) ==
  UNION {
    Fires(q.systemError, Escalation("SYSTEM_ERROR")),
    Fires(q.p.novelty, Escalation("NOVELTY_OVERRIDE")),
    Fires(q.round > 1, Escalation("INVALID_EVIDENCE_ROUND")),
    RegoRelease(q), RegoEvidenceRelease(q),
    Fires(Sound(q) /\ q.round = 0 /\ q.candidate = "EVIDENCE_NEEDED",
          Allow("EVIDENCE_NEEDED", "ONE_EVIDENCE_ROUND_AVAILABLE")),
    Fires(Sound(q) /\ q.round <= 1 /\ q.candidate = "ESCALATE",
          Allow("ESCALATE", "CANDIDATE_ESCALATE")),
    Fires(Sound(q) /\ q.round = 1 /\ q.candidate = "EVIDENCE_NEEDED",
          Escalation("EVIDENCE_ROUND_EXHAUSTED")) }

(* OPA answers the default when no body holds, and an evaluation error     *)
(* (HTTP 500) when two bodies give different values.                       *)
RegoConflict(q) == \E a, b \in RegoDecisions(q) : a # b

RegoAnswer(q) ==
  IF RegoDecisions(q) = {} THEN Escalation("DEFAULT_ESCALATE")
  ELSE CHOOSE a \in RegoDecisions(q) : TRUE

(* Mutant: the caller fails open.                                          *)
UnavailableReleases == Allow("RELEASE", "POLICY_ENGINE_UNAVAILABLE")

(* HoldService._score and the policy endpoint turn PolicyUnavailable into  *)
(* this result; an evaluation error reaches them as PolicyUnavailable.     *)
Unavailable == Escalation("POLICY_ENGINE_UNAVAILABLE")

OpaCheck(q) == IF RegoConflict(q) THEN Unavailable ELSE RegoAnswer(q)

(* How much caution a decision carries.                                    *)
Caution(d) == CASE d = "RELEASE" -> 0 [] d = "EVIDENCE_NEEDED" -> 1 [] d = "ESCALATE" -> 2

-----------------------------------------------------------------------------
(* DecisionReason of the stored recommendation.                            *)
DecisionReason(result, round) ==
  CASE ~result.guardrail -> "MODEL_POLICY"
    [] result.guardrail /\ result.reason = "NOVELTY_OVERRIDE" -> "NOVELTY_DISAGREEMENT"
    [] result.guardrail /\ result.reason # "NOVELTY_OVERRIDE"
         /\ (result.reason = "EVIDENCE_ROUND_EXHAUSTED" \/ round = 1) -> "EVIDENCE_EXHAUSTED"
    [] OTHER -> "POLICY_GUARDRAIL"

ReasonCodes ==
  {"MODEL_POLICY", "NOVELTY_DISAGREEMENT", "POLICY_GUARDRAIL", "MODEL_ERROR",
   "HUMAN_ONLY", "POLICY_ERROR", "EVIDENCE_EXHAUSTED"}

-----------------------------------------------------------------------------
(* Evidence facts the server derives: whether the type is the one the hold *)
(* asks for, whether the attested subject is the merchant, the recency in  *)
(* hours, and whether a known key signed the facts.                        *)
MaxRecencyHours == 168

EvidenceFacts(recencies) ==
  [typeMatch : BOOLEAN, subjectMatch : BOOLEAN, recency : recencies, signed : BOOLEAN]

SignedVerdict(e) ==
  CASE e.signed /\ e.typeMatch /\ e.subjectMatch /\ e.recency <= MaxRecencyHours ->
         "SUPPORTED"
    [] e.signed /\ (~e.typeMatch \/ ~e.subjectMatch) -> "CONTRADICTORY"
    [] OTHER -> "INSUFFICIENT"

LegacyVerdict(e) ==
  CASE e.typeMatch /\ e.recency <= MaxRecencyHours -> "SUPPORTED"
    [] ~e.typeMatch -> "CONTRADICTORY"
    [] OTHER -> "INSUFFICIENT"

UnavailableVerdict(e) == "INSUFFICIENT"
=============================================================================
