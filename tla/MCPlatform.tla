------------------------------ MODULE MCPlatform ------------------------------
(* The scoring pipeline and the parts around the hold workflow, each on its*)
(* own: a behaviour runs one of them, and the others stay as they are at   *)
(* the start.  Probabilities are in twentieths: 16/20, 11/20 and 4/20 are  *)
(* the code's 0.80, 0.55 and 0.20.                                         *)
EXTENDS DevelopmentHolds, ServiceStartup, RequestGate, DecisionScoring

VARIABLE part

notDevelopment == <<part, signer, signed, published, startVars, gateVars, vars>>
notLedger   == <<part, run, mem, recent, devTask, scan, scored, faults, startVars, gateVars, vars>>
notStartup  == <<part, devVars, signer, signed, published, gateVars, vars>>
notGate     == <<part, devVars, signer, signed, published, startVars, vars>>
notScoring  == <<part, devVars, signer, signed, published, startVars, gateVars>>
platformVars == <<part, devVars, signer, signed, published, startVars, gateVars, vars>>

MCPredictions ==
  {[release |-> 20, needed |-> 0, escalate |-> 0, novelty |-> FALSE],
   [release |-> 12, needed |-> 8, escalate |-> 0, novelty |-> FALSE]}

MCReviews ==
  {[outcome |-> None, action |-> "APPROVE_RELEASE", authorized |-> None],
   [outcome |-> "FRAUD_CONFIRMED", action |-> None, authorized |-> None],
   [outcome |-> None, action |-> "REQUEST_EVIDENCE", authorized |-> None],
   [outcome |-> "CONTINUE_HOLD", action |-> None, authorized |-> None]}

MCSettings ==
  {d \in SettingsValues :
     /\ d.database /\ d.opa
     /\ d.decision_mode = "human_only" => d.release = "none" /\ d.environment = "production"
     /\ d.release = "no key" => d.environment = "production"
     /\ d.razorpay = IF d.environment = "production" /\ d.evidence_keys
                       THEN "no secret" ELSE "off"}
  \cup {d \in SettingsValues :
     /\ d.environment = "production" /\ d.evidence_keys /\ d.razorpay = "complete"
     /\ d.decision_mode = "model" /\ d.release = "complete" /\ d.database = d.opa}

\* Development, staging and production, and production without keys.
MCDeployments ==
  {[engine |-> "local", verifier |-> "legacy"],
   [engine |-> "opa", verifier |-> "signed"],
   [engine |-> "opa", verifier |-> "unavailable"]}
MCExtraRounds == {2}
MCRecencies == {0, 168, 169}   \* they straddle the limit
-----------------------------------------------------------------------------
PlatformInit ==
  /\ part \in {"ledger", "development", "startup", "gate", "scoring"}
  /\ DevInit /\ LedgerInit
  /\ StartInit /\ (part # "startup" => settings = CHOOSE d \in SettingsUsed : TRUE)
  /\ GateInit /\ (part # "gate" => caller = CHOOSE c \in Callers : c.host = "trusted")
  /\ \/ part = "scoring" /\ Init
     \/ /\ part # "scoring"
        /\ deployment = [engine |-> "opa", verifier |-> "signed"] /\ stage = "score"
        /\ input = [p |-> FailurePrediction, round |-> 0, facts |-> NoFacts]
        /\ modelFailed = FALSE /\ request = NotAsked /\ result = NotAnswered

PlatformNext ==
  \/ part = "ledger"      /\ LedgerNext /\ UNCHANGED notLedger
  \/ part = "development" /\ DevNext    /\ UNCHANGED notDevelopment
  \/ part = "startup"     /\ StartNext  /\ UNCHANGED notStartup
  \/ part = "gate"        /\ GateNext   /\ UNCHANGED notGate
  \/ part = "scoring"     /\ Next       /\ UNCHANGED notScoring

PlatformSpec == PlatformInit /\ [][PlatformNext]_platformVars /\ DevFairness
=============================================================================
