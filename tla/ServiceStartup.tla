--------------------------- MODULE ServiceStartup ---------------------------
(***************************************************************************)
(* From a signed model release to a process that answers "ready": saving   *)
(* a release file by file (ml/release.py, train_model.py), loading it in   *)
(* create_app and in the shadow runtime (api.py, shadow_runtime.py), what  *)
(* the settings make of a deployment (settings.py), the readiness checks   *)
(* in their order (api.py) and the alerts they raise (alerts.py).          *)
(*                                                                         *)
(* A file is absent, good, or bad: cut off by a crash, or changed since.   *)
(* Its SHA-256 tells bad from good.                                        *)
(***************************************************************************)
EXTENDS Naturals, Sequences, FiniteSets, FiniteSetsExt

CONSTANTS
  SettingsUsed,      \* the settings that are tried, among SettingsValues
  RepeatThreshold,  \* CriticalFailureMonitor.repeat_threshold
  MaxProbes,        \* bound: failed readiness probes of one process
  MaxSaves          \* bound: attempts to save the release

VARIABLES
  release,     \* the release directory: a state for every file
  saver,       \* train_model.py: the next file it writes, or 0
  saves,       \* attempts so far
  completed,   \* whether a save ran to its end: history
  settings,    \* Settings.from_env of the deployment
  app,         \* the process: what create_app built, once it is up
  depends,     \* what the process depends on, as it is now
  answer,      \* the answer to the last readiness probe
  seen, sent   \* per failure: occurrences, and the last one alerted

startVars ==
  <<release, saver, saves, completed, settings, app, depends, answer, seen, sent>>

Artifacts == {"xgboost.ubj", "anomaly.skops", "metadata.json",
              "feature_schema.json", "cost_matrix.json"}
SaveOrder == <<"xgboost.ubj", "anomaly.skops", "metadata.json",
               "feature_schema.json", "cost_matrix.json",
               "release-manifest.jcs.json", "release-manifest.sig">>
Files == {SaveOrder[i] : i \in DOMAIN SaveOrder}

Codes ==
  {"MODEL_RELEASE_VERIFICATION_FAILED", "EVIDENCE_VERIFIER_UNAVAILABLE",
   "DATABASE_HEALTHCHECK_FAILED", "AUDIT_FORMAT_INVALID", "AUDIT_CHAIN_INVALID",
   "MODEL_RELEASE_UNAVAILABLE", "POLICY_ENGINE_HEALTHCHECK_FAILED",
   "RAZORPAY_WEBHOOK_SECRET_MISSING"}

SettingsValues ==
  [environment : {"development", "production"},
   decision_mode : {"model", "human_only"},
   release : {"none", "no key", "complete"}, evidence_keys : BOOLEAN,
   database : BOOLEAN, opa : BOOLEAN, razorpay : {"off", "no secret", "complete"}]

\* The deployments tried are ones from_env can read; a threshold is positive.
ASSUME StartAssumption ==
  SettingsUsed \subseteq SettingsValues /\ RepeatThreshold \in Nat \ {0}

Down == [up |-> FALSE, model |-> "none", verifier |-> "none",
         intact |-> FALSE, shadow |-> "NOT_CONFIGURED"]
NoCounts == [c \in Codes |-> 0]

StartInit ==
  /\ release = [f \in Files |-> "absent"]
  /\ saver = 0 /\ saves = 0 /\ completed = FALSE
  /\ settings \in SettingsUsed
  /\ app = Down
  /\ depends = "fine"
  /\ answer = "none"
  /\ seen = NoCounts /\ sent = NoCounts
-----------------------------------------------------------------------------
(* save_model_release: a directory that holds anything is refused, and the *)
(* signature is the last file (a calibrator, if any, is written third).    *)
BeginSave ==
  /\ saver = 0 /\ saves < MaxSaves
  /\ saves' = saves + 1
  /\ saver' = IF \A f \in Files : release[f] = "absent" THEN 1 ELSE 0
  /\ UNCHANGED <<release, completed, settings, app, depends, answer, seen, sent>>

WriteFile ==
  /\ saver > 0
  /\ release' = [release EXCEPT ![SaveOrder[saver]] = "good"]
  /\ saver' = IF saver = Len(SaveOrder) THEN 0 ELSE saver + 1
  /\ completed' = (saver = Len(SaveOrder))
  /\ UNCHANGED <<saves, settings, app, depends, answer, seen, sent>>

(* The run is killed, before or while it writes its next file.             *)
SaveKilled ==
  /\ saver > 0
  /\ \E cut \in BOOLEAN :
       release' = [release EXCEPT ![SaveOrder[saver]] = IF cut THEN "bad" ELSE @]
  /\ saver' = 0
  /\ UNCHANGED <<saves, completed, settings, app, depends, answer, seen, sent>>

(* A copy of the release on another host has lost or changed a file.       *)
Damage ==
  /\ saver = 0 /\ \A f \in Files : release[f] = "good"
  /\ \E f \in Files, c \in {"bad", "absent"} : release' = [release EXCEPT ![f] = c]
  /\ UNCHANGED <<saver, saves, completed, settings, app, depends, answer, seen, sent>>

(* Mutant: the signature is checked, the files are not hashed.             *)
SignatureOnly ==
  release["release-manifest.jcs.json"] = "good" /\ release["release-manifest.sig"] = "good"

(* Mutant: the files are hashed, and nobody asks for the signature.        *)
WithoutSignature ==
  release["release-manifest.jcs.json"] = "good" /\ \A f \in Artifacts : release[f] = "good"

(* load_verified_model_release: manifest, signature, then every file's     *)
(* hash; a manifest that is cut off does not parse or does not verify.     *)
Verified ==
  /\ release["release-manifest.jcs.json"] = "good"
  /\ release["release-manifest.sig"] = "good"
  /\ \A f \in Artifacts : release[f] = "good"
-----------------------------------------------------------------------------
(* CriticalFailureMonitor.record: the first occurrence and every           *)
(* RepeatThreshold-th one are sent.  A new process counts from zero.       *)
Alerted(n) == n = 1 \/ n % RepeatThreshold = 0

Record(c) ==
  /\ seen' = [seen EXCEPT ![c] = @ + 1]
  /\ sent' = [sent EXCEPT ![c] = IF Alerted(seen[c] + 1) THEN seen[c] + 1 ELSE @]

(* create_app: what the settings stand for.                                *)
LoadsRelease == settings.release = "complete" /\ Verified

RiskModel ==
  CASE settings.decision_mode = "human_only" -> "human-only"
    [] settings.decision_mode # "human_only" /\ settings.release # "none" ->
         IF LoadsRelease THEN "trained" ELSE "unavailable"
    [] OTHER -> IF settings.environment = "development" THEN "development" ELSE "unavailable"

(* Mutant: without keys the evidence is taken as it is.                    *)
LegacyVerifier == IF settings.evidence_keys THEN "signed" ELSE "legacy"

EvidenceVerifier ==
  CASE settings.evidence_keys -> "signed"
    [] ~settings.evidence_keys /\ settings.environment = "development" -> "legacy"
    [] OTHER -> "unavailable"

(* load_shadow_analysis_runtime: the same release, loaded the same way.    *)
ShadowStatus == IF Verified THEN "READY" ELSE "ERROR"

(* A release cannot be configured with human_only: ValueError.             *)
Contradictory == settings.decision_mode = "human_only" /\ settings.release # "none"

Start ==
  /\ ~app.up /\ ~Contradictory
  /\ app' = [up |-> TRUE, model |-> RiskModel, verifier |-> EvidenceVerifier,
             intact |-> Verified, shadow |-> ShadowStatus]
  /\ answer' = "none"
  /\ IF settings.decision_mode = "model" /\ settings.release # "none" /\ ~LoadsRelease
       THEN Record("MODEL_RELEASE_VERIFICATION_FAILED")
       ELSE UNCHANGED <<seen, sent>>
  /\ UNCHANGED <<release, saver, saves, completed, settings, depends>>

Stop ==
  /\ app.up
  /\ app' = Down /\ answer' = "none"
  /\ seen' = NoCounts /\ sent' = NoCounts
  /\ UNCHANGED <<release, saver, saves, completed, settings, depends>>

(* The database, OPA or the ledger file breaks or is repaired; one of them *)
(* at a time, since only the first check that fails is ever seen.          *)
Breakages == {"fine", "database", "opa", "broken chain", "missing fields", "fragment"}

DependencyChanges ==
  /\ app.up
  /\ depends' \in Breakages \ {depends}
  /\ UNCHANGED <<release, saver, saves, completed, settings, app, answer, seen, sent>>

(* readiness: the first check that fails decides.  A ledger whose last     *)
(* line is a fragment is not a 503: the JSON error is not caught.          *)
ReadinessChecks ==
  <<[fails |-> app.verifier = "unavailable", code |-> "EVIDENCE_VERIFIER_UNAVAILABLE"],
    [fails |-> settings.database /\ depends = "database",
     code |-> "DATABASE_HEALTHCHECK_FAILED"],
    [fails |-> depends = "fragment", code |-> "uncaught"],
    [fails |-> depends = "missing fields", code |-> "AUDIT_FORMAT_INVALID"],
    [fails |-> depends = "broken chain", code |-> "AUDIT_CHAIN_INVALID"],
    [fails |-> app.model = "unavailable", code |-> "MODEL_RELEASE_UNAVAILABLE"],
    [fails |-> settings.opa /\ depends = "opa", code |-> "POLICY_ENGINE_HEALTHCHECK_FAILED"],
    [fails |-> settings.razorpay = "no secret", code |-> "RAZORPAY_WEBHOOK_SECRET_MISSING"],
    [fails |-> TRUE, code |-> "ready"]>>

Failing == ReadinessChecks[Min({i \in DOMAIN ReadinessChecks : ReadinessChecks[i].fails})].code

Probe ==
  /\ app.up
  /\ answer' = CASE Failing = "ready" -> "200" [] Failing = "uncaught" -> "500" [] OTHER -> "503"
  /\ IF Failing \in Codes
       THEN FoldFunction(+, 0, seen) < MaxProbes /\ Record(Failing)
       ELSE UNCHANGED <<seen, sent>>
  /\ UNCHANGED <<release, saver, saves, completed, settings, app, depends>>

StartNext ==
  \/ BeginSave \/ WriteFile \/ SaveKilled \/ Damage
  \/ Start \/ Stop \/ DependencyChanges \/ Probe

StartSpec == StartInit /\ [][StartNext]_startVars
-----------------------------------------------------------------------------
(* Outside development a process that answers "ready" runs a model whose   *)
(* release was complete and unchanged when it was loaded, or none at all,  *)
(* and takes no evidence on trust; whatever the settings leave out, and    *)
(* wherever a save was cut off (api.py:141-187, 370-410).                  *)
ReadyMeansVerified ==
  answer = "200" /\ settings.environment = "production" =>
    /\ app.verifier = "signed"
    /\ app.model = "human-only" \/ (app.model = "trained" /\ app.intact)

(* Nothing that was cut off half way ever loads, in the process or in its  *)
(* shadow runtime, however often the training is started again: a          *)
(* directory that holds anything is refused (release.py:60).               *)
HalfSavedNeverLoads ==
  app.up => (app.model = "trained" \/ app.shadow = "READY" => completed)

(* While a failure goes on, at most RepeatThreshold - 1 occurrences in a   *)
(* row stay unreported.                                                    *)
FailuresAreReported ==
  \A c \in Codes : seen[c] > 0 => sent[c] > 0 /\ seen[c] - sent[c] < RepeatThreshold

(* A probe can be believed: "ready" is said over a verified release only,  *)
(* a half-saved one never loads, and a failure that lasts is reported      *)
(* again and again.                                                        *)
ProbesTellTheTruth == ReadyMeansVerified /\ HalfSavedNeverLoads /\ FailuresAreReported
=============================================================================
