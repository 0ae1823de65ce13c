# A verification model of RazorTrust

RazorTrust decides what to do about settlement holds: it reconstructs payment
history from Razorpay, scores it, recommends RELEASE, EVIDENCE_NEEDED or
ESCALATE, and leaves the money to a named human. These TLA+ modules model its
parts where several actors share rows, files or a page and none waits for the
others, where a process may die between two writes, and where a rule over data
must hold for every input. TLC checks them on small instances; TLAPS proves the
main results about holds and recommendations for every value of the constants.

Paths are relative to the repository; a bare `name.py` is
`src/razortrust/name.py`. `PROJECT.json` maps every definition to its lines.

## 1. The system

| Component | State | Operations | Interacts with |
|---|---|---|---|
| Hold workflow (`workflow.py`, `database.py`) | hold rows (state, evidence round), snapshot, decisions, evidence, reviews, audit chain, outbox | create, evaluate, submit evidence, rescore, review, evidence request | scorer, policy engine, verifier, ledger; called by the API and the automation loop |
| Recommendation and guardrails (`risk.py`, `policy.py`, `policies/hold_policy.rego`, `evidence.py`) | none (one request) | predict, choose by cost, assess evidence, check | called by the workflow and by `/v1/internal/policy/check` |
| Automation loop (`automation.py`) | none | `run_once` every interval | reads holds, calls `evaluate` |
| Audit ledger (`audit.py`, `audit_checkpoint.py`, `scripts/checkpoint_audit.py`, `scripts/publish_audit_checkpoint.py`) | JSONL file, hash chain, signed checkpoints, a write-once store | append, verify, checkpoint, publish | written by the workflow outside its transactions |
| In-memory repository (`repository.py`) | dictionaries | the same as the SQL one | development mode |
| Event reconstruction (`razorpay_processor.py`, `razorpay_store.py`) | webhook events with status and attempts, current-state rows, observations, account row, reconciliation items | webhook, claim, fetch, complete, mark, recover, sweep, settlement sync | provider API; checkout bridge; timeline reads its observations |
| Point-in-time timeline (`processor_timeline.py`) | none (a report) | snapshot | reads observations and unresolved events |
| Checkout bridge (`checkout_bridge.py`) | order row, telemetry row, payment attempts | create, finalize, fail, bind, observe, reconcile, stats | provider API; written by callback, events, reconciliation |
| Payment cases and ground truth (`payment_case_bridge.py`, `ground_truth.py`) | case links, labels | promote a payment to a hold, tell its outcome | holds, current-state rows, webhook summaries |
| Layer execution, live features (`layer_execution.py`, `live_features.py`, `shadow_*.py`) | analysis records, shadow scores | build features as of a cut-off, run the layers, score in shadow | observations, telemetry, the policy engine, the ledger |
| API, authentication, authorization (`api.py`, `security*.py`, `authorization.py`, `policies/authorization.rego`) | rate-limit windows | routes, token check, allow or deny | everything |
| Model release and start-up (`ml/release.py`, `settings.py`, `create_app`, `alerts.py`) | a release directory, the process built from it | save, verify, load, probe, alert | the training script writes it |
| Operator history (`operator_history.py`) | a directory per imported file | import, list, preview and promote a transaction | holds |
| Public benchmark (`public_benchmark.py`) | downloaded file, artifacts, summary, loaded runtime | prepare, load, list and score rows | API routes |
| Operator console (`web/app.js`) | lists, selection, panels, flags | load, process, import, prepare and run the benchmark | every route it calls |
| Training and data (`ml/`, `synthetic.py`, `features.py`, `costs.py`) | files | split, tune, fit, calibrate, gate, simulate | offline |
| Training and research scripts (`scripts/`) | output directories, a corpus | freeze, open sealed data, report | offline |
| Razorpay client (`integrations/`) | none | HTTP with retries | processor, checkout |
| Evidence dossier, experiments, migrations | | | |

How they interact. One FastAPI process (or several) runs requests, background
tasks and two loops as coroutines on PostgreSQL. A coroutine may be overtaken
at every `await`: a transaction, a call to OPA, a call to Razorpay, a sleep.
The engine is created without an isolation level (`api.py:126`), so statements
run at READ COMMITTED; `FOR UPDATE` is used for the hold row and for claims,
not for checkout rows or current-state payment rows. SQLAlchemy writes only
columns whose value changed since the row was read. In development there is no
database: the repository is memory and only the policy call lets another
coroutine in. Scripts are processes of their own and meet in files. The page is
one event loop whose handlers are overtaken at every `fetch`.

What is hard: a hold is read, scored for as long as the policy engine takes, and
saved under a lock that does not look at the state again; request ids are looked
up before the lock; an event's claim survives the process that made it; answers
of the provider are committed in another order than they were given; a snapshot
is five SELECTs; three writers of one checkout row never lock it; observations
bear a time before their commit; a list is paged by offset while it grows; sets
of files are written one after the other by processes that may be killed; what
a model is judged on must not have reached what it was fitted on.
`PROJECT.json` lists these under `hazards`, each at its line.

What correct means, per component:

- *Holds*: funds are released or refused only by a human's recorded decision;
  one evidence round; the audit chain accounts for the state; decision, audit
  and outbox commit together; a request takes effect once; a late
  recommendation can only take a closed case back to a human; an interrupted
  evaluation is finished. In development mode the same, as far as memory allows.
- *Recommendations*: RELEASE never rests on a failure, on novelty, or on less
  than the release threshold or supported evidence under the cap; no step after the candidate
  makes it softer; both engines allow the same.
- *Events*: one task at a time per event, bounded attempts over restarts, rows
  and status atomic, observations written once, every accepted event finishes.
- *Timeline and features*: what a cut-off in the past shows does not change
  later, and shows everything before the cut-off and nothing after it.
- *Checkout*: PAID only if captured; failed attempts leave the order free for a
  success; PAID is not lost to a task that knows of it.
- *Ledger*: what it holds was committed, and once; a broken file stops
  decisions; a checkpoint is of a prefix that verified.
- *Requests and start-up*: no more than the limit in any minute, no refusal that is
  not due; both authorizers agree; a process that says "ready" runs on a whole,
  signed release.
- *Files*: whatever was killed, files that load together belong together.
- *Judgement*: nothing is judged on rows it learned from; sealed rows judge one
  frozen candidate, once.
- *Console*: the panels are of one execution, the one the status names.

## 2. Modules

| Module | Models | Checked by | Proved in |
|---|---|---|---|
| `DecisionPolicy` | cost policy, evidence rule, both engines, verifiers, as operators | with the next two | `DecisionPolicyProofs` |
| `DecisionScoring` | `HoldService._score` and the policy endpoint over every prediction | `MCPlatform` | `DecisionScoringProofs` |
| `HoldRules` | states, submissions and resulting states that both repositories share | with the next three | used by the proofs of the next three |
| `HoldWorkflow` | every state-changing call on a hold, cut into its transactions | `MCHoldWorkflow` | `HoldWorkflowProofs` |
| `HumanAuthority` | the promise about money: the abstract specification | refined by `HoldWorkflow` | `HoldWorkflowProofs` |
| `DevelopmentHolds` | the same service on the in-memory repository, with the loop and the ledger | `MCPlatform` | `PlatformProofs` |
| `AuditLedger` | the JSONL file, torn lines, verification, checkpoints, publication | `MCPlatform` | `PlatformProofs` |
| `ServiceStartup` | a release saved and damaged, start-up from the settings, readiness, alerts | `MCPlatform` | `PlatformProofs` |
| `RequestGate` | what a request passes before its handler | `MCPlatform` | `PlatformProofs` |
| `EventReconstruction` | webhook, tasks, sweep, crashes, the provider | `MCEventReconstruction` | `EventReconstructionProofs` |
| `PointInTimeTimeline` | the snapshot, composed with `EventReconstruction` | `MCRecords`, `MCPointInTimeTimeline` | `EventReconstructionProofs` |
| `CheckoutLifecycle` | one checkout session under its three writers | `MCCheckoutLifecycle` | `CheckoutLifecycleProofs` |
| `ReconciliationSync` | the paged settlement list against a list that moves | `MCRecords` | `RecordsProofs` |
| `PaymentCases` | cases of payments, and their outcomes from three reads | `MCRecords` | `RecordsProofs` |
| `FeatureContract` | from rows up to a cut-off to blockers or features, as operators | with the next two | `FilesProofs` |
| `LiveFeatures` | rows that commit late, previews for any cut-off | `MCRecords` | `FilesProofs` |
| `OperatorHistory` | imports of files with their crashes, cases of their rows | `MCRecords` | `FilesProofs` |
| `LayerAnalysis` | analyses of a hold and shadow scores while evidence arrives | `MCRecords` | `RecordsProofs` |
| `PublicBenchmark` | preparation file by file, loading, editions | `MCRecords` | `FilesProofs` |
| `ResearchProtocol` | four scripts over one corpus and their directories | `MCRecords` | `FilesProofs` |
| `TrainingFlow` | which merchants each fitted artifact has seen | `MCRecords` | `RecordsProofs` |
| `TrainingOutput` | the training script's directory over several runs | `MCRecords` | `FilesProofs` |
| `ResearchSplits` | split rules over all rows with times, and listings | `MCRecords` | `RecordsProofs` |
| `ConformalRules`, `ThresholdSearch` | quantile and threshold rules over all small inputs | `MCRecords` | `RecordsProofs` |
| `SyntheticWindows` | the windows of a simulated hold record | `MCRecords` | `RecordsProofs` |
| `FamilyGuard` | folds that leave a family out, novelty thresholds, the choice of a guard | `MCRecords` | `RecordsProofs` |
| `OperatorConsole` | the handlers of the page, await by await | `MCRecords` | `FilesProofs` |

`MCPlatform` and `MCRecords` put parts that share nothing side by side: a
variable `part` says which one runs, and the others stay as they are at the
start. A property over several parts is a conjunction of named ones, each of one
part, so that one exploration answers all of them.

### Recommendations: DecisionPolicy, DecisionScoring

A prediction is three probabilities in multiples of 1/`Scale` and the novelty
flag. Only comparisons with 0.80, 0.55 and 0.20 decide anything, so `Scale` = 20
has all three exactly and values on both sides. `Candidate` is `risk.py` and the
second-round rule of `workflow.py`; `LocalCheck` is `LocalHoldPolicy.check`;
`OpaCheck` is the Rego package: `allowed_decision` and `reason_code` are complete rules,
so bodies that hold with different values are an evaluation error, which
`policy.py` turns into `PolicyUnavailable`. A `DecisionScoring` behaviour is one call: score or fail, ask
the engine, respond; `deployment` is the engine and the verifier that `create_app`
chose. `ReasonCode` is the reason in model mode; in human-only
mode `workflow.py:245-249` replaces it by HUMAN_ONLY.

### Holds: HoldWorkflow, HumanAuthority

A task is an API call on its way; `task[t].pc` is the next await. A transaction
that holds the hold's row lock is one action (`SaveDecision`, `CommitEvidence`,
`CommitReview`); a read before it is another (`ReadForEvaluate`, `Rescore`, `ReadInputs`,
`StartEvidence`, `StartReview`). `ScoreFails` covers the points at which
`_score` may fail, before and after the snapshot. `stamp` is `created_at`: the
latest recommendation is the one with the greatest stamp, not the one committed
last. `seen` and `fresh` are history variables that the code does not have.
`AutoTask` is the automation loop, and `Abort` ends a call between two steps.
Calls that only read or are rejected on arrival are left out.

`HumanAuthority` has two variables: what the hold says about the funds, and what
humans said. RESOLVED maps to released, DENIED to denied, everything else to
held; the reviews map to the authorizations.

### Events: EventReconstruction, PointInTimeTimeline

A worker is any task, whichever process runs it: a webhook's background task or
a sweep with its list (`todo`). `Reads[e]` are the entities fetched for event
`e` in order; the last one is the payment or settlement whose row the
transaction locks first. What the provider says of an entity is a version
number, which stands for all its columns together. `Load`, `Lock` and `Commit`
cut the completion where another transaction can come between: the read, the
flush that takes the row lock (or inserts the row and may collide), and the
rest, which runs under that lock. `Mark` writes by event id alone, as `_mark` does. `Age` lets a
claim grow older than `stale_claim_seconds`. For a live task it does so
at most `MaxStalls` times: such a task stalls, and another may take the event
over. `stalls` counts them, and the properties that need every attempt to end
within 120 s say `stalls = 0`.

`PointInTimeTimeline` adds one snapshot: a cutoff in the past, one SELECT per
observation table, then the unresolved events. `Passed` is the part of
`_quality_report` that depends on timing. All events are of the account asked for.

### Checkout: CheckoutLifecycle

Tasks are the client's callback, the observation of a payment event, and a
reconciliation. Each asks the provider, reads the row, computes, and merges the
columns it changed (`Merge`). The provider is external: an order is paid when
one of its payments is captured, a failed payment stays failed, a payment may
be refunded. `GiveUp` is any failure before the commit. Amounts, currencies, signatures and ids
are abstracted to "valid".

### Development, ledger, start-up, gate

`DevelopmentHolds` has one step per call, because nothing else runs between two
awaits that do not wait; an evaluation is two, around the policy engine. The
ledger is written before a decision and after a creation, submission or review;
a write may break at any point (`AppendBreaks`: nothing, or a fragment, on the
disk). `DevRestart` keeps the file and loses memory. `LoopLists` takes the newest
`ScanLimit` holds, `LoopEvaluates(r)` evaluates one of them that is OPEN.
`CheckpointedSpec` is the process together with the checkpoint script of `AuditLedger`.

`AuditLedger` adds the checkpoint script, which is another process and reads the
file twice, and the publisher. The hash of a record stands for the prefix that
it ends. `ServiceStartup` writes the seven files of a release in `SaveOrder`,
lets a kill fall between any two, a file be damaged, the settings be anything
`Settings.from_env` accepts, and probes with dependencies that change.
`RequestGate` is the middleware and `authorize`, with `LocalAuthorizer` and the
Rego package over every role, action and resource owner.

### Cases, features, analyses, settlement list

`PaymentCases`: rows are written by webhooks at any time; `create_or_get` reads
the payment, looks up its request id, inserts; the ground truth of a hold is
read as payment, refunds and disputes one after the other. `LiveFeatures`: a row
gets its `observed_at` and commits later; `Preview(cutoff)` is the contract of
`FeatureContract` over what is committed. A feature vector is represented by the
events and facts it is computed from. `OperatorHistory` uses the same contract
for an imported file. `LayerAnalysis`: `Execute` reads the round, `AskEngine`
waits, `RecordAnalysis` writes to the ledger, `AnswerAnalysis` responds; evidence
may come in between. `ReconciliationSync`: pages of `PageSize`, one transaction
each, while items are added in front and change, and another call syncs.

### Training, benchmark, research, console

A merchant stands for its rows and an artifact for the merchants that reached
it (`TrainingFlow`); a file for whose it is (`TrainingOutput`, `PublicBenchmark`,
`ResearchProtocol`), with `Torn` for one that a kill cut short. Each write is an
action and a kill may come before and within it. Rules over data
(`ConformalRules`, `ThresholdSearch`, `ResearchSplits`, `SyntheticWindows`,
`FamilyGuard`) have one action per rule that draws an input; the state is the input.
For a fold of `FamilyGuard` the input is the family left out and every split of
the others' merchants; what an artifact is fitted on follows from it. `OperatorConsole` runs a
handler up to its next await in one action; `flights` are the handlers that
wait, and any click may come in between.

## 3. Runs

Passing runs (states are distinct states, after symmetry):

| Run | Instance | States | Shows |
|---|---|---|---|
| `hold_overlap` | 1 hold, 2 calls + loop, 3 evaluate/rescore calls, 1 evidence id, 1 review id, every submission | 2.7 M | evidence round, sound and fresh recommendations with their features, atomic commits; the chain explains the state; closed holds; append-only history; refinement of `HumanAuthority` |
| `hold_requests` | 2 holds, retries of one evidence and one review request | 509 k | a request takes effect once; the ledger follows the rows |
| `hold_recovery` | `decision_mode = human_only`, 2 calls that die, fairness | 1.0 M | only escalations, evidence is asked for by humans; an interrupted evaluation is finished |
| `events_crash` | a payment and a refund event of one payment, 2 tasks, 2 sweeps, 1 crash, 1 stall | 4.5 M | exclusive claims, atomic completion, final stays final; retry budget and write-once observations even when a task outlives its claim |
| `events_finish` | 3 events received at 2 moments, one without a reference, fairness | 645 k | every accepted event finishes |
| `checkout_races` | 2 payments, 2 tasks at once, 2 events, 2 reconciliations, expiry | 7.1 M | PAID means captured; failures leave the order free; who may undo PAID |
| `platform` | five parts, fairness of the development loop | 2.0 M | recommendations, development holds, ledger, start-up, gate |
| `records` | sixteen parts | 2.4 M | what the past shows, what was judged on what, files under kills, rules, analyses, cases, settlement list, console |

The parts of `platform`:

| Part | Instance | Properties |
|---|---|---|
| scoring | development, staging and keyless deployments; all predictions in twentieths, rounds 0, 1, 2, evidence at 0, 168 and 169 h | `RecommendationsAreJustified`, `EnginesOnlyTighten`, `FailuresAreOnRecord` |
| development | 2 requests, 1 client call + loop, 1 scoring call of a client, 1 failing write, 1 restart, a scan of 1 | `DevHoldsAreSafe`, `LedgerIsSound`, `ScannedHoldsAreFinished` |
| ledger | 2 cases, 4 records, 2 checkpoints | `LedgerIsSound` |
| startup | 7 files, 2 saves, damage, the settings that differ in effect, 3 probes, an alert at every second failure | `ProbesTellTheTruth` |
| gate | every role, action and owner, both authorizers; limit 2 per window of 3 ticks, 7 ticks | `GateHolds` |

The parts of `records`, each with two payments, files, runs or calls that overlap:

| Property | Parts | Named parts of the property |
|---|---|---|
| `CasesNameTheirPayments` | cases | one case per payment; a case's payment was observed; a link names its payment |
| `ThePastStays` | timeline, live, cases | `PassedViewIsFinal`, `PreviewsChangeOnlyByLateRows`, `OutcomesNeverRetreat` |
| `FeaturesLookBack` | live, history, windows | `UnblockedPreviewsAreComplete`, `HistoryHasNoLookAhead`, `AcceptedHistoriesPreview`, `BaselineIsSimulated`, `HistoryEndsBeforeTheWindow`, `BaselineCountsEachEventOnce`, `BaselineForgetsTheFuture` |
| `AnalysesAreSound` | layers | on record before they are answered, of the round they read, no softer than the engine; a shadow differs from the engine only on novelty |
| `JudgedOnUnseenData` | flow, splits, guard | `TestMerchantsAreUnseen`, `PolicyScoresAreOutOfFold`, `ReferenceIsOutOfFold`, `JudgedRowsComeLater`, `WindowsOnlyLookBack`, `LeftOutFamilyIsUnseen` |
| `SealedDataJudgesOnce` | research, output | `SealedIsOpenedOnce`, `SealedJudgesAFrozenCandidate`, `OneLockForAllStudies`, `SealedTestJudgesOneModel` |
| `FilesSurviveKills` | benchmark, output, research, history | `PartsAsNewAsTheirSummary`, `ReadyHasItsFiles`, `ReleaseIsTheOneReported`, `FinalReportIsLast`, `ListedHistoriesVerify`, `FirstImportOwnsTheFile` |
| `RulesKeepTheirPromises` | rules, search, splits, guard | coverage, monotone advice, false-alarm rate (`FamiliesKeepTheirRate`: of every family), the coverage gates, thresholds no other candidate beats, a guard no other passing one dominates (`GuardChoiceIsUndominated`), bins that hold every confidence |
| `SyncMissesNothing` | sync | a finished sync over a list that did not move has stored every item; rows are whole pages |
| `PageShowsOneCase` | console | `PanelsOfOneExecution`, `CompleteNamesItsPanels`, `GuardsFollowHandlers`, `ProcessedIsShown` |

Every property of these runs is broken by a plausible bug in the code it is
about: the definitions marked "Mutant" in the modules, listed under `mutants`.

Runs that end in a violation show what the code does against what a comment, a
doc or a test says:

| Run | What happens |
|---|---|
| `hold_rescore_twice` | two rescores that overlap both store a second-round recommendation |
| `events_rows` | of two events of one payment the one with the older answer commits last; the current-state row stays older than the stored observation |
| `timeline_torn` | an event completes between the SELECT of its observations and the SELECT of unresolved events: the snapshot passes without it |
| `checkout_failed` | the event of a failed attempt, processed after the order was paid, makes the failed payment the order's payment |

The models reach more such behaviours, which no run is spent on:

- With OPA a model failure is recorded as POLICY_ERROR instead of MODEL_ERROR
  (`tests/test_workflow.py:260` has the local policy): the failure request makes two
  bodies of the Rego rule hold with different values (`hold_policy.rego:15,17`). The
  decision is still ESCALATE; `FailuresAreOnRecord` allows both codes.
- A hold whose every evaluation failed before its snapshot may still be asked for
  evidence by a human; once the merchant sends it, neither rescore
  (`database.py:268`) nor review (`database.py:469`) accepts the hold.
- Such a hold, reviewed with a label, makes the export of all labels fail
  (`database.py:612`). `RecommendationsHaveFeatures` says that only such holds do.
- Two callbacks for two authorized payments of one order: the second rebinds the
  telemetry the first has bound (`checkout_bridge.py:433-434`).
- A row of an imported file with an observed refund of amount 0 and no refund
  time is accepted (`operator_history.py:393`), and every preview that knows of it
  raises (`operator_history.py:616`). `AcceptedHistoriesPreview` makes the exception.
- An import killed between its two files leaves a directory that no later import
  of the same bytes can use; it is never listed.
- A preview for a past cut-off does not look at unresolved events and takes today's
  order ids (`live_features.py:214, 265`): a row in flight at the cut-off changes it.
- A settlement list that moves while it is paged may lose an item of that sync
  (`razorpay_processor.py:503`); `SyncMissesNothing` is about a list that does not.
  An item whose settlement changes gets a second row.
- Two overlapping loads of the console may leave the older list on the page.
- The engine checks of layer analysis and shadow differ on novelty: the shadow may
  say EVIDENCE_NEEDED where the analysis escalates.

### Bounds, and why they are enough

- `MaxCalls`, `MaxAborts`, `MaxSweeps`, `MaxCrashes`, `MaxObserved`,
  `MaxReconciled`, `MaxVersion`, `MaxTime`, `MaxScored`, `MaxFaults`, `MaxRuns`,
  `MaxRecords`, `MaxCheckpoints`, `MaxProbes`, `MaxSaves`, `MaxSent`, `MaxMoves`,
  `MaxReceipts`, `MaxFacts`, `MaxInFlight`, `MaxAnalyses`, `MaxShadows`,
  `MaxPrepares`, `MaxKills`, `MaxReplaced`, `MaxTrainings`, `MaxPages`,
  `MaxChanges`, `MaxClicks` bound how often the environment acts. Every race listed
  above needs two tasks and one more actor, and two or three acts of each; the
  runs allow that. A crash and a stall allow a claim to be lost, recovered, and
  overtaken again; two or three kills allow a directory to be torn, torn again, and finished.
- Two tasks at once and the loop: no code path looks at more than one other
  writer. For holds the theorems remove this bound.
- One hold in most runs: holds share only the request ids, which `hold_requests`
  covers with two. One review and one evidence request per hold in `hold_overlap`:
  the theorems cover any number.
- `MaxAttempts` is 2 (1 in the timeline) instead of 3: the budget is compared at equality
  and reached in both. Likewise `Limit`, `ScanLimit`, `PageSize`, `RepeatThreshold`
  and `LastEdition` are small and reached.
- Rules over data are checked on every input of their size: 4 scored rows of 4
  levels with ties, 7 windows over 3 instants, 9 merchants, 16 merchants of 6 families of
  which one is left out, 3 or 5 scores of each of 3 families, 3 cases for 3 guards. The quantile ranks, the
  strict and weak comparisons and the ties all occur there. `AlphaIn`, `TargetNum`, `MinPseudo`, `MinFit`, `TailNum`,
  `TargetDen`, `FalseDen`, `RecallDen` replace the code's rates by fractions these sizes can meet and miss.
- Symmetry is used only for tasks, holds, request ids and payments, which no definition tells
  apart, and never in a run with a liveness property.
- `CHECK_DEADLOCK FALSE`: the environment is bounded, and an idle system with
  nothing left to do is a legal end.

### Fairness, and why the code justifies it

`hold_recovery`, which is in human-only mode, the one meant for production, assumes weak fairness of the loop's `evaluate` for each hold and of
the steps of that call: `run_forever` calls `run_once` again after every interval and
the policy call has a timeout. Two things are assumed with it. The hold is among the
200 that a scan returns (`automation.py:32`). And the loop is alive: an error raised by
`list_holds`, or one of `get_evaluation_input` other than the two it expects,
leaves `run_once` and ends the loop for the life of the process; that hazard has no property.

`DevFairness` of `platform` is the same loop with its listing: weak fairness of
`LoopLists`, of `LoopEvaluates` for every hold, and of the end of the loop's own evaluation. Under it
every hold the scan can reach is finished; with `ListOldest` (a mutant) it is not.

`events_finish` assumes weak fairness of each task's steps: every await returns or
raises, sleeps end. There is no crash or stall in that run. After a crash
the claim waits for the next `process_pending`, which the code calls at startup
only; a later one is an operator's request, so nothing stronger holds.

## 4. Proofs

Checked by TLAPS for every number of holds, calls, events, tasks, files and ids,
every prediction set and every threshold within the stated assumptions. All
theorems are listed in `PROJECT.json`; those that state a property of a run:

| Module | Theorem | Property |
|---|---|---|
| `DecisionScoringProofs` | `Typing`, `ReleasesRest`, `EnginesTighten`, `FailuresRecorded` | `TypeOK`, `RecommendationsAreJustified`, `EnginesOnlyTighten`, `FailuresAreOnRecord` |
| `HoldWorkflowProofs` | `Typing`, `SingleEvidenceRound`, `ChainExplains`, `SoundReleases` | `TypeOK`, `OneEvidenceRound`, `AuditExplainsState`, `ReleaseRecommendationIsSound` |
| | `OnlyLateCallsReopen`, `HistoryKept` | the action properties `ClosedHoldsOnlyReopenedLate`, `HistoryIsAppendOnly` |
| | `ImplementsHumanAuthority` | `Spec => HumanAuthority!Spec`: initial states map, each step is an authorization, a reopening or a stutter |
| | `RowsTogether`, `RecordedOnce`, `OneFresh`, `HumansOnly` | `RowsBelongTogether`, `RequestsAreRecordedOnce`, `OneFreshRescore`, `HumanOnlyEscalates` |
| `EventReconstructionProofs` | `Typing`, `SingleTask`, `RetriesBounded`, `CompletionAtomic` | `TypeOK`, `OneTaskPerEvent`, `RetryBudgetKept`, `CompletionIsAtomic` |
| | `DecidedForGood` | the action property `WrittenForGood` |
| | `PassedIsFinal` | `PassedViewIsFinal`, the part of `ThePastStays` about snapshots |
| `CheckoutLifecycleProofs` | `Typing`, `FollowsPayments`, `PaidIsKept` | `TypeOK`, `OrdersFollowPayments`, the action property `PaidLostToOutdatedTasksOnly` |
| `RecordsProofs` | `SyncsAreWhole`, `CasesAreNamed`, `AnalysesRest` | `SyncMissesNothing`, `CasesNameTheirPayments`, `AnalysesAreSound` |
| | `ToldForGood` | `OutcomesNeverRetreat`, the part of `ThePastStays` about outcomes |
| | `NobodyJudgesItself`, `TimeIsRespected`, `LeftOutIsUnseen` | the parts of `JudgedOnUnseenData`, each of the specification of one module |
| | `RulesAreKept`, `GateForgivesExcess`, `SearchesAreSound`, `ChoicesAreWhole`, `GuardsAreChosenWell` | the parts of `RulesKeepTheirPromises`, each of the specification of one module; `GateForgivesExcess` under `MeansAreNotRejected` |
| `FilesProofs` | `SealedDataIsKept`, `FilesAreWhole`, `ThePastIsKept`, `PageIsKept`, `FeaturesAreOfThePast`, `NothingJudgesItself` | `SealedDataJudgesOnce`, `FilesSurviveKills`, `ThePastStays`, `PageShowsOneCase`, `FeaturesLookBack`, `JudgedOnUnseenData`, of the specification of `MCRecords` |
| | `RulesKeepAllPromises` | `RulesKeepTheirPromises` of the specification of `MCRecords`, under `MeansAreNotRejected` |
| | `OutputIsOneRun`, `BenchmarkIsWhole`, `ImportsSurviveKills`, `SealedRowsJudgeOnce`, `PreviewsKeepTheirPast`, `PreviewsAreWhole`, `HistoriesLookBack` | their parts, each of the specification of one module |
| `PlatformProofs` | `MemoryIsSafe`, `LedgerAnswers`, `ProbesAreTrue`, `GateIsKept` | `DevHoldsAreSafe`, `LedgerIsSound`, `ProbesTellTheTruth`, `GateHolds` |

### Assumptions

Each is named in the module that declares the constants, and TLC evaluates it in
every run of that module.

- `ScaleAssumption` (thresholds between 0 and `Scale`), `InputAssumption`,
  `HoldAssumption`, `DevAssumption`, `AnaAssumption`: the constants are sets of the right kind;
  `AutoTask` is no client's task; in human-only mode the only prediction is the
  human-only one.
- `NoneAssumption` (in the hold and the event modules), `PaymentsAssumption`, `CasesAssumption`,
  `BenchAssumption`, `OutputAssumption`, `HistoryAssumption`, `FilesAssumption`, `ConsoleAssumption`:
  what stands for nothing is not a row, an observation, a payment, a file, a case; a file cut short is
  not a whole one; a webhook's summary names finitely many ids; the page has at least one filter.
- `GateAssumption`: the limit is a number (`settings.py` refuses others), the window has a length.
- `ReadsAssumption`: each event has a sequence of entities, and `max_attempts` is a number.
  `TablesAssumption`: a snapshot reads a sequence of sets of entities.
  `PagesAssumption`: a page has at least one item, and there is at least one page.
- `HistoryAssumption` also: the rows of a file are what the import parses, with times that are numbers or missing.
- `LiveAssumption`: every payment has the time at which the provider created it.
- `SplitsAssumption`: finitely many windows with numbers for times, scores and sizes that are numbers. `SyntheticAssumption`: a day has a
  length, a baseline has at least one day. `FamilyGuardAssumption`: the families stand in an order without
  repetition, each with a target and at least one merchant; scores are finitely many numbers; the tail is less than half.
- `RulesAssumption`, `SearchAssumption`: sizes, levels, costs and rates are numbers, what divides is not 0,
  the confidence level lies between 0 and 1. There are no more rows than quantile steps (`CostRows - 1 < QuantileSteps`; the code takes
  99 quantiles): with more, two neighbouring scores may lie between the same two quantiles, and
  `CostThresholdIsBest` is not claimed; the other properties of the search do not need this.
- `StartAssumption`: the settings tried are settings, and an alert repeats after at
  least one failure (`alerts.py:31` refuses less).

### Holds

None of the properties is inductive: a step of a call
uses what the call read some steps ago. `IInv` adds what that is worth:
`TasksOK` (each record of a call fits its `pc`; a recommendation under way that
says RELEASE is already justified), `LatestExists` (a latest recommendation exists
where there is any), `AbsentIsBlank` (a hold that was not created has no rows),
`ReviewEventsAgree` (a review's record names the decision its submission resolves to),
and `FreshCallsAreOpen`
(a scoring call that has seen the whole chain is scoring a hold that is not
closed; this is what makes reopening possible only for late calls). `RowWriters`
reduces a step to four transactions; `SaveEffect`, `ReviewEffect`,
`EvidenceEffect`, `InsertEffect` say what each does; then every conjunct has its
own lemma (`TypeStep`, `TasksStep`, `EvidenceStep`, `AuditStep`, ...).

Four more invariants stand on top of `IInv`. Rows that one
transaction writes belong together because a call that scored without failing
has stored its snapshot (`ScoredWithFeatures`). A request leaves one trace
(`OneTrace`): before it happened nobody announces it and nothing records it,
afterwards either one call has yet to append or one record is there. A
second-round call whose hold no one touched since still finds the evidence
unscored, so a fresh rescore ends that (`RescoresOK`). In human-only mode a call
carries ESCALATE from the prediction to the row (`ModeOK`).

For recommendations the invariant is that the request follows from the input
and the result from the request; `DecisionPolicyProofs` proves the facts about
the operators once, and three modules cite them.

### Events and snapshots

`IInv` says what a task's position is worth: the event it works on is stored, what it has
fetched is a prefix of the event's entities and none older than the event's
receipt (`TasksOK`); a PROCESSED event is observed and an observation is not older
than the receipt (`EventsOK`); while no task stalls, the event a task holds is
PROCESSING, unaged, unobserved and nobody else's (`Exclusive`); requests made,
and about to be made, are within the claims, and those within `max_attempts` (`Budget`).
Budget and exclusiveness need each other only without stalls: the budget is
proved with them, because the claim counts before the request. The claims still to be spent
are counted as the cardinality of the set of tasks about to ask (`AskingShrinks`,
`FailsShrinks`).

For a snapshot, `TimelineInv` adds: what a task has in hand, and what is observed, is not
older than the event's receipt (`ObservationsOK`); an event is skipped only if it names nothing
(`SkippedOK`); and once the snapshot has passed, every event is settled (`PassedIsSettled`): observed, or
outside the window, or in the hands of tasks that will date it later than the cutoff. So
the view of the cutoff cannot change.

### Checkout

A task writes what it made of a row and an answer that may both be old. What
matters about them cannot be unsaid: a paid order stays paid, a payment's success
and failure are final. So `RowOK` holds of the row and of every copy of it, and
an answer never says more than the provider would now (`TaskOK`); `Merge` keeps both.

### Settlement list, cases, analyses

`SyncInv`: of the items a sync found at its start, those before its offset, and all of them once it has
seen a short page, are stored or in hand (`NothingPassed`); that needs that an
item is listed once and stays where it is while the list does not move. `CaseInv`: a call
of the bridge is of an observed payment, a receipt names the case its payment
has, and at every read of the ground truth the payment is one the source names.
`AnaInv`: what a call concluded before and after the engine, and that no two calls share a record.

An outcome is put together from three reads. `TellInv`: the rows that were told of are there still
(`ToldOfRows`), and a read that began after the answer has found at least what the answer
rests on (`ReadSinceTold`); hence no later answer says less.

### Development process, ledger, start-up

The memory and the ledger are not one transaction, and yet they agree: `DevInv`
says of every hold which records its decision and its reviews have, and
`CasesAreOld` that no record is about a case of a later process, without which a
restart could meet records of its own new holds. `CheckpointInv` adds what the
script has read between its two reads (`SignerOK`): the ledger may only have
grown since. `StartInv`: a good signature was written by a save that ended, and no later save
touches its directory (`SavesOK`), what "200" stands for (`ReadyOK`), and
that since the last alert of a failure none was due (`ReportedOK`).

The gate: the deque only knows the admissions it has not popped. `GateInv` relates it to all of
them: it holds the last ones, those it lost are out of the window (`BucketIsTheEnd`), and so of `Limit` + 1
admissions in a row the last is a window after the first (`QuotasApart`). A minute, wherever it begins,
is then too short for `Limit` + 1, and a refusal has found the deque full.

### Files

Each invariant says which file answers for which. `OutputInv`: the files of a training run
that stand before its step are its own, and who has judged wrote the training report that is there.
`BenchInv`: editions on disk never go down and the summary is saved last, so no part is older than the
summary, nor is a loaded part. `HistoryInv`: a whole manifest stands over the records of its own file, and an
import that goes on has met no manifest. `ResearchInv`: what each script has checked still
holds of the files (`AuditOK` to `CycleOK`), a directory has one cycle (`Alone`), and what an opening of sealed
rows rested on stays as it was (`OpeningOK`). A behaviour of `MCRecords` is one of each of its parts (`PartsRun`).

### Features

A preview without blockers is whole (`ContractIsWhole`): of finitely many rows each payment has
a newest one (`NewestRow`, `OneRowEach`), every one of them has become an event, and an event is
either current or of the baseline. For live previews `LiveInv` says that rows in flight and stored are
finitely many and bear the times of their observation. For an imported history two accounts have to be compared: the
one that is previewed, and the one that was known at the cut-off. They have the same rows up to it (`SameWindows`),
and row by row the same facts (`PastSaid`): what the second account lacks is dated later, and a preview does not look at it. So
the two previews agree or the first one raises (`PastPreviews`). `ShownOK` adds that
what is shown is of the records of a listed file. For simulated histories the days of the baseline lie end to end, so that each
event falls on one (`BaselineDays`, `EventsAreShared`), and a refund after a day's cut changes no count of it
(`DayForgets`). A current window of more than two days may reach into a
baseline nobody simulated: `BaselineIsSimulated` is about those up to two, which all the configurations of the code are.

### Judgement

`FlowInv`: everything a training run has learned is of its training and calibration merchants, what the classifier
rests on is of training alone, and no merchant is scored by an artifact it reached. The time splits
are ranges of places in the order of time. Ties make this delicate: rows with equal times are ordered by
number, and `Ranks` shows that the number of rows before a row is a place, taken once, that follows the order
(an injection of a finite set into as
many places takes them all; no induction over data is needed). For folds `GuardInv` says that the family left out has no merchants; that the pseudo-unseen
families are two is that `start` and `start + 1` differ modulo the number of available ones (`TwoFamilies`).

### Rules

The inputs are arbitrary, so the invariants (`RulesInv`, `SearchInv`, `ChoicesInv`, `TablesInv`) only say what kind of
input is examined; the arguments are about it. Coverage and false-alarm rates are exchange arguments: of n rows, at most
n - k have k others below them (`BeyondSoMany`; with ties, `InOrder` finds a k-th smallest), and a row that is left out, or
signalled, has as many others beyond it as the rule's rank (`LeftOutLabel`, `GuardedRate`, `FamilyRate`). What is rounded is settled by
`CeilingIs` and `GuardRankIs`: all but a share, rounded up, is all but the share rounded down. A threshold between two scores
flags what the candidate between the same scores flags, and there is one (`QuantileBetween`, `CheapestThreshold`); of thresholds of one recall
the highest that keeps it is most precise (`ByPrecision`). A choice by several keys is reached key by key, so
it exists (`FirstOf`, `LeastBy`, `LeastKeyIs`), and nothing that is as small in every key is smaller in one. For the guards this is not enough:
the keys leave out how many cases stay released. But cost, friction and what stays are linear in three numbers, whom a guard diverts by
target (`CostsFollowDiversions`, `RestFollowsDiversions`), and the keys determine these three (`ChosenIsUndominated`).

`MeansAreNotRejected` is a hypothesis, not an assumption of the model: at or above the target the lower tail of the binomial
distribution is not below 5 % (it is at least a half). It is a sum over data; TLC finds it true for every number of rows up to `Trials`, as
the second clause of `CorrectedGateOnlyForgivesExcess`. Nothing else rests on it.

### The page

An answer arrives in a page that has moved on. `PageInv` says what is left of the past: one handler
waits for each flag that is up (`HandlersOK`), an option that is no payment has its row (`OffersOK`), and until
the operator types the fields hold what was chosen and shown (`ChoiceOK`). The proof of `ProcessedIsShown`
failed in its first form, without the exception for payments: if a load is refused the payments, and
the histories come without JSON, it throws before it makes the options anew, and the options
still offer payments that the lists no longer have (TLC agrees once both lists are `Unsteady`). Such a
payment is processed without any details on the page.

### Only model-checked

- `EventsFinish`, `InterruptedEvaluationRecovers`, `ScannedHoldsAreFinished`:
  liveness, beyond the prover.
- `MeansAreNotRejected`, on which one clause of `RulesKeepTheirPromises` rests: a fact about binomial tails, whose
  proof needs induction over data.

## 5. Abstractions, and what is not modelled

Assumed in the models:

- Payloads: amounts, names, features, hashes. A provider answer is one unit, so
  that two writers may mix columns of two answers in one row is not shown. Hashes
  and signatures do not collide and name what they were made of.
- Two training runs of different seed or code write different reports (`TrainingOutput`).
- Thresholds and probabilities are exact multiples of a unit; what binary floating
  point makes of a grid point is not shown (`ThresholdSearch`).
- The scores of a family are distinct (`FamilyGuard`): a score that equals the
  threshold is signalled too, so ties may signal more than the target rate. The cases
  a guard is chosen on differ in family, base action or signals.
- A vector of features is the events and facts it is computed from; a fitted
  artifact is the rows that reached it; scores themselves are inputs.

Not modelled:

- Account activity times (`razorpay_store.py:761`): computed from an unlocked read; a hazard without a property.
- The in-memory processor store: tests use it, and it has no concurrent writer.
- A checkout session whose process died between its two commits
  (`checkout_bridge.py:300`): nothing repairs it, so there is no promise to state.
- The rate limiter's table of client keys, which is never swept: the code promises nothing of its size.
- The preparation of the benchmark runs in the event loop's thread
  (`api.py:897`): the page and the API wait meanwhile; no state is at stake.
- The model's arithmetic, explanations, dossiers and reports: they decide
  nothing the properties tell apart, or they only read.
- SQLite, which has no `FOR UPDATE`: tests use it, no deployment does.
- The Razorpay client: without state; its answers and failures are external actions.
- Estimators and metrics, experiments, migrations, the restore drill, and the scripts that repeat the
  pattern of the four in `ResearchProtocol` or only report.

## 6. Plan

Modules are complete but for what section 5 names. Every safety and action property
of a passing run is the subject of a theorem; liveness is left to TLC. What remains is to
replace `MeansAreNotRejected` by a proof, when a prover with induction over data is at hand.

## 7. Running it

    tlc -config HoldWorkflow_overlap.cfg MCHoldWorkflow.tla
    tlapm HoldWorkflowProofs.tla

and likewise for every run and proof module that `PROJECT.json` lists.
