---------------------------- MODULE FilesProofs ----------------------------
(***************************************************************************)
(* Files that are written one after the other, by processes that may be    *)
(* killed between any two of them: the output of a training run, the       *)
(* prepared public benchmark, the imported histories and the directories   *)
(* of the research scripts, for any number of runs, files and kills.  Each *)
(* part has an inductive invariant of its own that says which file answers *)
(* for which.                                                              *)
(*                                                                         *)
(* Features: what a preview without blockers is made of, live or of an     *)
(* imported history, and that a history says of the past what it said then *)
(* (ContractIsWhole, PastPreviews).  Then the operator's page, whose       *)
(* handlers are overtaken at every await: PageInv.                         *)
(*                                                                         *)
(* The last part puts the parts of MCRecords together: files, the past,    *)
(* features, judgement, rules and the page, as its runs check them.        *)
(***************************************************************************)
EXTENDS MCRecords, RecordsProofs, EventReconstructionProofs, FiniteSetTheorems,
        SequenceTheorems, TLAPS

----------------------------------------------------------------------------
(* The output of a training run.  A run writes its files in one order and  *)
(* judges its candidate on the sealed merchants only when no output stands *)
(* there: a file is of the run that goes on, or of the one that judged.    *)
Runs == [config : Configs, step : 1..8]

\* The file a run writes at a step, if it is not the one that judges.
WroteUpTo(c, n) ==
  \A i \in 1..8 : i < n /\ i # 4 => keeps[TrainingOrder[i]] = Content(TrainingOrder[i], c)

OutputInv ==
  /\ DOMAIN keeps = Kept /\ keeps = [f \in Kept |-> keeps[f]]
  /\ trainer # NoRun => trainer \in Runs /\ WroteUpTo(trainer.config, trainer.step)
  /\ \A c \in judged : c \in Configs /\ keeps["training"] = c
  /\ keeps["release"] \in Configs => WroteUpTo(keeps["release"], 7)

(* The files in the order of their writing.                                *)
LEMMA Order ==
  /\ Len(TrainingOrder) = 8 /\ DOMAIN TrainingOrder = 1..8
  /\ TrainingOrder[1] = "data" /\ TrainingOrder[2] = "split" /\ TrainingOrder[3] = "training"
  /\ TrainingOrder[4] = "judge" /\ TrainingOrder[5] = "sealed" /\ TrainingOrder[6] = "conformal"
  /\ TrainingOrder[7] = "release" /\ TrainingOrder[8] = "key"
BY DEF TrainingOrder

(* What a run keeps: everything it writes but the judgement.               *)
LEMMA KeptFiles ==
  Kept = {"data", "split", "training", "sealed", "conformal", "release", "key"}
<1>1. \A f : f \in Kept <=> (f # "judge" /\ \E i \in 1..8 : f = TrainingOrder[i])
  BY Order DEF Kept, ToSet
<1>2. ASSUME NEW i \in 1..8, TrainingOrder[i] # "judge"
      PROVE  TrainingOrder[i] \in {"data", "split", "training", "sealed", "conformal", "release", "key"}
  <2>1. i = 1 \/ i = 2 \/ i = 3 \/ i = 4 \/ i = 5 \/ i = 6 \/ i = 7 \/ i = 8
    OBVIOUS
  <2>. QED  BY <1>2, <2>1, Order
<1>3. "data" \in Kept /\ "split" \in Kept /\ "training" \in Kept /\ "sealed" \in Kept
      /\ "conformal" \in Kept /\ "release" \in Kept /\ "key" \in Kept
  BY <1>1, Order
<1>. QED  BY <1>1, <1>2, <1>3


\* A file that is written is there for good.
FilesStay == \A f \in Kept : keeps[f] # NotThere => keeps'[f] = keeps[f]

(* What a run has written stays its own while no file changes.             *)
LEMMA WrittenStays ==
  ASSUME FilesStay, NEW c \in Configs, NEW n \in 1..8, WroteUpTo(c, n)
  PROVE  WroteUpTo(c, n)'
<1>. SUFFICES ASSUME NEW i \in 1..8, i < n, i # 4
              PROVE  keeps'[TrainingOrder[i]] = Content(TrainingOrder[i], c)
  BY DEF WroteUpTo
<1>1. TrainingOrder[i] \in Kept
  BY Order, KeptFiles
<1>2. keeps[TrainingOrder[i]] = Content(TrainingOrder[i], c) /\ keeps[TrainingOrder[i]] # NotThere
  BY <1>1, OutputAssumption DEF WroteUpTo
<1>. QED  BY <1>1, <1>2 DEF FilesStay

\* What holds of the files is kept by a step that only adds to them.
LEMMA FilesKept ==
  ASSUME OutputInv, FilesStay, DOMAIN keeps' = Kept, keeps' = [f \in Kept |-> keeps'[f]],
         keeps'["release"] = keeps["release"] \/ keeps'["release"] \notin Configs
  PROVE  /\ \A c \in judged : c \in Configs /\ keeps'["training"] = c
         /\ keeps'["release"] \in Configs => WroteUpTo(keeps["release"], 7)'
<1>1. ASSUME NEW c \in judged  PROVE c \in Configs /\ keeps'["training"] = c
  <2>1. c \in Configs /\ keeps["training"] = c /\ Content("training", c) = c
    BY DEF OutputInv, Content
  <2>2. c # NotThere
    BY <2>1, KeptFiles, OutputAssumption
  <2>. QED  BY <2>1, <2>2, KeptFiles DEF FilesStay
<1>2. ASSUME keeps'["release"] \in Configs  PROVE WroteUpTo(keeps["release"], 7)'
  <2>. PICK c \in Configs : c = keeps["release"]
    BY <1>2
  <2>1. WroteUpTo(c, 7)
    BY DEF OutputInv
  <2>2. WroteUpTo(c, 7)'
    BY <2>1, WrittenStays
  <2>. QED  BY <1>2, <2>2
<1>. QED  BY <1>1, <1>2

(* Every step of a run keeps the invariant.                                *)
LEMMA OutputSteps == OutputInv /\ [OutputNext]_outputVars => OutputInv'
<1>. SUFFICES ASSUME OutputInv, [OutputNext]_outputVars PROVE OutputInv'
  OBVIOUS
<1>1. CASE UNCHANGED outputVars
  BY <1>1 DEF outputVars, OutputInv, WroteUpTo
<1>2. CASE StartTraining
  <2>1. PICK c \in Configs : trainer' = [config |-> c, step |-> 1]
    BY <1>2 DEF StartTraining
  <2>2. trainer' \in Runs /\ \A i \in 1..8 : ~(i < trainer'.step)
    BY <2>1 DEF Runs
  <2>. QED  BY <1>2, <2>2 DEF StartTraining, OutputInv, WroteUpTo
<1>3. ASSUME trainer # NoRun
      PROVE  /\ trainer.config \in Configs /\ trainer.step \in 1..8
             /\ WroteUpTo(trainer.config, trainer.step)
             /\ trainer = [config |-> trainer.config, step |-> trainer.step]
  BY <1>3 DEF OutputInv, Runs
<1>4. CASE WriteOutput
  <2>. PICK c \in Configs, n \in 1..8 : c = trainer.config /\ n = trainer.step
    BY <1>3, <1>4 DEF WriteOutput
  <2>. DEFINE f == TrainingOrder[n]
  <2>1. /\ c \in Configs /\ n \in 1..8 /\ n # 4 /\ f \in Kept /\ WroteUpTo(c, n)
        /\ judged' = judged /\ Content(f, c) \notin {NotThere, TornFile}
    BY <1>3, <1>4, Order, KeptFiles, OutputAssumption DEF WriteOutput
  <2>2. CASE ~MayWrite(f)
    <3>1. trainer' = NoRun /\ keeps' = keeps
      BY <1>4, <2>2 DEF WriteOutput
    <3>. QED  BY <2>1, <3>1 DEF OutputInv, WroteUpTo
  <2>3. CASE MayWrite(f)
    <3>1. /\ keeps'[f] = Content(f, c) /\ \A g \in Kept : g # f => keeps'[g] = keeps[g]
          /\ DOMAIN keeps' = Kept /\ keeps' = [g \in Kept |-> keeps'[g]]
          /\ trainer' = NextStep
      BY <1>4, <2>1, <2>3 DEF WriteOutput, OutputInv
    <3>2. FilesStay
      BY <2>3, <3>1 DEF FilesStay, MayWrite
    <3>3. WroteUpTo(c, n)'
      BY <2>1, <3>2, WrittenStays
    <3>4. trainer' # NoRun => trainer' \in Runs /\ WroteUpTo(trainer.config, trainer.step)'
      <4>1. CASE n = 8
        BY <3>1, <4>1, Order DEF NextStep
      <4>2. CASE n # 8
        <5>1. trainer' = [config |-> c, step |-> n + 1] /\ n + 1 \in 1..8
          BY <1>3, <2>1, <3>1, <4>2, Order, <1>4 DEF NextStep, WriteOutput
        <5>2. WroteUpTo(c, n + 1)'
          BY <2>1, <3>1, <3>3 DEF WroteUpTo
        <5>3. trainer'.config = c /\ trainer'.step = n + 1
          BY <5>1
        <5>. QED  BY <5>1, <5>2, <5>3 DEF Runs
      <4>. QED  BY <4>1, <4>2
    <3>5. \A d \in judged : d \in Configs /\ keeps'["training"] = d
      <4>1. \A d \in judged : d \in Configs /\ keeps["training"] = d /\ Content("training", d) # NotThere
        BY KeptFiles, OutputAssumption DEF OutputInv
      <4>. QED  BY <3>2, <4>1, KeptFiles DEF FilesStay, Content
    <3>6. ASSUME keeps'["release"] \in Configs  PROVE WroteUpTo(keeps["release"], 7)'
      <4>1. CASE f = "release"
        <5>1. n = 7
          BY <2>1, <4>1, Order
        <5>2. keeps'["release"] = c
          BY <3>1, <4>1 DEF Content
        <5>3. WroteUpTo(c, 7)'
          BY <3>3, <5>1
        <5>. QED  BY <5>2, <5>3
      <4>2. CASE f # "release"
        <5>1. keeps'["release"] = keeps["release"]
          BY <3>1, <4>2, KeptFiles
        <5>. QED  BY <3>1, <3>2, <3>6, <5>1, FilesKept
      <4>. QED  BY <4>1, <4>2
    <3>. QED  BY <2>1, <3>1, <3>4, <3>5, <3>6 DEF OutputInv
  <2>. QED  BY <2>2, <2>3
<1>5. CASE Judge
  <2>1. /\ trainer # NoRun /\ TrainingOrder[trainer.step] = "judge" /\ keeps' = keeps
        /\ judged' = judged \cup {trainer.config} /\ trainer' = NextStep
    BY <1>5 DEF Judge
  <2>2. trainer.step = 4
    BY <1>3, <2>1, Order
  <2>3. keeps["training"] = trainer.config
    BY <1>3, <2>1, <2>2, Order DEF WroteUpTo, Content
  <2>4. trainer' = [config |-> trainer.config, step |-> 5]
    BY <1>3, <2>1, <2>2, Order DEF NextStep
  <2>. QED  BY <1>3, <2>1, <2>2, <2>3, <2>4 DEF OutputInv, WroteUpTo, Runs
<1>6. CASE StopTraining
  <2>1. trainer' = NoRun /\ judged' = judged
    BY <1>6 DEF StopTraining
  <2>2. CASE keeps' = keeps
    BY <2>1, <2>2 DEF OutputInv, WroteUpTo
  <2>3. CASE keeps' # keeps
    <3>1. PICK f \in Kept : keeps[f] = NotThere /\ keeps' = [keeps EXCEPT ![f] = TornFile]
      BY <1>6, <2>3 DEF StopTraining
    <3>2. FilesStay /\ DOMAIN keeps' = Kept /\ keeps' = [g \in Kept |-> keeps'[g]]
      BY <3>1 DEF FilesStay, OutputInv
    <3>3. TornFile \notin Configs
      <4>1. \A c \in Configs : Content("release", c) # TornFile
        BY KeptFiles, OutputAssumption
      <4>. QED  BY <4>1 DEF Content
    <3>4. keeps'["release"] = keeps["release"] \/ keeps'["release"] \notin Configs
      BY <3>1, <3>3, KeptFiles DEF OutputInv
    <3>. QED  BY <2>1, <3>2, <3>4, FilesKept DEF OutputInv
  <2>. QED  BY <2>2, <2>3
<1>. QED  BY <1>1, <1>2, <1>4, <1>5, <1>6 DEF OutputNext

(* An empty directory satisfies it.                                        *)
LEMMA OutputStart == OutputInit => OutputInv
<1>. SUFFICES ASSUME OutputInit PROVE OutputInv
  OBVIOUS
<1>1. NotThere \notin Configs
  <2>1. \A c \in Configs : Content("release", c) # NotThere
    BY KeptFiles, OutputAssumption
  <2>. QED  BY <2>1 DEF Content
<1>. QED  BY <1>1, KeptFiles DEF OutputInit, OutputInv

(* However often training is run and killed in one directory, its sealed   *)
(* test judges one model, and a release is of the run whose reports stand  *)
(* beside it (scripts/train_model.py).                                     *)
THEOREM OutputIsOneRun == OutputSpec => [](SealedTestJudgesOneModel /\ ReleaseIsTheOneReported)
<1>1. OutputInv => SealedTestJudgesOneModel
  BY DEF OutputInv, SealedTestJudgesOneModel
<1>2. OutputInv => ReleaseIsTheOneReported
  <2>. SUFFICES ASSUME OutputInv, keeps["release"] \in Configs, NEW f \in Kept \ {"release", "key"}
                PROVE  keeps[f] = Content(f, keeps["release"])
    BY DEF ReleaseIsTheOneReported
  <2>1. \E i \in 1..8 : i < 7 /\ i # 4 /\ f = TrainingOrder[i]
    <3>1. \E i \in 1..8 : i # 4 /\ i # 7 /\ i # 8 /\ f = TrainingOrder[i]
      BY Order, KeptFiles
    <3>. QED  BY <3>1
  <2>. QED  BY <2>1 DEF OutputInv, WroteUpTo
<1>. QED  BY <1>1, <1>2, OutputStart, OutputSteps, PTL DEF OutputSpec
----------------------------------------------------------------------------
(* The prepared benchmark.  The summary is saved last, every file comes    *)
(* from an edition that was downloaded, and editions never go down.        *)
BenchTypes ==
  /\ edition \in Nat
  /\ sourceFile \in SourceFiles \cup {NotSaved}
  /\ file \in [Artifacts -> Nat \cup {NotSaved, Torn}]
  /\ preparing \in Preparings \cup {AtRest}
  /\ loaded \in [Artifacts -> Nat] \cup {AtRest}

\* The files on disk came in editions that never went down, the summary last.
FilesOK ==
  /\ sourceFile # NotSaved => sourceFile.edition <= edition
  /\ \A f \in Artifacts : file[f] \in Nat => sourceFile # NotSaved /\ file[f] <= sourceFile.edition
  /\ \A f \in Artifacts : file[f] \in Nat /\ file["summary"] \in Nat => file[f] >= file["summary"]
  /\ file["summary"] # NotSaved => AllThere

\* A preparation has replaced what it says.
PreparingOK ==
  preparing # AtRest =>
    /\ sourceFile # NotSaved /\ preparing.edition = sourceFile.edition /\ preparing.saved \in 0..8
    /\ \A i \in 1..preparing.saved : file[SaveOrder[i]] = preparing.edition

LoadedOK ==
  loaded # AtRest => AllThere /\ \A f \in Artifacts : loaded[f] >= loaded["summary"]

BenchInv == BenchTypes /\ FilesOK /\ PreparingOK /\ LoadedOK

(* The order in which a preparation saves its files.                       *)
LEMMA SaveSteps ==
  /\ Len(SaveOrder) = 8 /\ SaveOrder[8] = "summary"
  /\ \A i \in 1..8 : SaveOrder[i] \in Artifacts
  /\ \A f \in Artifacts : \E i \in 1..8 : SaveOrder[i] = f
  /\ \A i \in 1..7 : SaveOrder[i] # "summary"
  /\ \A i, j \in 1..8 : SaveOrder[i] = SaveOrder[j] => i = j
<1>1. /\ SaveOrder[1] = "model" /\ SaveOrder[2] = "calibrator" /\ SaveOrder[3] = "scaler"
      /\ SaveOrder[4] = "forest" /\ SaveOrder[5] = "conformal" /\ SaveOrder[6] = "reference"
      /\ SaveOrder[7] = "split" /\ SaveOrder[8] = "summary" /\ Len(SaveOrder) = 8
      /\ DOMAIN SaveOrder = 1..8
  BY DEF SaveOrder, SavedFiles
<1>2. \A f : f \in Artifacts <=> \E i \in 1..8 : f = SaveOrder[i]
  BY <1>1 DEF Artifacts, ToSet, SaveOrder
<1>3. \A i \in 1..8 : i = 1 \/ i = 2 \/ i = 3 \/ i = 4 \/ i = 5 \/ i = 6 \/ i = 7 \/ i = 8
  OBVIOUS
<1>. QED  BY <1>1, <1>2, <1>3

(* The summary is one of the files.                                        *)
LEMMA SummaryKept == "summary" \in Artifacts
BY SaveSteps

(* A preparation begins from a source that is there.                       *)
LEMMA PrepareBegins == BenchInv /\ (\E force \in BOOLEAN : BeginPrepare(force)) => BenchInv'
<1>. SUFFICES ASSUME BenchInv, NEW force \in BOOLEAN, BeginPrepare(force) PROVE BenchInv'
  OBVIOUS
<1>1. PICK s \in Sources(force) :
        /\ sourceFile' = s
        /\ preparing' = IF DownloadFailed(force, s) \/ ~SourceVerified(s) THEN AtRest
                        ELSE Trained(s)
  BY DEF BeginPrepare
<1>2. /\ preparing = AtRest /\ UNCHANGED <<edition, file, loaded>>
  BY DEF BeginPrepare
<1>3. /\ s \in SourceFiles \cup {NotSaved}
      /\ sourceFile # NotSaved => s # NotSaved /\ s.edition >= sourceFile.edition
      /\ s # NotSaved => s.edition <= edition
  BY BenchAssumption DEF Sources, BenchInv, BenchTypes, FilesOK, SourceFiles
<1>4. preparing' # AtRest => preparing' = [edition |-> s.edition, saved |-> 0] /\ s # NotSaved
  BY <1>1, <1>3 DEF DownloadFailed, Trained
<1>5. BenchTypes'
  BY <1>1, <1>2, <1>3, <1>4 DEF BenchInv, BenchTypes, Preparings, SourceFiles
<1>6. FilesOK' /\ LoadedOK'
  BY <1>1, <1>2, <1>3 DEF BenchInv, BenchTypes, FilesOK, LoadedOK, AllThere, SourceFiles
<1>7. PreparingOK'
  BY <1>1, <1>3, <1>4 DEF PreparingOK
<1>. QED  BY <1>5, <1>6, <1>7 DEF BenchInv

(* A file is replaced by one of a later edition, the summary last.         *)
LEMMA FileIsSaved == BenchInv /\ SaveFile => BenchInv'
<1>. SUFFICES ASSUME BenchInv, SaveFile PROVE BenchInv'
  OBVIOUS
<1>1. PICK n \in 1..8, e \in Nat, f \in Artifacts :
        /\ preparing = [edition |-> e, saved |-> n - 1] /\ f = SaveOrder[n]
        /\ file' = [file EXCEPT ![f] = e] /\ preparing' = [edition |-> e, saved |-> n]
        /\ e = sourceFile.edition /\ sourceFile # NotSaved
        /\ \A i \in 1..8 : i < n => file[SaveOrder[i]] = e
  <2>1. /\ preparing # AtRest /\ preparing \in Preparings /\ preparing.saved \in 0..7
        /\ file' = [file EXCEPT ![SaveOrder[preparing.saved + 1]] = preparing.edition]
        /\ preparing' = [preparing EXCEPT !.saved = @ + 1]
    BY SaveSteps DEF SaveFile, BenchInv, BenchTypes, PreparingOK
  <2>2. PICK n \in 1..8, e \in Nat : n = preparing.saved + 1 /\ e = preparing.edition
    BY <2>1 DEF Preparings
  <2>3. SaveOrder[n] \in Artifacts
    BY SaveSteps
  <2>4. preparing = [edition |-> e, saved |-> n - 1] /\ preparing' = [edition |-> e, saved |-> n]
    BY <2>1, <2>2 DEF Preparings
  <2>5. /\ sourceFile # NotSaved /\ sourceFile.edition = e
        /\ \A i \in 1..preparing.saved : file[SaveOrder[i]] = e
    BY <2>1, <2>2 DEF BenchInv, PreparingOK
  <2>6. \A i \in 1..8 : i < n => file[SaveOrder[i]] = e
    <3>1. ASSUME NEW i \in 1..8, i < n  PROVE i \in 1..preparing.saved
      <4>1. preparing.saved \in 0..7
        BY <2>1
      <4>. QED  BY <2>2, <3>1, <4>1
    <3>. QED  BY <2>5, <3>1
  <2>7. file' = [file EXCEPT ![SaveOrder[n]] = e]
    BY <2>1, <2>2
  <2>. QED  BY <2>3, <2>4, <2>5, <2>6, <2>7
<1>2. UNCHANGED <<edition, sourceFile, loaded>> /\ f \in Artifacts
  BY DEF SaveFile
<1>3. \A g \in Artifacts : file'[g] = IF g = f THEN e ELSE file[g]
  BY <1>1 DEF BenchInv, BenchTypes
<1>4. BenchTypes'
  BY <1>1, <1>2 DEF BenchInv, BenchTypes, Preparings
<1>5. PreparingOK'
  <2>1. preparing' # AtRest /\ preparing'.edition = e /\ preparing'.saved = n
    BY <1>1, BenchAssumption DEF Preparings
  <2>2. \A i \in 1..n : file'[SaveOrder[i]] = e
    <3>1. ASSUME NEW i \in 1..n  PROVE file'[SaveOrder[i]] = e
      <4>1. i \in 1..8 /\ SaveOrder[i] \in Artifacts /\ (i = n \/ i < n)
        BY SaveSteps
      <4>. QED  BY <1>1, <1>3, <4>1
    <3>. QED  BY <3>1
  <2>. QED  BY <1>1, <1>2, <2>1, <2>2 DEF PreparingOK
<1>6. \A g \in Artifacts : file'[g] = NotSaved => file[g] = NotSaved
  BY <1>3, BenchAssumption
<1>7. f = "summary" => \A g \in Artifacts : file'[g] = e
  <2>1. ASSUME f = "summary", NEW g \in Artifacts  PROVE file'[g] = e
    <3>1. n = 8
      <4>1. \A i \in 1..8 : i = 8 \/ i \in 1..7
        OBVIOUS
      <4>. QED  BY <1>1, <2>1, <4>1, SaveSteps
    <3>2. PICK i \in 1..8 : SaveOrder[i] = g
      BY SaveSteps
    <3>. QED  BY <1>1, <1>3, <2>1, <3>1, <3>2, SaveSteps
  <2>. QED  BY <2>1
<1>8. FilesOK'
  <2>1. \A g \in Artifacts : file[g] \in Nat => file[g] <= e
    BY <1>1 DEF BenchInv, FilesOK
  <2>2. \A g \in Artifacts : file'[g] \in Nat => file'[g] <= e
    BY <1>3, <2>1
  <2>3. file'["summary"] # NotSaved => \A g \in Artifacts : file'[g] # NotSaved
    BY <1>3, <1>6, <1>7, SummaryKept, BenchAssumption DEF BenchInv, FilesOK, AllThere
  <2>4. \A g \in Artifacts : file'[g] \in Nat /\ file'["summary"] \in Nat => file'[g] >= file'["summary"]
    <3>1. CASE f = "summary"
      BY <1>7, <3>1, SummaryKept
    <3>2. CASE f # "summary"
      <4>1. file'["summary"] = file["summary"]
        BY <1>3, <3>2, SummaryKept
      <4>. QED  BY <1>3, <2>1, <4>1, SummaryKept DEF BenchInv, FilesOK
    <3>. QED  BY <3>1, <3>2
  <2>. QED  BY <1>1, <1>2, <2>2, <2>3, <2>4 DEF BenchInv, FilesOK, AllThere
<1>9. LoadedOK'
  BY <1>2, <1>6 DEF BenchInv, LoadedOK, AllThere
<1>. QED  BY <1>4, <1>5, <1>8, <1>9 DEF BenchInv

(* A preparation that ends has saved the summary of its own edition.       *)
LEMMA PrepareFinishes == BenchInv /\ FinishPrepare => BenchInv'
<1>. SUFFICES ASSUME BenchInv, FinishPrepare PROVE BenchInv'
  OBVIOUS
<1>1. PICK e \in Nat : preparing.edition = e
  BY DEF FinishPrepare, BenchInv, BenchTypes, Preparings
<1>2. /\ loaded' = [f \in Artifacts |-> e] /\ preparing' = AtRest
      /\ UNCHANGED <<edition, sourceFile, file>>
      /\ \A i \in 1..8 : file[SaveOrder[i]] = e
  BY <1>1, SaveSteps DEF FinishPrepare, BenchInv, PreparingOK
<1>3. AllThere
  BY <1>2, SaveSteps, BenchAssumption DEF AllThere
<1>4. LoadedOK'
  BY <1>2, <1>3, SummaryKept DEF LoadedOK, AllThere
<1>. QED
  BY <1>2, <1>4 DEF BenchInv, BenchTypes, FilesOK, PreparingOK, AllThere

(* What is loaded are the files as they stand.                             *)
LEMMA RuntimeLoads == BenchInv /\ LoadRuntime => BenchInv'
<1>. SUFFICES ASSUME BenchInv, LoadRuntime PROVE BenchInv'
  OBVIOUS
<1>1. /\ loaded' = file /\ UNCHANGED <<edition, sourceFile, file, preparing>>
      /\ \A f \in Artifacts : file[f] \in Nat
  BY DEF LoadRuntime, Loadable, BenchInv, BenchTypes
<1>2. file \in [Artifacts -> Nat] /\ AllThere
  BY <1>1, BenchAssumption DEF BenchInv, BenchTypes, AllThere
<1>3. LoadedOK'
  BY <1>1, <1>2, SummaryKept DEF BenchInv, FilesOK, LoadedOK, AllThere
<1>. QED
  BY <1>1, <1>2, <1>3 DEF BenchInv, BenchTypes, FilesOK, PreparingOK, AllThere

(* A kill may tear the file that is being written, before the summary.     *)
LEMMA BenchmarkIsKilled == BenchInv /\ KillBenchmark => BenchInv'
<1>. SUFFICES ASSUME BenchInv, KillBenchmark PROVE BenchInv'
  OBVIOUS
<1>1. preparing' = AtRest /\ loaded' = AtRest /\ UNCHANGED <<edition, sourceFile>>
  BY DEF KillBenchmark
<1>2. CASE file' = file
  BY <1>1, <1>2 DEF BenchInv, BenchTypes, FilesOK, PreparingOK, LoadedOK, AllThere
<1>3. CASE file' # file
  <2>1. PICK n \in 1..8 :
          /\ file' = [file EXCEPT ![SaveOrder[n]] = Torn]
          /\ \A i \in 1..8 : i < n => file[SaveOrder[i]] \in Nat
    <3>1. /\ preparing # AtRest /\ preparing \in Preparings /\ preparing.saved \in 0..7
          /\ file' = [file EXCEPT ![SaveOrder[preparing.saved + 1]] = Torn]
      BY <1>3, SaveSteps DEF KillBenchmark, BenchInv, BenchTypes, PreparingOK
    <3>2. PICK n \in 1..8 : n = preparing.saved + 1
      BY <3>1
    <3>3. /\ preparing.edition \in Nat
          /\ \A i \in 1..preparing.saved : file[SaveOrder[i]] = preparing.edition
      BY <3>1 DEF BenchInv, PreparingOK, Preparings
    <3>4. \A i \in 1..8 : i < n => file[SaveOrder[i]] \in Nat
      BY <3>1, <3>2, <3>3
    <3>. QED  BY <3>1, <3>2, <3>4
  <2>2. PICK f \in Artifacts : f = SaveOrder[n]
    BY SaveSteps
  <2>3. \A g \in Artifacts : file'[g] = IF g = f THEN Torn ELSE file[g]
    BY <2>1, <2>2 DEF BenchInv, BenchTypes
  <2>4. file'["summary"] # NotSaved => \A g \in Artifacts : file'[g] # NotSaved
    <3>1. CASE f = "summary"
      <4>1. n = 8
        <5>1. \A i \in 1..8 : i = 8 \/ i \in 1..7
          OBVIOUS
        <5>. QED  BY <2>2, <3>1, <5>1, SaveSteps
      <4>2. ASSUME NEW g \in Artifacts  PROVE file'[g] # NotSaved
        <5>1. PICK i \in 1..8 : SaveOrder[i] = g
          BY SaveSteps
        <5>2. CASE i = n
          BY <2>2, <2>3, <5>1, <5>2, BenchAssumption
        <5>3. CASE i < n
          BY <2>1, <2>2, <2>3, <5>1, <5>3, BenchAssumption
        <5>. QED  BY <4>1, <5>2, <5>3
      <4>. QED  BY <4>2
    <3>2. CASE f # "summary"
      BY <2>3, <3>2, SummaryKept, BenchAssumption DEF BenchInv, FilesOK, AllThere
    <3>. QED  BY <3>1, <3>2
  <2>5. BenchTypes'
    BY <1>1, <2>1, <2>2 DEF BenchInv, BenchTypes
  <2>6. FilesOK'
    BY <1>1, <2>3, <2>4, SummaryKept, BenchAssumption DEF BenchInv, FilesOK, AllThere
  <2>. QED  BY <1>1, <2>5, <2>6 DEF BenchInv, PreparingOK, LoadedOK
<1>. QED  BY <1>2, <1>3

(* Every step keeps the invariant of the benchmark.                        *)
LEMMA BenchSteps == BenchInv /\ [BenchNext]_benchVars => BenchInv'
<1>. SUFFICES ASSUME BenchInv, [BenchNext]_benchVars PROVE BenchInv'
  OBVIOUS
<1>1. CASE UNCHANGED benchVars
  BY <1>1 DEF benchVars, BenchInv, BenchTypes, FilesOK, PreparingOK, LoadedOK, AllThere
<1>2. CASE PublishEdition
  BY <1>2 DEF PublishEdition, BenchInv, BenchTypes, FilesOK, PreparingOK, LoadedOK, AllThere, SourceFiles
<1>. QED
  BY <1>1, <1>2, PrepareBegins, FileIsSaved, PrepareFinishes, RuntimeLoads, BenchmarkIsKilled DEF BenchNext

(* Before the first preparation it holds.                                  *)
LEMMA BenchStart == BenchInit => BenchInv
BY SummaryKept, BenchAssumption
   DEF BenchInit, BenchInv, BenchTypes, FilesOK, PreparingOK, LoadedOK, AllThere

(* Whenever a preparation is killed or repeated, no loaded part is older   *)
(* than the loaded summary, and a benchmark that says it is ready has all  *)
(* its files (public_benchmark.py).                                        *)
THEOREM BenchmarkIsWhole == BenchSpec => [](PartsAsNewAsTheirSummary /\ ReadyHasItsFiles)
<1>1. BenchInv => PartsAsNewAsTheirSummary
  BY DEF BenchInv, LoadedOK, PartsAsNewAsTheirSummary
<1>2. BenchInv => ReadyHasItsFiles
  BY DEF BenchInv, FilesOK, LoadedOK, ReadyHasItsFiles, Status
<1>. QED  BY <1>1, <1>2, BenchStart, BenchSteps, PTL DEF BenchSpec
----------------------------------------------------------------------------
(* The feature contract.  Of finitely many rows there is a newest,         *)
LEMMA NewestRow ==
  ASSUME NEW S, IsFiniteSet(S), S # {}, \A r \in S : r.observed \in Int
  PROVE  \E r \in S : \A q \in S : q.observed <= r.observed
<1> DEFINE newer == [r \in S |-> {x \in S : x.observed > r.observed}]
           N == {Cardinality(newer[r]) : r \in S}
<1>1. \A r \in S : newer[r] \subseteq S /\ \A x \in S : x \in newer[r] <=> x.observed > r.observed
  OBVIOUS
<1>. HIDE DEF newer
<1>2. \A r \in S : IsFiniteSet(newer[r]) /\ Cardinality(newer[r]) \in Nat
  BY <1>1, FS_Subset, FS_CardinalityType
<1>3. N \in SUBSET Nat /\ N # {}
  BY <1>2
<1>4. \E m \in N : \A n \in N : m <= n
  <2>. HIDE DEF N
  <2>. QED  BY <1>3, LeastOf
<1>5. PICK r \in S : \A x \in S : Cardinality(newer[r]) <= Cardinality(newer[x])
  BY <1>4
<1>6. ASSUME NEW q \in S, q.observed > r.observed PROVE FALSE
  <2>1. newer[q] \subseteq newer[r] /\ q \in newer[r] /\ q \notin newer[q]
    BY <1>1, <1>6
  <2>2. Cardinality(newer[q]) <= Cardinality(newer[r])
        /\ (Cardinality(newer[q]) = Cardinality(newer[r]) => newer[q] = newer[r])
    BY <1>2, <2>1, FS_Subset
  <2>3. Cardinality(newer[q]) = Cardinality(newer[r])
    BY <1>2, <1>5, <2>2
  <2>. QED  BY <2>1, <2>2, <2>3
<1>. QED  BY <1>6

(* so that the newest rows of the payments are rows, and one each.         *)
LEMMA OneRowEach ==
  ASSUME NEW S, IsFiniteSet(S), \A r \in S : r.observed \in Int
  PROVE  /\ Latest(S) \subseteq S /\ IsFiniteSet(Latest(S))
         /\ \A r, q \in Latest(S) : r.payment = q.payment => r = q
         /\ \A r \in S : \E q \in Latest(S) : q.payment = r.payment
<1> DEFINE of(p) == {x \in S : x.payment = p}
           newest(p) == CHOOSE r \in of(p) : \A q \in S : q.payment = p => q.observed <= r.observed
           Paid == {r.payment : r \in S}
<1>1. Latest(S) = {newest(p) : p \in Paid}
  BY DEF Latest
<1>2. ASSUME NEW p \in Paid
      PROVE  newest(p) \in S /\ newest(p).payment = p
  <2>1. of(p) # {} /\ of(p) \subseteq S
    OBVIOUS
  <2>2. IsFiniteSet(of(p))
    BY <2>1, FS_Subset
  <2>3. \E r \in of(p) : \A q \in of(p) : q.observed <= r.observed
    <3>1. \A r \in of(p) : r.observed \in Int
      BY <2>1
    <3>. HIDE DEF of
    <3>. QED  BY <2>1, <2>2, <3>1, NewestRow
  <2>4. \E r \in of(p) : \A q \in S : q.payment = p => q.observed <= r.observed
    BY <2>3
  <2>5. newest(p) \in of(p)
    BY <2>4
  <2>. HIDE DEF newest
  <2>. QED  BY <2>5
<1>3. \A r \in S : r.payment \in Paid
  OBVIOUS
<1>. HIDE DEF newest, Paid
<1>4. Latest(S) \subseteq S
  BY <1>1, <1>2
<1>5. IsFiniteSet(Latest(S))
  BY <1>4, FS_Subset
<1>. QED  BY <1>1, <1>2, <1>3, <1>4, <1>5

(* The rows of a preview and the events that are made of them.             *)
Windowed(facts, cutoff) ==
  {r \in facts.payments : r.created # Missing /\ BaselineStart(cutoff) <= r.created /\ r.created <= cutoff}
RowsSeen(facts, cutoff) == Latest(Windowed(facts, cutoff))
MatchedRows(facts, cutoff) == {r \in RowsSeen(facts, cutoff) : Matched(r, facts)}
BaselineRows(facts, cutoff) == {r \in RowsSeen(facts, cutoff) : InBaseline(r.created, cutoff)}
CurrentRows(facts, cutoff) == {r \in RowsSeen(facts, cutoff) : InCurrent(r.created, cutoff)}
EventsSeen(facts, cutoff) == {Event(r, facts) : r \in MatchedRows(facts, cutoff)}
BlockersSeen(facts, cutoff) ==
  Blockers(BaselineRows(facts, cutoff), CurrentRows(facts, cutoff), MatchedRows(facts, cutoff))
VectorSeen(facts, cutoff) == Vector(EventsSeen(facts, cutoff), cutoff)

(* A preview in these terms.                                               *)
LEMMA PreviewTerms ==
  ASSUME NEW facts, NEW cutoff
  PROVE  ContractPreview(facts, cutoff) =
           [blockers |-> BlockersSeen(facts, cutoff), payments |-> RowsSeen(facts, cutoff),
            vector |-> IF BlockersSeen(facts, cutoff) # {} THEN Missing ELSE VectorSeen(facts, cutoff),
            raises |-> /\ BlockersSeen(facts, cutoff) = {}
                       /\ \/ VectorSeen(facts, cutoff).current = {}
                          \/ VectorSeen(facts, cutoff).baseline = {}]
BY DEF ContractPreview, BlockersSeen, RowsSeen, VectorSeen, EventsSeen, MatchedRows, BaselineRows,
       CurrentRows, Windowed

(* Payments that can be previewed: finitely many, with their times.        *)
Dated(entries) == IsFiniteSet(entries) /\ \A r \in entries : r.created \in Int /\ r.observed \in Int

(* What a preview without blockers has.                                    *)
LEMMA Unblocked ==
  ASSUME NEW matched, NEW baseline, NEW today, Blockers(baseline, today, matched) = {}
  PROVE  /\ ~(Cardinality(baseline) < MinBaseline)
         /\ baseline \subseteq matched /\ today \subseteq matched /\ today # {}
<1>1. \A b \in {"INSUFFICIENT_BASELINE_TRANSACTIONS", "BASELINE_TELEMETRY_INCOMPLETE",
                "CURRENT_WINDOW_TELEMETRY_INCOMPLETE", "NO_CURRENT_WINDOW_PAYMENTS"} :
        b \notin Blockers(baseline, today, matched)
  OBVIOUS
<1>2. /\ Cardinality(baseline) < MinBaseline =>
           "INSUFFICIENT_BASELINE_TRANSACTIONS" \in Blockers(baseline, today, matched)
      /\ baseline \ matched # {} => "BASELINE_TELEMETRY_INCOMPLETE" \in Blockers(baseline, today, matched)
      /\ today \ matched # {} => "CURRENT_WINDOW_TELEMETRY_INCOMPLETE" \in Blockers(baseline, today, matched)
      /\ today = {} => "NO_CURRENT_WINDOW_PAYMENTS" \in Blockers(baseline, today, matched)
  BY DEF Blockers
<1>. QED  BY <1>1, <1>2

(* Without a blocker every payment of the windows is one event.            *)
LEMMA ContractIsWhole ==
  ASSUME NEW facts, NEW cutoff \in Int, Dated(facts.payments),
         NEW preview, preview = ContractPreview(facts, cutoff), preview.blockers = {}
  PROVE  /\ ~preview.raises
         /\ Cardinality(preview.vector.current) + Cardinality(preview.vector.baseline)
              = Cardinality(preview.payments)
         /\ {e.id : e \in preview.vector.current} \cap {e.id : e \in preview.vector.baseline} = {}
<1> DEFINE entries == RowsSeen(facts, cutoff)
           base == BaselineRows(facts, cutoff)
           cur == CurrentRows(facts, cutoff)
           vector == VectorSeen(facts, cutoff)
<1>1. Windowed(facts, cutoff) \subseteq facts.payments
  BY DEF Windowed
<1>2. /\ entries \subseteq Windowed(facts, cutoff) /\ IsFiniteSet(entries)
      /\ \A r, q \in entries : r.payment = q.payment => r = q
  <2>1. IsFiniteSet(Windowed(facts, cutoff))
    BY <1>1, FS_Subset DEF Dated
  <2>2. \A r \in Windowed(facts, cutoff) : r.observed \in Int
    BY <1>1 DEF Dated
  <2>. QED  BY <2>1, <2>2, OneRowEach DEF RowsSeen
<1>3. \A r \in entries : r.created \in Int /\ BaselineStart(cutoff) <= r.created /\ r.created <= cutoff
  BY <1>1, <1>2 DEF Windowed, Dated
<1>4. base \cup cur = entries /\ base \cap cur = {}
  <2>1. CurrentStart(cutoff) \in Int
    BY WindowsAssumption DEF CurrentStart
  <2>2. \A r \in entries : (r \in base \/ r \in cur) /\ ~(r \in base /\ r \in cur)
    BY <1>3, <2>1 DEF BaselineRows, CurrentRows, InBaseline, InCurrent
  <2>. QED  BY <2>2 DEF BaselineRows, CurrentRows
<1>5. /\ preview.blockers = BlockersSeen(facts, cutoff) /\ preview.payments = entries
      /\ preview.vector = vector
      /\ preview.raises <=> (vector.current = {} \/ vector.baseline = {})
  <2>1. preview.blockers = BlockersSeen(facts, cutoff) /\ preview.payments = entries
    BY PreviewTerms
  <2>. QED  BY <2>1, PreviewTerms
<1>6. /\ ~(Cardinality(base) < MinBaseline) /\ cur # {}
      /\ base \subseteq MatchedRows(facts, cutoff) /\ cur \subseteq MatchedRows(facts, cutoff)
  BY <1>5, Unblocked DEF BlockersSeen
<1>7. MatchedRows(facts, cutoff) = entries
  BY <1>4, <1>6 DEF MatchedRows
<1>8. EventsSeen(facts, cutoff) = {Event(r, facts) : r \in entries}
  BY <1>7 DEF EventsSeen
<1> DEFINE event == [r \in entries |-> Event(r, facts)]
           inCurrent == [r \in cur |->
             [id |-> event[r].id, at |-> event[r].at, auth |-> event[r].auth, device |-> event[r].device,
              refunded |-> Happened(event[r].refund, cutoff),
              disputed |-> Happened(event[r].chargeback, cutoff)]]
           inBase == [r \in base |->
             [id |-> event[r].id, at |-> event[r].at, device |-> event[r].device,
              refunded |-> Happened(event[r].refund, CurrentStart(cutoff) - 1),
              disputed |-> Happened(event[r].chargeback, CurrentStart(cutoff) - 1)]]
<1>9. \A r \in entries : event[r].id = r.payment /\ event[r].at = r.created
  BY DEF Event
<1>10. EventsSeen(facts, cutoff) = {event[r] : r \in entries}
  BY <1>8
<1>. HIDE DEF event
<1>11. vector.current = {inCurrent[r] : r \in cur}
  <2>1. cur = {r \in entries : InCurrent(event[r].at, cutoff)}
    BY <1>9 DEF CurrentRows
  <2>2. {x \in EventsSeen(facts, cutoff) : InCurrent(x.at, cutoff)} = {event[r] : r \in cur}
    BY <1>10, <2>1
  <2>. QED  BY <2>2 DEF VectorSeen, Vector
<1>12. vector.baseline = {inBase[r] : r \in base}
  <2>1. base = {r \in entries : InBaseline(event[r].at, cutoff)}
    BY <1>9 DEF BaselineRows
  <2>2. {x \in EventsSeen(facts, cutoff) : InBaseline(x.at, cutoff)} = {event[r] : r \in base}
    BY <1>10, <2>1
  <2>. QED  BY <2>2 DEF VectorSeen, Vector
<1>13. base \subseteq entries /\ cur \subseteq entries
  BY <1>4
<1>14. (\A r \in cur : inCurrent[r].id = r.payment) /\ (\A r \in base : inBase[r].id = r.payment)
  BY <1>9, <1>13
<1>. HIDE DEF inCurrent, inBase, entries, base, cur, vector
<1>15. IsFiniteSet(base) /\ IsFiniteSet(cur)
  BY <1>2, <1>13, FS_Subset
<1>16. Cardinality(vector.current) = Cardinality(cur)
  <2> DEFINE T == {inCurrent[r] : r \in cur}
  <2>1. DOMAIN inCurrent = cur
    BY DEF inCurrent
  <2>2. inCurrent \in Bijection(cur, T)
    <3>1. inCurrent \in [cur -> T]
      <4>1. inCurrent = [r \in cur |-> inCurrent[r]]
        BY DEF inCurrent
      <4>. QED  BY <4>1
    <3>2. \A r, q \in cur : inCurrent[r] = inCurrent[q] => r = q
      BY <1>2, <1>13, <1>14
    <3>. QED  BY <3>1, <3>2 DEF Bijection, Injection, Surjection, IsInjective
  <2>3. Cardinality(T) = Cardinality(cur)
    BY <1>15, <2>2, FS_Bijection DEF ExistsBijection
  <2>. QED  BY <1>11, <2>3
<1>17. Cardinality(vector.baseline) = Cardinality(base)
  <2> DEFINE T == {inBase[r] : r \in base}
  <2>2. inBase \in Bijection(base, T)
    <3>1. inBase \in [base -> T]
      <4>1. inBase = [r \in base |-> inBase[r]]
        BY DEF inBase
      <4>. QED  BY <4>1
    <3>2. \A r, q \in base : inBase[r] = inBase[q] => r = q
      BY <1>2, <1>13, <1>14
    <3>. QED  BY <3>1, <3>2 DEF Bijection, Injection, Surjection, IsInjective
  <2>3. Cardinality(T) = Cardinality(base)
    BY <1>15, <2>2, FS_Bijection DEF ExistsBijection
  <2>. QED  BY <1>12, <2>3
<1>18. Cardinality(entries) = Cardinality(cur) + Cardinality(base)
  <2>1. Cardinality(base \cup cur) = Cardinality(base) + Cardinality(cur) - Cardinality(base \cap cur)
    BY <1>15, FS_Union
  <2>2. Cardinality(base \cap cur) = 0 /\ Cardinality(base) \in Nat /\ Cardinality(cur) \in Nat
    BY <1>4, <1>15, FS_EmptySet, FS_CardinalityType
  <2>3. Cardinality(entries) = Cardinality(base \cup cur)
    BY <1>4
  <2>4. \A a, b \in Nat : \A c, n : n = a + b - c /\ c = 0 => n = b + a
    OBVIOUS
  <2>. QED  BY <2>1, <2>2, <2>3, <2>4
<1>19. vector.current # {} /\ vector.baseline # {}
  <2>1. base # {}
    <3>1. Cardinality({}) = 0 /\ MinBaseline > 0 /\ MinBaseline \in Nat
      BY FS_EmptySet, WindowsAssumption
    <3>. QED  BY <1>6, <3>1
  <2>. QED  BY <1>6, <1>11, <1>12, <2>1
<1>20. {e.id : e \in vector.current} \cap {e.id : e \in vector.baseline} = {}
  <2>1. ASSUME NEW x \in vector.current, NEW y \in vector.baseline, x.id = y.id PROVE FALSE
    <3>1. PICK r \in cur : x = inCurrent[r]
      BY <1>11
    <3>2. PICK q \in base : y = inBase[q]
      BY <1>12
    <3>3. r = q
      BY <1>2, <1>13, <1>14, <2>1, <3>1, <3>2
    <3>. QED  BY <1>4, <3>3
  <2>. QED  BY <2>1
<1>. QED  BY <1>5, <1>16, <1>17, <1>18, <1>19, <1>20

(* A row as it was known: only what came later is gone.                    *)
LEMMA AsOfFields ==
  ASSUME NEW row, Parsed(row), NEW cutoff \in Int, NEW earlier, earlier = AsOf(row, cutoff)
  PROVE  /\ earlier.id = row.id /\ earlier.at = row.at /\ earlier.observed = row.observed
         /\ earlier.device = row.device /\ AuthStatus(earlier.status) = AuthStatus(row.status)
         /\ earlier.refundObserved = IF Present(row.refundObserved) /\ row.refundObserved <= cutoff
                                    THEN row.refundObserved ELSE Missing
         /\ earlier.disputeObserved = IF Present(row.disputeObserved) /\ row.disputeObserved <= cutoff
                                    THEN row.disputeObserved ELSE Missing
         /\ Present(earlier.refundObserved) => earlier.refundAt = row.refundAt
         /\ Present(earlier.disputeObserved) => earlier.disputeAt = row.disputeAt
<1> DEFINE later(t) == ~Present(t) \/ t > cutoff
           status == IF row.status = "refunded" /\ later(row.refundObserved) THEN "captured" ELSE row.status
           amount == IF later(row.refundObserved) THEN 0 ELSE row.refundAmount
           refundAt == IF later(row.refundObserved) THEN Missing ELSE row.refundAt
           refundObserved == IF later(row.refundObserved) THEN Missing ELSE row.refundObserved
           disputeAt == IF later(row.disputeObserved) THEN Missing ELSE row.disputeAt
           disputeObserved == IF later(row.disputeObserved) THEN Missing ELSE row.disputeObserved
<1>1. AsOf(row, cutoff) =
        [row EXCEPT !.status = status, !.refundAmount = amount, !.refundAt = refundAt,
           !.refundObserved = refundObserved, !.disputeAt = disputeAt,
           !.disputeObserved = disputeObserved]
  BY DEF AsOf
<1>2. AuthStatus(status) = AuthStatus(row.status)
  BY DEF AuthStatus
<1>3. /\ refundObserved = IF Present(row.refundObserved) /\ row.refundObserved <= cutoff
                                    THEN row.refundObserved ELSE Missing
      /\ disputeObserved = IF Present(row.disputeObserved) /\ row.disputeObserved <= cutoff
                                    THEN row.disputeObserved ELSE Missing
  BY DEF Parsed, Present
<1>4. /\ Present(refundObserved) => refundAt = row.refundAt
      /\ Present(disputeObserved) => disputeAt = row.disputeAt
  BY DEF Present
<1>. HIDE DEF status, amount, refundAt, refundObserved, disputeAt, disputeObserved
<1>5. earlier = [id |-> row.id, at |-> row.at, observed |-> row.observed, amount |-> row.amount,
            status |-> status, device |-> row.device,
            refundAmount |-> amount, refundAt |-> refundAt,
            refundObserved |-> refundObserved,
            disputeAt |-> disputeAt, disputeObserved |-> disputeObserved]
  BY <1>1 DEF Parsed
<1>. QED  BY <1>2, <1>3, <1>4, <1>5

(* What a preview shows of two accounts of the same payments that differ   *)
(* in statuses of one kind, and in the order map that nobody asks.         *)
SameTo(p, q) ==
  /\ p.payment = q.payment /\ p.order = q.order /\ p.order # Missing /\ p.inr = q.inr
  /\ p.created = q.created /\ p.observed = q.observed /\ AuthStatus(p.status) = AuthStatus(q.status)

(* Every payment with one row is its own newest.                           *)
LEMMA EachIsNewest ==
  ASSUME NEW S, \A r, q \in S : r.payment = q.payment => r = q,
         \A r \in S : r.observed \in Int
  PROVE  Latest(S) = S
<1> DEFINE of(p) == {x \in S : x.payment = p}
           newest(p) == CHOOSE r \in of(p) : \A q \in S : q.payment = p => q.observed <= r.observed
<1>1. Latest(S) = {newest(p) : p \in {r.payment : r \in S}}
  BY DEF Latest
<1>2. ASSUME NEW r \in S PROVE newest(r.payment) = r
  <2>1. \A q \in S : q.payment = r.payment => q.observed <= r.observed
    <3>1. \A n \in Int : n <= n
      OBVIOUS
    <3>. QED  BY <3>1
  <2>2. r \in of(r.payment)
    OBVIOUS
  <2>3. newest(r.payment) \in of(r.payment)
    BY <2>1, <2>2
  <2>. QED  BY <2>3
<1>. HIDE DEF newest
<1>. QED  BY <1>1, <1>2

(* Two injective images of a finite set are equally many.                  *)
LEMMA SameCount ==
  ASSUME NEW S, IsFiniteSet(S), NEW f, NEW g,
         \A r, q \in S : f[r] = f[q] => r = q, \A r, q \in S : g[r] = g[q] => r = q
  PROVE  Cardinality({f[r] : r \in S}) = Cardinality({g[r] : r \in S})
<1>1. ASSUME NEW h, \A r, q \in S : h[r] = h[q] => r = q
      PROVE  Cardinality({h[r] : r \in S}) = Cardinality(S)
  <2> DEFINE T == {h[r] : r \in S}
             k == [r \in S |-> h[r]]
  <2>1. k \in Bijection(S, T)
    BY <1>1 DEF Bijection, Injection, Surjection, IsInjective
  <2>. QED  BY <2>1, FS_Bijection DEF ExistsBijection
<1>. QED  BY <1>1

(* Two accounts of the same payments, row by row, with the same telemetry, *)
(* refunds and disputes, and with an order for every payment.              *)
TwoAccounts(S, p, q, facts, others) ==
  /\ IsFiniteSet(S) /\ facts.payments = {p[r] : r \in S} /\ others.payments = {q[r] : r \in S}
  /\ \A r \in S : SameTo(p[r], q[r]) /\ p[r].observed \in Int
  /\ \A r, s \in S : p[r].payment = p[s].payment => r = s
  /\ others.telemetry = facts.telemetry /\ others.refunds = facts.refunds
  /\ others.disputes = facts.disputes

(* Each row counts in one account as its counterpart does in the other.    *)
LEMMA RowByRow ==
  ASSUME NEW S, NEW p, NEW q, NEW facts, NEW others, TwoAccounts(S, p, q, facts, others),
         NEW r \in S
  PROVE  /\ Matched(p[r], facts) <=> Matched(q[r], others)
         /\ Event(p[r], facts) = Event(q[r], others)
<1>1. /\ SameTo(p[r], q[r]) /\ others.refunds = facts.refunds /\ others.disputes = facts.disputes
      /\ others.telemetry = facts.telemetry
  BY DEF TwoAccounts
<1>2. TelemetryOf(p[r], facts.telemetry, facts.orderNow)
        = TelemetryOf(q[r], others.telemetry, others.orderNow)
  <2>1. p[r].order # Missing /\ q[r].order = p[r].order /\ q[r].payment = p[r].payment
    BY <1>1 DEF SameTo
  <2>2. (IF p[r].order # Missing THEN p[r].order ELSE facts.orderNow[p[r].payment]) = p[r].order
        /\ (IF q[r].order # Missing THEN q[r].order ELSE others.orderNow[q[r].payment]) = p[r].order
    BY <2>1
  <2>. QED  BY <1>1, <2>1, <2>2 DEF TelemetryOf
<1>3. Matched(p[r], facts) <=> Matched(q[r], others)
  BY <1>1, <1>2 DEF Matched, SameTo
<1>4. Event(p[r], facts) = Event(q[r], others)
  BY <1>1, <1>2 DEF Event, SameTo
<1>. QED  BY <1>3, <1>4

\* The rows of the two windows.
InWindow(S, p, cutoff) ==
  {s \in S : p[s].created # Missing /\ BaselineStart(cutoff) <= p[s].created /\ p[s].created <= cutoff}

(* A preview looks at each of them once.                                   *)
LEMMA RowsOfAccount ==
  ASSUME NEW S, NEW p, NEW facts, NEW cutoff, facts.payments = {p[r] : r \in S},
         \A r \in S : p[r].observed \in Int,
         \A r, s \in S : p[r].payment = p[s].payment => r = s
  PROVE  RowsSeen(facts, cutoff) = {p[r] : r \in InWindow(S, p, cutoff)}
<1>1. Windowed(facts, cutoff) = {p[r] : r \in InWindow(S, p, cutoff)}
  BY DEF Windowed, InWindow
<1>2. InWindow(S, p, cutoff) \subseteq S
  BY DEF InWindow
<1>3. Latest(Windowed(facts, cutoff)) = Windowed(facts, cutoff)
  <2>1. \A x \in Windowed(facts, cutoff) : x.observed \in Int
    BY <1>1, <1>2
  <2>2. \A x, y \in Windowed(facts, cutoff) : x.payment = y.payment => x = y
    BY <1>1, <1>2
  <2>. QED  BY <2>1, <2>2, EachIsNewest
<1>. QED  BY <1>1, <1>3 DEF RowsSeen

\* Two accounts whose selections are B, C and M, of the same rows.
SelectedAlike(p, q, facts, others, cutoff, B, C, M) ==
  /\ BaselineRows(facts, cutoff) = {p[r] : r \in B}
  /\ BaselineRows(others, cutoff) = {q[r] : r \in B}
  /\ CurrentRows(facts, cutoff) = {p[r] : r \in C}
  /\ CurrentRows(others, cutoff) = {q[r] : r \in C}
  /\ MatchedRows(facts, cutoff) = {p[r] : r \in M}
  /\ MatchedRows(others, cutoff) = {q[r] : r \in M}

(* The windows of two accounts take the same rows.                         *)
LEMMA SameWindows ==
  ASSUME NEW S, NEW p, NEW q, NEW facts, NEW others, TwoAccounts(S, p, q, facts, others),
         NEW cutoff
  PROVE  \E B, C, M \in SUBSET S :
           SelectedAlike(p, q, facts, others, cutoff, B, C, M)
<1> DEFINE W == InWindow(S, p, cutoff)
           B == {r \in W : InBaseline(p[r].created, cutoff)}
           C == {r \in W : InCurrent(p[r].created, cutoff)}
           M == {r \in W : Matched(p[r], facts)}
<1>1. /\ \A r \in S : /\ SameTo(p[r], q[r]) /\ p[r].observed \in Int /\ q[r].observed \in Int
                      /\ p[r].created = q[r].created /\ p[r].payment = q[r].payment
      /\ \A r, s \in S : p[r].payment = p[s].payment => r = s
      /\ facts.payments = {p[r] : r \in S} /\ others.payments = {q[r] : r \in S}
  BY DEF TwoAccounts, SameTo
<1>2. InWindow(S, q, cutoff) = W /\ W \subseteq S
  BY <1>1 DEF InWindow
<1>3. RowsSeen(facts, cutoff) = {p[r] : r \in W}
  BY <1>1, RowsOfAccount
<1>4. RowsSeen(others, cutoff) = {q[r] : r \in InWindow(S, q, cutoff)}
  <2>1. /\ \A r \in S : q[r].observed \in Int
        /\ \A r, s \in S : q[r].payment = q[s].payment => r = s
    BY <1>1
  <2>. QED  BY <1>1, <2>1, RowsOfAccount
<1>5. RowsSeen(others, cutoff) = {q[r] : r \in W}
  BY <1>2, <1>4
<1>. HIDE DEF W
<1>6. \A r \in W : Matched(p[r], facts) <=> Matched(q[r], others)
  BY <1>2, RowByRow
<1>7. /\ BaselineRows(facts, cutoff) = {p[r] : r \in B}
      /\ CurrentRows(facts, cutoff) = {p[r] : r \in C}
      /\ MatchedRows(facts, cutoff) = {p[r] : r \in M}
  BY <1>3 DEF BaselineRows, CurrentRows, MatchedRows
<1>8. /\ BaselineRows(others, cutoff) = {q[r] : r \in B}
      /\ CurrentRows(others, cutoff) = {q[r] : r \in C}
  BY <1>1, <1>2, <1>5 DEF BaselineRows, CurrentRows
<1>9. MatchedRows(others, cutoff) = {q[r] : r \in M}
  BY <1>5, <1>6 DEF MatchedRows
<1>10. B \subseteq S /\ C \subseteq S /\ M \subseteq S
  BY <1>2
<1>. HIDE DEF B, C, M
<1>11. SelectedAlike(p, q, facts, others, cutoff, B, C, M)
  BY <1>7, <1>8, <1>9 DEF SelectedAlike
<1>. QED  BY <1>10, <1>11

(* Two accounts have the same preview but for the payments it lists.       *)
LEMMA SamePreview ==
  ASSUME NEW S, NEW p, NEW q, NEW facts, NEW others, TwoAccounts(S, p, q, facts, others),
         NEW cutoff, NEW one, one = ContractPreview(facts, cutoff),
         NEW other, other = ContractPreview(others, cutoff)
  PROVE  /\ other.blockers = one.blockers /\ other.vector = one.vector
         /\ other.raises = one.raises
<1>1. PICK B \in SUBSET S, C \in SUBSET S, M \in SUBSET S :
           SelectedAlike(p, q, facts, others, cutoff, B, C, M)
  BY SameWindows
<1>2. /\ \A r \in S : SameTo(p[r], q[r]) /\ p[r].created = q[r].created
                      /\ AuthStatus(p[r].status) = AuthStatus(q[r].status)
      /\ \A r, s \in S : p[r] = p[s] => r = s
      /\ \A r, s \in S : q[r] = q[s] => r = s
      /\ IsFiniteSet(S)
  BY DEF TwoAccounts, SameTo
<1> DEFINE b1 == BaselineRows(facts, cutoff)
           b2 == BaselineRows(others, cutoff)
           c1 == CurrentRows(facts, cutoff)
           c2 == CurrentRows(others, cutoff)
           m1 == MatchedRows(facts, cutoff)
           m2 == MatchedRows(others, cutoff)
<1>. HIDE DEF b1, b2, c1, c2, m1, m2
<1>3. /\ b1 = {p[r] : r \in B} /\ b2 = {q[r] : r \in B} /\ c1 = {p[r] : r \in C}
      /\ c2 = {q[r] : r \in C} /\ m1 = {p[r] : r \in M} /\ m2 = {q[r] : r \in M}
  BY <1>1 DEF b1, b2, c1, c2, m1, m2, SelectedAlike
<1>4. Cardinality(b1) = Cardinality(b2)
  <2>1. IsFiniteSet(B)
    BY <1>2, FS_Subset
  <2>. QED  BY <1>2, <1>3, <2>1, SameCount
<1>5. {r.created \div DayLength : r \in b1} = {r.created \div DayLength : r \in b2}
  <2>1. {x.created \div DayLength : x \in b1} = {p[r].created \div DayLength : r \in B}
    BY <1>3
  <2>2. {x.created \div DayLength : x \in b2} = {q[r].created \div DayLength : r \in B}
    BY <1>3
  <2>3. \A r \in B : p[r].created \div DayLength = q[r].created \div DayLength
    BY <1>2
  <2>. QED  BY <2>1, <2>2, <2>3
<1>6. /\ b1 \ m1 # {} <=> b2 \ m2 # {}
      /\ c1 \ m1 # {} <=> c2 \ m2 # {}
      /\ c1 = {} <=> c2 = {}
  <2>1. \A r \in S : (p[r] \in m1 <=> r \in M) /\ (q[r] \in m2 <=> r \in M)
    BY <1>2, <1>3
  <2>2. (b1 \ m1 # {} <=> \E r \in B : r \notin M) /\ (b2 \ m2 # {} <=> \E r \in B : r \notin M)
    BY <1>3, <2>1
  <2>3. (c1 \ m1 # {} <=> \E r \in C : r \notin M) /\ (c2 \ m2 # {} <=> \E r \in C : r \notin M)
    BY <1>3, <2>1
  <2>4. c1 = {} <=> c2 = {}
    BY <1>3
  <2>. QED  BY <2>2, <2>3, <2>4
<1>7. (\E r \in b1 \cup c1 : AuthStatus(r.status) = Missing)
        <=> (\E r \in b2 \cup c2 : AuthStatus(r.status) = Missing)
  BY <1>2, <1>3
<1>8. Blockers(b1, c1, m1) = Blockers(b2, c2, m2)
  BY <1>4, <1>5, <1>6, <1>7 DEF Blockers
<1>9. {Event(x, facts) : x \in m1} = {Event(x, others) : x \in m2}
  <2>1. \A r \in S : Event(p[r], facts) = Event(q[r], others)
    BY RowByRow
  <2>2. {Event(x, facts) : x \in m1} = {Event(p[r], facts) : r \in M}
    BY <1>3
  <2>3. {Event(x, others) : x \in m2} = {Event(q[r], others) : r \in M}
    BY <1>3
  <2>. QED  BY <2>1, <2>2, <2>3
<1>10. BlockersSeen(facts, cutoff) = BlockersSeen(others, cutoff)
  BY <1>8 DEF BlockersSeen, b1, b2, c1, c2, m1, m2
<1>11. VectorSeen(facts, cutoff) = VectorSeen(others, cutoff)
  BY <1>9 DEF VectorSeen, EventsSeen, m1, m2
<1>. QED  BY <1>10, <1>11, PreviewTerms

(* The rows of a file that was imported, and of the past of one.           *)
RowsApart(entries) == IsFiniteSet(entries) /\ (\A r \in entries : Parsed(r)) /\ \A r, q \in entries : r.id = q.id => r = q
SeenBy(entries, cutoff) == {r \in entries : r.observed <= cutoff}
PastOf(entries, cutoff) == {AsOf(r, cutoff) : r \in SeenBy(entries, cutoff)}

\* What a row says of its payment, to a preview.
Said(r) == [payment |-> r.id, order |-> r.id, status |-> r.status, inr |-> TRUE,
            created |-> r.at, observed |-> r.observed]
DeviceSaid(r) == [payment |-> r.id, order |-> r.id, device |-> r.device, observed |-> r.observed]
RefundSaid(r) == [payment |-> r.id, status |-> "processed", created |-> r.refundAt,
                  observed |-> r.refundObserved]
DisputeSaid(r) == [payment |-> r.id, created |-> r.disputeAt, observed |-> r.disputeObserved]
DisputesKnown(entries, cutoff) ==
  {r \in entries : Present(r.disputeObserved) /\ r.disputeObserved <= cutoff}

(* The facts of a history in these terms.                                  *)
LEMMA FactsSaid ==
  ASSUME NEW entries, NEW cutoff, NEW facts, facts = HistoryFacts(entries, cutoff)
  PROVE  /\ facts.payments = {Said(r) : r \in SeenBy(entries, cutoff)}
         /\ facts.telemetry = {DeviceSaid(r) : r \in SeenBy(entries, cutoff)}
         /\ facts.refunds = {RefundSaid(r) : r \in RefundsKnown(SeenBy(entries, cutoff), cutoff)}
         /\ facts.disputes = {DisputeSaid(r) : r \in DisputesKnown(SeenBy(entries, cutoff), cutoff)}
BY DEF HistoryFacts, Said, DeviceSaid, RefundSaid, DisputeSaid, SeenBy, DisputesKnown

(* The history as it was known tells the same payments, devices, refunds   *)
(* and disputes.                                                           *)
LEMMA PastSaid ==
  ASSUME NEW entries, RowsApart(entries), NEW cutoff \in Int, NEW earlier, earlier = PastOf(entries, cutoff),
         NEW facts, facts = HistoryFacts(entries, cutoff),
         NEW others, others = HistoryFacts(earlier, cutoff)
  PROVE  /\ others.payments = {Said(AsOf(r, cutoff)) : r \in SeenBy(entries, cutoff)}
         /\ others.telemetry = facts.telemetry /\ others.refunds = facts.refunds
         /\ others.disputes = facts.disputes
         /\ RefundTimeAbsent(earlier, cutoff) <=> RefundTimeAbsent(entries, cutoff)
         /\ DisputeTimeAbsent(earlier, cutoff) <=> DisputeTimeAbsent(entries, cutoff)
<1> DEFINE seen == SeenBy(entries, cutoff)
           a == [r \in seen |-> AsOf(r, cutoff)]
<1>1. \A r \in seen : Parsed(r) /\ r.observed <= cutoff /\ r \in entries
  BY DEF RowsApart, SeenBy
<1>2. \A r \in seen :
        /\ a[r].id = r.id /\ a[r].at = r.at /\ a[r].observed = r.observed /\ a[r].device = r.device
        /\ a[r].refundObserved = IF Present(r.refundObserved) /\ r.refundObserved <= cutoff
                                   THEN r.refundObserved ELSE Missing
        /\ a[r].disputeObserved = IF Present(r.disputeObserved) /\ r.disputeObserved <= cutoff
                                   THEN r.disputeObserved ELSE Missing
        /\ Present(a[r].refundObserved) => a[r].refundAt = r.refundAt
        /\ Present(a[r].disputeObserved) => a[r].disputeAt = r.disputeAt
  BY <1>1, AsOfFields
<1>3. earlier = {a[r] : r \in seen}
  BY DEF PastOf
<1>4. {Said(AsOf(r, cutoff)) : r \in seen} = {Said(a[r]) : r \in seen}
  OBVIOUS
<1>. HIDE DEF a, seen
<1>5. SeenBy(earlier, cutoff) = earlier
  BY <1>1, <1>2, <1>3 DEF SeenBy
<1>6. \A r \in seen : (Present(a[r].refundObserved) /\ a[r].refundObserved <= cutoff)
                        <=> (Present(r.refundObserved) /\ r.refundObserved <= cutoff)
  BY <1>2 DEF Present
<1>7. \A r \in seen : (Present(a[r].disputeObserved) /\ a[r].disputeObserved <= cutoff)
                        <=> (Present(r.disputeObserved) /\ r.disputeObserved <= cutoff)
  BY <1>2 DEF Present
<1>8. others.payments = {Said(a[r]) : r \in seen}
  BY <1>3, <1>5, FactsSaid
<1>9. others.telemetry = facts.telemetry
  <2>1. \A r \in seen : DeviceSaid(a[r]) = DeviceSaid(r)
    BY <1>2 DEF DeviceSaid
  <2>2. facts.telemetry = {DeviceSaid(r) : r \in seen}
    BY FactsSaid DEF seen
  <2>3. others.telemetry = {DeviceSaid(x) : x \in earlier}
    BY <1>5, FactsSaid
  <2>. QED  BY <1>3, <2>1, <2>2, <2>3
<1>10. others.refunds = facts.refunds
  <2>1. \A r \in RefundsKnown(seen, cutoff) : r \in seen /\ RefundSaid(a[r]) = RefundSaid(r)
    BY <1>2 DEF RefundSaid, RefundsKnown
  <2>2. facts.refunds = {RefundSaid(r) : r \in RefundsKnown(seen, cutoff)}
    BY FactsSaid DEF seen
  <2>3. others.refunds = {RefundSaid(x) : x \in RefundsKnown(earlier, cutoff)}
    BY <1>5, FactsSaid
  <2>4. RefundsKnown(earlier, cutoff) = {a[r] : r \in RefundsKnown(seen, cutoff)}
    BY <1>3, <1>6 DEF RefundsKnown
  <2>. QED  BY <2>1, <2>2, <2>3, <2>4
<1>11. others.disputes = facts.disputes
  <2>1. \A r \in DisputesKnown(seen, cutoff) : r \in seen /\ DisputeSaid(a[r]) = DisputeSaid(r)
    BY <1>2 DEF DisputeSaid, DisputesKnown
  <2>2. facts.disputes = {DisputeSaid(r) : r \in DisputesKnown(seen, cutoff)}
    BY FactsSaid DEF seen
  <2>3. others.disputes = {DisputeSaid(x) : x \in DisputesKnown(earlier, cutoff)}
    BY <1>5, FactsSaid
  <2>4. DisputesKnown(earlier, cutoff) = {a[r] : r \in DisputesKnown(seen, cutoff)}
    BY <1>3, <1>7 DEF DisputesKnown
  <2>. QED  BY <2>1, <2>2, <2>3, <2>4
<1>12. RefundTimeAbsent(earlier, cutoff) <=> RefundTimeAbsent(entries, cutoff)
  <2>1. RefundTimeAbsent(entries, cutoff)
          <=> \E r \in seen : Present(r.refundObserved) /\ r.refundObserved <= cutoff /\ ~Present(r.refundAt)
    BY DEF RefundTimeAbsent, seen, SeenBy
  <2>2. RefundTimeAbsent(earlier, cutoff)
          <=> \E r \in seen : Present(a[r].refundObserved) /\ a[r].refundObserved <= cutoff
                                /\ ~Present(a[r].refundAt)
    BY <1>1, <1>2, <1>3 DEF RefundTimeAbsent
  <2>. QED  BY <1>2, <1>6, <2>1, <2>2
<1>13. DisputeTimeAbsent(earlier, cutoff) <=> DisputeTimeAbsent(entries, cutoff)
  <2>1. DisputeTimeAbsent(entries, cutoff)
          <=> \E r \in seen : Present(r.disputeObserved) /\ r.disputeObserved <= cutoff /\ ~Present(r.disputeAt)
    BY DEF DisputeTimeAbsent, seen, SeenBy
  <2>2. DisputeTimeAbsent(earlier, cutoff)
          <=> \E r \in seen : Present(a[r].disputeObserved) /\ a[r].disputeObserved <= cutoff
                                /\ ~Present(a[r].disputeAt)
    BY <1>1, <1>2, <1>3 DEF DisputeTimeAbsent
  <2>. QED  BY <1>2, <1>7, <2>1, <2>2
<1>14. others.payments = {Said(AsOf(r, cutoff)) : r \in SeenBy(entries, cutoff)}
  BY <1>4, <1>8 DEF seen
<1>. QED  BY <1>9, <1>10, <1>11, <1>12, <1>13, <1>14

(* So a preview is the one of the history as it was known.                 *)
LEMMA PastPreviews ==
  ASSUME NEW entries, RowsApart(entries), NEW target \in entries,
         NEW preview, preview = HistoryPreview(entries, target), ~preview.raises,
         NEW cutoff, cutoff = target.observed,
         NEW other, other = HistoryPreview(PastOf(entries, cutoff), AsOf(target, cutoff))
  PROVE  ~other.raises /\ other.blockers = preview.blockers /\ other.vector = preview.vector
<1> DEFINE seen == SeenBy(entries, cutoff)
           p == [r \in seen |-> Said(r)]
           q == [r \in seen |-> Said(AsOf(r, cutoff))]
           earlier == PastOf(entries, cutoff)
           facts == HistoryFacts(entries, cutoff)
           others == HistoryFacts(earlier, cutoff)
<1>1. Parsed(target) /\ cutoff \in Int /\ AsOf(target, cutoff).observed = cutoff
  <2>1. Parsed(target) /\ cutoff \in Int
    BY DEF RowsApart, Parsed
  <2>. QED  BY <2>1, AsOfFields
<1>2. ~RefundTimeAbsent(entries, cutoff) /\ ~DisputeTimeAbsent(entries, cutoff)
      /\ preview = ContractPreview(facts, cutoff)
  BY DEF HistoryPreview
<1>3. /\ others.payments = {Said(AsOf(r, cutoff)) : r \in seen}
      /\ others.telemetry = facts.telemetry /\ others.refunds = facts.refunds
      /\ others.disputes = facts.disputes
      /\ ~RefundTimeAbsent(earlier, cutoff) /\ ~DisputeTimeAbsent(earlier, cutoff)
  BY <1>1, <1>2, PastSaid
<1>4. other = ContractPreview(others, cutoff)
  BY <1>1, <1>3 DEF HistoryPreview
<1>5. \A r \in seen : SameTo(p[r], q[r]) /\ p[r].observed \in Int /\ p[r].payment = r.id
  <2>. SUFFICES ASSUME NEW r \in seen
                PROVE  SameTo(p[r], q[r]) /\ p[r].observed \in Int /\ p[r].payment = r.id
    OBVIOUS
  <2>1. Parsed(r)
    BY DEF RowsApart, SeenBy
  <2>2. PICK b : b = AsOf(r, cutoff)
    OBVIOUS
  <2>3. b.id = r.id /\ b.at = r.at /\ b.observed = r.observed /\ AuthStatus(b.status) = AuthStatus(r.status)
    BY <1>1, <2>1, <2>2, AsOfFields
  <2>4. r.observed \in Int /\ r.id # Missing
    BY <2>1 DEF Parsed
  <2>5. p[r] = Said(r) /\ q[r] = Said(b)
    BY <2>2
  <2>. QED  BY <2>3, <2>4, <2>5 DEF Said, SameTo
<1>6. facts.payments = {p[r] : r \in seen} /\ others.payments = {q[r] : r \in seen}
  <2>1. facts.payments = {Said(r) : r \in seen}
    BY FactsSaid
  <2>. QED  BY <1>3, <2>1
<1>7. IsFiniteSet(seen) /\ \A r, s \in seen : r.id = s.id => r = s
  <2>1. seen \subseteq entries
    BY DEF SeenBy
  <2>. QED  BY <2>1, FS_Subset DEF RowsApart
<1>. HIDE DEF p, q, seen, facts, others, earlier
<1>8. TwoAccounts(seen, p, q, facts, others)
  BY <1>3, <1>5, <1>6, <1>7 DEF TwoAccounts
<1>9. other.blockers = preview.blockers /\ other.vector = preview.vector
      /\ other.raises = preview.raises
  BY <1>2, <1>4, <1>8, SamePreview
<1>. QED  BY <1>9
----------------------------------------------------------------------------
(* Imported histories.  A manifest is written after its records, and only  *)
(* by the import that made the directory.                                  *)
\* Directories hold the records of their own file or none; an import that goes
\* on has made its directory and found no manifest there.
DisksOK ==
  /\ content \in [HistoryFiles -> FileContents]
  /\ disk \in [HistoryFiles -> [made : BOOLEAN, records : FileContents \cup {Missing},
                                manifest : Manifests \cup {Missing, TornManifest}]]
  /\ \A f \in HistoryFiles :
       /\ disk[f].records \in {Missing, content[f]}
       /\ ~disk[f].made => disk[f].manifest = Missing
       /\ Whole(disk[f].manifest) => disk[f].records = content[f] /\ disk[f].manifest.hash = content[f]

ImportingOK ==
  /\ importing.pc \in {"idle", "records", "manifest"}
  /\ importing.pc # "idle" =>
       /\ importing \in [pc : {"records", "manifest"}, file : HistoryFiles, account : HistoryAccounts]
       /\ disk[importing.file].made /\ disk[importing.file].manifest = Missing
  /\ importing.pc = "manifest" => disk[importing.file].records = content[importing.file]

\* An answer is the manifest on disk, and a whole manifest was an answer.
AnswersOK ==
  /\ answers \subseteq [file : HistoryFiles, account : HistoryAccounts]
  /\ \A a \in answers : Whole(disk[a.file].manifest) /\ disk[a.file].manifest.account = a.account
  /\ \A f \in HistoryFiles :
       Whole(disk[f].manifest) => [file |-> f, account |-> disk[f].manifest.account] \in answers
  /\ \A h \in histHolds : [file |-> h.file, account |-> h.account] \in answers

HistoryInv == DisksOK /\ ImportingOK /\ AnswersOK

(* An import begins by making its directory.                               *)
LEMMA ImportBegins == HistoryInv /\ BeginImport => HistoryInv'
<1>. SUFFICES ASSUME HistoryInv, BeginImport PROVE HistoryInv'
  OBVIOUS
<1>1. UNCHANGED <<content, histHolds>> /\ importing.pc = "idle"
  BY DEF BeginImport
<1>2. PICK f \in HistoryFiles, a \in HistoryAccounts :
       \/ /\ disk[f].made /\ Whole(disk[f].manifest)
          /\ Answer(f, disk[f].manifest.account)
          /\ UNCHANGED <<disk, importing>>
       \/ /\ ~disk[f].made
          /\ disk' = [disk EXCEPT ![f].made = TRUE]
          /\ importing' = [pc |-> "records", file |-> f, account |-> a]
          /\ UNCHANGED answers
  BY DEF BeginImport
<1>3. CASE disk[f].made
  <2>1. answers' = answers \cup {[file |-> f, account |-> disk[f].manifest.account]}
        /\ UNCHANGED <<disk, importing>> /\ Whole(disk[f].manifest)
    BY <1>2, <1>3 DEF Answer
  <2>2. answers' = answers
    BY <2>1 DEF HistoryInv, AnswersOK
  <2>. QED  BY <1>1, <2>1, <2>2 DEF HistoryInv, DisksOK, ImportingOK, AnswersOK, Whole
<1>4. CASE ~disk[f].made
  <2>1. /\ disk' = [disk EXCEPT ![f].made = TRUE] /\ UNCHANGED answers
        /\ importing' = [pc |-> "records", file |-> f, account |-> a]
    BY <1>2, <1>4
  <2>2. \A g \in HistoryFiles : /\ disk'[g].records = disk[g].records
                                /\ disk'[g].manifest = disk[g].manifest
                                /\ disk'[g].made = (g = f \/ disk[g].made)
    BY <2>1 DEF HistoryInv, DisksOK
  <2>3. DisksOK'
    BY <1>1, <2>1, <2>2, ZenonT(60) DEF HistoryInv, DisksOK, Whole
  <2>4. ImportingOK'
    BY <1>4, <2>1, <2>2 DEF HistoryInv, DisksOK, ImportingOK
  <2>5. AnswersOK'
    BY <1>1, <2>1, <2>2 DEF HistoryInv, AnswersOK, Whole
  <2>. QED  BY <2>3, <2>4, <2>5 DEF HistoryInv
<1>. QED  BY <1>3, <1>4

(* It writes the records of its own file,                                  *)
LEMMA RecordsAreWritten == HistoryInv /\ WriteRecords => HistoryInv'
<1>. SUFFICES ASSUME HistoryInv, WriteRecords PROVE HistoryInv'
  OBVIOUS
<1>1. PICK f \in HistoryFiles, a \in HistoryAccounts :
        importing = [pc |-> "records", file |-> f, account |-> a]
  BY DEF WriteRecords, HistoryInv, ImportingOK
<1>2. /\ disk' = [disk EXCEPT ![f].records = content[f]] /\ UNCHANGED <<content, answers, histHolds>>
      /\ importing' = [pc |-> "manifest", file |-> f, account |-> a]
  BY <1>1 DEF WriteRecords
<1>3. \A g \in HistoryFiles : /\ disk'[g].records = IF g = f THEN content[f] ELSE disk[g].records
                              /\ disk'[g].manifest = disk[g].manifest
                              /\ disk'[g].made = disk[g].made
  BY <1>2 DEF HistoryInv, DisksOK
<1>4. disk[f].manifest = Missing /\ disk[f].made
  BY <1>1 DEF HistoryInv, ImportingOK
<1>5. DisksOK'
  BY <1>2, <1>3, <1>4 DEF HistoryInv, DisksOK, Whole
<1>6. ImportingOK'
  BY <1>2, <1>3, <1>4 DEF HistoryInv, DisksOK, ImportingOK
<1>7. AnswersOK'
  BY <1>2, <1>3 DEF HistoryInv, AnswersOK, Whole
<1>. QED  BY <1>5, <1>6, <1>7 DEF HistoryInv

(* and then the manifest that vouches for them.                            *)
LEMMA ManifestIsWritten == HistoryInv /\ WriteManifest => HistoryInv'
<1>. SUFFICES ASSUME HistoryInv, WriteManifest PROVE HistoryInv'
  OBVIOUS
<1>1. PICK f \in HistoryFiles, a \in HistoryAccounts :
        importing = [pc |-> "manifest", file |-> f, account |-> a]
  BY DEF WriteManifest, HistoryInv, ImportingOK
<1>2. disk[f].records = content[f] /\ disk[f].manifest = Missing /\ disk[f].made
      /\ content[f] \in FileContents
  BY <1>1 DEF HistoryInv, ImportingOK, DisksOK
<1>3. PICK m \in Manifests : m = [account |-> a, hash |-> content[f]]
  BY <1>2 DEF Manifests
<1>4. Whole(m) /\ m.account = a /\ m.hash = content[f]
  BY <1>2, <1>3, HistoryAssumption DEF Whole, TornManifest
<1>5. /\ disk' = [disk EXCEPT ![f].manifest = m] /\ UNCHANGED <<content, histHolds>>
      /\ importing'.pc = "idle" /\ answers' = answers \cup {[file |-> f, account |-> a]}
  BY <1>1, <1>2, <1>3 DEF WriteManifest, NoImport, Answer
<1>6. \A g \in HistoryFiles : /\ disk'[g].records = disk[g].records
                              /\ disk'[g].manifest = IF g = f THEN m ELSE disk[g].manifest
                              /\ disk'[g].made = disk[g].made
  BY <1>5 DEF HistoryInv, DisksOK
<1>7. DisksOK'
  BY <1>2, <1>4, <1>5, <1>6 DEF HistoryInv, DisksOK, Whole
<1>8. ImportingOK'
  BY <1>5 DEF ImportingOK
<1>9. AnswersOK'
  <2>1. \A b \in answers : b.file # f
    BY <1>2 DEF HistoryInv, AnswersOK, Whole
  <2>2. \A b \in answers' : Whole(disk'[b.file].manifest) /\ disk'[b.file].manifest.account = b.account
    BY <1>4, <1>5, <1>6, <2>1 DEF HistoryInv, AnswersOK
  <2>3. \A g \in HistoryFiles : Whole(disk'[g].manifest)
           => [file |-> g, account |-> disk'[g].manifest.account] \in answers'
    BY <1>4, <1>5, <1>6 DEF HistoryInv, AnswersOK
  <2>. QED  BY <1>5, <2>2, <2>3 DEF HistoryInv, AnswersOK, Whole
<1>. QED  BY <1>7, <1>8, <1>9 DEF HistoryInv

(* A kill leaves a directory without a whole manifest.                     *)
LEMMA ImportIsKilled == HistoryInv /\ KillImport => HistoryInv'
<1>. SUFFICES ASSUME HistoryInv, KillImport PROVE HistoryInv'
  OBVIOUS
<1>1. importing'.pc = "idle" /\ UNCHANGED <<content, answers, histHolds>> /\ importing.pc # "idle"
  BY DEF KillImport, NoImport
<1>2. ImportingOK'
  BY <1>1 DEF ImportingOK
<1>3. CASE disk' = disk
  BY <1>1, <1>2, <1>3 DEF HistoryInv, DisksOK, AnswersOK, Whole
<1>4. CASE disk' # disk
  <2>1. PICK f \in HistoryFiles : /\ disk' = [disk EXCEPT ![f].manifest = TornManifest]
                                  /\ disk[f].manifest = Missing /\ disk[f].made
    BY <1>1, <1>4 DEF KillImport, HistoryInv, ImportingOK
  <2>2. \A g \in HistoryFiles : /\ disk'[g].records = disk[g].records
                                /\ disk'[g].manifest = IF g = f THEN TornManifest ELSE disk[g].manifest
                                /\ disk'[g].made = disk[g].made
    BY <2>1 DEF HistoryInv, DisksOK
  <2>3. DisksOK'
    BY <1>1, <2>1, <2>2 DEF HistoryInv, DisksOK, Whole
  <2>4. AnswersOK'
    BY <1>1, <2>1, <2>2 DEF HistoryInv, AnswersOK, Whole
  <2>. QED  BY <1>2, <2>3, <2>4 DEF HistoryInv
<1>. QED  BY <1>3, <1>4

(* A case is of a row of a listed history.                                 *)
LEMMA CaseIsPrepared == HistoryInv /\ PrepareCase => HistoryInv'
<1>. SUFFICES ASSUME HistoryInv, PrepareCase PROVE HistoryInv'
  OBVIOUS
<1>1. UNCHANGED <<content, disk, importing, answers>>
  BY DEF PrepareCase
<1>2. \A h \in histHolds' : [file |-> h.file, account |-> h.account] \in answers
  <2>1. PICK f \in HistoryFiles :
          /\ Whole(disk[f].manifest)
          /\ \/ histHolds' = histHolds
             \/ \E target \in RowsOf(f) : histHolds' = histHolds \cup
                  {[file |-> f, id |-> target.id, account |-> disk[f].manifest.account]}
    BY DEF PrepareCase
  <2>2. [file |-> f, account |-> disk[f].manifest.account] \in answers
    BY <2>1 DEF HistoryInv, AnswersOK
  <2>3. ASSUME NEW h \in histHolds', h \notin histHolds
        PROVE h.file = f /\ h.account = disk[f].manifest.account
    BY <2>1, <2>3
  <2>4. ASSUME NEW h \in histHolds'
        PROVE [file |-> h.file, account |-> h.account] \in answers
    <3>1. CASE h \in histHolds
      BY <3>1 DEF HistoryInv, AnswersOK
    <3>2. CASE h \notin histHolds
      BY <2>2, <2>3, <3>2
    <3>. QED  BY <3>1, <3>2
  <2>. QED  BY <2>4
<1>. QED  BY <1>1, <1>2 DEF HistoryInv, DisksOK, ImportingOK, AnswersOK, Whole

(* Every step keeps the invariant of the imports.                          *)
LEMMA ImportsStep == HistoryInv /\ [HistoryNext]_historyVars => HistoryInv'
<1>1. HistoryInv /\ UNCHANGED historyVars => HistoryInv'
  BY DEF historyVars, HistoryInv, DisksOK, ImportingOK, AnswersOK, Whole
<1>. QED
  BY <1>1, ImportBegins, RecordsAreWritten, ManifestIsWritten, ImportIsKilled, CaseIsPrepared
  DEF HistoryNext

(* Without any import it holds.                                            *)
LEMMA ImportsStart == HistoryInit => HistoryInv
BY HistoryAssumption
   DEF HistoryInit, HistoryInv, DisksOK, ImportingOK, AnswersOK, Whole, NoImport, NoDirectory

(* However imports are killed and repeated, a listed history verifies,     *)
(* and its file belongs to the account of the first import                 *)
(* (operator_history.py).                                                  *)
THEOREM ImportsSurviveKills == HistorySpec => [](ListedHistoriesVerify /\ FirstImportOwnsTheFile)
<1>1. HistoryInv => ListedHistoriesVerify
  BY HistoryAssumption
     DEF HistoryInv, DisksOK, ListedHistoriesVerify, Listed, Verified, Present
<1>2. HistoryInv => FirstImportOwnsTheFile
  BY DEF HistoryInv, AnswersOK, FirstImportOwnsTheFile
<1>. QED  BY <1>1, <1>2, ImportsStart, ImportsStep, PTL DEF HistorySpec
----------------------------------------------------------------------------
(* What was shown of a history.  A file that has a directory could be      *)
(* imported, and a preview is of the records of a listed one, which stay.  *)
RowsIn(f) == {content[f][i] : i \in DOMAIN content[f]}

ShownOK ==
  /\ \A f \in HistoryFiles : disk[f].made => Importable(content[f])
  /\ shown # Missing =>
       /\ shown.file \in HistoryFiles /\ Whole(disk[shown.file].manifest)
       /\ shown.target \in RowsIn(shown.file)
       /\ shown.preview = HistoryPreview(RowsIn(shown.file), shown.target)

(* A listed history keeps its manifest, and its records are its content.   *)
LEMMA ListedStays ==
  ASSUME HistoryInv, HistoryInv', HistoryNext, NEW f \in HistoryFiles, Whole(disk[f].manifest)
  PROVE  Whole(disk'[f].manifest) /\ RowsOf(f) = RowsIn(f) /\ content' = content /\ disk[f].made
<1>1. answers \subseteq answers' /\ content' = content
  BY DEF HistoryNext, BeginImport, WriteRecords, WriteManifest, KillImport, PrepareCase, Answer
<1>2. [file |-> f, account |-> disk[f].manifest.account] \in answers'
  BY <1>1 DEF HistoryInv, AnswersOK
<1>3. Whole(disk'[f].manifest)
  BY <1>2 DEF HistoryInv, AnswersOK
<1>4. disk[f].records = content[f] /\ disk[f].made
  BY DEF HistoryInv, DisksOK, Whole
<1>. QED  BY <1>1, <1>3, <1>4 DEF RowsOf, RowsIn

(* Directories are made of files that pass the checks.                     *)
LEMMA MadeIsImportable ==
  ASSUME HistoryInv, HistoryNext, ShownOK, NEW f \in HistoryFiles, disk'[f].made
  PROVE  Importable(content[f])
<1>1. CASE BeginImport
  BY <1>1 DEF BeginImport, HistoryInv, DisksOK, ShownOK
<1>2. CASE WriteRecords
  BY <1>2 DEF WriteRecords, HistoryInv, DisksOK, ShownOK
<1>3. CASE WriteManifest
  BY <1>3 DEF WriteManifest, HistoryInv, DisksOK, ShownOK
<1>4. CASE KillImport
  BY <1>4 DEF KillImport, HistoryInv, DisksOK, ShownOK
<1>5. CASE PrepareCase
  BY <1>5 DEF PrepareCase, ShownOK
<1>. QED  BY <1>1, <1>2, <1>3, <1>4, <1>5 DEF HistoryNext

(* A case is prepared from the records of its file.                        *)
LEMMA CaseIsOfItsRows ==
  ASSUME HistoryInv, HistoryInv', ShownOK, PrepareCase
  PROVE  ShownOK'
<1>1. PICK f \in HistoryFiles :
        /\ Whole(disk[f].manifest)
        /\ \E target \in RowsOf(f) :
             shown' = [file |-> f, target |-> target, preview |-> HistoryPreview(RowsOf(f), target)]
  BY DEF PrepareCase
<1>2. PICK target \in RowsOf(f) :
        shown' = [file |-> f, target |-> target, preview |-> HistoryPreview(RowsOf(f), target)]
  BY <1>1
<1>3. UNCHANGED <<content, disk>> /\ RowsOf(f) = RowsIn(f)
  BY <1>1, ListedStays DEF HistoryNext, PrepareCase
<1>5. shown'.file = f /\ shown'.target = target /\ shown'.preview = HistoryPreview(RowsIn(f), target)
  BY <1>2, <1>3
<1>6. (RowsIn(shown.file))' = RowsIn(f)
  BY <1>3, <1>5 DEF RowsIn
<1>. QED  BY <1>1, <1>2, <1>3, <1>5, <1>6 DEF ShownOK

(* Every step keeps what was shown.                                        *)
LEMMA ShownSteps ==
  HistoryInv /\ HistoryInv' /\ ShownOK /\ [HistoryNext]_historyVars => ShownOK'
<1>. SUFFICES ASSUME HistoryInv, HistoryInv', ShownOK, [HistoryNext]_historyVars PROVE ShownOK'
  OBVIOUS
<1>1. CASE UNCHANGED historyVars
  BY <1>1 DEF historyVars, ShownOK, RowsIn
<1>2. CASE PrepareCase
  BY <1>2, CaseIsOfItsRows
<1>3. CASE HistoryNext /\ ~PrepareCase
  <2>1. shown' = shown /\ content' = content
    BY <1>3 DEF HistoryNext, BeginImport, WriteRecords, WriteManifest, KillImport
  <2>2. \A f \in HistoryFiles : disk'[f].made => Importable(content[f])
    BY <1>3, MadeIsImportable
  <2>3. shown # Missing => Whole(disk'[shown.file].manifest)
    BY <1>3, ListedStays DEF ShownOK
  <2>. QED  BY <2>1, <2>2, <2>3 DEF ShownOK, RowsIn
<1>. QED  BY <1>1, <1>2, <1>3

(* Finitely many have finitely many images.                                *)
LEMMA ImageIsFinite ==
  ASSUME NEW S, IsFiniteSet(S), NEW f
  PROVE  IsFiniteSet({f[x] : x \in S})
<1> DEFINE T == {f[x] : x \in S}
           image == [x \in S |-> f[x]]
<1>1. image \in Surjection(S, T)
  BY DEF Surjection
<1>. HIDE DEF T, image
<1>2. IsFiniteSet(T)
  BY <1>1, FS_Surjection
<1>. QED  BY <1>2 DEF T

(* The rows of a file that was imported are whole and told apart.          *)
LEMMA ImportedRows ==
  ASSUME HistoryInv, NEW f \in HistoryFiles, Importable(content[f])
  PROVE  RowsApart(RowsIn(f)) /\ \A r \in RowsIn(f) : RowAccepted(r)
<1> DEFINE entries == content[f]
<1>1. entries \in FileContents
  BY DEF HistoryInv, DisksOK
<1>2. entries \in Seq({entries[i] : i \in DOMAIN entries}) /\ \A i \in DOMAIN entries : Parsed(entries[i])
  BY <1>1, HistoryAssumption
<1>3. IsFiniteSet(RowsIn(f))
  <2>1. DOMAIN entries = 1..Len(entries) /\ Len(entries) \in Nat
    BY <1>2, LenProperties
  <2>2. IsFiniteSet(DOMAIN entries)
    <3>1. 0 \in Int /\ 1 \in Int /\ Len(entries) \in Int
      BY <2>1
    <3>. QED  BY <2>1, <3>1, FS_Interval
  <2>. QED  BY <2>2, ImageIsFinite DEF RowsIn
<1>. QED  BY <1>2, <1>3 DEF RowsIn, RowsApart, Importable

(* For any history and any transaction of it, imported and previewed in    *)
(* any order with kills in between: a preview is the one of the history as *)
(* it was known at the transaction, and only a refund of nothing without a *)
(* time makes one raise (operator_history.py:560-640).                     *)
THEOREM HistoriesLookBack == HistorySpec => [](HistoryHasNoLookAhead /\ AcceptedHistoriesPreview)
<1>1. ASSUME HistoryInv, ShownOK, shown # Missing
      PROVE  /\ RowsApart(RowsIn(shown.file)) /\ \A r \in RowsIn(shown.file) : RowAccepted(r)
             /\ RowsOf(shown.file) = RowsIn(shown.file) /\ shown.target \in RowsIn(shown.file)
             /\ shown.preview = HistoryPreview(RowsIn(shown.file), shown.target)
  <2>1. /\ shown.file \in HistoryFiles /\ Whole(disk[shown.file].manifest)
        /\ shown.target \in RowsIn(shown.file)
        /\ shown.preview = HistoryPreview(RowsIn(shown.file), shown.target)
    BY <1>1 DEF ShownOK
  <2>2. disk[shown.file].records = content[shown.file] /\ disk[shown.file].made
    BY <1>1, <2>1 DEF HistoryInv, DisksOK, Whole
  <2>3. Importable(content[shown.file])
    BY <1>1, <2>1, <2>2 DEF ShownOK
  <2>4. RowsOf(shown.file) = RowsIn(shown.file)
    BY <2>2 DEF RowsOf, RowsIn
  <2>. QED  BY <1>1, <2>1, <2>3, <2>4, ImportedRows
<1>2. HistoryInv /\ ShownOK => HistoryHasNoLookAhead
  <2>. SUFFICES ASSUME HistoryInv, ShownOK, shown # Missing, ~shown.preview.raises
                PROVE  LET cutoff == shown.target.observed
                           earlier == {AsOf(r, cutoff) : r \in {x \in RowsOf(shown.file) : x.observed <= cutoff}}
                           preview == HistoryPreview(earlier, AsOf(shown.target, cutoff)) IN
                       /\ ~preview.raises /\ preview.blockers = shown.preview.blockers
                       /\ preview.vector = shown.preview.vector
    BY DEF HistoryHasNoLookAhead
  <2> DEFINE entries == RowsIn(shown.file)
             cutoff == shown.target.observed
             other == HistoryPreview(PastOf(entries, cutoff), AsOf(shown.target, cutoff))
  <2>1. /\ RowsApart(entries) /\ RowsOf(shown.file) = entries /\ shown.target \in entries
        /\ shown.preview = HistoryPreview(entries, shown.target)
    BY <1>1
  <2>2. ~other.raises /\ other.blockers = shown.preview.blockers /\ other.vector = shown.preview.vector
    <3>. HIDE DEF entries
    <3>. QED  BY <2>1, PastPreviews
  <2>. QED  BY <2>1, <2>2 DEF PastOf, SeenBy
<1>3. HistoryInv /\ ShownOK => AcceptedHistoriesPreview
  <2>. SUFFICES ASSUME HistoryInv, ShownOK, shown # Missing, shown.preview.raises
                PROVE  \E r \in RowsOf(shown.file) :
                         r.refundAmount = 0 /\ Present(r.refundObserved) /\ ~Present(r.refundAt)
    BY DEF AcceptedHistoriesPreview
  <2> DEFINE entries == RowsIn(shown.file)
             cutoff == shown.target.observed
  <2>1. /\ RowsApart(entries) /\ RowsOf(shown.file) = entries /\ shown.target \in entries
        /\ shown.preview = HistoryPreview(entries, shown.target) /\ \A r \in entries : RowAccepted(r)
    BY <1>1
  <2>. HIDE DEF entries
  <2>2. \A r \in entries : Parsed(r) /\ RowAccepted(r)
    BY <2>1 DEF RowsApart
  <2>3. cutoff \in Int
    BY <2>1, <2>2 DEF Parsed
  <2>4. RefundTimeAbsent(entries, cutoff) \/ DisputeTimeAbsent(entries, cutoff)
    <3>. SUFFICES ASSUME ~RefundTimeAbsent(entries, cutoff), ~DisputeTimeAbsent(entries, cutoff)
                  PROVE  FALSE
      OBVIOUS
    <3> DEFINE facts == HistoryFacts(entries, cutoff)
    <3>1. shown.preview = ContractPreview(facts, cutoff)
      BY <2>1 DEF HistoryPreview
    <3>2. facts.payments = {Said(r) : r \in SeenBy(entries, cutoff)}
      BY FactsSaid
    <3>3. Dated(facts.payments)
      <4>1. SeenBy(entries, cutoff) \subseteq entries
        BY DEF SeenBy
      <4>2. IsFiniteSet(SeenBy(entries, cutoff))
        BY <2>1, <4>1, FS_Subset DEF RowsApart
      <4>3. IsFiniteSet(facts.payments)
        <5> DEFINE said == [r \in SeenBy(entries, cutoff) |-> Said(r)]
        <5>1. facts.payments = {said[r] : r \in SeenBy(entries, cutoff)}
          BY <3>2
        <5>. HIDE DEF said
        <5>. QED  BY <4>2, <5>1, ImageIsFinite
      <4>4. \A r \in SeenBy(entries, cutoff) : Said(r).created \in Int /\ Said(r).observed \in Int
        BY <2>2, <4>1 DEF Said, Parsed
      <4>. QED  BY <3>2, <4>3, <4>4 DEF Dated
    <3>. HIDE DEF facts
    <3>4. shown.preview.blockers = {}
      BY <3>1, PreviewTerms
    <3>. QED  BY <2>3, <3>1, <3>3, <3>4, ContractIsWhole
  <2>5. CASE RefundTimeAbsent(entries, cutoff)
    <3>1. PICK r \in entries : Present(r.refundObserved) /\ ~Present(r.refundAt)
      BY <2>5 DEF RefundTimeAbsent
    <3>2. r.refundAmount \in 0..r.amount /\ ~(r.refundAmount > 0) /\ r.amount \in Int
      BY <2>2, <3>1 DEF RowAccepted, Parsed
    <3>3. r.refundAmount = 0
      BY <3>2
    <3>. QED  BY <2>1, <3>1, <3>3
  <2>6. CASE DisputeTimeAbsent(entries, cutoff)
    BY <2>2, <2>6 DEF DisputeTimeAbsent, RowAccepted
  <2>. QED  BY <2>4, <2>5, <2>6
<1>4. HistoryInit => ShownOK
  BY DEF HistoryInit, ShownOK, NoDirectory
<1>. QED  BY <1>2, <1>3, <1>4, ShownSteps, ImportsStart, ImportsStep, PTL DEF HistorySpec
----------------------------------------------------------------------------
(* The research protocol.  What a script has checked of the files of the   *)
(* others still holds when it acts, and a cycle directory has one owner.   *)
StudyStates ==
  [at : {"new", "ended", "loaded", "hashed", "gated", "written", "matched",
         "checked", "claimed", "running"},
   out : CycleOutputs \cup {NotRun}, hashed : Corpora \cup {NotRun},
   data : Corpora \cup {NotRun}, gate : BOOLEAN, loads : BOOLEAN, valid : BOOLEAN,
   step : 1..14]

ResearchTypes ==
  /\ corpus \in Corpora
  /\ audit \in Locks \cup {NotRun} /\ reproduction \in Locks \cup {NotRun}
  /\ experiment \in Experiments \cup {NotRun}
  /\ output \in [CycleOutputs -> Outputs \cup {NotRun}]
  /\ study \in [Studies -> StudyStates]
  /\ sealedOpened \subseteq [by : Studies, out : CycleOutputs \cup {"experiment"}]

\* What each script has checked so far still holds of the files.
AuditOK(s) == At(s, "audit", "loaded") => study[s].data \in Corpora

ExperimentOK(s) ==
  /\ At(s, "experiment", "hashed") => audit # NotRun /\ study[s].hashed \in Corpora
  /\ At(s, "experiment", "gated") \/ At(s, "experiment", "written") =>
       /\ audit # NotRun /\ study[s].hashed \in Corpora /\ study[s].data \in Corpora
       /\ PartitionOf[study[s].data] = audit.partition
  /\ At(s, "experiment", "written") =>
       experiment # NotRun /\ experiment.by = s /\ experiment.signed = NotRun

SignedExperiment == experiment # NotRun /\ experiment.signed # NotRun

ReproduceOK(s) ==
  /\ At(s, "reproduce", "hashed") => SignedExperiment
  /\ At(s, "reproduce", "matched") =>
       /\ SignedExperiment /\ study[s].data \in Corpora
       /\ PartitionOf[study[s].data] = experiment.signed.partition

\* A run that holds a directory is alone in it, and the reports it passed are
\* there; past the freeze its candidate is there; before the opening no run
\* opened the sealed rows there.
Owns(s) == At(s, "cycle", "claimed") \/ At(s, "cycle", "running")

CycleOK(s) ==
  /\ At(s, "cycle", "checked") \/ Owns(s) =>
       study[s].out \in CycleOutputs /\ reproduction # NotRun /\ study[s].step \in 1..14
  /\ At(s, "cycle", "new") \/ At(s, "cycle", "checked") \/ At(s, "cycle", "claimed") =>
       study[s].step = 1
  /\ Owns(s) =>
       /\ output[study[s].out] # NotRun
       /\ \A i \in 1..14 : i < study[s].step /\ StepOrder[i] \in Reports
                             => StepOrder[i] \in output[study[s].out].reports
       /\ study[s].step <= 10 => \A a \in sealedOpened : a.out # study[s].out
  /\ At(s, "cycle", "running") =>
       /\ study[s].data \in Corpora /\ PartitionOf[study[s].data] = reproduction.partition
       /\ study[s].step > 8 /\ study[s].gate =>
            /\ output[study[s].out].candidate # NotRun
            /\ output[study[s].out].candidate.by = s
            /\ output[study[s].out].candidate.data = study[s].data

Alone == \A s, t \in Studies : Owns(s) /\ Owns(t) /\ study[s].out = study[t].out => s = t

\* A reproduction is of the signed experiment.
LocksAgree ==
  reproduction # NotRun =>
    SignedExperiment /\ reproduction.partition = experiment.signed.partition

\* What an opening of sealed rows rested on stays as it was.
OpeningOK(a) ==
  /\ a.out = "experiment" =>
       /\ At(a.by, "experiment", "written") \/ At(a.by, "experiment", "ended")
       /\ audit # NotRun /\ PartitionOf[study[a.by].data] = audit.partition
       /\ experiment # NotRun /\ experiment.by = a.by
  /\ a.out \in CycleOutputs =>
       /\ At(a.by, "cycle", "running") \/ At(a.by, "cycle", "ended")
       /\ study[a.by].gate /\ output[a.out] # NotRun
       /\ output[a.out].candidate # NotRun /\ output[a.out].candidate.by = a.by
       /\ output[a.out].candidate.data = study[a.by].data
       /\ reproduction # NotRun /\ PartitionOf[study[a.by].data] = reproduction.partition

RunsOK == \A s \in Studies : AuditOK(s) /\ ExperimentOK(s) /\ ReproduceOK(s) /\ CycleOK(s)
OpeningsOK == \A a \in sealedOpened : OpeningOK(a)

ResearchInv ==
  /\ ResearchTypes /\ RunsOK /\ Alone /\ LocksAgree /\ OpeningsOK
  /\ SealedIsOpenedOnce /\ FinalReportIsLast

(* The steps of a final cycle that are no reports.                         *)
LEMMA StepFacts ==
  /\ Len(StepOrder) = 14
  /\ \A i \in 1..14 : StepOrder[i] = "freeze" <=> i = 8
  /\ \A i \in 1..14 : StepOrder[i] = "load" <=> i = 9
  /\ \A i \in 1..14 : StepOrder[i] = "sealed" <=> i = 10
  /\ \A i \in 1..14 : StepOrder[i] = "final.json" <=> i = 13
  /\ \A r \in Reports : \E i \in 1..14 : StepOrder[i] = r
  /\ StepOrder[14] = "manifest.json" /\ Reports \cap Guarded = {}
<1>1. /\ Len(StepOrder) = 14 /\ DOMAIN StepOrder = 1..14
      /\ StepOrder[1] = "provenance.json" /\ StepOrder[2] = "partitions.json"
      /\ StepOrder[3] = "leakage.json" /\ StepOrder[4] = "selection.json"
      /\ StepOrder[5] = "errors.json" /\ StepOrder[6] = "gate.json"
      /\ StepOrder[7] = "explain.json" /\ StepOrder[8] = "freeze" /\ StepOrder[9] = "load"
      /\ StepOrder[10] = "sealed" /\ StepOrder[11] = "validation.json"
      /\ StepOrder[12] = "loadability.json" /\ StepOrder[13] = "final.json"
      /\ StepOrder[14] = "manifest.json"
  BY DEF StepOrder
<1>2. \A i \in 1..14 : \/ i = 1 \/ i = 2 \/ i = 3 \/ i = 4 \/ i = 5 \/ i = 6 \/ i = 7
                       \/ i = 8 \/ i = 9 \/ i = 10 \/ i = 11 \/ i = 12 \/ i = 13 \/ i = 14
  OBVIOUS
<1>3. \A i \in 1..14 : /\ StepOrder[i] = "freeze" <=> i = 8
                       /\ StepOrder[i] = "load" <=> i = 9
                       /\ StepOrder[i] = "sealed" <=> i = 10
                       /\ StepOrder[i] = "final.json" <=> i = 13
  BY <1>1, <1>2
<1>4. \A r \in Reports : \E i \in 1..14 : StepOrder[i] = r
  BY <1>1 DEF Reports, ToSet
<1>. QED  BY <1>1, <1>3, <1>4 DEF Reports

\* A run that ends takes nothing with it.
LEMMA EndKeeps ==
  ASSUME NEW s \in Studies, ResearchInv, Ends(s),
         UNCHANGED <<corpus, audit, experiment, reproduction, output, sealedOpened>>
  PROVE  ResearchInv'
<1>1. \A t \in Studies : /\ study'[t] = IF t = s THEN [study[s] EXCEPT !.at = "ended"] ELSE study[t]
  BY DEF Ends, Goes, ResearchInv, ResearchTypes
<1>2. \A t \in Studies :
        /\ study'[t].at \in {study[t].at, "ended"}
        /\ study'[t].out = study[t].out /\ study'[t].hashed = study[t].hashed
        /\ study'[t].data = study[t].data /\ study'[t].gate = study[t].gate
        /\ study'[t].step = study[t].step
  BY <1>1 DEF ResearchInv, ResearchTypes, StudyStates
<1>3. ResearchTypes'
  BY <1>1 DEF Ends, Goes, ResearchInv, ResearchTypes, StudyStates
<1>4. RunsOK'
  BY <1>2 DEF ResearchInv, RunsOK, AuditOK, ExperimentOK, ReproduceOK, CycleOK, At, Owns, SignedExperiment
<1>5. Alone' /\ LocksAgree'
  BY <1>2 DEF ResearchInv, Alone, Owns, At, LocksAgree, SignedExperiment
<1>6. OpeningsOK'
  BY <1>2 DEF ResearchInv, ResearchTypes, OpeningsOK, OpeningOK, At
<1>7. SealedIsOpenedOnce' /\ FinalReportIsLast'
  BY DEF ResearchInv, SealedIsOpenedOnce, FinalReportIsLast
<1>. QED  BY <1>3, <1>4, <1>5, <1>6, <1>7 DEF ResearchInv

(* Steps of the audit script.                                              *)
LEMMA AuditStep ==
  ASSUME NEW s \in Studies, ResearchInv, AuditLoad(s) \/ AuditWrite(s)
  PROVE  ResearchInv'
<1>1. CASE AuditLoad(s)
  <2>1. /\ \A t \in Studies : t # s => study'[t] = study[t]
        /\ study'[s] = [study[s] EXCEPT !.at = "loaded", !.data = corpus]
        /\ UNCHANGED <<corpus, audit, experiment, reproduction, output, sealedOpened>>
        /\ At(s, "audit", "new")
    BY <1>1 DEF AuditLoad, ResearchInv, ResearchTypes
  <2>2. /\ ScriptOf[s] = "audit" /\ study'[s].at = "loaded" /\ study'[s].data \in Corpora
        /\ study[s].at = "new"
    BY <2>1 DEF At, ResearchInv, ResearchTypes, StudyStates
  <2>3. ResearchTypes'
    <3>1. study'[s] \in StudyStates /\ study' = [study EXCEPT ![s] = study'[s]]
      <4>1. study[s] \in StudyStates /\ corpus \in Corpora /\ study \in [Studies -> StudyStates]
        BY DEF ResearchInv, ResearchTypes
      <4>2. study'[s] \in StudyStates
        BY <2>1, <4>1 DEF StudyStates
      <4>. QED  BY <1>1, <2>1, <4>1, <4>2 DEF AuditLoad
    <3>. QED  BY <2>1, <3>1 DEF ResearchInv, ResearchTypes
  <2>4. RunsOK'
    <3>1. \A t \in Studies : AuditOK(t)' /\ ReproduceOK(t)'
      BY <2>1, <2>2 DEF ResearchInv, RunsOK, AuditOK, ReproduceOK, At, SignedExperiment
    <3>2. \A t \in Studies : ExperimentOK(t)'
      BY <2>1, <2>2 DEF ResearchInv, RunsOK, ExperimentOK, At
    <3>3. \A t \in Studies : CycleOK(t)'
      BY <2>1, <2>2 DEF ResearchInv, RunsOK, CycleOK, At, Owns
    <3>. QED  BY <3>1, <3>2, <3>3 DEF RunsOK
  <2>5. Alone' /\ LocksAgree'
    BY <2>1, <2>2 DEF ResearchInv, Alone, Owns, At, LocksAgree, SignedExperiment
  <2>6. OpeningsOK'
    BY <2>1, <2>2 DEF ResearchInv, ResearchTypes, OpeningsOK, OpeningOK, At
  <2>7. SealedIsOpenedOnce' /\ FinalReportIsLast'
    BY <2>1 DEF ResearchInv, SealedIsOpenedOnce, FinalReportIsLast
  <2>. QED  BY <2>3, <2>4, <2>5, <2>6, <2>7 DEF ResearchInv
<1>2. CASE AuditWrite(s) /\ audit # NotRun
  BY <1>2, EndKeeps DEF AuditWrite
<1>3. CASE AuditWrite(s) /\ audit = NotRun
  <2>1. /\ \A t \in Studies : t # s => study'[t] = study[t]
        /\ study'[s] = [study[s] EXCEPT !.at = "ended"]
        /\ UNCHANGED <<corpus, experiment, reproduction, output, sealedOpened>>
        /\ At(s, "audit", "loaded")
        /\ audit' = [corpus |-> corpus, partition |-> PartitionOf[study[s].data]]
    BY <1>3 DEF AuditWrite, Ends, Goes, ResearchInv, ResearchTypes
  <2>2. ScriptOf[s] = "audit" /\ study'[s].at = "ended" /\ study[s].data \in Corpora /\ study[s].at = "loaded"
    BY <2>1 DEF At, ResearchInv, ResearchTypes, StudyStates, RunsOK, AuditOK
  <2>3. ResearchTypes'
    BY <1>3, <2>1, <2>2 DEF AuditWrite, Ends, Goes, ResearchInv, ResearchTypes, StudyStates, Locks
  <2>4. RunsOK'
    <3>1. \A t \in Studies : AuditOK(t)' /\ ReproduceOK(t)'
      BY <2>1, <2>2 DEF ResearchInv, RunsOK, AuditOK, ReproduceOK, At, SignedExperiment
    <3>2. \A t \in Studies : ExperimentOK(t)'
      BY <1>3, <2>1, <2>2 DEF ResearchInv, RunsOK, ExperimentOK, At
    <3>3. \A t \in Studies : CycleOK(t)'
      BY <2>1, <2>2 DEF ResearchInv, RunsOK, CycleOK, At, Owns
    <3>. QED  BY <3>1, <3>2, <3>3 DEF RunsOK
  <2>5. Alone' /\ LocksAgree'
    BY <2>1, <2>2 DEF ResearchInv, Alone, Owns, At, LocksAgree, SignedExperiment
  <2>6. OpeningsOK'
    BY <1>3, <2>1, <2>2 DEF ResearchInv, ResearchTypes, OpeningsOK, OpeningOK, At
  <2>7. SealedIsOpenedOnce' /\ FinalReportIsLast'
    BY <2>1 DEF ResearchInv, SealedIsOpenedOnce, FinalReportIsLast
  <2>. QED  BY <2>3, <2>4, <2>5, <2>6, <2>7 DEF ResearchInv
<1>. QED  BY <1>1, <1>2, <1>3

(* The experiment up to its search,                                        *)
LEMMA ExperimentSearch ==
  ASSUME NEW s \in Studies, ResearchInv, ExperimentStart(s) \/ ExperimentGate(s)
  PROVE  ResearchInv'
<1>1. CASE Ends(s) /\ UNCHANGED <<corpus, audit, experiment, reproduction, output, sealedOpened>>
  BY <1>1, EndKeeps
<1>2. CASE ~(Ends(s) /\ UNCHANGED <<corpus, audit, experiment, reproduction, output, sealedOpened>>)
  <2>1. /\ UNCHANGED <<corpus, audit, experiment, reproduction, output, sealedOpened>>
        /\ ScriptOf[s] = "experiment" /\ study[s].at \in {"new", "hashed"}
    BY <1>2 DEF ExperimentStart, ExperimentGate, At
  <2>2. /\ study'[s] \in StudyStates
        /\ study' = [study EXCEPT ![s] = study'[s]]
        /\ \/ study'[s].at = "hashed" /\ audit # NotRun /\ study'[s].hashed = corpus
           \/ /\ study'[s].at = "gated" /\ study'[s].data = corpus
              /\ study[s].at = "hashed" /\ study'[s].hashed = study[s].hashed
              /\ audit.partition = PartitionOf[corpus]
    BY <1>2, <2>1 DEF ExperimentStart, ExperimentGate, At, ResearchInv, ResearchTypes, StudyStates
  <2>3. \A t \in Studies : t # s => study'[t] = study[t]
    BY <2>2 DEF ResearchInv, ResearchTypes
  <2>4. ResearchTypes'
    BY <2>1, <2>2 DEF ResearchInv, ResearchTypes
  <2>5. \A t \in Studies : AuditOK(t)' /\ ReproduceOK(t)' /\ CycleOK(t)'
    BY <2>1, <2>2, <2>3 DEF ResearchInv, RunsOK, AuditOK, ReproduceOK, CycleOK, At, Owns, SignedExperiment
  <2>6. \A t \in Studies : ExperimentOK(t)'
    BY <2>1, <2>2, <2>3 DEF ResearchInv, ResearchTypes, RunsOK, ExperimentOK, At
  <2>7. Alone' /\ LocksAgree'
    BY <2>1, <2>2, <2>3 DEF ResearchInv, Alone, Owns, At, LocksAgree, SignedExperiment
  <2>8. OpeningsOK'
    BY <2>1, <2>2, <2>3 DEF ResearchInv, ResearchTypes, OpeningsOK, OpeningOK, At
  <2>9. SealedIsOpenedOnce' /\ FinalReportIsLast'
    BY <2>1 DEF ResearchInv, SealedIsOpenedOnce, FinalReportIsLast
  <2>. QED  BY <2>4, <2>5, <2>6, <2>7, <2>8, <2>9 DEF ResearchInv, RunsOK
<1>. QED  BY <1>1, <1>2

(* as it makes its directory,                                              *)
LEMMA ExperimentWrites ==
  ASSUME NEW s \in Studies, ResearchInv, ExperimentWrite(s)
  PROVE  ResearchInv'
<1>1. CASE experiment # NotRun
  BY <1>1, EndKeeps DEF ExperimentWrite
<1>2. CASE experiment = NotRun
  <2>1. /\ UNCHANGED <<corpus, audit, reproduction, output>>
        /\ ScriptOf[s] = "experiment" /\ study[s].at = "gated"
        /\ experiment' = [by |-> s, data |-> study[s].data, signed |-> NotRun]
        /\ study' = [study EXCEPT ![s].at = "written"]
        /\ \A a \in sealedOpened' : a \notin sealedOpened => a = [by |-> s, out |-> "experiment"]
        /\ sealedOpened \subseteq sealedOpened'
    BY <1>2 DEF ExperimentWrite, At, Goes
  <2>2. /\ study[s].data \in Corpora /\ study[s].hashed \in Corpora /\ audit # NotRun
        /\ PartitionOf[study[s].data] = audit.partition
    BY <2>1 DEF ResearchInv, RunsOK, ExperimentOK, At
  <2>3. /\ experiment' \in Experiments /\ experiment' # NotRun
        /\ experiment'.by = s /\ experiment'.signed = NotRun
    BY <2>1, <2>2, FilesAssumption DEF Experiments
  <2>4. /\ \A t \in Studies : t # s => study'[t] = study[t]
        /\ study'[s].at = "written" /\ study'[s].data = study[s].data
        /\ study'[s].hashed = study[s].hashed /\ study'[s] \in StudyStates
    BY <2>1 DEF ResearchInv, ResearchTypes, StudyStates
  <2>5. ResearchTypes'
    BY <2>1, <2>3, <2>4 DEF ResearchInv, ResearchTypes
  <2>6. \A t \in Studies : AuditOK(t)' /\ ReproduceOK(t)'
    BY <1>2, <2>1, <2>3, <2>4 DEF ResearchInv, RunsOK, AuditOK, ReproduceOK, At, SignedExperiment
  <2>7. \A t \in Studies : ExperimentOK(t)'
    BY <1>2, <2>1, <2>2, <2>3, <2>4 DEF ResearchInv, ResearchTypes, RunsOK, ExperimentOK, At
  <2>8. \A t \in Studies : CycleOK(t)'
    BY <2>1, <2>4, FilesAssumption DEF ResearchInv, RunsOK, CycleOK, At, Owns
  <2>9. Alone' /\ LocksAgree'
    BY <1>2, <2>1, <2>4 DEF ResearchInv, Alone, Owns, At, LocksAgree, SignedExperiment
  <2>10. OpeningsOK'
    <3>1. ASSUME NEW a \in sealedOpened  PROVE OpeningOK(a)'
      BY <1>2, <2>1, <2>3, <2>4 DEF ResearchInv, ResearchTypes, OpeningsOK, OpeningOK, At
    <3>2. OpeningOK([by |-> s, out |-> "experiment"])'
      BY <2>1, <2>2, <2>3, <2>4, FilesAssumption DEF OpeningOK, At
    <3>. QED  BY <2>1, <3>1, <3>2 DEF OpeningsOK
  <2>11. SealedIsOpenedOnce'
    BY <1>2, <2>1 DEF ResearchInv, SealedIsOpenedOnce, OpeningsOK, OpeningOK
  <2>12. FinalReportIsLast'
    BY <2>1 DEF ResearchInv, FinalReportIsLast
  <2>. QED  BY <2>5, <2>6, <2>7, <2>8, <2>9, <2>10, <2>11, <2>12 DEF ResearchInv, RunsOK
<1>. QED  BY <1>1, <1>2

(* and as it signs what it found.                                          *)
LEMMA ExperimentIsSigned ==
  ASSUME NEW s \in Studies, ResearchInv, ExperimentFreeze(s)
  PROVE  ResearchInv'
<1>1. /\ UNCHANGED <<corpus, audit, reproduction, output, sealedOpened>>
      /\ ScriptOf[s] = "experiment" /\ study[s].at = "written"
      /\ study' = [study EXCEPT ![s].at = "ended"]
      /\ experiment' = [experiment EXCEPT
           !.signed = [corpus |-> study[s].hashed, partition |-> PartitionOf[study[s].data]]]
  BY DEF ExperimentFreeze, At, Ends, Goes
<1>2. /\ experiment \in Experiments /\ experiment.by = s /\ experiment.signed = NotRun
      /\ study[s].data \in Corpora /\ study[s].hashed \in Corpora
  BY <1>1 DEF ResearchInv, ResearchTypes, RunsOK, ExperimentOK, At
<1>3. experiment' \in Experiments /\ experiment'.by = s
  BY <1>1, <1>2 DEF Experiments, Locks
<1>4. /\ \A t \in Studies : t # s => study'[t] = study[t]
      /\ study'[s].at = "ended" /\ study'[s].data = study[s].data /\ study'[s] \in StudyStates
  BY <1>1 DEF ResearchInv, ResearchTypes, StudyStates
<1>5. ~SignedExperiment /\ reproduction = NotRun
  BY <1>2 DEF ResearchInv, LocksAgree, SignedExperiment
<1>6. ResearchTypes'
  BY <1>1, <1>3, <1>4 DEF ResearchInv, ResearchTypes
<1>7. \A t \in Studies : AuditOK(t)' /\ ReproduceOK(t)'
  BY <1>1, <1>4, <1>5 DEF ResearchInv, RunsOK, AuditOK, ReproduceOK, At
<1>8. \A t \in Studies : ExperimentOK(t)'
  BY <1>1, <1>2, <1>4 DEF ResearchInv, ResearchTypes, RunsOK, ExperimentOK, At
<1>9. \A t \in Studies : CycleOK(t)'
  BY <1>1, <1>4 DEF ResearchInv, RunsOK, CycleOK, At, Owns
<1>10. Alone' /\ LocksAgree'
  BY <1>1, <1>4, <1>5 DEF ResearchInv, Alone, Owns, At, LocksAgree
<1>11. OpeningsOK'
  BY <1>1, <1>2, <1>3, <1>4, FilesAssumption DEF ResearchInv, ResearchTypes, OpeningsOK, OpeningOK, At
<1>12. SealedIsOpenedOnce' /\ FinalReportIsLast'
  BY <1>1 DEF ResearchInv, SealedIsOpenedOnce, FinalReportIsLast
<1>. QED  BY <1>6, <1>7, <1>8, <1>9, <1>10, <1>11, <1>12 DEF ResearchInv, RunsOK

(* The reproduction up to its comparison,                                  *)
LEMMA ReproduceStep ==
  ASSUME NEW s \in Studies, ResearchInv, ReproduceStart(s) \/ ReproduceGate(s)
  PROVE  ResearchInv'
<1>1. CASE Ends(s) /\ UNCHANGED <<corpus, audit, experiment, reproduction, output, sealedOpened>>
  BY <1>1, EndKeeps
<1>2. CASE ~(Ends(s) /\ UNCHANGED <<corpus, audit, experiment, reproduction, output, sealedOpened>>)
  <2>1. /\ UNCHANGED <<corpus, audit, experiment, reproduction, output, sealedOpened>>
        /\ ScriptOf[s] = "reproduce" /\ study[s].at \in {"new", "hashed"}
    BY <1>2 DEF ReproduceStart, ReproduceGate, At
  <2>2. study[s].at = "hashed" => SignedExperiment
    BY <2>1 DEF ResearchInv, RunsOK, ReproduceOK, At
  <2>3. /\ study'[s] \in StudyStates
        /\ study' = [study EXCEPT ![s] = study'[s]] /\ SignedExperiment
        /\ \/ study'[s].at = "hashed"
           \/ /\ study'[s].at = "matched" /\ study'[s].data = corpus
              /\ experiment.signed.partition = PartitionOf[corpus]
    BY <1>2, <2>1, <2>2 DEF ReproduceStart, ReproduceGate, At, Goes, ResearchInv, ResearchTypes, StudyStates, SignedExperiment
  <2>4. \A t \in Studies : t # s => study'[t] = study[t]
    BY <2>3 DEF ResearchInv, ResearchTypes
  <2>5. ResearchTypes'
    BY <2>1, <2>3 DEF ResearchInv, ResearchTypes
  <2>6. \A t \in Studies : AuditOK(t)' /\ ExperimentOK(t)' /\ CycleOK(t)'
    BY <2>1, <2>3, <2>4 DEF ResearchInv, RunsOK, AuditOK, ExperimentOK, CycleOK, At, Owns
  <2>7. \A t \in Studies : ReproduceOK(t)'
    BY <2>1, <2>3, <2>4 DEF ResearchInv, ResearchTypes, RunsOK, ReproduceOK, At, SignedExperiment
  <2>8. Alone' /\ LocksAgree'
    BY <2>1, <2>3, <2>4 DEF ResearchInv, Alone, Owns, At, LocksAgree, SignedExperiment
  <2>9. OpeningsOK'
    BY <2>1, <2>3, <2>4 DEF ResearchInv, ResearchTypes, OpeningsOK, OpeningOK, At
  <2>10. SealedIsOpenedOnce' /\ FinalReportIsLast'
    BY <2>1 DEF ResearchInv, SealedIsOpenedOnce, FinalReportIsLast
  <2>. QED  BY <2>5, <2>6, <2>7, <2>8, <2>9, <2>10 DEF ResearchInv, RunsOK
<1>. QED  BY <1>1, <1>2

(* and as it reports that the experiment was reproduced.                   *)
LEMMA ReproductionIsWritten ==
  ASSUME NEW s \in Studies, ResearchInv, ReproduceWrite(s)
  PROVE  ResearchInv'
<1>1. CASE reproduction # NotRun
  BY <1>1, EndKeeps DEF ReproduceWrite
<1>2. CASE reproduction = NotRun
  <2>1. /\ UNCHANGED <<corpus, audit, experiment, output, sealedOpened>>
        /\ ScriptOf[s] = "reproduce" /\ study[s].at = "matched"
        /\ study' = [study EXCEPT ![s].at = "ended"]
        /\ reproduction' = [corpus |-> corpus, partition |-> PartitionOf[study[s].data]]
    BY <1>2 DEF ReproduceWrite, At, Ends, Goes
  <2>2. /\ SignedExperiment /\ study[s].data \in Corpora
        /\ PartitionOf[study[s].data] = experiment.signed.partition
    BY <2>1 DEF ResearchInv, RunsOK, ReproduceOK, At
  <2>3. reproduction' \in Locks /\ reproduction'.partition = experiment.signed.partition
    BY <2>1, <2>2 DEF ResearchInv, ResearchTypes, Locks
  <2>4. /\ \A t \in Studies : t # s => study'[t] = study[t]
        /\ study'[s].at = "ended" /\ study'[s].data = study[s].data /\ study'[s] \in StudyStates
    BY <2>1 DEF ResearchInv, ResearchTypes, StudyStates
  <2>5. ResearchTypes'
    BY <2>1, <2>3, <2>4 DEF ResearchInv, ResearchTypes
  <2>6. \A t \in Studies : AuditOK(t)' /\ ExperimentOK(t)' /\ ReproduceOK(t)'
    BY <2>1, <2>4 DEF ResearchInv, RunsOK, AuditOK, ExperimentOK, ReproduceOK, At, SignedExperiment
  <2>7. \A t \in Studies : CycleOK(t)'
    BY <1>2, <2>1, <2>4, SMTT(20) DEF ResearchInv, RunsOK, CycleOK, At, Owns
  <2>8. Alone' /\ LocksAgree'
    BY <2>1, <2>2, <2>3, <2>4 DEF ResearchInv, Alone, Owns, At, LocksAgree, SignedExperiment
  <2>9. OpeningsOK'
    BY <1>2, <2>1, <2>4 DEF ResearchInv, ResearchTypes, OpeningsOK, OpeningOK, At
  <2>10. SealedIsOpenedOnce' /\ FinalReportIsLast'
    BY <2>1 DEF ResearchInv, SealedIsOpenedOnce, FinalReportIsLast
  <2>. QED  BY <2>5, <2>6, <2>7, <2>8, <2>9, <2>10 DEF ResearchInv, RunsOK
<1>. QED  BY <1>1, <1>2

(* A final cycle up to its partition check,                                *)
LEMMA CycleChecks ==
  ASSUME NEW s \in Studies, ResearchInv, CycleStart(s)
  PROVE  ResearchInv'
<1>1. CASE Ends(s)
  BY <1>1, EndKeeps DEF CycleStart
<1>2. CASE ~Ends(s)
  <2>1. PICK o \in CycleOutputs :
          /\ study' = [study EXCEPT ![s].at = "checked", ![s].out = o]
          /\ reproduction # NotRun
    BY <1>2 DEF CycleStart
  <2>2. /\ UNCHANGED <<corpus, audit, experiment, reproduction, output, sealedOpened>>
        /\ ScriptOf[s] = "cycle" /\ study[s].at = "new"
    BY DEF CycleStart, At
  <2>3. /\ \A t \in Studies : t # s => study'[t] = study[t]
        /\ study'[s].at = "checked" /\ study'[s].out = o /\ study'[s] \in StudyStates
        /\ study'[s].step = study[s].step /\ study[s].step = 1
    <3>1. study[s].step = 1
      BY <2>2 DEF ResearchInv, RunsOK, CycleOK, At
    <3>2. study \in [Studies -> StudyStates]
      BY DEF ResearchInv, ResearchTypes
    <3>. QED  BY <2>1, <3>1, <3>2, ZenonT(60) DEF StudyStates
  <2>4. ResearchTypes'
    BY <2>1, <2>2, <2>3 DEF ResearchInv, ResearchTypes
  <2>5. \A t \in Studies : AuditOK(t)' /\ ExperimentOK(t)' /\ ReproduceOK(t)'
    BY <2>2, <2>3 DEF ResearchInv, RunsOK, AuditOK, ExperimentOK, ReproduceOK, At, SignedExperiment
  <2>6. \A t \in Studies : CycleOK(t)'
    <3>1. CycleOK(s)'
      BY <2>1, <2>2, <2>3 DEF CycleOK, At, Owns
    <3>2. ASSUME NEW t \in Studies, t # s  PROVE CycleOK(t)'
      BY <2>2, <2>3, <3>2 DEF ResearchInv, RunsOK, CycleOK, At, Owns
    <3>. QED  BY <3>1, <3>2
  <2>7. Alone' /\ LocksAgree'
    BY <2>2, <2>3 DEF ResearchInv, Alone, Owns, At, LocksAgree, SignedExperiment
  <2>8. OpeningsOK'
    BY <2>2, <2>3 DEF ResearchInv, ResearchTypes, OpeningsOK, OpeningOK, At
  <2>9. SealedIsOpenedOnce' /\ FinalReportIsLast'
    BY <2>2 DEF ResearchInv, SealedIsOpenedOnce, FinalReportIsLast
  <2>. QED  BY <2>4, <2>5, <2>6, <2>7, <2>8, <2>9 DEF ResearchInv, RunsOK
<1>. QED  BY <1>1, <1>2

(* as it claims its directory,                                             *)
LEMMA CycleClaims ==
  ASSUME NEW s \in Studies, ResearchInv, CycleClaim(s)
  PROVE  ResearchInv'
<1>1. PICK o \in CycleOutputs : o = study[s].out
  BY DEF CycleClaim, ResearchInv, RunsOK, CycleOK
<1>2. /\ UNCHANGED <<corpus, audit, experiment, reproduction, sealedOpened>>
      /\ ScriptOf[s] = "cycle" /\ study[s].at = "checked"
      /\ output[o] = NotRun /\ output' = [output EXCEPT ![o] = NewOutput]
      /\ study' = [study EXCEPT ![s].at = "claimed"]
  BY <1>1 DEF CycleClaim, MakesOutput, At, Goes
<1>3. /\ NewOutput \in Outputs /\ NewOutput # NotRun /\ NewOutput.reports = {}
  <2>1. {} \in SUBSET Reports /\ NotRun \in {NotRun} \cup FrozenCandidates /\ FALSE \in BOOLEAN
    OBVIOUS
  <2>2. NewOutput \in Outputs
    BY <2>1 DEF NewOutput, Outputs
  <2>. QED  BY <2>2, FilesAssumption DEF NewOutput
<1>4. /\ \A t \in Studies : t # s => study'[t] = study[t]
      /\ study'[s].at = "claimed" /\ study'[s].out = o /\ study'[s] \in StudyStates
      /\ study'[s].step = 1 /\ reproduction # NotRun
      /\ \A p \in CycleOutputs : output'[p] = IF p = o THEN NewOutput ELSE output[p]
  BY <1>1, <1>2 DEF ResearchInv, ResearchTypes, StudyStates, RunsOK, CycleOK, At
<1>5. /\ \A t \in Studies : Owns(t) => study[t].out \in CycleOutputs /\ study[t].out # o
      /\ \A a \in sealedOpened : a.out # o
  BY <1>2 DEF ResearchInv, RunsOK, CycleOK, OpeningsOK, OpeningOK
<1>6. ResearchTypes'
  BY <1>2, <1>3, <1>4 DEF ResearchInv, ResearchTypes
<1>7. \A t \in Studies : AuditOK(t)' /\ ExperimentOK(t)' /\ ReproduceOK(t)'
  BY <1>2, <1>4 DEF ResearchInv, RunsOK, AuditOK, ExperimentOK, ReproduceOK, At, SignedExperiment
<1>8. \A t \in Studies : CycleOK(t)'
  <2>1. CycleOK(s)'
    BY <1>2, <1>3, <1>4, <1>5 DEF CycleOK, At, Owns
  <2>2. ASSUME NEW t \in Studies, t # s  PROVE CycleOK(t)'
    BY <1>2, <1>4, <1>5, <2>2, SMTT(20) DEF ResearchInv, RunsOK, CycleOK, At, Owns
  <2>. QED  BY <2>1, <2>2
<1>9. Alone' /\ LocksAgree'
  BY <1>2, <1>4, <1>5 DEF ResearchInv, Alone, Owns, At, LocksAgree, SignedExperiment
<1>10. OpeningsOK'
  BY <1>2, <1>4, <1>5 DEF ResearchInv, ResearchTypes, OpeningsOK, OpeningOK, At
<1>11. SealedIsOpenedOnce'
  BY <1>2 DEF ResearchInv, SealedIsOpenedOnce
<1>12. FinalReportIsLast'
  BY <1>2, <1>3, <1>4 DEF ResearchInv, FinalReportIsLast
<1>. QED  BY <1>6, <1>7, <1>8, <1>9, <1>10, <1>11, <1>12 DEF ResearchInv, RunsOK

(* as it loads the rows of the partition,                                  *)
LEMMA CycleLoadsRows ==
  ASSUME NEW s \in Studies, ResearchInv, CycleLoad(s)
  PROVE  ResearchInv'
<1>1. CASE Ends(s)
  BY <1>1, EndKeeps DEF CycleLoad
<1>2. CASE ~Ends(s)
  <2>1. PICK passed \in BOOLEAN :
          study' = [study EXCEPT ![s].at = "running", ![s].data = corpus, ![s].gate = passed]
    BY <1>2 DEF CycleLoad
  <2>2. /\ UNCHANGED <<corpus, audit, experiment, reproduction, output, sealedOpened>>
        /\ ScriptOf[s] = "cycle" /\ study[s].at = "claimed"
        /\ PartitionOf[corpus] = reproduction.partition
    BY <1>2 DEF CycleLoad, At, LockedPartition
  <2>3. study \in [Studies -> StudyStates] /\ study[s].step = 1 /\ corpus \in Corpora
    BY <2>2 DEF ResearchInv, ResearchTypes, RunsOK, CycleOK, At
  <2>4. /\ \A t \in Studies : t # s => study'[t] = study[t]
        /\ study'[s].at = "running" /\ study'[s].out = study[s].out
        /\ study'[s].data = corpus /\ study'[s].step = 1
        /\ study'[s] \in StudyStates
    BY <2>1, <2>3, ZenonT(60) DEF StudyStates
  <2>5. ResearchTypes'
    BY <2>1, <2>2, <2>4 DEF ResearchInv, ResearchTypes
  <2>6. \A t \in Studies : AuditOK(t)' /\ ExperimentOK(t)' /\ ReproduceOK(t)'
    BY <2>2, <2>4 DEF ResearchInv, RunsOK, AuditOK, ExperimentOK, ReproduceOK, At, SignedExperiment
  <2>7. \A t \in Studies : CycleOK(t)'
    <3>1. CycleOK(s)
      BY DEF ResearchInv, RunsOK
    <3>2. CycleOK(s)'
      BY <2>2, <2>3, <2>4, <3>1 DEF CycleOK, At, Owns
    <3>3. ASSUME NEW t \in Studies, t # s  PROVE CycleOK(t)'
      BY <2>2, <2>4, <3>3 DEF ResearchInv, RunsOK, CycleOK, At, Owns
    <3>. QED  BY <3>2, <3>3
  <2>8. Alone' /\ LocksAgree'
    BY <2>2, <2>4 DEF ResearchInv, Alone, Owns, At, LocksAgree, SignedExperiment
  <2>9. OpeningsOK'
    BY <2>2, <2>4 DEF ResearchInv, ResearchTypes, OpeningsOK, OpeningOK, At
  <2>10. SealedIsOpenedOnce' /\ FinalReportIsLast'
    BY <2>2 DEF ResearchInv, SealedIsOpenedOnce, FinalReportIsLast
  <2>. QED  BY <2>5, <2>6, <2>7, <2>8, <2>9, <2>10 DEF ResearchInv, RunsOK
<1>. QED  BY <1>1, <1>2

\* A running cycle goes to its next step or ends after the last one.
LEMMA AdvanceFacts ==
  ASSUME NEW s \in Studies, ResearchInv, At(s, "cycle", "running")
  PROVE  /\ Advance(s) \in StudyStates
         /\ Advance(s).out = study[s].out /\ Advance(s).data = study[s].data
         /\ Advance(s).gate = study[s].gate
         /\ \/ Advance(s).at = "ended"
            \/ Advance(s).at = "running" /\ Advance(s).step = study[s].step + 1
<1>1. study[s] \in StudyStates /\ study[s].step \in 1..14 /\ study[s].at = "running"
  BY DEF ResearchInv, ResearchTypes, StudyStates, At
<1>2. CASE study[s].step = 14
  BY <1>1, <1>2, StepFacts DEF Advance, StudyStates
<1>3. CASE study[s].step # 14
  BY <1>1, <1>3, StepFacts DEF Advance, StudyStates
<1>. QED  BY <1>2, <1>3

\* The steps of a running cycle that leave the reports and the candidate alone:
\* the skipped ones and the loading test.
LEMMA CycleMoves ==
  ASSUME NEW s \in Studies, ResearchInv, CycleSkip(s) \/ CycleLoads(s)
  PROVE  ResearchInv'
<1>1. /\ UNCHANGED <<corpus, audit, experiment, reproduction, output, sealedOpened>>
      /\ ScriptOf[s] = "cycle" /\ study[s].at = "running"
      /\ study[s].gate => study[s].step = 9
      /\ StepOrder[study[s].step] \in Guarded
  <2>1. study[s].step \in 1..14
    BY DEF ResearchInv, ResearchTypes, StudyStates
  <2>. QED  BY <2>1, StepFacts DEF CycleSkip, CycleLoads, Working, At, StepAt, Guarded
<1>2. At(s, "cycle", "running")
  BY <1>1 DEF At
<1>3. /\ \A t \in Studies : t # s => study'[t] = study[t]
      /\ study'[s].out = study[s].out /\ study'[s].data = study[s].data
      /\ study'[s].gate = study[s].gate /\ study'[s] \in StudyStates
      /\ study' = [study EXCEPT ![s] = study'[s]]
      /\ \/ study'[s].at = "ended"
         \/ study'[s].at = "running" /\ study'[s].step = study[s].step + 1
  BY <1>2, AdvanceFacts DEF CycleSkip, CycleLoads, ResearchInv, ResearchTypes, StudyStates
<1>4. ResearchTypes'
  BY <1>1, <1>3 DEF ResearchInv, ResearchTypes
<1>5. \A t \in Studies : AuditOK(t)' /\ ExperimentOK(t)' /\ ReproduceOK(t)'
  BY <1>1, <1>3 DEF ResearchInv, RunsOK, AuditOK, ExperimentOK, ReproduceOK, At, SignedExperiment
<1>6. \A t \in Studies : CycleOK(t)'
  <2>1. CycleOK(s) /\ study[s].step \in 1..14 /\ study'[s].step \in 1..14
    BY <1>3 DEF ResearchInv, ResearchTypes, StudyStates, RunsOK
  <2>2. StepOrder[study[s].step] \notin Reports
    BY <1>1, StepFacts
  <2>3. CycleOK(s)'
    BY <1>1, <1>3, <2>1, <2>2 DEF CycleOK, At, Owns
  <2>4. ASSUME NEW t \in Studies, t # s  PROVE CycleOK(t)'
    BY <1>1, <1>3, <2>4 DEF ResearchInv, RunsOK, CycleOK, At, Owns
  <2>. QED  BY <2>3, <2>4
<1>7. Alone' /\ LocksAgree'
  BY <1>1, <1>3 DEF ResearchInv, Alone, Owns, At, LocksAgree, SignedExperiment
<1>8. OpeningsOK'
  BY <1>1, <1>3 DEF ResearchInv, ResearchTypes, OpeningsOK, OpeningOK, At
<1>9. SealedIsOpenedOnce' /\ FinalReportIsLast'
  BY <1>1 DEF ResearchInv, SealedIsOpenedOnce, FinalReportIsLast
<1>. QED  BY <1>4, <1>5, <1>6, <1>7, <1>8, <1>9 DEF ResearchInv, RunsOK

(* as it writes one of its reports,                                        *)
LEMMA CycleReports ==
  ASSUME NEW s \in Studies, ResearchInv, CycleReport(s)
  PROVE  ResearchInv'
<1>1. PICK report \in Reports :
        /\ Working(s, report)
        /\ output' = [output EXCEPT
             ![study[s].out].reports = @ \cup {report},
             ![study[s].out].validated = @ \/ (report = "final.json" /\ study[s].valid)]
        /\ study' = [study EXCEPT ![s] = Advance(s)]
        /\ UNCHANGED <<corpus, replaced, audit, experiment, reproduction, sealedOpened>>
  BY DEF CycleReport
<1>2. /\ At(s, "cycle", "running") /\ StepOrder[study[s].step] = report
      /\ UNCHANGED <<audit, experiment, reproduction, sealedOpened>>
  BY <1>1 DEF Working, StepAt
<1>3. PICK o \in CycleOutputs, n \in 1..14 :
        o = study[s].out /\ n = study[s].step /\ StepOrder[n] = report
  BY <1>2 DEF ResearchInv, RunsOK, CycleOK, Owns
<1>4. output[o] \in Outputs /\ output[o] # NotRun /\ CycleOK(s)
  BY <1>2, <1>3 DEF ResearchInv, ResearchTypes, RunsOK, CycleOK, Owns
<1>5. /\ \A t \in Studies : t # s => study'[t] = study[t]
      /\ study'[s].out = o /\ study'[s].data = study[s].data
      /\ study'[s].gate = study[s].gate /\ study'[s] \in StudyStates
      /\ study' = [study EXCEPT ![s] = study'[s]]
      /\ \/ study'[s].at = "ended"
         \/ study'[s].at = "running" /\ study'[s].step = n + 1
  BY <1>1, <1>2, <1>3, AdvanceFacts DEF ResearchInv, ResearchTypes
<1>6. /\ \A p \in CycleOutputs : p # o => output'[p] = output[p]
      /\ output'[o].reports = output[o].reports \cup {report}
      /\ output'[o].candidate = output[o].candidate
      /\ output'[o] \in Outputs /\ output' \in [CycleOutputs -> Outputs \cup {NotRun}]
  <2>1. output \in [CycleOutputs -> Outputs \cup {NotRun}] /\ study[s].valid \in BOOLEAN
    BY DEF ResearchInv, ResearchTypes, StudyStates
  <2>2. output'[o] = [output[o] EXCEPT !.reports = @ \cup {report},
                        !.validated = @ \/ (report = "final.json" /\ study[s].valid)]
    BY <1>1, <1>3, <2>1
  <2>3. output[o].reports \cup {report} \in SUBSET Reports
    BY <1>4 DEF Outputs
  <2>4. /\ output'[o].reports = output[o].reports \cup {report}
        /\ output'[o].candidate = output[o].candidate /\ output'[o] \in Outputs
    BY <1>4, <2>1, <2>2, <2>3 DEF Outputs
  <2>. QED  BY <1>1, <1>3, <2>1, <2>4
<1>7. output'[o] # NotRun
  BY <1>6, FilesAssumption
<1>8. ResearchTypes'
  BY <1>1, <1>5, <1>6 DEF ResearchInv, ResearchTypes
<1>9. \A t \in Studies : AuditOK(t)' /\ ExperimentOK(t)' /\ ReproduceOK(t)'
  BY <1>1, <1>2, <1>5 DEF ResearchInv, RunsOK, AuditOK, ExperimentOK, ReproduceOK, At, SignedExperiment
<1>10. \A t \in Studies : CycleOK(t)'
  <2>1. n # 8 /\ n # 9 /\ n # 10 /\ study'[s].step \in 1..14
    BY <1>2, <1>3, <1>5, StepFacts DEF Guarded, StudyStates
  <2>2. CycleOK(s)'
    <3>1. Owns(s) /\ study[s].at = "running" /\ ScriptOf[s] = "cycle"
      BY <1>2 DEF Owns, At
    <3>2. \A i \in 1..14 : i < n + 1 /\ StepOrder[i] \in Reports => StepOrder[i] \in output'[o].reports
      <4>1. \A i \in 1..14 : i < n /\ StepOrder[i] \in Reports => StepOrder[i] \in output[o].reports
        BY <1>3, <1>4, <3>1 DEF CycleOK
      <4>2. \A i \in 1..14 : i < n + 1 => i < n \/ i = n
        OBVIOUS
      <4>. QED  BY <1>3, <1>6, <4>1, <4>2
    <3>3. n + 1 <= 10 => \A a \in sealedOpened : a.out # o
      <4>1. n <= 10 => \A a \in sealedOpened : a.out # o
        BY <1>3, <1>4, <3>1 DEF CycleOK
      <4>. QED  BY <4>1
    <3>4. /\ study[s].data \in Corpora /\ PartitionOf[study[s].data] = reproduction.partition
          /\ n > 8 /\ study[s].gate =>
               /\ output[o].candidate # NotRun
               /\ output[o].candidate.by = s /\ output[o].candidate.data = study[s].data
          /\ reproduction # NotRun
      BY <1>2, <1>3, <1>4, <3>1 DEF CycleOK
    <3>5. n + 1 > 8 => n > 8
      BY <2>1
    <3>. QED  BY <1>1, <1>5, <1>6, <1>7, <2>1, <3>1, <3>2, <3>3, <3>4, <3>5, ZenonT(60) DEF CycleOK, At, Owns
  <2>3. ASSUME NEW t \in Studies, t # s  PROVE CycleOK(t)'
    <3>1. CycleOK(t) /\ (Owns(t) => study[t].out # o)
      BY <1>2, <1>3, <2>3 DEF ResearchInv, RunsOK, Alone, Owns
    <3>2. Owns(t) => output'[study[t].out] = output[study[t].out]
      BY <1>6, <3>1 DEF CycleOK
    <3>. QED  BY <1>2, <1>5, <2>3, <3>1, <3>2 DEF CycleOK, At, Owns
  <2>. QED  BY <2>2, <2>3
<1>11. Alone' /\ LocksAgree'
  BY <1>1, <1>2, <1>3, <1>5 DEF ResearchInv, Alone, Owns, At, LocksAgree, SignedExperiment
<1>12. OpeningsOK'
  <2>1. \A p \in CycleOutputs :
          /\ output'[p].candidate = output[p].candidate
          /\ output[p] # NotRun => output'[p] # NotRun
    BY <1>6, <1>7
  <2>2. ASSUME NEW a \in sealedOpened  PROVE OpeningOK(a)'
    <3>1. OpeningOK(a) /\ a.by \in Studies
      BY DEF ResearchInv, ResearchTypes, OpeningsOK
    <3>2. /\ study'[a.by].data = study[a.by].data /\ study'[a.by].gate = study[a.by].gate
          /\ \/ study'[a.by].at = study[a.by].at
             \/ ScriptOf[a.by] = "cycle" /\ study'[a.by].at \in {"running", "ended"}
      BY <1>2, <1>5, <3>1 DEF At
    <3>3. CASE a.out = "experiment"
      BY <1>2, <3>1, <3>2, <3>3, FilesAssumption DEF OpeningOK, At
    <3>4. CASE a.out \in CycleOutputs
      <4>1. PICK p \in CycleOutputs : p = a.out
        BY <3>4
      <4>2. PICK q \in Studies : q = a.by
        BY <3>1
      <4>3. /\ ScriptOf[q] = "cycle" /\ study[q].at \in {"running", "ended"}
            /\ study[q].gate /\ output[p] # NotRun
            /\ output[p].candidate # NotRun /\ output[p].candidate.by = q
            /\ output[p].candidate.data = study[q].data
            /\ reproduction # NotRun /\ PartitionOf[study[q].data] = reproduction.partition
        BY <3>1, <3>4, <4>1, <4>2 DEF OpeningOK, At
      <4>4. /\ study'[q].at \in {"running", "ended"} /\ study'[q].gate = study[q].gate
            /\ study'[q].data = study[q].data /\ p # "experiment"
            /\ output'[p] # NotRun /\ output'[p].candidate = output[p].candidate
        <5>1. p # "experiment"
          BY FilesAssumption
        <5>2. output'[p] # NotRun /\ output'[p].candidate = output[p].candidate
          BY <2>1, <4>3
        <5>3. /\ study'[q].at \in {"running", "ended"} /\ study'[q].gate = study[q].gate
              /\ study'[q].data = study[q].data
          BY <3>2, <4>2, <4>3
        <5>. QED  BY <5>1, <5>2, <5>3
      <4>. QED  BY <1>2, <4>1, <4>2, <4>3, <4>4 DEF OpeningOK, At
    <3>. QED  BY <3>3, <3>4 DEF OpeningOK
  <2>. QED  BY <1>1, <2>2 DEF OpeningsOK
<1>13. SealedIsOpenedOnce'
  BY <1>1 DEF ResearchInv, SealedIsOpenedOnce
<1>14. FinalReportIsLast'
  <2>1. ASSUME "final.json" \in output'[o].reports
        PROVE  Reports \ output'[o].reports \subseteq {"manifest.json"}
    <3>1. CASE "final.json" \in output[o].reports
      BY <1>4, <1>6, <3>1 DEF ResearchInv, FinalReportIsLast
    <3>2. CASE "final.json" \notin output[o].reports
      <4>1. n = 13
        BY <1>3, <1>6, <2>1, <3>2, StepFacts
      <4>2. \A i \in 1..14 : i < 13 /\ StepOrder[i] \in Reports => StepOrder[i] \in output[o].reports
        BY <1>2, <1>3, <1>4, <4>1 DEF CycleOK, Owns
      <4>3. ASSUME NEW r \in Reports, r # "manifest.json"  PROVE r \in output'[o].reports
        <5>1. PICK i \in 1..14 : StepOrder[i] = r
          BY StepFacts
        <5>2. i # 14
          BY <4>3, <5>1, StepFacts
        <5>. QED  BY <1>3, <1>6, <4>1, <4>2, <5>1, <5>2
      <4>. QED  BY <4>3
    <3>. QED  BY <3>1, <3>2
  <2>. QED  BY <1>6, <2>1 DEF ResearchInv, FinalReportIsLast
<1>. QED  BY <1>8, <1>9, <1>10, <1>11, <1>12, <1>13, <1>14 DEF ResearchInv, RunsOK

(* as it freezes its candidate,                                            *)
LEMMA CycleFreezes ==
  ASSUME NEW s \in Studies, ResearchInv, CycleFreeze(s)
  PROVE  ResearchInv'
<1>1. /\ At(s, "cycle", "running") /\ StepOrder[study[s].step] = "freeze" /\ study[s].gate
      /\ output[study[s].out].candidate = NotRun
      /\ output' = [output EXCEPT ![study[s].out].candidate =
                      [by |-> s, data |-> study[s].data, corpus |-> corpus]]
      /\ study' = [study EXCEPT ![s] = Advance(s)]
      /\ UNCHANGED <<corpus, audit, experiment, reproduction, sealedOpened>>
  BY DEF CycleFreeze, Working, StepAt
<1>2. PICK o \in CycleOutputs : o = study[s].out
  BY <1>1 DEF ResearchInv, RunsOK, CycleOK, Owns
<1>3. output[o] \in Outputs /\ output[o] # NotRun /\ CycleOK(s) /\ study[s].data \in Corpora
  BY <1>1, <1>2 DEF ResearchInv, ResearchTypes, RunsOK, CycleOK, Owns
<1>4. study[s].step = 8
  BY <1>1, StepFacts DEF ResearchInv, ResearchTypes, StudyStates
<1>5. /\ \A t \in Studies : t # s => study'[t] = study[t]
      /\ study'[s].out = o /\ study'[s].data = study[s].data
      /\ study'[s].gate = study[s].gate /\ study'[s] \in StudyStates
      /\ study' = [study EXCEPT ![s] = study'[s]]
      /\ \/ study'[s].at = "ended"
         \/ study'[s].at = "running" /\ study'[s].step = 9
  <2>1. study'[s] = Advance(s) /\ \A t \in Studies : t # s => study'[t] = study[t]
    BY <1>1 DEF ResearchInv, ResearchTypes
  <2>2. 8 + 1 = 9
    OBVIOUS
  <2>. QED  BY <1>1, <1>2, <1>4, <2>1, <2>2, AdvanceFacts, ZenonT(60)
<1>6. /\ \A p \in CycleOutputs : p # o => output'[p] = output[p]
      /\ output'[o].reports = output[o].reports
      /\ output'[o].candidate # NotRun
      /\ output'[o].candidate.by = s /\ output'[o].candidate.data = study[s].data
      /\ output'[o] \in Outputs /\ output' \in [CycleOutputs -> Outputs \cup {NotRun}]
  <2>1. output \in [CycleOutputs -> Outputs \cup {NotRun}] /\ corpus \in Corpora
    BY DEF ResearchInv, ResearchTypes
  <2>2. PICK c \in FrozenCandidates : c = [by |-> s, data |-> study[s].data, corpus |-> corpus]
    BY <1>3, <2>1 DEF FrozenCandidates
  <2>3. output'[o] = [output[o] EXCEPT !.candidate = c]
    BY <1>1, <1>2, <2>1, <2>2
  <2>4. /\ output'[o].reports = output[o].reports
        /\ output'[o].candidate = c /\ output'[o] \in Outputs
    BY <1>3, <2>3 DEF Outputs
  <2>5. c # NotRun /\ c.by = s /\ c.data = study[s].data
    BY <2>2, FilesAssumption
  <2>. QED  BY <1>1, <1>2, <2>1, <2>4, <2>5
<1>7. output'[o] # NotRun
  BY <1>6, FilesAssumption
<1>8. \A a \in sealedOpened : a.out # o
  BY <1>1, <1>2, <1>3, <1>4 DEF CycleOK, Owns
<1>9. ResearchTypes'
  BY <1>1, <1>5, <1>6 DEF ResearchInv, ResearchTypes
<1>10. \A t \in Studies : AuditOK(t)' /\ ExperimentOK(t)' /\ ReproduceOK(t)'
  BY <1>1, <1>5 DEF ResearchInv, RunsOK, AuditOK, ExperimentOK, ReproduceOK, At, SignedExperiment
<1>11. \A t \in Studies : CycleOK(t)'
  <2>1. CycleOK(s)'
    <3>1. Owns(s) /\ study[s].at = "running" /\ ScriptOf[s] = "cycle"
      BY <1>1 DEF Owns, At
    <3>2. \A i \in 1..14 : i < 9 /\ StepOrder[i] \in Reports => StepOrder[i] \in output'[o].reports
      <4>1. \A i \in 1..14 : i < 8 /\ StepOrder[i] \in Reports => StepOrder[i] \in output[o].reports
        BY <1>2, <1>3, <1>4, <3>1 DEF CycleOK
      <4>2. \A i \in 1..14 : i < 9 => i < 8 \/ i = 8
        OBVIOUS
      <4>3. StepOrder[8] \notin Reports
        BY StepFacts DEF Guarded
      <4>. QED  BY <1>6, <4>1, <4>2, <4>3
    <3>3. PartitionOf[study[s].data] = reproduction.partition /\ reproduction # NotRun
      BY <1>1, <1>3, <3>1 DEF CycleOK
    <3>4. CASE study'[s].at = "ended"
      BY <3>4 DEF CycleOK, At, Owns
    <3>5. CASE study'[s].at = "running" /\ study'[s].step = 9
      <4>1. reproduction' = reproduction /\ sealedOpened' = sealedOpened
        BY <1>1
      <4>2. study'[s].out = o /\ study'[s].data = study[s].data /\ study'[s].data \in Corpora
        BY <1>3, <1>5
      <4>3. PartitionOf[study'[s].data] = reproduction'.partition
        BY <3>3, <4>1, <4>2
      <4>4. \A i \in 1..14 : i < study'[s].step /\ StepOrder[i] \in Reports
                             => StepOrder[i] \in output'[study'[s].out].reports
        BY <3>2, <3>5, <4>2
      <4>5. output'[study'[s].out] # NotRun /\ output'[study'[s].out].candidate # NotRun
        BY <1>6, <1>7, <4>2
      <4>6. /\ output'[study'[s].out].candidate.by = s
            /\ output'[study'[s].out].candidate.data = study'[s].data
        BY <1>6, <4>2
      <4>7. \A a \in sealedOpened' : a.out # study'[s].out
        BY <1>8, <4>1, <4>2
      <4>8. reproduction' # NotRun /\ study'[s].step \in 1..14 /\ study'[s].out \in CycleOutputs
        BY <3>3, <3>5, <4>1, <4>2
      <4>9. /\ ~(At(s, "cycle", "new")' \/ At(s, "cycle", "checked")' \/ At(s, "cycle", "claimed")')
        BY <3>5 DEF At
      <4>. QED  BY <4>2, <4>3, <4>4, <4>5, <4>6, <4>7, <4>8, <4>9 DEF CycleOK
    <3>. QED  BY <1>5, <3>4, <3>5
  <2>2. ASSUME NEW t \in Studies, t # s  PROVE CycleOK(t)'
    <3>1. CycleOK(t) /\ (Owns(t) => study[t].out # o)
      BY <1>1, <1>2, <2>2 DEF ResearchInv, RunsOK, Alone, Owns
    <3>2. Owns(t) => output'[study[t].out] = output[study[t].out]
      BY <1>6, <3>1 DEF CycleOK
    <3>. QED  BY <1>1, <1>5, <2>2, <3>1, <3>2, SMTT(60) DEF CycleOK, At, Owns
  <2>. QED  BY <2>1, <2>2
<1>12. Alone' /\ LocksAgree'
  BY <1>1, <1>2, <1>5 DEF ResearchInv, Alone, Owns, At, LocksAgree, SignedExperiment
<1>13. OpeningsOK'
  <2>1. ASSUME NEW a \in sealedOpened  PROVE OpeningOK(a)'
    <3>1. OpeningOK(a) /\ a.by \in Studies /\ a.out # o
      BY <1>8 DEF ResearchInv, ResearchTypes, OpeningsOK
    <3>2. /\ study'[a.by].data = study[a.by].data /\ study'[a.by].gate = study[a.by].gate
          /\ \/ study'[a.by].at = study[a.by].at
             \/ ScriptOf[a.by] = "cycle" /\ study'[a.by].at \in {"running", "ended"}
      BY <1>1, <1>5, <3>1 DEF At
    <3>. QED  BY <1>1, <1>6, <3>1, <3>2 DEF OpeningOK, At
  <2>. QED  BY <1>1, <2>1 DEF OpeningsOK
<1>14. SealedIsOpenedOnce' /\ FinalReportIsLast'
  <2>1. SealedIsOpenedOnce'
    BY <1>1 DEF ResearchInv, SealedIsOpenedOnce
  <2>. QED  BY <1>3, <1>6, <2>1 DEF ResearchInv, FinalReportIsLast
<1>. QED  BY <1>9, <1>10, <1>11, <1>12, <1>13, <1>14 DEF ResearchInv, RunsOK

(* and as it opens the sealed rows.                                        *)
LEMMA CycleOpens ==
  ASSUME NEW s \in Studies, ResearchInv, CycleOpen(s)
  PROVE  ResearchInv'
<1>1. /\ At(s, "cycle", "running") /\ StepOrder[study[s].step] = "sealed" /\ study[s].gate
      /\ sealedOpened' = sealedOpened \cup {[by |-> s, out |-> study[s].out]}
      /\ UNCHANGED <<corpus, audit, experiment, reproduction, output>>
  BY DEF CycleOpen, Working, StepAt
<1>2. PICK o \in CycleOutputs : o = study[s].out
  BY <1>1 DEF ResearchInv, RunsOK, CycleOK, Owns
<1>3. CycleOK(s) /\ study[s] \in StudyStates /\ study[s].step = 10
  BY <1>1, StepFacts DEF ResearchInv, ResearchTypes, StudyStates, RunsOK
<1>4. /\ \A t \in Studies : t # s => study'[t] = study[t]
      /\ study'[s].out = o /\ study'[s].data = study[s].data
      /\ study'[s].gate = study[s].gate /\ study'[s] \in StudyStates
      /\ study' = [study EXCEPT ![s] = study'[s]]
      /\ \/ study'[s].at = "ended"
         \/ study'[s].at = "running" /\ study'[s].step = 11
  <2>1. PICK ok \in BOOLEAN :
          study' = [study EXCEPT ![s] = [Advance(s) EXCEPT !.valid = ok /\ study[s].loads]]
    BY DEF CycleOpen
  <2>2. PICK v \in BOOLEAN : v = (ok /\ study[s].loads)
    BY <1>3 DEF StudyStates
  <2>3. study'[s] = [Advance(s) EXCEPT !.valid = v] /\ study' = [study EXCEPT ![s] = study'[s]]
    BY <2>1, <2>2 DEF ResearchInv, ResearchTypes
  <2>4. Advance(s) \in StudyStates
    BY <1>1, AdvanceFacts
  <2>5. /\ study'[s].out = Advance(s).out /\ study'[s].data = Advance(s).data
        /\ study'[s].gate = Advance(s).gate /\ study'[s].at = Advance(s).at
        /\ study'[s].step = Advance(s).step /\ study'[s] \in StudyStates
    BY <2>3, <2>4 DEF StudyStates
  <2>6. \A t \in Studies : t # s => study'[t] = study[t]
    BY <2>3 DEF ResearchInv, ResearchTypes
  <2>7. 10 + 1 = 11
    OBVIOUS
  <2>8. /\ Advance(s).out = o /\ Advance(s).data = study[s].data
        /\ Advance(s).gate = study[s].gate
        /\ \/ Advance(s).at = "ended"
           \/ Advance(s).at = "running" /\ Advance(s).step = 11
    BY <1>1, <1>2, <1>3, <2>7, AdvanceFacts
  <2>. QED  BY <2>3, <2>5, <2>6, <2>8
<1>5. /\ study[s].at = "running" /\ ScriptOf[s] = "cycle"
      /\ output[o] # NotRun /\ output[o].candidate # NotRun
      /\ output[o].candidate.by = s /\ output[o].candidate.data = study[s].data
      /\ study[s].data \in Corpora /\ PartitionOf[study[s].data] = reproduction.partition
      /\ reproduction # NotRun /\ \A a \in sealedOpened : a.out # o
  BY <1>1, <1>2, <1>3 DEF CycleOK, At, Owns
<1>6. PICK b : b = [by |-> s, out |-> o]
  OBVIOUS
<1>7. /\ b \in [by : Studies, out : CycleOutputs \cup {"experiment"}] /\ b.by = s /\ b.out = o
      /\ sealedOpened' = sealedOpened \cup {b}
  BY <1>1, <1>2, <1>6
<1>8. ResearchTypes'
  BY <1>1, <1>4, <1>7 DEF ResearchInv, ResearchTypes
<1>9. \A t \in Studies : AuditOK(t)' /\ ExperimentOK(t)' /\ ReproduceOK(t)'
  BY <1>1, <1>4 DEF ResearchInv, RunsOK, AuditOK, ExperimentOK, ReproduceOK, At, SignedExperiment
<1>10. \A t \in Studies : CycleOK(t)'
  <2>1. CycleOK(s)'
    <3>1. \A i \in 1..14 : i < 11 /\ StepOrder[i] \in Reports => StepOrder[i] \in output[o].reports
      <4>1. \A i \in 1..14 : i < 10 /\ StepOrder[i] \in Reports => StepOrder[i] \in output[o].reports
        BY <1>1, <1>2, <1>3 DEF CycleOK, Owns
      <4>2. \A i \in 1..14 : i < 11 => i < 10 \/ i = 10
        OBVIOUS
      <4>3. StepOrder[10] \notin Reports
        BY StepFacts DEF Guarded
      <4>. QED  BY <4>1, <4>2, <4>3
    <3>. QED  BY <1>1, <1>4, <1>5, <3>1 DEF CycleOK, At, Owns
  <2>2. ASSUME NEW t \in Studies, t # s  PROVE CycleOK(t)'
    <3>1. CycleOK(t) /\ (Owns(t) => study[t].out # o)
      BY <1>1, <1>2, <2>2 DEF ResearchInv, RunsOK, Alone, Owns
    <3>. QED  BY <1>1, <1>4, <1>7, <2>2, <3>1 DEF CycleOK, At, Owns
  <2>. QED  BY <2>1, <2>2
<1>11. Alone' /\ LocksAgree'
  BY <1>1, <1>2, <1>4 DEF ResearchInv, Alone, Owns, At, LocksAgree, SignedExperiment
<1>12. OpeningsOK'
  <2>1. OpeningOK(b)'
    <3>1. b.out # "experiment" /\ b.out = o /\ b.by = s
      BY <1>7, FilesAssumption
    <3>2. /\ study'[s].at \in {"running", "ended"} /\ study'[s].gate
          /\ study'[s].data = study[s].data
      BY <1>1, <1>4
    <3>. QED  BY <1>1, <1>5, <3>1, <3>2 DEF OpeningOK, At
  <2>2. ASSUME NEW a \in sealedOpened  PROVE OpeningOK(a)'
    <3>1. OpeningOK(a) /\ a.by \in Studies
      BY DEF ResearchInv, ResearchTypes, OpeningsOK
    <3>2. /\ study'[a.by].data = study[a.by].data /\ study'[a.by].gate = study[a.by].gate
          /\ \/ study'[a.by].at = study[a.by].at
             \/ ScriptOf[a.by] = "cycle" /\ study'[a.by].at \in {"running", "ended"}
      BY <1>1, <1>4, <3>1 DEF At
    <3>. QED  BY <1>1, <3>1, <3>2 DEF OpeningOK, At
  <2>. QED  BY <1>7, <2>1, <2>2 DEF OpeningsOK
<1>13. SealedIsOpenedOnce'
  BY <1>5, <1>7 DEF ResearchInv, SealedIsOpenedOnce
<1>14. FinalReportIsLast'
  BY <1>1 DEF ResearchInv, FinalReportIsLast
<1>. QED  BY <1>8, <1>9, <1>10, <1>11, <1>12, <1>13, <1>14 DEF ResearchInv, RunsOK

(* Every step of any script keeps the invariant.                           *)
LEMMA ResearchSteps == ResearchInv /\ [ResearchNext]_researchVars => ResearchInv'
<1>1. ASSUME ResearchInv, ReplaceCorpus \/ UNCHANGED researchVars  PROVE ResearchInv'
  <2>1. /\ corpus' \in Corpora
        /\ UNCHANGED <<audit, experiment, reproduction, output, study, sealedOpened>>
    BY <1>1 DEF ReplaceCorpus, researchVars, ResearchInv, ResearchTypes
  <2>2. ResearchTypes'
    BY <1>1, <2>1 DEF ResearchInv, ResearchTypes
  <2>3. RunsOK'
    BY <1>1, <2>1 DEF ResearchInv, RunsOK, AuditOK, ExperimentOK, ReproduceOK, CycleOK, At, Owns, SignedExperiment
  <2>4. Alone' /\ LocksAgree' /\ OpeningsOK'
    BY <1>1, <2>1 DEF ResearchInv, Alone, Owns, At, LocksAgree, SignedExperiment, OpeningsOK, OpeningOK
  <2>5. SealedIsOpenedOnce' /\ FinalReportIsLast'
    BY <1>1, <2>1 DEF ResearchInv, SealedIsOpenedOnce, FinalReportIsLast
  <2>. QED  BY <2>2, <2>3, <2>4, <2>5 DEF ResearchInv
<1>2. ASSUME NEW s \in Studies, ResearchInv, StudyEnds(s)  PROVE ResearchInv'
  BY <1>2, EndKeeps DEF StudyEnds
<1>. QED
  BY <1>1, <1>2, AuditStep, ExperimentSearch, ExperimentWrites, ExperimentIsSigned,
     ReproduceStep, ReproductionIsWritten, CycleChecks, CycleClaims, CycleLoadsRows,
     CycleMoves, CycleReports, CycleFreezes, CycleOpens
  DEF ResearchNext

(* Before any script ran it holds.                                         *)
LEMMA ResearchStart == ResearchInit => ResearchInv
<1>. SUFFICES ASSUME ResearchInit PROVE ResearchInv
  OBVIOUS
<1>1. NewStudy \in StudyStates /\ NewStudy.at = "new" /\ NewStudy.step = 1
  BY DEF NewStudy, StudyStates
<1>2. \A s \in Studies : study[s] = NewStudy
  BY DEF ResearchInit
<1>3. ResearchTypes
  BY <1>1 DEF ResearchInit, ResearchTypes
<1>4. RunsOK
  BY <1>1, <1>2 DEF RunsOK, AuditOK, ExperimentOK, ReproduceOK, CycleOK, At, Owns
<1>5. Alone /\ LocksAgree /\ OpeningsOK
  BY <1>1, <1>2 DEF ResearchInit, Alone, Owns, At, LocksAgree, OpeningsOK
<1>6. SealedIsOpenedOnce /\ FinalReportIsLast
  BY DEF ResearchInit, SealedIsOpenedOnce, FinalReportIsLast
<1>. QED  BY <1>3, <1>4, <1>5, <1>6 DEF ResearchInv

(* Whichever scripts run at the same time, are killed or repeated, sealed  *)
(* rows are opened once in a directory, for a frozen candidate, under one  *)
(* partition lock, and a final report stands on all before it              *)
(* (scripts/run_final_research_cycle.py).                                  *)
THEOREM SealedRowsJudgeOnce ==
  ResearchSpec => [](/\ SealedIsOpenedOnce /\ SealedJudgesAFrozenCandidate
                     /\ OneLockForAllStudies /\ FinalReportIsLast)
<1>1. ResearchInv => SealedJudgesAFrozenCandidate
  BY DEF ResearchInv, OpeningsOK, OpeningOK, SealedJudgesAFrozenCandidate
<1>2. ResearchInv => OneLockForAllStudies
  BY DEF ResearchInv, OpeningsOK, OpeningOK, LocksAgree, OneLockForAllStudies
<1>3. ResearchInv => SealedIsOpenedOnce /\ FinalReportIsLast
  BY DEF ResearchInv
<1>. QED  BY <1>1, <1>2, <1>3, ResearchStart, ResearchSteps, PTL DEF ResearchSpec
----------------------------------------------------------------------------
(* Live features.  A row bears the time of its observation, one of a       *)
(* payment also that of the payment, and finitely many rows are stored.    *)
TimesKnown(kind, row) == row.observed \in Nat /\ (kind = "payment" => row.created \in Nat)
LiveInv ==
  /\ clock \in Nat /\ IsFiniteSet(stored)
  /\ \A r \in inFlight \cup stored : TimesKnown(r.kind, r.row)

\* A row that is received now.
Seen(kind, row) == row.observed = clock /\ (kind = "payment" => row.created \in Nat)

(* A step receives one observation as of now, commits or loses one, or     *)
(* lets time pass.                                                         *)
LEMMA LiveMoves ==
  ASSUME LiveNext
  PROVE  \/ /\ clock' = clock + 1 /\ UNCHANGED stored
            /\ \/ inFlight' = inFlight
               \/ \E kind, row : Seen(kind, row)
                                 /\ inFlight' = inFlight \cup {[kind |-> kind, row |-> row]}
         \/ UNCHANGED clock /\ \E r \in inFlight :
              inFlight' = inFlight \ {r} /\ (stored' = stored \/ stored' = stored \cup {r})
<1>1. ASSUME NEW kind, NEW row, Seen(kind, row), Receiving(kind, row)
      PROVE  /\ clock' = clock + 1 /\ UNCHANGED stored
             /\ \E k, x : Seen(k, x) /\ inFlight' = inFlight \cup {[kind |-> k, row |-> x]}
  BY <1>1 DEF Receiving
<1>2. ASSUME NEW p \in LivePayments, PaymentFetched(p)
      PROVE  \E kind, row : Seen(kind, row) /\ Receiving(kind, row)
  <2>1. PICK status, named :
          Receiving("payment",
            [payment |-> p, order |-> IF named THEN OrderIds[p] ELSE Missing,
             status |-> status, inr |-> p \notin ForeignPayments,
             created |-> CreatedAt[p], observed |-> clock])
    BY <1>2 DEF PaymentFetched
  <2>2. PICK row : row = [payment |-> p, order |-> IF named THEN OrderIds[p] ELSE Missing,
                          status |-> status, inr |-> p \notin ForeignPayments,
                          created |-> CreatedAt[p], observed |-> clock]
    OBVIOUS
  <2>3. Seen("payment", row) /\ Receiving("payment", row)
    BY <2>1, <2>2, LiveAssumption DEF Seen
  <2>. QED  BY <2>3
<1>3. ASSUME NEW p \in LivePayments, RefundFetched(p)
      PROVE  \E kind, row : Seen(kind, row) /\ Receiving(kind, row)
  <2>1. PICK status :
          Receiving("refund",
            [payment |-> p, status |-> status, created |-> clock, observed |-> clock])
    BY <1>3 DEF RefundFetched
  <2>2. PICK row : row = [payment |-> p, status |-> status, created |-> clock, observed |-> clock]
    OBVIOUS
  <2>3. Seen("refund", row) /\ Receiving("refund", row)
    BY <2>1, <2>2 DEF Seen
  <2>. QED  BY <2>3
<1>4. ASSUME NEW p \in LivePayments, DisputeFetched(p)
      PROVE  \E kind, row : Seen(kind, row) /\ Receiving(kind, row)
  <2>1. PICK row : row = [payment |-> p, created |-> clock, observed |-> clock]
    OBVIOUS
  <2>2. Seen("dispute", row) /\ Receiving("dispute", row)
    BY <1>4, <2>1 DEF DisputeFetched, Seen
  <2>. QED  BY <2>2
<1>5. ASSUME NEW p, NEW o, SubmitTelemetry(p, o)
      PROVE  \E kind, row : Seen(kind, row) /\ Receiving(kind, row)
  <2>1. PICK d : Receiving("telemetry",
                           [payment |-> p, order |-> o, device |-> d, observed |-> clock])
    BY <1>5 DEF SubmitTelemetry
  <2>2. PICK row : row = [payment |-> p, order |-> o, device |-> d, observed |-> clock]
    OBVIOUS
  <2>3. Seen("telemetry", row) /\ Receiving("telemetry", row)
    BY <2>1, <2>2 DEF Seen
  <2>. QED  BY <2>3
<1>6. CASE \E r \in inFlight : CommitRow(r) \/ LoseRow(r)
  BY <1>6 DEF CommitRow, LoseRow
<1>7. CASE LiveTick
  BY <1>7 DEF LiveTick
<1>8. CASE \E kind, row : Seen(kind, row) /\ Receiving(kind, row)
  BY <1>1, <1>8
<1>. QED  BY <1>2, <1>3, <1>4, <1>5, <1>6, <1>7, <1>8 DEF LiveNext

(* Every step keeps the times of the rows.                                 *)
LEMMA LiveSteps == LiveInv /\ [LiveNext]_liveVars => LiveInv'
<1>. SUFFICES ASSUME LiveInv, [LiveNext]_liveVars PROVE LiveInv'
  OBVIOUS
<1>1. CASE UNCHANGED liveVars
  BY <1>1 DEF liveVars, LiveInv, TimesKnown
<1>2. CASE LiveNext
  <2>1. CASE /\ clock' = clock + 1 /\ UNCHANGED stored
             /\ \/ inFlight' = inFlight
                \/ \E kind, row : Seen(kind, row)
                                  /\ inFlight' = inFlight \cup {[kind |-> kind, row |-> row]}
    <3>1. clock' \in Nat
      BY <2>1 DEF LiveInv
    <3>2. CASE inFlight' = inFlight
      BY <2>1, <3>1, <3>2 DEF LiveInv, TimesKnown
    <3>3. ASSUME NEW kind, NEW row, Seen(kind, row),
                 inFlight' = inFlight \cup {[kind |-> kind, row |-> row]}
          PROVE  LiveInv'
      <4>1. TimesKnown(kind, row)
        BY <3>3 DEF Seen, TimesKnown, LiveInv
      <4>2. ASSUME NEW r \in inFlight' \cup stored' PROVE TimesKnown(r.kind, r.row)
        BY <2>1, <3>3, <4>1 DEF LiveInv
      <4>. QED  BY <2>1, <3>1, <4>2 DEF LiveInv, TimesKnown
    <3>. QED  BY <2>1, <3>2, <3>3
  <2>2. ASSUME UNCHANGED clock, NEW r \in inFlight, inFlight' = inFlight \ {r},
               stored' = stored \/ stored' = stored \cup {r}
        PROVE  LiveInv'
    <3>1. IsFiniteSet(stored')
      BY <2>2, FS_AddElement DEF LiveInv
    <3>2. inFlight' \cup stored' \subseteq inFlight \cup stored
      BY <2>2
    <3>. QED  BY <2>2, <3>1, <3>2 DEF LiveInv, TimesKnown
  <2>. QED  BY <1>2, <2>1, <2>2, LiveMoves
<1>. QED  BY <1>1, <1>2

(* At first nothing is stored.                                             *)
LEMMA LiveStart == LiveInit => LiveInv
BY FS_EmptySet DEF LiveInit, LiveInv

(* What is known at a cutoff is what was known of it, unless a row that    *)
(* was in flight then commits or an order id becomes known: whatever is    *)
(* observed later stays out of the preview.                                *)
THEOREM PreviewsKeepTheirPast == LiveSpec => PreviewsChangeOnlyByLateRows
<1>2. ASSUME LiveInv, LiveNext, NEW cutoff \in 0 .. (clock - 1), UNCHANGED orderNow,
             \A r \in inFlight : r.row.observed > cutoff
      PROVE  Preview(cutoff)' = Preview(cutoff)
  <2>1. ASSUME NEW kind
        PROVE  {x \in OfKind(kind) : x.observed <= cutoff}'
                 = {x \in OfKind(kind) : x.observed <= cutoff}
    <3>1. CASE UNCHANGED stored
      BY <3>1 DEF OfKind
    <3>2. ASSUME NEW r \in inFlight, stored' = stored \cup {r}
          PROVE  {x \in OfKind(kind) : x.observed <= cutoff}'
                   = {x \in OfKind(kind) : x.observed <= cutoff}
      <4>1. ~(r.row.observed <= cutoff)
        BY <1>2 DEF LiveInv, TimesKnown
      <4>2. OfKind(kind)' = IF r.kind = kind THEN OfKind(kind) \cup {r.row} ELSE OfKind(kind)
        BY <3>2 DEF OfKind
      <4>. QED  BY <4>1, <4>2
    <3>. QED  BY <1>2, <3>1, <3>2, LiveMoves
  <2>2. Known(cutoff)' = Known(cutoff)
    BY <1>2, <2>1 DEF Known
  <2>. QED  BY <2>2 DEF Preview
<1>3. LiveInv /\ [LiveNext]_liveVars =>
        [\A cutoff \in 0 .. (clock - 1) :
           (UNCHANGED orderNow /\ \A r \in inFlight : r.row.observed > cutoff) =>
             Preview(cutoff)' = Preview(cutoff)]_liveVars
  BY <1>2
<1>. QED  BY <1>3, LiveStart, LiveSteps, PTL DEF LiveSpec, PreviewsChangeOnlyByLateRows


(* Whatever is observed, in flight or lost: a preview of any cutoff that   *)
(* has no blocker has all payments of its windows, each once, and does not *)
(* raise (live_features.py:480).                                           *)
THEOREM PreviewsAreWhole == LiveSpec => []UnblockedPreviewsAreComplete
<1>1. ASSUME LiveInv, NEW cutoff \in 0 .. clock, Preview(cutoff).blockers = {}
      PROVE  /\ ~Preview(cutoff).raises
             /\ Cardinality(Preview(cutoff).vector.current) + Cardinality(Preview(cutoff).vector.baseline)
                  = Cardinality(Preview(cutoff).payments)
             /\ {e.id : e \in Preview(cutoff).vector.current}
                  \cap {e.id : e \in Preview(cutoff).vector.baseline} = {}
  <2> DEFINE paid == {x \in stored : x.kind = "payment"}
             ofPaid == [x \in paid |-> x.row]
  <2>1. IsFiniteSet(paid)
    BY <1>1, FS_Subset DEF LiveInv
  <2>2. ofPaid \in Surjection(paid, OfKind("payment"))
    BY DEF Surjection, OfKind
  <2>3. IsFiniteSet(OfKind("payment"))
    BY <2>1, <2>2, FS_Surjection
  <2>4. \A r \in OfKind("payment") : r.created \in Nat /\ r.observed \in Nat
    BY <1>1 DEF OfKind, LiveInv, TimesKnown
  <2>5. Known(cutoff).payments \subseteq OfKind("payment")
    BY DEF Known
  <2>6. Dated(Known(cutoff).payments)
    <3>1. IsFiniteSet(Known(cutoff).payments)
      BY <2>3, <2>5, FS_Subset
    <3>. QED  BY <2>4, <2>5, <3>1 DEF Dated
  <2>7. Preview(cutoff) = ContractPreview(Known(cutoff), cutoff)
    BY DEF Preview
  <2>8. cutoff \in Int
    BY <1>1 DEF LiveInv
  <2>. QED  BY <1>1, <2>6, <2>7, <2>8, ContractIsWhole
<1>2. LiveInv => UnblockedPreviewsAreComplete
  BY <1>1 DEF UnblockedPreviewsAreComplete
<1>. QED  BY <1>2, LiveStart, LiveSteps, PTL DEF LiveSpec
----------------------------------------------------------------------------
(* The operator's page.  A handler that waits for an answer has a flag, or *)
(* none if any number of its kind may wait.                                *)
Guards == {"running", "importing", "benchmark"}
GuardOf(kind) ==
  CASE kind \in {"bridge", "execute", "process load"} -> "running"
    [] kind \in {"import", "import load", "training"} -> "importing"
    [] kind \in {"prepare", "prepared rows", "benchmark"} -> "benchmark"
    [] OTHER -> "none"

FlightKinds == {"bridge", "execute", "process load", "import", "import load", "training",
                "prepare", "prepared rows", "benchmark", "page load", "rows"}
CaseKinds == {"bridge", "execute", "import", "import load", "training"}
LabelKinds == {"rows", "prepared rows"}

ListAnswers == (SUBSET PageCases) \cup {Waiting, Refused, NoJson}
Flights == [kind : FlightKinds, n : Nat, about : PageCases \cup Labels \cup {NoCase},
            got : [PageSources -> ListAnswers]]

(* A handler about a case names one, one about a filter a label; and its   *)
(* lists are all answered or none.                                         *)
WellMade(f) ==
  /\ f \in Flights
  /\ f.kind \in CaseKinds => f.about \in PageCases
  /\ f.kind \in LabelKinds => f.about \in Labels
  /\ f.got # Unanswered =>
       \A s \in PageSources : f.got[s] \in (SUBSET PageCases) \cup {Refused, NoJson}

FlightsOK == \A f \in flights : WellMade(f) /\ f.n <= clicks

(* Only a payment is offered that the lists no longer have.                *)
OffersOK == \A c \in options : c.kind # "payments" => c \in pageCases

(* What stands in the fields was chosen and conclusion, until the operator types. *)
Shown(c) == details = c \/ (details = NoCase /\ c.kind = "payments")
ChoiceOK == ~typed => chosen \in {NoCase, field} /\ (field # NoCase => Shown(field))

(* Panels show an execution, and the status names its kind.                *)
PanelsOK ==
  /\ panels = [stages |-> panels.stages, conclusion |-> panels.conclusion,
               summary |-> panels.summary]
  /\ panels.stages \in Executions \cup {NoCase, Failed}
  /\ PanelsOfOneExecution /\ CompleteNamesItsPanels

(* One handler waits for each flag that is up.                             *)
Held(x) == {f \in flights : GuardOf(f.kind) = x}
One(waiting, up) == IF up THEN \E f : waiting = {f} ELSE waiting = {}
HandlersOK == \A x \in Guards : One(Held(x), guards[x])

PageInv ==
  ConsoleTypeOK /\ FlightsOK /\ OffersOK /\ ChoiceOK /\ PanelsOK /\ HandlersOK

(* A new handler is well made.                                             *)
LEMMA NewFlight ==
  ASSUME NEW kind \in FlightKinds, NEW n \in Nat, NEW about \in PageCases \cup Labels \cup {NoCase},
         kind \in CaseKinds => about \in PageCases, kind \in LabelKinds => about \in Labels
  PROVE  /\ WellMade(Flight(kind, n, about))
         /\ Flight(kind, n, about).kind = kind /\ Flight(kind, n, about).n = n
         /\ Flight(kind, n, about).about = about
<1>1. Unanswered \in [PageSources -> ListAnswers]
  <2>1. Waiting \in ListAnswers
    BY DEF ListAnswers
  <2>. QED  BY <2>1 DEF Unanswered
<1>. QED  BY <1>1 DEF Flight, Flights, WellMade

(* A payment's hold is a case; nothing is neither a case nor an            *)
(* execution.                                                              *)
LEMMA CaseFacts ==
  /\ \A c \in PageCases : HoldFor(c) \in PageCases /\ HoldFor(c).kind = "holds"
  /\ NoCase \notin PageCases
  /\ \A e \in Executions : e \notin {NoCase, Failed}
<1>1. ASSUME NEW c \in PageCases
      PROVE  HoldFor(c) \in PageCases /\ HoldFor(c).kind = "holds"
  <2>1. c.id \in PagePayments \cup PageHistories
    BY DEF PageCases, OfSource
  <2>. QED  BY <2>1 DEF PageCases, OfSource, HoldFor
<1>2. NoCase \notin PageCases \cup Executions /\ Failed \notin Executions
  BY ConsoleAssumption
<1>. QED  BY <1>1, <1>2

(* What a step does to the handlers: it begins one, with or without a      *)
(* flag, or ends one and may begin its next part.                          *)
Begun(g) == flights' = flights \cup {g} /\ WellMade(g) /\ g.n = clicks'
Ended(f) == flights' = (flights \ {f}) \cup {}
Continued(f, g) ==
  /\ flights' = (flights \ {f}) \cup {g} /\ WellMade(g) /\ g.n = f.n
  /\ GuardOf(g.kind) = GuardOf(f.kind)

HandlersMove ==
  \/ \E g : Click /\ Begun(g) /\ GuardOf(g.kind) = "none" /\ UNCHANGED guards
  \/ \E g : /\ Click /\ Begun(g) /\ GuardOf(g.kind) \in Guards /\ ~guards[GuardOf(g.kind)]
            /\ guards' = [guards EXCEPT ![GuardOf(g.kind)] = TRUE]
  \/ Click /\ UNCHANGED <<flights, guards>>
  \/ \E f \in flights : UNCHANGED clicks /\ Ended(f) /\ GuardOf(f.kind) = "none" /\ UNCHANGED guards
  \/ \E f \in flights : /\ UNCHANGED clicks /\ Ended(f) /\ GuardOf(f.kind) \in Guards
                        /\ guards' = [guards EXCEPT ![GuardOf(f.kind)] = FALSE]
  \/ \E f \in flights : \E g : UNCHANGED clicks /\ Continued(f, g) /\ UNCHANGED guards

(* Handlers stay well made.                                                *)
LEMMA FlightsKept ==
  ASSUME FlightsOK, clicks \in Nat, HandlersMove
  PROVE  FlightsOK'
<1>1. clicks' \in Nat /\ clicks' >= clicks
  BY DEF HandlersMove, Click
<1>2. ASSUME NEW f \in flights PROVE WellMade(f) /\ f.n \in Nat /\ f.n <= clicks'
  <2>1. WellMade(f) /\ f.n <= clicks
    BY DEF FlightsOK
  <2>2. f.n \in Nat
    BY <2>1 DEF WellMade, Flights
  <2>. QED  BY <1>1, <2>1, <2>2
<1>3. ASSUME NEW g \in flights' PROVE WellMade(g) /\ g.n <= clicks'
  <2>1. CASE g \in flights
    BY <1>2, <2>1
  <2>2. CASE Begun(g)
    BY <1>1, <2>2 DEF Begun
  <2>3. ASSUME NEW f \in flights, Continued(f, g) PROVE WellMade(g) /\ g.n <= clicks'
    BY <1>2, <2>3 DEF Continued
  <2>. QED  BY <1>3, <2>1, <2>2, <2>3 DEF HandlersMove, Begun, Ended, Continued
<1>. QED  BY <1>3 DEF FlightsOK

(* One handler goes on waiting for each flag that is up.                   *)
LEMMA GuardsKept ==
  ASSUME HandlersOK, guards \in [Guards -> BOOLEAN], HandlersMove
  PROVE  HandlersOK'
<1>. SUFFICES ASSUME NEW x \in Guards PROVE One(Held(x)', guards'[x])
  BY DEF HandlersOK
<1>0. One(Held(x), guards[x]) /\ x # "none"
  BY DEF HandlersOK, Guards
<1>1. ASSUME NEW g, Begun(g), GuardOf(g.kind) = "none", UNCHANGED guards
      PROVE  One(Held(x)', guards'[x])
  <2>1. Held(x)' = Held(x)
    BY <1>0, <1>1 DEF Begun, Held
  <2>. QED  BY <1>0, <1>1, <2>1
<1>2. ASSUME NEW g, Begun(g), GuardOf(g.kind) \in Guards, ~guards[GuardOf(g.kind)],
             guards' = [guards EXCEPT ![GuardOf(g.kind)] = TRUE]
      PROVE  One(Held(x)', guards'[x])
  <2>1. CASE GuardOf(g.kind) = x
    <3>1. Held(x) = {}
      BY <1>0, <1>2, <2>1 DEF One
    <3>2. Held(x)' = {g}
      BY <1>2, <2>1, <3>1 DEF Begun, Held
    <3>3. guards'[x] = TRUE
      BY <1>2, <2>1
    <3>. QED  BY <3>2, <3>3 DEF One
  <2>2. CASE GuardOf(g.kind) # x
    <3>1. Held(x)' = Held(x)
      BY <1>2, <2>2 DEF Begun, Held
    <3>2. guards'[x] = guards[x]
      BY <1>2, <2>2
    <3>. QED  BY <1>0, <3>1, <3>2
  <2>. QED  BY <2>1, <2>2
<1>3. CASE UNCHANGED <<flights, guards>>
  BY <1>0, <1>3 DEF Held
<1>4. ASSUME NEW f \in flights, Ended(f), GuardOf(f.kind) = "none", UNCHANGED guards
      PROVE  One(Held(x)', guards'[x])
  <2>1. Held(x)' = Held(x)
    BY <1>0, <1>4 DEF Ended, Held
  <2>. QED  BY <1>0, <1>4, <2>1
<1>5. ASSUME NEW f \in flights, Ended(f), GuardOf(f.kind) \in Guards,
             guards' = [guards EXCEPT ![GuardOf(f.kind)] = FALSE]
      PROVE  One(Held(x)', guards'[x])
  <2>1. CASE GuardOf(f.kind) = x
    <3>1. f \in Held(x)
      BY <2>1 DEF Held
    <3>2. Held(x) = {f}
      BY <1>0, <3>1 DEF One
    <3>3. Held(x)' = {}
      BY <1>5, <3>2 DEF Ended, Held
    <3>4. guards'[x] = FALSE
      BY <1>5, <2>1
    <3>. QED  BY <3>3, <3>4 DEF One
  <2>2. CASE GuardOf(f.kind) # x
    <3>1. Held(x)' = Held(x)
      BY <1>5, <2>2 DEF Ended, Held
    <3>2. guards'[x] = guards[x]
      BY <1>5, <2>2
    <3>. QED  BY <1>0, <3>1, <3>2
  <2>. QED  BY <2>1, <2>2
<1>6. ASSUME NEW f \in flights, NEW g, Continued(f, g), UNCHANGED guards
      PROVE  One(Held(x)', guards'[x])
  <2>1. CASE GuardOf(f.kind) = x
    <3>1. f \in Held(x)
      BY <2>1 DEF Held
    <3>2. Held(x) = {f} /\ guards[x]
      BY <1>0, <3>1 DEF One
    <3>3. Held(x)' = {g}
      BY <1>6, <2>1, <3>2 DEF Continued, Held
    <3>. QED  BY <1>6, <3>2, <3>3 DEF One
  <2>2. CASE GuardOf(f.kind) # x
    <3>1. Held(x)' = Held(x)
      BY <1>6, <2>2 DEF Continued, Held
    <3>. QED  BY <1>0, <1>6, <3>1
  <2>. QED  BY <2>1, <2>2
<1>. QED  BY <1>1, <1>2, <1>3, <1>4, <1>5, <1>6 DEF HandlersMove

(* The flag of each kind of handler.                                       *)
LEMMA FlagKinds ==
  /\ GuardOf("bridge") = "running" /\ GuardOf("execute") = "running"
  /\ GuardOf("process load") = "running"
  /\ GuardOf("import") = "importing" /\ GuardOf("import load") = "importing"
  /\ GuardOf("training") = "importing"
  /\ GuardOf("prepare") = "benchmark" /\ GuardOf("prepared rows") = "benchmark"
  /\ GuardOf("benchmark") = "benchmark"
  /\ GuardOf("page load") = "none" /\ GuardOf("rows") = "none"
BY DEF GuardOf

(* A click begins a handler as of its own number.                          *)
LEMMA ClickBegins ==
  ASSUME clicks \in Nat, Click, NEW kind \in FlightKinds,
         NEW about \in PageCases \cup Labels \cup {NoCase},
         kind \in CaseKinds => about \in PageCases, kind \in LabelKinds => about \in Labels,
         flights' = flights \cup {Flight(kind, clicks', about)}
  PROVE  \E g : Begun(g) /\ g.kind = kind
<1>1. PICK n \in Nat : n = clicks'
  BY DEF Click
<1>2. PICK g : g = Flight(kind, n, about)
  OBVIOUS
<1>3. WellMade(g) /\ g.kind = kind /\ g.n = n
  BY <1>2, NewFlight
<1>4. flights' = flights \cup {g}
  BY <1>1, <1>2
<1>. QED  BY <1>1, <1>3, <1>4 DEF Begun

(* A handler that goes on keeps its number and its flag.                   *)
LEMMA AnswerContinues ==
  ASSUME FlightsOK, NEW f \in flights, NEW kind \in FlightKinds,
         NEW about \in PageCases \cup Labels \cup {NoCase},
         kind \in CaseKinds => about \in PageCases, kind \in LabelKinds => about \in Labels,
         GuardOf(kind) = GuardOf(f.kind), Land(f, {Flight(kind, f.n, about)})
  PROVE  \E g : Continued(f, g)
<1>1. f.n \in Nat
  BY DEF FlightsOK, WellMade, Flights
<1>2. PICK g : g = Flight(kind, f.n, about)
  OBVIOUS
<1>3. WellMade(g) /\ g.kind = kind /\ g.n = f.n
  BY <1>1, <1>2, NewFlight
<1>4. flights' = (flights \ {f}) \cup {g}
  BY <1>2 DEF Land
<1>. QED  BY <1>3, <1>4 DEF Continued

(* What the lists of a load hold: cases, or no answer that is a list.      *)
LEMMA Lists ==
  ASSUME FlightsOK, served \subseteq PageCases, NEW f \in flights
  PROVE  /\ \A s \in PageSources : Answers(s) \subseteq (SUBSET PageCases) \cup {Refused, NoJson}
         /\ Answered(f) => \A s \in PageSources :
              f.got[s] # NoJson => ListOf(f, s) \subseteq PageCases
<1>1. \A s \in PageSources : Answers(s) \subseteq (SUBSET PageCases) \cup {Refused, NoJson}
  BY DEF Answers
<1>2. ASSUME Answered(f), NEW s \in PageSources, f.got[s] # NoJson
      PROVE  ListOf(f, s) \subseteq PageCases
  <2>1. f.got[s] \in (SUBSET PageCases) \cup {Refused, NoJson}
    BY <1>2 DEF FlightsOK, WellMade, Answered
  <2>. QED  BY <1>2, <2>1 DEF ListOf
<1>. QED  BY <1>1, <1>2

(* What the invariant says of the types.                                   *)
LEMMA TypesOf ==
  ASSUME PageInv
  PROVE  /\ clicks \in Nat /\ FlightsOK /\ guards \in [Guards -> BOOLEAN] /\ served \subseteq PageCases
         /\ field \in PageCases \cup {NoCase} /\ chosen \in PageCases \cup {NoCase}
<1>1. ConsoleTypeOK /\ FlightsOK
  BY DEF PageInv
<1>2. clicks \in Nat
  <2>1. clicks \in 0 .. MaxClicks
    BY <1>1, Zenon DEF ConsoleTypeOK
  <2>2. MaxClicks \in Nat
    BY ConsoleAssumption, Zenon
  <2>. QED  BY <2>1, <2>2
<1>3. guards \in [Guards -> BOOLEAN]
  <2>1. Guards = {"running", "benchmark", "importing"}
    BY DEF Guards
  <2>. QED  BY <1>1, <2>1, Zenon DEF ConsoleTypeOK
<1>4. field \in PageCases \cup {NoCase} /\ chosen \in PageCases \cup {NoCase}
  BY <1>1 DEF ConsoleTypeOK
<1>. QED  BY <1>1, <1>2, <1>3, <1>4 DEF ConsoleTypeOK

(* Every action begins, ends or continues a handler, with its flag.        *)
LEMMA Moves == PageInv /\ ConsoleNext => HandlersMove
<1>. SUFFICES ASSUME PageInv, ConsoleNext PROVE HandlersMove
  OBVIOUS
<1>0. /\ clicks \in Nat /\ FlightsOK /\ guards \in [Guards -> BOOLEAN] /\ served \subseteq PageCases
      /\ field \in PageCases \cup {NoCase} /\ chosen \in PageCases \cup {NoCase}
  BY TypesOf
<1>. USE FlagKinds
<1>1. CASE Refresh
  <2>1. Click /\ UNCHANGED guards /\ flights' = flights \cup {Flight("page load", clicks', NoCase)}
    BY <1>1 DEF Refresh
  <2>2. \E g : Begun(g) /\ g.kind = "page load"
    BY <1>0, <2>1, ClickBegins DEF FlightKinds, CaseKinds, LabelKinds
  <2>. QED  BY <2>1, <2>2 DEF HandlersMove
<1>2. CASE ChooseCase \/ TypeId
  BY <1>2 DEF ChooseCase, TypeId, HandlersMove
<1>3. CASE Process
  <2>1. PICK kind : kind = IF CaseInput.kind = "payments" THEN "bridge" ELSE "execute"
    OBVIOUS
  <2>2. /\ Click /\ ~guards["running"] /\ guards' = [guards EXCEPT !["running"] = TRUE]
        /\ CaseInput # NoCase /\ flights' = flights \cup {Flight(kind, clicks', CaseInput)}
    BY <1>3, <2>1 DEF Process
  <2>3. CaseInput \in PageCases
    BY <1>0, <2>2 DEF CaseInput
  <2>4. kind \in {"bridge", "execute"} /\ GuardOf(kind) = "running"
    BY <2>1
  <2>5. \E g : Begun(g) /\ g.kind = kind
    BY <1>0, <2>2, <2>3, <2>4, ClickBegins, ZenonT(60) DEF FlightKinds, CaseKinds, LabelKinds
  <2>. QED  BY <2>2, <2>4, <2>5, ZenonT(60) DEF HandlersMove, Guards
<1>4. CASE ImportHistory
  <2>1. PICK h \in PageHistories :
          flights' = flights \cup {Flight("import", clicks', [kind |-> "histories", id |-> h])}
    BY <1>4 DEF ImportHistory
  <2>2. Click /\ ~guards["importing"] /\ guards' = [guards EXCEPT !["importing"] = TRUE]
    BY <1>4 DEF ImportHistory
  <2>3. [kind |-> "histories", id |-> h] \in PageCases
    BY DEF PageCases
  <2>4. \E g : Begun(g) /\ g.kind = "import"
    BY <1>0, <2>1, <2>2, <2>3, ClickBegins DEF FlightKinds, CaseKinds, LabelKinds
  <2>. QED  BY <2>2, <2>4, ZenonT(60) DEF HandlersMove, Guards
<1>5. ASSUME NEW kind \in {"prepare", "benchmark"}, NEW saying, StartBenchmark(kind, saying)
      PROVE  HandlersMove
  <2>1. /\ Click /\ ~guards["benchmark"] /\ guards' = [guards EXCEPT !["benchmark"] = TRUE]
        /\ flights' = flights \cup {Flight(kind, clicks', NoCase)}
    BY <1>5 DEF StartBenchmark
  <2>2. GuardOf(kind) = "benchmark"
    OBVIOUS
  <2>3. \E g : Begun(g) /\ g.kind = kind
    BY <1>0, <2>1, ClickBegins, ZenonT(60) DEF FlightKinds, CaseKinds, LabelKinds
  <2>. QED  BY <2>1, <2>2, <2>3, ZenonT(60) DEF HandlersMove, Guards
<1>6. CASE ChangeFilter
  <2>1. PICK label \in Labels : flights' = flights \cup {Flight("rows", clicks', label)}
    BY <1>6 DEF ChangeFilter
  <2>2. Click /\ UNCHANGED guards
    BY <1>6 DEF ChangeFilter
  <2>3. \E g : Begun(g) /\ g.kind = "rows"
    BY <1>0, <2>1, <2>2, ClickBegins DEF FlightKinds, CaseKinds, LabelKinds
  <2>. QED  BY <2>2, <2>3 DEF HandlersMove
<1>7. ASSUME NEW f \in flights, UNCHANGED clicks, Land(f, {}),
             \/ GuardOf(f.kind) = "none" /\ UNCHANGED guards
             \/ GuardOf(f.kind) \in Guards /\ guards' = [guards EXCEPT ![GuardOf(f.kind)] = FALSE]
      PROVE  HandlersMove
  BY <1>7 DEF HandlersMove, Ended, Land
<1>8. ASSUME NEW f \in flights, UNCHANGED <<clicks, guards>>, NEW g, Continued(f, g)
      PROVE  HandlersMove
  BY <1>8 DEF HandlersMove
<1>9. ASSUME NEW f \in flights PROVE f.kind \in CaseKinds => f.about \in PageCases
  BY <1>0 DEF FlightsOK, WellMade
<1>10. ASSUME NEW f \in flights, BridgeAnswered(f) PROVE HandlersMove
  <2>1. CASE Land(f, {Flight("execute", f.n, HoldFor(f.about))}) /\ UNCHANGED guards
    <3>1. HoldFor(f.about) \in PageCases
      BY <1>9, <1>10, CaseFacts DEF BridgeAnswered, CaseKinds
    <3>2. \E g : Continued(f, g)
      BY <1>0, <1>10, <2>1, <3>1, AnswerContinues DEF BridgeAnswered, FlightKinds, CaseKinds, LabelKinds
    <3>. QED  BY <1>8, <1>10, <2>1, <3>2 DEF BridgeAnswered
  <2>2. CASE Land(f, {}) /\ CaseFailed
    BY <1>7, <1>10, <2>2 DEF BridgeAnswered, CaseFailed, Released, Guards
  <2>. QED  BY <1>10, <2>1, <2>2 DEF BridgeAnswered
<1>11. ASSUME NEW f \in flights, ExecuteAnswered(f) PROVE HandlersMove
  <2>1. CASE Land(f, {Flight("process load", f.n, NoCase)}) /\ UNCHANGED guards
    <3>1. \E g : Continued(f, g)
      BY <1>0, <1>11, <2>1, AnswerContinues DEF ExecuteAnswered, FlightKinds, CaseKinds, LabelKinds
    <3>. QED  BY <1>8, <1>11, <2>1, <3>1 DEF ExecuteAnswered
  <2>2. CASE Land(f, {}) /\ CaseFailed
    BY <1>7, <1>11, <2>2 DEF ExecuteAnswered, CaseFailed, Released, Guards
  <2>. QED  BY <1>11, <2>1, <2>2 DEF ExecuteAnswered
<1>12. ASSUME NEW f \in flights, ListsAnswered(f) PROVE HandlersMove
  <2>1. PICK p \in Answers("payments"), h \in Answers("histories"), o \in Answers("holds") :
          Land(f, {[f EXCEPT !.got = [payments |-> p, histories |-> h, holds |-> o]]})
    BY <1>12 DEF ListsAnswered
  <2>2. PICK got : got = [payments |-> p, histories |-> h, holds |-> o]
    OBVIOUS
  <2>3. /\ got \in [PageSources -> ListAnswers]
        /\ \A s \in PageSources : got[s] \in (SUBSET PageCases) \cup {Refused, NoJson}
    <3>1. /\ p \in (SUBSET PageCases) \cup {Refused, NoJson}
          /\ h \in (SUBSET PageCases) \cup {Refused, NoJson}
          /\ o \in (SUBSET PageCases) \cup {Refused, NoJson}
      BY <1>0, Lists DEF PageSources
    <3>2. \A x \in (SUBSET PageCases) \cup {Refused, NoJson} : x \in ListAnswers
      BY DEF ListAnswers
    <3>3. DOMAIN got = PageSources /\ got = [s \in PageSources |-> got[s]]
      BY <2>2 DEF PageSources
    <3>4. got["payments"] = p /\ got["histories"] = h /\ got["holds"] = o
      BY <2>2
    <3>5. \A s \in PageSources : got[s] \in {p, h, o}
      BY <3>4 DEF PageSources
    <3>6. \A s \in PageSources : got[s] \in ListAnswers
      BY <3>1, <3>2, <3>5
    <3>. QED  BY <3>1, <3>3, <3>5, <3>6
  <2>4. PICK g : g = [f EXCEPT !.got = got]
    OBVIOUS
  <2>5. WellMade(f) /\ f \in Flights
    BY <1>0 DEF FlightsOK, WellMade
  <2>6. /\ g \in Flights /\ g.kind = f.kind /\ g.n = f.n /\ g.about = f.about /\ g.got = got
    BY <2>3, <2>4, <2>5 DEF Flights
  <2>7. WellMade(g)
    BY <2>3, <2>5, <2>6 DEF WellMade
  <2>8. flights' = (flights \ {f}) \cup {g}
    BY <2>1, <2>2, <2>4 DEF Land
  <2>9. Continued(f, g)
    BY <2>6, <2>7, <2>8 DEF Continued
  <2>. QED  BY <1>8, <1>12, <2>9 DEF ListsAnswered
<1>13. ASSUME NEW f \in flights, ListsArrive(f) PROVE HandlersMove
  <2>0. Resume(f) /\ UNCHANGED clicks /\ f.kind \in Loads
    BY <1>13 DEF ListsArrive, Answered
  <2>1. CASE f.kind = "process load"
    <3>1. Land(f, {}) /\ guards' = [guards EXCEPT !["running"] = FALSE]
      BY <2>0, <2>1 DEF Resume, Released
    <3>. QED  BY <1>7, <2>0, <2>1, <3>1 DEF Guards
  <2>2. CASE f.kind = "import load"
    <3>1. Land(f, {Flight("training", f.n, f.about)}) /\ UNCHANGED guards
      BY <2>0, <2>2 DEF Resume
    <3>2. f.about \in PageCases
      BY <1>9, <2>2 DEF CaseKinds
    <3>3. \E g : Continued(f, g)
      BY <1>0, <2>2, <3>1, <3>2, AnswerContinues DEF FlightKinds, CaseKinds, LabelKinds
    <3>. QED  BY <1>8, <2>0, <3>1, <3>3
  <2>3. CASE f.kind = "page load"
    <3>1. Land(f, {}) /\ UNCHANGED guards
      BY <2>0, <2>3 DEF Resume
    <3>. QED  BY <1>7, <2>0, <2>3, <3>1
  <2>. QED  BY <2>0, <2>1, <2>2, <2>3 DEF Loads
<1>14. ASSUME NEW f \in flights, ListsThrow(f) PROVE HandlersMove
  <2>0. Land(f, {}) /\ UNCHANGED clicks /\ f.kind \in Loads
    BY <1>14 DEF ListsThrow, Answered
  <2>1. CASE f.kind = "process load"
    <3>1. guards' = [guards EXCEPT !["running"] = FALSE]
      BY <1>14, <2>1 DEF ListsThrow, CaseFailed, Released
    <3>. QED  BY <1>7, <2>0, <2>1, <3>1 DEF Guards
  <2>2. CASE f.kind = "import load"
    <3>1. guards' = [guards EXCEPT !["importing"] = FALSE]
      BY <1>14, <2>2 DEF ListsThrow, Released
    <3>. QED  BY <1>7, <2>0, <2>2, <3>1 DEF Guards
  <2>3. CASE f.kind = "page load"
    <3>1. UNCHANGED guards
      BY <1>14, <2>3 DEF ListsThrow
    <3>. QED  BY <1>7, <2>0, <2>3, <3>1
  <2>. QED  BY <2>0, <2>1, <2>2, <2>3 DEF Loads
<1>15. ASSUME NEW f \in flights, ImportAnswered(f) PROVE HandlersMove
  <2>1. CASE Land(f, {Flight("import load", f.n, f.about)}) /\ UNCHANGED guards
    <3>1. f.about \in PageCases
      BY <1>9, <1>15 DEF ImportAnswered, CaseKinds
    <3>2. \E g : Continued(f, g)
      BY <1>0, <1>15, <2>1, <3>1, AnswerContinues DEF ImportAnswered, FlightKinds, CaseKinds, LabelKinds
    <3>. QED  BY <1>8, <1>15, <2>1, <3>2 DEF ImportAnswered
  <2>2. CASE Land(f, {}) /\ guards' = Released("importing")
    BY <1>7, <1>15, <2>2 DEF ImportAnswered, Released, Guards
  <2>. QED  BY <1>15, <2>1, <2>2 DEF ImportAnswered
<1>16. ASSUME NEW f \in flights, ImportEnds(f) PROVE HandlersMove
  <2>1. f.kind = "training" /\ Land(f, {}) /\ guards' = [guards EXCEPT !["importing"] = FALSE]
    BY <1>16 DEF ImportEnds, Released
  <2>2. UNCHANGED clicks
    BY <1>16 DEF ImportEnds
  <2>. QED  BY <1>7, <2>1, <2>2 DEF Guards
<1>17. ASSUME NEW f \in flights, PrepareAnswered(f) PROVE HandlersMove
  <2>1. ASSUME NEW label \in Labels, UNCHANGED guards,
               Land(f, {[Flight("rows", f.n, label) EXCEPT !.kind = "prepared rows"]})
        PROVE  HandlersMove
    <3>1. f.n \in Nat
      BY <1>0 DEF FlightsOK, WellMade, Flights
    <3>2. PICK r : r = Flight("rows", f.n, label)
      OBVIOUS
    <3>3. WellMade(r) /\ r.n = f.n /\ r.about = label /\ r \in Flights
      <4>1. "rows" \in FlightKinds /\ ~("rows" \in CaseKinds)
        BY DEF FlightKinds, CaseKinds
      <4>2. WellMade(r) /\ r.n = f.n /\ r.about = label
        BY <3>1, <3>2, <4>1, NewFlight
      <4>. QED  BY <4>2 DEF WellMade
    <3>4. PICK g : g = [r EXCEPT !.kind = "prepared rows"]
      OBVIOUS
    <3>5. /\ g \in Flights /\ g.kind = "prepared rows" /\ g.n = f.n /\ g.about = label
          /\ g.got = r.got
      BY <3>3, <3>4 DEF Flights, FlightKinds
    <3>6. WellMade(g)
      BY <3>3, <3>5 DEF WellMade, CaseKinds
    <3>7. flights' = (flights \ {f}) \cup {g}
      BY <2>1, <3>2, <3>4 DEF Land
    <3>8. Continued(f, g)
      BY <1>17, <3>5, <3>6, <3>7 DEF Continued, PrepareAnswered
    <3>. QED  BY <1>8, <1>17, <2>1, <3>8 DEF PrepareAnswered
  <2>2. CASE Land(f, {}) /\ guards' = Released("benchmark")
    BY <1>7, <1>17, <2>2 DEF PrepareAnswered, Released, Guards
  <2>. QED  BY <1>17, <2>1, <2>2 DEF PrepareAnswered
<1>18. ASSUME NEW f \in flights, RowsAnswered(f) PROVE HandlersMove
  <2>1. Land(f, {}) /\ UNCHANGED clicks /\ f.kind \in {"rows", "prepared rows"}
    BY <1>18 DEF RowsAnswered
  <2>2. CASE f.kind = "rows"
    BY <1>7, <1>18, <2>1, <2>2 DEF RowsAnswered
  <2>3. CASE f.kind = "prepared rows"
    <3>1. guards' = [guards EXCEPT !["benchmark"] = FALSE]
      BY <1>18, <2>3 DEF RowsAnswered, Released
    <3>. QED  BY <1>7, <2>1, <2>3, <3>1 DEF Guards
  <2>. QED  BY <2>1, <2>2, <2>3
<1>19. ASSUME NEW f \in flights, BenchmarkAnswered(f) PROVE HandlersMove
  <2>1. /\ f.kind = "benchmark" /\ Land(f, {}) /\ UNCHANGED clicks
        /\ guards' = [guards EXCEPT !["benchmark"] = FALSE]
    BY <1>19 DEF BenchmarkAnswered, Released
  <2>. QED  BY <1>7, <2>1 DEF Guards
<1>. QED
  BY <1>1, <1>2, <1>3, <1>4, <1>5, <1>6, <1>10, <1>11, <1>12, <1>13, <1>14, <1>15, <1>16,
     <1>17, <1>18, <1>19 DEF ConsoleNext, PrepareBenchmark, RunBenchmarkCase

(* What a step does to the lists and the fields: an answer brings new      *)
(* lists, a choice is of what is offered, and clearing leaves the rest.    *)
ListsMove ==
  \/ UNCHANGED <<pageCases, options>>
  \/ pageCases' = pageCases /\ options' = {}
  \/ pageCases' \subseteq PageCases /\ options' = pageCases'
  \/ /\ options' = options /\ pageCases' \subseteq PageCases
     /\ \A c \in pageCases : c.kind # "payments" => c \in pageCases'

FieldsMove ==
  \/ UNCHANGED <<chosen, field, details, typed>>
  \/ chosen' = NoCase /\ UNCHANGED <<field, details, typed>>
  \/ \E c \in options : ShowChoice(c)
  \/ typed' = TRUE /\ field' \in PageCases \cup {NoCase} /\ UNCHANGED <<chosen, details>>

(* Lists that arrive are lists of cases.                                   *)
LEMMA NewLists ==
  ASSUME FlightsOK, served \subseteq PageCases, NEW f \in flights, Answered(f),
         \A s \in PageSources : f.got[s] # NoJson
  PROVE  NewCases(f) \subseteq PageCases
<1>1. \A s \in PageSources : ListOf(f, s) \subseteq PageCases
  BY Lists
<1>. QED  BY <1>1 DEF NewCases

(* Every action moves lists and fields in one of these ways.               *)
LEMMA PageMoves ==
  ASSUME PageInv, ConsoleNext
  PROVE  ListsMove /\ FieldsMove
<1>0. FlightsOK /\ served \subseteq PageCases /\ pageCases \subseteq PageCases
  BY TypesOf DEF PageInv, ConsoleTypeOK
<1>1. CASE Refresh
  BY <1>1 DEF Refresh, ListsMove, FieldsMove
<1>2. CASE ChooseCase
  BY <1>2 DEF ChooseCase, ListsMove, FieldsMove
<1>3. CASE TypeId
  BY <1>3 DEF TypeId, ListsMove, FieldsMove
<1>4. CASE Process \/ ImportHistory \/ ChangeFilter \/ PrepareBenchmark \/ RunBenchmarkCase
  BY <1>4 DEF Process, ImportHistory, ChangeFilter, PrepareBenchmark, RunBenchmarkCase,
              StartBenchmark, inputVars, ListsMove, FieldsMove
<1>5. ASSUME NEW f \in flights,
             \/ BridgeAnswered(f) \/ ListsAnswered(f) \/ PrepareAnswered(f)
             \/ RowsAnswered(f) \/ BenchmarkAnswered(f)
      PROVE  ListsMove /\ FieldsMove
  BY <1>5 DEF BridgeAnswered, ListsAnswered, PrepareAnswered, RowsAnswered, BenchmarkAnswered,
              inputVars, ListsMove, FieldsMove
<1>6. ASSUME NEW f \in flights, ExecuteAnswered(f) PROVE ListsMove /\ FieldsMove
  BY <1>6 DEF ExecuteAnswered, ListsMove, FieldsMove
<1>7. ASSUME NEW f \in flights, ImportAnswered(f) PROVE ListsMove /\ FieldsMove
  BY <1>7 DEF ImportAnswered, ListsMove, FieldsMove
<1>8. ASSUME NEW f \in flights, ImportEnds(f) PROVE ListsMove /\ FieldsMove
  BY <1>8 DEF ImportEnds, inputVars, ListsMove, FieldsMove
<1>9. ASSUME NEW f \in flights, ListsArrive(f) PROVE ListsMove /\ FieldsMove
  <2>1. NewCases(f) \subseteq PageCases
    BY <1>0, <1>9, NewLists DEF ListsArrive
  <2>. QED  BY <1>9, <2>1 DEF ListsArrive, ListsMove, FieldsMove
<1>10. ASSUME NEW f \in flights, ListsThrow(f) PROVE ListsMove /\ FieldsMove
  <2>1. CASE f.got["payments"] = NoJson
    BY <1>10, <2>1 DEF ListsThrow, inputVars, ListsMove, FieldsMove
  <2>2. CASE f.got["payments"] # NoJson
    <3>1. ListOf(f, "payments") \subseteq PageCases
      BY <1>0, <1>10, <2>2, Lists DEF ListsThrow, PageSources
    <3>2. pageCases' = {c \in pageCases : c.kind # "payments"} \cup ListOf(f, "payments")
      BY <1>10, <2>2 DEF ListsThrow
    <3>3. /\ pageCases' \subseteq PageCases
          /\ \A c \in pageCases : c.kind # "payments" => c \in pageCases'
      BY <1>0, <3>1, <3>2
    <3>. QED  BY <1>10, <3>3 DEF ListsThrow, inputVars, ListsMove, FieldsMove
  <2>. QED  BY <2>1, <2>2
<1>. QED  BY <1>1, <1>2, <1>3, <1>4, <1>5, <1>6, <1>7, <1>8, <1>9, <1>10 DEF ConsoleNext

(* Lists and options change together, but for the payments.                *)
LEMMA OffersKept == ASSUME OffersOK, ListsMove PROVE OffersOK'
BY DEF OffersOK, ListsMove

(* What is chosen is conclusion: only a payment can have lost its row.          *)
LEMMA ChoiceKept ==
  ASSUME OffersOK, ChoiceOK, options \subseteq PageCases, FieldsMove
  PROVE  ChoiceOK'
<1>1. CASE UNCHANGED <<chosen, field, details, typed>>
  BY <1>1 DEF ChoiceOK, Shown
<1>2. CASE chosen' = NoCase /\ UNCHANGED <<field, details, typed>>
  BY <1>2 DEF ChoiceOK, Shown
<1>3. ASSUME NEW c \in options, ShowChoice(c) PROVE ChoiceOK'
  BY <1>3 DEF ShowChoice, FieldOf, OffersOK, ChoiceOK, Shown
<1>4. CASE typed' = TRUE
  BY <1>4 DEF ChoiceOK
<1>. QED  BY <1>1, <1>2, <1>3, <1>4 DEF FieldsMove

(* What a step does to the panels and the status.                          *)
Quiet == {"PROCESSING", "IMPORTING HISTORY", "BENCHMARK PREPARING", "BENCHMARK PROCESSING",
          "FAILED", "IMPORT FAILED", "HISTORY READY", "BENCHMARK READY", "BENCHMARK FAILED"}
DrawnBy(e, says) ==
  /\ e \in Executions /\ \E conclusion \in {e, Hidden} : panels' = Render(e, conclusion)
  /\ runStatus' = says

PanelsMove ==
  \/ UNCHANGED panels /\ runStatus' \in Quiet \cup {runStatus}
  \/ panels' = [panels EXCEPT !.stages = Failed] /\ runStatus' \in Quiet
  \/ \E e : e.kind = "case" /\ DrawnBy(e, "COMPLETE")
  \/ \E e : e.kind = "benchmark" /\ DrawnBy(e, "BENCHMARK COMPLETE")

(* What is drawn is an execution of its kind.                              *)
LEMMA Executed ==
  ASSUME FlightsOK, NEW f \in flights, NEW kind \in {"case", "benchmark"}
  PROVE  Execution(kind, f) \in Executions /\ Execution(kind, f).kind = kind
<1>1. f.n \in Nat
  BY DEF FlightsOK, WellMade, Flights
<1>. QED  BY <1>1 DEF Execution, Executions

(* Every action leaves the panels, says that something failed, or draws    *)
(* them all.                                                               *)
LEMMA Draws ==
  ASSUME PageInv, ConsoleNext
  PROVE  PanelsMove
<1>0. FlightsOK
  BY DEF PageInv
<1>1. CASE Refresh \/ ChooseCase \/ TypeId \/ Process \/ ImportHistory \/ ChangeFilter
  BY <1>1 DEF Refresh, ChooseCase, TypeId, Process, ImportHistory, ChangeFilter, PanelsMove, Quiet
<1>2. CASE PrepareBenchmark \/ RunBenchmarkCase
  BY <1>2 DEF PrepareBenchmark, RunBenchmarkCase, StartBenchmark, PanelsMove, Quiet
<1>3. CASE CaseFailed
  BY <1>3 DEF CaseFailed, PanelsMove, Quiet
<1>4. ASSUME NEW f \in flights, BridgeAnswered(f) PROVE PanelsMove
  BY <1>3, <1>4 DEF BridgeAnswered, PanelsMove
<1>5. ASSUME NEW f \in flights, ExecuteAnswered(f) PROVE PanelsMove
  <2>1. CASE /\ runStatus' = "COMPLETE"
             /\ \E conclusion \in {Execution("case", f), Hidden} :
                  panels' = Render(Execution("case", f), conclusion)
    BY <1>0, <2>1, Executed DEF PanelsMove, DrawnBy
  <2>. QED  BY <1>3, <1>5, <2>1 DEF ExecuteAnswered
<1>6. ASSUME NEW f \in flights, ListsAnswered(f) \/ ListsArrive(f) \/ RowsAnswered(f)
      PROVE  PanelsMove
  BY <1>6 DEF ListsAnswered, ListsArrive, RowsAnswered, PanelsMove
<1>7. ASSUME NEW f \in flights, ListsThrow(f) PROVE PanelsMove
  <2>1. CASE f.kind = "process load"
    BY <1>3, <1>7, <2>1 DEF ListsThrow
  <2>2. CASE f.kind = "import load"
    BY <1>7, <2>2 DEF ListsThrow, PanelsMove, Quiet
  <2>3. CASE f.kind = "page load"
    BY <1>7, <2>3 DEF ListsThrow, PanelsMove
  <2>4. f.kind \in Loads
    BY <1>7 DEF ListsThrow, Answered
  <2>. QED  BY <2>1, <2>2, <2>3, <2>4 DEF Loads
<1>8. ASSUME NEW f \in flights, ImportAnswered(f) \/ ImportEnds(f) \/ PrepareAnswered(f)
      PROVE  PanelsMove
  BY <1>8 DEF ImportAnswered, ImportEnds, PrepareAnswered, PanelsMove, Quiet
<1>9. ASSUME NEW f \in flights, BenchmarkAnswered(f) PROVE PanelsMove
  <2>1. CASE /\ runStatus' = "BENCHMARK COMPLETE"
             /\ \E conclusion \in {Execution("benchmark", f), Hidden} :
                  panels' = Render(Execution("benchmark", f), conclusion)
    BY <1>0, <2>1, Executed DEF PanelsMove, DrawnBy
  <2>2. CASE runStatus' = "BENCHMARK FAILED" /\ panels' = [panels EXCEPT !.stages = Failed]
    BY <2>2 DEF PanelsMove, Quiet
  <2>. QED  BY <1>9, <2>1, <2>2 DEF BenchmarkAnswered
<1>. QED  BY <1>1, <1>2, <1>4, <1>5, <1>6, <1>7, <1>8, <1>9 DEF ConsoleNext

(* Panels that are drawn are of one execution, and the status says its     *)
(* kind.                                                                   *)
LEMMA PanelsKept ==
  ASSUME PanelsOK, PanelsMove
  PROVE  PanelsOK'
<1>1. CASE UNCHANGED panels /\ runStatus' \in Quiet \cup {runStatus}
  BY <1>1 DEF PanelsOK, PanelsOfOneExecution, CompleteNamesItsPanels, Quiet
<1>2. CASE panels' = [panels EXCEPT !.stages = Failed] /\ runStatus' \in Quiet
  <2>1. /\ panels'.stages = Failed
        /\ panels' = [stages |-> panels'.stages, conclusion |-> panels'.conclusion,
                      summary |-> panels'.summary]
    BY <1>2 DEF PanelsOK
  <2>. QED  BY <1>2, <2>1 DEF PanelsOK, PanelsOfOneExecution, CompleteNamesItsPanels, Quiet
<1>3. ASSUME NEW e, NEW says, DrawnBy(e, says),
             \/ says = "COMPLETE" /\ e.kind = "case"
             \/ says = "BENCHMARK COMPLETE" /\ e.kind = "benchmark"
      PROVE  PanelsOK'
  <2>1. PICK conclusion \in {e, Hidden} :
          panels' = [stages |-> e, conclusion |-> conclusion, summary |-> e]
    BY <1>3 DEF DrawnBy, Render
  <2>2. e \in Executions /\ e \notin {NoCase, Failed} /\ runStatus' = says
    BY <1>3, CaseFacts DEF DrawnBy
  <2>. QED  BY <1>3, <2>1, <2>2 DEF PanelsOK, PanelsOfOneExecution, CompleteNamesItsPanels
<1>4. ASSUME NEW e, e.kind = "case", DrawnBy(e, "COMPLETE") PROVE PanelsOK'
  BY <1>3, <1>4, Zenon
<1>5. ASSUME NEW e, e.kind = "benchmark", DrawnBy(e, "BENCHMARK COMPLETE") PROVE PanelsOK'
  BY <1>3, <1>5, Zenon
<1>. QED  BY <1>1, <1>2, <1>4, <1>5 DEF PanelsMove

(* What the server has, the rows on the page and the number of clicks.     *)
LEMMA RestMoves ==
  ASSUME PageInv, ConsoleNext
  PROVE  /\ served' \subseteq PageCases /\ pageRows' \in Labels \cup {NoCase}
         /\ clicks' \in 0 .. MaxClicks
<1>0. /\ served \subseteq PageCases /\ pageRows \in Labels \cup {NoCase} /\ FlightsOK
      /\ clicks \in 0 .. MaxClicks
  BY DEF PageInv, ConsoleTypeOK
<1>1. ASSUME Click PROVE clicks' \in 0 .. MaxClicks
  <2>1. MaxClicks \in Nat
    BY ConsoleAssumption, Zenon
  <2>. QED  BY <1>0, <1>1, <2>1 DEF Click
<1>2. CASE Refresh \/ ChooseCase \/ TypeId \/ Process \/ ImportHistory \/ ChangeFilter
  BY <1>0, <1>1, <1>2 DEF Refresh, ChooseCase, TypeId, Process, ImportHistory, ChangeFilter
<1>3. CASE PrepareBenchmark \/ RunBenchmarkCase
  BY <1>0, <1>1, <1>3 DEF PrepareBenchmark, RunBenchmarkCase, StartBenchmark
<1>4. ASSUME NEW f \in flights, f.kind \in CaseKinds PROVE f.about \in PageCases
  BY <1>0, <1>4 DEF FlightsOK, WellMade
<1>5. ASSUME NEW f \in flights, BridgeAnswered(f)
      PROVE  served' \subseteq PageCases /\ UNCHANGED <<pageRows, clicks>>
  <2>1. HoldFor(f.about) \in PageCases
    BY <1>4, <1>5, CaseFacts DEF BridgeAnswered, CaseKinds
  <2>. QED  BY <1>0, <1>5, <2>1 DEF BridgeAnswered
<1>6. ASSUME NEW f \in flights, ImportAnswered(f)
      PROVE  served' \subseteq PageCases /\ UNCHANGED <<pageRows, clicks>>
  <2>1. f.about \in PageCases
    BY <1>4, <1>6 DEF ImportAnswered, CaseKinds
  <2>. QED  BY <1>0, <1>6, <2>1 DEF ImportAnswered
<1>7. ASSUME NEW f \in flights, RowsAnswered(f)
      PROVE  pageRows' \in Labels \cup {NoCase} /\ UNCHANGED <<served, clicks>>
  <2>1. f.about \in Labels
    BY <1>0, <1>7 DEF RowsAnswered, FlightsOK, WellMade, LabelKinds
  <2>. QED  BY <1>0, <1>7, <2>1 DEF RowsAnswered
<1>8. ASSUME NEW f \in flights,
             \/ ExecuteAnswered(f) \/ ImportEnds(f) \/ ListsAnswered(f) \/ ListsArrive(f)
             \/ ListsThrow(f) \/ PrepareAnswered(f) \/ BenchmarkAnswered(f)
      PROVE  UNCHANGED <<served, pageRows, clicks>>
  BY <1>8 DEF ExecuteAnswered, ImportEnds, ListsAnswered, ListsArrive, ListsThrow,
              PrepareAnswered, BenchmarkAnswered
<1>. QED  BY <1>0, <1>2, <1>3, <1>5, <1>6, <1>7, <1>8 DEF ConsoleNext

(* The fields and lists stay of their types.                               *)
LEMMA PageTypesKept ==
  ASSUME PageInv, ConsoleNext, HandlersMove, ListsMove, FieldsMove
  PROVE  ConsoleTypeOK'
<1>0. /\ pageCases \subseteq PageCases /\ options \subseteq PageCases /\ typed \in BOOLEAN
      /\ chosen \in PageCases \cup {NoCase} /\ field \in PageCases \cup {NoCase}
      /\ details \in PageCases \cup {NoCase} /\ guards \in [{"running", "benchmark", "importing"} -> BOOLEAN]
  BY DEF PageInv, ConsoleTypeOK
<1>1. pageCases' \subseteq PageCases /\ options' \subseteq PageCases
  BY <1>0 DEF ListsMove
<1>2. /\ chosen' \in PageCases \cup {NoCase} /\ field' \in PageCases \cup {NoCase}
      /\ details' \in PageCases \cup {NoCase} /\ typed' \in BOOLEAN
  BY <1>0 DEF FieldsMove, ShowChoice, FieldOf
<1>3. guards' \in [{"running", "benchmark", "importing"} -> BOOLEAN]
  <2>1. CASE UNCHANGED guards
    BY <1>0, <2>1
  <2>2. ASSUME NEW x, NEW up \in BOOLEAN, guards' = [guards EXCEPT ![x] = up]
        PROVE  guards' \in [{"running", "benchmark", "importing"} -> BOOLEAN]
    BY <1>0, <2>2, Zenon
  <2>. QED  BY <2>1, <2>2 DEF HandlersMove
<1>4. {chosen', field', details'} \subseteq PageCases \cup {NoCase}
  BY <1>2
<1>. QED  BY <1>1, <1>2, <1>3, <1>4, RestMoves DEF ConsoleTypeOK

(* Every step keeps the invariant of the page.                             *)
LEMMA PageStep ==
  ASSUME PageInv, [ConsoleNext]_consoleVars
  PROVE  PageInv'
<1>1. CASE ConsoleNext
  <2>1. HandlersMove /\ ListsMove /\ FieldsMove /\ PanelsMove
    BY <1>1, Moves, PageMoves, Draws
  <2>2. ConsoleTypeOK'
    BY <1>1, <2>1, PageTypesKept
  <2>3. FlightsOK' /\ HandlersOK'
    BY <2>1, TypesOf, FlightsKept, GuardsKept DEF PageInv
  <2>4. OffersOK' /\ ChoiceOK'
    BY <2>1, OffersKept, ChoiceKept DEF PageInv, ConsoleTypeOK
  <2>5. PanelsOK'
    BY <2>1, PanelsKept DEF PageInv
  <2>. QED  BY <2>2, <2>3, <2>4, <2>5 DEF PageInv
<1>2. CASE UNCHANGED consoleVars
  BY <1>2 DEF consoleVars, PageInv, ConsoleTypeOK, FlightsOK, OffersOK, ChoiceOK, Shown, PanelsOK,
              PanelsOfOneExecution, CompleteNamesItsPanels, HandlersOK, Held
<1>. QED  BY <1>1, <1>2

(* A page that has just been opened satisfies it.                          *)
LEMMA PageStart == ConsoleInit => PageInv
<1>. SUFFICES ASSUME ConsoleInit PROVE PageInv
  OBVIOUS
<1>1. PICK label \in Labels : label = CHOOSE l \in Labels : TRUE
  BY ConsoleAssumption
<1>2. PICK g, h : g = Flight("page load", 0, NoCase) /\ h = Flight("rows", 0, label)
  OBVIOUS
<1>3. /\ WellMade(g) /\ g.kind = "page load" /\ g.n = 0
      /\ WellMade(h) /\ h.kind = "rows" /\ h.n = 0
  <2>1. PICK loadOfPage \in FlightKinds, loadOfRows \in FlightKinds : loadOfPage = "page load" /\ loadOfRows = "rows"
    BY DEF FlightKinds
  <2>2. /\ loadOfPage \notin CaseKinds /\ loadOfPage \notin LabelKinds /\ loadOfRows \notin CaseKinds
    BY <2>1 DEF CaseKinds, LabelKinds
  <2>3. PICK zero \in Nat : zero = 0
    OBVIOUS
  <2>4. PICK nothing \in PageCases \cup Labels \cup {NoCase} : nothing = NoCase
    OBVIOUS
  <2>5. /\ WellMade(Flight(loadOfPage, zero, nothing))
        /\ Flight(loadOfPage, zero, nothing).kind = loadOfPage /\ Flight(loadOfPage, zero, nothing).n = zero
    BY <2>2, NewFlight
  <2>6. /\ WellMade(Flight(loadOfRows, zero, label))
        /\ Flight(loadOfRows, zero, label).kind = loadOfRows /\ Flight(loadOfRows, zero, label).n = zero
    BY <2>2, NewFlight
  <2>7. g = Flight(loadOfPage, zero, nothing) /\ h = Flight(loadOfRows, zero, label)
    BY <1>2, <2>1, <2>3, <2>4
  <2>. QED  BY <2>1, <2>3, <2>5, <2>6, <2>7
<1>4. flights = {g, h} /\ clicks = 0
  BY <1>1, <1>2 DEF ConsoleInit
<1>5. FlightsOK
  <2>0. g.n = 0 /\ h.n = 0 /\ clicks = 0
    BY <1>3, <1>4
  <2>1. g.n <= clicks /\ h.n <= clicks
    BY <2>0
  <2>. QED  BY <1>3, <1>4, <2>1 DEF FlightsOK
<1>6. HandlersOK
  <2>1. ASSUME NEW x \in Guards PROVE Held(x) = {} /\ ~guards[x]
    <3>1. x # "none"
      BY DEF Guards
    <3>2. Held(x) = {}
      BY <1>3, <1>4, <3>1, FlagKinds DEF Held
    <3>3. ~guards[x]
      <4>1. x = "running" \/ x = "importing" \/ x = "benchmark"
        BY DEF Guards
      <4>2. /\ guards["running"] = FALSE /\ guards["importing"] = FALSE
            /\ guards["benchmark"] = FALSE
        BY DEF ConsoleInit
      <4>. QED  BY <4>1, <4>2
    <3>. QED  BY <3>2, <3>3
  <2>. QED  BY <2>1 DEF HandlersOK, One
<1>7. ConsoleTypeOK
  <2>1. served \subseteq PageCases
    BY DEF ConsoleInit, PageCases
  <2>2. clicks \in 0 .. MaxClicks
    <3>1. MaxClicks \in Nat
      BY ConsoleAssumption, Zenon
    <3>. QED  BY <1>4, <3>1
  <2>3. guards \in [{"running", "benchmark", "importing"} -> BOOLEAN]
    <3>1. guards = [running |-> FALSE, benchmark |-> FALSE, importing |-> FALSE]
      BY DEF ConsoleInit
    <3>2. PICK D : D = {"running", "benchmark", "importing"}
      OBVIOUS
    <3>3. guards = [x \in D |-> guards[x]]
      BY <3>1, <3>2
    <3>4. \A x \in D : guards[x] = FALSE
      BY <3>1, <3>2
    <3>. QED  BY <3>2, <3>3, <3>4
  <2>. QED  BY <2>1, <2>2, <2>3 DEF ConsoleInit, ConsoleTypeOK
<1>8. OffersOK /\ ChoiceOK
  BY DEF ConsoleInit, OffersOK, ChoiceOK
<1>9. PanelsOK
  <2>1. panels = [stages |-> NoCase, conclusion |-> Hidden, summary |-> NoCase] /\ runStatus = "WAITING"
    BY DEF ConsoleInit
  <2>. QED  BY <2>1 DEF PanelsOK, PanelsOfOneExecution, CompleteNamesItsPanels
<1>. QED  BY <1>5, <1>6, <1>7, <1>8, <1>9 DEF PageInv

(* One handler is counted as one.                                          *)
LEMMA OneCounted ==
  ASSUME NEW S, NEW up, One(S, up)
  PROVE  Cardinality(S) = IF up THEN 1 ELSE 0
<1>1. CASE up
  <2>1. PICK f : S = {f}
    BY <1>1 DEF One
  <2>. QED  BY <1>1, <2>1, FS_Singleton
<1>2. CASE ~up
  BY <1>2, FS_EmptySet DEF One
<1>. QED  BY <1>1, <1>2

(* The flags follow the handlers.                                          *)
LEMMA GuardsFollow == PageInv => GuardsFollowHandlers
<1>. SUFFICES ASSUME PageInv PROVE GuardsFollowHandlers
  OBVIOUS
<1>1. /\ InFlight({"bridge", "execute", "process load"}) = Held("running")
      /\ InFlight({"import", "import load", "training"}) = Held("importing")
      /\ InFlight({"prepare", "prepared rows", "benchmark"}) = Held("benchmark")
  <2>1. ASSUME NEW f \in flights
        PROVE  /\ f.kind \in {"bridge", "execute", "process load"} <=> GuardOf(f.kind) = "running"
               /\ f.kind \in {"import", "import load", "training"} <=> GuardOf(f.kind) = "importing"
               /\ f.kind \in {"prepare", "prepared rows", "benchmark"} <=> GuardOf(f.kind) = "benchmark"
    <3>1. f.kind \in FlightKinds
      BY DEF PageInv, FlightsOK, WellMade, Flights
    <3>. QED  BY <3>1, FlagKinds DEF FlightKinds
  <2>. QED  BY <2>1 DEF InFlight, Held
<1>2. /\ One(Held("running"), guards.running) /\ One(Held("importing"), guards.importing)
      /\ One(Held("benchmark"), guards.benchmark)
  BY DEF PageInv, HandlersOK, Guards
<1>3. /\ Cardinality(Held("running")) = IF guards.running THEN 1 ELSE 0
      /\ Cardinality(Held("importing")) = IF guards.importing THEN 1 ELSE 0
      /\ Cardinality(Held("benchmark")) = IF guards.benchmark THEN 1 ELSE 0
  BY <1>2, OneCounted, Zenon
<1>. QED  BY <1>1, <1>3, Zenon DEF GuardsFollowHandlers

(* What begins to be processed is what the details show.                   *)
LEMMA ShownIsProcessed ==
  ASSUME PageInv, ConsoleNext, NEW f \in flights' \ flights,
         f.kind \in {"bridge", "execute"}, f.n > clicks, ~typed
  PROVE  Shown(f.about)
<1>0. clicks \in Nat
  BY TypesOf
<1>1. CASE Process
  <2>1. PICK kind, n : /\ flights' = flights \cup {Flight(kind, n, CaseInput)} /\ CaseInput # NoCase
    BY <1>1 DEF Process
  <2>2. f.about = CaseInput
    BY <2>1 DEF Flight
  <2>3. CaseInput = field /\ field # NoCase
    BY <2>1 DEF CaseInput, PageInv, ChoiceOK
  <2>. QED  BY <2>2, <2>3 DEF PageInv, ChoiceOK
<1>2. CASE UNCHANGED clicks
  <2>1. ASSUME NEW e \in flights, Continued(e, f) PROVE f.n <= clicks
    BY <2>1 DEF Continued, PageInv, FlightsOK
  <2>2. HandlersMove
    BY Moves
  <2>3. ~Click
    BY <1>0, <1>2 DEF Click
  <2>4. PICK e \in flights : \/ Ended(e)
                            \/ \E g : Continued(e, g)
    BY <2>2, <2>3 DEF HandlersMove
  <2>5. \E g : Continued(e, g) /\ g = f
    BY <2>4 DEF Ended, Continued
  <2>6. f.n \in Nat
    BY <2>5 DEF Continued, WellMade, Flights
  <2>. QED  BY <1>0, <2>1, <2>5, <2>6
<1>3. ASSUME NEW kind, NEW n, NEW about, flights' = flights \cup {Flight(kind, n, about)}
      PROVE  f.kind = kind
  BY <1>3 DEF Flight
<1>4. ASSUME Refresh \/ ImportHistory \/ ChangeFilter \/ PrepareBenchmark \/ RunBenchmarkCase
             \/ ChooseCase \/ TypeId
      PROVE  FALSE
  <2>1. CASE Refresh
    BY <1>3, <2>1 DEF Refresh
  <2>2. CASE ImportHistory
    BY <1>3, <2>2 DEF ImportHistory
  <2>3. CASE ChangeFilter
    BY <1>3, <2>3 DEF ChangeFilter
  <2>4. CASE PrepareBenchmark \/ RunBenchmarkCase
    BY <1>3, <2>4 DEF PrepareBenchmark, RunBenchmarkCase, StartBenchmark
  <2>5. CASE ChooseCase \/ TypeId
    BY <2>5 DEF ChooseCase, TypeId
  <2>. QED  BY <1>4, <2>1, <2>2, <2>3, <2>4, <2>5
<1>5. ASSUME NEW e \in flights,
             \/ BridgeAnswered(e) \/ ExecuteAnswered(e) \/ ImportAnswered(e) \/ ImportEnds(e)
             \/ ListsAnswered(e) \/ ListsArrive(e) \/ ListsThrow(e)
             \/ PrepareAnswered(e) \/ RowsAnswered(e) \/ BenchmarkAnswered(e)
      PROVE  UNCHANGED clicks
  BY <1>5 DEF BridgeAnswered, ExecuteAnswered, ImportAnswered, ImportEnds, ListsAnswered,
              ListsArrive, ListsThrow, PrepareAnswered, RowsAnswered, BenchmarkAnswered
<1>. QED  BY <1>1, <1>2, <1>4, <1>5 DEF ConsoleNext

(* However answers and clicks overlap, the page shows one case at a time.  *)
THEOREM PageIsOfOneCase == ConsoleSpec => PageShowsOneCase
<1>1. PageInv => /\ ConsoleTypeOK /\ PanelsOfOneExecution /\ CompleteNamesItsPanels
                    /\ GuardsFollowHandlers
  BY GuardsFollow DEF PageInv, PanelsOK
<1>2. PageInv /\ [ConsoleNext]_consoleVars =>
        [\A f \in flights' \ flights :
           f.kind \in {"bridge", "execute"} /\ f.n > clicks /\ ~typed =>
             f.about = details \/ (details = NoCase /\ f.about.kind = "payments")]_consoleVars
  BY ShownIsProcessed DEF Shown
<1>. QED  BY <1>1, <1>2, PageStart, PageStep, PTL DEF ConsoleSpec, PageShowsOneCase, ProcessedIsShown

----------------------------------------------------------------------------
(* The records together.  A behaviour of MCRecords is, for each part, a    *)
(* behaviour of that part: the part runs, or stays as it began.            *)
LEMMA PartsStart ==
  RecordsInit => /\ CaseInit /\ LiveInit /\ HistoryInit /\ AnaInit /\ BenchInit
                 /\ ResearchInit /\ OutputInit /\ SyncInit /\ TimelineInit
                 /\ ConsoleInit /\ FlowInit /\ SplitsInit /\ WindowsInit /\ GuardInit
                 /\ RulesInit /\ SearchInit
BY DEF RecordsInit

(* A step of the records is, for each part, a step of it or none,          *)
LEMMA PartsStep ==
  [RecordsNext]_recordVars =>
    /\ [CaseNext]_caseVars /\ [LiveNext]_liveVars /\ [HistoryNext]_historyVars
    /\ [AnaNext]_anaVars /\ [BenchNext]_benchVars /\ [ResearchNext]_researchVars
    /\ [OutputNext]_outputVars /\ [SyncNext]_syncVars /\ [TimelineNext]_timelineVars
    /\ [ConsoleNext]_consoleVars /\ [FlowNext]_flowVars /\ [SplitsNext]_splitVars
    /\ [WindowsNext]_windowVars /\ [GuardNext]_guardVars /\ [RulesNext]_exam
    /\ [SearchNext]_searchVars
BY DEF RecordsNext, recordVars, notCase, notLive, notHistory, notAna, notBench,
       notResearch, notFlow, notOutput, notRules, notSplits, notWindows, notConsole,
       notSync, notSearch, notGuard, notTimeline

(* and so is a behaviour.                                                  *)
LEMMA PartsRun ==
  RecordsSpec => /\ CaseSpec /\ LiveSpec /\ HistorySpec /\ AnaSpec /\ BenchSpec
                 /\ ResearchSpec /\ OutputSpec /\ SyncSpec /\ TimelineSpec
                 /\ ConsoleSpec /\ FlowSpec /\ SplitsSpec /\ WindowsSpec /\ GuardSpec
                 /\ RulesSpec /\ SearchSpec
BY PartsStart, PartsStep, PTL
   DEF RecordsSpec, CaseSpec, LiveSpec, HistorySpec, AnaSpec, BenchSpec, ResearchSpec,
       OutputSpec, SyncSpec, TimelineSpec, ConsoleSpec, FlowSpec, SplitsSpec, WindowsSpec,
       GuardSpec, RulesSpec, SearchSpec

(* Whatever is killed, repeated or replaced, sealed rows judge one frozen  *)
(* candidate, once: the sealed merchants of a training run and those of    *)
(* the research cycles.                                                    *)
THEOREM SealedDataIsKept == RecordsSpec => []SealedDataJudgesOnce
BY PartsRun, OutputIsOneRun, SealedRowsJudgeOnce, PTL DEF SealedDataJudgesOnce

(* No kill between two files makes a half-written benchmark, release,      *)
(* report or import pass for a whole one.                                  *)
THEOREM FilesAreWhole == RecordsSpec => []FilesSurviveKills
BY PartsRun, OutputIsOneRun, SealedRowsJudgeOnce, BenchmarkIsWhole, ImportsSurviveKills, PTL
   DEF FilesSurviveKills

(* What was known at a time stays what was known then: a snapshot that     *)
(* passed, a preview of a past cutoff, and the outcome told of a payment.  *)
THEOREM ThePastIsKept == RecordsSpec => ThePastStays
BY PartsRun, PassedIsFinal, PreviewsKeepTheirPast, ToldForGood, PTL DEF ThePastStays

(* However answers and clicks overlap, the page of the records shows one   *)
(* case at a time.                                                         *)
THEOREM PageIsKept == RecordsSpec => PageShowsOneCase
BY PartsRun, PageIsOfOneCase, PTL

(* Every feature is of the past, and of all of it: no row that came later  *)
(* reaches a preview, a case of a history or a simulated baseline, and     *)
(* none that came before is left out or counted twice.                     *)
THEOREM FeaturesAreOfThePast == RecordsSpec => []FeaturesLookBack
BY PartsRun, PreviewsAreWhole, HistoriesLookBack, WindowsRun, PTL DEF FeaturesLookBack

(* However many merchants, families, rows, folds and ties there are,       *)
(* nothing is judged on what it learned from.                              *)
THEOREM NothingJudgesItself == RecordsSpec => []JudgedOnUnseenData
BY PartsRun, NobodyJudgesItself, TimeIsRespected, LeftOutIsUnseen, PTL DEF JudgedOnUnseenData

(* However many rows, levels, ties, families and cases there are: what the *)
(* rules leave out, signal, release and choose is what they promise.  That *)
(* an exact test does not reject at its own target is taken as given.      *)
THEOREM RulesKeepAllPromises ==
  ASSUME MeansAreNotRejected
  PROVE  RecordsSpec => []RulesKeepTheirPromises
<1>1. RulesSpec => []CorrectedGateOnlyForgivesExcess
  BY MeansAreNotRejected, GateForgivesExcess
<1>. QED  BY <1>1, PartsRun, RulesAreKept, SearchesAreSound, ChoicesAreWhole, GuardsAreChosenWell, PTL
          DEF RulesKeepTheirPromises
============================================================================
