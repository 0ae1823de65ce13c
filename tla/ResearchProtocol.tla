--------------------------- MODULE ResearchProtocol ---------------------------
(***************************************************************************)
(* The scripts of the research record, each run as a process of its own:   *)
(* the audit of model v3A, the last v3B experiment, its reproduction and   *)
(* the final cycle.  They meet in files: the corpus, which somebody may    *)
(* replace at any time and every script reads more than once, and the      *)
(* output directories, which a killed run leaves as they are.              *)
(***************************************************************************)
EXTENDS Integers, FiniteSets, Sequences, SequencesExt

CONSTANTS
  Studies,        \* runs of the scripts
  ScriptOf,       \* the script of each run
  CycleOutputs,   \* directories a final cycle may be told to write
  Corpora,        \* contents the corpus file may have
  PartitionOf,    \* the partition lock (content_sha256) of each corpus
  MaxReplaced,    \* bound: replacements of the corpus file
  NotRun

ASSUME ScriptsAssumption ==
  ScriptOf \in [Studies -> {"audit", "experiment", "reproduce", "cycle"}]

\* What the final cycle does after the partition check, in order.  A name with
\* ".json" is a report write_json leaves in the output directory.
StepOrder ==
  <<"provenance.json", "partitions.json", "leakage.json", "selection.json",
    "errors.json", "gate.json", "explain.json", "freeze", "load", "sealed",
    "validation.json", "loadability.json", "final.json", "manifest.json">>
StepAt(n) == StepOrder[n]
Guarded == {"freeze", "load", "sealed"}       \* only after a passed gate
Reports == ToSet(StepOrder) \ Guarded

\* What the files and the runs may hold: a lock with the corpus it was hashed
\* from, the v3B directory, the frozen candidate of a cycle, a cycle's directory.
Locks == [corpus : Corpora, partition : {PartitionOf[c] : c \in Corpora}]
Experiments == [by : Studies, data : Corpora, signed : {NotRun} \cup Locks]
FrozenCandidates == [by : Studies, data : Corpora, corpus : Corpora]
Outputs == [reports : SUBSET Reports, candidate : {NotRun} \cup FrozenCandidates,
            validated : BOOLEAN]

\* A file that is not there is told from every file, and the v3B directory from
\* those of the cycles.
ASSUME FilesAssumption ==
  /\ NotRun \notin Experiments \cup FrozenCandidates \cup Outputs
  /\ "experiment" \notin CycleOutputs

VARIABLES
  corpus, replaced,  \* the corpus file, and how often it was replaced
  audit,             \* v3a_error_audit.json: NotRun, or what it says it is of
  experiment,        \* the v3B directory: NotRun, or what is in it
  reproduction,      \* the reproduction report: NotRun, or what it says
  output,            \* each cycle's directory: NotRun, or what is in it
  study,             \* each run
  sealedOpened       \* the runs that made the sealed rows available, and where

researchVars == <<corpus, replaced, audit, experiment, reproduction, output,
                  study, sealedOpened>>

NewStudy == [at |-> "new", out |-> NotRun, hashed |-> NotRun, data |-> NotRun,
             gate |-> FALSE, loads |-> FALSE, valid |-> FALSE, step |-> 1]

ResearchInit ==
  /\ corpus \in Corpora /\ replaced = 0
  /\ audit = NotRun /\ experiment = NotRun /\ reproduction = NotRun
  /\ output = [o \in CycleOutputs |-> NotRun]
  /\ study = [s \in Studies |-> NewStudy]
  /\ sealedOpened = {}

\* An outside event: the corpus at the fixed path is generated anew.
ReplaceCorpus ==
  /\ replaced < MaxReplaced
  /\ \E c \in Corpora \ {corpus} : corpus' = c
  /\ replaced' = replaced + 1
  /\ UNCHANGED <<audit, experiment, reproduction, output, study, sealedOpened>>

At(s, script, place) == ScriptOf[s] = script /\ study[s].at = place
Goes(s, place) == study' = [study EXCEPT ![s].at = place]
\* The script raises or the process is killed: what it wrote stays.
Ends(s) == Goes(s, "ended")

\* audit_v3a_error_structure.py: the rows are loaded; the file is hashed only
\* when the report is put together.  write_json refuses to overwrite it.
AuditLoad(s) ==
  /\ At(s, "audit", "new")
  /\ study' = [study EXCEPT ![s].at = "loaded", ![s].data = corpus]
  /\ UNCHANGED <<corpus, replaced, audit, experiment, reproduction, output, sealedOpened>>

AuditWrite(s) ==
  /\ At(s, "audit", "loaded")
  /\ IF audit = NotRun
       THEN audit' = [corpus |-> corpus, partition |-> PartitionOf[study[s].data]]
       ELSE UNCHANGED audit
  /\ Ends(s)
  /\ UNCHANGED <<corpus, replaced, experiment, reproduction, output, sealedOpened>>

\* run_v3b_final_experiment.py refuses an existing directory, wants the audit to
\* name the corpus it hashes now, and loads the corpus after that.
ExperimentStart(s) ==
  /\ At(s, "experiment", "new")
  /\ IF experiment = NotRun /\ audit # NotRun /\ audit.corpus = corpus
       THEN study' = [study EXCEPT ![s].at = "hashed", ![s].hashed = corpus]
       ELSE Ends(s)
  /\ UNCHANGED <<corpus, replaced, audit, experiment, reproduction, output, sealedOpened>>

\* The partition check, then the search and the gate: nothing is on disk yet.
ExperimentGate(s) ==
  /\ At(s, "experiment", "hashed")
  /\ IF audit.partition # PartitionOf[corpus]
       THEN Ends(s)
       ELSE \E passed \in BOOLEAN :
              study' = [study EXCEPT ![s].at = "gated", ![s].data = corpus,
                                     ![s].gate = passed]
  /\ UNCHANGED <<corpus, replaced, audit, experiment, reproduction, output, sealedOpened>>

\* The directory is made and the gate report written; a passed gate opens the
\* sealed and the unknown rows.
ExperimentWrite(s) ==
  /\ At(s, "experiment", "gated")
  /\ IF experiment # NotRun
       THEN Ends(s) /\ UNCHANGED <<experiment, sealedOpened>>
       ELSE /\ experiment' = [by |-> s, data |-> study[s].data, signed |-> NotRun]
            /\ sealedOpened' = sealedOpened \cup
                 (IF study[s].gate THEN {[by |-> s, out |-> "experiment"]} ELSE {})
            /\ Goes(s, "written")
  /\ UNCHANGED <<corpus, replaced, audit, reproduction, output>>

\* _freeze_candidate: signed whether the gate passed or not, naming the corpus
\* hashed at the start.
ExperimentFreeze(s) ==
  /\ At(s, "experiment", "written")
  /\ experiment' = [experiment EXCEPT
       !.signed = [corpus |-> study[s].hashed, partition |-> PartitionOf[study[s].data]]]
  /\ Ends(s)
  /\ UNCHANGED <<corpus, replaced, audit, reproduction, output, sealedOpened>>

\* reproduce_v3b_before_final_cycle.py: the signed candidate, the hash of the
\* corpus, ...
ReproduceStart(s) ==
  /\ At(s, "reproduce", "new")
  /\ IF /\ reproduction = NotRun /\ experiment # NotRun
        /\ experiment.signed # NotRun /\ experiment.signed.corpus = corpus
       THEN Goes(s, "hashed")
       ELSE Ends(s)
  /\ UNCHANGED <<corpus, replaced, audit, experiment, reproduction, output, sealedOpened>>

\* ... the partition lock and the gate's numbers, which other rows may miss, ...
ReproduceGate(s) ==
  /\ At(s, "reproduce", "hashed")
  /\ \/ /\ PartitionOf[corpus] = experiment.signed.partition
        /\ study' = [study EXCEPT ![s].at = "matched", ![s].data = corpus]
     \/ corpus # experiment.data /\ Ends(s)
  /\ UNCHANGED <<corpus, replaced, audit, experiment, reproduction, output, sealedOpened>>

\* ... and a report that hashes the file once more.
ReproduceWrite(s) ==
  /\ At(s, "reproduce", "matched")
  /\ IF reproduction = NotRun
       THEN reproduction' = [corpus |-> corpus, partition |-> PartitionOf[study[s].data]]
       ELSE UNCHANGED reproduction
  /\ Ends(s)
  /\ UNCHANGED <<corpus, replaced, audit, experiment, output, sealedOpened>>

\* run_final_research_cycle.py: no directory yet, a reproduction, its corpus.
CycleStart(s) ==
  /\ At(s, "cycle", "new")
  /\ \E o \in CycleOutputs :
       IF output[o] = NotRun /\ reproduction # NotRun /\ reproduction.corpus = corpus
         THEN study' = [study EXCEPT ![s].at = "checked", ![s].out = o]
         ELSE Ends(s)
  /\ UNCHANGED <<corpus, replaced, audit, experiment, reproduction, output, sealedOpened>>

NewOutput == [reports |-> {}, candidate |-> NotRun, validated |-> FALSE]

\* args.output.mkdir(parents=True): the second of two runs raises here.
MakesOutput(o) == output[o] = NotRun /\ output' = [output EXCEPT ![o] = NewOutput]

CycleClaim(s) ==
  /\ At(s, "cycle", "checked")
  /\ MakesOutput(study[s].out) /\ Goes(s, "claimed")
  /\ UNCHANGED <<corpus, replaced, audit, experiment, reproduction, sealedOpened>>

\* The directory is there: the claim, like any failure, ends the run.  A kill
\* may come at any point of any script.
StudyEnds(s) ==
  /\ study[s].at \notin {"new", "ended"}
  /\ Ends(s)
  /\ UNCHANGED <<corpus, replaced, audit, experiment, reproduction, output, sealedOpened>>

\* The lock of the rows just loaded is the one the reproduction names.
LockedPartition(c) == PartitionOf[c] = reproduction.partition

\* Loading and the partition check come after mkdir: a failure leaves the
\* directory and so blocks every later run there.
CycleLoad(s) ==
  /\ At(s, "cycle", "claimed")
  /\ IF ~LockedPartition(corpus)
       THEN Ends(s)
       ELSE \E passed \in BOOLEAN :
              study' = [study EXCEPT ![s].at = "running", ![s].data = corpus,
                                     ![s].gate = passed]
  /\ UNCHANGED <<corpus, replaced, audit, experiment, reproduction, output, sealedOpened>>

Working(s, step) == At(s, "cycle", "running") /\ StepAt(study[s].step) = step
Advance(s) ==
  IF study[s].step = Len(StepOrder)
    THEN [study[s] EXCEPT !.at = "ended"]
    ELSE [study[s] EXCEPT !.step = @ + 1]

\* write_json raises when the file is there and says something else (StudyEnds).
CycleReport(s) ==
  \E report \in Reports :
    /\ Working(s, report)
    /\ output' = [output EXCEPT
         ![study[s].out].reports = @ \cup {report},
         ![study[s].out].validated = @ \/ (report = "final.json" /\ study[s].valid)]
    /\ study' = [study EXCEPT ![s] = Advance(s)]
    /\ UNCHANGED <<corpus, replaced, audit, experiment, reproduction, sealedOpened>>

\* A failed gate skips what only a passed one may do.
CycleSkip(s) ==
  \E step \in Guarded :
    /\ Working(s, step) /\ ~study[s].gate
    /\ study' = [study EXCEPT ![s] = Advance(s)]
    /\ UNCHANGED <<corpus, replaced, audit, experiment, reproduction, output, sealedOpened>>

\* _freeze: files, manifest, signature and its self-check; the manifest's corpus
\* hash is that of the file as it is now.
CycleFreeze(s) ==
  /\ Working(s, "freeze") /\ study[s].gate
  /\ output[study[s].out].candidate = NotRun
  /\ output' = [output EXCEPT ![study[s].out].candidate =
                  [by |-> s, data |-> study[s].data, corpus |-> corpus]]
  /\ study' = [study EXCEPT ![s] = Advance(s)]
  /\ UNCHANGED <<corpus, replaced, audit, experiment, reproduction, sealedOpened>>

\* _loadability_test: a difference is reported and does not stop the run.
CycleLoads(s) ==
  /\ Working(s, "load") /\ study[s].gate
  /\ \E ok \in BOOLEAN : study' = [study EXCEPT ![s] = [Advance(s) EXCEPT !.loads = ok]]
  /\ UNCHANGED <<corpus, replaced, audit, experiment, reproduction, output, sealedOpened>>

\* "This is the only branch in which sealed/unknown rows are materialized."
CycleOpen(s) ==
  /\ Working(s, "sealed") /\ study[s].gate
  /\ sealedOpened' = sealedOpened \cup {[by |-> s, out |-> study[s].out]}
  /\ \E ok \in BOOLEAN :
       study' = [study EXCEPT ![s] = [Advance(s) EXCEPT !.valid = ok /\ study[s].loads]]
  /\ UNCHANGED <<corpus, replaced, audit, experiment, reproduction, output>>

ResearchNext ==
  \/ ReplaceCorpus
  \/ \E s \in Studies :
       \/ AuditLoad(s) \/ AuditWrite(s)
       \/ ExperimentStart(s) \/ ExperimentGate(s) \/ ExperimentWrite(s) \/ ExperimentFreeze(s)
       \/ ReproduceStart(s) \/ ReproduceGate(s) \/ ReproduceWrite(s)
       \/ CycleStart(s) \/ CycleClaim(s) \/ CycleLoad(s) \/ CycleReport(s)
       \/ CycleSkip(s) \/ CycleFreeze(s) \/ CycleLoads(s) \/ CycleOpen(s)
       \/ StudyEnds(s)

ResearchSpec == ResearchInit /\ [][ResearchNext]_researchVars

-----------------------------------------------------------------------------
\* A directory's final cycle opens the sealed rows once, however many runs were
\* started on it at the same time and whichever of them were killed.
SealedIsOpenedOnce ==
  \A a, b \in sealedOpened : a.out = b.out => a = b

\* When a final cycle opens the sealed rows, the candidate it will be judged by
\* is frozen in its directory, by that run, from the rows it was selected on.
SealedJudgesAFrozenCandidate ==
  \A a \in sealedOpened :
    a.out \in CycleOutputs =>
      /\ output[a.out].candidate # NotRun
      /\ output[a.out].candidate.by = a.by
      /\ output[a.out].candidate.data = study[a.by].data
      /\ study[a.by].gate

\* Whatever replaces the corpus and whenever: rows are opened as sealed only
\* under the partition lock the v3B candidate was signed with, so no merchant
\* of one experiment's development set is in another's sealed set.
OneLockForAllStudies ==
  \A a \in sealedOpened :
    /\ a.out = "experiment" => PartitionOf[study[a.by].data] = audit.partition
    /\ a.out \in CycleOutputs =>
         PartitionOf[study[a.by].data] = experiment.signed.partition

\* The final report is on disk only with every report it lists, so a killed run
\* never reads as a finished one; and it says VALIDATED only after a candidate
\* that loads was judged on sealed rows.
FinalReportIsLast ==
  \A o \in CycleOutputs :
    (output[o] # NotRun /\ "final.json" \in output[o].reports)
      => Reports \ output[o].reports \subseteq {"manifest.json"}
=============================================================================
