---------------------------- MODULE TrainingOutput ----------------------------
(***************************************************************************)
(* The output directory of train_model.py over several runs of the script, *)
(* one after the other: each may be of another seed or of changed code, may*)
(* fail, or be killed while it writes a file.  No file is ever replaced.   *)
(***************************************************************************)
EXTENDS Integers, Sequences, SequencesExt

CONSTANTS
  Configs,       \* what a run depends on: records of a seed and a source tree
  MaxTrainings,  \* bound: runs of the script
  NotThere, TornFile,  \* a file that is not there, a file half written
  NoRun

\* Mutant: the sealed evaluation comes before the report that binds the directory.
JudgeFirst == <<"data", "split", "judge", "training", "sealed", "conformal", "release", "key">>

\* What a run leaves behind, in order; "judge" is the sealed evaluation.
TrainingOrder == <<"data", "split", "training", "judge", "sealed", "conformal",
                   "release", "key">>
Kept == ToSet(TrainingOrder) \ {"judge"}

VARIABLES
  keeps,     \* what each file of the directory says: NotThere, TornFile or whose it is
  trainer,   \* NoRun, or the run's configuration and the step it is at
  judged,    \* the configurations evaluated on the sealed test merchants
  trainings

outputVars == <<keeps, trainer, judged, trainings>>

OutputInit ==
  /\ keeps = [f \in Kept |-> NotThere]
  /\ trainer = NoRun /\ judged = {} /\ trainings = 0

\* The data set and the split follow from the seed, the rest from the code too.
Content(f, c) == IF f \in {"data", "split"} THEN [c EXCEPT !.code = NotThere] ELSE c

\* What a run writes is a whole file, and NoRun is no run.
ASSUME OutputAssumption ==
  /\ NotThere # TornFile
  /\ \A c \in Configs :
       /\ \A f \in Kept : Content(f, c) \notin {NotThere, TornFile}
       /\ \A n \in 1..Len(TrainingOrder) : NoRun # [config |-> c, step |-> n]

StartTraining ==
  /\ trainer = NoRun /\ trainings < MaxTrainings
  /\ \E c \in Configs : trainer' = [config |-> c, step |-> 1]
  /\ trainings' = trainings + 1
  /\ UNCHANGED <<keeps, judged>>

NextStep == IF trainer.step = Len(TrainingOrder) THEN NoRun
                                                 ELSE [trainer EXCEPT !.step = @ + 1]

\* _write_immutable, write_split_manifest and write_dataset leave an equal file
\* alone and raise on any other; save_model_release wants an empty directory.
MayWrite(f) ==
  \/ keeps[f] = NotThere
  \/ f # "release" /\ keeps[f] = Content(f, trainer.config)

WriteOutput ==
  /\ trainer # NoRun /\ TrainingOrder[trainer.step] # "judge"
  /\ LET f == TrainingOrder[trainer.step]
     IN  IF MayWrite(f)
           THEN /\ keeps' = [keeps EXCEPT ![f] = Content(f, trainer.config)]
                /\ trainer' = NextStep
           ELSE trainer' = NoRun /\ UNCHANGED keeps
  /\ UNCHANGED <<judged, trainings>>

\* evaluate_sealed_test and the conformal summary look at the test merchants.
Judge ==
  /\ trainer # NoRun /\ TrainingOrder[trainer.step] = "judge"
  /\ judged' = judged \cup {trainer.config}
  /\ trainer' = NextStep
  /\ UNCHANGED <<keeps, trainings>>

\* The run fails (no thresholds qualify, no signing key) or is killed, which may
\* leave the file it was writing torn.
StopTraining ==
  /\ trainer # NoRun
  /\ \/ UNCHANGED keeps
     \/ /\ TrainingOrder[trainer.step] \in Kept
        /\ keeps[TrainingOrder[trainer.step]] = NotThere
        /\ keeps' = [keeps EXCEPT ![TrainingOrder[trainer.step]] = TornFile]
  /\ trainer' = NoRun
  /\ UNCHANGED <<judged, trainings>>

OutputNext == StartTraining \/ WriteOutput \/ Judge \/ StopTraining

OutputSpec == OutputInit /\ [][OutputNext]_outputVars

-----------------------------------------------------------------------------
\* However often the script is run on a directory, by whatever code and after
\* whatever crash, its sealed test merchants judge one configuration only: the
\* training report binds the directory before the test is looked at.
SealedTestJudgesOneModel == \A a, b \in judged : a = b

\* A release in the directory is of the configuration every report there
\* describes; none of them is missing, torn or of an earlier run.
ReleaseIsTheOneReported ==
  keeps["release"] \in Configs =>
    \A f \in Kept \ {"release", "key"} : keeps[f] = Content(f, keeps["release"])
=============================================================================
