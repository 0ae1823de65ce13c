--------------------------- MODULE PublicBenchmark ---------------------------
(***************************************************************************)
(* The public card-fraud benchmark: public_benchmark.py, and the routes    *)
(* api.py puts in front of it.  Preparing it downloads a published file,   *)
(* verifies it, trains on it and writes the files a later process loads,   *)
(* the summary last.  The process may be killed between any two writes,    *)
(* and the publisher may put a newer edition in place.                     *)
(***************************************************************************)
EXTENDS Integers, Sequences, SequencesExt

CONSTANTS
  LastEdition,  \* editions the publisher gets to
  MaxPrepares,  \* bound: calls of the prepare route that do any work
  MaxKills,     \* bound: kills of the process
  NotSaved, Torn, \* a file that does not exist, a file half written
  AtRest          \* nothing is being prepared, nothing is loaded

\* prepare() saves the files in this order and _load_runtime wants them all.
SavedFiles == <<"model", "calibrator", "scaler", "forest", "conformal",
                "reference", "split", "summary">>

\* Mutant: the summary is written before the files it describes.
SummaryFirst == <<"summary", "model", "calibrator", "scaler", "forest",
                  "conformal", "reference", "split">>

SaveOrder == SavedFiles

Artifacts == ToSet(SavedFiles)

Preparings == [edition : Nat, saved : Nat]
SourceFiles == [edition : Nat, cut : BOOLEAN]

\* What stands for nothing is no edition, no download and no runtime.
ASSUME BenchAssumption ==
  /\ LastEdition \in Nat
  /\ NotSaved # Torn /\ NotSaved \notin Nat \cup SourceFiles /\ Torn \notin Nat
  /\ AtRest \notin Preparings \cup [Artifacts -> Nat]

VARIABLES
  edition,    \* the edition the publisher serves
  sourceFile,     \* creditcard.csv: NotSaved, or the edition and whether it is cut short
  file,       \* what each saved file holds: NotSaved, Torn or an edition
  preparing,  \* AtRest, or the edition trained on and the files already saved
  loaded,     \* _runtime: AtRest, or the edition of each of its parts
  prepares, kills

benchVars == <<edition, sourceFile, file, preparing, loaded, prepares, kills>>

BenchInit ==
  /\ edition = 1
  /\ sourceFile = NotSaved
  /\ file = [f \in Artifacts |-> NotSaved]
  /\ preparing = AtRest /\ loaded = AtRest
  /\ prepares = 0 /\ kills = 0

\* An outside event: the publisher replaces the file behind SOURCE_URL.
PublishEdition ==
  /\ edition < LastEdition
  /\ edition' = edition + 1
  /\ UNCHANGED <<sourceFile, file, preparing, loaded, prepares, kills>>

\* _load_runtime succeeds: every file is there and none is torn.  With a file
\* missing it returns False; with a torn one it raises.
AllThere == \A f \in Artifacts : file[f] # NotSaved
Loadable == \A f \in Artifacts : file[f] \notin {NotSaved, Torn}

\* status(): READY is said of the summary and the reference alone.
Status ==
  IF loaded # AtRest THEN "READY"
  ELSE CASE file["summary"] = NotSaved    -> "NOT_PREPARED"
         [] file["summary"] = Torn      -> "ARTIFACT_INVALID"
         [] file["reference"] = NotSaved  -> "REPREPARE_REQUIRED"
         [] OTHER                       -> "READY"

\* The checks on the downloaded file: columns, row count, labels, fraud count,
\* finite values.  A file cut short has too few rows.
SourceVerified(s) == ~s.cut

\* _source_file: a forced call, or one that finds no file, downloads into a part
\* file that replaces the old one when the answer has ended.  A connection the
\* server closes early ends the answer too; an error leaves the old file.
Sources(force) ==
  IF force \/ sourceFile = NotSaved
    THEN {sourceFile} \cup [edition : {edition}, cut : BOOLEAN]
    ELSE {sourceFile}
DownloadFailed(force, s) == (force \/ sourceFile = NotSaved) /\ s = sourceFile

\* The split, the models and the measures of a verified file: all its parts are
\* of the edition that was read.
Trained(s) == [edition |-> s.edition, saved |-> 0]

\* The work of prepare() up to the first save: a call with a runtime and no
\* force returns it; one that finds every file loads them, or raises on a torn
\* one; otherwise the source is fetched and verified and the model is trained.
BeginPrepare(force) ==
  /\ preparing = AtRest /\ prepares < MaxPrepares
  /\ force \/ (loaded = AtRest /\ ~AllThere)
  /\ prepares' = prepares + 1
  /\ \E s \in Sources(force) :
       /\ sourceFile' = s
       /\ preparing' = IF DownloadFailed(force, s) \/ ~SourceVerified(s) THEN AtRest
                       ELSE Trained(s)
  /\ UNCHANGED <<edition, file, loaded, kills>>

\* One of the files is replaced.
SaveFile ==
  /\ preparing # AtRest /\ preparing.saved < Len(SaveOrder)
  /\ file' = [file EXCEPT ![SaveOrder[preparing.saved + 1]] = preparing.edition]
  /\ preparing' = [preparing EXCEPT !.saved = @ + 1]
  /\ UNCHANGED <<edition, sourceFile, loaded, prepares, kills>>

\* After the last one the new runtime takes the place of the old.
FinishPrepare ==
  /\ preparing # AtRest /\ preparing.saved = Len(SaveOrder)
  /\ loaded' = [f \in Artifacts |-> preparing.edition]
  /\ preparing' = AtRest
  /\ UNCHANGED <<edition, sourceFile, file, prepares, kills>>

\* prepare() without force, list_cases and execute load what is on disk.
LoadRuntime ==
  /\ preparing = AtRest /\ loaded = AtRest /\ Loadable
  /\ loaded' = file
  /\ UNCHANGED <<edition, sourceFile, file, preparing, prepares, kills>>

\* The process dies; a file it was writing is left half written.
KillBenchmark ==
  /\ kills < MaxKills /\ (preparing # AtRest \/ loaded # AtRest)
  /\ kills' = kills + 1
  /\ preparing' = AtRest /\ loaded' = AtRest
  /\ \/ UNCHANGED file
     \/ /\ preparing # AtRest /\ preparing.saved < Len(SaveOrder)
        /\ file' = [file EXCEPT ![SaveOrder[preparing.saved + 1]] = Torn]
  /\ UNCHANGED <<edition, sourceFile, prepares>>

BenchNext ==
  \/ PublishEdition
  \/ \E force \in BOOLEAN : BeginPrepare(force)
  \/ SaveFile
  \/ FinishPrepare
  \/ LoadRuntime
  \/ KillBenchmark

BenchSpec == BenchInit /\ [][BenchNext]_benchVars

-----------------------------------------------------------------------------
\* A runtime never answers with a part older than the summary it quotes: after
\* any number of killed preparations, with or without force, the files that
\* load together are at least as new as the summary saved after them
\* (public_benchmark.py:521, :944).
PartsAsNewAsTheirSummary ==
  loaded # AtRest => \A f \in Artifacts : loaded[f] >= loaded["summary"]

\* READY, when no runtime is loaded, is not said over a file that is missing: the
\* summary is on disk only once everything before it is (public_benchmark.py:230).
ReadyHasItsFiles == Status = "READY" => AllThere
=============================================================================
