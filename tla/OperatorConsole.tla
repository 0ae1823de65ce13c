--------------------------- MODULE OperatorConsole ---------------------------
(* The operator's page (src/razortrust/web/app.js) as its event loop runs it:
   a handler runs to its next await without interruption, and whatever the
   operator clicks while an answer is outstanding runs in between.  Three flags
   keep a second run of the same kind out; they do not keep the kinds apart,
   and the panels of the page belong to all of them.                          *)
EXTENDS Naturals, FiniteSets

CONSTANTS
  PagePayments,    \* payments of the authoritative store
  PageHistories,   \* histories an operator may import
  Labels,          \* filters of the benchmark rows
  Unsteady,        \* the lists (of PageSources) whose request may fail
  MaxClicks,       \* bound: operator actions in a behaviour
  NoCase,          \* an empty field, selection or panel
  Waiting, Refused, NoJson, Failed, Hidden   \* answers and panel contents

VARIABLES
  served,      \* the server's cases
  pageCases,       \* state.payments, state.histories and state.holds
  options,     \* the cases the selection offers
  chosen,      \* the selection's value
  field,       \* the case typed or copied into the ID field
  details,     \* the case whose details are shown
  typed,       \* the operator edited the ID field after the last selection
  panels,      \* stage grid, conclusion and summary
  runStatus,
  guards,      \* running, benchmarkRunning, importingHistory (and their buttons)
  pageRows,        \* label of the benchmark rows listed, or NoCase
  flights,     \* handlers waiting for an answer
  clicks       \* operator actions so far; an action's number names its handler

consoleVars == <<served, pageCases, options, chosen, field, details, typed, panels,
                 runStatus, guards, pageRows, flights, clicks>>
inputVars == <<chosen, field, details, typed>>

PageSources == {"payments", "histories", "holds"}
OfSource(s) == [kind : {s}, id : PagePayments \cup PageHistories]
PageCases == OfSource("holds") \cup [kind : {"payments"}, id : PagePayments]
                               \cup [kind : {"histories"}, id : PageHistories]
HoldFor(c) == [kind |-> "holds", id |-> c.id]
Loads == {"page load", "process load", "import load"}
Executions == [kind : {"case", "benchmark"}, n : Nat]

\* What stands for nothing is no case and no execution; there is a filter.
ASSUME ConsoleAssumption ==
  /\ NoCase \notin PageCases \cup Executions /\ Failed \notin Executions
  /\ Labels # {} /\ MaxClicks \in Nat

Unanswered == [s \in PageSources |-> Waiting]
Flight(kind, n, about) == [kind |-> kind, n |-> n, about |-> about, got |-> Unanswered]

ConsoleInit ==
  /\ served = [kind : {"payments"}, id : PagePayments]
  /\ pageCases = {} /\ options = {}
  /\ chosen = NoCase /\ field = NoCase /\ details = NoCase /\ typed = FALSE
  /\ panels = [stages |-> NoCase, conclusion |-> Hidden, summary |-> NoCase]
  /\ runStatus = "WAITING" /\ pageRows = NoCase /\ clicks = 0
  /\ guards = [running |-> FALSE, benchmark |-> FALSE, importing |-> FALSE]
  /\ flights = {Flight("page load", 0, NoCase), Flight("rows", 0, CHOOSE label \in Labels : TRUE)}

Click == clicks < MaxClicks /\ clicks' = clicks + 1

Refresh ==
  /\ Click
  /\ flights' = flights \cup {Flight("page load", clicks', NoCase)}
  /\ options' = {} /\ chosen' = NoCase
  /\ UNCHANGED <<served, pageCases, field, details, typed, panels, runStatus, guards, pageRows>>

(* The change handler of the selection copies the case to the ID field and
   shows what the lists hold of it.                                           *)
FieldOf(c) == c

ShowChoice(c) ==
  /\ chosen' = c /\ field' = FieldOf(c) /\ typed' = FALSE
  /\ details' = IF c \in pageCases THEN c ELSE NoCase

ChooseCase ==
  /\ Click
  /\ \E c \in options \ {chosen} : ShowChoice(c)
  /\ UNCHANGED <<served, pageCases, options, panels, runStatus, guards, pageRows, flights>>

TypeId ==
  /\ Click
  /\ \E c \in PageCases \cup {NoCase} : field' = c
  /\ typed' = TRUE
  /\ UNCHANGED <<served, pageCases, options, chosen, details, panels, runStatus, guards,
                 pageRows, flights>>

(* processCase up to its first request; the ID field goes before the selection. *)
CaseInput == IF field # NoCase THEN field ELSE chosen

Process ==
  /\ Click /\ ~guards.running /\ CaseInput # NoCase
  /\ guards' = [guards EXCEPT !.running = TRUE]
  /\ runStatus' = "PROCESSING"
  /\ flights' = flights \cup
       {Flight(IF CaseInput.kind = "payments" THEN "bridge" ELSE "execute", clicks', CaseInput)}
  /\ UNCHANGED <<served, pageCases, options, panels, pageRows>> /\ UNCHANGED inputVars

ImportHistory ==
  /\ Click /\ ~guards.importing
  /\ \E h \in PageHistories :
       flights' = flights \cup {Flight("import", clicks', [kind |-> "histories", id |-> h])}
  /\ guards' = [guards EXCEPT !.importing = TRUE]
  /\ runStatus' = "IMPORTING HISTORY"
  /\ UNCHANGED <<served, pageCases, options, panels, pageRows>> /\ UNCHANGED inputVars

(* prepareBenchmark and runBenchmarkCase share a flag.                        *)
StartBenchmark(kind, saying) ==
  /\ Click /\ ~guards.benchmark
  /\ guards' = [guards EXCEPT !.benchmark = TRUE]
  /\ runStatus' = saying
  /\ flights' = flights \cup {Flight(kind, clicks', NoCase)}
  /\ UNCHANGED <<served, pageCases, options, panels, pageRows>> /\ UNCHANGED inputVars

PrepareBenchmark == StartBenchmark("prepare", "BENCHMARK PREPARING")
RunBenchmarkCase == pageRows # NoCase /\ StartBenchmark("benchmark", "BENCHMARK PROCESSING")

ChangeFilter ==
  /\ Click
  /\ \E label \in Labels : flights' = flights \cup {Flight("rows", clicks', label)}
  /\ UNCHANGED <<served, pageCases, options, panels, runStatus, guards, pageRows>>
  /\ UNCHANGED inputVars

-----------------------------------------------------------------------------
(* The answers.  Land(f, next) ends one wait of a handler and begins the next. *)
Land(f, next) == flights' = (flights \ {f}) \cup next

(* The finally blocks: they run after success and after failure.              *)
Released(guard) == [guards EXCEPT ![guard] = FALSE]

(* renderStages, renderConclusion and the summary, in one uninterrupted block;
   a result without a conclusion hides that panel.                            *)
RenderStagesOnly(execution, conclusion) == [panels EXCEPT !.stages = execution]
Render(execution, conclusion) ==
  [stages |-> execution, conclusion |-> conclusion, summary |-> execution]

Execution(kind, f) == [kind |-> kind, n |-> f.n]

CaseFailed ==
  /\ runStatus' = "FAILED"
  /\ panels' = [panels EXCEPT !.stages = Failed]
  /\ guards' = Released("running")

(* POST payments/{id}/case: the server makes or finds the payment's hold.     *)
BridgeAnswered(f) ==
  /\ f.kind = "bridge"
  /\ \/ /\ served' = served \cup {HoldFor(f.about)}
        /\ Land(f, {Flight("execute", f.n, HoldFor(f.about))})
        /\ UNCHANGED <<panels, runStatus, guards>>
     \/ /\ served' \in {served, served \cup {HoldFor(f.about)}}
        /\ Land(f, {}) /\ CaseFailed
  /\ UNCHANGED <<pageCases, options, pageRows, clicks>> /\ UNCHANGED inputVars

(* POST layer-execution: the panels are filled, then the lists are reloaded
   while the case still counts as running.                                    *)
ExecuteAnswered(f) ==
  /\ f.kind = "execute"
  /\ \/ /\ f.about \in served
        /\ \E shown \in {Execution("case", f), Hidden} :
             panels' = Render(Execution("case", f), shown)
        /\ runStatus' = "COMPLETE"
        /\ Land(f, {Flight("process load", f.n, NoCase)})
        /\ options' = {} /\ chosen' = NoCase
        /\ UNCHANGED guards
     \/ Land(f, {}) /\ CaseFailed /\ UNCHANGED <<options, chosen>>
  /\ UNCHANGED <<served, pageCases, field, details, typed, pageRows, clicks>>

(* The three list requests of a load are answered (their moments are taken
   together); an answer without JSON is an empty hold list but no list of
   payments or histories.                                                     *)
Answers(s) ==
  {{c \in served : c.kind = s}} \cup
  (IF s \notin Unsteady THEN {} ELSE {Refused, IF s = "holds" THEN {} ELSE NoJson})

ListsAnswered(f) ==
  /\ f.kind \in Loads /\ f.got = Unanswered
  /\ \E p \in Answers("payments"), h \in Answers("histories"), o \in Answers("holds") :
       Land(f, {[f EXCEPT !.got = [payments |-> p, histories |-> h, holds |-> o]]})
  /\ UNCHANGED <<served, pageCases, options, panels, runStatus, guards, pageRows, clicks>>
  /\ UNCHANGED inputVars

Answered(f) == f.kind \in Loads /\ f.got # Unanswered
ListOf(f, s) == IF f.got[s] = Refused THEN {} ELSE f.got[s]
NewCases(f) == UNION {ListOf(f, s) : s \in PageSources}

(* What loadCases' end means to the handler that awaited it.                  *)
Resume(f) ==
  CASE f.kind = "process load" ->
         Land(f, {}) /\ guards' = Released("running")
    [] f.kind = "import load" ->
         Land(f, {Flight("training", f.n, f.about)}) /\ UNCHANGED guards
    [] OTHER -> Land(f, {}) /\ UNCHANGED guards

(* All settled: the three lists and the options made from them change together. *)
ListsArrive(f) ==
  /\ Answered(f)
  /\ \A s \in PageSources : f.got[s] # NoJson
  /\ pageCases' = NewCases(f) /\ options' = NewCases(f) /\ chosen' = NoCase
  /\ Resume(f)
  /\ UNCHANGED <<served, field, details, typed, panels, runStatus, pageRows, clicks>>

(* An answer without JSON throws half-way: the lists before it are replaced,
   the selection keeps its "Loading" line, and the awaiting handler fails.    *)
ListsThrow(f) ==
  /\ Answered(f)
  /\ NoJson \in {f.got["payments"], f.got["histories"]}
  /\ pageCases' = IF f.got["payments"] = NoJson THEN pageCases
              ELSE {c \in pageCases : c.kind # "payments"} \cup ListOf(f, "payments")
  /\ Land(f, {})
  /\ CASE f.kind = "process load" -> CaseFailed
       [] f.kind = "import load" ->
            /\ runStatus' = "IMPORT FAILED" /\ guards' = Released("importing")
            /\ UNCHANGED panels
       [] OTHER -> UNCHANGED <<runStatus, guards, panels>>
  /\ UNCHANGED <<served, options, pageRows, clicks>> /\ UNCHANGED inputVars

(* POST import: a failed answer may come of an import that was kept.          *)
ImportAnswered(f) ==
  /\ f.kind = "import"
  /\ \/ /\ served' = served \cup {f.about}
        /\ Land(f, {Flight("import load", f.n, f.about)})
        /\ options' = {} /\ chosen' = NoCase
        /\ UNCHANGED <<runStatus, guards>>
     \/ /\ served' \in {served, served \cup {f.about}}
        /\ Land(f, {})
        /\ runStatus' = "IMPORT FAILED" /\ guards' = Released("importing")
        /\ UNCHANGED <<options, chosen>>
  /\ UNCHANGED <<pageCases, field, details, typed, panels, pageRows, clicks>>

(* After the training note the imported row is looked up in the lists as they
   are now; an option that is not offered leaves the selection empty.         *)
ImportEnds(f) ==
  /\ f.kind = "training" /\ Land(f, {})
  /\ guards' = Released("importing")
  /\ runStatus' = "HISTORY READY"
  /\ IF f.about \notin pageCases THEN UNCHANGED inputVars
     ELSE IF f.about \in options THEN ShowChoice(f.about)
     ELSE chosen' = NoCase /\ UNCHANGED <<field, details, typed>>
  /\ UNCHANGED <<served, pageCases, options, panels, pageRows, clicks>>

PrepareAnswered(f) ==
  /\ f.kind = "prepare"
  /\ \/ /\ runStatus' = "BENCHMARK READY"
        /\ \E label \in Labels : Land(f, {[Flight("rows", f.n, label) EXCEPT !.kind = "prepared rows"]})
        /\ UNCHANGED guards
     \/ /\ runStatus' = "BENCHMARK FAILED"
        /\ Land(f, {}) /\ guards' = Released("benchmark")
  /\ UNCHANGED <<served, pageCases, options, panels, pageRows, clicks>> /\ UNCHANGED inputVars

(* loadBenchmarkCases catches its failure; prepareBenchmark goes on after it. *)
RowsAnswered(f) ==
  /\ f.kind \in {"rows", "prepared rows"} /\ Land(f, {})
  /\ pageRows' \in {f.about, NoCase}
  /\ guards' = IF f.kind = "prepared rows" THEN Released("benchmark") ELSE guards
  /\ UNCHANGED <<served, pageCases, options, panels, runStatus, clicks>> /\ UNCHANGED inputVars

BenchmarkAnswered(f) ==
  /\ f.kind = "benchmark" /\ Land(f, {})
  /\ guards' = Released("benchmark")
  /\ \/ /\ runStatus' = "BENCHMARK COMPLETE"
        /\ \E shown \in {Execution("benchmark", f), Hidden} :
             panels' = Render(Execution("benchmark", f), shown)
     \/ /\ runStatus' = "BENCHMARK FAILED"
        /\ panels' = [panels EXCEPT !.stages = Failed]
  /\ UNCHANGED <<served, pageCases, options, pageRows, clicks>> /\ UNCHANGED inputVars

ConsoleNext ==
  \/ Refresh \/ ChooseCase \/ TypeId \/ Process \/ ImportHistory
  \/ PrepareBenchmark \/ RunBenchmarkCase \/ ChangeFilter
  \/ \E f \in flights :
       \/ BridgeAnswered(f) \/ ExecuteAnswered(f) \/ ImportAnswered(f) \/ ImportEnds(f)
       \/ ListsAnswered(f) \/ ListsArrive(f) \/ ListsThrow(f)
       \/ PrepareAnswered(f) \/ RowsAnswered(f) \/ BenchmarkAnswered(f)

ConsoleSpec == ConsoleInit /\ [][ConsoleNext]_consoleVars
-----------------------------------------------------------------------------
(* The stages, the conclusion and the summary an operator reads side by side
   come from one execution, whichever executions overlap: a result is drawn
   without an await in between, and a conclusion of an earlier execution is
   hidden or replaced.  A failure is said in the stage grid's place.          *)
PanelsOfOneExecution ==
  panels.stages \notin {NoCase, Failed} =>
    /\ panels.summary = panels.stages
    /\ panels.conclusion \in {panels.stages, Hidden}

(* A status that says an execution is complete stands over panels of that kind:
   what another handler draws later changes the status with it.               *)
CompleteNamesItsPanels ==
  /\ runStatus = "COMPLETE" => panels.stages \notin {NoCase, Failed} /\ panels.stages.kind = "case"
  /\ runStatus = "BENCHMARK COMPLETE" =>
       panels.stages \notin {NoCase, Failed} /\ panels.stages.kind = "benchmark"

InFlight(S) == {f \in flights : f.kind \in S}

(* A flag is up (and its buttons are off) exactly while one handler of its kind
   waits for an answer: no path through a failure leaves the page locked, and
   none lets a second run of the kind begin.                                  *)
GuardsFollowHandlers ==
  LET running == InFlight({"bridge", "execute", "process load"})
      importing == InFlight({"import", "import load", "training"})
      benchmark == InFlight({"prepare", "prepared rows", "benchmark"})
  IN /\ Cardinality(running) = IF guards.running THEN 1 ELSE 0
     /\ Cardinality(importing) = IF guards.importing THEN 1 ELSE 0
     /\ Cardinality(benchmark) = IF guards.benchmark THEN 1 ELSE 0

(* What is processed is the case whose details are on the page, unless the
   operator edited the ID field after the last selection; a reload that clears
   the selection and an import that changes it do not come in between.  Only a
   payment may have no details: its option outlives its row when one load is
   refused the payments and throws before it makes the options anew.          *)
ProcessedIsShown ==
  [][\A f \in flights' \ flights :
       f.kind \in {"bridge", "execute"} /\ f.n > clicks /\ ~typed =>
         f.about = details \/ (details = NoCase /\ f.about.kind = "payments")]_consoleVars

ConsoleTypeOK ==
  /\ served \subseteq PageCases /\ pageCases \subseteq PageCases /\ options \subseteq PageCases
  /\ {chosen, field, details} \subseteq PageCases \cup {NoCase}
  /\ typed \in BOOLEAN /\ guards \in [{"running", "benchmark", "importing"} -> BOOLEAN]
  /\ pageRows \in Labels \cup {NoCase} /\ clicks \in 0..MaxClicks

(* However answers and clicks overlap, the page shows one case at a time:  *)
(* its panels are of one execution, the status names what they show, no    *)
(* handler leaves the page locked, and what is processed is what was       *)
(* looked at.                                                              *)
PageShowsOneCase ==
  /\ [](ConsoleTypeOK /\ PanelsOfOneExecution /\ CompleteNamesItsPanels /\ GuardsFollowHandlers)
  /\ ProcessedIsShown
=============================================================================
