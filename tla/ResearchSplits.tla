---------------------------- MODULE ResearchSplits ----------------------------
(***************************************************************************)
(* Which rows the research code trains, selects and judges on, by time:    *)
(* the outer partitions of v3_research.py, the expanding windows and the   *)
(* release threshold of final_cycle.py and the split of the public         *)
(* benchmark.  A row is a hold window of one merchant; a state is one      *)
(* corpus, or one list of scored rows.                                     *)
(***************************************************************************)
EXTENDS Integers, FiniteSets, FiniteSetsExt

CONSTANTS
  Windows,         \* the rows, numbers in the order of the hash that breaks ties
  FamilyOf,        \* their scenario families
  UnknownFamilies, \* those held out whole
  Instants,        \* hold times
  Bins,            \* temporal bins
  Scored,          \* rows a threshold is selected on
  Scores,          \* their possible scores, in order
  MaxRateDen,      \* the false-release limit is 1 / MaxRateDen
  MostListed,      \* held-out rows of the benchmark in a listing
  Empty

\* Rows and instants are numbers.
ASSUME SplitsAssumption ==
  /\ IsFiniteSet(Windows) /\ Windows \subseteq Nat /\ Instants \subseteq Nat
  /\ Bins \in Nat \ {0} /\ Scored \in Nat /\ MaxRateDen \in Nat /\ MostListed \in Nat
  /\ IsFiniteSet(Scores) /\ Scores # {} /\ Scores \subseteq Int

VARIABLES heldAt,    \* Empty, or the hold time of each row
          selection, \* Empty, or scored rows with their labels
          listing    \* Empty, or how many rows there are and how many are asked for

splitVars == <<heldAt, selection, listing>>

Unexamined == heldAt = Empty /\ selection = Empty /\ listing = Empty
SplitsInit == Unexamined

Families == {FamilyOf[w] : w \in Windows} \ UnknownFamilies
RowsOfFamily(family) == {w \in Windows : FamilyOf[w] = family}

\* sort_values(["hold_triggered_at", "_tie"])
Precedes(v, w) == heldAt[v] < heldAt[w] \/ (heldAt[v] = heldAt[w] /\ v < w)
Position(rs, w) == Cardinality({v \in rs : Precedes(v, w)})

-----------------------------------------------------------------------------
\* create_research_partitions: 70 / 15 / 15 within each known family.
DevelopmentEnd(n) == (70 * n) \div 100
GateEnd(n) == (85 * n) \div 100
TooSmall(n) == DevelopmentEnd(n) < 1 \/ GateEnd(n) <= DevelopmentEnd(n) \/ GateEnd(n) >= n
Partitioned == \A f \in Families : ~TooSmall(Cardinality(RowsOfFamily(f)))

PartitionOfRow(w) ==
  LET rs == RowsOfFamily(FamilyOf[w])
      at == Position(rs, w)
  IN  IF FamilyOf[w] \in UnknownFamilies THEN "unknown_family"
      ELSE IF at < DevelopmentEnd(Cardinality(rs)) THEN "development"
      ELSE IF at < GateEnd(Cardinality(rs)) THEN "v3b_gate" ELSE "sealed"

\* temporal_splits over the development rows: bins by position in the family;
\* its ties are broken by a hash of their own, here the opposite order.
Development == {w \in Windows : PartitionOfRow(w) = "development"}
FoldPosition(rs, w) ==
  Cardinality({v \in rs : heldAt[v] < heldAt[w] \/ (heldAt[v] = heldAt[w] /\ v > w)})
FoldOf(development, w) ==
  LET rs == development \cap RowsOfFamily(FamilyOf[w])
  IN  Min({(FoldPosition(rs, w) * Bins) \div Cardinality(rs), Bins - 1})
Folds == LET development == Development IN [w \in development |-> FoldOf(development, w)]

\* The rows a window's model is fitted on, for the validation bin b.
FitRows(folds, b) == {w \in DOMAIN folds : folds[w] < b}
ValidationRows(folds, b) == {w \in DOMAIN folds : folds[w] = b}

\* The benchmark: a stable sort by Time, then 60 / 20 / 20.
BenchmarkPart(w) ==
  LET at == Position(Windows, w)
      n  == Cardinality(Windows)
  IN  IF at < (60 * n) \div 100 THEN 0 ELSE IF at < (80 * n) \div 100 THEN 1 ELSE 2

ExamineCorpus ==
  /\ Unexamined
  /\ \E f \in [Windows -> Instants] : heldAt' = f
  /\ UNCHANGED <<selection, listing>>

-----------------------------------------------------------------------------
\* select_release_threshold: the share of the non-release rows selected, ...
NonRelease == {i \in 1..Scored : ~selection[i].release}
SelectedRows(t) == {i \in 1..Scored : selection[i].score >= t}

RateOf(t) == <<Cardinality(SelectedRows(t) \cap NonRelease), Cardinality(NonRelease)>>
Allowed(t) == RateOf(t)[1] * MaxRateDen <= RateOf(t)[2]

\* ... over "above every score" and the scores themselves, ...
AboveAll == Max(Scores) + 1
Candidates == {AboveAll} \cup {selection[i].score : i \in 1..Scored}
RecalledAt(t) == Cardinality(SelectedRows(t) \ NonRelease)
\* ... the best by recall, then precision (1 when nothing is selected), then the
\* lowest threshold.
NotLess(a, b) ==
  LET precision(x, y) ==   \* precision of x >= precision of y
        (IF SelectedRows(x) = {} THEN 1 ELSE RecalledAt(x)) *
        (IF SelectedRows(y) = {} THEN 1 ELSE Cardinality(SelectedRows(y)))
          - (IF SelectedRows(y) = {} THEN 1 ELSE RecalledAt(y)) *
            (IF SelectedRows(x) = {} THEN 1 ELSE Cardinality(SelectedRows(x)))
  IN  \/ RecalledAt(a) > RecalledAt(b)
      \/ RecalledAt(a) = RecalledAt(b) /\ precision(a, b) > 0
      \/ RecalledAt(a) = RecalledAt(b) /\ precision(a, b) = 0 /\ a <= b
BestThreshold ==
  CHOOSE t \in Candidates : Allowed(t) /\ \A u \in Candidates : Allowed(u) => NotLess(t, u)

ExamineScores ==
  /\ Unexamined
  /\ \E rs \in [1..Scored -> [score : Scores, release : BOOLEAN]] : selection' = rs
  /\ UNCHANGED <<heldAt, listing>>

-----------------------------------------------------------------------------
\* list_cases without labels: rows of the held-out part, evenly spaced from the
\* first to the last (positions from 0).
Spaced(i, n, k) == (i * (n - 1)) \div (k - 1)

BlindPositions(n, limit) ==
  LET k == Min({limit, n})
  IN  IF k = 1 THEN {n \div 2} ELSE {Spaced(i, n, k) : i \in 0..(k - 1)}

ExamineListing ==
  /\ Unexamined
  /\ \E n, limit \in 1..MostListed : listing' = [rows |-> n, limit |-> limit]
  /\ UNCHANGED <<heldAt, selection>>

SplitsNext == ExamineCorpus \/ ExamineScores \/ ExamineListing
SplitsSpec == SplitsInit /\ [][SplitsNext]_splitVars

-----------------------------------------------------------------------------
\* No row is judged by what was selected on a later row of its family: sealed
\* rows are not earlier than gate rows, nor these than development rows, each
\* known family has all three, and the benchmark's parts follow each other.
JudgedRowsComeLater ==
  heldAt # Empty =>
    LET part == [w \in Windows |-> PartitionOfRow(w)]
        benchmark == [w \in Windows |-> BenchmarkPart(w)]
        later == {<<"development", "v3b_gate">>, <<"development", "sealed">>, <<"v3b_gate", "sealed">>}
    IN  /\ Partitioned =>
             \A f \in Families :
               /\ \A p \in {"development", "v3b_gate", "sealed"} : \E w \in RowsOfFamily(f) : part[w] = p
               /\ \A v, w \in RowsOfFamily(f) : <<part[v], part[w]>> \in later => heldAt[v] <= heldAt[w]
        /\ \A v, w \in Windows : benchmark[v] < benchmark[w] => heldAt[v] <= heldAt[w]

\* Each window of the final cycle is fitted on what was known of a family before
\* the rows it is validated on.
WindowsOnlyLookBack ==
  (heldAt # Empty /\ Partitioned) =>
    LET folds == Folds
    IN  \A b \in 2..(Bins - 1) :
          /\ FitRows(folds, b) \cap ValidationRows(folds, b) = {}
          /\ \A v \in FitRows(folds, b), w \in ValidationRows(folds, b) :
               FamilyOf[v] = FamilyOf[w] => heldAt[v] <= heldAt[w]

\* With both classes there, the selected threshold keeps the limit, and no
\* threshold at all that keeps it, candidate or not, releases more of what may
\* be released.
ThresholdIsTheBestAllowed ==
  (selection # Empty /\ NonRelease # {} /\ NonRelease # 1..Scored) =>
    LET false(t) == Cardinality(SelectedRows(t) \cap NonRelease) * MaxRateDen <= Cardinality(NonRelease)
    IN  /\ false(BestThreshold)
        /\ \A t \in Scores \cup {AboveAll} : false(t) => RecalledAt(t) <= RecalledAt(BestThreshold)

\* A blind listing shows as many different held-out rows as were asked for and
\* are there, none beyond the end of the held-out part, whatever the two counts.
BlindListingIsWhole ==
  listing # Empty =>
    LET positions == BlindPositions(listing.rows, listing.limit)
    IN  /\ positions \subseteq 0..(listing.rows - 1)
        /\ Cardinality(positions) = Min({listing.limit, listing.rows})
=============================================================================
