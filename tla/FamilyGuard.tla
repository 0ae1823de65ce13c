----------------------------- MODULE FamilyGuard ------------------------------
(***************************************************************************)
(* The novelty guard for families of merchants nobody has seen             *)
(* (evaluate_phase2b_unknown_family.py, _phase2c_family_generalization.py  *)
(* and the rules under ml/ they share): who reaches what in a fold that    *)
(* leaves one family out, the threshold every legitimate family agrees to, *)
(* and the choice among guards on rows with their base actions.  A state   *)
(* is one fold, one table of scores or one list of cases.                  *)
(***************************************************************************)
EXTENDS Integers, Sequences, FiniteSets, FiniteSetsExt, SequencesExt

CONSTANTS
  FamilyOrder,     \* LEGITIMATE_FAMILIES + RISK_FAMILIES
  TargetOfFamily,  \* operational_target; ESCALATE for risk families
  MerchantsIn,     \* the number of merchants of each family
  MinPseudo, MinFit,      \* 5 and 40 in the code: rows below which a fold stops
  TailFamilies, TailScores, MinTail,   \* 20 in the code
  TailNum, TailDen,       \* the target false-alarm rate
  GuardCaseFamilies, MaxGuardCases,   \* bounds of the cases a guard is chosen on
  DivertDen,       \* 1/5 in the code: the share of legitimate releases diverted
  NotTried

ASSUME FamilyGuardAssumption ==
  /\ FamilyOrder \in Seq(ToSet(FamilyOrder)) /\ IsInjective(FamilyOrder)
  /\ \A f \in ToSet(FamilyOrder) : MerchantsIn[f] \in Nat \ {0}
  /\ TargetOfFamily \in [ToSet(FamilyOrder) -> {"RELEASE", "EVIDENCE_NEEDED", "ESCALATE"}]
  /\ IsFiniteSet(TailFamilies) /\ IsFiniteSet(TailScores) /\ TailScores \subseteq Int
  /\ MinTail \in Nat \ {0} /\ MaxGuardCases \in Nat
  /\ TailDen \in Nat /\ TailNum \in 1..TailDen /\ 2 * TailNum < TailDen
  /\ GuardCaseFamilies \subseteq ToSet(FamilyOrder) /\ DivertDen \in Nat

VARIABLES
  guardFold,    \* NotTried, or the family left out and the others' merchants by role
  tailTable,    \* NotTried, or the legitimate scores of every family
  guardCases    \* NotTried, or the cases of an inner policy set

guardVars == <<guardFold, tailTable, guardCases>>

GuardInit == guardFold = NotTried /\ tailTable = NotTried /\ guardCases = NotTried

GuardFamilies == ToSet(FamilyOrder)
LegitimateFamilies == {f \in GuardFamilies : TargetOfFamily[f] # "ESCALATE"}
Roles == {"train", "calibration", "inner"}
-----------------------------------------------------------------------------
\* create_split_manifest on the families that are not left out: every target
\* occurs in every part.  Merchants of a family differ in their number only.
SplitsOf(fs) ==
  {s \in [fs -> [Roles -> 0..3]] :
     /\ \A f \in fs : s[f]["train"] + s[f]["calibration"] + s[f]["inner"] = MerchantsIn[f]
     /\ \A r \in Roles : \E f \in fs : s[f][r] > 0}

\* The splits of the families of each target, as one.
Joined(fs, direct, resolvable, risk) ==
  [f \in fs |-> CASE TargetOfFamily[f] = "RELEASE"         -> direct[f]
                  [] TargetOfFamily[f] = "EVIDENCE_NEEDED" -> resolvable[f]
                  [] TargetOfFamily[f] = "ESCALATE"        -> risk[f]]

Others(i) == GuardFamilies \ {FamilyOrder[i]}
Having(t, i) == {f \in Others(i) : TargetOfFamily[f] = t}

\* One pass of the loop over families.
ExamineFold ==
  /\ GuardInit
  /\ \E i \in DOMAIN FamilyOrder :
       \E direct \in SplitsOf(Having("RELEASE", i)), resolvable \in SplitsOf(Having("EVIDENCE_NEEDED", i)),
          risk \in SplitsOf(Having("ESCALATE", i)) :
         guardFold' = [index |-> i, split |-> Joined(Others(i), direct, resolvable, risk)]
  /\ UNCHANGED <<tailTable, guardCases>>

Remaining == DOMAIN guardFold.split
LegitimateRemaining == LegitimateFamilies \cap Remaining
\* The merchants of some families in one role of the split.
Group(fs, role) == {<<f, role>> : f \in {g \in fs : guardFold.split[g][role] > 0}}
GroupSize(groups) == MapThenSumSet(LAMBDA g : guardFold.split[g[1]][g[2]], groups)

\* _choose_pseudo_unseen_legitimate_families: the places of the available
\* families in the order, and the two that follow each other, around the end.
Available ==
  {i \in DOMAIN FamilyOrder :
     LET f == FamilyOrder[i] IN
     /\ f \in LegitimateRemaining
     /\ guardFold.split[f]["train"] >= MinPseudo /\ guardFold.split[f]["calibration"] >= MinPseudo}
AvailableAt(k) ==
  FamilyOrder[CHOOSE i \in Available : Cardinality({j \in Available : j < i}) = k]
PseudoUnseen ==
  LET n == Cardinality(Available)
      start == (2 * (guardFold.index - 1)) % n
  IN  {AvailableAt(start), AvailableAt((start + 1) % n)}

\* The rows each artifact of a fold comes from.  Phase 2B scores novelty with
\* the bundle's own forest and leaves no family out of it.
BundleRows == Group(Remaining, "train") \cup Group(Remaining, "calibration")
NoveltyRows == Group(LegitimateRemaining \ PseudoUnseen, "train")
TailRows == Group(LegitimateRemaining, "calibration") \cup Group(PseudoUnseen, "train")
ChoiceRows == Group(Remaining, "inner")
KnownRows == Group(LegitimateRemaining, "train")
KnownTailRows == Group(LegitimateRemaining, "calibration")

\* The fold does not stop for want of families or rows.
FoldRuns ==
  Cardinality(Available) >= 2 /\ GroupSize(NoveltyRows) >= MinFit /\ GroupSize(TailRows) >= MinFit
-----------------------------------------------------------------------------
\* calibrate_upper_tail on scores without ties.
TailThreshold(scores) ==
  LET n == Cardinality(scores)
      rank == ((n + 1) * (TailDen - TailNum) + TailDen - 1) \div TailDen
  IN  CHOOSE s \in scores : Cardinality({x \in scores : x < s}) = Min({n, Max({rank, 1})}) - 1

\* family_robust_upper_tail: small families are left out, two must remain.
Calibrating(table) == {f \in TailFamilies : Cardinality(table[f]) >= MinTail}
RobustThreshold(table) == Max({TailThreshold(table[f]) : f \in Calibrating(table)})

ExamineTails ==
  /\ GuardInit
  /\ tailTable' \in [TailFamilies -> kSubset(MinTail - 1, TailScores) \cup kSubset(MinTail + 1, TailScores)]
  /\ UNCHANGED <<guardFold, guardCases>>
-----------------------------------------------------------------------------
\* CONSENSUS_RULES and consensus_signal: of the three signals of a case, at one
\* false-alarm rate.
Rules == <<"AE_ANY", "AE_BOTH", "TWO_OF_THREE">>
Signals == SUBSET {"reconstruction", "latent", "isolation"}
Signal(rule, signals) ==
  CASE rule = "AE_ANY" -> signals \cap {"reconstruction", "latent"} # {}
    [] rule = "AE_BOTH" -> {"reconstruction", "latent"} \subseteq signals
    [] rule = "TWO_OF_THREE" -> Cardinality(signals) >= 2

\* apply_evidence_only_guard
GuardedAction(c, rule) ==
  IF Signal(rule, c.signals) /\ c.base = "RELEASE" THEN "EVIDENCE_NEEDED" ELSE c.base

\* cost_matrix.v2.json
GuardCost(action, target) ==
  CASE action = "RELEASE" -> CASE target = "RELEASE" -> 0 [] target = "EVIDENCE_NEEDED" -> 25 [] OTHER -> 100
    [] action = "EVIDENCE_NEEDED" -> IF target = "ESCALATE" THEN 30 ELSE 5
    [] action = "ESCALATE" -> CASE target = "RELEASE" -> 40 [] target = "EVIDENCE_NEEDED" -> 20 [] OTHER -> 5

\* Signals of a case that is not released have no effect and are left out.
ExamineGuardChoice ==
  /\ GuardInit
  /\ \E cases \in [1..MaxGuardCases ->
                    [family : GuardCaseFamilies, base : {"RELEASE"}, signals : Signals] \cup
                    [family : GuardCaseFamilies, base : {"ESCALATE"}, signals : {{}}]] :
       guardCases' = Range(cases)
  /\ UNCHANGED <<guardFold, tailTable>>

GuardNext == ExamineFold \/ ExamineTails \/ ExamineGuardChoice
GuardSpec == GuardInit /\ [][GuardNext]_guardVars

\* _operational_metrics and _aggregate_candidate.  All candidates have the
\* same cases, so that counts compare like rates.
CasesOf(taken, action, target) ==
  {c \in guardCases : taken[c] = action /\ TargetOfFamily[c.family] = target}
CaseCost(taken) ==
  LET cost(action, target) == GuardCost(action, target) * Cardinality(CasesOf(taken, action, target))
      costs(action) == cost(action, "RELEASE") + cost(action, "EVIDENCE_NEEDED") + cost(action, "ESCALATE")
  IN  costs("RELEASE") + costs("EVIDENCE_NEEDED") + costs("ESCALATE")
BaseCost == CaseCost([c \in guardCases |-> c.base])
CostUnder(rule) == CaseCost([c \in guardCases |-> GuardedAction(c, rule)])
ReleasedOf(fs) == {c \in guardCases : c.family \in fs /\ c.base = "RELEASE"}
Diverted(rule, fs) == {c \in ReleasedOf(fs) : Signal(rule, c.signals)}
RiskFamilies == GuardFamilies \ LegitimateFamilies
StillReleased(rule) ==
  {c \in guardCases : GuardedAction(c, rule) = "RELEASE" /\ TargetOfFamily[c.family] # "RELEASE"}
Friction(rule) == 10 * Cardinality(Diverted(rule, LegitimateFamilies))

\* _inner_gate_pass
WithinShare(part, whole, den) == Cardinality(part) * den <= Cardinality(whole)
GatePasses(rule) ==
  /\ WithinShare(Diverted(rule, LegitimateFamilies), ReleasedOf(LegitimateFamilies), DivertDen)
  /\ \A f \in LegitimateFamilies : WithinShare(Diverted(rule, {f}), ReleasedOf({f}), 2)
  /\ 2 * Cardinality(Diverted(rule, RiskFamilies)) >= Cardinality(ReleasedOf(RiskFamilies))
  /\ CostUnder(rule) <= BaseCost

\* Rows of a table are compared key by key, and the first of equals is taken.
Before(keys, i, j) ==
  \E k \in DOMAIN keys[i] :
    keys[i][k] < keys[j][k] /\ \A l \in 1..(k - 1) : keys[i][l] = keys[j][l]
LeastKey(keys, candidates) ==
  CHOOSE i \in candidates :
    \A j \in candidates \ {i} : Before(keys, i, j) \/ (~Before(keys, j, i) /\ i < j)

\* _select_inner_candidate
Passing == {i \in DOMAIN Rules : GatePasses(Rules[i])}
ChoiceKeys ==
  [i \in DOMAIN Rules |->
     <<CostUnder(Rules[i]) + Friction(Rules[i]), CostUnder(Rules[i]),
       Cardinality(Diverted(Rules[i], LegitimateFamilies)), -Cardinality(Diverted(Rules[i], RiskFamilies))>>]
ChosenGuard == LeastKey(ChoiceKeys, Passing)

\* _pareto_frontier, on what phase 2B measures; smaller is better.
Measures(i) ==
  <<CostUnder(Rules[i]), Cardinality(StillReleased(Rules[i])),
    Cardinality(Diverted(Rules[i], LegitimateFamilies)), -Cardinality(Diverted(Rules[i], RiskFamilies))>>
Dominates(i, j) ==
  Measures(i) # Measures(j) /\ \A k \in 1..4 : Measures(i)[k] <= Measures(j)[k]
Frontier == {j \in DOMAIN Rules : \A i \in DOMAIN Rules : ~Dominates(i, j)}
Recommendation == LeastKey([i \in DOMAIN Rules |-> Measures(i)], Frontier)
-----------------------------------------------------------------------------
(* The family left out reaches nothing that decides about it; thresholds   *)
(* are calibrated on merchants the novelty scorers did not learn from, two *)
(* of their families unseen altogether; and a guard is chosen on merchants *)
(* that nothing was fitted or calibrated on                                *)
(* (evaluate_phase2c_family_generalization.py:121, phase2b:117).           *)
LeftOutFamilyIsUnseen ==
  guardFold # NotTried /\ FoldRuns =>
    /\ \A g \in BundleRows \cup NoveltyRows \cup TailRows \cup ChoiceRows \cup KnownTailRows :
         g[1] # FamilyOrder[guardFold.index]
    /\ Cardinality(PseudoUnseen) = 2
    /\ \A g \in NoveltyRows : g[1] \notin PseudoUnseen
    /\ TailRows \cap NoveltyRows = {} /\ KnownTailRows \cap KnownRows = {}
    /\ ChoiceRows \cap (BundleRows \cup NoveltyRows \cup TailRows) = {}

(* A legitimate merchant whose family took part in the calibration, but    *)
(* not itself, is signalled at the target rate at most, or one in the      *)
(* family's size where that is more (autoencoder_ood.py:246,               *)
(* phase2c_family_generalization.py:37).  Equal scores may signal more.    *)
FamiliesKeepTheirRate ==
  tailTable # NotTried =>
    \A f \in TailFamilies :
      LET without(s) == [tailTable EXCEPT ![f] = @ \ {s}]
          signalled == {s \in tailTable[f] : s >= RobustThreshold(without(s))}
          size == Cardinality(tailTable[f])
      IN  size > MinTail /\ Cardinality(Calibrating(tailTable)) >= 2 =>
            Cardinality(signalled) * TailDen <= Max({size * TailNum, TailDen})

(* The guard that is chosen costs no more than none, and no candidate that *)
(* passes the gates is better in one respect and worse in none; what phase *)
(* 2B recommends from its frontier is the cheapest candidate of all        *)
(* (evaluate_phase2c_family_generalization.py:431, phase2b:235).           *)
GuardChoiceIsUndominated ==
  guardCases # NotTried =>
    /\ Passing # {} =>
         /\ \A i \in Passing : ~Dominates(i, ChosenGuard)
         /\ CostUnder(Rules[ChosenGuard]) <= BaseCost
    /\ \A i \in DOMAIN Rules : CostUnder(Rules[Recommendation]) <= CostUnder(Rules[i])
=============================================================================
