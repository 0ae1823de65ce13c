--------------------------- MODULE RecordsProofs ---------------------------
(***************************************************************************)
(* Safety of the records around the decisions, each part by itself and for *)
(* any number of calls, items, payments and analyses.                      *)
(*                                                                         *)
(* ReconciliationSync: what a sync says is complete has missed nothing.    *)
(* The inductive invariant SyncInv is the property with                    *)
(*   - SyncsOK: what a call has in hand at each of its steps;              *)
(*   - OnceListed, FirstKnown: an entity is listed once and stays listed,  *)
(*     and what was settled when a sync began still is;                    *)
(*   - NothingPassed: of the items a sync found at its start, those before *)
(*     its offset, and all once it has a short page, are stored or in hand;*)
(*   - PagesNumbered: pages are counted, and no number is used twice.      *)
(*                                                                         *)
(* PaymentCases: a payment has one case, and nothing is told of a payment  *)
(* the source does not name.  CaseInv is                                   *)
(*   - CaseTypes, and RowOK: a row is of an event in its own past;         *)
(*   - CallOK: a call of the bridge is of a payment that was observed;     *)
(*   - ReceiptsOK: the receipts of a payment name the case it has;         *)
(*   - TruthOK, ToldOK: at every read, the payment is named by the source, *)
(*     and a case of the bridge is of an observed one.                     *)
(*                                                                         *)
(* LayerAnalysis: an analysis is on record and rests on what it read.      *)
(* AnaInv is                                                               *)
(*   - AnalysisOK: what each call has concluded, before and after the      *)
(*     engine, and that the record of an answer is on the ledger;          *)
(*   - OwnRecords: no two calls, answered or not, share a record;          *)
(*   - ShadowOK of every shadow score.                                     *)
(*                                                                         *)
(* What is learned and what judges it, for any number of merchants, rows,  *)
(* windows and families:                                                   *)
(*   - FlowInv: every artifact of a training run rests on the merchants it *)
(*     may rest on, and no merchant on a score of itself;                  *)
(*   - SplitsInv: rows with times are ranked by them (Ranks), and a part   *)
(*     is a range of ranks, so that a part that follows another is later;  *)
(*   - GuardInv: the family left out has no merchants in a fold; two       *)
(*     places that follow each other around the available ones differ;     *)
(*   - WindowsInv: simulated events have numbers, and the days of the      *)
(*     baseline lie end to end.                                            *)
(*                                                                         *)
(* The rules that choose sets, thresholds and guards, for any number of    *)
(* rows, levels and cases, ties included.  What RulesInv, SearchInv,       *)
(* ChoicesInv and TablesInv say is that the input is of its type; the      *)
(* arguments are about counts:                                             *)
(*   - of n rows, at most k have fewer than k others beyond them           *)
(*     (BeyondSoMany, InOrder), which bounds what is left out;             *)
(*   - a quantile lies at a row or between two that follow each other, so  *)
(*     that any threshold has a candidate that flags the same rows;        *)
(*   - a first element of finitely many by several keys is reached key by  *)
(*     key (LeastBy, FirstOf).                                             *)
(***************************************************************************)
EXTENDS ReconciliationSync, PaymentCases, LayerAnalysis, DecisionPolicyProofs,
        TrainingFlow, ResearchSplits, FamilyGuard, SyntheticWindows,
        ConformalRules, ThresholdSearch,
        FiniteSetTheorems, SequenceTheorems, WellFoundedInduction, TLAPS

SyncOK(r) ==
  /\ r.pc \in {"fetch", "store"} => r.pages < MaxPages
  /\ r.pc = "idle" => r.skip = 0 /\ r.pages = 0
  /\ r.pc # "ended" => r.ended = "no"
  /\ r.pc # "store" => r.page = <<>>

SyncsOK == \A s \in Syncs : SyncOK(sync[s])

OnceListed == \A i, j \in DOMAIN listed : listed[i].entity = listed[j].entity => i = j

IsListed(e, settled) ==
  \E i \in DOMAIN listed : listed[i].entity = e /\ (settled => listed[i].settled)

FirstKnown ==
  \A s \in Syncs : \A e \in SettledEntities, b \in BOOLEAN :
    <<e, b>> \in sync[s].first => IsListed(e, b)

Finished(r) == r.ended = "complete" \/ (r.pc = "store" /\ Len(r.page) < PageSize)

Taken(r, i) == i <= r.skip + Len(r.page) \/ Finished(r)

(* The i-th item listed is not one that the call s stepped over.           *)
NotPassed(s, i) ==
  LET key == ReconciliationId(listed[i]) IN
  key \in sync[s].first /\ Taken(sync[s], i) =>
    key \in DOMAIN itemRows \cup Keys(sync[s].page)

NothingPassed ==
  \A s \in Syncs : sync[s].ended \in {"no", "complete"} =>
    \A i \in DOMAIN listed : NotPassed(s, i)

PagesNumbered ==
  /\ IsFiniteSet(kept)
  /\ \A p \in kept : p.number <= sync[p.by].pages

SyncInv ==
  /\ SyncTypeOK /\ SyncsOK /\ OnceListed /\ FirstKnown /\ NothingPassed
  /\ PagesNumbered /\ RowsAreWholePages
-----------------------------------------------------------------------------
(* A list with one item put in.                                            *)
With(s, n, at, x) == SubSeq(s, 1, at) \o <<x>> \o SubSeq(s, at + 1, n)

IsWith(t, s, n, at, x) ==
  /\ Len(t) = n + 1
  /\ \A i \in 1 .. n + 1 :
       t[i] = IF i <= at THEN s[i] ELSE IF i = at + 1 THEN x ELSE s[i - 1]

(* An element put into a sequence shifts those behind it.                  *)
LEMMA PutIn ==
  ASSUME NEW S, NEW s \in Seq(S), NEW n \in Nat, n = Len(s), NEW at \in 0 .. n, NEW x \in S
  PROVE  With(s, n, at, x) \in Seq(S) /\ IsWith(With(s, n, at, x), s, n, at, x)
<1>. DEFINE a == SubSeq(s, 1, at)
            b == SubSeq(s, at + 1, n)
            c == a \o <<x>>
            t == c \o b
<1>0. at \in Nat /\ at <= n /\ \A i \in 1 .. n : s[i] \in S
  OBVIOUS
<1>1. a \in Seq(S) /\ Len(a) = at /\ \A i \in 1 .. at : a[i] = s[i]
  <2>1. \A i \in 1 .. at : s[i] \in S
    BY <1>0
  <2>2. /\ a \in Seq(S) /\ Len(a) = (IF 1 <= at THEN at - 1 + 1 ELSE 0)
        /\ \A i \in 1 .. at - 1 + 1 : a[i] = s[1 + i - 1]
    BY <1>0, <2>1, SubSeqProperties
  <2>. HIDE DEF a
  <2>. QED  BY <1>0, <2>2
<1>2. b \in Seq(S) /\ Len(b) = n - at /\ \A i \in 1 .. n - at : b[i] = s[at + i]
  <2>1. \A i \in at + 1 .. n : s[i] \in S
    BY <1>0
  <2>2. /\ b \in Seq(S) /\ Len(b) = (IF at + 1 <= n THEN n - (at + 1) + 1 ELSE 0)
        /\ \A i \in 1 .. n - (at + 1) + 1 : b[i] = s[(at + 1) + i - 1]
    BY <1>0, <2>1, SubSeqProperties
  <2>. HIDE DEF b
  <2>3. \A i \in 1 .. n - at : b[i] = s[at + i]
    <3>1. \A i \in 1 .. n - at : (at + 1) + i - 1 = at + i /\ i \in 1 .. n - (at + 1) + 1
      BY <1>0
    <3>. QED  BY <2>2, <3>1
  <2>4. b \in Seq(S) /\ Len(b) = n - at
    BY <1>0, <2>2
  <2>. QED  BY <2>3, <2>4
<1>. HIDE DEF a, b
<1>3. /\ c \in Seq(S) /\ Len(c) = at + 1
      /\ \A i \in 1 .. at + 1 : c[i] = IF i <= at THEN a[i] ELSE x
  BY <1>0, <1>1
<1>. HIDE DEF c
<1>4. /\ t \in Seq(S) /\ Len(t) = Len(c) + Len(b)
      /\ \A i \in 1 .. Len(c) + Len(b) : t[i] = IF i <= Len(c) THEN c[i] ELSE b[i - Len(c)]
  BY <1>2, <1>3, ConcatProperties
<1>. HIDE DEF t
<1>5. /\ Len(t) = n + 1
      /\ \A i \in 1 .. n + 1 :
           t[i] = IF i <= at THEN s[i] ELSE IF i = at + 1 THEN x ELSE s[i - 1]
  <2>1. Len(c) + Len(b) = n + 1
    BY <1>0, <1>2, <1>3
  <2>2. ASSUME NEW i \in 1 .. n + 1
        PROVE  t[i] = IF i <= at THEN s[i] ELSE IF i = at + 1 THEN x ELSE s[i - 1]
    <3>1. t[i] = IF i <= at + 1 THEN c[i] ELSE b[i - (at + 1)]
      BY <1>3, <1>4, <2>1
    <3>2. CASE i <= at + 1
      BY <1>0, <1>1, <1>3, <3>1, <3>2
    <3>3. CASE i > at + 1
      <4>1. i - (at + 1) \in 1 .. n - at /\ at + (i - (at + 1)) = i - 1
        BY <1>0, <3>3
      <4>2. b[i - (at + 1)] = s[i - 1]
        BY <1>2, <4>1
      <4>. QED  BY <1>0, <3>1, <3>3, <4>2
    <3>. QED  BY <1>0, <3>2, <3>3
  <2>. QED  BY <1>4, <2>1, <2>2
<1>6. t = With(s, n, at, x)
  BY DEF a, b, c, t, With
<1>7. IsWith(t, s, n, at, x)
  BY <1>5, Zenon DEF IsWith
<1>. QED  BY <1>4, <1>6, <1>7, Zenon

(* What the provider does to the list: nothing, or an item in its place    *)
(* takes another state, or one is put in.                                  *)
Changed ==
  /\ Len(listed') = Len(listed)
  /\ \A i \in DOMAIN listed : /\ listed'[i].entity = listed[i].entity
                              /\ listed[i].settled => listed'[i].settled

Added ==
  \E e \in SettledEntities, at \in 0 .. Len(listed) :
    /\ \A i \in DOMAIN listed : listed[i].entity # e
    /\ Len(listed') = Len(listed) + 1
    /\ \A i \in 1 .. Len(listed) + 1 :
         listed'[i] = IF i <= at THEN listed[i]
                      ELSE IF i = at + 1 THEN NewItem(e) ELSE listed[i - 1]

(* A move of the list changes one item or adds one.                        *)
LEMMA ListEffect ==
  ASSUME SyncTypeOK, ListMoves
  PROVE  listed' \in Seq(Items) /\ (Changed \/ Added)
<1>0. listed \in Seq(Items)
  BY DEF SyncTypeOK
<1>1. CASE ItemAdded
  <2>1. PICK e \in SettledEntities, at \in 0 .. Len(listed) :
          /\ \A i \in DOMAIN listed : listed[i].entity # e
          /\ listed' = SubSeq(listed, 1, at) \o <<NewItem(e)>>
                         \o SubSeq(listed, at + 1, Len(listed))
    BY <1>1 DEF ItemAdded
  <2>0. PICK n \in Nat : n = Len(listed) /\ at \in 0 .. n
    BY <1>0
  <2>2. PICK x \in Items : x = NewItem(e)
    BY DEF NewItem, Items
  <2>6. PICK s \in Seq(Items) : s = listed
    BY <1>0
  <2>7. PICK k \in 0 .. n : k = at
    BY <2>0
  <2>8. n = Len(s)
    BY <2>0, <2>6
  <2>9. With(s, n, k, x) \in Seq(Items) /\ IsWith(With(s, n, k, x), s, n, k, x)
    BY <2>8, PutIn, Zenon
  <2>3. /\ With(listed, n, at, NewItem(e)) \in Seq(Items)
        /\ Len(With(listed, n, at, NewItem(e))) = n + 1
        /\ \A i \in 1 .. n + 1 : With(listed, n, at, NewItem(e))[i] =
             IF i <= at THEN listed[i] ELSE IF i = at + 1 THEN NewItem(e) ELSE listed[i - 1]
    BY <2>9, <2>2, <2>6, <2>7, Zenon DEF IsWith
  <2>4. listed' = With(listed, n, at, NewItem(e))
    BY <2>0, <2>1, Zenon DEF With
  <2>5. /\ listed' \in Seq(Items) /\ Len(listed') = n + 1
        /\ \A i \in 1 .. n + 1 : listed'[i] =
             IF i <= at THEN listed[i] ELSE IF i = at + 1 THEN NewItem(e) ELSE listed[i - 1]
    BY <2>3, <2>4, Zenon
  <2>. QED  BY <2>0, <2>1, <2>5 DEF Added
<1>2. CASE ItemChanged
  <2>1. PICK i \in DOMAIN listed, x \in Items :
          /\ x.entity = listed[i].entity /\ (listed[i].settled => x.settled)
          /\ listed' = [listed EXCEPT ![i] = x]
    <3>1. PICK i \in DOMAIN listed :
            \/ listed' = [listed EXCEPT ![i].onHold = FALSE]
            \/ listed' = [listed EXCEPT ![i].settled = TRUE]
      BY <1>2 DEF ItemChanged
    <3>2. listed[i] \in Items
      BY <1>0
    <3>3. /\ [listed[i] EXCEPT !.onHold = FALSE] \in Items
          /\ [listed[i] EXCEPT !.onHold = FALSE].entity = listed[i].entity
          /\ [listed[i] EXCEPT !.onHold = FALSE].settled = listed[i].settled
          /\ [listed[i] EXCEPT !.settled = TRUE] \in Items
          /\ [listed[i] EXCEPT !.settled = TRUE].entity = listed[i].entity
          /\ [listed[i] EXCEPT !.settled = TRUE].settled = TRUE
      BY <3>2 DEF Items
    <3>4. CASE listed' = [listed EXCEPT ![i].onHold = FALSE]
      <4>1. listed' = [listed EXCEPT ![i] = [listed[i] EXCEPT !.onHold = FALSE]]
        BY <3>4, Zenon
      <4>. QED  BY <3>3, <4>1
    <3>5. CASE listed' = [listed EXCEPT ![i].settled = TRUE]
      <4>1. listed' = [listed EXCEPT ![i] = [listed[i] EXCEPT !.settled = TRUE]]
        BY <3>5, Zenon
      <4>. QED  BY <3>3, <4>1
    <3>. QED  BY <3>1, <3>4, <3>5
  <2>. QED  BY <1>0, <2>1 DEF Changed
<1>. QED  BY <1>1, <1>2 DEF ListMoves

(* Whatever the provider does, an item that a sync found settled stays so, *)
(* and a new one is none that a sync found: nothing is stepped over.       *)
LEMMA ListStep ==
  ASSUME SyncInv, ListMoves
  PROVE  SyncInv'
<1>0. /\ SyncTypeOK /\ SyncsOK /\ OnceListed /\ FirstKnown /\ NothingPassed
      /\ PagesNumbered /\ RowsAreWholePages
  BY DEF SyncInv
<1>1. listed \in Seq(Items) /\ listed' \in Seq(Items) /\ (Changed \/ Added)
  BY <1>0, ListEffect DEF SyncTypeOK
<1>2. UNCHANGED <<itemRows, sync, kept>> /\ changes' \in Nat
  BY <1>0 DEF ListMoves, SyncTypeOK
<1>3. /\ SyncTypeOK' /\ SyncsOK' /\ PagesNumbered' /\ RowsAreWholePages'
  <2>1. SyncTypeOK'
    BY <1>0, <1>1, <1>2 DEF SyncTypeOK
  <2>2. SyncsOK'
    BY <1>0, <1>2 DEF SyncsOK
  <2>3. PagesNumbered' /\ RowsAreWholePages'
    BY <1>0, <1>2 DEF PagesNumbered, RowsAreWholePages
  <2>. QED  BY <2>1, <2>2, <2>3
<1>4. ASSUME NEW s \in Syncs
      PROVE  sync[s].skip \in Nat /\ Len(sync[s].page) \in Nat
  <2>1. sync[s] \in SyncRecords
    BY <1>0 DEF SyncTypeOK
  <2>2. sync[s].skip \in Nat /\ sync[s].page \in Seq(Items)
    BY <2>1 DEF SyncRecords
  <2>. QED  BY <2>2
<1>5. \A i \in DOMAIN listed : listed[i] \in Items
  BY <1>1
<1>6. CASE Changed
  <2>0. DOMAIN listed' = DOMAIN listed
    BY <1>1, <1>6 DEF Changed
  <2>1. OnceListed'
    BY <1>0, <1>6, <2>0 DEF OnceListed, Changed
  <2>2. FirstKnown'
    <3>1. ASSUME NEW e, NEW b, IsListed(e, b)  PROVE IsListed(e, b)'
      BY <1>6, <2>0, <3>1 DEF IsListed, Changed
    <3>. QED  BY <1>0, <1>2, <3>1 DEF FirstKnown
  <2>3. ASSUME NEW s \in Syncs, NEW i \in DOMAIN listed, NotPassed(s, i)
        PROVE  NotPassed(s, i)'
    <3>1. CASE listed'[i].settled = listed[i].settled
      <4>1. ReconciliationId(listed'[i]) = ReconciliationId(listed[i])
        BY <1>6, <3>1 DEF Changed, ReconciliationId
      <4>. QED  BY <1>2, <2>3, <4>1 DEF NotPassed, Taken, Finished
    <3>2. CASE listed'[i].settled # listed[i].settled
      <4>1. /\ listed[i].settled \in BOOLEAN /\ listed[i].entity \in SettledEntities
            /\ listed'[i].settled \in BOOLEAN
        <5>1. \A x \in Items : x.settled \in BOOLEAN /\ x.entity \in SettledEntities
          BY DEF Items
        <5>2. listed[i] \in Items /\ listed'[i] \in Items
          BY <1>1, <1>5, <2>0
        <5>. QED  BY <5>1, <5>2
      <4>2. ~listed[i].settled /\ listed'[i].settled = TRUE
        BY <1>6, <3>2, <4>1 DEF Changed
      <4>3. ReconciliationId(listed'[i]) = <<listed[i].entity, TRUE>>
        BY <1>6, <4>2 DEF Changed, ReconciliationId
      <4>4. ~IsListed(listed[i].entity, TRUE)
        BY <1>0, <4>2 DEF IsListed, OnceListed
      <4>5. <<listed[i].entity, TRUE>> \notin sync[s].first
        BY <1>0, <4>1, <4>4, Zenon DEF FirstKnown
      <4>. QED  BY <1>2, <4>3, <4>5 DEF NotPassed
    <3>. QED  BY <3>1, <3>2
  <2>4. NothingPassed'
    BY <1>0, <1>2, <2>0, <2>3 DEF NothingPassed
  <2>. QED  BY <1>3, <2>1, <2>2, <2>4 DEF SyncInv
<1>7. CASE Added
  <2>1. PICK e \in SettledEntities, at \in 0 .. Len(listed) :
          /\ \A i \in DOMAIN listed : listed[i].entity # e
          /\ Len(listed') = Len(listed) + 1
          /\ \A i \in 1 .. Len(listed) + 1 :
               listed'[i] = IF i <= at THEN listed[i]
                            ELSE IF i = at + 1 THEN NewItem(e) ELSE listed[i - 1]
    BY <1>7 DEF Added
  <2>2. PICK n \in Nat : n = Len(listed) /\ at \in 0 .. n
    BY <1>1
  <2>3. DOMAIN listed = 1 .. n /\ DOMAIN listed' = 1 .. n + 1
    BY <1>1, <2>1, <2>2
  <2>4. ASSUME NEW i \in 1 .. n + 1
        PROVE  \/ i = at + 1 /\ listed'[i] = NewItem(e)
               \/ i <= at /\ i \in 1 .. n /\ listed'[i] = listed[i]
               \/ i > at + 1 /\ i - 1 \in 1 .. n /\ listed'[i] = listed[i - 1]
    BY <2>1, <2>2
  <2>5. NewItem(e).entity = e /\ ReconciliationId(NewItem(e)) = <<e, FALSE>>
    BY DEF NewItem, ReconciliationId
  <2>6. \A b : ~IsListed(e, b)
    BY <2>1 DEF IsListed
  <2>7. OnceListed'
    <3>1. ASSUME NEW i \in 1 .. n + 1, NEW j \in 1 .. n + 1,
                 listed'[i].entity = listed'[j].entity
          PROVE  i = j
      <4>1. CASE i = at + 1
        BY <2>1, <2>2, <2>3, <2>4, <2>5, <3>1, <4>1
      <4>2. CASE j = at + 1
        BY <2>1, <2>2, <2>3, <2>4, <2>5, <3>1, <4>2, SMTT(20)
      <4>3. CASE i # at + 1 /\ j # at + 1
        <5>1. ASSUME NEW k \in 1 .. n + 1, k # at + 1
              PROVE  LET b == IF k <= at THEN k ELSE k - 1 IN
                     b \in 1 .. n /\ listed'[k] = listed[b]
          BY <2>1, <2>2, <5>1
        <5>2. PICK b \in 1 .. n : b = (IF i <= at THEN i ELSE i - 1) /\ listed'[i] = listed[b]
          BY <4>3, <5>1
        <5>3. PICK c \in 1 .. n : c = (IF j <= at THEN j ELSE j - 1) /\ listed'[j] = listed[c]
          BY <4>3, <5>1
        <5>4. b = c
          BY <1>0, <2>3, <3>1, <5>2, <5>3 DEF OnceListed
        <5>. QED  BY <2>2, <4>3, <5>2, <5>3, <5>4
      <4>. QED  BY <4>1, <4>2, <4>3
    <3>. QED  BY <2>3, <3>1 DEF OnceListed
  <2>8. FirstKnown'
    <3>1. ASSUME NEW f, NEW b, IsListed(f, b)  PROVE IsListed(f, b)'
      <4>1. PICK i \in 1 .. n : listed[i].entity = f /\ (b => listed[i].settled)
        BY <2>3, <3>1 DEF IsListed
      <4>2. CASE i <= at
        BY <2>1, <2>2, <2>3, <4>1, <4>2 DEF IsListed
      <4>3. CASE i > at
        <5>1. i + 1 \in 1 .. n + 1 /\ listed'[i + 1] = listed[i]
          BY <2>1, <2>2, <4>3
        <5>. QED  BY <2>3, <4>1, <5>1 DEF IsListed
      <4>. QED  BY <2>2, <4>2, <4>3
    <3>. QED  BY <1>0, <1>2, <3>1 DEF FirstKnown
  <2>9. ASSUME NEW s \in Syncs, \A i \in 1 .. n : NotPassed(s, i), NEW i \in 1 .. n + 1
        PROVE  NotPassed(s, i)'
    <3>1. CASE i = at + 1 /\ listed'[i] = NewItem(e)
      <4>1. <<e, FALSE>> \notin sync[s].first
        BY <1>0, <2>6, Zenon DEF FirstKnown
      <4>. QED  BY <1>2, <2>5, <3>1, <4>1 DEF NotPassed
    <3>2. CASE i <= at /\ i \in 1 .. n /\ listed'[i] = listed[i]
      BY <1>2, <2>9, <3>2 DEF NotPassed, Taken, Finished
    <3>3. CASE i > at + 1 /\ i - 1 \in 1 .. n /\ listed'[i] = listed[i - 1]
      <4>1. Taken(sync[s], i) => Taken(sync[s], i - 1)
        BY <1>4 DEF Taken
      <4>2. NotPassed(s, i - 1)
        BY <2>9, <3>3
      <4>3. Taken(sync[s], i)' <=> Taken(sync[s], i)
        BY <1>2 DEF Taken, Finished
      <4>. QED  BY <1>2, <3>3, <4>1, <4>2, <4>3 DEF NotPassed
    <3>. QED  BY <2>4, <3>1, <3>2, <3>3
  <2>10. NothingPassed'
    BY <1>0, <1>2, <2>3, <2>9 DEF NothingPassed
  <2>. QED  BY <1>3, <2>7, <2>8, <2>10 DEF SyncInv
<1>. QED  BY <1>1, <1>6, <1>7

-----------------------------------------------------------------------------
(* The page at an offset: empty only beyond the end, short only at it.     *)
PageAt(skip) ==
  SubSeq(listed, skip + 1,
         IF skip + PageSize < Len(listed) THEN skip + PageSize ELSE Len(listed))

(* A page holds what is listed from its offset on, and a short one all.    *)
LEMMA PageRead ==
  ASSUME listed \in Seq(Items), NEW skip \in Nat
  PROVE  /\ PageAt(skip) \in Seq(Items)
         /\ \A i \in DOMAIN listed : i > skip /\ i <= skip + Len(PageAt(skip)) =>
               ReconciliationId(listed[i]) \in Keys(PageAt(skip))
         /\ Len(PageAt(skip)) < PageSize =>
               \A i \in DOMAIN listed : i <= skip + Len(PageAt(skip))
<1>1. PICK n \in Nat : n = Len(listed) /\ DOMAIN listed = 1 .. n
  OBVIOUS
<1>2. PICK last \in Nat : last = (IF skip + PageSize < n THEN skip + PageSize ELSE n)
  <2>1. (IF skip + PageSize < n THEN skip + PageSize ELSE n) \in Nat
    BY PagesAssumption
  <2>. QED  BY <2>1, Zenon
<1>3. PICK p : p = PageAt(skip)
  OBVIOUS
<1>4. p = SubSeq(listed, skip + 1, last)
  BY <1>1, <1>2, <1>3 DEF PageAt
<1>5. \A i \in skip + 1 .. last : listed[i] \in Items
  <2>1. last <= n
    BY <1>2, PagesAssumption
  <2>2. \A i \in skip + 1 .. last : i \in 1 .. n
    BY <2>1
  <2>. QED  BY <1>1, <2>2
<1>6. /\ p \in Seq(Items)
      /\ Len(p) = IF skip + 1 <= last THEN last - (skip + 1) + 1 ELSE 0
      /\ \A i \in 1 .. last - (skip + 1) + 1 : p[i] = listed[skip + 1 + i - 1]
  BY <1>4, <1>5, SubSeqProperties
<1>7. PICK k \in Nat : k = Len(p) /\ DOMAIN p = 1 .. k
  BY <1>6
<1>8. k = IF skip + 1 <= last THEN last - skip ELSE 0
  BY <1>6, <1>7
<1>9. ASSUME NEW i \in 1 .. n, i > skip, i <= skip + k
      PROVE  ReconciliationId(listed[i]) \in Keys(p)
  <2>1. i - skip \in 1 .. k /\ i - skip \in 1 .. last - (skip + 1) + 1
    BY <1>8, <1>9
  <2>2. skip + 1 + (i - skip) - 1 = i
    BY <1>9
  <2>3. p[i - skip] = listed[i]
    BY <1>6, <2>1, <2>2
  <2>. QED  BY <1>7, <2>1, <2>3 DEF Keys
<1>10. k < PageSize => \A i \in 1 .. n : i <= skip + k
  BY <1>2, <1>8, PagesAssumption
<1>. QED  BY <1>1, <1>3, <1>6, <1>7, <1>9, <1>10

(* A step of a call changes its own record; what the others have in hand   *)
(* or have stored stays theirs, since rows are not taken away.             *)
LEMMA CallEffect ==
  ASSUME SyncInv, NEW s \in Syncs, NEW n \in SyncRecords, To(s, n),
         UNCHANGED <<listed, changes>>, DOMAIN itemRows \subseteq DOMAIN itemRows',
         SyncOK(n), n.skip = n.fetched, n.pages <= MaxPages,
         \A e \in SettledEntities, b \in BOOLEAN : <<e, b>> \in n.first => IsListed(e, b),
         n.ended \in {"no", "complete"} => \A i \in DOMAIN listed : NotPassed(s, i)'
  PROVE  /\ sync' \in [Syncs -> SyncRecords] /\ sync'[s] = n
         /\ \A q \in Syncs : q # s => sync'[q] = sync[q]
         /\ \A q \in Syncs : sync'[q].skip = sync'[q].fetched /\ sync'[q].pages <= MaxPages
         /\ SyncsOK' /\ OnceListed' /\ FirstKnown' /\ NothingPassed'
<1>0. /\ SyncTypeOK /\ SyncsOK /\ OnceListed /\ FirstKnown /\ NothingPassed
  BY DEF SyncInv
<1>1. /\ sync' \in [Syncs -> SyncRecords] /\ sync'[s] = n
      /\ \A q \in Syncs : q # s => sync'[q] = sync[q]
  BY <1>0 DEF SyncTypeOK, To
<1>2. \A q \in Syncs : sync'[q].skip = sync'[q].fetched /\ sync'[q].pages <= MaxPages
  BY <1>0, <1>1 DEF SyncTypeOK
<1>3. SyncsOK'
  BY <1>0, <1>1 DEF SyncsOK
<1>4. OnceListed'
  BY <1>0 DEF OnceListed
<1>5. FirstKnown'
  <2>1. \A e, b : IsListed(e, b) => IsListed(e, b)'
    BY DEF IsListed
  <2>. QED  BY <1>0, <1>1, <2>1 DEF FirstKnown
<1>6. NothingPassed'
  <2>1. ASSUME NEW q \in Syncs, q # s, NEW i \in DOMAIN listed, NotPassed(q, i)
        PROVE  NotPassed(q, i)'
    BY <1>1, <2>1 DEF NotPassed, Taken, Finished
  <2>2. ASSUME NEW q \in Syncs, sync'[q].ended \in {"no", "complete"}
        PROVE  \A i \in DOMAIN listed : NotPassed(q, i)'
    BY <1>0, <1>1, <2>1, <2>2 DEF NothingPassed
  <2>. QED  BY <2>2 DEF NothingPassed
<1>. QED  BY <1>1, <1>2, <1>3, <1>4, <1>5, <1>6

(* A step that stores nothing and counts no page.                          *)
LEMMA StoreKept ==
  ASSUME SyncInv, NEW s \in Syncs, NEW n \in SyncRecords, To(s, n),
         UNCHANGED <<listed, itemRows, kept, changes>>, n.pages = sync[s].pages,
         SyncOK(n), n.skip = n.fetched, n.pages <= MaxPages,
         \A e \in SettledEntities, b \in BOOLEAN : <<e, b>> \in n.first => IsListed(e, b),
         n.ended \in {"no", "complete"} => \A i \in DOMAIN listed : NotPassed(s, i)'
  PROVE  SyncInv'
<1>1. /\ sync' \in [Syncs -> SyncRecords] /\ sync'[s] = n
      /\ \A q \in Syncs : q # s => sync'[q] = sync[q]
      /\ \A q \in Syncs : sync'[q].skip = sync'[q].fetched /\ sync'[q].pages <= MaxPages
      /\ SyncsOK' /\ OnceListed' /\ FirstKnown' /\ NothingPassed'
  BY CallEffect
<1>2. SyncTypeOK'
  BY <1>1 DEF SyncInv, SyncTypeOK
<1>3. \A q \in Syncs : sync'[q].pages = sync[q].pages
  BY <1>1
<1>4. PagesNumbered'
  <2>1. \A p \in kept : p.by \in Syncs
    BY DEF SyncInv, SyncTypeOK, PageRecords
  <2>. QED  BY <1>3, <2>1 DEF SyncInv, PagesNumbered
<1>5. RowsAreWholePages'
  BY <1>3 DEF SyncInv, RowsAreWholePages
<1>. QED  BY <1>1, <1>2, <1>4, <1>5 DEF SyncInv

(* What is known of the record of a call.                                  *)
LEMMA CallKnown ==
  ASSUME SyncInv, NEW s \in Syncs
  PROVE  /\ sync[s] \in SyncRecords /\ SyncOK(sync[s])
         /\ sync[s].skip = sync[s].fetched /\ sync[s].pages <= MaxPages
         /\ \A e \in SettledEntities, b \in BOOLEAN : <<e, b>> \in sync[s].first => IsListed(e, b)
         /\ listed \in Seq(Items)
BY DEF SyncInv, SyncTypeOK, SyncsOK, FirstKnown

(* A call that ends without success owes nothing.                          *)
LEMMA EndStep ==
  ASSUME SyncInv, NEW s \in Syncs, NEW how \in {"unavailable", "invalid"}, End(s, how),
         UNCHANGED <<listed, itemRows, kept, changes>>
  PROVE  SyncInv'
<1>1. PICK n : n = [sync[s] EXCEPT !.pc = "ended", !.ended = how, !.page = <<>>]
  OBVIOUS
<1>2. <<>> \in Seq(Items)
  OBVIOUS
<1>3. /\ n \in SyncRecords /\ n.pc = "ended" /\ n.ended = how /\ n.page = <<>>
      /\ n.skip = sync[s].skip /\ n.fetched = sync[s].fetched /\ n.pages = sync[s].pages
      /\ n.first = sync[s].first
  BY <1>1, <1>2, CallKnown DEF SyncRecords, SyncEnds
<1>4. To(s, n)
  BY <1>1 DEF End
<1>5. SyncOK(n)
  BY <1>3 DEF SyncOK
<1>. QED  BY <1>3, <1>4, <1>5, CallKnown, StoreKept

(* A sync begins with what is listed then.                                 *)
LEMMA BeginStep ==
  ASSUME SyncInv, NEW s \in Syncs, BeginSync(s)
  PROVE  SyncInv'
<1>0. sync[s].pc = "idle" /\ UNCHANGED <<listed, itemRows, kept, changes>>
  BY DEF BeginSync
<1>1. PICK n : n = [sync[s] EXCEPT !.pc = "fetch", !.first = Keys(listed)]
  OBVIOUS
<1>2. Keys(listed) \in SUBSET (SettledEntities \X BOOLEAN)
  <2>1. \A i \in DOMAIN listed : listed[i] \in Items
    BY CallKnown
  <2>2. \A x \in Items : ReconciliationId(x) \in SettledEntities \X BOOLEAN
    BY DEF Items, ReconciliationId
  <2>. QED  BY <2>1, <2>2 DEF Keys
<1>3. /\ n \in SyncRecords /\ n.pc = "fetch" /\ n.ended = "no" /\ n.page = <<>>
      /\ n.skip = 0 /\ n.pages = 0 /\ sync[s].pages = 0
      /\ n.fetched = sync[s].fetched /\ n.first = Keys(listed)
  BY <1>0, <1>1, <1>2, CallKnown DEF SyncRecords, SyncOK
<1>4. To(s, n)
  BY <1>1 DEF BeginSync
<1>5. SyncOK(n)
  BY <1>3, PagesAssumption DEF SyncOK
<1>6. n.skip = n.fetched /\ n.pages <= MaxPages
  BY <1>0, <1>3, CallKnown, PagesAssumption DEF SyncOK
<1>7. ASSUME NEW e \in SettledEntities, NEW b \in BOOLEAN, <<e, b>> \in n.first
      PROVE  IsListed(e, b)
  BY <1>3, <1>7 DEF Keys, ReconciliationId, IsListed
<1>8. sync' \in [Syncs -> SyncRecords] /\ sync'[s] = n
  BY <1>3, <1>4 DEF To, SyncInv, SyncTypeOK
<1>9. ASSUME NEW i \in DOMAIN listed  PROVE NotPassed(s, i)'
  <2>1. i \in Nat \ {0}
    BY CallKnown
  <2>2. Len(<<>>) = 0 /\ ~Taken(n, i)
    BY <1>3, <2>1 DEF Taken, Finished
  <2>3. ~Taken(sync[s], i)'
    BY <1>8, <2>2 DEF Taken, Finished
  <2>. QED  BY <2>3 DEF NotPassed
<1>. QED  BY <1>0, <1>3, <1>4, <1>5, <1>6, <1>7, <1>9, StoreKept

(* It fetches a page, or ends with an empty one.                           *)
LEMMA FetchStep ==
  ASSUME SyncInv, NEW s \in Syncs, FetchPage(s)
  PROVE  SyncInv'
<1>0. /\ sync[s].pc = "fetch" /\ UNCHANGED <<listed, itemRows, kept, changes>>
      /\ \/ PageAt(sync[s].skip) = <<>> /\ End(s, "complete")
         \/ /\ PageAt(sync[s].skip) # <<>>
            /\ To(s, [sync[s] EXCEPT !.pc = "store", !.page = PageAt(sync[s].skip)])
         \/ \E how \in {"unavailable", "invalid"} : End(s, how)
  BY Zenon DEF FetchPage, PageAt
<1>1. /\ sync[s] \in SyncRecords /\ sync[s].skip \in Nat /\ sync[s].page = <<>>
      /\ sync[s].ended = "no" /\ listed \in Seq(Items) /\ sync[s].pages < MaxPages
  BY <1>0, CallKnown DEF SyncRecords, SyncOK
<1>2. PICK k \in Nat, page \in Seq(Items) :
        /\ page = PageAt(sync[s].skip) /\ k = Len(page)
        /\ \A i \in DOMAIN listed : i > sync[s].skip /\ i <= sync[s].skip + k =>
               ReconciliationId(listed[i]) \in Keys(page)
        /\ k < PageSize => \A i \in DOMAIN listed : i <= sync[s].skip + k
  <2>1. PICK skip \in Nat : skip = sync[s].skip
    BY <1>1
  <2>2. /\ PageAt(skip) \in Seq(Items)
        /\ \A i \in DOMAIN listed : i > skip /\ i <= skip + Len(PageAt(skip)) =>
               ReconciliationId(listed[i]) \in Keys(PageAt(skip))
        /\ Len(PageAt(skip)) < PageSize =>
               \A i \in DOMAIN listed : i <= skip + Len(PageAt(skip))
    BY <1>1, PageRead
  <2>3. Len(PageAt(skip)) \in Nat
    BY <2>2
  <2>. QED  BY <2>1, <2>2, <2>3, Zenon
<1>3. Keys(<<>>) = {}
  BY DEF Keys
<1>4. ASSUME NEW i \in DOMAIN listed  PROVE NotPassed(s, i) /\ i \in Nat
  BY <1>1, <1>4 DEF SyncInv, NothingPassed
<1>5. \A i \in DOMAIN listed : i <= sync[s].skip =>
        (ReconciliationId(listed[i]) \in sync[s].first =>
           ReconciliationId(listed[i]) \in DOMAIN itemRows)
  BY <1>1, <1>3, <1>4 DEF NotPassed, Taken
<1>6. ASSUME NEW n \in SyncRecords, To(s, n)  PROVE sync'[s] = n
  BY <1>6 DEF To, SyncInv, SyncTypeOK
<1>7. CASE page = <<>> /\ End(s, "complete")
  <2>1. PICK n : n = [sync[s] EXCEPT !.pc = "ended", !.ended = "complete", !.page = <<>>]
    OBVIOUS
  <2>2. <<>> \in Seq(Items)
    OBVIOUS
  <2>3. /\ n \in SyncRecords /\ n.pc = "ended" /\ n.ended = "complete" /\ n.page = <<>>
        /\ n.skip = sync[s].skip /\ n.fetched = sync[s].fetched /\ n.pages = sync[s].pages
        /\ n.first = sync[s].first
    BY <1>1, <2>1, <2>2 DEF SyncRecords, SyncEnds
  <2>4. To(s, n) /\ SyncOK(n)
    BY <1>7, <2>1, <2>3 DEF End, SyncOK
  <2>5. \A i \in DOMAIN listed : i <= sync[s].skip
    <3>1. k = 0
      BY <1>2, <1>7
    <3>. QED  BY <1>1, <1>2, <1>4, <3>1, PagesAssumption
  <2>6. ASSUME NEW i \in DOMAIN listed  PROVE NotPassed(s, i)'
    BY <1>0, <1>5, <1>6, <2>3, <2>4, <2>5 DEF NotPassed
  <2>. QED  BY <1>0, <2>3, <2>4, <2>6, CallKnown, StoreKept
<1>8. CASE To(s, [sync[s] EXCEPT !.pc = "store", !.page = page])
  <2>1. PICK n : n = [sync[s] EXCEPT !.pc = "store", !.page = page]
    OBVIOUS
  <2>3. /\ n \in SyncRecords /\ n.pc = "store" /\ n.ended = "no" /\ n.page = page
        /\ n.skip = sync[s].skip /\ n.fetched = sync[s].fetched /\ n.pages = sync[s].pages
        /\ n.first = sync[s].first
    BY <1>1, <2>1 DEF SyncRecords
  <2>4. To(s, n) /\ SyncOK(n)
    BY <1>1, <1>8, <2>1, <2>3 DEF SyncOK
  <2>5. ASSUME NEW i \in DOMAIN listed, Taken(n, i)  PROVE i <= sync[s].skip + k
    BY <1>2, <2>3, <2>5 DEF Taken, Finished
  <2>6. ASSUME NEW i \in DOMAIN listed, Taken(n, i),
               ReconciliationId(listed[i]) \in sync[s].first
        PROVE  ReconciliationId(listed[i]) \in DOMAIN itemRows \cup Keys(page)
    <3>1. CASE i <= sync[s].skip
      BY <1>5, <2>6, <3>1
    <3>2. CASE i > sync[s].skip
      BY <1>2, <2>5, <2>6, <3>2
    <3>. QED  BY <1>1, <1>4, <3>1, <3>2
  <2>7. ASSUME NEW i \in DOMAIN listed  PROVE NotPassed(s, i)'
    BY <1>0, <1>6, <2>3, <2>4, <2>6, Zenon DEF NotPassed
  <2>. QED  BY <1>0, <2>3, <2>4, <2>7, CallKnown, StoreKept
<1>9. CASE \E how \in {"unavailable", "invalid"} : End(s, how)
  BY <1>0, <1>9, EndStep
<1>. QED  BY <1>0, <1>2, <1>7, <1>8, <1>9, Zenon

(* The rows of a page are put among the others, none is taken away.        *)
LEMMA RowsAdded ==
  ASSUME NEW items, itemRows' = Assigned(items)
  PROVE  DOMAIN itemRows' = DOMAIN itemRows \cup Keys(items)
BY DEF Assigned

(* A page of a new number is one page more of that call.                   *)
LEMMA PageCounted ==
  ASSUME SyncInv, NEW s \in Syncs, NEW p \in PageRecords, p.by = s,
         p.number = sync[s].pages + 1, kept' = kept \cup {p}
  PROVE  /\ IsFiniteSet(kept') /\ p \notin kept
         /\ Cardinality({q \in kept' : q.by = s}) = sync[s].pages + 1
         /\ \A r \in Syncs : r # s =>
               {q \in kept' : q.by = r} = {q \in kept : q.by = r}
<1>1. IsFiniteSet(kept) /\ sync[s].pages \in Nat
  BY CallKnown DEF SyncInv, PagesNumbered, SyncRecords
<1>2. p \notin kept
  BY <1>1 DEF SyncInv, PagesNumbered
<1>3. IsFiniteSet(kept')
  BY <1>1, FS_AddElement
<1>4. {q \in kept' : q.by = s} = {q \in kept : q.by = s} \cup {p}
  OBVIOUS
<1>5. IsFiniteSet({q \in kept : q.by = s})
  BY <1>1, FS_Subset
<1>6. Cardinality({q \in kept : q.by = s} \cup {p}) = Cardinality({q \in kept : q.by = s}) + 1
  BY <1>2, <1>5, FS_AddElement
<1>7. Cardinality({q \in kept : q.by = s}) = sync[s].pages
  BY DEF SyncInv, RowsAreWholePages
<1>. QED  BY <1>2, <1>3, <1>4, <1>6, <1>7

(* It stores the page and moves on, or ends.                               *)
LEMMA StoreStep ==
  ASSUME SyncInv, NEW s \in Syncs, StorePage(s)
  PROVE  SyncInv'
<1>. DEFINE r == sync[s]
            pages == r.pages + 1
            after == [r EXCEPT !.pages = pages, !.skip = @ + Len(r.page), !.page = <<>>,
                               !.fetched = @ + Len(r.page), !.stored = @ + Len(r.page)]
            next == IF LastPage(Len(r.page))
                    THEN [after EXCEPT !.pc = "ended", !.ended = "complete"]
                    ELSE IF pages = MaxPages
                         THEN [after EXCEPT !.pc = "ended", !.ended = "page limit"]
                         ELSE [after EXCEPT !.pc = "fetch"]
            record == [by |-> s, number |-> pages, keys |-> Keys(r.page)]
<1>0. /\ sync[s].pc = "store" /\ UNCHANGED <<listed, changes>>
      /\ \/ /\ itemRows' = Assigned(r.page) /\ kept' = kept \cup {record} /\ To(s, next)
         \/ StoreFails(s)
  BY Zenon DEF StorePage
<1>1. /\ r \in SyncRecords /\ r.skip \in Nat /\ r.page \in Seq(Items) /\ r.pages \in Nat
      /\ r.fetched = r.skip /\ r.ended = "no" /\ listed \in Seq(Items)
      /\ r.pages + 1 <= MaxPages
  BY <1>0, CallKnown, PagesAssumption DEF SyncRecords, SyncOK
<1>2. CASE StoreFails(s)
  BY <1>0, <1>2, EndStep DEF StoreFails
<1>3. CASE itemRows' = Assigned(r.page) /\ kept' = kept \cup {record} /\ To(s, next)
  <2>a. PICK k \in Nat : k = Len(r.page)
    BY <1>1
  <2>b. PICK n : n = next
    OBVIOUS
  <2>c. PICK p : p = record
    OBVIOUS
  <2>1. k = Len(r.page) /\ n = next /\ p = record
    BY <2>a, <2>b, <2>c, Zenon
  <2>d. sync[s].pages \in Nat /\ sync[s].pages + 1 \in Nat /\ sync[s].pages + 1 <= MaxPages
    <3>1. sync[s].pages \in Nat /\ sync[s].pages + 1 <= MaxPages
      BY <1>1, Zenon
    <3>. QED  BY <3>1
  <2>2. <<>> \in Seq(Items) /\ Len(<<>>) = 0 /\ Keys(<<>>) = {}
    BY DEF Keys
  <2>3. /\ n \in SyncRecords /\ n.page = <<>> /\ n.skip = r.skip + k /\ n.fetched = n.skip
        /\ n.pages = r.pages + 1 /\ n.first = r.first
        /\ \/ k < PageSize /\ n.pc = "ended" /\ n.ended = "complete"
           \/ n.pc = "ended" /\ n.ended = "page limit"
           \/ n.pc = "fetch" /\ n.ended = "no" /\ n.pages # MaxPages
    <3>1. PICK a : a = after
      OBVIOUS
    <3>2. /\ a \in SyncRecords /\ a.page = <<>> /\ a.skip = r.skip + k /\ a.fetched = a.skip
          /\ a.pages = r.pages + 1 /\ a.first = r.first /\ a.ended = "no"
      <4>1. PICK skip \in Nat, stored \in Nat, count \in Nat :
              skip = r.skip + k /\ stored = r.stored + k /\ count = r.pages + 1
        <5>1. r.stored \in Nat
          BY <1>1 DEF SyncRecords
        <5>2. r.skip + k \in Nat /\ r.stored + k \in Nat /\ r.pages + 1 \in Nat
          BY <1>1, <5>1, SMTT(20)
        <5>. QED  BY <5>2, Zenon
      <4>2. a = [r EXCEPT !.pages = count, !.skip = skip, !.page = <<>>,
                          !.fetched = skip, !.stored = stored]
        BY <1>1, <2>1, <3>1, <4>1
      <4>. QED  BY <1>1, <2>2, <4>1, <4>2 DEF SyncRecords
    <3>3. n = IF k < PageSize
              THEN [a EXCEPT !.pc = "ended", !.ended = "complete"]
              ELSE IF a.pages = MaxPages
                   THEN [a EXCEPT !.pc = "ended", !.ended = "page limit"]
                   ELSE [a EXCEPT !.pc = "fetch"]
      BY <2>1, <3>1, <3>2 DEF LastPage
    <3>. QED  BY <3>2, <3>3 DEF SyncRecords, SyncEnds
  <2>4. To(s, n)
    BY <1>3, <2>1
  <2>5. SyncOK(n) /\ n.pages <= MaxPages
    <3>1. n.pages \in Nat /\ n.pages <= MaxPages /\ MaxPages \in Nat
      BY <2>3, <2>d, PagesAssumption
    <3>2. n.pages # MaxPages => n.pages < MaxPages
      BY <3>1
    <3>. QED  BY <2>3, <3>1, <3>2 DEF SyncOK
  <2>6. DOMAIN itemRows' = DOMAIN itemRows \cup Keys(r.page)
    BY <1>3, RowsAdded
  <2>7. ASSUME NEW i \in DOMAIN listed, n.ended \in {"no", "complete"}
        PROVE  NotPassed(s, i)'
    <3>1. sync'[s] = n
      BY <2>3, <2>4 DEF To, SyncInv, SyncTypeOK
    <3>2. NotPassed(s, i)
      BY <1>1, <2>7 DEF SyncInv, NothingPassed
    <3>3. Taken(n, i) => Taken(r, i)
      <4>1. i \in Nat
        BY <1>1
      <4>. QED  BY <1>0, <1>1, <2>1, <2>2, <2>3, <2>7, <4>1 DEF Taken, Finished
    <3>. QED  BY <1>0, <2>2, <2>3, <2>6, <3>1, <3>2, <3>3, Zenon DEF NotPassed
  <2>8. /\ sync' \in [Syncs -> SyncRecords] /\ sync'[s] = n
        /\ \A q \in Syncs : q # s => sync'[q] = sync[q]
        /\ \A q \in Syncs : sync'[q].skip = sync'[q].fetched /\ sync'[q].pages <= MaxPages
        /\ SyncsOK' /\ OnceListed' /\ FirstKnown' /\ NothingPassed'
    BY <1>0, <2>3, <2>4, <2>5, <2>6, <2>7, CallKnown, CallEffect
  <2>9. Keys(r.page) \in SUBSET (SettledEntities \X BOOLEAN)
    <3>1. \A i \in DOMAIN r.page : r.page[i] \in Items
      BY <1>1
    <3>2. \A x \in Items : ReconciliationId(x) \in SettledEntities \X BOOLEAN
      BY DEF Items, ReconciliationId
    <3>. QED  BY <3>1, <3>2 DEF Keys
  <2>10. /\ p \in PageRecords /\ p.by = s /\ p.number = sync[s].pages + 1
         /\ p.keys = Keys(r.page) /\ kept' = kept \cup {p}
    BY <1>1, <1>3, <2>1, <2>9 DEF PageRecords
  <2>11. /\ IsFiniteSet(kept') /\ p \notin kept
         /\ Cardinality({q \in kept' : q.by = s}) = sync[s].pages + 1
         /\ \A c \in Syncs : c # s =>
               {q \in kept' : q.by = c} = {q \in kept : q.by = c}
    BY <2>10, PageCounted
  <2>12. PagesNumbered'
    <3>1. \A q \in kept' : q.number <= sync'[q.by].pages
      <4>1. \A q \in kept : q.by \in Syncs /\ q.number \in Nat
                            /\ q.number <= sync[q.by].pages
        BY DEF SyncInv, SyncTypeOK, PageRecords, PagesNumbered
      <4>2. \A c \in Syncs : sync[c].pages \in Nat
        BY CallKnown DEF SyncRecords
      <4>3. \A c \in Syncs : sync[c].pages <= sync'[c].pages
        <5>1. sync'[s].pages = sync[s].pages + 1
          BY <2>3, <2>8
        <5>2. \A c \in Syncs : c # s => sync'[c].pages = sync[c].pages
          BY <2>8
        <5>. QED  BY <4>2, <5>1, <5>2
      <4>4. \A c \in Syncs : sync'[c].pages \in Nat
        BY <2>8 DEF SyncRecords
      <4>5. ASSUME NEW q \in kept  PROVE q.number <= sync'[q.by].pages
        BY <4>1, <4>2, <4>3, <4>4
      <4>6. p.number <= sync'[p.by].pages
        <5>1. sync'[s].pages = sync[s].pages + 1 /\ p.number = sync[s].pages + 1
          BY <2>3, <2>8, <2>10
        <5>. QED  BY <2>d, <2>10, <5>1
      <4>. QED  BY <2>10, <4>5, <4>6
    <3>. QED  BY <2>11, <3>1 DEF PagesNumbered
  <2>13. RowsAreWholePages'
    <3>1. DOMAIN itemRows = UNION {q.keys : q \in kept}
      BY DEF SyncInv, RowsAreWholePages
    <3>2. DOMAIN itemRows' = UNION {q.keys : q \in kept'}
      BY <2>6, <2>10, <3>1
    <3>3. ASSUME NEW c \in Syncs
          PROVE  sync'[c].pages = Cardinality({q \in kept' : q.by = c})
      <4>1. sync[c].pages = Cardinality({q \in kept : q.by = c})
        BY DEF SyncInv, RowsAreWholePages
      <4>. QED  BY <2>3, <2>8, <2>11, <4>1
    <3>. QED  BY <3>2, <3>3 DEF RowsAreWholePages
  <2>14. SyncTypeOK'
    <3>1. DOMAIN itemRows' \subseteq SettledEntities \X BOOLEAN
      BY <2>6, <2>9 DEF SyncInv, SyncTypeOK
    <3>2. kept' \subseteq PageRecords
      BY <2>10 DEF SyncInv, SyncTypeOK
    <3>. QED  BY <1>0, <2>8, <3>1, <3>2 DEF SyncInv, SyncTypeOK
  <2>. QED  BY <2>8, <2>12, <2>13, <2>14 DEF SyncInv
<1>. QED  BY <1>0, <1>2, <1>3

(* Before any sync the invariant holds.                                    *)
LEMMA SyncStart == SyncInit => SyncInv
<1>. SUFFICES ASSUME SyncInit  PROVE SyncInv
  OBVIOUS
<1>1. /\ itemRows = <<>> /\ kept = {} /\ changes = 0
      /\ sync = [s \in Syncs |-> NoSync] /\ <<>> \in Seq(Items)
      /\ Len(<<>>) = 0
  BY DEF SyncInit
<1>2. /\ listed \in Seq(Items) /\ OnceListed
      /\ \A i \in DOMAIN listed : i \in Nat \ {0}
  <2>1. PICK e \in SettledEntities, f \in SettledEntities :
          listed = IF e = f THEN <<NewItem(e)>> ELSE <<NewItem(e), NewItem(f)>>
    BY DEF SyncInit
  <2>2. PICK x \in Items, y \in Items : /\ x = NewItem(e) /\ y = NewItem(f)
                                         /\ x.entity = e /\ y.entity = f
    <3>1. \A d \in SettledEntities : NewItem(d) \in Items /\ NewItem(d).entity = d
      BY DEF NewItem, Items
    <3>. QED  BY <3>1
  <2>3. CASE e = f
    BY <2>1, <2>2, <2>3 DEF OnceListed
  <2>4. CASE e # f
    BY <2>1, <2>2, <2>4 DEF OnceListed
  <2>. QED  BY <2>3, <2>4
<1>3. NoSync \in SyncRecords /\ SyncOK(NoSync)
  BY <1>1 DEF NoSync, SyncRecords, SyncEnds, SyncOK
<1>4. \A s \in Syncs : sync[s] = NoSync
  BY <1>1
<1>5. SyncTypeOK
  BY <1>1, <1>2, <1>3, <1>4, PagesAssumption DEF SyncTypeOK, NoSync
<1>6. SyncsOK
  BY <1>3, <1>4 DEF SyncsOK
<1>7. FirstKnown /\ NothingPassed
  BY <1>4 DEF FirstKnown, NothingPassed, NotPassed, NoSync
<1>8. PagesNumbered /\ RowsAreWholePages
  <2>1. \A s \in Syncs : {p \in kept : p.by = s} = {}
    BY <1>1
  <2>2. Cardinality({}) = 0 /\ IsFiniteSet({})
    BY FS_EmptySet
  <2>3. DOMAIN itemRows = {} /\ UNION {p.keys : p \in kept} = {}
    BY <1>1
  <2>. QED  BY <1>1, <1>4, <2>1, <2>2, <2>3 DEF PagesNumbered, RowsAreWholePages, NoSync
<1>. QED  BY <1>2, <1>5, <1>6, <1>7, <1>8 DEF SyncInv

(* Every step keeps it.                                                    *)
LEMMA SyncSteps == SyncInv /\ [SyncNext]_syncVars => SyncInv'
<1>. SUFFICES ASSUME SyncInv, [SyncNext]_syncVars  PROVE SyncInv'
  OBVIOUS
<1>1. CASE ListMoves
  BY <1>1, ListStep
<1>2. ASSUME NEW s \in Syncs, BeginSync(s)  PROVE SyncInv'
  BY <1>2, BeginStep
<1>3. ASSUME NEW s \in Syncs, FetchPage(s)  PROVE SyncInv'
  BY <1>3, FetchStep
<1>4. ASSUME NEW s \in Syncs, StorePage(s)  PROVE SyncInv'
  BY <1>4, StoreStep
<1>5. CASE UNCHANGED syncVars
  BY <1>5 DEF syncVars, SyncInv, SyncTypeOK, SyncsOK, OnceListed, FirstKnown, IsListed,
    NothingPassed, NotPassed, Taken, Finished, PagesNumbered, RowsAreWholePages
<1>. QED  BY <1>1, <1>2, <1>3, <1>4, <1>5 DEF SyncNext

(* A sync that reports to be complete has a row for every item that was    *)
(* listed when it began and still is, and the rows are whole pages, for    *)
(* every number of calls and items and every page size: the offset that    *)
(* sync_reconciliation advances by the page it got steps over nothing.     *)
THEOREM SyncsAreWhole == SyncSpec => []SyncMissesNothing
<1>1. SyncInv => SyncMissesNothing
  <2>. SUFFICES ASSUME SyncInv  PROVE CompleteSyncMissesNothing
    BY DEF SyncInv, SyncMissesNothing
  <2>1. ASSUME NEW s \in Syncs, sync[s].ended = "complete", NEW i \in DOMAIN listed,
               ReconciliationId(listed[i]) \in sync[s].first
        PROVE  ReconciliationId(listed[i]) \in DOMAIN itemRows
    <3>1. NotPassed(s, i)
      BY <2>1 DEF SyncInv, NothingPassed
    <3>2. Taken(sync[s], i)
      BY <2>1 DEF Taken, Finished
    <3>3. sync[s].page = <<>> /\ Keys(<<>>) = {}
      BY <2>1, CallKnown DEF SyncOK, Keys
    <3>. QED  BY <2>1, <3>1, <3>2, <3>3 DEF NotPassed
  <2>. QED  BY <2>1 DEF CompleteSyncMissesNothing, Keys
<1>. QED  BY <1>1, SyncStart, SyncSteps, PTL DEF SyncSpec
-----------------------------------------------------------------------------
CallRecords ==
  [pc : {"idle", "find", "insert"}, payment : Payments \cup {Nothing},
   candidate : PaymentCandidates \cup {Nothing}]
ReceiptRecords ==
  [payment : Payments, shown : PaymentCandidates, hold : PaymentCandidates, created : BOOLEAN]
TruthRecords ==
  [pc : {"idle", "direct", "webhook", "payment", "refunds", "disputes"},
   payment : Payments \cup {Nothing}, order : Orders \cup {Nothing},
   row : PaymentRows \cup {Nothing}, refunded : BOOLEAN, bridged : BOOLEAN]

CaseTypes ==
  /\ paymentRows \in [Payments -> PaymentRows \cup {Nothing}]
  /\ refunds \subseteq Payments
  /\ disputes \in [Payments -> {"fraud", "chargeback", Nothing}]
  /\ moves \in Nat
  /\ bridge \in [DOMAIN bridge -> CallRecords]
  /\ cases \in [Payments -> PaymentCandidates \cup {Nothing}]
  /\ receipts \in Seq(ReceiptRecords)
  /\ truth \in TruthRecords

(* A payment that was observed has a row, which tells of its last event.   *)
Observed(p) == paymentRows[p] # Nothing

RowOK(p) ==
  Observed(p) => paymentRows[p].event \in paymentRows[p].past /\ paymentRows[p].at <= moves

CallOK(r) ==
  r.pc # "idle" => r.payment \in Payments /\ r.candidate \in PaymentCandidates /\ Observed(r.payment)

(* The receipts of a payment name the hold it has, and one of them at most *)
(* says that it was created.                                               *)
ReceiptOK(r) ==
  /\ r.hold = cases[r.payment]
  /\ r.created => r.shown = r.hold

ReceiptsOK ==
  /\ \A i \in DOMAIN receipts : ReceiptOK(receipts[i])
  /\ \A i, j \in DOMAIN receipts :
       receipts[i].payment = receipts[j].payment /\ receipts[i].created /\ receipts[j].created
         => i = j

(* The source names the payment, as LinksAreNamed says.                    *)
Named(p) ==
  \/ source \in {p, OrderOf[p], RefundOf[p]}
  \/ source \in Webhooks /\ \/ NamedPayments(source) = {p}
                            \/ Summaries[source].orders = {OrderOf[p]}
                            \/ paymentRows[p] # Nothing /\ source \in paymentRows[p].past

TruthOK ==
  /\ truth.pc = "webhook" => source \in Webhooks
  /\ truth.pc \in {"payment", "refunds", "disputes"} =>
       truth.payment \in Payments /\ Named(truth.payment)
  /\ truth.bridged =>
       /\ truth.pc \in {"payment", "refunds", "disputes"}
       /\ truth.payment = source /\ source \in Payments /\ Observed(source)
       /\ truth.pc # "payment" => truth.row # Nothing

ToldOK ==
  told # Nothing =>
    /\ told.payment # Nothing => told.payment \in Payments /\ Named(told.payment)
    /\ told.bridged => told.payment = source /\ told.outcome # "NOT_YET_OBSERVED"

CaseInv ==
  /\ CaseTypes
  /\ \A p \in Payments : RowOK(p)
  /\ \A p \in Payments : cases[p] # Nothing => Observed(p)
  /\ \A c \in DOMAIN bridge : CallOK(bridge[c])
  /\ ReceiptsOK /\ TruthOK /\ ToldOK
-----------------------------------------------------------------------------
(* A set of naturals that has a member has a least one.                    *)
LEMMA LeastOf ==
  ASSUME NEW S \in SUBSET Nat, S # {}
  PROVE  \E m \in S : \A n \in S : m <= n
<1>1. PICK R : R = OpToRel(<, Nat)
  OBVIOUS
<1>2. IsWellFoundedOn(R, Nat)
  BY <1>1, NatLessThanWellFounded
<1>3. PICK m \in S : \A n \in S : ~(<<n, m>> \in R)
  BY <1>2, WFMin
<1>4. ASSUME NEW n \in S PROVE m <= n
  <2>1. n \in Nat /\ m \in Nat /\ ~(<<n, m>> \in R)
    BY <1>3
  <2>2. ~(n < m)
    BY <1>1, <2>1 DEF OpToRel
  <2>. QED  BY <2>1, <2>2
<1>. QED  BY <1>4

(* The newest of some rows is one of them.                                 *)
LEMMA NewestIn ==
  ASSUME CaseTypes, \A p \in Payments : RowOK(p),
         NEW S \in SUBSET Payments, S # {}, \A p \in S : Observed(p)
  PROVE  Newest(S) \in S
<1>1. \A p \in S : /\ paymentRows[p].at \in Nat /\ paymentRows[p].at <= moves
                   /\ moves - paymentRows[p].at \in Nat
  BY DEF CaseTypes, RowOK, Observed, PaymentRows
<1>2. PICK T : T = {moves - paymentRows[p].at : p \in S}
  OBVIOUS
<1>3. T \in SUBSET Nat /\ T # {}
  BY <1>1, <1>2
<1>4. PICK m \in T : \A n \in T : m <= n
  BY <1>3, LeastOf
<1>5. PICK p \in S : m = moves - paymentRows[p].at
  BY <1>2, <1>4
<1>6. ASSUME NEW q \in S PROVE paymentRows[q].at <= paymentRows[p].at
  <2>1. m <= moves - paymentRows[q].at
    BY <1>2, <1>4
  <2>2. moves \in Nat /\ paymentRows[q].at \in Nat /\ paymentRows[p].at \in Nat
    BY <1>1 DEF CaseTypes
  <2>. QED  BY <1>5, <2>1, <2>2
<1>. QED  BY <1>6 DEF Newest

(* What the reconstruction does to the rows: they are observed for good,   *)
(* and their past grows.                                                   *)
RowsGrow ==
  \A p \in Payments : Observed(p) =>
    Observed(p)' /\ paymentRows[p].past \subseteq paymentRows'[p].past

(* A payment row that grows keeps what is said of the others.              *)
LEMMA RowWritten ==
  ASSUME CaseTypes, \A p \in Payments : RowOK(p),
         NEW p \in Payments, NEW r \in PaymentRows, moves' = moves + 1,
         paymentRows' = [paymentRows EXCEPT ![p] = r], r.event \in r.past, r.at = moves + 1,
         Observed(p) => paymentRows[p].past \subseteq r.past
  PROVE  /\ paymentRows' \in [Payments -> PaymentRows \cup {Nothing}]
         /\ \A q \in Payments : RowOK(q)'
         /\ RowsGrow
<1>1. /\ moves \in Nat /\ r # Nothing
      /\ \A q \in Payments : paymentRows'[q] = IF q = p THEN r ELSE paymentRows[q]
  BY CasesAssumption DEF CaseTypes
<1>2. ASSUME NEW q \in Payments PROVE RowOK(q)'
  <2>1. CASE q = p
    BY <1>1, <2>1 DEF RowOK
  <2>2. CASE q # p
    <3>1. Observed(q) => paymentRows[q].at \in Nat
      BY DEF CaseTypes, Observed, PaymentRows
    <3>. QED  BY <1>1, <2>2, <3>1 DEF RowOK, Observed
  <2>. QED  BY <2>1, <2>2
<1>3. RowsGrow
  BY <1>1 DEF RowsGrow, Observed
<1>. QED  BY <1>2, <1>3 DEF CaseTypes

(* What a move of the rows leaves true of them.                            *)
LEMMA RowsEffect ==
  ASSUME CaseTypes, \A p \in Payments : RowOK(p), RowsMove
  PROVE  /\ paymentRows' \in [Payments -> PaymentRows \cup {Nothing}]
         /\ refunds' \subseteq Payments
         /\ disputes' \in [Payments -> {"fraud", "chargeback", Nothing}]
         /\ \A q \in Payments : RowOK(q)'
         /\ RowsGrow
<1>. DEFINE Written(p, r) ==
       /\ paymentRows' = [paymentRows EXCEPT ![p] = r] /\ r.event \in r.past
       /\ r.at = moves + 1 /\ (Observed(p) => paymentRows[p].past \subseteq r.past)
<1>1. moves' = moves + 1
  BY DEF RowsMove
<1>2. ASSUME UNCHANGED paymentRows
      PROVE  /\ paymentRows' \in [Payments -> PaymentRows \cup {Nothing}]
             /\ \A q \in Payments : RowOK(q)'
             /\ RowsGrow
  <2>1. \A q \in Payments : Observed(q) => paymentRows[q].at \in Nat
    BY DEF CaseTypes, Observed, PaymentRows
  <2>2. moves \in Nat
    BY DEF CaseTypes
  <2>3. ASSUME NEW q \in Payments PROVE RowOK(q)'
    BY <1>1, <1>2, <2>1, <2>2 DEF RowOK, Observed
  <2>. QED  BY <1>2, <2>3 DEF CaseTypes, RowsGrow, Observed
<1>3. ASSUME NEW p \in Payments, NEW r \in PaymentRows, Written(p, r)
      PROVE  /\ paymentRows' \in [Payments -> PaymentRows \cup {Nothing}]
             /\ \A q \in Payments : RowOK(q)'
             /\ RowsGrow
  BY <1>1, <1>3, RowWritten
<1>4. PICK p \in Payments :
        StoresPayment(p) \/ MovesPayment(p) \/ StoresRefund(p) \/ StoresDispute(p)
  BY DEF RowsMove
<1>5. PICK old : old = paymentRows[p]
  OBVIOUS
<1>6. PICK n \in Nat : n = moves + 1
  BY DEF CaseTypes
<1>7. Observed(p) => old \in PaymentRows /\ old.event \in old.past /\ old # Nothing
  BY <1>5 DEF CaseTypes, Observed, RowOK
<1>8. ASSUME NEW r \in PaymentRows, paymentRows' = [paymentRows EXCEPT ![p] = r],
             r.event \in r.past, r.at = n, Observed(p) => old.past \subseteq r.past
      PROVE  \E x \in PaymentRows : Written(p, x)
  BY <1>8, <1>5, <1>6
<1>. HIDE DEF Written
<1>9. UNCHANGED paymentRows \/ \E r \in PaymentRows : Written(p, r)
  <2>1. CASE StoresPayment(p)
    <3>1. PICK w \in Webhooks, first \in {"authorized", "captured"} :
           paymentRows' = [paymentRows EXCEPT ![p] = PaymentRow(old, w, first)]
      BY <1>5, <2>1 DEF StoresPayment
    <3>2. CASE ~Observed(p)
      <4>1. PICK r : r = [status |-> first, refunded |-> FALSE, event |-> w, past |-> {w},
                          at |-> n]
        OBVIOUS
      <4>2. r \in PaymentRows /\ r.event \in r.past /\ r.at = n
        BY <1>7, <4>1 DEF PaymentRows
      <4>3. paymentRows' = [paymentRows EXCEPT ![p] = r]
        BY <1>5, <1>6, <3>1, <3>2, <4>1 DEF Observed, PaymentRow
      <4>. QED  BY <1>8, <3>2, <4>2, <4>3
    <3>3. CASE Observed(p)
      <4>1. PICK r : r = [old EXCEPT !.event = w, !.past = @ \cup {w}, !.at = n]
        OBVIOUS
      <4>2. r \in PaymentRows /\ r.event = w /\ r.past = old.past \cup {w} /\ r.at = n
        <5>1. old \in PaymentRows
          BY <1>7, <3>3
        <5>. QED  BY <4>1, <5>1 DEF PaymentRows
      <4>3. paymentRows' = [paymentRows EXCEPT ![p] = r]
        <5>1. PaymentRow(old, w, first) = r
          BY <1>6, <1>7, <3>3, <4>1 DEF PaymentRow
        <5>. QED  BY <3>1, <5>1
      <4>4. r.event \in r.past /\ old.past \subseteq r.past
        BY <4>2
      <4>. QED  BY <1>8, <4>2, <4>3, <4>4
    <3>. QED  BY <3>2, <3>3
  <2>2. CASE MovesPayment(p)
    <3>1. Observed(p)
      BY <2>2 DEF MovesPayment, Observed
    <3>2. PICK t \in Successors[old.status] :
           paymentRows' = [paymentRows EXCEPT ![p] = [@ EXCEPT !.status = t, !.at = moves + 1]]
      BY <1>5, <2>2 DEF MovesPayment
    <3>3. t \in {"authorized", "captured", "failed", "refunded"}
      <4>1. old.status \in {"authorized", "captured", "failed", "refunded"}
        BY <1>7, <3>1 DEF PaymentRows
      <4>. QED  BY <4>1 DEF Successors
    <3>4. PICK r : r = [old EXCEPT !.status = t, !.at = n]
      OBVIOUS
    <3>5. r \in PaymentRows /\ r.event = old.event /\ r.past = old.past /\ r.at = n
      <4>1. old \in PaymentRows
        BY <1>7, <3>1
      <4>. QED  BY <3>3, <3>4, <4>1 DEF PaymentRows
    <3>6. paymentRows' = [paymentRows EXCEPT ![p] = r]
      BY <1>5, <1>6, <3>2, <3>4
    <3>. QED  BY <1>7, <1>8, <3>1, <3>5, <3>6
  <2>3. CASE StoresRefund(p)
    <3>1. Observed(p)
      BY <2>3 DEF StoresRefund, Observed
    <3>2. PICK r : r = [old EXCEPT !.refunded = TRUE, !.at = n]
      OBVIOUS
    <3>3. r \in PaymentRows /\ r.event = old.event /\ r.past = old.past /\ r.at = n
      <4>1. old \in PaymentRows
        BY <1>7, <3>1
      <4>. QED  BY <3>2, <4>1 DEF PaymentRows
    <3>4. paymentRows' = [paymentRows EXCEPT ![p] = r]
      BY <1>5, <1>6, <2>3, <3>2 DEF StoresRefund
    <3>. QED  BY <1>7, <1>8, <3>1, <3>3, <3>4
  <2>. QED  BY <1>4, <2>1, <2>2, <2>3 DEF StoresDispute
<1>10. /\ refunds' \subseteq Payments
      /\ disputes' \in [Payments -> {"fraud", "chargeback", Nothing}]
  BY <1>4 DEF CaseTypes, StoresPayment, MovesPayment, StoresRefund, StoresDispute
<1>. QED  BY <1>2, <1>3, <1>9, <1>10

(* A source that names a payment goes on naming it.                        *)
LEMMA NamedStays ==
  ASSUME RowsGrow, UNCHANGED source, NEW p \in Payments, Named(p)
  PROVE  Named(p)'
<1>1. paymentRows[p] # Nothing =>
        paymentRows'[p] # Nothing /\ paymentRows[p].past \subseteq paymentRows'[p].past
  BY DEF RowsGrow, Observed
<1>. QED  BY <1>1 DEF Named, NamedPayments

(* A step that leaves the rows alone.                                      *)
LEMMA SameRows ==
  ASSUME UNCHANGED <<paymentRows, source>>
  PROVE  /\ \A p \in Payments : Observed(p)' = Observed(p) /\ Named(p)' = Named(p)
         /\ UNCHANGED moves => \A p \in Payments : RowOK(p)' = RowOK(p)
BY DEF Observed, Named, NamedPayments, RowOK

(* A move of the rows keeps the invariant.                                 *)
LEMMA RowsStep ==
  ASSUME CaseInv, RowsMove
  PROVE  CaseInv'
<1>. USE DEF CaseInv
<1>1. /\ paymentRows' \in [Payments -> PaymentRows \cup {Nothing}]
      /\ refunds' \subseteq Payments
      /\ disputes' \in [Payments -> {"fraud", "chargeback", Nothing}]
      /\ \A q \in Payments : RowOK(q)'
      /\ RowsGrow
  BY RowsEffect
<1>2. UNCHANGED <<bridge, cases, receipts, truth, source, told>> /\ moves' = moves + 1
  BY DEF RowsMove
<1>3. CaseTypes'
  BY <1>1, <1>2 DEF CaseTypes
<1>4. \A p \in Payments : (Observed(p) => Observed(p)') /\ (Named(p) => Named(p)')
  BY <1>1, <1>2, NamedStays DEF RowsGrow
<1>5. (\A p \in Payments : cases[p] # Nothing => Observed(p))'
  BY <1>2, <1>4
<1>6. (\A c \in DOMAIN bridge : CallOK(bridge[c]))'
  BY <1>2, <1>4 DEF CallOK
<1>7. ReceiptsOK'
  BY <1>2 DEF ReceiptsOK, ReceiptOK
<1>8. TruthOK'
  BY <1>2, <1>4 DEF TruthOK
<1>9. ToldOK'
  BY <1>2, <1>4 DEF ToldOK
<1>. QED  BY <1>1, <1>3, <1>5, <1>6, <1>7, <1>8, <1>9
-----------------------------------------------------------------------------
(* A call of the bridge that takes its next step, and what else it does.   *)
LEMMA CallMoves ==
  ASSUME CaseInv, NEW c \in DOMAIN bridge, NEW r \in CallRecords, CallOK(r),
         bridge' = [bridge EXCEPT ![c] = r],
         UNCHANGED <<paymentRows, refunds, disputes, moves, truth, source, told>>
  PROVE  /\ UNCHANGED cases /\ receipts' = receipts => CaseInv'
         /\ cases' \in [Payments -> PaymentCandidates \cup {Nothing}]
              /\ receipts' \in Seq(ReceiptRecords) /\ ReceiptsOK'
              /\ (\A p \in Payments : cases'[p] # Nothing => cases[p] # Nothing \/ Observed(p))
              => CaseInv'
<1>. USE DEF CaseInv
<1>1. /\ \A p \in Payments : Observed(p)' = Observed(p) /\ Named(p)' = Named(p)
      /\ \A p \in Payments : RowOK(p)'
  BY SameRows
<1>2. /\ bridge' \in [DOMAIN bridge' -> CallRecords] /\ DOMAIN bridge' = DOMAIN bridge
      /\ \A d \in DOMAIN bridge : bridge'[d] = IF d = c THEN r ELSE bridge[d]
  BY DEF CaseTypes
<1>3. (\A d \in DOMAIN bridge : CallOK(bridge[d]))'
  <2>. SUFFICES ASSUME NEW d \in DOMAIN bridge PROVE CallOK(bridge[d])'
    BY <1>2
  <2>1. CallOK(r)'
    BY <1>1 DEF CallOK
  <2>2. CallOK(bridge[d])
    OBVIOUS
  <2>. QED  BY <1>1, <1>2, <2>1, <2>2 DEF CallOK
<1>4. TruthOK' /\ ToldOK'
  BY <1>1 DEF TruthOK, ToldOK
<1>5. ASSUME cases' \in [Payments -> PaymentCandidates \cup {Nothing}],
             receipts' \in Seq(ReceiptRecords), ReceiptsOK',
             \A p \in Payments : cases'[p] # Nothing => cases[p] # Nothing \/ Observed(p)
      PROVE  CaseInv'
  <2>1. CaseTypes'
    BY <1>2, <1>5 DEF CaseTypes
  <2>2. (\A p \in Payments : cases[p] # Nothing => Observed(p))'
    BY <1>1, <1>5
  <2>. QED  BY <1>1, <1>3, <1>4, <1>5, <2>1, <2>2
<1>6. ASSUME UNCHANGED cases, receipts' = receipts PROVE CaseInv'
  <2>1. ReceiptsOK'
    BY <1>6 DEF ReceiptsOK, ReceiptOK
  <2>. QED  BY <1>5, <1>6, <2>1 DEF CaseTypes
<1>. QED  BY <1>5, <1>6

(* The call that is made of a candidate is a good one.                     *)
LEMMA CandidateGood ==
  ASSUME CaseInv, NEW p \in Payments
  PROVE  CandidateCall(p) \in CallRecords /\ CallOK(CandidateCall(p))
<1>1. CASE paymentRows[p] = Nothing
  BY <1>1 DEF CandidateCall, Calling, CallRecords, CallOK
<1>2. CASE paymentRows[p] # Nothing
  <2>1. PICK row \in PaymentRows : row = paymentRows[p]
    BY <1>2 DEF CaseInv, CaseTypes
  <2>2. PICK reason : reason = ReasonOf(row)
    OBVIOUS
  <2>3. reason \in {"REFUND_OBSERVED", "failed", "captured", "authorized", "PAYMENT_OBSERVED"}
    BY <2>2 DEF ReasonOf, PaymentRows
  <2>4. PICK x : x = [reason |-> reason, at |-> row.at]
    OBVIOUS
  <2>5. x \in PaymentCandidates
    BY <2>3, <2>4 DEF PaymentCandidates, PaymentRows
  <2>6. CandidateCall(p) = [pc |-> "find", payment |-> p, candidate |-> x]
    BY <1>2, <2>1, <2>2, <2>4 DEF CandidateCall
  <2>. QED  BY <1>2, <2>5, <2>6 DEF CallRecords, CallOK, Observed
<1>. QED  BY <1>1, <1>2

(* A receipt that is added names the hold the payment has: the one it had, *)
(* or the one that is made for it now.                                     *)
LEMMA ReceiptAdded ==
  ASSUME CaseTypes, ReceiptsOK, NEW r \in ReceiptRecords, receipts' = Append(receipts, r),
         \/ r.hold = cases[r.payment] /\ ~r.created /\ cases' = cases
         \/ /\ cases[r.payment] = Nothing /\ r.shown = r.hold
            /\ cases' = [cases EXCEPT ![r.payment] = r.hold]
  PROVE  /\ receipts' \in Seq(ReceiptRecords) /\ ReceiptsOK'
         /\ cases' \in [Payments -> PaymentCandidates \cup {Nothing}]
         /\ \A p \in Payments : p # r.payment => cases'[p] = cases[p]
<1>1. PICK q \in Seq(ReceiptRecords) : q = receipts
  BY DEF CaseTypes
<1>2. PICK n \in Nat : n = Len(q)
  BY <1>1
<1>3. /\ Append(q, r) \in Seq(ReceiptRecords) /\ DOMAIN Append(q, r) = 1 .. n + 1
      /\ DOMAIN q = 1 .. n /\ Append(q, r)[n + 1] = r
      /\ \A i \in 1 .. n : Append(q, r)[i] = q[i] /\ q[i] \in ReceiptRecords
  BY <1>1, <1>2
<1>4. PICK t : t = Append(q, r)
  OBVIOUS
<1>5. r.payment \in Payments /\ r.hold \in PaymentCandidates /\ r.created \in BOOLEAN
  BY DEF ReceiptRecords
<1>6. /\ cases' \in [Payments -> PaymentCandidates \cup {Nothing}]
      /\ \A p \in Payments : p # r.payment => cases'[p] = cases[p]
      /\ cases'[r.payment] = r.hold
  BY <1>5 DEF CaseTypes
<1>7. \A i \in 1 .. n : q[i].payment \in Payments /\ q[i].hold # Nothing /\ ReceiptOK(q[i])
  <2>1. \A i \in 1 .. n : ReceiptOK(q[i])
    BY <1>1, <1>3 DEF ReceiptsOK
  <2>. QED  BY <1>3, <2>1, CasesAssumption DEF ReceiptRecords
<1>8. \A i \in 1 .. n : cases'[q[i].payment] = cases[q[i].payment]
  <2>. SUFFICES ASSUME NEW i \in 1 .. n PROVE cases'[q[i].payment] = cases[q[i].payment]
    OBVIOUS
  <2>1. cases[q[i].payment] # Nothing /\ q[i].payment \in Payments
    BY <1>7 DEF ReceiptOK
  <2>2. CASE q[i].payment # r.payment
    BY <1>6, <2>1, <2>2
  <2>3. CASE q[i].payment = r.payment
    BY <2>1, <2>3
  <2>. QED  BY <2>2, <2>3
<1>9. (\A i \in 1 .. n : ReceiptOK(q[i])') /\ ReceiptOK(r)'
  BY <1>6, <1>7, <1>8 DEF ReceiptOK
<1>10. \A i \in 1 .. n + 1 : ReceiptOK(t[i])'
  <2>. SUFFICES ASSUME NEW i \in 1 .. n + 1 PROVE ReceiptOK(t[i])'
    OBVIOUS
  <2>1. CASE i = n + 1
    BY <1>3, <1>4, <1>9, <2>1
  <2>2. CASE i \in 1 .. n
    BY <1>3, <1>4, <1>9, <2>2
  <2>. QED  BY <2>1, <2>2
<1>11. ASSUME r.created, NEW i \in 1 .. n PROVE q[i].payment # r.payment
  <2>1. cases[r.payment] = Nothing
    BY <1>11
  <2>. QED  BY <1>7, <2>1 DEF ReceiptOK
<1>12. \A i, j \in 1 .. n :
         q[i].payment = q[j].payment /\ q[i].created /\ q[j].created => i = j
  BY <1>1, <1>3 DEF ReceiptsOK
<1>13. \A i, j \in 1 .. n + 1 :
         t[i].payment = t[j].payment /\ t[i].created /\ t[j].created => i = j
  <2>. SUFFICES ASSUME NEW i \in 1 .. n + 1, NEW j \in 1 .. n + 1,
                       t[i].payment = t[j].payment, t[i].created, t[j].created
                PROVE  i = j
    OBVIOUS
  <2>1. CASE i \in 1 .. n /\ j \in 1 .. n
    BY <1>3, <1>4, <1>12, <2>1
  <2>2. CASE i = n + 1 /\ j \in 1 .. n
    BY <1>3, <1>4, <1>11, <2>2
  <2>3. CASE i \in 1 .. n /\ j = n + 1
    BY <1>3, <1>4, <1>11, <2>3
  <2>. QED  BY <2>1, <2>2, <2>3
<1>14. receipts' = t /\ t \in Seq(ReceiptRecords) /\ DOMAIN t = 1 .. n + 1
  BY <1>1, <1>3, <1>4
<1>. QED  BY <1>6, <1>10, <1>13, <1>14 DEF ReceiptsOK

(* A call that has not begun is a good one.                                *)
LEMMA CallingGood == Calling \in CallRecords /\ CallOK(Calling)
BY DEF Calling, CallRecords, CallOK

(* Looking for a case keeps the invariant.                                 *)
LEMMA FindStep ==
  ASSUME CaseInv, NEW c \in DOMAIN bridge, FindCase(c)
  PROVE  CaseInv'
<1>. USE DEF CaseInv
<1>1. /\ bridge[c].pc = "find" /\ bridge[c] \in CallRecords /\ CallOK(bridge[c])
      /\ UNCHANGED <<paymentRows, refunds, disputes, moves, cases, truth, source, told>>
  BY DEF FindCase, CaseTypes
<1>2. PICK p \in Payments : p = bridge[c].payment
  BY <1>1 DEF CallOK
<1>3. CASE cases[p] # Nothing
  <2>1. PICK r : r = [payment |-> p, shown |-> bridge[c].candidate, hold |-> cases[p],
                      created |-> FALSE]
    OBVIOUS
  <2>2. r \in ReceiptRecords
    BY <1>1, <1>3, <2>1 DEF ReceiptRecords, CallOK, CaseTypes
  <2>3. receipts' = Append(receipts, r) /\ bridge' = [bridge EXCEPT ![c] = Calling]
    BY <1>2, <1>3, <2>1 DEF FindCase, Receipt
  <2>4. r.hold = cases[r.payment] /\ ~r.created
    BY <2>1
  <2>5. /\ receipts' \in Seq(ReceiptRecords) /\ ReceiptsOK'
        /\ cases' \in [Payments -> PaymentCandidates \cup {Nothing}]
    BY <1>1, <2>2, <2>3, <2>4, ReceiptAdded
  <2>. QED  BY <1>1, <2>3, <2>5, CallMoves, CallingGood
<1>4. CASE cases[p] = Nothing
  <2>1. PICK r : r = [bridge[c] EXCEPT !.pc = "insert"]
    OBVIOUS
  <2>2. r \in CallRecords /\ CallOK(r)
    BY <1>1, <2>1 DEF CallRecords, CallOK
  <2>3. bridge' = [bridge EXCEPT ![c] = r] /\ receipts' = receipts
    BY <1>2, <1>4, <2>1 DEF FindCase
  <2>. QED  BY <1>1, <2>2, <2>3, CallMoves
<1>. QED  BY <1>3, <1>4

(* So does inserting it.                                                   *)
LEMMA InsertStep ==
  ASSUME CaseInv, NEW c \in DOMAIN bridge, InsertCase(c)
  PROVE  CaseInv'
<1>. USE DEF CaseInv
<1>1. /\ bridge[c].pc = "insert" /\ bridge[c] \in CallRecords /\ CallOK(bridge[c])
      /\ UNCHANGED <<paymentRows, refunds, disputes, moves, truth, source, told>>
  BY DEF InsertCase, CaseTypes
<1>2. PICK p \in Payments : p = bridge[c].payment /\ Observed(p)
  BY <1>1 DEF CallOK
<1>3. PICK x \in PaymentCandidates : x = bridge[c].candidate
  BY <1>1 DEF CallOK
<1>4. CASE cases[p] # Nothing
  <2>1. PICK r : r = [payment |-> p, shown |-> x, hold |-> cases[p], created |-> FALSE]
    OBVIOUS
  <2>2. r \in ReceiptRecords
    BY <1>4, <2>1 DEF ReceiptRecords, CaseTypes
  <2>3. /\ receipts' = Append(receipts, r) /\ bridge' = [bridge EXCEPT ![c] = Calling]
        /\ UNCHANGED cases
    BY <1>2, <1>3, <1>4, <2>1 DEF InsertCase, Receipt
  <2>4. r.hold = cases[r.payment] /\ ~r.created
    BY <2>1
  <2>5. /\ receipts' \in Seq(ReceiptRecords) /\ ReceiptsOK'
        /\ cases' \in [Payments -> PaymentCandidates \cup {Nothing}]
    BY <2>2, <2>3, <2>4, ReceiptAdded
  <2>. QED  BY <1>1, <2>3, <2>5, CallMoves, CallingGood
<1>5. CASE cases[p] = Nothing
  <2>1. PICK r : r = [payment |-> p, shown |-> x, hold |-> x, created |-> TRUE]
    OBVIOUS
  <2>2. r \in ReceiptRecords /\ r.payment = p /\ r.shown = r.hold /\ r.hold = x
    BY <2>1 DEF ReceiptRecords
  <2>3. /\ receipts' = Append(receipts, r) /\ bridge' = [bridge EXCEPT ![c] = Calling]
        /\ cases' = [cases EXCEPT ![r.payment] = r.hold]
    BY <1>2, <1>3, <1>5, <2>1, <2>2 DEF InsertCase, Receipt
  <2>4. /\ receipts' \in Seq(ReceiptRecords) /\ ReceiptsOK'
        /\ cases' \in [Payments -> PaymentCandidates \cup {Nothing}]
        /\ \A q \in Payments : q # p => cases'[q] = cases[q]
    BY <1>5, <2>2, <2>3, ReceiptAdded
  <2>5. \A q \in Payments : cases'[q] # Nothing => cases[q] # Nothing \/ Observed(q)
    BY <1>2, <2>4
  <2>. QED  BY <1>1, <2>3, <2>4, <2>5, CallMoves, CallingGood
<1>. QED  BY <1>4, <1>5
-----------------------------------------------------------------------------
(* The reader of the ground truth, who changes nothing else.               *)
LEMMA TruthMoves ==
  ASSUME CaseInv, NEW r \in TruthRecords, truth' = r, TruthOK', ToldOK',
         UNCHANGED <<paymentRows, refunds, disputes, moves, bridge, cases, receipts, source>>
  PROVE  CaseInv'
<1>. USE DEF CaseInv
<1>1. \A p \in Payments : Observed(p)' = Observed(p) /\ RowOK(p)'
  BY SameRows
<1>2. CaseTypes'
  BY DEF CaseTypes
<1>3. (\A c \in DOMAIN bridge : CallOK(bridge[c]))'
  BY <1>1 DEF CallOK
<1>4. ReceiptsOK'
  BY DEF ReceiptsOK, ReceiptOK
<1>. QED  BY <1>1, <1>2, <1>3, <1>4

(* A read that has not begun is a good one.                                *)
LEMMA ReadingGood == Reading \in TruthRecords
BY DEF Reading, TruthRecords

(* A link that is found names its payment.                                 *)
LEMMA LinkedStep ==
  ASSUME CaseInv, truth.pc \in {"direct", "webhook"}, NEW p \in Payments, Named(p),
         NEW o \in Orders \cup {Nothing}, Linked(p, o),
         UNCHANGED <<paymentRows, refunds, disputes, moves, bridge, cases, receipts, source, told>>
  PROVE  CaseInv'
<1>. USE DEF CaseInv
<1>1. PICK r : r = [truth EXCEPT !.pc = "payment", !.payment = p, !.order = o]
  OBVIOUS
<1>2. truth \in TruthRecords /\ ~truth.bridged
  BY DEF CaseTypes, TruthOK
<1>3. r \in TruthRecords /\ r.pc = "payment" /\ r.payment = p /\ r.bridged = truth.bridged
  BY <1>1, <1>2 DEF TruthRecords
<1>4. truth' = r
  BY <1>1 DEF Linked
<1>5. \A q \in Payments : Named(q)' = Named(q)
  BY SameRows
<1>6. TruthOK' /\ ToldOK'
  BY <1>2, <1>3, <1>4, <1>5 DEF TruthOK, ToldOK
<1>. QED  BY <1>3, <1>4, <1>6, TruthMoves

(* A link that is not found tells of no payment.                           *)
LEMMA NotLinkedStep ==
  ASSUME CaseInv, NEW o, NotLinked(o),
         UNCHANGED <<paymentRows, refunds, disputes, moves, bridge, cases, receipts, source>>
  PROVE  CaseInv'
<1>1. truth' = Reading /\ TruthOK'
  BY DEF NotLinked, Reading, TruthOK
<1>2. ToldOK'
  BY DEF NotLinked, ToldOK
<1>. QED  BY <1>1, <1>2, ReadingGood, TruthMoves

(* A question about a payment keeps the invariant,                         *)
LEMMA AskStep ==
  ASSUME CaseInv, AskTruth
  PROVE  CaseInv'
<1>. USE DEF CaseInv
<1>1. UNCHANGED <<paymentRows, refunds, disputes, moves, bridge, cases, receipts, source, told>>
  BY DEF AskTruth
<1>2. (\A q \in Payments : Named(q)' = Named(q) /\ Observed(q)' = Observed(q)) /\ ToldOK'
  <2>1. \A q \in Payments : Named(q)' = Named(q) /\ Observed(q)' = Observed(q)
    BY <1>1, SameRows
  <2>. QED  BY <1>1, <2>1 DEF ToldOK
<1>3. CASE source \in Payments
  <2>1. PICK b \in BOOLEAN : b = (cases[source] # Nothing)
    OBVIOUS
  <2>2. PICK r : r = [Reading EXCEPT !.pc = "payment", !.payment = source, !.bridged = b]
    OBVIOUS
  <2>3. /\ r \in TruthRecords /\ r.pc = "payment" /\ r.payment = source /\ r.bridged = b
    BY <1>3, <2>2 DEF Reading, TruthRecords
  <2>4. truth' = r
    BY <1>3, <2>1, <2>2 DEF AskTruth
  <2>5. Named(source)
    BY <1>3 DEF Named
  <2>6. TruthOK'
    BY <1>1, <1>2, <1>3, <2>1, <2>3, <2>4, <2>5 DEF TruthOK
  <2>. QED  BY <1>1, <1>2, <2>3, <2>4, <2>6, TruthMoves
<1>4. CASE source \notin Payments
  <2>1. PICK r : r = [Reading EXCEPT !.pc = "direct"]
    OBVIOUS
  <2>2. r \in TruthRecords /\ r.pc = "direct" /\ ~r.bridged
    BY <2>1 DEF Reading, TruthRecords
  <2>3. truth' = r
    BY <1>4, <2>1 DEF AskTruth
  <2>4. TruthOK'
    BY <2>2, <2>3 DEF TruthOK
  <2>. QED  BY <1>1, <1>2, <2>2, <2>3, <2>4, TruthMoves
<1>. QED  BY <1>3, <1>4

(* as does its answer by the direct link                                   *)
LEMMA DirectStep ==
  ASSUME CaseInv, ResolveDirect
  PROVE  CaseInv'
<1>. USE DEF CaseInv
<1>1. /\ UNCHANGED <<paymentRows, refunds, disputes, moves, bridge, cases, receipts, source>>
      /\ truth.pc = "direct"
  BY DEF ResolveDirect
<1>2. PICK D \in SUBSET Payments : D = DirectRows(source)
  BY DEF DirectRows
<1>3. \A p \in D : Observed(p) /\ Named(p)
  <2>. SUFFICES ASSUME NEW p \in D PROVE Observed(p) /\ Named(p)
    OBVIOUS
  <2>1. Observed(p) /\ (paymentRows[p].event = source \/ OrderOf[p] = source)
    BY <1>2 DEF DirectRows, Observed
  <2>2. CASE OrderOf[p] = source
    BY <2>1, <2>2 DEF Named
  <2>3. CASE paymentRows[p].event = source
    <3>1. source \in Webhooks /\ source \in paymentRows[p].past
      BY <2>1, <2>3 DEF RowOK, CaseTypes, Observed, PaymentRows
    <3>. QED  BY <2>1, <3>1 DEF Named, Observed
  <2>. QED  BY <2>1, <2>2, <2>3
<1>4. CASE D # {}
  <2>1. PICK p \in D : p = Newest(D)
    BY <1>3, <1>4, NewestIn
  <2>2. Linked(p, OrderOf[p]) /\ UNCHANGED told
    BY <1>2, <1>4, <2>1 DEF ResolveDirect
  <2>3. Named(p) /\ OrderOf[p] \in Orders
    BY <1>3 DEF Orders
  <2>. QED  BY <1>1, <2>2, <2>3, LinkedStep
<1>5. CASE D = {} /\ source \in RefundIds
  <2>1. Linked(RefundedBy(source), Nothing) /\ UNCHANGED told
    BY <1>2, <1>5 DEF ResolveDirect
  <2>2. PICK p \in refunds : RefundOf[p] = source /\ p = RefundedBy(source)
    BY <1>5 DEF RefundedBy, RefundIds
  <2>3. Named(p) /\ p \in Payments
    BY <2>2 DEF Named, CaseTypes
  <2>. QED  BY <1>1, <2>1, <2>2, <2>3, LinkedStep
<1>6. CASE D = {} /\ source \notin RefundIds /\ source \in Webhooks
  <2>1. truth' = [truth EXCEPT !.pc = "webhook"] /\ UNCHANGED told
    BY <1>2, <1>6 DEF ResolveDirect
  <2>2. PICK r : r = [truth EXCEPT !.pc = "webhook"]
    OBVIOUS
  <2>3. r \in TruthRecords /\ r.pc = "webhook" /\ r.bridged = truth.bridged /\ ~truth.bridged
    BY <1>1, <2>2 DEF TruthRecords, CaseTypes, TruthOK
  <2>4. TruthOK'
    BY <1>1, <1>6, <2>1, <2>2, <2>3 DEF TruthOK
  <2>5. ToldOK'
    BY <1>1, <2>1, SameRows DEF ToldOK
  <2>. QED  BY <1>1, <2>1, <2>2, <2>3, <2>4, <2>5, TruthMoves
<1>7. CASE D = {} /\ source \notin RefundIds /\ source \notin Webhooks
  <2>1. NotLinked(IF source \in Orders THEN source ELSE Nothing)
    BY <1>2, <1>7 DEF ResolveDirect
  <2>. QED  BY <1>1, <2>1, NotLinkedStep
<1>. QED  BY <1>4, <1>5, <1>6, <1>7

(* or by the webhooks.                                                     *)
LEMMA WebhookStep ==
  ASSUME CaseInv, ResolveWebhook
  PROVE  CaseInv'
<1>. USE DEF CaseInv
<1>1. /\ UNCHANGED <<paymentRows, refunds, disputes, moves, bridge, cases, receipts, source>>
      /\ truth.pc = "webhook" /\ source \in Webhooks
  BY DEF ResolveWebhook, TruthOK
<1>2. PICK P \in SUBSET Payments : P = NamedPayments(source) /\ IsFiniteSet(P)
  BY <1>1, CasesAssumption DEF NamedPayments
<1>3. PICK O \in SUBSET Orders : O = Summaries[source].orders /\ IsFiniteSet(O)
  BY <1>1, CasesAssumption
<1>4. PICK S \in SUBSET Payments :
        S = {p \in Payments : paymentRows[p] # Nothing /\ OrderOf[p] \in O}
  OBVIOUS
<1>5. CASE ExactlyOne(P)
  <2>1. PICK p \in Payments : P = {p}
    BY <1>2, <1>5, FS_Singleton DEF ExactlyOne
  <2>2. p = (CHOOSE q \in P : TRUE)
    BY <2>1
  <2>3. PICK o \in IF O = {} THEN {Nothing} ELSE O : Linked(p, o) /\ UNCHANGED told
    BY <1>2, <1>3, <1>5, <2>2 DEF ResolveWebhook
  <2>4. Named(p) /\ o \in Orders \cup {Nothing}
    BY <1>1, <1>2, <2>1, <2>3 DEF Named
  <2>. QED  BY <1>1, <2>3, <2>4, LinkedStep
<1>6. CASE ~ExactlyOne(P) /\ Cardinality(O) = 1 /\ S # {}
  <2>1. PICK o \in Orders : O = {o}
    BY <1>3, <1>6, FS_Singleton
  <2>2. o = (CHOOSE x \in O : TRUE)
    BY <2>1
  <2>3. PICK p \in S : p = Newest(S)
    BY <1>4, <1>6, NewestIn DEF Observed
  <2>4. Linked(p, o) /\ UNCHANGED told
    BY <1>2, <1>3, <1>4, <1>6, <2>2, <2>3 DEF ResolveWebhook
  <2>5. Named(p)
    BY <1>1, <1>3, <1>4, <2>1, <2>3 DEF Named
  <2>. QED  BY <1>1, <2>4, <2>5, LinkedStep
<1>7. CASE ~ExactlyOne(P) /\ Cardinality(O) = 1 /\ S = {}
  <2>1. NotLinked(CHOOSE o \in O : TRUE)
    BY <1>2, <1>3, <1>4, <1>7 DEF ResolveWebhook
  <2>. QED  BY <1>1, <2>1, NotLinkedStep
<1>8. CASE ~ExactlyOne(P) /\ Cardinality(O) # 1
  <2>1. NotLinked(Nothing)
    BY <1>2, <1>3, <1>4, <1>8 DEF ResolveWebhook
  <2>. QED  BY <1>1, <2>1, NotLinkedStep
<1>. QED  BY <1>5, <1>6, <1>7, <1>8

(* The three reads of the rows of a payment: what is told of a case of the *)
(* bridge rests on the row that was there when the case was found.         *)
LEMMA ReadsStep ==
  ASSUME CaseInv, ReadPayment \/ ReadRefunds \/ ReadDisputes
  PROVE  CaseInv'
<1>. USE DEF CaseInv
<1>1. /\ UNCHANGED <<paymentRows, refunds, disputes, moves, bridge, cases, receipts, source>>
      /\ truth \in TruthRecords /\ truth.payment \in Payments /\ Named(truth.payment)
      /\ \A q \in Payments : Named(q)' = Named(q) /\ Observed(q)' = Observed(q)
  BY SameRows DEF ReadPayment, ReadRefunds, ReadDisputes, TruthOK, CaseTypes
<1>2. CASE ReadPayment
  <2>1. PICK row \in PaymentRows \cup {Nothing} : row = paymentRows[truth.payment]
    BY <1>1 DEF CaseTypes
  <2>2. PICK r : r = [truth EXCEPT !.pc = "refunds", !.row = row]
    OBVIOUS
  <2>3. /\ r \in TruthRecords /\ r.pc = "refunds" /\ r.payment = truth.payment /\ r.row = row
        /\ r.bridged = truth.bridged
    BY <1>1, <2>2 DEF TruthRecords
  <2>4. truth' = r /\ UNCHANGED told
    BY <1>2, <2>1, <2>2 DEF ReadPayment
  <2>5. TruthOK'
    BY <1>1, <2>1, <2>3, <2>4 DEF TruthOK, Observed
  <2>6. ToldOK'
    BY <1>1, <2>4 DEF ToldOK
  <2>. QED  BY <1>1, <2>3, <2>4, <2>5, <2>6, TruthMoves
<1>3. CASE ReadRefunds
  <2>1. ASSUME NEW b \in BOOLEAN, truth' = [truth EXCEPT !.pc = "disputes", !.refunded = b]
        PROVE  CaseInv'
    <3>1. PICK r : r = [truth EXCEPT !.pc = "disputes", !.refunded = b]
      OBVIOUS
    <3>2. /\ r \in TruthRecords /\ r.pc = "disputes" /\ r.payment = truth.payment
          /\ r.row = truth.row /\ r.bridged = truth.bridged
      BY <1>1, <3>1 DEF TruthRecords
    <3>3. truth' = r /\ UNCHANGED told /\ truth.pc = "refunds"
      BY <1>3, <2>1, <3>1 DEF ReadRefunds
    <3>4. TruthOK'
      BY <1>1, <3>2, <3>3 DEF TruthOK
    <3>5. ToldOK'
      BY <1>1, <3>3 DEF ToldOK
    <3>. QED  BY <1>1, <3>2, <3>3, <3>4, <3>5, TruthMoves
  <2>2. CASE truth.payment \in refunds
    <3>1. (truth.payment \in refunds) = TRUE
      BY <2>2, Zenon
    <3>2. truth' = [truth EXCEPT !.pc = "disputes", !.refunded = TRUE]
      BY <1>3, <3>1, Zenon DEF ReadRefunds
    <3>. QED  BY <2>1, <3>2
  <2>3. CASE truth.payment \notin refunds
    <3>1. (truth.payment \in refunds) = FALSE
      BY <2>3
    <3>2. truth' = [truth EXCEPT !.pc = "disputes", !.refunded = FALSE]
      BY <1>3, <3>1, Zenon DEF ReadRefunds
    <3>. QED  BY <2>1, <3>2
  <2>. QED  BY <2>2, <2>3
<1>4. CASE ReadDisputes
  <2>1. PICK x : x = ClassifyOutcome(truth.row, truth.refunded, disputes[truth.payment])
    OBVIOUS
  <2>2. truth.row # Nothing => x # "NOT_YET_OBSERVED"
    <3>1. disputes[truth.payment] \in {"fraud", "chargeback", Nothing}
      BY <1>1 DEF CaseTypes
    <3>2. ASSUME truth.row # Nothing PROVE ReasonOf(truth.row) # "NOT_YET_OBSERVED"
      <4>1. PICK row \in PaymentRows : row = truth.row
        BY <1>1, <3>2 DEF TruthRecords
      <4>. QED  BY <4>1 DEF ReasonOf, PaymentRows
    <3>. QED  BY <2>1, <3>1, <3>2 DEF ClassifyOutcome
  <2>3. told'.payment = truth.payment /\ told'.outcome = x /\ told'.bridged = truth.bridged
    BY <1>4, <2>1 DEF ReadDisputes
  <2>4. truth' = Reading /\ truth.pc = "disputes"
    BY <1>4 DEF ReadDisputes
  <2>5. TruthOK'
    BY <2>4 DEF Reading, TruthOK
  <2>6. truth.bridged => truth.payment = source /\ truth.row # Nothing
    BY <2>4 DEF TruthOK
  <2>7. ToldOK'
    BY <1>1, <2>2, <2>3, <2>6 DEF ToldOK
  <2>. QED  BY <1>1, <2>4, <2>5, <2>7, ReadingGood, TruthMoves
<1>. QED  BY <1>2, <1>3, <1>4

(* Every step keeps the invariant of the cases.                            *)
LEMMA CaseStep == CaseInv /\ [CaseNext]_caseVars => CaseInv'
<1>. SUFFICES ASSUME CaseInv, [CaseNext]_caseVars PROVE CaseInv'
  OBVIOUS
<1>1. ASSUME NEW c \in DOMAIN bridge, GetCandidate(c) PROVE CaseInv'
  <2>1. PICK p \in Payments : bridge' = [bridge EXCEPT ![c] = CandidateCall(p)]
    BY <1>1 DEF GetCandidate
  <2>2. UNCHANGED <<paymentRows, refunds, disputes, moves, cases, receipts, truth, source, told>>
    BY <1>1 DEF GetCandidate
  <2>. QED  BY <1>1, <2>1, <2>2, CandidateGood, CallMoves
<1>2. CASE UNCHANGED caseVars
  <2>1. /\ \A p \in Payments : Observed(p)' = Observed(p) /\ Named(p)' = Named(p)
        /\ \A p \in Payments : RowOK(p)' = RowOK(p)
    BY <1>2, SameRows DEF caseVars
  <2>2. CaseTypes'
    BY <1>2 DEF CaseInv, CaseTypes, caseVars
  <2>3. (\A c \in DOMAIN bridge : CallOK(bridge[c]))'
    BY <1>2, <2>1 DEF CaseInv, CallOK, caseVars
  <2>4. ReceiptsOK'
    BY <1>2 DEF CaseInv, ReceiptsOK, ReceiptOK, caseVars
  <2>5. TruthOK' /\ ToldOK'
    BY <1>2, <2>1 DEF CaseInv, TruthOK, ToldOK, caseVars
  <2>. QED  BY <1>2, <2>1, <2>2, <2>3, <2>4, <2>5 DEF CaseInv, caseVars
<1>. QED  BY <1>1, <1>2, RowsStep, FindStep, InsertStep, AskStep, DirectStep, WebhookStep,
             ReadsStep DEF CaseNext

(* Without any case it holds.                                              *)
LEMMA CaseStart == CaseInit => CaseInv
<1>. SUFFICES ASSUME CaseInit PROVE CaseInv
  OBVIOUS
<1>1. /\ \A p \in Payments : paymentRows[p] = Nothing /\ cases[p] = Nothing
      /\ truth = Reading /\ told = Nothing /\ receipts = <<>>
  BY DEF CaseInit
<1>2. bridge \in [DOMAIN bridge -> CallRecords] /\ \A c \in DOMAIN bridge : bridge[c] = Calling
  <2>1. PICK C \in SUBSET BridgeCalls : bridge = [c \in C |-> Calling]
    BY DEF CaseInit
  <2>. QED  BY <2>1, CallingGood
<1>3. <<>> \in Seq(ReceiptRecords)
  OBVIOUS
<1>4. CaseTypes
  BY <1>1, <1>2, <1>3, ReadingGood DEF CaseInit, CaseTypes
<1>5. \A p \in Payments : RowOK(p)
  BY <1>1 DEF RowOK, Observed
<1>6. TruthOK /\ ToldOK
  BY <1>1 DEF TruthOK, ToldOK, Reading
<1>7. ReceiptsOK
  BY <1>1 DEF ReceiptsOK
<1>. QED  BY <1>1, <1>2, <1>4, <1>5, <1>6, <1>7, CallingGood DEF CaseInv

(* However many calls and webhooks come at the same time, a payment has    *)
(* one case, the case was observed, and what is told about a source is     *)
(* told of a payment the source names.                                     *)
THEOREM CasesAreNamed == CaseSpec => []CasesNameTheirPayments
<1>1. CaseInv => CasesNameTheirPayments
  <2>. SUFFICES ASSUME CaseInv PROVE CasesNameTheirPayments
    OBVIOUS
  <2>1. OneCasePerPayment
    <3>. SUFFICES ASSUME NEW i \in DOMAIN receipts, NEW j \in DOMAIN receipts,
                         receipts[i].payment = receipts[j].payment
                  PROVE  /\ receipts[i].hold = receipts[j].hold
                         /\ receipts[i].created /\ receipts[j].created => i = j
                         /\ receipts[i].created => receipts[i].shown = receipts[i].hold
      BY DEF OneCasePerPayment
    <3>1. ReceiptOK(receipts[i]) /\ ReceiptOK(receipts[j])
      BY DEF CaseInv, ReceiptsOK
    <3>. QED  BY <3>1 DEF CaseInv, ReceiptsOK, ReceiptOK
  <2>2. BridgedCasesAreObserved
    BY DEF CaseInv, ToldOK, BridgedCasesAreObserved
  <2>3. LinksAreNamed
    BY DEF CaseInv, ToldOK, LinksAreNamed, Named
  <2>. QED  BY <2>1, <2>2, <2>3 DEF CasesNameTheirPayments
<1>. QED  BY <1>1, CaseStart, CaseStep, PTL DEF CaseSpec
-----------------------------------------------------------------------------
(* What was told of a payment rests on rows that are never taken back, and *)
(* a read that goes on has found at least as much as the answer before it. *)
Refunding(row) == row.refunded \/ row.status = "refunded"

RowSays(p) == Observed(p) /\ Refunding(paymentRows[p])

RefundsSay == \A p \in refunds : RowSays(p)

ReadingGained ==
  /\ truth.pc \in {"refunds", "disputes"} /\ truth.row # Nothing =>
       /\ Observed(truth.payment)
       /\ Refunding(truth.row) => RowSays(truth.payment)
  /\ truth.pc = "disputes" /\ truth.refunded => truth.payment \in refunds

ToldOfRows ==
  told # Nothing =>
    /\ Rank(told.outcome) \in 0..3
    /\ told.payment = Nothing => Rank(told.outcome) = 0
    /\ told.payment # Nothing =>
         /\ Rank(told.outcome) = 3 => disputes[told.payment] # Nothing
         /\ Rank(told.outcome) = 2 => RowSays(told.payment)
         /\ Rank(told.outcome) = 1 => Observed(told.payment)

ReadSinceTold ==
  told # Nothing /\ truth.pc \in {"refunds", "disputes"} /\ truth.payment = told.payment =>
    /\ Rank(told.outcome) = 2 => truth.row # Nothing /\ Refunding(truth.row)
    /\ Rank(told.outcome) = 1 => truth.row # Nothing

TellInv == CaseInv /\ RefundsSay /\ ReadingGained /\ ToldOfRows /\ ReadSinceTold

(* The rank of a reason: a payment that was seen, or its refund.           *)
LEMMA ReasonRank ==
  ASSUME NEW row \in PaymentRows
  PROVE  Rank(ReasonOf(row)) = IF Refunding(row) THEN 2 ELSE 1
BY DEF Rank, ReasonOf, Refunding, PaymentRows

(* Rows, refunds and disputes only gain.                                   *)
LEMMA RowsGain ==
  ASSUME TellInv, RowsMove
  PROVE  /\ \A p \in Payments : /\ Observed(p) => Observed(p)'
                                /\ RowSays(p) => RowSays(p)'
                                /\ disputes[p] # Nothing => disputes'[p] # Nothing
         /\ refunds \subseteq refunds' /\ RefundsSay'
<1>1. PICK p \in Payments :
        StoresPayment(p) \/ MovesPayment(p) \/ StoresRefund(p) \/ StoresDispute(p)
  BY DEF RowsMove
<1>2. /\ paymentRows \in [Payments -> PaymentRows \cup {Nothing}] /\ refunds \subseteq Payments
      /\ disputes \in [Payments -> {"fraud", "chargeback", Nothing}]
      /\ moves + 1 \in Nat /\ RowsGrow
  BY RowsEffect DEF TellInv, CaseInv, CaseTypes
<1>3. PICK old : old = paymentRows[p]
  OBVIOUS
<1>4. PICK n \in Nat : n = moves + 1
  BY <1>2
<1>5. CASE StoresPayment(p)
  <2>1. PICK w \in Webhooks, first \in {"authorized", "captured"} :
         paymentRows' = [paymentRows EXCEPT ![p] = PaymentRow(old, w, first)]
    BY <1>3, <1>5 DEF StoresPayment
  <2>2. PICK new : new = PaymentRow(old, w, first)
    OBVIOUS
  <2>3. Observed(p) => (Refunding(old) => Refunding(new))
    <3>1. ASSUME Observed(p) PROVE old \in PaymentRows /\ old # Nothing
      BY <1>2, <1>3, <3>1 DEF Observed
    <3>. QED  BY <2>2, <3>1 DEF PaymentRow, Refunding, PaymentRows
  <2>4. \A q \in Payments : paymentRows'[q] = IF q = p THEN new ELSE paymentRows[q]
    BY <1>2, <2>1, <2>2
  <2>5. UNCHANGED <<refunds, disputes>>
    BY <1>5 DEF StoresPayment
  <2>6. \A q \in Payments : RowSays(q) => RowSays(q)'
    BY <1>2, <1>3, <2>3, <2>4 DEF RowSays, RowsGrow, Observed
  <2>. QED  BY <1>2, <2>5, <2>6 DEF RowsGrow, TellInv, RefundsSay
<1>6. CASE MovesPayment(p)
  <2>1. old \in PaymentRows /\ UNCHANGED <<refunds, disputes>>
    BY <1>2, <1>3, <1>6 DEF MovesPayment
  <2>2. PICK s \in Successors[old.status] :
          paymentRows' = [paymentRows EXCEPT ![p] = [old EXCEPT !.status = s, !.at = n]]
    BY <1>3, <1>6, <1>4 DEF MovesPayment
  <2>3. PICK new : new = [old EXCEPT !.status = s, !.at = n]
    OBVIOUS
  <2>4. Refunding(old) => Refunding(new)
    <3>1. old.status # "refunded"
      BY <2>1, <2>2 DEF Successors, PaymentRows
    <3>. QED  BY <2>1, <2>3, <3>1 DEF Refunding, PaymentRows
  <2>5. \A q \in Payments : paymentRows'[q] = IF q = p THEN new ELSE paymentRows[q]
    BY <1>2, <2>2, <2>3
  <2>6. \A q \in Payments : RowSays(q) => RowSays(q)'
    BY <1>2, <1>3, <2>4, <2>5 DEF RowSays, RowsGrow, Observed
  <2>. QED  BY <1>2, <2>1, <2>6 DEF RowsGrow, TellInv, RefundsSay
<1>7. CASE StoresRefund(p)
  <2>1. /\ old \in PaymentRows /\ UNCHANGED disputes /\ refunds' = refunds \cup {p}
        /\ paymentRows' = [paymentRows EXCEPT ![p] = [old EXCEPT !.refunded = TRUE, !.at = n]]
    BY <1>2, <1>3, <1>7, <1>4 DEF StoresRefund
  <2>2. PICK new : new = [old EXCEPT !.refunded = TRUE, !.at = n]
    OBVIOUS
  <2>3. Refunding(new) /\ new \in PaymentRows
    BY <2>1, <2>2 DEF Refunding, PaymentRows
  <2>4. \A q \in Payments : paymentRows'[q] = IF q = p THEN new ELSE paymentRows[q]
    BY <1>2, <2>1, <2>2
  <2>5. \A q \in Payments : RowSays(q) => RowSays(q)'
    BY <1>2, <2>3, <2>4 DEF RowSays, RowsGrow, Observed
  <2>6. RowSays(p)'
    BY <2>3, <2>4, CasesAssumption DEF RowSays, Observed
  <2>. QED  BY <1>2, <2>1, <2>5, <2>6 DEF RowsGrow, TellInv, RefundsSay
<1>8. CASE StoresDispute(p)
  <2>1. PICK phase \in {"fraud", "chargeback"} : disputes' = [disputes EXCEPT ![p] = phase]
    BY <1>8 DEF StoresDispute
  <2>2. UNCHANGED <<paymentRows, refunds>>
    BY <1>8 DEF StoresDispute
  <2>3. \A q \in Payments : disputes[q] # Nothing => disputes'[q] # Nothing
    BY <1>2, <2>1, CasesAssumption
  <2>. QED  BY <1>2, <2>2, <2>3 DEF RowSays, Observed, TellInv, RefundsSay
<1>. QED  BY <1>1, <1>5, <1>6, <1>7, <1>8

(* The rows never say less of a payment than before.                       *)
LEMMA RowsTellMore == TellInv /\ RowsMove => TellInv'
<1>. SUFFICES ASSUME TellInv, RowsMove PROVE TellInv'
  OBVIOUS
<1>1. /\ \A p \in Payments : /\ Observed(p) => Observed(p)'
                             /\ RowSays(p) => RowSays(p)'
                             /\ disputes[p] # Nothing => disputes'[p] # Nothing
      /\ refunds \subseteq refunds' /\ RefundsSay'
  BY RowsGain
<1>2. UNCHANGED <<truth, told>> /\ CaseInv'
  BY RowsStep DEF RowsMove, TellInv
<1>3. ReadingGained'
  <2>1. truth.pc \in {"refunds", "disputes"} => truth.payment \in Payments
    BY DEF TellInv, CaseInv, TruthOK
  <2>. QED  BY <1>1, <1>2, <2>1 DEF TellInv, ReadingGained
<1>4. ToldOfRows'
  <2>1. told # Nothing /\ told.payment # Nothing => told.payment \in Payments
    BY DEF TellInv, CaseInv, ToldOK
  <2>. QED  BY <1>1, <1>2, <2>1 DEF TellInv, ToldOfRows
<1>5. ReadSinceTold'
  BY <1>2 DEF TellInv, ReadSinceTold
<1>. QED  BY <1>1, <1>2, <1>3, <1>4, <1>5 DEF TellInv

(* The answer of a read that found at least what the last one rested on.    *)
LEMMA AnswerRank ==
  ASSUME TellInv, ReadDisputes
  PROVE  /\ ToldOfRows'
         /\ told # Nothing /\ told'.payment = told.payment
              => Rank(told'.outcome) >= Rank(told.outcome)
<1>1. /\ UNCHANGED <<paymentRows, refunds, disputes>>
      /\ truth \in TruthRecords /\ truth.payment \in Payments /\ truth.pc = "disputes"
      /\ truth.payment # Nothing
  BY CasesAssumption DEF ReadDisputes, TellInv, CaseInv, TruthOK, CaseTypes
<1>2. PICK p \in Payments, row \in PaymentRows \cup {Nothing}, b \in BOOLEAN,
           phase \in {"fraud", "chargeback", Nothing} :
        p = truth.payment /\ row = truth.row /\ b = truth.refunded /\ phase = disputes[p]
  BY <1>1 DEF TruthRecords, TellInv, CaseInv, CaseTypes
<1>3. PICK x : x = ClassifyOutcome(row, b, phase)
  OBVIOUS
<1>4. told'.payment = p /\ told'.outcome = x
  BY <1>2, <1>3 DEF ReadDisputes
<1>5. /\ phase # Nothing => Rank(x) = 3
      /\ phase = Nothing /\ b => Rank(x) = 2
      /\ phase = Nothing /\ ~b /\ row = Nothing => Rank(x) = 0
      /\ phase = Nothing /\ ~b /\ row # Nothing => Rank(x) = IF Refunding(row) THEN 2 ELSE 1
  <2>1. CASE phase # Nothing
    BY <1>3, <2>1, CasesAssumption DEF ClassifyOutcome, Rank
  <2>2. CASE phase = Nothing /\ b
    BY <1>3, <2>2, CasesAssumption DEF ClassifyOutcome, Rank
  <2>3. CASE phase = Nothing /\ ~b /\ row = Nothing
    BY <1>3, <2>3, CasesAssumption DEF ClassifyOutcome, Rank
  <2>4. CASE phase = Nothing /\ ~b /\ row # Nothing
    <3>1. x = ReasonOf(row)
      BY <1>3, <2>4, CasesAssumption DEF ClassifyOutcome
    <3>. QED  BY <2>4, <3>1, ReasonRank
  <2>. QED  BY <2>1, <2>2, <2>3, <2>4
<1>6. /\ row # Nothing => Observed(p) /\ (Refunding(row) => RowSays(p))
      /\ b => RowSays(p)
  BY <1>1, <1>2 DEF TellInv, ReadingGained, RefundsSay
<1>7. /\ phase = disputes'[p] /\ Observed(p)' = Observed(p) /\ RowSays(p)' = RowSays(p)
  BY <1>1, <1>2 DEF Observed, RowSays
<1>8. Rank(x) \in 0..3
  BY <1>5
<1>9. ToldOfRows'
  <2>1. p # Nothing
    BY CasesAssumption
  <2>2. Rank(x) = 3 => phase # Nothing
    BY <1>5
  <2>3. Rank(x) = 2 => RowSays(p)
    BY <1>5, <1>6
  <2>4. Rank(x) = 1 => Observed(p)
    BY <1>5, <1>6
  <2>. QED  BY <1>4, <1>7, <1>8, <2>1, <2>2, <2>3, <2>4 DEF ToldOfRows
<1>10. ASSUME told # Nothing, told.payment = p  PROVE Rank(x) >= Rank(told.outcome)
  <2>1. /\ Rank(told.outcome) \in 0..3
        /\ Rank(told.outcome) = 3 => phase # Nothing
        /\ Rank(told.outcome) = 2 => row # Nothing /\ Refunding(row)
        /\ Rank(told.outcome) = 1 => row # Nothing
    BY <1>1, <1>2, <1>10 DEF TellInv, ToldOfRows, ReadSinceTold
  <2>. QED  BY <1>5, <1>8, <2>1
<1>. QED  BY <1>4, <1>9, <1>10

(* An answer that links to no payment.                                     *)
LEMMA NoLinkRank ==
  ASSUME NEW o, NotLinked(o)
  PROVE  told'.payment = Nothing /\ Rank(told'.outcome) = 0 /\ truth'.pc = "idle"
BY DEF NotLinked, Rank, Reading

(* What was told stays true with every step.                               *)
LEMMA TellStep == TellInv /\ [CaseNext]_caseVars => TellInv'
<1>. SUFFICES ASSUME TellInv, [CaseNext]_caseVars PROVE TellInv'
  OBVIOUS
<1>1. CaseInv'
  BY CaseStep DEF TellInv
<1>2. CASE UNCHANGED <<paymentRows, refunds, disputes, truth, told>>
  BY <1>1, <1>2 DEF TellInv, RefundsSay, ReadingGained, ToldOfRows, ReadSinceTold, RowSays, Observed
<1>3. CASE AskTruth
  <2>1. truth'.pc \in {"payment", "direct"} /\ UNCHANGED <<paymentRows, refunds, disputes, told>>
    BY <1>3 DEF AskTruth, Reading
  <2>. QED  BY <1>1, <2>1 DEF TellInv, RefundsSay, ReadingGained, ToldOfRows, ReadSinceTold, RowSays, Observed
<1>4. CASE ResolveDirect \/ ResolveWebhook
  <2>1. UNCHANGED <<paymentRows, refunds, disputes>> /\ truth \in TruthRecords
    BY <1>4 DEF ResolveDirect, ResolveWebhook, TellInv, CaseInv, CaseTypes
  <2>2. /\ truth'.pc \notin {"refunds", "disputes"}
        /\ UNCHANGED told \/ (told'.payment = Nothing /\ Rank(told'.outcome) = 0)
    <3>1. (\E p, o : Linked(p, o) /\ UNCHANGED told) \/ (\E o : NotLinked(o))
            \/ (truth' = [truth EXCEPT !.pc = "webhook"] /\ UNCHANGED told)
      BY <1>4 DEF ResolveDirect, ResolveWebhook
    <3>2. ASSUME NEW p, NEW o, Linked(p, o)  PROVE truth'.pc = "payment"
      BY <2>1, <3>2 DEF Linked, TruthRecords
    <3>3. truth' = [truth EXCEPT !.pc = "webhook"] => truth'.pc = "webhook"
      BY <2>1 DEF TruthRecords
    <3>. QED  BY <3>1, <3>2, <3>3, NoLinkRank
  <2>3. CASE UNCHANGED told
    BY <1>1, <2>1, <2>2, <2>3 DEF TellInv, RefundsSay, ReadingGained, ToldOfRows, ReadSinceTold, RowSays, Observed
  <2>4. CASE told'.payment = Nothing /\ Rank(told'.outcome) = 0
    BY <1>1, <2>1, <2>2, <2>4 DEF TellInv, RefundsSay, ReadingGained, ToldOfRows, ReadSinceTold, RowSays, Observed
  <2>. QED  BY <2>2, <2>3, <2>4
<1>5. CASE ReadPayment
  <2>1. /\ UNCHANGED <<paymentRows, refunds, disputes, told>> /\ truth \in TruthRecords
        /\ truth' = [truth EXCEPT !.pc = "refunds", !.row = paymentRows[truth.payment]]
    BY <1>5 DEF ReadPayment, TellInv, CaseInv, CaseTypes
  <2>2. /\ truth'.pc = "refunds" /\ truth'.payment = truth.payment
        /\ truth'.row = paymentRows[truth.payment]
    BY <2>1 DEF TruthRecords
  <2>3. ReadSinceTold'
    <3>1. told # Nothing /\ told.payment = truth.payment =>
            /\ Rank(told.outcome) = 2 => RowSays(truth.payment)
            /\ Rank(told.outcome) = 1 => Observed(truth.payment)
      <4>1. truth.payment # Nothing
        BY <1>5, CasesAssumption DEF ReadPayment, TellInv, CaseInv, TruthOK
      <4>. QED  BY <4>1 DEF TellInv, ToldOfRows
    <3>. QED  BY <2>1, <2>2, <3>1 DEF ReadSinceTold, RowSays, Observed
  <2>. QED  BY <1>1, <2>1, <2>2, <2>3 DEF TellInv, RefundsSay, ReadingGained, ToldOfRows, RowSays, Observed
<1>6. CASE ReadRefunds
  <2>1. /\ UNCHANGED <<paymentRows, refunds, disputes, told>> /\ truth \in TruthRecords
        /\ truth.pc = "refunds"
        /\ truth' = [truth EXCEPT !.pc = "disputes", !.refunded = truth.payment \in refunds]
    BY <1>6 DEF ReadRefunds, TellInv, CaseInv, CaseTypes
  <2>2. /\ truth'.pc = "disputes" /\ truth'.payment = truth.payment /\ truth'.row = truth.row
        /\ truth'.refunded => truth.payment \in refunds
    BY <2>1, Zenon DEF TruthRecords
  <2>3. ReadingGained'
    BY <2>1, <2>2 DEF TellInv, ReadingGained, RowSays, Observed
  <2>. QED  BY <1>1, <2>1, <2>2, <2>3 DEF TellInv, RefundsSay, ToldOfRows, ReadSinceTold, RowSays, Observed
<1>7. CASE ReadDisputes
  <2>1. UNCHANGED <<paymentRows, refunds, disputes>> /\ truth'.pc = "idle"
    BY <1>7 DEF ReadDisputes, Reading
  <2>2. ToldOfRows'
    BY <1>7, AnswerRank
  <2>. QED  BY <1>1, <2>1, <2>2 DEF TellInv, RefundsSay, ReadingGained, ReadSinceTold, RowSays, Observed
<1>8. CASE \E c \in DOMAIN bridge : GetCandidate(c) \/ FindCase(c) \/ InsertCase(c)
  BY <1>2, <1>8 DEF GetCandidate, FindCase, InsertCase
<1>. QED
  BY <1>2, <1>3, <1>4, <1>5, <1>6, <1>7, <1>8, RowsTellMore DEF CaseNext, caseVars

(* Nothing is told at first.                                               *)
LEMMA TellStart == CaseInit => TellInv
<1>. SUFFICES ASSUME CaseInit PROVE TellInv
  OBVIOUS
<1>1. refunds = {} /\ truth = Reading /\ told = Nothing
  BY DEF CaseInit
<1>. QED
  BY <1>1, CaseStart DEF TellInv, RefundsSay, ReadingGained, ToldOfRows, ReadSinceTold, Reading

(* Although an answer is put together from three reads, what is told of a  *)
(* payment never retreats: the rows it rests on are never taken back, and  *)
(* the next read begins after the answer.                                  *)
THEOREM ToldForGood == CaseSpec => OutcomesNeverRetreat
<1>1. ASSUME TellInv, [CaseNext]_caseVars
      PROVE  [told # Nothing /\ told'.payment = told.payment =>
                Rank(told'.outcome) >= Rank(told.outcome)]_caseVars
  <2>. SUFFICES ASSUME told # Nothing, told'.payment = told.payment
                PROVE  Rank(told'.outcome) >= Rank(told.outcome)
    OBVIOUS
  <2>1. Rank(told.outcome) \in 0..3
    BY <1>1 DEF TellInv, ToldOfRows
  <2>2. CASE UNCHANGED told
    BY <2>1, <2>2
  <2>3. CASE ReadDisputes
    BY <1>1, <2>3, AnswerRank
  <2>4. CASE \E o : NotLinked(o)
    <3>1. told.payment = Nothing /\ Rank(told'.outcome) = 0
      BY <2>4, NoLinkRank
    <3>. QED  BY <1>1, <3>1 DEF TellInv, ToldOfRows
  <2>5. UNCHANGED told \/ ReadDisputes \/ \E o : NotLinked(o)
    BY <1>1 DEF CaseNext, caseVars, RowsMove, GetCandidate, FindCase, InsertCase, AskTruth,
                ResolveDirect, ResolveWebhook, ReadPayment, ReadRefunds
  <2>. QED  BY <2>2, <2>3, <2>4, <2>5
<1>. QED  BY <1>1, TellStart, TellStep, PTL DEF CaseSpec, OutcomesNeverRetreat
-----------------------------------------------------------------------------
AnalysisStatuses == {"COMPLETED", "BLOCKED_DATA_QUALITY", "MODEL_UNAVAILABLE", "MODEL_ERROR"}
AnalysisRecords ==
  [pc : {"idle", "engine", "truth", "answer"}, round : {0, 1},
   p : Predictions \cup {Nought}, status : AnalysisStatuses \cup {Nought},
   recommendation : Decisions \cup {Nought}, record : Nat]
AnaLedgerRecords == [status : AnalysisStatuses \cup {Nought}, recommendation : Decisions \cup {Nought}]
ShadowRecords ==
  [source : {"LIVE", "SYNTHETIC_FIXTURE_MECHANICS_ONLY"}, status : {"BLOCKED", "SCORED"},
   p : Predictions \cup {Nought}, recommendation : Decisions \cup {Nought}]

AnaTypes ==
  /\ holdRound \in {0, 1}
  /\ analysis \in [Analyses -> AnalysisRecords]
  /\ anaLedger \in Seq(AnaLedgerRecords)
  /\ shadowRows \in Seq(ShadowRecords)

(* What the conclusion of an analysis rests on.                            *)
Concludes(r) ==
  /\ r.recommendation = "RELEASE" =>
       /\ r.round = 0 /\ r.status = "COMPLETED" /\ anaModel = "READY"
       /\ r.p.release >= ReleaseThreshold /\ ~r.p.novelty
  /\ r.round = 1 => r.recommendation = "ESCALATE" \/ r.status = "BLOCKED_DATA_QUALITY"

OnRecord(r) ==
  /\ r.record \in DOMAIN anaLedger
  /\ anaLedger[r.record] = [status |-> r.status, recommendation |-> r.recommendation]

(* Where a call is, it has what the next step needs.                       *)
AnalysisOK(r) ==
  /\ r.pc = "engine" =>
       /\ r.p \in Predictions /\ r.status = "COMPLETED" /\ anaModel = "READY"
       /\ r.recommendation = Choose(r.p, r.round)
  /\ r.pc \in {"truth", "answer"} => Concludes(r)
  /\ r.pc = "answer" => OnRecord(r)

ShadowOK(row) ==
  row.status = "SCORED" =>
    LET allowed == AnaCheck(row.recommendation, row.p, 0).allowed IN
    \/ allowed = row.recommendation
    \/ row.p.novelty /\ row.recommendation = "EVIDENCE_NEEDED" /\ allowed = "ESCALATE"

(* A record is of one call, answered or not yet.                           *)
OwnRecords ==
  /\ \A a, b \in Analyses :
       /\ analysis[a].pc = "answer" /\ analysis[b].pc = "answer"
       /\ analysis[a].record = analysis[b].record
       => a = b
  /\ \A a \in Analyses : \A r \in anaAnswers :
       analysis[a].pc = "answer" => analysis[a].record # r.record
  /\ \A r, s \in anaAnswers : r.record = s.record => r = s

AnaInv ==
  /\ AnaTypes
  /\ \A a \in Analyses : AnalysisOK(analysis[a])
  /\ \A r \in anaAnswers : OnRecord(r) /\ Concludes(r)
  /\ OwnRecords
  /\ \A i \in DOMAIN shadowRows : ShadowOK(shadowRows[i])
-----------------------------------------------------------------------------
(* The check an analysis sends carries no evidence assessment: an engine   *)
(* lets RELEASE pass in the first round only, and nothing but ESCALATE in  *)
(* the second.                                                             *)
LEMMA CheckedSafely ==
  ASSUME NEW c \in Decisions, NEW p \in Predictions, NEW round \in {0, 1}
  PROVE  LET allowed == AnaCheck(c, p, round).allowed IN
         /\ allowed \in Decisions
         /\ allowed = "RELEASE" => round = 0 /\ p.release >= ReleaseThreshold /\ ~p.novelty
         /\ round = 1 => allowed = "ESCALATE"
<1>. DEFINE q == [candidate |-> c, p |-> p, round |-> round, systemError |-> FALSE,
                  verdict |-> NoVerdict]
<1>1. q \in PolicyChecks
  BY DEF PolicyChecks
<1>2. Promised(q, OpaCheck(q))
  BY <1>1, OpaKept
<1>3. q.p = p /\ q.round = round /\ q.verdict # "SUPPORTED"
  BY DEF NoVerdict
<1>4. AnaCheck(c, p, round) = OpaCheck(q)
  BY DEF AnaCheck
<1>. HIDE DEF q
<1>5. PICK a : a = OpaCheck(q)
  OBVIOUS
<1>6. /\ a.allowed \in Decisions
      /\ a.allowed = "RELEASE" => round = 0 /\ p.release >= ReleaseThreshold /\ ~p.novelty
      /\ a.allowed = "EVIDENCE_NEEDED" => round = 0
  BY <1>2, <1>3, <1>5 DEF Promised, Justified, PolicyResults
<1>7. round = 1 => a.allowed = "ESCALATE"
  BY <1>6 DEF Decisions
<1>. QED  BY <1>4, <1>5, <1>6, <1>7

(* What the cost policy chooses in the first round, an engine allows,      *)
(* unless the prediction is novel.                                         *)
LEMMA ChosenIsAllowed ==
  ASSUME NEW p \in Predictions
  PROVE  LET chosen == Choose(p, 0)
             allowed == AnaCheck(chosen, p, 0).allowed IN
         \/ allowed = chosen
         \/ p.novelty /\ chosen = "EVIDENCE_NEEDED" /\ allowed = "ESCALATE"
<1>. DEFINE c == Choose(p, 0)
            q == [candidate |-> c, p |-> p, round |-> 0, systemError |-> FALSE,
                  verdict |-> NoVerdict]
<1>1. c \in Decisions /\ (c = "RELEASE" => p.release >= ReleaseThreshold /\ ~p.novelty)
  BY DEF Choose, Decisions
<1>. HIDE DEF c
<1>2. q \in PolicyChecks
  BY <1>1 DEF PolicyChecks
<1>3. /\ q.candidate = c /\ q.p = p /\ q.round = 0 /\ q.systemError = FALSE
      /\ q.verdict = NoVerdict
  OBVIOUS
<1>4. AnaCheck(c, p, 0) = OpaCheck(q)
  BY DEF AnaCheck
<1>. HIDE DEF q
<1>5. CASE p.novelty
  <2>1. OpaCheck(q).allowed = "ESCALATE"
    BY <1>2, <1>3, <1>5, UnsoundEscalates DEF Sound
  <2>. QED  BY <1>1, <1>4, <1>5, <2>1 DEF c, Decisions
<1>6. CASE ~p.novelty
  <2>1. LocalCheck(q).allowed = OpaCheck(q).allowed
    BY <1>2, EnginesAgree
  <2>2. LocalCheck(q).allowed = c
    <3>1. CASE c = "RELEASE"
      <4>1. Justified(q)
        BY <1>1, <1>3, <3>1 DEF Justified
      <4>2. LocalCheck(q) = LocalRelease(q)
        BY <1>3, <1>6, <3>1 DEF LocalCheck
      <4>. QED  BY <1>2, <3>1, <4>1, <4>2, JustifiedReleases DEF Allow
    <3>2. CASE c = "EVIDENCE_NEEDED"
      BY <1>3, <1>6, <3>2 DEF LocalCheck, Allow
    <3>3. CASE c = "ESCALATE"
      BY <1>3, <1>6, <3>3 DEF LocalCheck, Allow
    <3>. QED  BY <1>1, <3>1, <3>2, <3>3 DEF Decisions
  <2>. QED  BY <1>4, <2>1, <2>2 DEF c
<1>. QED  BY <1>5, <1>6
-----------------------------------------------------------------------------
(* A call that moves without a record leaves the rest of the invariant.    *)
LEMMA AnalysisMoves ==
  ASSUME AnaInv, NEW a \in Analyses, NEW r \in AnalysisRecords,
         analysis' = [analysis EXCEPT ![a] = r], r.pc # "answer", AnalysisOK(r),
         UNCHANGED <<holdRound, anaModel, anaLedger, anaAnswers, shadowRows>>
  PROVE  AnaInv'
<1>. USE DEF AnaInv
<1>1. \A b \in Analyses : analysis'[b] = IF b = a THEN r ELSE analysis[b]
  BY DEF AnaTypes
<1>2. AnaTypes'
  BY DEF AnaTypes
<1>3. \A s : AnalysisOK(s) => AnalysisOK(s)'
  BY DEF AnalysisOK, Concludes, OnRecord
<1>4. \A b \in Analyses : AnalysisOK(analysis[b])'
  BY <1>1, <1>3 DEF AnalysisOK, Concludes, OnRecord
<1>5. \A s \in anaAnswers' : OnRecord(s)' /\ Concludes(s)'
  BY DEF OnRecord, Concludes
<1>6. OwnRecords'
  BY <1>1 DEF OwnRecords
<1>7. \A i \in DOMAIN shadowRows' : ShadowOK(shadowRows'[i])
  OBVIOUS
<1>. QED  BY <1>2, <1>4, <1>5, <1>6, <1>7 DEF ShadowOK, AnaCheck

(* An analysis that is executed keeps the invariant.                       *)
LEMMA ExecuteStep ==
  ASSUME AnaInv, NEW a \in Analyses, Execute(a)
  PROVE  AnaInv'
<1>. USE DEF AnaInv
<1>0. analysis[a] \in AnalysisRecords /\ holdRound \in {0, 1}
  BY DEF AnaTypes
<1>1. UNCHANGED <<holdRound, anaModel, anaLedger, anaAnswers, shadowRows>>
  BY DEF Execute
<1>2. ASSUME NEW p \in Predictions \cup {Nought}, NEW status \in AnalysisStatuses,
             NEW rec \in Decisions, Concluded(a, holdRound, p, status, rec),
             rec # "RELEASE", rec = "ESCALATE" \/ status = "BLOCKED_DATA_QUALITY"
      PROVE  AnaInv'
  <2>1. PICK r : r = [analysis[a] EXCEPT !.pc = "truth", !.round = holdRound, !.p = p,
                                        !.status = status, !.recommendation = rec]
    OBVIOUS
  <2>2. /\ r \in AnalysisRecords /\ r.pc = "truth" /\ r.round = holdRound
        /\ r.status = status /\ r.recommendation = rec
    BY <1>0, <2>1 DEF AnalysisRecords
  <2>3. analysis' = [analysis EXCEPT ![a] = r]
    BY <1>0, <1>2, <2>1 DEF Concluded, AnaTypes
  <2>4. AnalysisOK(r)
    BY <1>2, <2>2 DEF AnalysisOK, Concludes
  <2>. QED  BY <1>1, <2>2, <2>3, <2>4, AnalysisMoves
<1>3. ASSUME NEW p \in Predictions, anaModel = "READY",
             analysis' = [analysis EXCEPT ![a] =
                  [@ EXCEPT !.pc = "engine", !.round = holdRound, !.p = p, !.status = "COMPLETED",
                            !.recommendation = Choose(p, holdRound)]]
      PROVE  AnaInv'
  <2>0. Choose(p, holdRound) \in Decisions
    BY DEF Choose, Decisions
  <2>1. PICK r : r = [analysis[a] EXCEPT !.pc = "engine", !.round = holdRound, !.p = p,
                         !.status = "COMPLETED", !.recommendation = Choose(p, holdRound)]
    OBVIOUS
  <2>2. /\ r \in AnalysisRecords /\ r.pc = "engine" /\ r.round = holdRound /\ r.p = p
        /\ r.status = "COMPLETED" /\ r.recommendation = Choose(p, holdRound)
    BY <1>0, <2>0, <2>1 DEF AnalysisRecords, AnalysisStatuses
  <2>3. analysis' = [analysis EXCEPT ![a] = r]
    BY <1>3, <2>1
  <2>4. AnalysisOK(r)
    BY <1>3, <2>2 DEF AnalysisOK
  <2>. QED  BY <1>1, <2>2, <2>3, <2>4, AnalysisMoves
<1>4. \A p \in AnaPredictions : p \in Predictions
  BY AnaAssumption
<1>5. /\ "EVIDENCE_NEEDED" \in Decisions /\ "ESCALATE" \in Decisions
      /\ {"COMPLETED", "BLOCKED_DATA_QUALITY", "MODEL_UNAVAILABLE", "MODEL_ERROR"}
           \subseteq AnalysisStatuses
  BY DEF Decisions, AnalysisStatuses
<1>6. \/ Concluded(a, holdRound, Nought, "BLOCKED_DATA_QUALITY", "EVIDENCE_NEEDED")
      \/ Concluded(a, holdRound, Nought, "MODEL_UNAVAILABLE", "ESCALATE")
      \/ Concluded(a, holdRound, Nought, "MODEL_ERROR", "ESCALATE")
      \/ \E p \in AnaPredictions : Concluded(a, holdRound, p, "COMPLETED", "ESCALATE")
      \/ /\ anaModel = "READY"
         /\ \E p \in AnaPredictions :
              analysis' = [analysis EXCEPT ![a] =
                  [@ EXCEPT !.pc = "engine", !.round = holdRound, !.p = p, !.status = "COMPLETED",
                            !.recommendation = Choose(p, holdRound)]]
  BY DEF Execute
<1>. QED  BY <1>2, <1>3, <1>4, <1>5, <1>6

(* So does the answer of the engine,                                       *)
LEMMA EngineStep ==
  ASSUME AnaInv, NEW a \in Analyses, AskEngine(a)
  PROVE  AnaInv'
<1>. USE DEF AnaInv
<1>1. /\ UNCHANGED <<holdRound, anaModel, anaLedger, anaAnswers, shadowRows>>
      /\ analysis[a].pc = "engine" /\ analysis[a] \in AnalysisRecords /\ AnalysisOK(analysis[a])
  BY DEF AskEngine, AnaTypes
<1>2. PICK p \in Predictions, round \in {0, 1}, c \in Decisions :
        p = analysis[a].p /\ round = analysis[a].round /\ c = analysis[a].recommendation
  <2>1. analysis[a].recommendation \in Decisions
    BY <1>1 DEF AnalysisOK, Choose, Decisions
  <2>. QED  BY <1>1, <2>1 DEF AnalysisOK, AnalysisRecords
<1>3. PICK x \in {AnaCheck(c, p, round).allowed, "ESCALATE"} :
        analysis' = [analysis EXCEPT ![a] = [@ EXCEPT !.pc = "truth", !.recommendation = x]]
  BY <1>2 DEF AskEngine, WithoutEngine
<1>4. /\ x \in Decisions
      /\ x = "RELEASE" => round = 0 /\ p.release >= ReleaseThreshold /\ ~p.novelty
      /\ round = 1 => x = "ESCALATE"
  BY <1>3, CheckedSafely DEF Decisions
<1>5. PICK r : r = [analysis[a] EXCEPT !.pc = "truth", !.recommendation = x]
  OBVIOUS
<1>6. /\ r \in AnalysisRecords /\ r.pc = "truth" /\ r.round = round /\ r.p = p
      /\ r.status = analysis[a].status /\ r.recommendation = x
  BY <1>1, <1>2, <1>4, <1>5 DEF AnalysisRecords
<1>7. analysis' = [analysis EXCEPT ![a] = r]
  BY <1>3, <1>5
<1>8. AnalysisOK(r)
  BY <1>1, <1>4, <1>6 DEF AnalysisOK, Concludes
<1>. QED  BY <1>1, <1>6, <1>7, <1>8, AnalysisMoves

(* An analysis that has not begun is a good one.                           *)
LEMMA NoAnalysisGood == NoAnalysis \in AnalysisRecords /\ NoAnalysis.pc = "idle" /\ AnalysisOK(NoAnalysis)
BY DEF NoAnalysis, AnalysisRecords, AnalysisOK

(* Putting it on record keeps the invariant,                               *)
LEMMA RecordStep ==
  ASSUME AnaInv, NEW a \in Analyses, RecordAnalysis(a)
  PROVE  AnaInv'
<1>. USE DEF AnaInv
<1>1. /\ UNCHANGED <<holdRound, anaModel, anaAnswers, shadowRows>>
      /\ analysis[a].pc = "truth" /\ analysis[a] \in AnalysisRecords /\ AnalysisOK(analysis[a])
  BY DEF RecordAnalysis, AnaTypes
<1>2. CASE analysis' = [analysis EXCEPT ![a] = NoAnalysis] /\ UNCHANGED anaLedger
  BY <1>1, <1>2, NoAnalysisGood, AnalysisMoves
<1>3. ASSUME NEW e, e = [status |-> analysis[a].status,
                         recommendation |-> analysis[a].recommendation],
             anaLedger' = Append(anaLedger, e),
             analysis' = [analysis EXCEPT ![a] =
               [@ EXCEPT !.pc = "answer", !.record = Len(anaLedger) + 1]]
      PROVE  AnaInv'
  <2>1. PICK n \in Nat : n = Len(anaLedger) + 1
    BY DEF AnaTypes
  <2>2. e \in AnaLedgerRecords
    BY <1>1, <1>3 DEF AnalysisRecords, AnaLedgerRecords
  <2>3. /\ anaLedger' \in Seq(AnaLedgerRecords) /\ DOMAIN anaLedger' = DOMAIN anaLedger \cup {n}
        /\ n \notin DOMAIN anaLedger /\ anaLedger'[n] = e
        /\ \A i \in DOMAIN anaLedger : anaLedger'[i] = anaLedger[i]
    BY <1>3, <2>1, <2>2, AppendProperties DEF AnaTypes
  <2>4. PICK r : r = [analysis[a] EXCEPT !.pc = "answer", !.record = n]
    OBVIOUS
  <2>5. /\ r \in AnalysisRecords /\ r.pc = "answer" /\ r.round = analysis[a].round
        /\ r.p = analysis[a].p /\ r.status = analysis[a].status /\ r.record = n
        /\ r.recommendation = analysis[a].recommendation
    BY <1>1, <2>4 DEF AnalysisRecords
  <2>6. analysis' = [analysis EXCEPT ![a] = r]
    BY <1>3, <2>1, <2>4
  <2>7. \A b \in Analyses : analysis'[b] = IF b = a THEN r ELSE analysis[b]
    BY <2>6 DEF AnaTypes
  <2>8. \A s : OnRecord(s) => OnRecord(s)' /\ s.record # n
    BY <2>3 DEF OnRecord
  <2>9. \A s : Concludes(s)' = Concludes(s)
    BY <1>1 DEF Concludes
  <2>10. OnRecord(r)'
    BY <1>3, <2>3, <2>5 DEF OnRecord
  <2>11. Concludes(r)
    BY <1>1, <2>5 DEF AnalysisOK, Concludes
  <2>12. AnaTypes'
    BY <1>1, <2>3, <2>5, <2>6 DEF AnaTypes
  <2>13. \A b \in Analyses : AnalysisOK(analysis[b])'
    <3>. SUFFICES ASSUME NEW b \in Analyses PROVE AnalysisOK(analysis[b])'
      OBVIOUS
    <3>1. CASE b = a
      <4>1. analysis'[b] = r
        BY <2>7, <3>1
      <4>2. AnalysisOK(r)'
        BY <2>5, <2>9, <2>10, <2>11 DEF AnalysisOK
      <4>. QED  BY <4>1, <4>2 DEF AnalysisOK, Concludes, OnRecord
    <3>2. CASE b # a
      <4>1. analysis'[b] = analysis[b]
        BY <2>7, <3>2
      <4>2. AnalysisOK(analysis[b])
        OBVIOUS
      <4>3. PICK s : s = analysis[b]
        OBVIOUS
      <4>4. AnalysisOK(s)'
        BY <1>1, <2>8, <2>9, <4>2, <4>3 DEF AnalysisOK
      <4>. QED  BY <4>1, <4>3, <4>4 DEF AnalysisOK, Concludes, OnRecord
    <3>. QED  BY <3>1, <3>2
  <2>14. \A s \in anaAnswers' : OnRecord(s)' /\ Concludes(s)'
    BY <1>1, <2>8, <2>9
  <2>15. OwnRecords'
    <3>1. \A b \in Analyses : b # a /\ analysis[b].pc = "answer" => analysis[b].record # n
      BY <2>8 DEF AnalysisOK
    <3>2. \A s \in anaAnswers : s.record # n
      BY <2>8
    <3>. QED  BY <1>1, <2>5, <2>7, <3>1, <3>2 DEF OwnRecords
  <2>16. \A i \in DOMAIN shadowRows' : ShadowOK(shadowRows[i])'
    BY <1>1 DEF ShadowOK, AnaCheck
  <2>. QED  BY <2>12, <2>13, <2>14, <2>15, <2>16
<1>. QED  BY <1>2, <1>3 DEF RecordAnalysis

(* and so does answering with it.                                          *)
LEMMA AnswerStep ==
  ASSUME AnaInv, NEW a \in Analyses, AnswerAnalysis(a)
  PROVE  AnaInv'
<1>. USE DEF AnaInv
<1>1. /\ UNCHANGED <<holdRound, anaModel, anaLedger, shadowRows>>
      /\ analysis[a].pc = "answer" /\ AnalysisOK(analysis[a])
      /\ anaAnswers' = anaAnswers \cup {analysis[a]}
      /\ analysis' = [analysis EXCEPT ![a] = NoAnalysis]
  BY DEF AnswerAnalysis, AnaTypes
<1>2. \A b \in Analyses : analysis'[b] = IF b = a THEN NoAnalysis ELSE analysis[b]
  BY <1>1 DEF AnaTypes
<1>3. AnaTypes'
  BY <1>1, NoAnalysisGood DEF AnaTypes
<1>4. \A s : /\ AnalysisOK(s)' = AnalysisOK(s) /\ OnRecord(s)' = OnRecord(s)
             /\ Concludes(s)' = Concludes(s)
  BY <1>1 DEF AnalysisOK, OnRecord, Concludes
<1>5. \A b \in Analyses : AnalysisOK(analysis[b])'
  <2>. SUFFICES ASSUME NEW b \in Analyses PROVE AnalysisOK(analysis[b])'
    OBVIOUS
  <2>1. PICK s : s = analysis'[b]
    OBVIOUS
  <2>2. AnalysisOK(s)'
    BY <1>2, <1>4, <2>1, NoAnalysisGood
  <2>. QED  BY <2>1, <2>2 DEF AnalysisOK, OnRecord, Concludes
<1>6. \A s \in anaAnswers' : OnRecord(s)' /\ Concludes(s)'
  BY <1>1, <1>4 DEF AnalysisOK
<1>7. OwnRecords'
  BY <1>1, <1>2, NoAnalysisGood DEF OwnRecords
<1>8. \A i \in DOMAIN shadowRows' : ShadowOK(shadowRows[i])'
  BY <1>1 DEF ShadowOK, AnaCheck
<1>. QED  BY <1>3, <1>5, <1>6, <1>7, <1>8

(* A shadow score is of what the analyses read.                            *)
LEMMA ShadowStep ==
  ASSUME AnaInv, ShadowScore
  PROVE  AnaInv'
<1>. USE DEF AnaInv
<1>1. \E from \in {"LIVE", "SYNTHETIC_FIXTURE_MECHANICS_ONLY"} :
        \/ ShadowRow(from, "BLOCKED", Nought, Nought)
        \/ \E p \in Predictions : ShadowRow(from, "SCORED", p, Choose(p, 0))
  BY AnaAssumption DEF ShadowScore, BlockedShadow, ScoredShadow
<1>2. PICK row \in ShadowRecords :
        ShadowRow(row.source, row.status, row.p, row.recommendation) /\ ShadowOK(row)
  <2>1. PICK from \in {"LIVE", "SYNTHETIC_FIXTURE_MECHANICS_ONLY"} :
        \/ ShadowRow(from, "BLOCKED", Nought, Nought)
        \/ \E p \in Predictions : ShadowRow(from, "SCORED", p, Choose(p, 0))
    BY <1>1
  <2>2. CASE ShadowRow(from, "BLOCKED", Nought, Nought)
    <3>1. PICK row : row = [source |-> from, status |-> "BLOCKED", p |-> Nought,
                            recommendation |-> Nought]
      OBVIOUS
    <3>2. /\ row \in ShadowRecords /\ row.source = from /\ row.status = "BLOCKED"
          /\ row.p = Nought /\ row.recommendation = Nought
      BY <3>1 DEF ShadowRecords
    <3>. QED  BY <2>2, <3>2 DEF ShadowOK
  <2>3. CASE \E p \in Predictions : ShadowRow(from, "SCORED", p, Choose(p, 0))
    <3>0. PICK p \in Predictions : ShadowRow(from, "SCORED", p, Choose(p, 0))
      BY <2>3
    <3>1. PICK row : row = [source |-> from, status |-> "SCORED", p |-> p,
                            recommendation |-> Choose(p, 0)]
      OBVIOUS
    <3>2. Choose(p, 0) \in Decisions
      BY DEF Choose, Decisions
    <3>3. /\ row \in ShadowRecords /\ row.source = from /\ row.status = "SCORED"
          /\ row.p = p /\ row.recommendation = Choose(p, 0)
      BY <3>1, <3>2 DEF ShadowRecords
    <3>4. ShadowOK(row)
      BY <3>3, ChosenIsAllowed DEF ShadowOK
    <3>. QED  BY <3>0, <3>3, <3>4
  <2>. QED  BY <2>1, <2>2, <2>3
<1>3. PICK new : new = [source |-> row.source, status |-> row.status, p |-> row.p,
                        recommendation |-> row.recommendation]
  OBVIOUS
<1>4. /\ new \in ShadowRecords /\ new.status = row.status /\ new.p = row.p
      /\ new.recommendation = row.recommendation
  BY <1>2, <1>3 DEF ShadowRecords
<1>5. /\ shadowRows' = Append(shadowRows, new)
      /\ UNCHANGED <<holdRound, anaModel, analysis, anaLedger, anaAnswers>>
  BY <1>2, <1>3 DEF ShadowRow
<1>6. ShadowOK(new)
  BY <1>2, <1>4 DEF ShadowOK
<1>7. /\ shadowRows' \in Seq(ShadowRecords)
      /\ \A i \in DOMAIN shadowRows' :
           shadowRows'[i] = new \/ (i \in DOMAIN shadowRows /\ shadowRows'[i] = shadowRows[i])
  BY <1>4, <1>5, AppendProperties DEF AnaTypes
<1>8. \A i \in DOMAIN shadowRows' : ShadowOK(shadowRows'[i])
  BY <1>6, <1>7
<1>9. AnaTypes' /\ OwnRecords'
  BY <1>5, <1>7 DEF AnaTypes, OwnRecords
<1>10. \A b \in Analyses : AnalysisOK(analysis[b])'
  BY <1>5 DEF AnalysisOK, Concludes, OnRecord
<1>11. \A s \in anaAnswers' : OnRecord(s)' /\ Concludes(s)'
  BY <1>5 DEF Concludes, OnRecord
<1>. QED  BY <1>8, <1>9, <1>10, <1>11 DEF ShadowOK, AnaCheck

(* Every step keeps the invariant of the analyses.                         *)
LEMMA AnaSteps == AnaInv /\ [AnaNext]_anaVars => AnaInv'
<1>. SUFFICES ASSUME AnaInv, [AnaNext]_anaVars PROVE AnaInv'
  OBVIOUS
<1>1. CASE EvidenceArrives
  <2>1. holdRound' \in {0, 1} /\ UNCHANGED <<anaModel, analysis, anaLedger, anaAnswers, shadowRows>>
    BY <1>1 DEF EvidenceArrives
  <2>. QED  BY <2>1 DEF AnaInv, AnaTypes, AnalysisOK, Concludes, OnRecord, OwnRecords, ShadowOK, AnaCheck
<1>2. CASE UNCHANGED anaVars
  BY <1>2 DEF anaVars, AnaInv, AnaTypes, AnalysisOK, Concludes, OnRecord, OwnRecords, ShadowOK, AnaCheck
<1>. QED  BY <1>1, <1>2, ShadowStep, ExecuteStep, EngineStep, RecordStep, AnswerStep DEF AnaNext

(* Before any analysis it holds.                                           *)
LEMMA AnaStart == AnaInit => AnaInv
<1>. SUFFICES ASSUME AnaInit PROVE AnaInv
  OBVIOUS
<1>1. <<>> \in Seq(AnaLedgerRecords) /\ <<>> \in Seq(ShadowRecords)
  OBVIOUS
<1>2. AnaTypes
  BY <1>1, NoAnalysisGood DEF AnaInit, AnaTypes
<1>3. \A a \in Analyses : analysis[a] = NoAnalysis
  BY DEF AnaInit
<1>4. anaAnswers = {} /\ DOMAIN shadowRows = {}
  BY DEF AnaInit
<1>. QED  BY <1>2, <1>3, <1>4, NoAnalysisGood DEF AnaInv, OwnRecords

(* An answered analysis is on record, rests on the round it read, and says *)
(* no more than an engine would; a shadow score differs from one only for  *)
(* novelty.                                                                *)
THEOREM AnalysesRest == AnaSpec => []AnalysesAreSound
<1>1. AnaInv => AnalysesAreSound
  <2>. SUFFICES ASSUME AnaInv PROVE AnalysesAreSound
    OBVIOUS
  <2>1. AnalysesAreOnRecord
    BY DEF AnaInv, OwnRecords, OnRecord, AnalysesAreOnRecord
  <2>2. ReleaseAnalysesAreSound
    BY DEF AnaInv, Concludes, ReleaseAnalysesAreSound
  <2>3. ShadowsDifferOnlyForNovelty
    BY DEF AnaInv, ShadowOK, ShadowsDifferOnlyForNovelty
  <2>. QED  BY <2>1, <2>2, <2>3 DEF AnalysesAreSound
<1>. QED  BY <1>1, AnaStart, AnaSteps, PTL DEF AnaSpec
-----------------------------------------------------------------------------
(* Who reached what in a training run.  Everything is learned from the     *)
(* merchants of training or calibration; what the classifier rests on,     *)
(* from those of training alone.                                           *)
SplitSound ==
  /\ train \cap test = {} /\ calibration \cap test = {} /\ train \cap calibration = {}
  /\ stage \notin {"split", "failed"} => Complete(test)
  /\ stage = "split" => DOMAIN saw = {} /\ DOMAIN scoredBy = {} /\ fitHalf = {}

LearnedFromTheRest ==
  /\ \A a \in DOMAIN saw : saw[a] \subseteq train \cup calibration
  /\ \A a \in {"parameters", "forest", "classifier"} \cap DOMAIN saw : saw[a] \subseteq train

FlowInv ==
  /\ SplitSound /\ LearnedFromTheRest /\ ReferenceIsOutOfFold
  /\ fitHalf \subseteq calibration /\ (fitHalf # {} => Complete(calibration \ fitHalf))
  /\ \A m \in DOMAIN scoredBy : m \in calibration /\ m \notin scoredBy[m]

(* An artifact is added, the others keep what they learned from.           *)
LEMMA ArtifactAdded ==
  ASSUME LearnedFromTheRest, NEW a, NEW ms, Learns(a, ms),
         UNCHANGED <<train, calibration>>, ms \subseteq train \cup calibration,
         a \in {"parameters", "forest", "classifier"} => ms \subseteq train
  PROVE  LearnedFromTheRest'
<1>1. DOMAIN saw' = DOMAIN saw \cup {a}
  BY DEF Learns
<1>2. \A b \in DOMAIN saw' : saw'[b] = IF b = a THEN ms ELSE saw[b]
  BY <1>1 DEF Learns
<1>. QED  BY <1>1, <1>2 DEF LearnedFromTheRest

(* What an artifact the classifier rests on has seen.                      *)
LEMMA FromTraining ==
  ASSUME LearnedFromTheRest, NEW a
  PROVE  /\ Learned(a) \subseteq train \cup calibration
         /\ a \in {"parameters", "forest", "classifier"} => Learned(a) \subseteq train
BY DEF LearnedFromTheRest, Learned

(* Nobody is among those that are held out of the own fold.                *)
LEMMA HeldOutOfItself ==
  ASSUME NEW f, NEW m
  PROVE  m \notin HeldOut(f, m) /\ HeldOut(f, m) \subseteq DOMAIN f
BY DEF HeldOut

(* The split.                                                              *)
LEMMA MerchantsAreSplit == FlowInv /\ Split => FlowInv'
<1>. SUFFICES ASSUME FlowInv, Split PROVE FlowInv'
  OBVIOUS
<1>0. /\ stage = "split" /\ DOMAIN saw = {} /\ DOMAIN scoredBy = {} /\ fitHalf = {}
      /\ UNCHANGED <<saw, referenceBy, fitHalf, scoredBy>>
  BY DEF Split, FlowInv, SplitSound
<1>1. CASE stage' = "failed" /\ UNCHANGED <<train, calibration, test>>
  BY <1>0, <1>1 DEF FlowInv, SplitSound, LearnedFromTheRest, ReferenceIsOutOfFold
<1>2. ASSUME NEW right \in CompleteSplits(Merchants, TestSize),
             NEW middle \in CompleteSplits(Merchants \ right, CalibrationSize),
             test' = right, calibration' = middle,
             train' = Merchants \ (right \cup middle), stage' = "tune"
      PROVE  FlowInv'
  <2>1. /\ right \subseteq Merchants /\ Complete(right)
        /\ middle \subseteq Merchants \ right
    BY DEF CompleteSplits, kSubset
  <2>2. SplitSound'
    BY <1>0, <1>2, <2>1 DEF SplitSound, Complete
  <2>3. LearnedFromTheRest' /\ ReferenceIsOutOfFold'
    BY <1>0 DEF FlowInv, LearnedFromTheRest, ReferenceIsOutOfFold
  <2>. QED  BY <1>0, <2>2, <2>3 DEF FlowInv
<1>. QED  BY <1>1, <1>2 DEF Split, TrainingFails

(* Steps that add one artifact and touch nothing else.                     *)
LEMMA ArtifactSteps ==
  FlowInv /\ (Tune \/ FitClassifier \/ OptimizeThresholds \/ Evaluate) => FlowInv'
<1>. SUFFICES ASSUME FlowInv, Tune \/ FitClassifier \/ OptimizeThresholds \/ Evaluate
              PROVE  FlowInv'
  OBVIOUS
<1>0. LearnedFromTheRest
  BY DEF FlowInv
<1>1. /\ UNCHANGED <<train, calibration, test, referenceBy, fitHalf, scoredBy>>
      /\ stage \notin {"split", "failed"} /\ stage' # "split"
  BY DEF Tune, FitClassifier, OptimizeThresholds, Evaluate, TrainingFails
<1>2. LearnedFromTheRest'
  <2>1. CASE Tune
    <3>1. PICK search \in BOOLEAN : Learns("parameters", IF search THEN TunedOn ELSE {})
      BY <2>1 DEF Tune
    <3>2. (IF search THEN TunedOn ELSE {}) \subseteq train
      BY DEF TunedOn
    <3>. QED  BY <1>0, <1>1, <3>1, <3>2, ArtifactAdded
  <2>2. CASE FitClassifier
    <3>1. Learns("classifier", train \cup Learned("forest") \cup Learned("parameters"))
      BY <2>2 DEF FitClassifier
    <3>2. Learned("forest") \subseteq train /\ Learned("parameters") \subseteq train
      BY <1>0, FromTraining
    <3>. QED  BY <1>0, <1>1, <3>1, <3>2, ArtifactAdded
  <2>3. CASE OptimizeThresholds
    <3>1. \/ Learns("thresholds", calibration \cup Learned("calibrator"))
          \/ UNCHANGED saw
      BY <2>3 DEF OptimizeThresholds
    <3>2. Learned("calibrator") \subseteq train \cup calibration
      BY <1>0, FromTraining
    <3>3. CASE UNCHANGED saw
      BY <1>0, <1>1, <3>3 DEF LearnedFromTheRest
    <3>. QED  BY <1>0, <1>1, <3>1, <3>2, <3>3, ArtifactAdded
  <2>4. CASE Evaluate
    <3>1. Learns("conformal", calibration \cup Learned("calibrator"))
      BY <2>4 DEF Evaluate
    <3>2. Learned("calibrator") \subseteq train \cup calibration
      BY <1>0, FromTraining
    <3>. QED  BY <1>0, <1>1, <3>1, <3>2, ArtifactAdded
  <2>. QED  BY <2>1, <2>2, <2>3, <2>4
<1>3. SplitSound' /\ ReferenceIsOutOfFold'
  BY <1>1 DEF FlowInv, SplitSound, ReferenceIsOutOfFold, Complete
<1>. QED  BY <1>1, <1>2, <1>3 DEF FlowInv, Complete

(* The forest, and the reference scores of those it is fitted on.          *)
LEMMA ForestIsFitted == FlowInv /\ FitForest => FlowInv'
<1>. SUFFICES ASSUME FlowInv, FitForest PROVE FlowInv'
  OBVIOUS
<1>1. /\ UNCHANGED <<train, calibration, test, fitHalf, scoredBy>> /\ stage = "forest"
      /\ stage' # "split" /\ LearnedFromTheRest
  BY DEF FitForest, FlowInv, TrainingFails
<1>2. SplitSound'
  BY <1>1 DEF FlowInv, SplitSound, Complete
<1>3. CASE UNCHANGED <<saw, referenceBy>>
  BY <1>1, <1>2, <1>3 DEF FlowInv, LearnedFromTheRest, ReferenceIsOutOfFold, Complete
<1>4. ASSUME NEW f \in [Reference -> 1..Min({5, Cardinality(Reference)})],
             referenceBy' = [m \in Reference |-> ReferenceFittedOn(f, m)],
             Learns("forest", Reference)
      PROVE  FlowInv'
  <2>1. Reference \subseteq train /\ Reference \subseteq Legitimate
    BY DEF Reference
  <2>2. LearnedFromTheRest'
    BY <1>1, <1>4, <2>1, ArtifactAdded
  <2>3. ReferenceIsOutOfFold'
    BY <1>4, <2>1, HeldOutOfItself DEF ReferenceIsOutOfFold, ReferenceFittedOn
  <2>. QED  BY <1>1, <1>2, <2>2, <2>3 DEF FlowInv, Complete
<1>. QED  BY <1>3, <1>4 DEF FitForest, Foldings

(* The halves of the calibration merchants.                                *)
LEMMA CalibrationIsSplit == FlowInv /\ SplitCalibration => FlowInv'
<1>. SUFFICES ASSUME FlowInv, SplitCalibration PROVE FlowInv'
  OBVIOUS
<1>1. /\ UNCHANGED <<train, calibration, test, saw, referenceBy, scoredBy>>
      /\ stage = "halves" /\ stage' # "split"
  BY DEF SplitCalibration, TrainingFails
<1>2. SplitSound' /\ LearnedFromTheRest' /\ ReferenceIsOutOfFold'
  BY <1>1 DEF FlowInv, SplitSound, LearnedFromTheRest, ReferenceIsOutOfFold, Complete
<1>3. CASE UNCHANGED fitHalf
  BY <1>1, <1>2, <1>3 DEF FlowInv, Complete
<1>4. ASSUME NEW right, right \in CompleteSplits(calibration, Cardinality(calibration) \div 2),
             fitHalf' = calibration \ right
      PROVE  FlowInv'
  <2>1. right \subseteq calibration /\ Complete(right)
    BY <1>4 DEF CompleteSplits, kSubset
  <2>2. calibration' \ fitHalf' = right
    BY <1>1, <1>4, <2>1
  <2>3. Complete(calibration \ fitHalf)'
    BY <2>1, <2>2 DEF Complete
  <2>. QED  BY <1>1, <1>2, <1>4, <2>3 DEF FlowInv
<1>. QED  BY <1>3, <1>4 DEF SplitCalibration

(* The calibrator, and the policy probabilities of the calibration         *)
(* merchants.                                                              *)
LEMMA CalibratorIsSelected == FlowInv /\ SelectCalibrator => FlowInv'
<1>. SUFFICES ASSUME FlowInv, SelectCalibrator PROVE FlowInv'
  OBVIOUS
<1>1. /\ UNCHANGED <<train, calibration, test, referenceBy, fitHalf>>
      /\ stage = "method" /\ stage' # "split" /\ LearnedFromTheRest
  BY DEF SelectCalibrator, FlowInv, TrainingFails
<1>2. SplitSound' /\ ReferenceIsOutOfFold'
  BY <1>1 DEF FlowInv, SplitSound, ReferenceIsOutOfFold, Complete
<1>3. Learned("classifier") \subseteq train /\ train \cap calibration = {}
  BY <1>1, FromTraining DEF FlowInv, SplitSound
<1>4. CASE UNCHANGED <<saw, scoredBy>>
  BY <1>1, <1>2, <1>4 DEF FlowInv, LearnedFromTheRest, Complete
<1>5. ASSUME Learns("calibrator", Learned("classifier") \cup calibration),
             DOMAIN scoredBy' = calibration,
             \A m \in calibration : m \notin scoredBy'[m]
      PROVE  FlowInv'
  <2>1. LearnedFromTheRest'
    BY <1>1, <1>3, <1>5, ArtifactAdded
  <2>. QED  BY <1>1, <1>2, <1>5, <2>1 DEF FlowInv, Complete
<1>6. CASE /\ scoredBy' = [m \in calibration |-> Learned("classifier")]
           /\ Learns("calibrator", Learned("classifier") \cup calibration)
  <2>. \A m \in calibration : m \notin scoredBy'[m]
    BY <1>3, <1>6
  <2>. QED  BY <1>5, <1>6
<1>7. ASSUME NEW n, NEW f \in Foldings(calibration, n),
             scoredBy' = [m \in calibration |-> PolicyFit(f, m)],
             Learns("calibrator", Learned("classifier") \cup calibration)
      PROVE  FlowInv'
  <2>. \A m \in calibration : m \notin scoredBy'[m]
    BY <1>3, <1>7, HeldOutOfItself DEF PolicyFit, CrossFitted
  <2>. QED  BY <1>5, <1>7
<1>8. \/ UNCHANGED <<saw, scoredBy>>
      \/ /\ scoredBy' = [m \in calibration |-> Learned("classifier")]
         /\ Learns("calibrator", Learned("classifier") \cup calibration)
      \/ \E n : \E f \in Foldings(calibration, n) :
           /\ scoredBy' = [m \in calibration |-> PolicyFit(f, m)]
           /\ Learns("calibrator", Learned("classifier") \cup calibration)
  BY Zenon DEF SelectCalibrator
<1>. QED  BY <1>4, <1>6, <1>7, <1>8

(* Every step keeps the invariant.                                         *)
LEMMA FlowSteps == FlowInv /\ [FlowNext]_flowVars => FlowInv'
<1>1. FlowInv /\ UNCHANGED flowVars => FlowInv'
  BY DEF flowVars, FlowInv, SplitSound, LearnedFromTheRest, ReferenceIsOutOfFold, Complete
<1>. QED  BY <1>1, MerchantsAreSplit, ArtifactSteps, ForestIsFitted, CalibrationIsSplit,
             CalibratorIsSelected DEF FlowNext

(* A run begins with nothing learned.                                      *)
LEMMA FlowStart == FlowInit => FlowInv
BY DEF FlowInit, Nobody, FlowInv, SplitSound, LearnedFromTheRest, ReferenceIsOutOfFold

(* For any merchants, however they are drawn into the splits and folds:    *)
(* nothing of a bundle, however indirectly, learned from a merchant it is  *)
(* evaluated on, and no merchant had a part in its own policy or reference *)
(* score.                                                                  *)
THEOREM NobodyJudgesItself ==
  FlowSpec => [](TestMerchantsAreUnseen /\ PolicyScoresAreOutOfFold /\ ReferenceIsOutOfFold)
<1>1. FlowInv => TestMerchantsAreUnseen
  BY DEF FlowInv, SplitSound, LearnedFromTheRest, TestMerchantsAreUnseen
<1>2. FlowInv => PolicyScoresAreOutOfFold
  <2>. SUFFICES ASSUME FlowInv PROVE PolicyScoresAreOutOfFold
    OBVIOUS
  <2>1. Learned("classifier") \subseteq train
    BY FromTraining DEF FlowInv
  <2>. QED  BY <2>1 DEF FlowInv, SplitSound, PolicyScoresAreOutOfFold
<1>. QED  BY <1>1, <1>2, FlowStart, FlowSteps, PTL DEF FlowSpec, FlowInv
-----------------------------------------------------------------------------
(* In a strict total order of a finite set, the number of those before an  *)
(* element follows the order and takes every value up to the last place.   *)
LEMMA Ranks ==
  ASSUME NEW S, IsFiniteSet(S), NEW before \in [S -> SUBSET S],
         \A x \in S : x \notin before[x],
         \A x, y, z \in S : x \in before[y] /\ y \in before[z] => x \in before[z],
         \A x, y \in S : x = y \/ x \in before[y] \/ y \in before[x]
  PROVE  /\ Cardinality(S) \in Nat
         /\ \A x \in S : Cardinality(before[x]) \in 0..(Cardinality(S) - 1)
         /\ \A x, y \in S : Cardinality(before[x]) < Cardinality(before[y]) => x \in before[y]
         /\ \A k \in 0..(Cardinality(S) - 1) : \E x \in S : Cardinality(before[x]) = k
<1>1. Cardinality(S) \in Nat
  BY FS_CardinalityType
<1>2. ASSUME NEW x \in S
      PROVE  /\ IsFiniteSet(before[x]) /\ Cardinality(before[x]) \in Nat
             /\ Cardinality(before[x]) < Cardinality(S)
  <2>1. IsFiniteSet(before[x]) /\ Cardinality(before[x]) <= Cardinality(S)
        /\ (Cardinality(before[x]) = Cardinality(S) => before[x] = S)
    BY FS_Subset
  <2>2. Cardinality(before[x]) \in Nat
    BY <2>1, FS_CardinalityType
  <2>. QED  BY <1>1, <2>1, <2>2
<1>3. ASSUME NEW x \in S, NEW y \in S, x \in before[y]
      PROVE  Cardinality(before[x]) < Cardinality(before[y])
  <2>1. before[x] \subseteq before[y] /\ x \notin before[x]
    BY <1>3
  <2>2. IsFiniteSet(before[y])
    BY <1>2
  <2>3. Cardinality(before[x]) <= Cardinality(before[y])
        /\ (Cardinality(before[x]) = Cardinality(before[y]) => before[x] = before[y])
    BY <2>1, <2>2, FS_Subset
  <2>4. Cardinality(before[x]) # Cardinality(before[y])
    BY <1>3, <2>1, <2>3
  <2>5. Cardinality(before[x]) \in Nat /\ Cardinality(before[y]) \in Nat
    BY <1>2
  <2>. QED  BY <2>3, <2>4, <2>5
<1>4. \A x, y \in S : Cardinality(before[x]) < Cardinality(before[y]) => x \in before[y]
  <2>1. SUFFICES ASSUME NEW x \in S, NEW y \in S, Cardinality(before[x]) < Cardinality(before[y]),
                        x \notin before[y]
                 PROVE  FALSE
    OBVIOUS
  <2>2. Cardinality(before[x]) \in Nat /\ Cardinality(before[y]) \in Nat
    BY <1>2
  <2>3. y \in before[x]
    BY <2>1, <2>2
  <2>4. Cardinality(before[y]) < Cardinality(before[x])
    BY <1>3, <2>3
  <2>. QED  BY <2>1, <2>2, <2>4
<1> DEFINE places == 0..(Cardinality(S) - 1)
           rank == [x \in S |-> Cardinality(before[x])]
<1>5. \A x \in S : Cardinality(before[x]) \in places
  BY <1>1, <1>2
<1>6. ASSUME NEW x \in S, NEW y \in S, rank[x] = rank[y] PROVE x = y
  <2>1. Cardinality(before[x]) = Cardinality(before[y])
    BY <1>6
  <2>2. Cardinality(before[x]) \in Nat /\ Cardinality(before[y]) \in Nat
    BY <1>2
  <2>3. x \notin before[y] /\ y \notin before[x]
    BY <1>3, <2>1, <2>2
  <2>. QED  BY <2>3
<1>7. rank \in Injection(S, places)
  BY <1>5, <1>6 DEF Injection, IsInjective
<1>8. IsFiniteSet(places) /\ Cardinality(places) = Cardinality(S)
  <2>1. Cardinality(S) - 1 \in Int
    BY <1>1
  <2>. QED  BY <1>1, <2>1, FS_Interval
<1>9. rank \in Surjection(S, places)
  BY <1>7, <1>8, FS_Injection
<1>10. \A k \in places : \E x \in S : Cardinality(before[x]) = k
  BY <1>9 DEF Surjection
<1>. QED  BY <1>1, <1>4, <1>5, <1>10

(* A quotient grows with what is divided.                                  *)
LEMMA QuotientGrows ==
  ASSUME NEW a \in Nat, NEW b \in Nat, NEW n \in Nat, n > 0, a <= b
  PROVE  /\ a \div n \in Nat /\ b \div n \in Nat /\ a \div n <= b \div n
<1> DEFINE p == a \div n
           q == b \div n
<1>1. p \in Nat /\ q \in Nat
  OBVIOUS
<1>2. n * p <= a /\ b < n * q + n
  OBVIOUS
<1>3. ASSUME p > q PROVE FALSE
  <2>1. p >= q + 1
    BY <1>1, <1>3
  <2>2. PICK d \in Nat : p = q + 1 + d
    BY <1>1, <2>1
  <2> HIDE DEF p, q
  <2>3. n * p = n * q + n + n * d
    BY <1>1, <2>2
  <2>4. n * d \in Nat /\ n * q \in Nat /\ n * p \in Nat
    BY <1>1
  <2>. QED  BY <1>2, <2>3, <2>4
<1>. QED  BY <1>1, <1>3

(* The lesser and the greater of two numbers.                              *)
LEMMA OfTwo ==
  ASSUME NEW a \in Int, NEW b \in Int
  PROVE  /\ Min({a, b}) = IF a <= b THEN a ELSE b
         /\ Max({a, b}) = IF a >= b THEN a ELSE b
BY DEF Min, Max

----------------------------------------------------------------------------
(* Rows by time.                                                           *)
SplitsInv == heldAt # Empty => heldAt \in [Windows -> Instants]

(* Times and rows are numbers.                                             *)
LEMMA TimesAreNumbers ==
  ASSUME heldAt \in [Windows -> Instants]
  PROVE  \A w \in Windows : heldAt[w] \in Nat /\ w \in Nat
BY SplitsAssumption

(* A row's position in some rows says how many of them are before it, and  *)
(* every position is taken.                                                *)
LEMMA Positions ==
  ASSUME heldAt \in [Windows -> Instants], NEW rs \in SUBSET Windows
  PROVE  /\ IsFiniteSet(rs) /\ Cardinality(rs) \in Nat
         /\ \A w \in rs : Position(rs, w) \in 0..(Cardinality(rs) - 1)
         /\ \A v, w \in rs : Position(rs, v) < Position(rs, w) => heldAt[v] <= heldAt[w]
         /\ \A k \in 0..(Cardinality(rs) - 1) : \E w \in rs : Position(rs, w) = k
<1> DEFINE before == [w \in rs |-> {v \in rs : Precedes(v, w)}]
<1>1. IsFiniteSet(rs)
  BY SplitsAssumption, FS_Subset
<1>2. \A v, w \in rs : v \in before[w] <=> Precedes(v, w)
  OBVIOUS
<1>3. \A w \in rs : heldAt[w] \in Nat /\ w \in Nat
  BY TimesAreNumbers
<1>4. before \in [rs -> SUBSET rs]
  OBVIOUS
<1>5. \A w \in rs : Position(rs, w) = Cardinality(before[w])
  BY DEF Position
<1>. HIDE DEF before
<1>6. \A v \in rs : v \notin before[v]
  BY <1>2, <1>3 DEF Precedes
<1>7. ASSUME NEW u \in rs, NEW v \in rs, NEW w \in rs, u \in before[v], v \in before[w]
      PROVE  u \in before[w]
  BY <1>2, <1>3, <1>7 DEF Precedes
<1>8. ASSUME NEW v \in rs, NEW w \in rs, v \notin before[w], w \notin before[v]
      PROVE  v = w
  BY <1>2, <1>3, <1>8 DEF Precedes
<1>9. \A v, w \in rs : v \in before[w] => heldAt[v] <= heldAt[w]
  BY <1>2, <1>3 DEF Precedes
<1>10. /\ Cardinality(rs) \in Nat
       /\ \A w \in rs : Cardinality(before[w]) \in 0..(Cardinality(rs) - 1)
       /\ \A v, w \in rs : Cardinality(before[v]) < Cardinality(before[w]) => v \in before[w]
       /\ \A k \in 0..(Cardinality(rs) - 1) : \E w \in rs : Cardinality(before[w]) = k
  BY <1>1, <1>4, <1>6, <1>7, <1>8, Ranks
<1>. QED  BY <1>1, <1>5, <1>9, <1>10

(* So does the position that breaks ties the other way.                    *)
LEMMA FoldPositions ==
  ASSUME heldAt \in [Windows -> Instants], NEW rs \in SUBSET Windows
  PROVE  /\ \A w \in rs : FoldPosition(rs, w) \in Nat
         /\ \A v, w \in rs : FoldPosition(rs, v) < FoldPosition(rs, w) => heldAt[v] <= heldAt[w]
<1> DEFINE before == [w \in rs |-> {v \in rs : (heldAt[v] < heldAt[w] \/ (heldAt[v] = heldAt[w] /\ v > w))}]
<1>1. IsFiniteSet(rs)
  BY SplitsAssumption, FS_Subset
<1>2. \A v, w \in rs : v \in before[w] <=> (heldAt[v] < heldAt[w] \/ (heldAt[v] = heldAt[w] /\ v > w))
  OBVIOUS
<1>3. \A w \in rs : heldAt[w] \in Nat /\ w \in Nat
  BY TimesAreNumbers
<1>4. before \in [rs -> SUBSET rs]
  OBVIOUS
<1>5. \A w \in rs : FoldPosition(rs, w) = Cardinality(before[w])
  BY DEF FoldPosition
<1>. HIDE DEF before
<1>6. \A v \in rs : v \notin before[v]
  BY <1>2, <1>3
<1>7. ASSUME NEW u \in rs, NEW v \in rs, NEW w \in rs, u \in before[v], v \in before[w]
      PROVE  u \in before[w]
  BY <1>2, <1>3, <1>7
<1>8. ASSUME NEW v \in rs, NEW w \in rs, v \notin before[w], w \notin before[v]
      PROVE  v = w
  BY <1>2, <1>3, <1>8
<1>9. \A v, w \in rs : v \in before[w] => heldAt[v] <= heldAt[w]
  BY <1>2, <1>3
<1>10. /\ Cardinality(rs) \in Nat
       /\ \A w \in rs : Cardinality(before[w]) \in 0..(Cardinality(rs) - 1)
       /\ \A v, w \in rs : Cardinality(before[v]) < Cardinality(before[w]) => v \in before[w]
       /\ \A k \in 0..(Cardinality(rs) - 1) : \E w \in rs : Cardinality(before[w]) = k
  BY <1>1, <1>4, <1>6, <1>7, <1>8, Ranks
<1>. QED  BY <1>1, <1>5, <1>9, <1>10

(* The ends of the partitions are numbers.                                 *)
LEMMA EndsAreNumbers ==
  ASSUME NEW n \in Nat
  PROVE  DevelopmentEnd(n) \in Nat /\ GateEnd(n) \in Nat
BY DEF DevelopmentEnd, GateEnd

(* What the partition of a row of a known family says of its position.     *)
LEMMA PartsByPosition ==
  ASSUME NEW f \in Families, NEW w \in RowsOfFamily(f)
  PROVE  LET at == Position(RowsOfFamily(f), w)
             n  == Cardinality(RowsOfFamily(f))
         IN  PartitionOfRow(w) = IF at < DevelopmentEnd(n) THEN "development"
                                 ELSE IF at < GateEnd(n) THEN "v3b_gate" ELSE "sealed"
BY DEF PartitionOfRow, Families, RowsOfFamily

(* Each known family has rows in each partition, and they follow each      *)
(* other.                                                                  *)
LEMMA FamilyParts ==
  ASSUME heldAt \in [Windows -> Instants], Partitioned, NEW f \in Families
  PROVE  /\ \A p \in {"development", "v3b_gate", "sealed"} :
              \E w \in RowsOfFamily(f) : PartitionOfRow(w) = p
         /\ \A v, w \in RowsOfFamily(f) :
              \/ PartitionOfRow(v) = "development" /\ PartitionOfRow(w) \in {"v3b_gate", "sealed"}
              \/ PartitionOfRow(v) = "v3b_gate" /\ PartitionOfRow(w) = "sealed"
              => heldAt[v] <= heldAt[w]
<1> DEFINE rs == RowsOfFamily(f)
           n  == Cardinality(rs)
           d  == DevelopmentEnd(n)
           g  == GateEnd(n)
<1>1. rs \in SUBSET Windows
  BY DEF RowsOfFamily
<1>2. n \in Nat /\ d \in Nat /\ g \in Nat
  BY <1>1, Positions, EndsAreNumbers
<1>3. 1 <= d /\ d < g /\ g < n
  <2>1. ~TooSmall(n)
    BY DEF Partitioned
  <2>. QED  BY <1>2, <2>1 DEF TooSmall
<1>4. \A w \in rs : PartitionOfRow(w) =
        IF Position(rs, w) < d THEN "development"
        ELSE IF Position(rs, w) < g THEN "v3b_gate" ELSE "sealed"
  BY PartsByPosition
<1>5. /\ \A w \in rs : Position(rs, w) \in Nat
      /\ \A v, w \in rs : Position(rs, v) < Position(rs, w) => heldAt[v] <= heldAt[w]
      /\ \A k \in 0..(n - 1) : \E w \in rs : Position(rs, w) = k
  BY <1>1, <1>2, Positions
<1>. HIDE DEF rs, n, d, g
<1>6. \E w \in rs : Position(rs, w) = 0
  BY <1>2, <1>3, <1>5
<1>7. \E w \in rs : Position(rs, w) = d
  BY <1>2, <1>3, <1>5
<1>8. \E w \in rs : Position(rs, w) = g
  BY <1>2, <1>3, <1>5
<1>9. \A p \in {"development", "v3b_gate", "sealed"} : \E w \in rs : PartitionOfRow(w) = p
  <2>1. \E w \in rs : PartitionOfRow(w) = "development"
    BY <1>2, <1>3, <1>4, <1>6
  <2>2. \E w \in rs : PartitionOfRow(w) = "v3b_gate"
    BY <1>2, <1>3, <1>4, <1>7
  <2>3. \E w \in rs : PartitionOfRow(w) = "sealed"
    BY <1>2, <1>3, <1>4, <1>8
  <2>. QED  BY <2>1, <2>2, <2>3
<1>10. ASSUME NEW v \in rs, NEW w \in rs,
              \/ PartitionOfRow(v) = "development" /\ PartitionOfRow(w) \in {"v3b_gate", "sealed"}
              \/ PartitionOfRow(v) = "v3b_gate" /\ PartitionOfRow(w) = "sealed"
       PROVE  heldAt[v] <= heldAt[w]
  <2>1. Position(rs, v) \in Nat /\ Position(rs, w) \in Nat
    BY <1>5
  <2>2. Position(rs, v) < Position(rs, w)
    BY <1>2, <1>3, <1>4, <1>10, <2>1
  <2>. QED  BY <1>5, <2>2
<1>. QED  BY <1>9, <1>10 DEF rs

(* The parts of the benchmark follow each other too.                       *)
LEMMA BenchmarkParts ==
  ASSUME heldAt \in [Windows -> Instants], NEW v \in Windows, NEW w \in Windows,
         BenchmarkPart(v) < BenchmarkPart(w)
  PROVE  heldAt[v] <= heldAt[w]
<1> DEFINE n == Cardinality(Windows)
           a == (60 * n) \div 100
           b == (80 * n) \div 100
<1>1. n \in Nat /\ Position(Windows, v) \in Nat /\ Position(Windows, w) \in Nat
  BY Positions
<1>2. a \in Nat /\ b \in Nat
  BY <1>1
<1>3. /\ BenchmarkPart(v) =
           IF Position(Windows, v) < a THEN 0 ELSE IF Position(Windows, v) < b THEN 1 ELSE 2
      /\ BenchmarkPart(w) =
           IF Position(Windows, w) < a THEN 0 ELSE IF Position(Windows, w) < b THEN 1 ELSE 2
  BY DEF BenchmarkPart
<1>. HIDE DEF n, a, b
<1>4. Position(Windows, v) < Position(Windows, w)
  BY <1>1, <1>2, <1>3
<1>. QED  BY <1>4, Positions

(* No row is judged by what was selected on a later row.                   *)
LEMMA LaterIsJudged == SplitsInv => JudgedRowsComeLater
<1>. SUFFICES ASSUME heldAt \in [Windows -> Instants], heldAt # Empty PROVE JudgedRowsComeLater
  BY DEF SplitsInv, JudgedRowsComeLater
<1> DEFINE part0 == [w \in Windows |-> PartitionOfRow(w)]
           benchmark == [w \in Windows |-> BenchmarkPart(w)]
           later == {<<"development", "v3b_gate">>, <<"development", "sealed">>, <<"v3b_gate", "sealed">>}
<1>1. ASSUME Partitioned, NEW f \in Families
      PROVE  /\ \A p \in {"development", "v3b_gate", "sealed"} : \E w \in RowsOfFamily(f) : part0[w] = p
             /\ \A v, w \in RowsOfFamily(f) : <<part0[v], part0[w]>> \in later => heldAt[v] <= heldAt[w]
  <2>1. \A w \in RowsOfFamily(f) : part0[w] = PartitionOfRow(w)
    BY DEF RowsOfFamily
  <2>. HIDE DEF part0
  <2>. QED  BY <1>1, <2>1, FamilyParts
<1>2. \A v, w \in Windows : benchmark[v] < benchmark[w] => heldAt[v] <= heldAt[w]
  BY BenchmarkParts
<1>. HIDE DEF part0, benchmark, later
<1>3. /\ Partitioned =>
           \A f \in Families :
             /\ \A p \in {"development", "v3b_gate", "sealed"} : \E w \in RowsOfFamily(f) : part0[w] = p
             /\ \A v, w \in RowsOfFamily(f) : <<part0[v], part0[w]>> \in later => heldAt[v] <= heldAt[w]
      /\ \A v, w \in Windows : benchmark[v] < benchmark[w] => heldAt[v] <= heldAt[w]
  BY <1>1, <1>2
<1>. QED  BY <1>3 DEF JudgedRowsComeLater, part0, benchmark, later

(* A row of a later fold has the later position in its family.             *)
LEMMA FoldsFollowPositions ==
  ASSUME NEW p \in Nat, NEW q \in Nat, NEW n \in Nat, n > 0,
         Min({(p * Bins) \div n, Bins - 1}) < Min({(q * Bins) \div n, Bins - 1})
  PROVE  p < q
<1>1. Bins \in Nat
  BY SplitsAssumption
<1>2. ASSUME q <= p PROVE FALSE
  <2> DEFINE x == q * Bins
             y == p * Bins
  <2>1. x \in Nat /\ y \in Nat
    BY <1>1
  <2>2. x <= y
    <3>1. PICK e \in Nat : p = q + e
      BY <1>2
    <3>2. y = x + e * Bins /\ e * Bins \in Nat
      BY <1>1, <3>1
    <3>. QED  BY <2>1, <3>2
  <2>. HIDE DEF x, y
  <2>3. x \div n \in Nat /\ y \div n \in Nat /\ x \div n <= y \div n
    BY <2>1, <2>2, QuotientGrows
  <2>4. Bins - 1 \in Int
    BY <1>1
  <2>5. /\ Min({x \div n, Bins - 1}) = IF x \div n <= Bins - 1 THEN x \div n ELSE Bins - 1
        /\ Min({y \div n, Bins - 1}) = IF y \div n <= Bins - 1 THEN y \div n ELSE Bins - 1
    BY <2>3, <2>4, OfTwo
  <2>6. Min({y \div n, Bins - 1}) < Min({x \div n, Bins - 1})
    BY DEF x, y
  <2>. QED  BY <2>3, <2>4, <2>5, <2>6
<1>. QED  BY <1>2

(* A window of the final cycle is fitted on what came before.              *)
LEMMA WindowsAreFittedBefore == SplitsInv => WindowsOnlyLookBack
<1>. SUFFICES ASSUME heldAt \in [Windows -> Instants] PROVE WindowsOnlyLookBack
  BY DEF SplitsInv, WindowsOnlyLookBack
<1>1. Folds = [w \in Development |-> FoldOf(Development, w)]
  BY DEF Folds
<1>2. ASSUME NEW v \in Development, NEW w \in Development, FamilyOf[v] = FamilyOf[w],
             FoldOf(Development, v) < FoldOf(Development, w)
      PROVE  heldAt[v] <= heldAt[w]
  <2> DEFINE rs == Development \cap RowsOfFamily(FamilyOf[w])
  <2>1. rs \in SUBSET Windows /\ v \in rs /\ w \in rs
    BY <1>2 DEF Development, RowsOfFamily
  <2>2. IsFiniteSet(rs) /\ Cardinality(rs) \in Nat /\ Cardinality(rs) > 0
    <3>1. IsFiniteSet(rs)
      BY <2>1, Positions
    <3>. QED  BY <2>1, <3>1, FS_EmptySet, FS_CardinalityType
  <2>3. FoldPosition(rs, v) \in Nat /\ FoldPosition(rs, w) \in Nat
    BY <2>1, FoldPositions
  <2>4. /\ FoldOf(Development, v) = Min({(FoldPosition(rs, v) * Bins) \div Cardinality(rs), Bins - 1})
        /\ FoldOf(Development, w) = Min({(FoldPosition(rs, w) * Bins) \div Cardinality(rs), Bins - 1})
    BY <1>2 DEF FoldOf
  <2>. HIDE DEF rs
  <2>5. FoldPosition(rs, v) < FoldPosition(rs, w)
    BY <1>2, <2>2, <2>3, <2>4, FoldsFollowPositions
  <2>. QED  BY <2>1, <2>5, FoldPositions
<1>3. ASSUME NEW b \in 2..(Bins - 1)
      PROVE  /\ FitRows(Folds, b) \cap ValidationRows(Folds, b) = {}
             /\ \A v \in FitRows(Folds, b), w \in ValidationRows(Folds, b) :
                  FamilyOf[v] = FamilyOf[w] => heldAt[v] <= heldAt[w]
  <2>1. Bins \in Nat /\ b \in Nat
    BY SplitsAssumption
  <2>2. FitRows(Folds, b) \cap ValidationRows(Folds, b) = {}
    BY <2>1 DEF FitRows, ValidationRows
  <2>3. ASSUME NEW v \in FitRows(Folds, b), NEW w \in ValidationRows(Folds, b),
               FamilyOf[v] = FamilyOf[w]
        PROVE  heldAt[v] <= heldAt[w]
    <3>1. /\ v \in Development /\ FoldOf(Development, v) < b
          /\ w \in Development /\ FoldOf(Development, w) = b
      BY <1>1 DEF FitRows, ValidationRows
    <3>. QED  BY <1>2, <2>3, <3>1
  <2>. QED  BY <2>2, <2>3
<1>. QED  BY <1>3 DEF WindowsOnlyLookBack

(* For any rows, times and ties, and any number of bins: what is judged    *)
(* comes after what was selected on, in every partition, window and part   *)
(* of the benchmark.                                                       *)
THEOREM TimeIsRespected == SplitsSpec => [](JudgedRowsComeLater /\ WindowsOnlyLookBack)
<1>1. SplitsInit => SplitsInv
  BY DEF SplitsInit, Unexamined, SplitsInv
<1>2. SplitsInv /\ [SplitsNext]_splitVars => SplitsInv'
  BY DEF SplitsInv, SplitsNext, ExamineCorpus, ExamineScores, ExamineListing, splitVars
<1>. QED  BY <1>1, <1>2, LaterIsJudged, WindowsAreFittedBefore, PTL DEF SplitsSpec
-----------------------------------------------------------------------------
----------------------------------------------------------------------------
(* The fold of a family left out.                                          *)
GuardInv ==
  guardFold # NotTried =>
    \E i \in DOMAIN FamilyOrder : \E s :
      /\ guardFold = [index |-> i, split |-> s]
      /\ DOMAIN s \subseteq GuardFamilies \ {FamilyOrder[i]}

(* The split of a fold is made of the other families.                      *)
LEMMA GuardSteps == GuardInv /\ [GuardNext]_guardVars => GuardInv'
<1>1. ASSUME ExamineFold PROVE GuardInv'
  <2>1. \E i \in DOMAIN FamilyOrder : \E direct, resolvable, risk :
          guardFold' = [index |-> i, split |-> Joined(Others(i), direct, resolvable, risk)]
    BY <1>1, Zenon DEF ExamineFold
  <2>2. \A i, direct, resolvable, risk : DOMAIN Joined(Others(i), direct, resolvable, risk) = Others(i)
    BY DEF Joined
  <2>3. \E i \in DOMAIN FamilyOrder : \E s : guardFold' = [index |-> i, split |-> s]
                                             /\ DOMAIN s \subseteq Others(i)
    BY <2>1, <2>2
  <2>. QED  BY <2>3 DEF GuardInv, Others, GuardFamilies
<1>2. ASSUME GuardInv, UNCHANGED guardFold PROVE GuardInv'
  BY <1>2 DEF GuardInv, GuardFamilies
<1>. QED  BY <1>1, <1>2 DEF GuardNext, ExamineTails, ExamineGuardChoice, guardVars

(* Whom a group is made of.                                                *)
LEMMA GroupMembers ==
  ASSUME NEW fs, NEW role, NEW g \in Group(fs, role)
  PROVE  g[1] \in fs /\ g[2] = role
BY DEF Group

(* Two that differ are two.                                                *)
LEMMA TwoDiffer ==
  ASSUME NEW a, NEW b, a # b
  PROVE  Cardinality({a, b}) = 2
<1>1. IsFiniteSet({a}) /\ Cardinality({a}) = 1
  BY FS_Singleton, Zenon
<1>2. Cardinality({a} \cup {b}) = IF b \in {a} THEN Cardinality({a}) ELSE Cardinality({a}) + 1
  BY <1>1, FS_AddElement, Zenon
<1>3. b \notin {a} /\ {a} \cup {b} = {a, b}
  OBVIOUS
<1>. QED  BY <1>1, <1>2, <1>3

(* Two available families follow each other in the order, whatever their   *)
(* number and the rotation.                                                *)
LEMMA TwoFamilies ==
  ASSUME Cardinality(Available) >= 2, GuardInv, guardFold # NotTried
  PROVE  /\ Cardinality(PseudoUnseen) = 2
         /\ PseudoUnseen \subseteq LegitimateRemaining
<1> DEFINE n == Cardinality(Available)
           place(k) == CHOOSE i \in Available : Cardinality({j \in Available : j < i}) = k
           start == (2 * (guardFold.index - 1)) % n
           next == (start + 1) % n
           before == [i \in Available |-> {j \in Available : j < i}]
<1>1. \A i \in DOMAIN FamilyOrder : i \in Nat
  BY FamilyGuardAssumption
<1>2. IsFiniteSet(DOMAIN FamilyOrder)
  <2>1. DOMAIN FamilyOrder = 1..Len(FamilyOrder) /\ Len(FamilyOrder) \in Nat
    BY FamilyGuardAssumption
  <2>. QED  BY <2>1, FS_Interval
<1>3. Available \subseteq DOMAIN FamilyOrder /\ IsFiniteSet(Available)
  BY <1>2, FS_Subset DEF Available
<1>4. \A i, j \in Available : j \in before[i] <=> j < i
  OBVIOUS
<1>5. before \in [Available -> SUBSET Available]
  OBVIOUS
<1>6. \A i \in Available : Cardinality(before[i]) = Cardinality({j \in Available : j < i})
  OBVIOUS
<1>. HIDE DEF before
<1>7. \A i \in Available : i \notin before[i]
  BY <1>1, <1>3, <1>4
<1>8. ASSUME NEW i \in Available, NEW j \in Available, NEW k \in Available, i \in before[j], j \in before[k]
      PROVE  i \in before[k]
  BY <1>1, <1>3, <1>4, <1>8
<1>9. ASSUME NEW i \in Available, NEW j \in Available, i \notin before[j], j \notin before[i]
      PROVE  i = j
  BY <1>1, <1>3, <1>4, <1>9
<1>10. /\ n \in Nat
       /\ \A k \in 0..(n - 1) : \E i \in Available : Cardinality(before[i]) = k
  BY <1>3, <1>5, <1>7, <1>8, <1>9, Ranks
<1>11. ASSUME NEW k \in 0..(n - 1)
       PROVE  place(k) \in Available /\ Cardinality(before[place(k)]) = k
  <2>1. \E i \in Available : Cardinality({j \in Available : j < i}) = k
    BY <1>6, <1>10
  <2>2. place(k) \in Available /\ Cardinality({j \in Available : j < place(k)}) = k
    BY <2>1
  <2>. HIDE DEF place
  <2>. QED  BY <1>6, <2>2
<1>12. guardFold.index \in Nat /\ guardFold.index >= 1
  <2>1. DOMAIN FamilyOrder = 1..Len(FamilyOrder) /\ Len(FamilyOrder) \in Nat
    BY FamilyGuardAssumption
  <2>2. guardFold.index \in DOMAIN FamilyOrder
    BY DEF GuardInv
  <2>. QED  BY <2>1, <2>2
<1>13. start \in 0..(n - 1) /\ next \in 0..(n - 1) /\ start # next
  <2>1. 2 * (guardFold.index - 1) \in Nat
    BY <1>12
  <2>2. start \in 0..(n - 1)
    BY <1>10, <2>1
  <2>3. next = IF start + 1 = n THEN 0 ELSE start + 1
    <3>. HIDE DEF start
    <3>1. start + 1 < n => (start + 1) % n = start + 1
      BY <1>10, <2>2
    <3>2. n % n = 0
      BY <1>10
    <3>. QED  BY <1>10, <2>2, <3>1, <3>2
  <2>. HIDE DEF start, next
  <2>. QED  BY <1>10, <2>2, <2>3
<1>. HIDE DEF place, start, next
<1>14. place(start) \in Available /\ place(next) \in Available /\ place(start) # place(next)
  BY <1>11, <1>13
<1>15. FamilyOrder[place(start)] # FamilyOrder[place(next)]
  BY <1>3, <1>14, FamilyGuardAssumption DEF IsInjective
<1>16. \A i \in Available : FamilyOrder[i] \in LegitimateRemaining
  BY DEF Available
<1>17. PseudoUnseen = {FamilyOrder[place(start)], FamilyOrder[place(next)]}
  BY DEF PseudoUnseen, AvailableAt, place, start, next
<1>18. Cardinality(PseudoUnseen) = 2
  BY <1>15, <1>17, TwoDiffer
<1>. QED  BY <1>14, <1>16, <1>17, <1>18

(* Whatever families there are, however their merchants are split and      *)
(* whatever the rotation: the family left out decides nothing about itself,*)
(* thresholds are calibrated on others than the scorers learned from, and  *)
(* a guard is chosen on others than both.                                  *)
THEOREM LeftOutIsUnseen == GuardSpec => []LeftOutFamilyIsUnseen
<1>1. GuardInit => GuardInv
  BY DEF GuardInit, GuardInv
<1>2. ASSUME GuardInv, guardFold # NotTried, FoldRuns
      PROVE  /\ \A g \in BundleRows \cup NoveltyRows \cup TailRows \cup ChoiceRows \cup KnownTailRows :
                  g[1] # FamilyOrder[guardFold.index]
             /\ Cardinality(PseudoUnseen) = 2
             /\ \A g \in NoveltyRows : g[1] \notin PseudoUnseen
             /\ TailRows \cap NoveltyRows = {} /\ KnownTailRows \cap KnownRows = {}
             /\ ChoiceRows \cap (BundleRows \cup NoveltyRows \cup TailRows) = {}
  <2>1. Cardinality(PseudoUnseen) = 2 /\ PseudoUnseen \subseteq LegitimateRemaining
    BY <1>2, TwoFamilies DEF FoldRuns
  <2>2. LegitimateRemaining \subseteq Remaining
    BY DEF LegitimateRemaining
  <2>3. \A f \in Remaining : f # FamilyOrder[guardFold.index]
    BY <1>2 DEF GuardInv, Remaining
  <2>4. /\ \A g \in BundleRows : g[1] \in Remaining /\ g[2] \in {"train", "calibration"}
        /\ \A g \in NoveltyRows : g[1] \in Remaining \ PseudoUnseen /\ g[2] = "train"
        /\ \A g \in ChoiceRows : g[1] \in Remaining /\ g[2] = "inner"
        /\ \A g \in KnownTailRows : g[1] \in Remaining /\ g[2] = "calibration"
        /\ \A g \in KnownRows : g[2] = "train"
    BY <2>2, GroupMembers DEF BundleRows, NoveltyRows, ChoiceRows, KnownTailRows, KnownRows
  <2>5. \A g \in TailRows : /\ g[1] \in Remaining
                            /\ g[2] = "calibration" \/ (g[2] = "train" /\ g[1] \in PseudoUnseen)
    BY <2>1, <2>2, GroupMembers DEF TailRows
  <2>. QED  BY <2>1, <2>3, <2>4, <2>5
<1>. QED  BY <1>1, <1>2, GuardSteps, PTL DEF GuardSpec, LeftOutFamilyIsUnseen
-----------------------------------------------------------------------------
(* A simulated history: numbered events that end before the current window.*)
PastOK ==
  /\ IsFiniteSet(past)
  /\ \A e \in past : e.at \in Int /\ e.at < DrawnCurrentStart /\ e = [no |-> e.no, at |-> e.at, refund |-> e.refund]
  /\ \A e, x \in past : e.no = x.no => e = x

WindowsInv ==
  /\ holdAt \in Nat
  /\ config # Undrawn => config \in WindowConfigs /\ Valid(config)
  /\ config = Undrawn => past = Undrawn
  /\ past # Undrawn => PastOK
  /\ past = Undrawn => estimate = Undrawn
  /\ estimate \notin {Undrawn, Raised} => estimate = Estimated(past)

(* A configuration is drawn.                                               *)
LEMMA ConfigIsDrawn == WindowsInv /\ DrawConfig => WindowsInv'
<1>. SUFFICES ASSUME WindowsInv, DrawConfig PROVE WindowsInv'
  OBVIOUS
<1>1. past = Undrawn /\ estimate = Undrawn /\ UNCHANGED <<past, estimate>>
  BY DEF WindowsInv, DrawConfig
<1>2. PICK c \in WindowConfigs : Valid(c) /\ config' = c
  BY DEF DrawConfig
<1>3. Valid(config)'
  BY <1>2 DEF Valid
<1>4. holdAt' \in Nat
  <2>1. PICK j \in Jitter : holdAt' = j * DayTicks
    BY DEF DrawConfig
  <2>. QED  BY <2>1, SyntheticAssumption
<1>. QED  BY <1>1, <1>2, <1>3, <1>4 DEF WindowsInv, WindowConfigs

(* What a drawn configuration says in numbers.                             *)
LEMMA ConfigNumbers ==
  ASSUME WindowsInv, config # Undrawn
  PROVE  /\ holdAt \in Nat /\ DayTicks \in Nat /\ DayTicks > 0
         /\ config.history \in Nat /\ config.baseline \in Nat /\ config.current \in Nat
         /\ config.history >= config.baseline + 2 /\ config.baseline >= 1 /\ config.current >= 1
         /\ config.baseline * DayTicks \in Nat /\ config.history * DayTicks \in Nat
         /\ HistoryStart \in Int /\ DrawnCurrentStart \in Int
         /\ BaselineEnd \in Int /\ DrawnBaselineStart \in Int
<1>1. /\ holdAt \in Nat /\ DayTicks \in Nat /\ DayTicks > 0
      /\ config.history \in Nat /\ config.baseline \in Nat /\ config.current \in Nat
      /\ config.history >= config.baseline + 2 /\ config.baseline >= 1 /\ config.current >= 1
  BY SyntheticAssumption DEF WindowsInv, Valid, WindowConfigs
<1>2. config.baseline * DayTicks \in Nat /\ config.history * DayTicks \in Nat
  BY <1>1
<1>3. HistoryStart \in Int /\ DrawnCurrentStart \in Int
  BY <1>1, <1>2 DEF HistoryStart, DrawnCurrentStart
<1>4. BaselineEnd \in Int /\ DrawnBaselineStart \in Int
  BY <1>1, <1>2, <1>3 DEF BaselineEnd, DrawnBaselineStart
<1>. QED  BY <1>1, <1>2, <1>3, <1>4

(* A history is simulated.                                                 *)
LEMMA HistoryIsSimulated == WindowsInv /\ SimulateHistory => WindowsInv'
<1>. SUFFICES ASSUME WindowsInv, SimulateHistory PROVE WindowsInv'
  OBVIOUS
<1>1. /\ config # Undrawn /\ past = Undrawn /\ estimate = Undrawn
      /\ UNCHANGED <<config, holdAt, estimate, current>>
  BY DEF WindowsInv, SimulateHistory
<1>2. PICK n \in 0..MaxEvents : \E draws \in [1..n -> HistoryDays \X (0..(DayTicks - 1)) \X Delays] :
        past' = {Drawn(i, draws[i][1], draws[i][2], draws[i][3]) : i \in 1..n}
  BY DEF SimulateHistory
<1>3. PICK draws \in [1..n -> HistoryDays \X (0..(DayTicks - 1)) \X Delays] :
        past' = {Drawn(i, draws[i][1], draws[i][2], draws[i][3]) : i \in 1..n}
  BY <1>2
<1> DEFINE event == [i \in 1..n |-> Drawn(i, draws[i][1], draws[i][2], draws[i][3])]
<1>4. n \in Nat
  BY SyntheticAssumption
<1>5. past' = {event[i] : i \in 1..n}
  BY <1>3
<1>6. ASSUME NEW i \in 1..n
      PROVE  /\ event[i].no = i /\ event[i].at \in Int /\ event[i].at < DrawnCurrentStart
             /\ event[i] = [no |-> event[i].no, at |-> event[i].at, refund |-> event[i].refund]
  <2>1. draws[i][1] \in HistoryDays /\ draws[i][2] \in 0..(DayTicks - 1)
    OBVIOUS
  <2> DEFINE d == draws[i][1]
             s == draws[i][2]
             t == HistoryStart + d * DayTicks + s
  <2>2. d \in Nat /\ s \in Int
    BY <2>1, SyntheticAssumption DEF HistoryDays
  <2>3. event[i] = Drawn(i, d, s, draws[i][3])
    OBVIOUS
  <2>. HIDE DEF d, s, event
  <2>4. d * DayTicks \in Int
    BY <2>2, SyntheticAssumption
  <2>5. HistoryStart \in Int /\ DrawnCurrentStart \in Int /\ DrawnCurrentStart - 1 \in Int
    BY <1>1, ConfigNumbers
  <2>6. t \in Int
    BY <2>2, <2>4, <2>5
  <2>7. Drawn(i, d, s, draws[i][3]).at = EventTime(t)
    BY DEF Drawn
  <2>. HIDE DEF t
  <2>8. EventTime(t) \in Int /\ EventTime(t) < DrawnCurrentStart
    <3> DEFINE c == DrawnCurrentStart - 1
    <3>1. c \in Int /\ c < DrawnCurrentStart
      BY <2>5
    <3>2. EventTime(t) = Min({t, c})
      BY DEF EventTime
    <3>. HIDE DEF c
    <3>3. EventTime(t) = IF t <= c THEN t ELSE c
      BY <2>6, <3>1, <3>2, OfTwo
    <3>. QED  BY <2>5, <2>6, <3>1, <3>3
  <2>9. /\ Drawn(i, d, s, draws[i][3]).no = i
        /\ event[i] = [no |-> event[i].no, at |-> event[i].at, refund |-> event[i].refund]
    BY <2>3 DEF Drawn
  <2>. QED  BY <2>3, <2>7, <2>8, <2>9
<1>7. IsFiniteSet(past')
  <2>1. event \in Surjection(1..n, past')
    BY <1>5 DEF Surjection
  <2>2. IsFiniteSet(1..n)
    BY <1>4, FS_Interval
  <2>. QED  BY <2>1, <2>2, FS_Surjection
<1>. HIDE DEF event
<1>8. DrawnCurrentStart' = DrawnCurrentStart
  BY <1>1 DEF DrawnCurrentStart
<1>9. PastOK'
  <2>1. \A e \in past' : \E i \in 1..n : e = event[i]
    BY <1>5
  <2>2. ASSUME NEW e \in past'
        PROVE  /\ e.at \in Int /\ e.at < DrawnCurrentStart
               /\ e = [no |-> e.no, at |-> e.at, refund |-> e.refund]
    BY <1>6, <2>1, ZenonT(60)
  <2>3. ASSUME NEW e \in past', NEW x \in past', e.no = x.no PROVE e = x
    <3>1. PICK i \in 1..n : e = event[i]
      BY <2>1
    <3>2. PICK j \in 1..n : x = event[j]
      BY <2>1
    <3>3. i = j
      BY <1>6, <2>3, <3>1, <3>2
    <3>. QED  BY <3>1, <3>2, <3>3
  <2>. QED  BY <1>7, <1>8, <2>2, <2>3 DEF PastOK
<1>10. Valid(config)' /\ holdAt' \in Nat /\ config' \in WindowConfigs /\ config' # Undrawn
       /\ estimate' = Undrawn
  BY <1>1 DEF WindowsInv, Valid
<1>. QED  BY <1>9, <1>10 DEF WindowsInv, WindowConfigs

(* Nothing of a record is drawn twice.                                     *)
LEMMA WindowsSteps == WindowsInv /\ [WindowsNext]_windowVars => WindowsInv'
<1>1. ASSUME WindowsInv, UNCHANGED <<config, holdAt, past>>,
             \/ estimate' = estimate
             \/ past # Undrawn /\ estimate' \in {Raised, Estimated(past)}
      PROVE  WindowsInv'
  <2>1. Estimated(past)' = Estimated(past) /\ DrawnCurrentStart' = DrawnCurrentStart
    BY <1>1 DEF Estimated, DayCount, Bucket, BaselineEvents, RefundKnown, BaselineEnd,
                DrawnBaselineStart, DrawnCurrentStart
  <2>2. past # Undrawn => PastOK'
    BY <1>1, <2>1 DEF WindowsInv, PastOK
  <2>3. config # Undrawn => Valid(config)' /\ config' \in WindowConfigs
    BY <1>1 DEF WindowsInv, Valid
  <2>. QED  BY <1>1, <2>1, <2>2, <2>3 DEF WindowsInv, WindowConfigs
<1>2. WindowsInv /\ EstimateBaseline => WindowsInv'
  BY <1>1 DEF EstimateBaseline
<1>3. WindowsInv /\ SimulateCurrent => WindowsInv'
  BY <1>1 DEF SimulateCurrent
<1>4. WindowsInv /\ UNCHANGED windowVars => WindowsInv'
  BY <1>1 DEF windowVars
<1>. QED  BY <1>2, <1>3, <1>4, ConfigIsDrawn, HistoryIsSimulated DEF WindowsNext

(* The days of the baseline are those of the configuration.                *)
LEMMA BaselineDays ==
  ASSUME WindowsInv, config # Undrawn
  PROVE  DayCount = config.baseline
<1> DEFINE b == config.baseline
<1>1. b \in Nat /\ b >= 1 /\ DayTicks \in Nat /\ DayTicks > 0 /\ BaselineEnd \in Int /\ b * DayTicks \in Nat
  BY ConfigNumbers
<1>2. BaselineEnd - DrawnBaselineStart = b * DayTicks
  BY <1>1 DEF DrawnBaselineStart
<1>. HIDE DEF b
<1>3. (b * DayTicks) \div DayTicks = b
  BY <1>1
<1>4. DayCount = Max({1, b})
  BY <1>2, <1>3 DEF DayCount
<1>5. Max({1, b}) = IF 1 >= b THEN 1 ELSE b
  BY <1>1 DEF Max
<1>6. DayCount = b
  BY <1>1, <1>4, <1>5
<1>. QED  BY <1>6 DEF b

(* One day has a number.                                                   *)
LEMMA OneDay ==
  ASSUME NEW x \in Nat, NEW n \in Nat, n > 0
  PROVE  \E d \in Nat : \A c \in Nat : (c * n <= x /\ x < c * n + n) <=> c = d
<1> DEFINE d == x \div n
<1>1. d \in Nat /\ n * d <= x /\ x < n * d + n
  OBVIOUS
<1>. HIDE DEF d
<1>2. d * n <= x /\ x < d * n + n
  BY <1>1
<1>3. ASSUME NEW c \in Nat, c * n <= x, x < c * n + n PROVE c = d
  <2>1. c * n \in Nat /\ d * n \in Nat
    BY <1>1
  <2>2. ASSUME c < d PROVE FALSE
    <3>1. PICK k \in Nat : d = c + 1 + k
      BY <1>1, <2>2
    <3>2. d * n = c * n + n + k * n /\ k * n \in Nat
      BY <3>1
    <3>. QED  BY <1>2, <1>3, <2>1, <3>2
  <2>3. ASSUME d < c PROVE FALSE
    <3>1. PICK k \in Nat : c = d + 1 + k
      BY <1>1, <2>3
    <3>2. c * n = d * n + n + k * n /\ k * n \in Nat
      BY <1>1, <3>1
    <3>. QED  BY <1>2, <1>3, <2>1, <3>2
  <2>. QED  BY <1>1, <2>2, <2>3
<1>. QED  BY <1>1, <1>2, <1>3

(* Each event of the baseline is counted on one day.                       *)
LEMMA EventsAreShared == WindowsInv => BaselineCountsEachEventOnce
<1>. SUFFICES ASSUME WindowsInv, estimate \notin {Undrawn, Raised}
              PROVE  BaselineCountsEachEventOnce
  BY DEF BaselineCountsEachEventOnce
<1> DEFINE start(d) == DrawnBaselineStart + d * DayTicks
           bucket(d) == Bucket(BaselineEvents(past), start(d))
<1>1. config # Undrawn /\ past # Undrawn /\ PastOK /\ estimate = Estimated(past)
  BY DEF WindowsInv
<1>2. DayCount = config.baseline
  BY <1>1, BaselineDays
<1> DEFINE b == config.baseline
           T == DayTicks
           s0 == DrawnBaselineStart
<1>3. /\ b \in Nat /\ T \in Nat /\ T > 0 /\ s0 \in Int /\ BaselineEnd \in Int
      /\ BaselineEnd = s0 + b * T /\ b * T \in Nat
  BY <1>1, ConfigNumbers DEF DrawnBaselineStart
<1>4. /\ DOMAIN estimate = 0..(b - 1)
      /\ \A d \in 0..(b - 1) : estimate[d].volume = Cardinality(bucket(d))
  BY <1>1, <1>2 DEF Estimated
<1>. HIDE DEF b, T, s0
<1>5. ASSUME NEW e \in BaselineEvents(past)
      PROVE  \E d \in 0..(b - 1) : \A x \in 0..(b - 1) : e \in bucket(x) <=> x = d
  <2>1. e.at \in Int /\ s0 <= e.at /\ e.at < BaselineEnd
    BY <1>1 DEF BaselineEvents, PastOK, s0
  <2> DEFINE k == e.at - s0
  <2>2. k \in Nat /\ k < b * T
    BY <1>3, <2>1
  <2>3. PICK d \in Nat : \A c \in Nat : (c * T <= k /\ k < c * T + T) <=> c = d
    <3>. HIDE DEF k
    <3>. QED  BY <1>3, <2>2, OneDay
  <2>4. \A x \in Nat : x * T \in Nat
    BY <1>3
  <2>5. ASSUME NEW x \in Nat
        PROVE  e \in bucket(x) <=> (x * T <= k /\ k < x * T + T)
    <3>1. start(x) = s0 + x * T /\ start(x) \in Int
      BY <1>3, <2>4 DEF s0, T
    <3>. HIDE DEF start
    <3>2. start(x) + T \in Int /\ Min({start(x) + T, BaselineEnd})
            = IF start(x) + T <= BaselineEnd THEN start(x) + T ELSE BaselineEnd
      BY <1>3, <3>1, OfTwo
    <3>3. e \in bucket(x) <=> (start(x) <= e.at /\ e.at < Min({start(x) + T, BaselineEnd}))
      BY DEF Bucket, T
    <3>4. x * T \in Nat
      BY <2>4
    <3>. HIDE DEF bucket
    <3>5. (start(x) <= e.at) <=> (x * T <= k)
      BY <1>3, <2>1, <3>1, <3>4
    <3>6. (e.at < Min({start(x) + T, BaselineEnd})) <=> (k < x * T + T)
      BY <1>3, <2>1, <3>1, <3>2, <3>4
    <3>. QED  BY <3>3, <3>5, <3>6
  <2>. HIDE DEF bucket, start, k
  <2>6. d < b
    <3>1. d * T <= k /\ d * T \in Nat
      BY <2>3, <2>4
    <3>2. ASSUME d >= b PROVE FALSE
      <4>1. PICK j \in Nat : d = b + j
        BY <1>3, <3>2
      <4>2. d * T = b * T + j * T /\ j * T \in Nat
        BY <1>3, <4>1
      <4>. QED  BY <1>3, <2>2, <3>1, <4>2
    <3>. QED  BY <1>3, <3>2
  <2>7. d \in 0..(b - 1) /\ \A x \in 0..(b - 1) : x \in Nat
    BY <1>3, <2>6
  <2>8. \A x \in 0..(b - 1) : e \in bucket(x) <=> x = d
    BY <2>3, <2>5, <2>7
  <2>. QED  BY <2>7, <2>8
<1>6. /\ \A d \in DOMAIN estimate : estimate[d].volume = Cardinality(bucket(d))
      /\ \A e \in BaselineEvents(past) :
           \E d \in DOMAIN estimate : \A x \in DOMAIN estimate : e \in bucket(x) <=> x = d
  BY <1>4, <1>5
<1>. QED  BY <1>6 DEF BaselineCountsEachEventOnce

(* What a history says of the refunds that were made after the baseline.   *)
Forgotten(e) == [e EXCEPT !.refund = IF RefundKnown(e) THEN @ ELSE Unrefunded]

(* Forgetting them changes no day.                                         *)
LEMMA DayForgets ==
  ASSUME PastOK, NEW first,
         NEW forgotten, forgotten = {Forgotten(e) : e \in past}
  PROVE  LET bucket == Bucket(BaselineEvents(past), first)
             other  == Bucket(BaselineEvents(forgotten), first)
         IN  /\ Cardinality(other) = Cardinality(bucket)
             /\ {e \in other : RefundKnown(e)} = {e \in bucket : RefundKnown(e)}
<1> DEFINE bucket == Bucket(BaselineEvents(past), first)
           other  == Bucket(BaselineEvents(forgotten), first)
           move == [e \in bucket |-> Forgotten(e)]
<1>1. ASSUME NEW e \in past
      PROVE  /\ Forgotten(e).no = e.no /\ Forgotten(e).at = e.at
             /\ RefundKnown(e) => Forgotten(e) = e
             /\ ~RefundKnown(e) => ~RefundKnown(Forgotten(e))
  <2>1. e = [no |-> e.no, at |-> e.at, refund |-> e.refund]
    BY DEF PastOK
  <2>2. Forgotten(e) = [no |-> e.no, at |-> e.at,
                        refund |-> IF RefundKnown(e) THEN e.refund ELSE Unrefunded]
    BY <2>1 DEF Forgotten
  <2>3. ~RefundKnown(e) => Forgotten(e).refund = Unrefunded
    BY <2>2
  <2>. QED  BY <2>1, <2>2, <2>3 DEF RefundKnown
<1>2. bucket \subseteq past
  BY DEF Bucket, BaselineEvents
<1>3. \A e \in past : Forgotten(e) \in other <=> e \in bucket
  BY <1>1 DEF Bucket, BaselineEvents
<1>4. \A x \in other : \E e \in past : x = Forgotten(e)
  BY DEF Bucket, BaselineEvents
<1>. HIDE DEF bucket, other
<1>5. \A e, x \in bucket : move[e] = move[x] => e = x
  BY <1>1, <1>2 DEF PastOK
<1>6. move \in [bucket -> other] /\ \A x \in other : \E e \in bucket : move[e] = x
  BY <1>2, <1>3, <1>4
<1>7. move \in Bijection(bucket, other)
  BY <1>5, <1>6 DEF Bijection, Injection, Surjection, IsInjective
<1>8. IsFiniteSet(bucket)
  BY <1>2, FS_Subset DEF PastOK
<1>9. Cardinality(other) = Cardinality(bucket)
  BY <1>7, <1>8, FS_Bijection DEF ExistsBijection
<1>10. {e \in other : RefundKnown(e)} = {e \in bucket : RefundKnown(e)}
  <2>1. ASSUME NEW x \in other, RefundKnown(x) PROVE x \in bucket
    BY <1>1, <1>3, <1>4, <2>1
  <2>2. ASSUME NEW x \in bucket, RefundKnown(x) PROVE x \in other
    BY <1>1, <1>2, <1>3, <2>2
  <2>. QED  BY <2>1, <2>2
<1>. QED  BY <1>9, <1>10 DEF bucket, other

(* Nor the baseline.                                                       *)
LEMMA BaselineForgets == WindowsInv => BaselineForgetsTheFuture
<1>. SUFFICES ASSUME WindowsInv, estimate \notin {Undrawn, Raised}
              PROVE  BaselineForgetsTheFuture
  BY DEF BaselineForgetsTheFuture
<1>1. PastOK /\ estimate = Estimated(past)
  BY DEF WindowsInv
<1> DEFINE forgotten == {Forgotten(e) : e \in past}
<1>2. ASSUME NEW d \in 0..(DayCount - 1)
      PROVE  LET bucket == Bucket(BaselineEvents(past), DrawnBaselineStart + d * DayTicks)
                 other  == Bucket(BaselineEvents(forgotten), DrawnBaselineStart + d * DayTicks)
             IN  /\ Cardinality(other) = Cardinality(bucket)
                 /\ {e \in other : RefundKnown(e)} = {e \in bucket : RefundKnown(e)}
  BY <1>1, DayForgets
<1>3. forgotten = {[e EXCEPT !.refund = IF RefundKnown(e) THEN @ ELSE Unrefunded] : e \in past}
  BY DEF Forgotten
<1>. HIDE DEF forgotten
<1>4. Estimated(forgotten) = Estimated(past)
  BY <1>2 DEF Estimated
<1>. QED  BY <1>1, <1>3, <1>4 DEF BaselineForgetsTheFuture

(* The windows, for any lengths of day, history and baseline.              *)
LEMMA WindowsRun ==
  WindowsSpec => [](/\ BaselineIsSimulated /\ HistoryEndsBeforeTheWindow
                    /\ BaselineCountsEachEventOnce /\ BaselineForgetsTheFuture)
<1>1. WindowsInit => WindowsInv
  BY DEF WindowsInit, WindowsInv
<1>2. WindowsInv => BaselineIsSimulated
  <2>. SUFFICES ASSUME WindowsInv, config # Undrawn, config.current <= 2 * DayTicks
                PROVE  HistoryStart <= DrawnBaselineStart
    BY DEF BaselineIsSimulated
  <2> DEFINE h == config.history
             b == config.baseline
             T == DayTicks
             c == config.current
  <2>1. h \in Nat /\ b \in Nat /\ h >= b + 2 /\ T \in Nat /\ c \in Nat /\ c <= 2 * T /\ holdAt \in Nat
    BY ConfigNumbers
  <2>. HIDE DEF h, b, T, c
  <2>2. PICK k \in Nat : h = b + 2 + k
    BY <2>1
  <2>3. h * T = b * T + 2 * T + k * T /\ k * T \in Nat /\ b * T \in Nat
    BY <2>1, <2>2
  <2>4. holdAt - h * T <= (holdAt - c) - b * T
    BY <2>1, <2>3
  <2>. QED  BY <2>4 DEF HistoryStart, DrawnBaselineStart, BaselineEnd, DrawnCurrentStart, h, b, T, c
<1>3. WindowsInv => HistoryEndsBeforeTheWindow
  BY DEF WindowsInv, PastOK, HistoryEndsBeforeTheWindow
<1>. QED  BY <1>1, <1>2, <1>3, WindowsSteps, EventsAreShared, BaselineForgets, PTL DEF WindowsSpec
-----------------------------------------------------------------------------
(* Of finitely many numbers there is a least and a greatest.               *)
LEMMA Extremes ==
  ASSUME NEW S, IsFiniteSet(S), S # {}, S \subseteq Int
  PROVE  /\ Min(S) \in S /\ \A y \in S : Min(S) <= y
         /\ Max(S) \in S /\ \A y \in S : y <= Max(S)
<1> DEFINE below == [x \in S |-> {y \in S : y < x}]
           n == Cardinality(S)
<1>1. /\ n \in Nat
      /\ \A x \in S : Cardinality(below[x]) \in 0..(n - 1)
      /\ \A x, y \in S : Cardinality(below[x]) < Cardinality(below[y]) => x \in below[y]
      /\ \A k \in 0..(n - 1) : \E x \in S : Cardinality(below[x]) = k
  <2>1. below \in [S -> SUBSET S]
    OBVIOUS
  <2>2. \A x, y \in S : x \in below[y] <=> x < y
    OBVIOUS
  <2>3. \A x \in S : x \notin below[x]
    BY <2>2
  <2>4. \A x, y, z \in S : x \in below[y] /\ y \in below[z] => x \in below[z]
    BY <2>2
  <2>5. \A x, y \in S : x = y \/ x \in below[y] \/ y \in below[x]
    BY <2>2
  <2>. HIDE DEF below
  <2>. QED  BY <2>1, <2>3, <2>4, <2>5, Ranks
<1>2. n >= 1
  BY <1>1, FS_EmptySet
<1>3. \A x, y \in S : Cardinality(below[x]) < Cardinality(below[y]) => x < y
  BY <1>1
<1>4. \A x \in S : Cardinality(below[x]) \in 0..(n - 1)
  BY <1>1
<1>5. PICK a \in S, b \in S : Cardinality(below[a]) = 0 /\ Cardinality(below[b]) = n - 1
  <2>1. 0 \in 0..(n - 1) /\ n - 1 \in 0..(n - 1)
    BY <1>1, <1>2
  <2>. HIDE DEF below, n
  <2>. QED  BY <1>1, <2>1
<1>6. \A x, y \in S : x < y => x \in below[y]
  OBVIOUS
<1>7. ASSUME NEW y \in S PROVE a <= y /\ y <= b
  <2>1. ~(y < a)
    <3>1. IsFiniteSet(below[a])
      <4>1. below[a] \in SUBSET S
        OBVIOUS
      <4>. HIDE DEF below
      <4>. QED  BY <4>1, FS_Subset
    <3>2. below[a] = {}
      BY <1>5, <3>1, FS_EmptySet
    <3>. QED  BY <3>2
  <2>2. ~(b < y)
    <3>1. SUFFICES ASSUME b < y PROVE FALSE
      OBVIOUS
    <3>0. below[y] \in SUBSET S /\ below[b] \subseteq below[y] /\ b \in below[y] /\ b \notin below[b]
      <4>1. \A w, z \in S : w \in below[z] <=> w < z
        OBVIOUS
      <4>2. below[y] \in SUBSET S /\ below[b] \in SUBSET S
        OBVIOUS
      <4>3. \A w \in S : w < b => w < y
        BY <3>1
      <4>. HIDE DEF below
      <4>4. b \in below[y] /\ b \notin below[b]
        <5>1. ~(b < b)
          OBVIOUS
        <5>2. b \in S /\ y \in S
          OBVIOUS
        <5>. QED  BY <3>1, <4>1, <5>1, <5>2, Zenon
      <4>5. \A w \in below[b] : w \in below[y]
        BY <4>1, <4>2, <4>3
      <4>. QED  BY <4>2, <4>4, <4>5
    <3>2. below[b] \subseteq below[y] /\ b \in below[y] /\ b \notin below[b] /\ IsFiniteSet(below[y])
      <4>. HIDE DEF below
      <4>. QED  BY <3>0, FS_Subset
    <3>3. Cardinality(below[b]) <= Cardinality(below[y])
          /\ (Cardinality(below[y]) = Cardinality(below[b]) => below[y] = below[b])
      <4>. HIDE DEF below
      <4>. QED  BY <3>2, FS_Subset
    <3>4. Cardinality(below[y]) = n - 1
      BY <1>1, <1>4, <1>5, <3>3
    <3>. QED  BY <1>5, <3>2, <3>3, <3>4
  <2>. QED  BY <2>1, <2>2
<1>8. /\ \E x \in S : \A y \in S : x <= y
      /\ \E x \in S : \A y \in S : x >= y
  BY <1>7
<1>. QED  BY <1>8 DEF Min, Max

(* Scores that differ have an order: there is a k-th smallest,             *)
LEMMA InOrder ==
  ASSUME NEW S, IsFiniteSet(S), NEW v \in [S -> Int], \A x, y \in S : v[x] = v[y] => x = y,
         NEW k \in 1..Cardinality(S)
  PROVE  \E x \in S, less, upto \in SUBSET S :
           /\ \A y \in S : (y \in less <=> v[y] < v[x]) /\ (y \in upto <=> v[y] <= v[x])
           /\ Cardinality(less) = k - 1 /\ Cardinality(upto) = k
<1> DEFINE below == [x \in S |-> {y \in S : v[y] < v[x]}]
           n == Cardinality(S)
<1>1. \A i \in 0..(n - 1) : \E x \in S : Cardinality(below[x]) = i
  <2>1. below \in [S -> SUBSET S]
    OBVIOUS
  <2>2. \A x, y \in S : x \in below[y] <=> v[x] < v[y]
    OBVIOUS
  <2>3. \A x \in S : x \notin below[x]
    BY <2>2
  <2>4. \A x, y, z \in S : x \in below[y] /\ y \in below[z] => x \in below[z]
    BY <2>2
  <2>5. \A x, y \in S : x = y \/ x \in below[y] \/ y \in below[x]
    BY <2>2
  <2>. HIDE DEF below
  <2>. QED  BY <2>1, <2>3, <2>4, <2>5, Ranks
<1>2. n \in Nat
  BY FS_CardinalityType
<1>3. PICK x \in S : Cardinality(below[x]) = k - 1
  <2>1. k - 1 \in 0..(n - 1)
    BY <1>2
  <2>. HIDE DEF below, n
  <2>. QED  BY <1>1, <2>1
<1>4. {y \in S : v[y] <= v[x]} = below[x] \cup {x} /\ x \notin below[x]
  OBVIOUS
<1>5. IsFiniteSet(below[x])
  <2>1. below[x] \in SUBSET S
    OBVIOUS
  <2>. HIDE DEF below
  <2>. QED  BY <2>1, FS_Subset
<1>6. Cardinality(below[x] \cup {x}) = Cardinality(below[x]) + 1
  <2>. HIDE DEF below
  <2>. QED  BY <1>4, <1>5, FS_AddElement
<1>7. k \in Int
  BY <1>2
<1>8. Cardinality(below[x] \cup {x}) = k
  <2>. HIDE DEF below
  <2>. QED  BY <1>3, <1>6, <1>7
<1>9. /\ below[x] \in SUBSET S /\ below[x] \cup {x} \in SUBSET S
      /\ \A y \in S : (y \in below[x] <=> v[y] < v[x]) /\ (y \in below[x] \cup {x} <=> v[y] <= v[x])
  OBVIOUS
<1>. HIDE DEF below
<1>. QED  BY <1>3, <1>8, <1>9

(* and of n elements at most n - k are beyond k of the others.             *)
LEMMA BeyondSoMany ==
  ASSUME NEW S, IsFiniteSet(S), NEW v \in [S -> Int], \A x, y \in S : v[x] = v[y] => x = y,
         NEW k \in 0..Cardinality(S), NEW W \in SUBSET S,
         \A x \in W : \E less \in SUBSET S : k <= Cardinality(less) /\ \A y \in less : v[y] < v[x]
  PROVE  Cardinality(W) <= Cardinality(S) - k /\ Cardinality(W) \in Nat
<1> DEFINE below == [x \in S |-> {y \in S : v[y] < v[x]}]
           n == Cardinality(S)
           rank == [x \in W |-> Cardinality(below[x])]
<1>1. n \in Nat
  BY FS_CardinalityType
<1>2. \A x \in S : Cardinality(below[x]) \in 0..(n - 1)
      /\ \A y \in S : Cardinality(below[x]) < Cardinality(below[y]) => x \in below[y]
  <2>1. below \in [S -> SUBSET S]
    OBVIOUS
  <2>2. \A x, y \in S : x \in below[y] <=> v[x] < v[y]
    OBVIOUS
  <2>3. \A x \in S : x \notin below[x]
    BY <2>2
  <2>4. \A x, y, z \in S : x \in below[y] /\ y \in below[z] => x \in below[z]
    BY <2>2
  <2>5. \A x, y \in S : x = y \/ x \in below[y] \/ y \in below[x]
    BY <2>2
  <2>. HIDE DEF below
  <2>. QED  BY <2>1, <2>3, <2>4, <2>5, Ranks
<1>3. ASSUME NEW x \in S, NEW y \in S, v[x] < v[y]
      PROVE  Cardinality(below[x]) # Cardinality(below[y])
  <2>1. below[x] \subseteq below[y] /\ x \in below[y] /\ x \notin below[x] /\ IsFiniteSet(below[y])
    BY <1>3, FS_Subset
  <2>. HIDE DEF below
  <2>. QED  BY <2>1, FS_Subset
<1>4. rank \in Injection(W, k..(n - 1))
  <2>1. ASSUME NEW x \in W PROVE rank[x] \in k..(n - 1)
    <3>1. PICK less \in SUBSET S : k <= Cardinality(less) /\ \A y \in less : v[y] < v[x]
      OBVIOUS
    <3>2. less \subseteq below[x] /\ below[x] \in SUBSET S
      BY <3>1
    <3>3. Cardinality(less) <= Cardinality(below[x]) /\ Cardinality(less) \in Nat
      <4>. HIDE DEF below
      <4>. QED  BY <3>2, FS_Subset, FS_CardinalityType
    <3>4. Cardinality(below[x]) \in 0..(n - 1) /\ k \in Int
      BY <1>1, <1>2, SMTT(20)
    <3>. HIDE DEF below, n
    <3>. QED  BY <1>1, <3>1, <3>3, <3>4
  <2>2. \A x, y \in W : rank[x] = rank[y] => x = y
    <3>1. \A x, y \in W : v[x] \in Int /\ v[y] \in Int
      OBVIOUS
    <3>2. ASSUME NEW x \in W, NEW y \in W, rank[x] = rank[y] PROVE ~(v[x] < v[y])
      <4>1. Cardinality(below[x]) = Cardinality(below[y]) /\ x \in S /\ y \in S
        BY <3>2
      <4>. QED  BY <1>3, <4>1
    <3>. HIDE DEF rank
    <3>. QED  BY <3>1, <3>2
  <2>. QED  BY <2>1, <2>2 DEF Injection, IsInjective
<1>5. IsFiniteSet(k..(n - 1)) /\ Cardinality(k..(n - 1)) = n - k
  <2>1. PICK m \in Int : m = n - 1
    BY <1>1
  <2>2. k \in Int /\ k <= m + 1
    BY <1>1, <2>1
  <2>3. IsFiniteSet(k..m) /\ Cardinality(k..m) = IF k > m THEN 0 ELSE m - k + 1
    BY <2>2, FS_Interval
  <2>. HIDE DEF n
  <2>. QED  BY <1>1, <2>1, <2>2, <2>3
<1>6. Cardinality(W) <= Cardinality(k..(n - 1)) /\ IsFiniteSet(W)
  <2>. HIDE DEF rank
  <2>. QED  BY <1>4, <1>5, FS_Injection
<1>. QED  BY <1>5, <1>6, FS_CardinalityType
-----------------------------------------------------------------------------
(* The rules of the research code, each on one input.                      *)
RulesInv ==
  exam # Blank =>
    \/ exam \in [kind : {"benchmark"}, sample : Sample, threshold : RiskLevels, novel : BOOLEAN]
    \/ /\ exam \in [kind : {"guard"}, raw : [1..SampleSize -> RiskLevels],
                    route : {"EVIDENCE_NEEDED", "ESCALATE"}]
       /\ SampleSize > MinGuardRows
    \/ exam \in [kind : {"sets"}, rows : [1..2 -> [set : SUBSET (0..2), label : 0..2]]]
    \/ /\ exam \in [kind : {"coverage"}, rows : 1..Trials, covered : Nat, routing : BOOLEAN]
       /\ exam.covered <= exam.rows

(* The inputs are what is examined.                                        *)
LEMMA RulesSteps == RulesInv /\ [RulesNext]_exam => RulesInv'
<1>1. ExamineBenchmark => RulesInv'
  BY DEF ExamineBenchmark, RulesInv
<1>2. ExamineGuard => RulesInv'
  BY DEF ExamineGuard, RulesInv
<1>3. ExamineSets => RulesInv'
  BY DEF ExamineSets, RulesInv
<1>4. ExamineCoverage => RulesInv'
  BY DEF ExamineCoverage, RulesInv
<1>5. RulesInv /\ UNCHANGED exam => RulesInv'
  BY DEF RulesInv, Sample, RiskLevels
<1>. QED  BY <1>1, <1>2, <1>3, <1>4, <1>5 DEF RulesNext

(* Nothing is examined at first.                                           *)
LEMMA RulesStart == RulesInit => RulesInv
BY DEF RulesInit, RulesInv

(* More of anything costs no less.                                         *)
LEMMA TimesKeepsOrder ==
  ASSUME NEW a \in Nat, NEW x \in Int, NEW y \in Int, x <= y
  PROVE  a * x <= a * y
<1>1. PICK d \in Nat : y = x + d
  <2>1. y - x \in Nat /\ y = x + (y - x)
    OBVIOUS
  <2>. QED  BY <2>1
<1>2. a * (x + d) = a * x + a * d /\ a * d \in Nat /\ a * x \in Int
  OBVIOUS
<1>3. a * y = a * x + a * d
  BY <1>1, <1>2
<1>. QED  BY <1>2, <1>3

(* The scores of a calibration set are numbers.                            *)
LEMMA ScoresAreNumbers ==
  ASSUME NEW s \in Sample, NEW i \in 1..SampleSize
  PROVE  /\ Conformity(s[i]) \in RiskLevels
         /\ ScoreFor(s[i].p, s[i].fraud) = Conformity(s[i])
<1>1. s[i] \in [p : 0..Top, fraud : BOOLEAN]
  BY DEF Sample, RiskLevels
<1>. QED  BY <1>1, RulesAssumption DEF Conformity, ScoreFor, RiskLevels

(* A label is left out by few of the other rows only.                      *)
LEMMA LeftOutLabel ==
  ASSUME NEW s \in Sample, NEW i \in 1..SampleSize,
         ~InSet(s, 1..SampleSize \ {i}, s[i].p, s[i].fraud)
  PROVE  AlphaIn * Cardinality({j \in 1..SampleSize : Conformity(s[j]) >= Conformity(s[i])}) <= SampleSize
<1> DEFINE n == SampleSize
           others == 1..n \ {i}
           above == {j \in others : Conformity(s[j]) >= Conformity(s[i])}
           all == {j \in 1..n : Conformity(s[j]) >= Conformity(s[i])}
<1>1. n \in Nat /\ IsFiniteSet(1..n) /\ Cardinality(1..n) = n
  <2>1. SampleSize \in Nat
    BY RulesAssumption
  <2>2. 1 \in Int /\ SampleSize \in Int
    BY <2>1
  <2>3. IsFiniteSet(1..n) /\ Cardinality(1..n) = IF 1 > n THEN 0 ELSE n - 1 + 1
    BY <2>2, FS_Interval
  <2>. QED  BY <2>1, <2>3
<1>2. IsFiniteSet(others) /\ Cardinality(others) = n - 1
  <2>1. i \in 1..n
    OBVIOUS
  <2>2. Cardinality(others) = IF i \in 1..n THEN Cardinality(1..n) - 1 ELSE Cardinality(1..n)
    BY <1>1, FS_RemoveElement, Zenon
  <2>3. IsFiniteSet(others)
    BY <1>1, FS_RemoveElement, Zenon
  <2>. QED  BY <1>1, <2>1, <2>2, <2>3
<1>3. Conformity(s[i]) \in Int
  BY ScoresAreNumbers, RulesAssumption DEF RiskLevels
<1>4. all = above \cup {i} /\ i \notin above /\ above \in SUBSET others
  BY <1>3
<1>5. IsFiniteSet(above) /\ Cardinality(above) \in Nat /\ Cardinality(all) = Cardinality(above) + 1
  <2>1. IsFiniteSet(above)
    <3>. HIDE DEF above
    <3>. QED  BY <1>2, <1>4, FS_Subset
  <2>2. Cardinality(above) \in Nat
    BY <2>1, FS_CardinalityType
  <2>3. Cardinality(above \cup {i}) = IF i \in above THEN Cardinality(above) ELSE Cardinality(above) + 1
    BY <2>1, FS_AddElement, Zenon
  <2>. HIDE DEF above, all
  <2>. QED  BY <1>4, <2>1, <2>2, <2>3
<1>6. InSet(s, others, s[i].p, s[i].fraud) <=> AlphaIn * (1 + Cardinality(above)) > Cardinality(others) + 1
  BY ScoresAreNumbers DEF InSet, TailRank, QuantileRank
<1>7. AlphaIn * (1 + Cardinality(above)) <= n
  <2>1. AlphaIn * (1 + Cardinality(above)) \in Nat
    BY <1>5, RulesAssumption
  <2>2. ~(AlphaIn * (1 + Cardinality(above)) > Cardinality(others) + 1)
    BY <1>6
  <2>. HIDE DEF others, above
  <2>. QED  BY <1>1, <1>2, <2>1, <2>2
<1>8. AlphaIn * Cardinality(all) <= n
  <2>. HIDE DEF above, all, n
  <2>1. Cardinality(all) = 1 + Cardinality(above)
    BY <1>5
  <2>. QED  BY <1>7, <2>1
<1>. QED  BY <1>8

(* Of all rows, each left out by the others, few are left out: the one     *)
(* that fits worst among them is no better than any of them.               *)
LEMMA FewLabelsAreLeftOut == RulesInv => TrueLabelsAreKept
<1>. SUFFICES ASSUME RulesInv, Examined("benchmark") PROVE TrueLabelsAreKept
  BY DEF TrueLabelsAreKept
<1>1. exam.sample \in Sample
  BY DEF RulesInv, Examined
<1> DEFINE s == exam.sample
           n == SampleSize
           out == {i \in 1..n : ~InSet(s, 1..n \ {i}, s[i].p, s[i].fraud)}
           score == [i \in 1..n |-> Conformity(s[i])]
<1>2. n \in Nat /\ IsFiniteSet(1..n) /\ AlphaIn \in Nat
  <2>1. SampleSize \in Nat /\ 1 \in Int /\ SampleSize \in Int
    BY RulesAssumption
  <2>. QED  BY <2>1, FS_Interval, RulesAssumption
<1>3. \A i \in 1..n : score[i] \in RiskLevels
  BY <1>1, ScoresAreNumbers
<1>4. ASSUME out # {} PROVE AlphaIn * Cardinality(out) <= n
  <2> DEFINE levels == {score[i] : i \in out}
  <2>1. levels # {} /\ levels \in SUBSET RiskLevels /\ levels \subseteq Int
    <3>1. \A j \in out : score[j] \in RiskLevels
      BY <1>3
    <3>2. RiskLevels \subseteq Int
      BY RulesAssumption DEF RiskLevels
    <3>. HIDE DEF out, score
    <3>. QED  BY <1>4, <3>1, <3>2
  <2>2. IsFiniteSet(levels)
    <3>1. IsFiniteSet(RiskLevels)
      BY FS_Interval, RulesAssumption DEF RiskLevels
    <3>. HIDE DEF levels
    <3>. QED  BY <2>1, <3>1, FS_Subset
  <2>3. Min(levels) \in levels /\ \A y \in levels : Min(levels) <= y
    <3>. HIDE DEF levels
    <3>. QED  BY <2>1, <2>2, Extremes
  <2>4. PICK i \in out : score[i] = Min(levels)
    BY <2>3
  <2>5. \A j \in out : score[i] <= score[j]
    BY <2>3, <2>4
  <2> DEFINE all == {j \in 1..n : Conformity(s[j]) >= Conformity(s[i])}
  <2>6. out \in SUBSET all
    <3>1. \A j \in 1..n : score[j] = Conformity(s[j]) /\ score[j] \in Int
      BY <1>3, RulesAssumption DEF RiskLevels
    <3>2. out \subseteq 1..n
      OBVIOUS
    <3>3. \A j \in out : score[j] >= score[i]
      BY <2>5, <3>1, <3>2
    <3>. HIDE DEF out, score
    <3>. QED  BY <3>1, <3>2, <3>3
  <2>7. AlphaIn * Cardinality(all) <= n
    BY <1>1, LeftOutLabel
  <2>8. all \in SUBSET (1..n)
    OBVIOUS
  <2>. HIDE DEF out, all
  <2>9. /\ IsFiniteSet(all) /\ Cardinality(all) \in Nat
        /\ Cardinality(out) <= Cardinality(all) /\ Cardinality(out) \in Nat
    BY <1>2, <2>6, <2>8, FS_Subset, FS_CardinalityType
  <2>10. AlphaIn * Cardinality(out) <= AlphaIn * Cardinality(all)
    BY <1>2, <2>9, TimesKeepsOrder
  <2>11. AlphaIn * Cardinality(out) \in Nat /\ AlphaIn * Cardinality(all) \in Nat
    BY <1>2, <2>9
  <2>. HIDE DEF n
  <2>. QED  BY <1>2, <2>7, <2>10, <2>11
<1>5. CASE out = {}
  <2>1. Cardinality(out) = 0
    BY <1>5, FS_EmptySet
  <2>2. AlphaIn * Cardinality(out) <= n
    <3>. HIDE DEF out
    <3>. QED  BY <1>2, <2>1
  <2>. QED  BY <2>2 DEF TrueLabelsAreKept
<1>6. CASE out # {}
  BY <1>4, <1>6 DEF TrueLabelsAreKept
<1>. QED  BY <1>5, <1>6

(* A lower score ranks no lower.                                           *)
LEMMA RanksFall ==
  ASSUME NEW s \in Sample, NEW a \in Int, NEW b \in Int, a <= b
  PROVE  /\ QuantileRank(s, 1..SampleSize, a) \in Nat /\ QuantileRank(s, 1..SampleSize, b) \in Nat
         /\ QuantileRank(s, 1..SampleSize, b) <= QuantileRank(s, 1..SampleSize, a)
<1> DEFINE ds == 1..SampleSize
           at(c) == {i \in ds : Conformity(s[i]) >= c}
<1>1. \A i \in ds : Conformity(s[i]) \in Int
  BY ScoresAreNumbers, RulesAssumption DEF RiskLevels
<1>2. at(b) \subseteq at(a) /\ at(a) \in SUBSET ds
  BY <1>1
<1>3. IsFiniteSet(ds)
  BY RulesAssumption, FS_Interval
<1>. HIDE DEF ds
<1>4. IsFiniteSet(at(a)) /\ IsFiniteSet(at(b)) /\ Cardinality(at(b)) <= Cardinality(at(a))
  <2>. HIDE DEF at
  <2>. QED  BY <1>2, <1>3, FS_Subset
<1>5. Cardinality(at(a)) \in Nat /\ Cardinality(at(b)) \in Nat
  BY <1>4, FS_CardinalityType
<1>6. QuantileRank(s, ds, a) = 1 + Cardinality(at(a)) /\ QuantileRank(s, ds, b) = 1 + Cardinality(at(b))
  BY DEF QuantileRank
<1>7. QuantileRank(s, ds, a) \in Nat /\ QuantileRank(s, ds, b) \in Nat
      /\ QuantileRank(s, ds, b) <= QuantileRank(s, ds, a)
  <2>. HIDE DEF at
  <2>. QED  BY <1>4, <1>5, <1>6
<1>. QED  BY <1>7 DEF ds

(* As the probability of fraud rises, FALSE may leave the set and TRUE may *)
(* come in.                                                                *)
LEMMA SetsShift ==
  ASSUME NEW s \in Sample, NEW p \in RiskLevels, NEW q \in RiskLevels, p < q
  PROVE  /\ InSet(s, 1..SampleSize, q, FALSE) => InSet(s, 1..SampleSize, p, FALSE)
         /\ InSet(s, 1..SampleSize, p, TRUE) => InSet(s, 1..SampleSize, q, TRUE)
<1> DEFINE ds == 1..SampleSize
           rank(c) == QuantileRank(s, ds, c)
           size == Cardinality(ds)
<1>1. p \in Int /\ q \in Int /\ Top - p \in Int /\ Top - q \in Int /\ p <= q /\ Top - q <= Top - p
  BY RulesAssumption DEF RiskLevels
<1>2. /\ rank(p) \in Nat /\ rank(q) \in Nat /\ rank(q) <= rank(p)
      /\ rank(Top - p) \in Nat /\ rank(Top - q) \in Nat /\ rank(Top - p) <= rank(Top - q)
  BY <1>1, RanksFall
<1>3. size \in Nat
  <2>1. IsFiniteSet(ds)
    BY RulesAssumption, FS_Interval
  <2>. QED  BY <2>1, FS_CardinalityType
<1>4. /\ InSet(s, ds, p, FALSE) <=> AlphaIn * rank(p) > size + 1
      /\ InSet(s, ds, q, FALSE) <=> AlphaIn * rank(q) > size + 1
      /\ InSet(s, ds, p, TRUE) <=> AlphaIn * rank(Top - p) > size + 1
      /\ InSet(s, ds, q, TRUE) <=> AlphaIn * rank(Top - q) > size + 1
  BY DEF InSet, TailRank, ScoreFor
<1>. HIDE DEF ds, rank, size
<1>5. AlphaIn \in Nat
  BY RulesAssumption
<1>6. AlphaIn * rank(q) <= AlphaIn * rank(p) /\ AlphaIn * rank(Top - p) <= AlphaIn * rank(Top - q)
  BY <1>2, <1>5, TimesKeepsOrder
<1>7. /\ AlphaIn * rank(q) \in Nat /\ AlphaIn * rank(p) \in Nat
      /\ AlphaIn * rank(Top - p) \in Nat /\ AlphaIn * rank(Top - q) \in Nat
  BY <1>2, <1>5
<1>8. /\ AlphaIn * rank(q) > size + 1 => AlphaIn * rank(p) > size + 1
      /\ AlphaIn * rank(Top - p) > size + 1 => AlphaIn * rank(Top - q) > size + 1
  BY <1>3, <1>6, <1>7
<1>. QED  BY <1>4, <1>8 DEF ds

(* Advice rises with the probability, below the one step that is said.     *)
LEMMA AdviceRises == RulesInv => AdviceRisesWithRisk
<1>. SUFFICES ASSUME RulesInv, Examined("benchmark"), NEW p \in RiskLevels, NEW q \in RiskLevels,
                     p < q, PredictionSet(exam.sample, 1..SampleSize, q) # {TRUE}
              PROVE  BenchmarkAdvice(exam.sample, exam.threshold, exam.novel, p)
                       <= BenchmarkAdvice(exam.sample, exam.threshold, exam.novel, q)
  BY DEF AdviceRisesWithRisk
<1> DEFINE s == exam.sample
           set(x) == PredictionSet(s, 1..SampleSize, x)
           advice(x) == BenchmarkAdvice(s, exam.threshold, exam.novel, x)
<1>1. s \in Sample /\ exam.threshold \in RiskLevels /\ exam.novel \in BOOLEAN
  BY DEF RulesInv, Examined
<1>2. DOMAIN s = 1..SampleSize
  BY <1>1 DEF Sample
<1>3. ASSUME NEW x \in RiskLevels
      PROVE  advice(x) = IF x >= exam.threshold THEN 2
                         ELSE IF Cardinality(set(x)) # 1 \/ exam.novel THEN 1 ELSE 0
  BY <1>2 DEF BenchmarkAdvice
<1>4. ASSUME set(q) = {FALSE} PROVE set(p) = {FALSE}
  <2>1. InSet(s, 1..SampleSize, q, FALSE) /\ ~InSet(s, 1..SampleSize, q, TRUE)
    BY <1>4 DEF PredictionSet
  <2>2. InSet(s, 1..SampleSize, p, FALSE) /\ ~InSet(s, 1..SampleSize, p, TRUE)
    BY <1>1, <2>1, SetsShift
  <2>. QED  BY <2>2 DEF PredictionSet
<1>5. Cardinality(set(q)) = 1 => set(q) = {FALSE}
  <2>1. set(q) \in SUBSET {FALSE, TRUE}
    BY DEF PredictionSet
  <2>2. IsFiniteSet(set(q))
    <3>1. IsFiniteSet({FALSE, TRUE})
      <4>1. IsFiniteSet({FALSE}) /\ {FALSE} \cup {TRUE} = {FALSE, TRUE}
        BY FS_Singleton
      <4>. QED  BY <4>1, FS_AddElement
    <3>. HIDE DEF set
    <3>. QED  BY <2>1, <3>1, FS_Subset
  <2>3. Cardinality(set(q)) = 1 => \E x : set(q) = {x}
    <3>. HIDE DEF set
    <3>. QED  BY <2>2, FS_Singleton
  <2>. HIDE DEF set
  <2>. QED  BY <2>1, <2>3 DEF set
<1>6. set(p) = {FALSE} => Cardinality(set(p)) = 1
  BY FS_Singleton
<1>7. p \in Int /\ q \in Int /\ exam.threshold \in Int
  BY <1>1, RulesAssumption DEF RiskLevels
<1>8. advice(p) <= advice(q)
  <2>1. /\ advice(p) = IF p >= exam.threshold THEN 2
                       ELSE IF Cardinality(set(p)) # 1 \/ exam.novel THEN 1 ELSE 0
        /\ advice(q) = IF q >= exam.threshold THEN 2
                       ELSE IF Cardinality(set(q)) # 1 \/ exam.novel THEN 1 ELSE 0
    BY <1>3
  <2>2. Cardinality(set(q)) = 1 => Cardinality(set(p)) = 1
    BY <1>4, <1>5, <1>6
  <2>. HIDE DEF advice, set
  <2>. QED  BY <1>1, <1>7, <2>1, <2>2
<1>. QED  BY <1>8

(* Only {RELEASE} is released, and it does not cover another label.        *)
LEMMA UncoveredReleases == RulesInv => FalseReleasesAreUncovered
<1>. SUFFICES ASSUME RulesInv, Examined("sets")
              PROVE  FalseReleases(exam.rows) \subseteq Uncovered(exam.rows) /\ RoutingHolds(exam.rows)
  BY DEF FalseReleasesAreUncovered
<1>1. \A i \in Routed(exam.rows, "RELEASE") : i \in DOMAIN exam.rows /\ exam.rows[i].set = {0}
  BY DEF Routed, SetDecision
<1>2. FalseReleases(exam.rows) \subseteq Uncovered(exam.rows)
  BY <1>1 DEF FalseReleases, Uncovered
<1>3. RoutingHolds(exam.rows)
  BY <1>1, FS_Singleton DEF RoutingHolds
<1>. QED  BY <1>2, <1>3

(* What the corrected gate passes and the first blocked is above the       *)
(* target: at the target the first one passes.                             *)
LEMMA CorrectedGate ==
  RulesInv /\ Examined("coverage") /\ GateV11(exam) /\ ~GateV1(exam)
    => exam.covered * TargetDen > exam.rows * TargetNum
<1>. SUFFICES ASSUME RulesInv, Examined("coverage"), GateV11(exam), ~GateV1(exam)
              PROVE  exam.covered * TargetDen > exam.rows * TargetNum
  OBVIOUS
<1> DEFINE a == exam.covered * TargetDen
           b == exam.rows * TargetNum
           c == exam.rows * TargetNum * (TargetDen - TargetNum)
<1>1. exam.covered \in Nat /\ exam.rows \in Nat
  BY DEF RulesInv, Examined
<1>2. a \in Nat /\ b \in Nat /\ TargetDen - TargetNum \in Nat
  BY <1>1, RulesAssumption
<1>3. c \in Nat
  BY <1>2
<1>4. ~(a < b) /\ exam.routing
  BY DEF GateV11, Shortfall
<1>5. ~(10000 * ((a - b) * (a - b)) <= 38415 * exam.rows * TargetNum * (TargetDen - TargetNum))
  BY <1>4 DEF GateV1, InWilson
<1>6. 38415 * exam.rows * TargetNum * (TargetDen - TargetNum) \in Nat
  BY <1>1, <1>2, RulesAssumption
<1>7. ASSUME a = b PROVE FALSE
  <2>1. a - b = 0
    BY <1>2, <1>7
  <2>2. 10000 * ((a - b) * (a - b)) = 0
    <3>. HIDE DEF a, b
    <3>. QED  BY <2>1
  <2>. QED  BY <1>5, <1>6, <2>2
<1>. HIDE DEF a, b
<1>8. a > b
  BY <1>2, <1>4, <1>7
<1>. QED  BY <1>8 DEF a, b

(* What a division by a positive number leaves.                            *)
LEMMA DivIs ==
  ASSUME NEW a \in Int, NEW d \in Nat \ {0}
  PROVE  a \div d \in Int /\ d * (a \div d) <= a /\ a < d * (a \div d) + d
OBVIOUS

(* A number with those bounds is the quotient.                             *)
LEMMA DivUnique ==
  ASSUME NEW a \in Int, NEW d \in Nat \ {0}, NEW z \in Int, d * z <= a, a < d * z + d
  PROVE  a \div d = z
<1>1. PICK q \in Int : q = a \div d /\ d * q <= a /\ a < d * q + d
  BY DivIs
<1>2. ~(q < z)
  <2>1. SUFFICES ASSUME q + 1 <= z PROVE FALSE
    BY <1>1
  <2>2. d * (q + 1) <= d * z
    BY <2>1, TimesKeepsOrder
  <2>3. d * (q + 1) = d * q + d /\ d * q \in Int /\ d * z \in Int
    OBVIOUS
  <2>. QED  BY <1>1, <2>2, <2>3
<1>3. ~(z < q)
  <2>1. SUFFICES ASSUME z + 1 <= q PROVE FALSE
    BY <1>1
  <2>2. d * (z + 1) <= d * q
    BY <1>1, <2>1, TimesKeepsOrder
  <2>3. d * (z + 1) = d * z + d /\ d * q \in Int /\ d * z \in Int
    BY <1>1
  <2>. QED  BY <1>1, <2>2, <2>3
<1>. QED  BY <1>1, <1>2, <1>3

(* All but a share, rounded up, is all but the share rounded down.         *)
LEMMA CeilingIs ==
  ASSUME NEW m \in Nat, NEW d \in Nat \ {0}, NEW a \in 0..d
  PROVE  \E q \in Nat : /\ (m * (d - a) + d - 1) \div d = m - q
                       /\ q <= m /\ d * q <= m * a /\ q = (m * a) \div d
<1>1. PICK w \in Nat : w = m * a
  OBVIOUS
<1>2. PICK q \in Int : q = w \div d /\ d * q <= w /\ w < d * q + d
  BY DivIs
<1>3. w <= m * d /\ m * d \in Nat /\ m * d = d * m
  BY <1>1, TimesKeepsOrder
<1>4. q >= 0
  <2>1. SUFFICES ASSUME q <= -1 PROVE FALSE
    BY <1>2
  <2>2. d * q <= d * (-1)
    BY <1>2, <2>1, TimesKeepsOrder
  <2>. QED  BY <1>2, <2>2
<1>5. q <= m
  <2>1. SUFFICES ASSUME m + 1 <= q PROVE FALSE
    BY <1>2
  <2>2. d * (m + 1) <= d * q
    BY <1>2, <2>1, TimesKeepsOrder
  <2>3. d * (m + 1) = d * m + d /\ d * q \in Int
    BY <1>2
  <2>. QED  BY <1>2, <1>3, <2>2, <2>3
<1>6. m * (d - a) = m * d - w
  BY <1>1
<1>7. PICK all \in Int : all = m * (d - a) + d - 1 /\ all = m * d - w + d - 1
  BY <1>3, <1>6
<1>8. d * (m - q) = d * m - d * q /\ d * q \in Int
  BY <1>2
<1>9. d * (m - q) <= all /\ all < d * (m - q) + d /\ m - q \in Int
  BY <1>2, <1>3, <1>7, <1>8
<1>10. all \div d = m - q
  BY <1>9, DivUnique
<1>11. q \in Nat
  BY <1>2, <1>4
<1>12. d * q <= m * a /\ q = (m * a) \div d
  BY <1>1, <1>2, Zenon
<1>13. (m * (d - a) + d - 1) \div d = m - q
  BY <1>7, <1>10, Zenon
<1>. QED  BY <1>5, <1>11, <1>12, <1>13

(* The rank of the guard's threshold among n - 1 others.                   *)
LEMMA GuardRankIs ==
  ASSUME NEW n \in Nat, n >= 2
  PROVE  /\ GuardRank(n - 1) \in 1..(n - 1)
         /\ n - GuardRank(n - 1) <= Max({1, n \div AlphaIn})
<1>1. PICK A \in Nat \ {0} : A = AlphaIn /\ 1 \in 0..A
  BY RulesAssumption
<1>2. PICK q \in Nat : (n * (A - 1) + A - 1) \div A = n - q /\ q <= n /\ q = (n * 1) \div A
  BY <1>1, CeilingIs
<1>3. n - 1 + 1 = n /\ n * 1 = n
  OBVIOUS
<1>4. GuardRank(n - 1) = Max({1, Min({n - 1, n - q})})
  BY <1>1, <1>2, <1>3, Zenon DEF GuardRank
<1>5. PICK m \in Int : m = Min({n - 1, n - q}) /\ m = IF n - 1 <= n - q THEN n - 1 ELSE n - q
  <2>1. n - 1 \in Int /\ n - q \in Int
    OBVIOUS
  <2>. QED  BY <2>1, OfTwo
<1>6. Max({1, m}) = IF 1 >= m THEN 1 ELSE m
  BY OfTwo
<1>7. GuardRank(n - 1) = IF 1 >= m THEN 1 ELSE m
  BY <1>4, <1>5, <1>6, Zenon
<1>8. Max({1, q}) = IF 1 >= q THEN 1 ELSE q
  BY OfTwo
<1>9. q = n \div AlphaIn
  BY <1>1, <1>2, <1>3, Zenon
<1>10. /\ (IF 1 >= m THEN 1 ELSE m) \in 1..(n - 1)
       /\ n - (IF 1 >= m THEN 1 ELSE m) <= (IF 1 >= q THEN 1 ELSE q)
  <2>0. m = IF n - 1 <= n - q THEN n - 1 ELSE n - q
    BY <1>5
  <2>1. m = IF q <= 1 THEN n - 1 ELSE n - q
    <3>1. n - 1 <= n - q <=> q <= 1
      OBVIOUS
    <3>. QED  BY <2>0, <3>1, Zenon
  <2>2. q <= n
    BY <1>2
  <2>. QED  BY <2>1, <2>2
<1>. QED  BY <1>7, <1>8, <1>9, <1>10, Zenon

(* The k-th smallest of scores that differ.                                *)
LEMMA OrderStatisticIs ==
  ASSUME NEW S, IsFiniteSet(S), NEW f, \A x \in S : f[x] \in Int,
         \A x, y \in S : f[x] = f[y] => x = y, NEW k \in 1..Cardinality(S)
  PROVE  /\ \E x \in S : f[x] = OrderStatistic(f, S, k)
         /\ \E upto \in SUBSET S : /\ k <= Cardinality(upto)
                                  /\ \A x \in upto : f[x] <= OrderStatistic(f, S, k)
<1>1. PICK v \in [S -> Int] : \A x \in S : v[x] = f[x]
  <2>1. [x \in S |-> f[x]] \in [S -> Int]
    OBVIOUS
  <2>. QED  BY <2>1
<1>0. \A x, y \in S : v[x] = v[y] => x = y
  BY <1>1
<1>2. PICK x \in S, less \in SUBSET S, upto \in SUBSET S :
           /\ \A y \in S : (y \in less <=> v[y] < v[x]) /\ (y \in upto <=> v[y] <= v[x])
           /\ Cardinality(less) = k - 1 /\ Cardinality(upto) = k
  BY <1>0, InOrder
<1>3. less = {y \in S : f[y] < f[x]} /\ upto = {y \in S : f[y] <= f[x]}
  BY <1>1, <1>2
<1>4. k \in Int
  <2>1. Cardinality(S) \in Nat
    BY FS_CardinalityType
  <2>. QED  BY <2>1
<1>5. Cardinality({y \in S : f[y] < f[x]}) = k - 1 /\ Cardinality({y \in S : f[y] <= f[x]}) = k
  BY <1>2, <1>3, Zenon
<1>6. \E w \in {f[y] : y \in S} :
         Cardinality({y \in S : f[y] <= w}) >= k /\ Cardinality({y \in S : f[y] < w}) < k
  <2>1. f[x] \in {f[y] : y \in S}
    OBVIOUS
  <2>2. Cardinality({y \in S : f[y] <= f[x]}) >= k /\ Cardinality({y \in S : f[y] < f[x]}) < k
    BY <1>4, <1>5
  <2>. QED  BY <2>1, <2>2, Zenon
<1>7. PICK w : w = OrderStatistic(f, S, k)
  OBVIOUS
<1>8. w \in {f[y] : y \in S} /\ Cardinality({y \in S : f[y] <= w}) >= k
  BY <1>6, <1>7, Zenon DEF OrderStatistic
<1>9. PICK most \in SUBSET S : most = {y \in S : f[y] <= w}
  OBVIOUS
<1>10. k <= Cardinality(most) /\ \A z \in most : f[z] <= w
  <2>1. Cardinality(most) \in Nat
    BY FS_Subset, FS_CardinalityType
  <2>2. Cardinality(most) >= k
    BY <1>8, <1>9, Zenon
  <2>. QED  BY <1>4, <1>9, <2>1, <2>2
<1>11. \E z \in S : f[z] = w
  BY <1>8
<1>. QED  BY <1>7, <1>10, <1>11, Zenon

(* The merchants a guard of the others signals are few: each has as many   *)
(* others below it as the guard's rank.                                    *)
LEMMA GuardedRate == RulesInv => GuardKeepsItsRate
<1>. SUFFICES ASSUME RulesInv, Examined("guard"), 
                     \A i, j \in 1..SampleSize : exam.raw[i] = exam.raw[j] => i = j
              PROVE  Cardinality({i \in 1..SampleSize :
                       Routes(exam.raw, 1..SampleSize \ {i}, exam.raw[i], "RELEASE", exam.route) # "RELEASE"})
                     <= Max({1, SampleSize \div AlphaIn})
  BY DEF GuardKeepsItsRate
<1> DEFINE n == SampleSize
           others(i) == 1..n \ {i}
           alarms == {i \in 1..n : Routes(exam.raw, others(i), exam.raw[i], "RELEASE", exam.route) # "RELEASE"}
<1>1. /\ exam.raw \in [1..n -> RiskLevels] /\ SampleSize > MinGuardRows
      /\ exam.route \in {"EVIDENCE_NEEDED", "ESCALATE"}
  BY DEF RulesInv, Examined
<1>2. PICK raw \in [1..n -> Int] : raw = exam.raw
  BY <1>1, RulesAssumption DEF RiskLevels
<1>3. n \in Nat /\ n >= 2
  BY <1>1, RulesAssumption
<1>4. IsFiniteSet(1..n) /\ Cardinality(1..n) = n
  <2>1. PICK m \in Int : m = n
    BY <1>3
  <2>2. 1 \in Int
    OBVIOUS
  <2>3. IsFiniteSet(1..m) /\ Cardinality(1..m) = IF 1 > m THEN 0 ELSE m - 1 + 1
    BY <2>2, FS_Interval
  <2>. QED  BY <1>3, <2>1, <2>3
<1>5. PICK k \in 1..(n - 1) : k = GuardRank(n - 1) /\ n - k <= Max({1, n \div AlphaIn})
  <2>. HIDE DEF n
  <2>. QED  BY <1>3, GuardRankIs
<1>6. ASSUME NEW i \in alarms
      PROVE  \E less \in SUBSET (1..n) : k <= Cardinality(less) /\ \A y \in less : raw[y] < raw[i]
  <2>0. PICK S : S = others(i)
    OBVIOUS
  <2>1. IsFiniteSet(S) /\ Cardinality(S) = n - 1
    <3>1. i \in 1..n
      OBVIOUS
    <3>. HIDE DEF n
    <3>2. Cardinality(1..n \ {i}) = IF i \in 1..n THEN Cardinality(1..n) - 1 ELSE Cardinality(1..n)
      BY <1>4, FS_RemoveElement, Zenon
    <3>3. IsFiniteSet(1..n \ {i})
      BY <1>4, FS_RemoveElement, Zenon
    <3>. QED  BY <1>4, <2>0, <3>1, <3>2, <3>3
  <2>2. PICK t : t = OrderStatistic(raw, S, k)
    OBVIOUS
  <2>3. /\ \E x \in S : raw[x] = t
        /\ \E upto \in SUBSET S : k <= Cardinality(upto) /\ \A x \in upto : raw[x] <= t
    <3>1. /\ \A x \in S : raw[x] \in Int
          /\ \A x, y \in S : raw[x] = raw[y] => x = y
      BY <1>2, <2>0
    <3>2. k \in 1..Cardinality(S)
      BY <2>1
    <3>3. IsFiniteSet(S)
      BY <2>1
    <3>4. /\ \E x \in S : raw[x] = OrderStatistic(raw, S, k)
          /\ \E upto \in SUBSET S : k <= Cardinality(upto) /\ \A x \in upto : raw[x] <= OrderStatistic(raw, S, k)
      <4>. HIDE DEF n, others, alarms
      <4>. QED  BY <3>1, <3>2, <3>3, OrderStatisticIs
    <3>. QED  BY <2>2, <3>4, Zenon
  <2>4. t <= raw[i]
    <3>1. RawThreshold(raw, S) = t
      BY <1>5, <2>1, <2>2, Zenon DEF RawThreshold
    <3>2. raw[i] >= RawThreshold(raw, S)
      BY <1>2, <2>0 DEF Routes
    <3>3. t \in Int /\ raw[i] \in Int
      BY <2>0, <2>3
    <3>. QED  BY <3>1, <3>2, <3>3
  <2>5. t \in Int /\ t < raw[i]
    <3>1. PICK x \in S : t = raw[x]
      BY <2>3
    <3>2. raw[x] # raw[i] /\ raw[x] \in Int /\ raw[i] \in Int
      BY <1>2, <2>0
    <3>. QED  BY <2>4, <3>1, <3>2
  <2>6. PICK upto \in SUBSET S : k <= Cardinality(upto) /\ \A x \in upto : raw[x] <= t
    BY <2>3
  <2>7. upto \in SUBSET (1..n) /\ \A x \in upto : raw[x] < raw[i]
    <3>1. \A x \in S : x \in 1..n /\ raw[x] \in Int /\ raw[i] \in Int
      BY <2>0
    <3>. QED  BY <2>5, <2>6, <3>1
  <2>. QED  BY <2>6, <2>7
<1>7. Cardinality(alarms) <= n - k /\ Cardinality(alarms) \in Nat
  <2>1. alarms \in SUBSET (1..n)
    OBVIOUS
  <2>2. \A x, y \in 1..n : raw[x] = raw[y] => x = y
    BY <1>2
  <2>3. k \in 0..Cardinality(1..n)
    BY <1>3, <1>4
  <2>4. PICK W \in SUBSET (1..n) : W = alarms
    BY <2>1
  <2>5. \A x \in W : \E less \in SUBSET (1..n) : k <= Cardinality(less) /\ \A y \in less : raw[y] < raw[x]
    BY <1>6, <2>4
  <2>. HIDE DEF n, alarms
  <2>6. Cardinality(W) <= Cardinality(1..n) - k /\ Cardinality(W) \in Nat
    BY <1>4, <2>2, <2>3, <2>5, BeyondSoMany
  <2>. QED  BY <1>4, <2>4, <2>6
<1>8. Max({1, n \div AlphaIn}) \in Int
  <2>. HIDE DEF n, alarms
  <2>1. PICK q \in Int : q = n \div AlphaIn
    <3>1. n \in Int /\ AlphaIn \in Nat \ {0}
      BY <1>3, RulesAssumption
    <3>2. n \div AlphaIn \in Int
      BY <3>1, DivIs, Zenon
    <3>. QED  BY <3>2, Zenon
  <2>2. 1 \in Int /\ (1 >= q \/ ~(1 >= q))
    OBVIOUS
  <2>3. Max({1, q}) = IF 1 >= q THEN 1 ELSE q
    BY <2>2, OfTwo, Zenon
  <2>4. Max({1, q}) \in Int
    BY <2>2, <2>3, Zenon
  <2>. QED  BY <2>1, <2>4, Zenon
<1>9. Cardinality(alarms) <= Max({1, n \div AlphaIn})
  <2>. HIDE DEF n, alarms
  <2>1. k \in Int
    BY <1>3
  <2>. QED  BY <1>3, <1>5, <1>7, <1>8, <2>1
<1>. QED  BY <1>9

(* For any number of rows and levels, with ties: a true label is left out  *)
(* at the chosen rate at most, advice does not fall as the probability     *)
(* rises, the guard signals the row it did not learn from at its rate, and *)
(* a false release is always a row its prediction set did not cover.       *)
THEOREM RulesAreKept ==
  RulesSpec => [](/\ TrueLabelsAreKept /\ AdviceRisesWithRisk
                  /\ GuardKeepsItsRate /\ FalseReleasesAreUncovered)
BY RulesStart, RulesSteps, FewLabelsAreLeftOut, AdviceRises, GuardedRate, UncoveredReleases,
   PTL DEF RulesSpec

(* At the target and above it, an exact test at 5 % does not reject: of a  *)
(* binomial distribution, half at least lies at or below any whole number  *)
(* that is its mean or more.                                               *)
MeansAreNotRejected ==
  \A n \in 1..Trials : \A k \in 0..n : ~Shortfall(k, n) => ~Significant(k, n)

(* Given that fact of arithmetic, the corrected gate blocks no coverage at *)
(* the target or above, and passes what the first gate blocked only above. *)
THEOREM GateForgivesExcess ==
  ASSUME MeansAreNotRejected
  PROVE  RulesSpec => []CorrectedGateOnlyForgivesExcess
<1>1. ASSUME RulesInv, Examined("coverage"), exam.routing, ~Shortfall(exam.covered, exam.rows)
      PROVE  GateV11(exam)
  <2>1. exam.rows \in 1..Trials /\ exam.covered \in 0..exam.rows
    BY <1>1, RulesAssumption DEF RulesInv, Examined
  <2>2. ~Significant(exam.covered, exam.rows)
    BY <1>1, <2>1, MeansAreNotRejected DEF MeansAreNotRejected
  <2>. QED  BY <1>1, <2>2 DEF GateV11
<1>2. RulesInv => CorrectedGateOnlyForgivesExcess
  BY <1>1, CorrectedGate DEF CorrectedGateOnlyForgivesExcess
<1>. QED  BY <1>2, RulesStart, RulesSteps, PTL DEF RulesSpec
-----------------------------------------------------------------------------
(* The searches run on rows that are scored.                               *)
SearchInv ==
  /\ policyRows # Unscored =>
       policyRows \in [1..PolicyRows -> [release : 0..Units, escalate : 0..Units, label : 0..2]]
  /\ costRows # Unscored =>
       /\ costRows \in [1..CostRows -> [score : 0..Units, fraud : BOOLEAN]]
       /\ \A i, j \in 1..CostRows : i < j => costRows[i].score <= costRows[j].score
  /\ confidence # Unscored => confidence \in 0..100

(* Rows are scored in order,                                               *)
LEMMA SearchSteps == SearchInv /\ [SearchNext]_searchVars => SearchInv'
<1>. SUFFICES ASSUME SearchInv, [SearchNext]_searchVars PROVE SearchInv'
  OBVIOUS
<1>1. CASE ExaminePolicy
  BY <1>1 DEF ExaminePolicy, SearchInv
<1>2. CASE ExamineCosts
  BY <1>2 DEF ExamineCosts, SearchInv
<1>3. CASE ExamineConfidence
  BY <1>3 DEF ExamineConfidence, SearchInv
<1>4. CASE UNCHANGED searchVars
  BY <1>4 DEF searchVars, SearchInv
<1>. QED  BY <1>1, <1>2, <1>3, <1>4 DEF SearchNext

(* and none are at first.                                                  *)
LEMMA SearchStart == SearchInit => SearchInv
BY DEF SearchInit, SearchInv

(* A confidence has one bin.                                               *)
LEMMA OneBin == SearchInv => EveryConfidenceIsBinned
<1>. SUFFICES ASSUME SearchInv, confidence # Unscored
              PROVE  /\ Cardinality({b \in BinEdges : InResearchBin(b, confidence)}) = 1
                     /\ confidence > 0 => Cardinality({b \in BinEdges : InSealedBin(b, confidence)}) = 1
  BY DEF EveryConfidenceIsBinned
<1>1. confidence \in 0..100
  BY DEF SearchInv
<1>2. \E b \in BinEdges : \A a \in BinEdges : InResearchBin(a, confidence) <=> a = b
  BY <1>1 DEF BinEdges, InResearchBin
<1>3. PICK b : {a \in BinEdges : InResearchBin(a, confidence)} = {b}
  BY <1>2
<1>4. confidence > 0 => \E c \in BinEdges : \A a \in BinEdges : InSealedBin(a, confidence) <=> a = c
  BY <1>1 DEF BinEdges, InSealedBin
<1>5. confidence > 0 => \E c : {a \in BinEdges : InSealedBin(a, confidence)} = {c}
  BY <1>4
<1>. QED  BY <1>3, <1>5, FS_Singleton

(* Of finitely many things in an order, one is first.                      *)
LEMMA FirstOf ==
  ASSUME NEW S, IsFiniteSet(S), S # {}, NEW before \in [S -> SUBSET S],
         \A x \in S : x \notin before[x],
         \A x, y, z \in S : x \in before[y] /\ y \in before[z] => x \in before[z],
         \A x, y \in S : x = y \/ x \in before[y] \/ y \in before[x]
  PROVE  \E x \in S : \A y \in S \ {x} : x \in before[y]
<1>1. /\ Cardinality(S) \in Nat
      /\ \A k \in 0..(Cardinality(S) - 1) : \E x \in S : Cardinality(before[x]) = k
  BY Ranks
<1>2. Cardinality(S) >= 1
  BY <1>1, FS_EmptySet
<1>3. PICK x \in S : Cardinality(before[x]) = 0
  BY <1>1, <1>2
<1>4. before[x] = {}
  <2>1. before[x] \in SUBSET S
    OBVIOUS
  <2>2. IsFiniteSet(before[x])
    BY <2>1, FS_Subset
  <2>. QED  BY <1>3, <2>2, FS_EmptySet
<1>5. ASSUME NEW y \in S \ {x} PROVE x \in before[y]
  BY <1>4
<1>. QED  BY <1>5

(* Of finitely many things with a number, some have the least.             *)
LEMMA LeastBy ==
  ASSUME NEW S, IsFiniteSet(S), S # {}, NEW f, \A x \in S : f[x] \in Int
  PROVE  \E L \in SUBSET S : /\ L # {} /\ IsFiniteSet(L)
                            /\ \A x \in L, y \in S : f[x] <= f[y] /\ (f[x] = f[y] => y \in L)
<1>1. PICK T \in SUBSET Int : T = {f[x] : x \in S}
  OBVIOUS
<1>2. T # {} /\ [x \in S |-> f[x]] \in Surjection(S, T)
  BY <1>1 DEF Surjection
<1>3. IsFiniteSet(T)
  BY <1>2, FS_Surjection
<1>4. Min(T) \in T /\ \A y \in T : Min(T) <= y
  BY <1>2, <1>3, Extremes
<1>5. PICK m \in Int : m \in T /\ \A y \in T : m <= y
  BY <1>4
<1>6. PICK L \in SUBSET S : L = {x \in S : f[x] = m}
  OBVIOUS
<1>7. L # {} /\ \A x \in L, y \in S : f[x] <= f[y] /\ (f[x] = f[y] => y \in L)
  BY <1>1, <1>5, <1>6
<1>8. IsFiniteSet(L)
  BY FS_Subset
<1>. QED  BY <1>7, <1>8

(* Counts and costs are numbers.                                           *)
LEMMA CountsAreNumbers ==
  ASSUME NEW pair
  PROVE  /\ TotalCost(pair) \in Int /\ TrueReleases(pair) \in Nat /\ ReleasedFalsely(pair) \in Nat
<1>1. IsFiniteSet(1..PolicyRows)
  BY SearchAssumption, FS_Interval
<1>2. \A T \in SUBSET (1..PolicyRows) : Cardinality(T) \in Nat
  BY <1>1, FS_Subset, FS_CardinalityType
<1>3. ASSUME NEW action \in 0..2, NEW label \in 0..2
      PROVE  CostOf(action, label) * Cardinality(Treated(pair, action, label)) \in Int
  <2>1. CostOf(action, label) \in Int
    BY DEF CostOf
  <2>2. Treated(pair, action, label) \in SUBSET (1..PolicyRows)
    BY DEF Treated
  <2>3. Cardinality(Treated(pair, action, label)) \in Nat
    BY <1>2, <2>2
  <2>. QED  BY <2>1, <2>3
<1>4. TotalCost(pair) \in Int
  <2> DEFINE c(a, l) == CostOf(a, l) * Cardinality(Treated(pair, a, l))
  <2>1. /\ c(0, 0) \in Int /\ c(0, 1) \in Int /\ c(0, 2) \in Int /\ c(1, 0) \in Int /\ c(1, 1) \in Int
        /\ c(1, 2) \in Int /\ c(2, 0) \in Int /\ c(2, 1) \in Int /\ c(2, 2) \in Int
    BY <1>3
  <2>2. TotalCost(pair) = c(0, 0) + c(0, 1) + c(0, 2) + c(1, 0) + c(1, 1) + c(1, 2)
                          + c(2, 0) + c(2, 1) + c(2, 2)
    BY DEF TotalCost
  <2>. HIDE DEF c
  <2>. QED  BY <2>1, <2>2
<1>5. ReleasedAt(pair) \cap Releasable \in SUBSET (1..PolicyRows)
      /\ ReleasedAt(pair) \cap NonReleases \in SUBSET (1..PolicyRows)
  BY DEF ReleasedAt, Releasable, NonReleases
<1>. QED  BY <1>2, <1>4, <1>5 DEF TrueReleases, ReleasedFalsely

(* The pairs of a grid that keep the limits are finitely many.             *)
LEMMA PairsOfGrids ==
  /\ KeptPairs(CoarseGrid) \subseteq KeptPairs(FineGrid)
  /\ IsFiniteSet(KeptPairs(FineGrid)) /\ IsFiniteSet(KeptPairs(CoarseGrid))
  /\ KeptPairs(FineGrid) \subseteq Int \X Int
<1>1. IsFiniteSet(FineGrid)
  BY SearchAssumption, FS_Interval DEF FineGrid
<1>2. IsFiniteSet(FineGrid \X FineGrid)
  BY <1>1, FS_Product
<1>3. KeptPairs(FineGrid) \in SUBSET (FineGrid \X FineGrid)
  BY DEF KeptPairs
<1>4. FineGrid \subseteq Int
  BY SearchAssumption DEF FineGrid
<1>5. CoarseGrid \subseteq FineGrid
  BY DEF CoarseGrid
<1>6. KeptPairs(CoarseGrid) \subseteq KeptPairs(FineGrid)
  BY <1>5 DEF KeptPairs
<1>7. IsFiniteSet(KeptPairs(FineGrid))
  BY <1>2, <1>3, FS_Subset
<1>8. IsFiniteSet(KeptPairs(CoarseGrid))
  BY <1>6, <1>7, FS_Subset
<1>. QED  BY <1>3, <1>4, <1>6, <1>7, <1>8

(* The training search has a first pair by cost,                           *)
LEMMA CoarseIsFound ==
  KeptPairs(CoarseGrid) # {} => CoarsePair \in KeptPairs(CoarseGrid)
<1>. SUFFICES ASSUME KeptPairs(CoarseGrid) # {} PROVE CoarsePair \in KeptPairs(CoarseGrid)
  OBVIOUS
<1>1. PICK K : K = KeptPairs(CoarseGrid)
  OBVIOUS
<1>2. IsFiniteSet(K) /\ K # {} /\ K \subseteq Int \X Int
  BY <1>1, PairsOfGrids
<1>3. PICK cost \in [K -> Int] : \A p \in K : cost[p] = TotalCost(p)
  <2>1. [p \in K |-> TotalCost(p)] \in [K -> Int]
    BY CountsAreNumbers
  <2>. QED  BY <2>1
<1> DEFINE first(p, q) == Cheaper(p, q) \/ (~Cheaper(q, p) /\ Visited(p, q))
           before == [q \in K |-> {p \in K : first(p, q)}]
<1>4. \A p, q \in K : p \in before[q] <=>
        (cost[p] < cost[q] \/ (~(cost[q] < cost[p]) /\ (p[1] < q[1] \/ (p[1] = q[1] /\ p[2] < q[2]))))
  BY <1>3 DEF Cheaper, Visited
<1>5. before \in [K -> SUBSET K]
  OBVIOUS
<1>6. \A p \in K : cost[p] \in Int /\ p[1] \in Int /\ p[2] \in Int /\ p = <<p[1], p[2]>>
  BY <1>2
<1>7. \A p, q \in K : p \in before[q] <=> first(p, q)
  OBVIOUS
<1>. HIDE DEF before, first
<1>8. \A x \in K : x \notin before[x]
  BY <1>4, <1>6
<1>9. \A x, y, z \in K : x \in before[y] /\ y \in before[z] => x \in before[z]
  BY <1>4, <1>6
<1>10. \A x, y \in K : x = y \/ x \in before[y] \/ y \in before[x]
  BY <1>4, <1>6
<1>11. \E x \in K : \A y \in K \ {x} : x \in before[y]
  BY <1>2, <1>5, <1>8, <1>9, <1>10, FirstOf
<1>12. \E x \in K : \A y \in K \ {x} : first(x, y)
  BY <1>7, <1>11
<1>. QED  BY <1>1, <1>12 DEF CoarsePair, first

(* the research search by cost, recall and false releases.                 *)
LEMMA FineIsFound ==
  KeptPairs(FineGrid) # {} =>
    /\ FinePair \in KeptPairs(FineGrid)
    /\ \A q \in KeptPairs(FineGrid) \ {FinePair} : Better(FinePair, q)
<1>. SUFFICES ASSUME KeptPairs(FineGrid) # {}
              PROVE  /\ FinePair \in KeptPairs(FineGrid)
                     /\ \A q \in KeptPairs(FineGrid) \ {FinePair} : Better(FinePair, q)
  OBVIOUS
<1>1. PICK K : K = KeptPairs(FineGrid)
  OBVIOUS
<1>2. IsFiniteSet(K) /\ K # {} /\ K \subseteq Int \X Int
  BY <1>1, PairsOfGrids
<1>3. PICK cost \in [K -> Int], right \in [K -> Int], wrong \in [K -> Int] :
        \A p \in K : cost[p] = TotalCost(p) /\ right[p] = TrueReleases(p) /\ wrong[p] = ReleasedFalsely(p)
  <2>1. /\ [p \in K |-> TotalCost(p)] \in [K -> Int]
        /\ [p \in K |-> TrueReleases(p)] \in [K -> Int]
        /\ [p \in K |-> ReleasedFalsely(p)] \in [K -> Int]
    BY CountsAreNumbers
  <2>. QED  BY <2>1
<1>4. \A p, q \in K : ScoredBetter(p, q) <=>
        \/ cost[p] < cost[q]
        \/ cost[p] = cost[q] /\ right[p] > right[q]
        \/ cost[p] = cost[q] /\ right[p] = right[q] /\ wrong[p] < wrong[q]
  BY <1>3 DEF ScoredBetter, Cheaper
<1>5. PICK A \in SUBSET K :
        /\ A # {} /\ IsFiniteSet(A)
        /\ \A p \in A, q \in K : cost[p] <= cost[q] /\ (cost[p] = cost[q] => q \in A)
  BY <1>2, LeastBy
<1>6. PICK B \in SUBSET A :
        /\ B # {} /\ IsFiniteSet(B)
        /\ \A p \in B, q \in A : right[p] >= right[q] /\ (right[p] = right[q] => q \in B)
  <2>1. PICK left \in [A -> Int] : \A p \in A : left[p] = -right[p]
    <3>1. [p \in A |-> -right[p]] \in [A -> Int]
      OBVIOUS
    <3>. QED  BY <3>1
  <2>2. PICK B \in SUBSET A :
          /\ B # {} /\ IsFiniteSet(B)
          /\ \A p \in B, q \in A : left[p] <= left[q] /\ (left[p] = left[q] => q \in B)
    BY <1>5, LeastBy
  <2>3. \A p \in A : right[p] \in Int
    OBVIOUS
  <2>. QED  BY <2>1, <2>2, <2>3
<1>7. PICK C \in SUBSET B :
        /\ C # {} /\ IsFiniteSet(C)
        /\ \A p \in C, q \in B : wrong[p] <= wrong[q] /\ (wrong[p] = wrong[q] => q \in C)
  BY <1>6, LeastBy
<1>8. \A p \in K : p[1] \in Int /\ p[2] \in Int /\ p = <<p[1], p[2]>>
  BY <1>2
<1>9. PICK D \in SUBSET C :
        /\ D # {} /\ IsFiniteSet(D)
        /\ \A p \in D, q \in C : p[1] <= q[1] /\ (p[1] = q[1] => q \in D)
  <2>1. PICK one \in [C -> Int] : \A p \in C : one[p] = p[1]
    <3>1. [p \in C |-> p[1]] \in [C -> Int]
      BY <1>8
    <3>. QED  BY <3>1
  <2>2. PICK D \in SUBSET C :
          /\ D # {} /\ IsFiniteSet(D)
          /\ \A p \in D, q \in C : one[p] <= one[q] /\ (one[p] = one[q] => q \in D)
    BY <1>7, LeastBy
  <2>. QED  BY <2>1, <2>2
<1>10. PICK E \in SUBSET D :
         /\ E # {}
         /\ \A p \in E, q \in D : p[2] <= q[2]
  <2>1. PICK two \in [D -> Int] : \A p \in D : two[p] = p[2]
    <3>1. [p \in D |-> p[2]] \in [D -> Int]
      BY <1>8
    <3>. QED  BY <3>1
  <2>2. PICK E \in SUBSET D :
          /\ E # {} /\ IsFiniteSet(E)
          /\ \A p \in E, q \in D : two[p] <= two[q] /\ (two[p] = two[q] => q \in E)
    BY <1>9, LeastBy
  <2>. QED  BY <2>1, <2>2
<1>11. PICK x \in E : TRUE
  BY <1>10
<1>12. ASSUME NEW q \in K \ {x} PROVE Better(x, q)
  <2>1. x \in K /\ q \in K
    OBVIOUS
  <2>2. /\ cost[x] \in Int /\ cost[q] \in Int /\ right[x] \in Int /\ right[q] \in Int
        /\ wrong[x] \in Int /\ wrong[q] \in Int
    OBVIOUS
  <2>3. /\ x[1] \in Int /\ x[2] \in Int /\ q[1] \in Int /\ q[2] \in Int
        /\ x[1] # q[1] \/ x[2] # q[2]
    BY <1>8
  <2>4. CASE q \notin A
    <3>1. cost[x] < cost[q]
      BY <1>5, <2>2, <2>4
    <3>. QED  BY <1>4, <3>1 DEF Better
  <2>5. CASE q \in A /\ q \notin B
    <3>1. cost[x] = cost[q]
      BY <1>5, <2>2, <2>5
    <3>2. right[x] > right[q]
      BY <1>6, <2>2, <2>5
    <3>. QED  BY <1>4, <3>1, <3>2 DEF Better
  <2>6. CASE q \in B /\ q \notin C
    <3>1. cost[x] = cost[q] /\ right[x] = right[q]
      BY <1>5, <1>6, <2>2, <2>6
    <3>2. wrong[x] < wrong[q]
      BY <1>7, <2>2, <2>6
    <3>. QED  BY <1>4, <3>1, <3>2 DEF Better
  <2>7. CASE q \in C
    <3>1. cost[x] = cost[q] /\ right[x] = right[q] /\ wrong[x] = wrong[q]
      BY <1>5, <1>6, <1>7, <2>2, <2>7
    <3>2. ~ScoredBetter(q, x)
      BY <1>4, <2>1, <2>2, <3>1
    <3>3. x[1] <= q[1] /\ (x[1] = q[1] => q \in D)
      BY <1>9, <2>7
    <3>4. q \in D => x[2] <= q[2]
      BY <1>10
    <3>5. Visited(x, q)
      BY <2>3, <3>3, <3>4 DEF Visited
    <3>. QED  BY <3>2, <3>5 DEF Better
  <2>. QED  BY <2>4, <2>5, <2>6, <2>7
<1>. QED  BY <1>1, <1>12 DEF FinePair

(* Both searches keep the limits, and the finer one has all pairs of the   *)
(* other to choose from.                                                   *)
LEMMA SearchesKeepTheLimits == SelectionKeepsTheTarget /\ FinerSearchIsNoWorse
<1>1. SelectionKeepsTheTarget
  BY CoarseIsFound, FineIsFound DEF SelectionKeepsTheTarget, KeptPairs, Skipped
<1>2. ASSUME KeptPairs(CoarseGrid) # {}
      PROVE  /\ KeptPairs(FineGrid) # {}
             /\ ~Cheaper(CoarsePair, FinePair)
             /\ TotalCost(CoarsePair) = TotalCost(FinePair) => TrueReleases(FinePair) >= TrueReleases(CoarsePair)
  <2>1. CoarsePair \in KeptPairs(FineGrid)
    BY <1>2, CoarseIsFound, PairsOfGrids
  <2>2. CoarsePair = FinePair \/ Better(FinePair, CoarsePair)
    BY <2>1, FineIsFound
  <2>3. /\ TotalCost(CoarsePair) \in Int /\ TrueReleases(CoarsePair) \in Int
        /\ TotalCost(FinePair) \in Int /\ TrueReleases(FinePair) \in Int
    BY CountsAreNumbers
  <2>4. CASE CoarsePair = FinePair
    BY <2>1, <2>3, <2>4 DEF Cheaper
  <2>5. CASE Better(FinePair, CoarsePair)
    BY <2>1, <2>3, <2>5 DEF Better, ScoredBetter, Cheaper
  <2>. QED  BY <2>2, <2>4, <2>5
<1>. QED  BY <1>1, <1>2 DEF FinerSearchIsNoWorse
-----------------------------------------------------------------------------
(* What a division by a positive number leaves over.                       *)
LEMMA ModIs ==
  ASSUME NEW a \in Nat, NEW d \in Nat \ {0}
  PROVE  a \div d \in Nat /\ a % d \in 0..(d - 1) /\ a = d * (a \div d) + (a % d)
<1>0. a = d * (a \div d) + (a % d)
  OBVIOUS
<1>1. a \div d \in Int /\ a % d \in 0..(d - 1) /\ a = d * (a \div d) + (a % d)
  <2>1. a \div d \in Int
    OBVIOUS
  <2>2. a % d \in 0..(d - 1)
    OBVIOUS
  <2>. QED  BY <1>0, <2>1, <2>2
<1>2. ~(a \div d <= -1)
  <2>1. SUFFICES ASSUME a \div d <= -1 PROVE FALSE
    OBVIOUS
  <2>2. d * (a \div d) <= d * (-1)
    BY <1>1, <2>1, TimesKeepsOrder
  <2>3. d * (-1) = -d
    OBVIOUS
  <2>. QED  BY <1>1, <2>2, <2>3
<1>. QED  BY <1>1, <1>2

(* A quantile is a row's score, or between it and the next one's.          *)
LEMMA QuantileIs ==
  ASSUME SearchInv, costRows # Unscored, NEW j \in 1..(QuantileSteps - 1)
  PROVE  \E low \in 1..CostRows, rest \in 0..(QuantileSteps - 1) :
           /\ (CostRows - 1) * j = QuantileSteps * (low - 1) + rest
           /\ rest # 0 => low < CostRows
           /\ Quantile(j) = costRows[low].score * QuantileSteps
                            + (IF rest = 0 THEN 0 ELSE (costRows[low + 1].score - costRows[low].score) * rest)
<1> DEFINE N == CostRows
           Q == QuantileSteps
           w == (N - 1) * j
<1>1. N \in Nat \ {0} /\ Q \in Nat /\ N - 1 < Q
  BY SearchAssumption
<1>2. Q \in Nat \ {0} /\ j \in Nat /\ N - 1 \in Nat /\ w \in Nat
  BY <1>1
<1>3. PICK z \in Nat, rest \in 0..(Q - 1) : z = w \div Q /\ rest = w % Q /\ w = Q * z + rest
  <2>. HIDE DEF w, Q
  <2>. QED  BY <1>2, ModIs
<1>4. Q * z <= w
  <2>1. Q * z \in Nat
    BY <1>2
  <2>. HIDE DEF w
  <2>. QED  BY <1>2, <1>3, <2>1
<1>5. w <= (N - 1) * Q - (N - 1)
  <2>1. (N - 1) * j <= (N - 1) * (Q - 1)
    BY <1>2, TimesKeepsOrder
  <2>2. (N - 1) * (Q - 1) = (N - 1) * Q - (N - 1)
    BY <1>2
  <2>. QED  BY <2>1, <2>2
<1>6. z < N /\ (rest # 0 => z + 1 < N)
  <2>1. ASSUME z >= N PROVE FALSE
    <3>1. Q * N <= Q * z
      BY <1>1, <2>1, TimesKeepsOrder
    <3>2. (N - 1) * Q = Q * N - Q /\ Q * N \in Nat /\ Q * z \in Nat
      BY <1>1
    <3>. HIDE DEF w
    <3>. QED  BY <1>1, <1>2, <1>4, <1>5, <3>1, <3>2
  <2>2. ASSUME rest # 0, z + 1 = N PROVE FALSE
    <3>1. z = N - 1 /\ Q * z = (N - 1) * Q /\ Q * z \in Nat
      BY <1>1, <2>2
    <3>. HIDE DEF w
    <3>. QED  BY <1>2, <1>3, <1>5, <2>2, <3>1
  <2>. QED  BY <1>1, <2>1, <2>2
<1>7. /\ z + 1 \in 1..N /\ w = Q * (z + 1 - 1) + rest /\ (rest # 0 => z + 1 < N)
      /\ Quantile(j) = costRows[z + 1].score * Q
                       + (IF rest = 0 THEN 0 ELSE (costRows[z + 1 + 1].score - costRows[z + 1].score) * rest)
  <2>1. Quantile(j) = costRows[w \div Q + 1].score * Q
                      + (IF w % Q = 0 THEN 0 ELSE (costRows[w \div Q + 1 + 1].score - costRows[w \div Q + 1].score) * (w % Q))
    BY Zenon DEF Quantile
  <2>2. z + 1 - 1 = z
    OBVIOUS
  <2>. HIDE DEF w
  <2>3. z + 1 \in 1..N /\ (rest # 0 => z + 1 < N)
    BY <1>1, <1>6
  <2>. QED  BY <1>3, <2>1, <2>2, <2>3, Zenon
<1>. QED  BY <1>7

(* The scores are sorted numbers.                                          *)
LEMMA SortedScores ==
  ASSUME SearchInv, costRows # Unscored
  PROVE  /\ \A i \in 1..CostRows : costRows[i].score \in Nat
         /\ \A i, j \in 1..CostRows : i <= j => costRows[i].score <= costRows[j].score
<1>1. \A i \in 1..CostRows : costRows[i] \in [score : 0..Units, fraud : BOOLEAN]
  BY DEF SearchInv
<1>2. \A i \in 1..CostRows : costRows[i].score \in Nat
  BY <1>1, SearchAssumption
<1>3. \A i, j \in 1..CostRows : i < j => costRows[i].score <= costRows[j].score
  BY DEF SearchInv
<1>4. CostRows \in Nat
  BY SearchAssumption
<1>. QED  BY <1>2, <1>3, <1>4

(* Candidates are numbers.                                                 *)
LEMMA CandidatesAreNumbers ==
  ASSUME SearchInv, costRows # Unscored
  PROVE  CostCandidates \subseteq Nat
<1>1. QuantileSteps \in Nat /\ CostRows \in Nat
  BY SearchAssumption
<1>2. ASSUME NEW t \in FixedCandidates PROVE t * QuantileSteps \in Nat
  BY <1>1, SearchAssumption
<1>3. ASSUME NEW j \in 1..(QuantileSteps - 1) PROVE Quantile(j) \in Nat
  <2>1. PICK low \in 1..CostRows, rest \in 0..(QuantileSteps - 1) :
           /\ rest # 0 => low < CostRows
           /\ Quantile(j) = costRows[low].score * QuantileSteps
                            + (IF rest = 0 THEN 0 ELSE (costRows[low + 1].score - costRows[low].score) * rest)
    BY QuantileIs
  <2>2. costRows[low].score * QuantileSteps \in Nat
    BY <1>1, SortedScores
  <2>3. CASE rest = 0
    BY <2>1, <2>2, <2>3
  <2>4. CASE rest # 0
    <3>1. low + 1 \in 1..CostRows /\ low <= low + 1 /\ rest \in Nat
      BY <1>1, <2>1, <2>4
    <3>2. costRows[low + 1].score - costRows[low].score \in Nat
      BY <3>1, SortedScores
    <3>3. PICK d \in Nat : d = costRows[low + 1].score - costRows[low].score
      BY <3>2
    <3>4. d * rest \in Nat
      BY <3>1
    <3>. QED  BY <2>1, <2>2, <2>4, <3>3, <3>4
  <2>. QED  BY <2>3, <2>4
<1>. QED  BY <1>2, <1>3 DEF CostCandidates

(* Costs are numbers, so that some candidate costs least.                  *)
LEMMA CheapestThreshold ==
  ASSUME SearchInv, costRows # Unscored, NEW u \in CostCandidates
  PROVE  FlagCost(CostThreshold) <= FlagCost(u) /\ FlagCost(CostThreshold) \in Nat /\ FlagCost(u) \in Nat
<1>1. IsFiniteSet(1..CostRows)
  BY SearchAssumption, FS_Interval
<1>2. ASSUME NEW t PROVE FlagCost(t) \in Nat
  <2>1. Frauds \ Flagged(t) \in SUBSET (1..CostRows) /\ Flagged(t) \ Frauds \in SUBSET (1..CostRows)
    BY DEF Frauds, Flagged
  <2>2. Cardinality(Frauds \ Flagged(t)) \in Nat /\ Cardinality(Flagged(t) \ Frauds) \in Nat
    BY <1>1, <2>1, FS_Subset, FS_CardinalityType
  <2>3. MissCost \in Nat
    BY SearchAssumption
  <2>. QED  BY <2>2, <2>3 DEF FlagCost
<1>3. PICK costs \in SUBSET Nat : costs = {FlagCost(t) : t \in CostCandidates}
  BY <1>2
<1>4. PICK least \in costs : \A c \in costs : least <= c
  <2>1. costs # {}
    BY <1>3
  <2>. QED  BY <2>1, LeastOf
<1>5. PICK best \in SUBSET CostCandidates :
         best = {t \in CostCandidates : \A v \in CostCandidates : FlagCost(t) <= FlagCost(v)}
  OBVIOUS
<1>6. best # {} /\ best \in SUBSET Nat
  <2>1. PICK t \in CostCandidates : FlagCost(t) = least
    BY <1>3
  <2>2. \A v \in CostCandidates : FlagCost(t) <= FlagCost(v)
    BY <1>3, <1>4, <2>1
  <2>. QED  BY <1>5, <2>2, CandidatesAreNumbers
<1>7. PICK m \in best : \A t \in best : m <= t
  BY <1>6, LeastOf
<1>8. Min(best) \in best
  <2>1. \E t \in best : \A v \in best : t <= v
    BY <1>7
  <2>. QED  BY <2>1 DEF Min
<1>9. CostThreshold \in best
  BY <1>5, <1>8 DEF CostThreshold
<1>. QED  BY <1>2, <1>5, <1>9

(* Some quantile falls between two neighbouring scores that differ.        *)
LEMMA QuantileBetween ==
  ASSUME SearchInv, costRows # Unscored, NEW m \in 1..(CostRows - 1),
         costRows[m].score < costRows[m + 1].score
  PROVE  \E j \in 1..(QuantileSteps - 1) :
           /\ Quantile(j) \in Nat
           /\ costRows[m].score * QuantileSteps < Quantile(j)
           /\ Quantile(j) <= costRows[m + 1].score * QuantileSteps
<1> DEFINE N == CostRows
           Q == QuantileSteps
<1>1. N \in Nat \ {0} /\ Q \in Nat \ {0} /\ N - 1 < Q /\ N >= 2 /\ m \in Nat \ {0} /\ m <= N - 1
  BY SearchAssumption
<1>2. \E j \in 1..(Q - 1) : Q * (m - 1) < (N - 1) * j /\ (N - 1) * j <= Q * m
  <2>1. CASE m = N - 1
    <3>1. (N - 1) * (Q - 1) = (N - 1) * Q - (N - 1) /\ Q * m = (N - 1) * Q /\ Q * (m - 1) = (N - 1) * Q - Q
      BY <1>1, <2>1
    <3>2. (N - 1) * Q \in Nat /\ Q - 1 \in 1..(Q - 1)
      BY <1>1
    <3>3. Q * (m - 1) < (N - 1) * (Q - 1) /\ (N - 1) * (Q - 1) <= Q * m
      BY <1>1, <3>1, <3>2
    <3>. QED  BY <3>2, <3>3
  <2>2. CASE m < N - 1
    <3>1. PICK d \in Nat \ {0} : d = N - 1
      BY <1>1
    <3>2. PICK w \in Nat : w = Q * m
      BY <1>1
    <3>3. PICK j \in Int : d * j <= w /\ w < d * j + d
      <4>1. w \div d \in Int /\ d * (w \div d) <= w /\ w < d * (w \div d) + d
        BY DivIs
      <4>. QED  BY <4>1, Zenon
    <3>4. d * j \in Int
      BY <3>1
    <3>5. Q * (m - 1) = w - Q
      BY <1>1, <3>2
    <3>6. j >= 1
      <4>1. SUFFICES ASSUME j <= 0 PROVE FALSE
        OBVIOUS
      <4>2. d * j <= d * 0
        BY <3>1, <4>1, TimesKeepsOrder
      <4>3. Q * 1 <= Q * m
        BY <1>1, TimesKeepsOrder
      <4>4. d * 0 = 0 /\ Q * 1 = Q
        BY <1>1, <3>1
      <4>. QED  BY <1>1, <3>1, <3>2, <3>3, <3>4, <4>2, <4>3, <4>4
    <3>7. j <= Q - 1
      <4>1. SUFFICES ASSUME Q <= j PROVE FALSE
        BY <1>1
      <4>2. d * Q <= d * j
        BY <1>1, <3>1, <4>1, TimesKeepsOrder
      <4>3. Q * (m + 1) <= Q * d
        BY <1>1, <2>2, <3>1, TimesKeepsOrder
      <4>4. Q * (m + 1) = w + Q /\ Q * d = d * Q /\ d * Q \in Int
        BY <1>1, <3>1, <3>2
      <4>. QED  BY <1>1, <3>2, <3>3, <3>4, <4>2, <4>3, <4>4
    <3>8. w - Q < d * j
      BY <1>1, <3>1, <3>2, <3>3, <3>4
    <3>9. j \in 1..(Q - 1)
      BY <1>1, <3>6, <3>7
    <3>. QED  BY <3>1, <3>2, <3>3, <3>5, <3>8, <3>9
  <2>. QED  BY <1>1, <2>1, <2>2
<1>3. PICK j \in 1..(Q - 1) : Q * (m - 1) < (N - 1) * j /\ (N - 1) * j <= Q * m
  BY <1>2
<1>4. PICK low \in 1..N, rest \in 0..(Q - 1) :
           /\ (N - 1) * j = Q * (low - 1) + rest
           /\ rest # 0 => low < N
           /\ Quantile(j) = costRows[low].score * Q
                            + (IF rest = 0 THEN 0 ELSE (costRows[low + 1].score - costRows[low].score) * rest)
  BY QuantileIs
<1>5. Q * (m - 1) = Q * m - Q /\ Q * m \in Nat /\ Q * (low - 1) = Q * low - Q /\ Q * low \in Nat
      /\ low \in Nat /\ rest \in Nat /\ rest < Q
  BY <1>1
<1>6. /\ Q * m - Q < Q * low - Q + rest
      /\ Q * low - Q + rest <= Q * m
  <2>1. PICK w \in Int : w = (N - 1) * j
    BY <1>1
  <2>. QED  BY <1>3, <1>4, <1>5, <2>1
<1>7. low <= m + 1 /\ low >= m
  <2>1. ASSUME low >= m + 2 PROVE FALSE
    <3>1. Q * (m + 2) <= Q * low
      BY <1>1, <1>5, <2>1, TimesKeepsOrder
    <3>2. Q * (m + 2) = Q * m + Q + Q
      BY <1>1
    <3>. QED  BY <1>1, <1>5, <1>6, <3>1, <3>2
  <2>2. ASSUME low <= m - 1 PROVE FALSE
    <3>1. Q * low <= Q * (m - 1)
      BY <1>1, <1>5, <2>2, TimesKeepsOrder
    <3>. QED  BY <1>1, <1>5, <1>6, <3>1
  <2>. QED  BY <1>1, <1>5, <2>1, <2>2
<1>8. PICK a \in Nat, b \in Nat : a = costRows[m].score /\ b = costRows[m + 1].score /\ a < b
  <2>1. m \in 1..N /\ m + 1 \in 1..N
    BY <1>1
  <2>. QED  BY <2>1, SortedScores
<1>9. a * Q < b * Q /\ a * Q \in Nat /\ b * Q \in Nat
  <2>1. PICK d \in Nat : b = a + 1 + d
    <3>1. b - a - 1 \in Nat /\ b = a + 1 + (b - a - 1)
      BY <1>8
    <3>. QED  BY <3>1
  <2>2. (a + 1 + d) * Q = a * Q + Q + d * Q /\ d * Q \in Nat /\ a * Q \in Nat
    BY <1>1
  <2>. QED  BY <1>1, <2>1, <2>2
<1>10. Quantile(j) \in Nat /\ a * Q < Quantile(j) /\ Quantile(j) <= b * Q
  <2>1. CASE low = m + 1
    <3>1. rest = 0
      <4>1. Q * (m + 1) = Q * m + Q
        BY <1>1
      <4>. QED  BY <1>1, <1>5, <1>6, <2>1, <4>1
    <3>2. Quantile(j) = b * Q
      BY <1>4, <1>8, <1>9, <2>1, <3>1
    <3>. QED  BY <1>9, <3>2
  <2>2. CASE low = m
    <3>1. rest # 0
      BY <1>1, <1>5, <1>6, <2>2
    <3>2. Quantile(j) = a * Q + (b - a) * rest
      BY <1>4, <1>8, <2>2, <3>1
    <3>3. PICK d \in Nat \ {0} : d = b - a
      BY <1>8
    <3>4. d * rest \in Nat /\ d * rest > 0 /\ d * rest <= d * Q
      <4>1. d * 1 <= d * rest /\ d * rest <= d * Q
        BY <1>1, <1>5, <3>1, TimesKeepsOrder
      <4>2. d * 1 = d /\ d * rest \in Int
        BY <1>5
      <4>. QED  BY <4>1, <4>2
    <3>5. b * Q = a * Q + d * Q /\ d * Q \in Nat
      <4>1. b = a + d
        BY <1>8, <3>3
      <4>2. (a + d) * Q = a * Q + d * Q
        BY <1>1
      <4>. QED  BY <1>1, <4>1, <4>2
    <3>. QED  BY <1>9, <3>2, <3>3, <3>4, <3>5
  <2>. QED  BY <1>1, <1>5, <1>7, <2>1, <2>2
<1>. QED  BY <1>8, <1>10

(* A threshold between two neighbours flags what their quantile flags.     *)
LEMMA CostsAreLeast == SearchInv => CostThresholdIsBest
<1>. SUFFICES ASSUME SearchInv, costRows # Unscored,
                     NEW t \in (costRows[1].score * QuantileSteps + 1)..(costRows[CostRows].score * QuantileSteps)
              PROVE  FlagCost(CostThreshold) <= FlagCost(t)
  BY DEF CostThresholdIsBest
<1> DEFINE N == CostRows
           Q == QuantileSteps
           at(i) == costRows[i].score * Q
<1>1. N \in Nat \ {0} /\ Q \in Nat \ {0} /\ N - 1 < Q
  BY SearchAssumption
<1>2. /\ \A i \in 1..N : at(i) \in Nat
      /\ \A i, j \in 1..N : i <= j => at(i) <= at(j)
      /\ \A i, j \in 1..N : at(i) < at(j) => costRows[i].score < costRows[j].score
  <2>1. ASSUME NEW i \in 1..N, NEW j \in 1..N
        PROVE  /\ at(i) \in Nat
               /\ i <= j => at(i) <= at(j)
               /\ at(i) < at(j) => costRows[i].score < costRows[j].score
    <3>1. PICK a \in Nat, b \in Nat : a = costRows[i].score /\ b = costRows[j].score /\ (i <= j => a <= b)
      BY SortedScores
    <3>2. a * Q = Q * a /\ b * Q = Q * b /\ Q * a \in Nat /\ Q * b \in Nat
      BY <1>1
    <3>3. a <= b => Q * a <= Q * b
      BY <1>1, TimesKeepsOrder
    <3>4. b <= a => Q * b <= Q * a
      BY <1>1, TimesKeepsOrder
    <3>5. (i <= j => a * Q <= b * Q) /\ (a * Q < b * Q => a < b)
      BY <3>1, <3>2, <3>3, <3>4
    <3>. QED  BY <3>1, <3>2, <3>5
  <2>. QED  BY <2>1
<1>3. t \in Int /\ at(1) < t /\ t <= at(N) /\ 1 \in 1..N /\ N \in 1..N
  BY <1>1, <1>2
<1>4. PICK next \in 1..N : t <= at(next) /\ \A i \in 1..N : t <= at(i) => next <= i
  <2>1. PICK above \in SUBSET Nat : above = {i \in 1..N : t <= at(i)}
    <3>1. 1..N \subseteq Nat
      BY <1>1
    <3>. QED  BY <3>1
  <2>2. above # {}
    BY <1>3, <2>1
  <2>3. PICK i \in above : \A k \in above : i <= k
    BY <2>2, LeastOf
  <2>. QED  BY <2>1, <2>3
<1>5. next # 1
  BY <1>2, <1>3, <1>4
<1>6. PICK m \in 1..(N - 1) : next = m + 1 /\ m \in 1..N
  <2>1. next - 1 \in 1..(N - 1) /\ next = next - 1 + 1 /\ next - 1 \in 1..N
    BY <1>1, <1>5
  <2>. QED  BY <2>1
<1>7. at(m) < t
  <2>1. ~(next <= m)
    BY <1>6
  <2>2. ~(t <= at(m)) /\ at(m) \in Int
    BY <1>2, <1>4, <1>6, <2>1
  <2>. HIDE DEF at
  <2>. QED  BY <1>3, <2>2
<1>8. PICK j \in 1..(Q - 1) : Quantile(j) \in Nat /\ at(m) < Quantile(j) /\ Quantile(j) <= at(m + 1)
  <2>1. at(m) \in Int /\ at(m + 1) \in Int
    BY <1>2, <1>6
  <2>2. at(m) < at(m + 1)
    <3>. HIDE DEF at
    <3>. QED  BY <1>3, <1>4, <1>6, <1>7, <2>1
  <2>3. costRows[m].score < costRows[m + 1].score
    BY <1>2, <1>6, <2>2
  <2>. QED  BY <2>3, QuantileBetween
<1>9. PICK u \in CostCandidates : u \in Int /\ at(m) < u /\ u <= at(m + 1)
  BY <1>8 DEF CostCandidates
<1>10. ASSUME NEW x \in Int, at(m) < x, x <= at(m + 1)
       PROVE  Flagged(x) = {i \in 1..N : m < i}
  <2>1. ASSUME NEW i \in 1..N PROVE at(i) >= x <=> m < i
    <3>1. m \in Int /\ i \in Int /\ m + 1 \in 1..N
      BY <1>1, <1>6
    <3>2. at(i) \in Int /\ at(m) \in Int /\ at(m + 1) \in Int
      BY <1>2, <1>6, <3>1
    <3>3. i <= m => at(i) <= at(m)
      BY <1>2, <1>6
    <3>4. m + 1 <= i => at(m + 1) <= at(i)
      BY <1>2, <3>1
    <3>. HIDE DEF at
    <3>. QED  BY <1>10, <3>1, <3>2, <3>3, <3>4
  <2>. QED  BY <2>1 DEF Flagged
<1>11. Flagged(t) = Flagged(u)
  <2>1. t <= at(m + 1)
    BY <1>4, <1>6
  <2>2. Flagged(t) = {i \in 1..N : m < i}
    BY <1>3, <1>7, <1>10, <2>1
  <2>3. Flagged(u) = {i \in 1..N : m < i}
    BY <1>9, <1>10
  <2>. QED  BY <2>2, <2>3, Zenon
<1>12. FlagCost(t) = FlagCost(u)
  BY <1>11, Zenon DEF FlagCost
<1>13. FlagCost(CostThreshold) <= FlagCost(u)
  BY CheapestThreshold
<1>. QED  BY <1>12, <1>13, Zenon

(* For any grid, rows and costs: a search that finds a pair of thresholds  *)
(* keeps the limits it was given, the finer search is no worse, and a      *)
(* confidence has a bin.  Quantiles in at least as many steps as there are *)
(* rows miss no cheaper threshold.                                         *)
THEOREM SearchesAreSound ==
  SearchSpec => [](/\ SelectionKeepsTheTarget /\ FinerSearchIsNoWorse
                   /\ CostThresholdIsBest /\ EveryConfidenceIsBinned)
BY SearchStart, SearchSteps, SearchesKeepTheLimits, CostsAreLeast, OneBin, PTL DEF SearchSpec
-----------------------------------------------------------------------------
(* What is selected on, and what is listed.                                *)
ChoicesInv ==
  /\ selection # Empty => selection \in [1..Scored -> [score : Scores, release : BOOLEAN]]
  /\ listing # Empty => listing \in [rows : 1..MostListed, limit : 1..MostListed]

(* Scores and listings are examined one at a time,                         *)
LEMMA ChoicesSteps == ChoicesInv /\ [SplitsNext]_splitVars => ChoicesInv'
<1>. SUFFICES ASSUME ChoicesInv, [SplitsNext]_splitVars PROVE ChoicesInv'
  OBVIOUS
<1>1. CASE ExamineCorpus
  BY <1>1 DEF ExamineCorpus, Unexamined, ChoicesInv
<1>2. CASE ExamineScores
  BY <1>2 DEF ExamineScores, Unexamined, ChoicesInv
<1>3. CASE ExamineListing
  BY <1>3 DEF ExamineListing, Unexamined, ChoicesInv
<1>4. CASE UNCHANGED splitVars
  BY <1>4 DEF splitVars, ChoicesInv
<1>. QED  BY <1>1, <1>2, <1>3, <1>4 DEF SplitsNext

(* and none at first.                                                      *)
LEMMA ChoicesStart == SplitsInit => ChoicesInv
BY DEF SplitsInit, Unexamined, ChoicesInv

(* Evenly spaced positions differ and end with the last one.               *)
LEMMA SpacedPositions ==
  ASSUME NEW n \in Nat, NEW k \in Nat, 2 <= k, k <= n
  PROVE  /\ \A i \in 0..(k - 1) : Spaced(i, n, k) \in 0..(n - 1)
         /\ \A i, j \in 0..(k - 1) : i < j => Spaced(i, n, k) < Spaced(j, n, k)
<1>1. PICK d \in Nat \ {0}, l \in Nat : d = k - 1 /\ l = n - 1 /\ d <= l
  OBVIOUS
<1>2. ASSUME NEW i \in 0..d
      PROVE  Spaced(i, n, k) \in Nat /\ d * Spaced(i, n, k) <= i * l /\ i * l < d * Spaced(i, n, k) + d
  <2>1. i * l \in Nat
    OBVIOUS
  <2>2. (i * l) \div d \in Nat /\ d * ((i * l) \div d) <= i * l /\ i * l < d * ((i * l) \div d) + d
    <3>1. PICK w \in Nat : w = i * l
      BY <2>1
    <3>2. w \div d \in Nat
      BY ModIs
    <3>3. d * (w \div d) <= w /\ w < d * (w \div d) + d
      BY DivIs
    <3>. QED  BY <3>1, <3>2, <3>3, Zenon
  <2>. QED  BY <1>1, <2>2, Zenon DEF Spaced
<1>3. ASSUME NEW i \in 0..d PROVE Spaced(i, n, k) <= l
  <2>1. PICK q \in Nat : q = Spaced(i, n, k) /\ d * q <= i * l
    BY <1>2
  <2>2. l * i <= l * d /\ l * i = i * l /\ l * d = d * l /\ i * l \in Nat /\ d * l \in Nat
    BY TimesKeepsOrder
  <2>3. ASSUME l + 1 <= q PROVE FALSE
    <3>1. d * (l + 1) <= d * q
      BY <2>3, TimesKeepsOrder
    <3>2. d * (l + 1) = d * l + d /\ d * q \in Nat
      OBVIOUS
    <3>. QED  BY <2>1, <2>2, <3>1, <3>2
  <2>. QED  BY <2>1, <2>3
<1>4. ASSUME NEW i \in 0..d, NEW j \in 0..d, i < j PROVE Spaced(i, n, k) < Spaced(j, n, k)
  <2>1. PICK p \in Nat, q \in Nat :
          /\ p = Spaced(i, n, k) /\ q = Spaced(j, n, k)
          /\ d * p <= i * l /\ j * l < d * q + d
    BY <1>2
  <2>2. l * (i + 1) <= l * j /\ l * (i + 1) = i * l + l /\ l * j = j * l /\ i * l \in Nat /\ j * l \in Nat
    BY <1>4, TimesKeepsOrder
  <2>3. ASSUME q <= p PROVE FALSE
    <3>1. d * q <= d * p /\ d * q \in Nat /\ d * p \in Nat
      BY <2>3, TimesKeepsOrder
    <3>. QED  BY <1>1, <2>1, <2>2, <3>1
  <2>. QED  BY <2>1, <2>3
<1>5. 0..d = 0..(k - 1)
  BY <1>1
<1>6. \A i \in 0..d : Spaced(i, n, k) \in 0..(n - 1)
  BY <1>1, <1>2, <1>3
<1>. QED  BY <1>4, <1>5, <1>6

(* A listing shows what was asked for, or everything.                      *)
LEMMA ListingsAreWhole == ChoicesInv => BlindListingIsWhole
<1>. SUFFICES ASSUME ChoicesInv, listing # Empty PROVE BlindListingIsWhole
  BY DEF BlindListingIsWhole
<1>1. PICK n \in Nat \ {0}, limit \in Nat \ {0} : n = listing.rows /\ limit = listing.limit
  BY SplitsAssumption DEF ChoicesInv
<1>2. PICK k \in Nat \ {0} : k = Min({limit, n}) /\ k <= n
  <2>1. Min({limit, n}) = IF limit <= n THEN limit ELSE n
    BY OfTwo
  <2>. QED  BY <2>1
<1>3. BlindPositions(n, limit) = IF k = 1 THEN {n \div 2} ELSE {Spaced(i, n, k) : i \in 0..(k - 1)}
  BY <1>2 DEF BlindPositions
<1>4. CASE k = 1
  <2>1. n \div 2 \in 0..(n - 1)
    OBVIOUS
  <2>2. {n \div 2} \subseteq 0..(n - 1) /\ Cardinality({n \div 2}) = 1
    BY <2>1, FS_Singleton
  <2>. QED  BY <1>1, <1>2, <1>3, <1>4, <2>2 DEF BlindListingIsWhole
<1>5. CASE k # 1
  <2>1. /\ \A i \in 0..(k - 1) : Spaced(i, n, k) \in 0..(n - 1)
        /\ \A i, j \in 0..(k - 1) : i < j => Spaced(i, n, k) < Spaced(j, n, k)
    <3>1. 2 <= k /\ k <= n
      BY <1>2, <1>5
    <3>. QED  BY <3>1, SpacedPositions
  <2>2. PICK positions \in SUBSET (0..(n - 1)) : positions = {Spaced(i, n, k) : i \in 0..(k - 1)}
    BY <2>1
  <2>3. PICK place \in [0..(k - 1) -> positions] : \A i \in 0..(k - 1) : place[i] = Spaced(i, n, k)
    <3>1. [i \in 0..(k - 1) |-> Spaced(i, n, k)] \in [0..(k - 1) -> positions]
      BY <2>2
    <3>. QED  BY <3>1
  <2>4. place \in Surjection(0..(k - 1), positions)
    BY <2>2, <2>3 DEF Surjection
  <2>5. place \in Injection(0..(k - 1), positions)
    <3>1. ASSUME NEW i \in 0..(k - 1), NEW j \in 0..(k - 1), place[i] = place[j] PROVE i = j
      <4>1. /\ Spaced(i, n, k) \in Int /\ Spaced(j, n, k) \in Int /\ Spaced(i, n, k) = Spaced(j, n, k)
        BY <2>1, <2>3, <3>1
      <4>2. ~(i < j) /\ ~(j < i)
        BY <2>1, <4>1
      <4>. QED  BY <4>2
    <3>. QED  BY <3>1 DEF Injection, IsInjective
  <2>6. IsFiniteSet(0..(k - 1)) /\ Cardinality(0..(k - 1)) = k
    <3>1. PICK m \in Int : m = k - 1
      OBVIOUS
    <3>2. 0 \in Int
      OBVIOUS
    <3>3. IsFiniteSet(0..m) /\ Cardinality(0..m) = IF 0 > m THEN 0 ELSE m - 0 + 1
      BY <3>2, FS_Interval
    <3>. QED  BY <3>1, <3>3
  <2>7. Cardinality(positions) = k
    BY <2>4, <2>5, <2>6, FS_Surjection
  <2>. QED  BY <1>1, <1>2, <1>3, <1>5, <2>2, <2>7 DEF BlindListingIsWhole
<1>. QED  BY <1>4, <1>5

(* The rows selected are counted, and thresholds are numbers.              *)
LEMMA SelectedRowsAreCounted ==
  ASSUME ChoicesInv, selection # Empty
  PROVE  /\ \A t : RecalledAt(t) \in Nat /\ Cardinality(SelectedRows(t)) \in Nat
         /\ \A t : SelectedRows(t) # {} => Cardinality(SelectedRows(t)) > 0
         /\ \A t : SelectedRows(t) = {} => RecalledAt(t) = 0 /\ Allowed(t)
         /\ \A i \in 1..Scored : selection[i].score \in Scores
         /\ Candidates \subseteq Scores \cup {AboveAll} /\ Scores \cup {AboveAll} \subseteq Int
         /\ IsFiniteSet(Candidates)
         /\ SelectedRows(AboveAll) = {}
<1>1. IsFiniteSet(1..Scored)
  BY SplitsAssumption, FS_Interval
<1>2. \A i \in 1..Scored : selection[i].score \in Scores
  BY DEF ChoicesInv
<1>3. \A T \in SUBSET (1..Scored) : IsFiniteSet(T) /\ Cardinality(T) \in Nat
  BY <1>1, FS_Subset, FS_CardinalityType
<1>4. ASSUME NEW t
      PROVE  /\ SelectedRows(t) \in SUBSET (1..Scored) /\ SelectedRows(t) \ NonRelease \in SUBSET (1..Scored)
             /\ NonRelease \in SUBSET (1..Scored)
  BY DEF SelectedRows, NonRelease
<1>5. PICK m \in Int : AboveAll = m + 1 /\ \A y \in Scores : y <= m
  <2>1. Max(Scores) \in Scores /\ \A y \in Scores : y <= Max(Scores)
    BY SplitsAssumption, Extremes
  <2>2. Max(Scores) \in Int
    BY <2>1, SplitsAssumption
  <2>. QED  BY <2>1, <2>2 DEF AboveAll
<1>6. Scores \cup {AboveAll} \subseteq Int
  BY <1>5, SplitsAssumption
<1>7. Candidates \subseteq Scores \cup {AboveAll}
  BY <1>2 DEF Candidates
<1>8. IsFiniteSet(Scores \cup {AboveAll})
  BY SplitsAssumption, FS_AddElement
<1>9. IsFiniteSet(Candidates)
  BY <1>7, <1>8, FS_Subset
<1>10. SelectedRows(AboveAll) = {}
  <2>1. ASSUME NEW i \in 1..Scored PROVE ~(selection[i].score >= AboveAll)
    <3>1. PICK z \in Int : z = selection[i].score /\ z <= m
      BY <1>2, <1>5, SplitsAssumption
    <3>. QED  BY <1>5, <3>1
  <2>. QED  BY <2>1 DEF SelectedRows
<1>11. ASSUME NEW t PROVE RecalledAt(t) \in Nat /\ Cardinality(SelectedRows(t)) \in Nat
  BY <1>3, <1>4 DEF RecalledAt
<1>12. ASSUME NEW t, SelectedRows(t) # {} PROVE Cardinality(SelectedRows(t)) > 0
  <2>1. PICK T \in SUBSET (1..Scored) : T = SelectedRows(t)
    BY <1>4
  <2>2. IsFiniteSet(T) /\ Cardinality(T) \in Nat /\ (Cardinality(T) = 0 <=> T = {})
    BY <1>3, FS_EmptySet
  <2>. QED  BY <1>12, <2>1, <2>2
<1>13. ASSUME NEW t, SelectedRows(t) = {} PROVE RecalledAt(t) = 0 /\ Allowed(t)
  <2>1. SelectedRows(t) \ NonRelease = {} /\ SelectedRows(t) \cap NonRelease = {} /\ Cardinality({}) = 0
    BY <1>13, FS_EmptySet
  <2>2. Cardinality(SelectedRows(t) \ NonRelease) = 0 /\ Cardinality(SelectedRows(t) \cap NonRelease) = 0
    BY <2>1, Zenon
  <2>3. Cardinality(NonRelease) \in Nat /\ 0 * MaxRateDen = 0
    BY <1>3, <1>4, SplitsAssumption
  <2>4. Allowed(t) <=> Cardinality(SelectedRows(t) \cap NonRelease) * MaxRateDen <= Cardinality(NonRelease)
    BY DEF Allowed, RateOf
  <2>. QED  BY <2>2, <2>3, <2>4 DEF RecalledAt
<1>. QED  BY <1>2, <1>6, <1>7, <1>9, <1>10, <1>11, <1>12, <1>13

(* Among thresholds of one recall, precision falls as they select more.    *)
LEMMA ByPrecision ==
  ASSUME ChoicesInv, selection # Empty,
         NEW a \in Candidates, NEW b \in Candidates, RecalledAt(a) = RecalledAt(b),
         NEW spread,
         \A x \in {a, b} : spread[x] = IF RecalledAt(x) = 0
                                       THEN IF SelectedRows(x) = {} THEN 0 ELSE 1
                                       ELSE Cardinality(SelectedRows(x)),
         spread[a] < spread[b] \/ (spread[a] = spread[b] /\ a <= b)
  PROVE  NotLess(a, b)
<1> DEFINE A == SelectedRows(a)
           B == SelectedRows(b)
           r == RecalledAt(a)
           m == Cardinality(A)
           n == Cardinality(B)
           ra == IF A = {} THEN 1 ELSE r
           rb == IF B = {} THEN 1 ELSE r
           ma == IF A = {} THEN 1 ELSE m
           nb == IF B = {} THEN 1 ELSE n
<1>1. /\ r \in Nat /\ m \in Nat /\ n \in Nat /\ (A # {} => m > 0) /\ (B # {} => n > 0)
      /\ (A = {} => r = 0) /\ (B = {} => r = 0)
  BY SelectedRowsAreCounted
<1>2. NotLess(a, b) <=> \/ (ra * nb - rb * ma > 0)
                        \/ (ra * nb - rb * ma = 0 /\ a <= b)
  <2>1. ~(RecalledAt(a) > RecalledAt(b))
    BY <1>1
  <2>. QED  BY <2>1 DEF NotLess
<1>3. /\ spread[a] = IF r = 0 THEN IF A = {} THEN 0 ELSE 1 ELSE m
      /\ spread[b] = IF r = 0 THEN IF B = {} THEN 0 ELSE 1 ELSE n
  OBVIOUS
<1>. HIDE DEF A, B, r, m, n
<1>4. CASE r = 0
  <2>1. ra * nb = (IF A = {} THEN nb ELSE 0) /\ rb * ma = (IF B = {} THEN ma ELSE 0)
        /\ nb \in Nat /\ ma \in Nat /\ nb > 0 /\ ma > 0
    BY <1>1, <1>4
  <2>2. PICK p \in Nat, q \in Nat :
          /\ p = ra * nb /\ q = rb * ma
          /\ (A = {} => p > 0) /\ (A # {} => p = 0) /\ (B = {} => q > 0) /\ (B # {} => q = 0)
          /\ (A = {} /\ B = {} => p = q)
    BY <2>1
  <2>3. NotLess(a, b) <=> (p - q > 0 \/ (p - q = 0 /\ a <= b))
    BY <1>2, <2>2
  <2>4. (spread[a] < spread[b] <=> A = {} /\ B # {}) /\ (spread[a] = spread[b] <=> (A = {} <=> B = {}))
    BY <1>3, <1>4
  <2>. HIDE DEF ra, rb, ma, nb
  <2>5. CASE spread[a] < spread[b]
    BY <2>2, <2>3, <2>4, <2>5
  <2>6. CASE spread[a] = spread[b] /\ a <= b
    BY <2>2, <2>3, <2>4, <2>6
  <2>. QED  BY <2>5, <2>6
<1>5. CASE r # 0
  <2>1. A # {} /\ B # {} /\ r \in Nat \ {0}
    BY <1>1, <1>5
  <2>2. ra * nb = r * n /\ rb * ma = r * m /\ r * n \in Nat /\ r * m \in Nat
    BY <1>1, <2>1
  <2>3. m < n => r * m < r * n
    <3>1. m < n => r * (m + 1) <= r * n
      BY <1>1, TimesKeepsOrder
    <3>2. r * (m + 1) = r * m + r
      BY <1>1
    <3>. QED  BY <1>1, <2>1, <2>2, <3>1, <3>2
  <2>. QED  BY <1>1, <1>2, <1>3, <1>5, <2>2, <2>3
<1>. QED  BY <1>4, <1>5

(* So there is a best threshold among those that keep the limit.           *)
LEMMA BestIsFound ==
  ASSUME ChoicesInv, selection # Empty
  PROVE  /\ BestThreshold \in Candidates /\ Allowed(BestThreshold)
         /\ \A u \in Candidates : Allowed(u) => NotLess(BestThreshold, u)
<1>1. PICK K \in SUBSET Candidates : K = {t \in Candidates : Allowed(t)}
  OBVIOUS
<1>2. IsFiniteSet(K) /\ K # {} /\ K \subseteq Int
  <2>1. AboveAll \in Candidates
    BY DEF Candidates
  <2>2. Allowed(AboveAll)
    BY SelectedRowsAreCounted
  <2>3. IsFiniteSet(Candidates) /\ Candidates \subseteq Int
    BY SelectedRowsAreCounted
  <2>. QED  BY <1>1, <2>1, <2>2, <2>3, FS_Subset
<1>3. PICK missed \in [K -> Int], spread \in [K -> Int] :
        \A x \in K : /\ missed[x] = -RecalledAt(x)
                     /\ spread[x] = IF RecalledAt(x) = 0
                                    THEN IF SelectedRows(x) = {} THEN 0 ELSE 1
                                    ELSE Cardinality(SelectedRows(x))
  <2>1. \A x \in K : -RecalledAt(x) \in Int /\ Cardinality(SelectedRows(x)) \in Int
    BY SelectedRowsAreCounted
  <2>2. [x \in K |-> -RecalledAt(x)] \in [K -> Int]
    BY <2>1
  <2>3. [x \in K |-> IF RecalledAt(x) = 0 THEN IF SelectedRows(x) = {} THEN 0 ELSE 1
                     ELSE Cardinality(SelectedRows(x))] \in [K -> Int]
    BY <2>1
  <2>. QED  BY <2>2, <2>3
<1>4. PICK A \in SUBSET K :
        /\ A # {} /\ IsFiniteSet(A)
        /\ \A p \in A, q \in K : missed[p] <= missed[q] /\ (missed[p] = missed[q] => q \in A)
  BY <1>2, LeastBy
<1>5. PICK B \in SUBSET A :
        /\ B # {} /\ IsFiniteSet(B)
        /\ \A p \in B, q \in A : spread[p] <= spread[q] /\ (spread[p] = spread[q] => q \in B)
  BY <1>4, LeastBy
<1>6. PICK x \in B : \A q \in B : x <= q
  <2>1. Min(B) \in B /\ \A y \in B : Min(B) <= y
    BY <1>2, <1>5, Extremes
  <2>. QED  BY <2>1
<1>7. ASSUME NEW q \in K PROVE NotLess(x, q)
  <2>1. /\ missed[x] \in Int /\ missed[q] \in Int /\ spread[x] \in Int /\ spread[q] \in Int
        /\ RecalledAt(x) \in Nat /\ RecalledAt(q) \in Nat /\ x \in K
    BY SelectedRowsAreCounted
  <2>2. CASE q \notin A
    <3>1. RecalledAt(x) > RecalledAt(q)
      BY <1>3, <1>4, <2>1, <2>2
    <3>. QED  BY <3>1 DEF NotLess
  <2>3. CASE q \in A
    <3>1. RecalledAt(x) = RecalledAt(q)
      BY <1>3, <1>4, <2>1, <2>3
    <3>2. spread[x] < spread[q] \/ (spread[x] = spread[q] /\ x <= q)
      BY <1>5, <1>6, <2>1, <2>3
    <3>3. x \in Candidates /\ q \in Candidates
      OBVIOUS
    <3>4. \A y \in {x, q} : spread[y] = IF RecalledAt(y) = 0
                                        THEN IF SelectedRows(y) = {} THEN 0 ELSE 1
                                        ELSE Cardinality(SelectedRows(y))
      BY <1>3, <2>1
    <3>. QED  BY <3>1, <3>2, <3>3, <3>4, ByPrecision
  <2>. QED  BY <2>2, <2>3
<1>8. \E t \in Candidates : Allowed(t) /\ \A u \in Candidates : Allowed(u) => NotLess(t, u)
  BY <1>1, <1>7
<1>. QED  BY <1>8, Zenon DEF BestThreshold

(* Every threshold selects what a candidate selects.                       *)
LEMMA BestIsAllowed == ChoicesInv => ThresholdIsTheBestAllowed
<1>. SUFFICES ASSUME ChoicesInv, selection # Empty PROVE ThresholdIsTheBestAllowed
  BY DEF ThresholdIsTheBestAllowed
<1>1. \A t : Allowed(t) <=> Cardinality(SelectedRows(t) \cap NonRelease) * MaxRateDen <= Cardinality(NonRelease)
  BY DEF Allowed, RateOf
<1>2. ASSUME NEW t \in Scores \cup {AboveAll}, Allowed(t)
      PROVE  RecalledAt(t) <= RecalledAt(BestThreshold)
  <2>0. RecalledAt(t) \in Nat /\ RecalledAt(BestThreshold) \in Nat
    BY SelectedRowsAreCounted
  <2>1. CASE SelectedRows(t) = {}
    BY <2>0, <2>1, SelectedRowsAreCounted
  <2>2. CASE SelectedRows(t) # {}
    <3>1. PICK S \in SUBSET (1..Scored) : S = SelectedRows(t)
      BY DEF SelectedRows
    <3>2. IsFiniteSet(S)
      <4>1. IsFiniteSet(1..Scored)
        BY SplitsAssumption, FS_Interval
      <4>. QED  BY <4>1, FS_Subset
    <3>3. PICK score \in [S -> Int] : \A i \in S : score[i] = selection[i].score
      <4>1. \A i \in S : selection[i].score \in Int
        BY SelectedRowsAreCounted
      <4>2. [i \in S |-> selection[i].score] \in [S -> Int]
        BY <4>1
      <4>. QED  BY <4>2
    <3>4. PICK L \in SUBSET S : L # {} /\ \A x \in L, y \in S : score[x] <= score[y]
      BY <2>2, <3>1, <3>2, LeastBy
    <3>5. PICK u \in Candidates : /\ \A y \in S : u <= selection[y].score
                                  /\ u >= t
      <4>1. PICK x \in L : TRUE
        BY <3>4
      <4>2. selection[x].score \in Candidates /\ \A y \in S : selection[x].score <= selection[y].score
        BY <3>3, <3>4 DEF Candidates
      <4>3. selection[x].score >= t
        BY <3>1 DEF SelectedRows
      <4>. QED  BY <4>2, <4>3
    <3>6. SelectedRows(u) = S
      <4>1. \A i \in 1..Scored : selection[i].score \in Int /\ t \in Int /\ u \in Int
        BY SelectedRowsAreCounted
      <4>2. \A i \in 1..Scored : i \in S <=> selection[i].score >= t
        BY <3>1 DEF SelectedRows
      <4>3. \A i \in 1..Scored : selection[i].score >= u <=> i \in S
        BY <3>5, <4>1, <4>2
      <4>. QED  BY <4>3 DEF SelectedRows
    <3>7. SelectedRows(u) = SelectedRows(t)
      BY <3>1, <3>6
    <3>8. Allowed(u) /\ RecalledAt(u) = RecalledAt(t)
      BY <1>1, <1>2, <3>7, Zenon DEF RecalledAt
    <3>9. NotLess(BestThreshold, u)
      BY <3>8, BestIsFound
    <3>10. ~(RecalledAt(BestThreshold) < RecalledAt(u))
      <4>1. RecalledAt(BestThreshold) > RecalledAt(u) \/ RecalledAt(BestThreshold) = RecalledAt(u)
        BY <3>9 DEF NotLess
      <4>. QED  BY <2>0, <3>8, <4>1
    <3>. QED  BY <2>0, <3>8, <3>10
  <2>. QED  BY <2>1, <2>2
<1>. QED  BY <1>1, <1>2, BestIsFound DEF ThresholdIsTheBestAllowed

(* For any scores, with ties, and any limit: the threshold selected is the *)
(* best of those allowed, and a listing shows what was asked for.          *)
THEOREM ChoicesAreWhole == SplitsSpec => [](ThresholdIsTheBestAllowed /\ BlindListingIsWhole)
BY ChoicesStart, ChoicesSteps, BestIsAllowed, ListingsAreWhole, PTL DEF SplitsSpec
-----------------------------------------------------------------------------
(* The scores of families, and the cases a guard is chosen on.             *)
GuardCases ==
  [family : GuardCaseFamilies, base : {"RELEASE", "ESCALATE"}, signals : Signals]
TablesInv ==
  /\ tailTable # NotTried =>
       /\ tailTable \in [TailFamilies -> SUBSET TailScores]
       /\ \A f \in TailFamilies : IsFiniteSet(tailTable[f])
  /\ guardCases # NotTried => guardCases \subseteq GuardCases /\ IsFiniteSet(guardCases)

(* Tables and cases are examined one at a time,                            *)
LEMMA TablesSteps == TablesInv /\ [GuardNext]_guardVars => TablesInv'
<1>. SUFFICES ASSUME TablesInv, [GuardNext]_guardVars PROVE TablesInv'
  OBVIOUS
<1>1. CASE ExamineFold
  BY <1>1 DEF ExamineFold, GuardInit, TablesInv
<1>2. CASE ExamineTails
  <2>1. guardCases' = NotTried
    BY <1>2 DEF ExamineTails, GuardInit
  <2>2. tailTable' \in [TailFamilies -> SUBSET TailScores]
    BY <1>2 DEF ExamineTails, kSubset
  <2>3. \A f \in TailFamilies : IsFiniteSet(tailTable'[f])
    <3>1. \A T \in SUBSET TailScores : IsFiniteSet(T)
      BY FamilyGuardAssumption, FS_Subset
    <3>. QED  BY <2>2, <3>1
  <2>. QED  BY <2>1, <2>2, <2>3 DEF TablesInv
<1>3. CASE ExamineGuardChoice
  <2>1. tailTable' = NotTried
    BY <1>3 DEF ExamineGuardChoice, GuardInit
  <2>2. PICK drawn \in [1..MaxGuardCases ->
                    [family : GuardCaseFamilies, base : {"RELEASE"}, signals : Signals] \cup
                    [family : GuardCaseFamilies, base : {"ESCALATE"}, signals : {{}}]] :
          guardCases' = Range(drawn)
    BY <1>3 DEF ExamineGuardChoice
  <2>3. drawn \in [1..MaxGuardCases -> GuardCases]
    BY <2>2 DEF GuardCases, Signals
  <2>4. drawn \in Surjection(1..MaxGuardCases, Range(drawn)) /\ Range(drawn) \subseteq GuardCases
    BY <2>3 DEF Surjection, Range
  <2>5. IsFiniteSet(1..MaxGuardCases)
    BY FamilyGuardAssumption, FS_Interval
  <2>6. IsFiniteSet(Range(drawn))
    BY <2>4, <2>5, FS_Surjection
  <2>. QED  BY <2>1, <2>2, <2>4, <2>6 DEF TablesInv
<1>4. CASE UNCHANGED guardVars
  BY <1>4 DEF guardVars, TablesInv, GuardCases
<1>. QED  BY <1>1, <1>2, <1>3, <1>4 DEF GuardNext

(* and none at first.                                                      *)
LEMMA TablesStart == GuardInit => TablesInv
BY DEF GuardInit, TablesInv

(* A tail threshold is one of the scores, with so many below it.           *)
LEMMA TailThresholdIs ==
  ASSUME NEW T, IsFiniteSet(T), T # {}, T \subseteq Int
  PROVE  \E k \in 1..Cardinality(T) :
           /\ k = Min({Cardinality(T), Max({((Cardinality(T) + 1) * (TailDen - TailNum) + TailDen - 1) \div TailDen, 1})})
           /\ TailThreshold(T) \in T
           /\ \E upto \in SUBSET T : k <= Cardinality(upto) /\ \A x \in upto : x <= TailThreshold(T)
<1> DEFINE rank == ((Cardinality(T) + 1) * (TailDen - TailNum) + TailDen - 1) \div TailDen
<1>1. PICK n \in Nat : n = Cardinality(T) /\ n >= 1
  BY FS_CardinalityType, FS_EmptySet
<1>2. PICK r \in Int : r = rank
  <2>1. (n + 1) * (TailDen - TailNum) + TailDen - 1 \in Int /\ TailDen \in Nat \ {0}
    <3>1. TailDen - TailNum \in Int
      BY FamilyGuardAssumption
    <3>. QED  BY <3>1, FamilyGuardAssumption
  <2>2. ((n + 1) * (TailDen - TailNum) + TailDen - 1) \div TailDen \in Int
    BY <2>1, DivIs
  <2>. QED  BY <1>1, <2>2
<1>3. PICK big \in Int : big = Max({r, 1}) /\ big >= 1
  BY OfTwo
<1>4. PICK k \in 1..Cardinality(T) : k = Min({n, big})
  <2>1. Min({n, big}) = IF n <= big THEN n ELSE big
    BY OfTwo
  <2>. QED  BY <1>1, <1>3, <2>1
<1>5. k = Min({Cardinality(T), Max({rank, 1})})
  BY <1>1, <1>2, <1>3, <1>4, Zenon
<1>6. \E x \in T : Cardinality({y \in T : y < x}) = k - 1
  <2> DEFINE below == [x \in T |-> {y \in T : y < x}]
  <2>1. \A i \in 0..(Cardinality(T) - 1) : \E x \in T : Cardinality(below[x]) = i
    <3>1. below \in [T -> SUBSET T]
      OBVIOUS
    <3>2. \A x, y \in T : x \in below[y] <=> x < y
      OBVIOUS
    <3>3. \A x \in T : x \notin below[x]
      BY <3>2
    <3>4. \A x, y, z \in T : x \in below[y] /\ y \in below[z] => x \in below[z]
      BY <3>2
    <3>5. \A x, y \in T : x = y \/ x \in below[y] \/ y \in below[x]
      BY <3>2
    <3>. HIDE DEF below
    <3>. QED  BY <3>1, <3>3, <3>4, <3>5, Ranks
  <2>2. k - 1 \in 0..(Cardinality(T) - 1)
    BY <1>1
  <2>3. PICK x \in T : Cardinality(below[x]) = k - 1
    <3>. HIDE DEF below
    <3>. QED  BY <2>1, <2>2
  <2>4. below[x] = {y \in T : y < x}
    OBVIOUS
  <2>. HIDE DEF below
  <2>. QED  BY <2>3, <2>4, Zenon
<1>9. TailThreshold(T) = CHOOSE s \in T : Cardinality({y \in T : y < s}) = k - 1
  BY <1>5, Zenon DEF TailThreshold
<1>11. PICK s \in T : s = TailThreshold(T) /\ Cardinality({y \in T : y < s}) = k - 1
  BY <1>6, <1>9, Zenon
<1>12. PICK lower \in SUBSET T : lower = {y \in T : y < s}
  OBVIOUS
<1>13. lower \cup {s} \in SUBSET T /\ s \notin lower /\ (\A y \in lower \cup {s} : y <= s)
  BY <1>12
<1>14. IsFiniteSet(lower) /\ Cardinality(lower) = k - 1
  BY <1>11, <1>12, FS_Subset
<1>15. Cardinality(lower \cup {s}) = k
  <2>1. k \in Int
    BY <1>1
  <2>2. Cardinality(lower \cup {s}) = Cardinality(lower) + 1
    BY <1>13, <1>14, FS_AddElement
  <2>. QED  BY <1>14, <2>1, <2>2
<1>16. k <= Cardinality(lower \cup {s})
  BY <1>1, <1>15
<1>. QED  BY <1>1, <1>5, <1>11, <1>13, <1>16

(* A family's own threshold is not above the one all families agree to.    *)
LEMMA RobustIsHigher ==
  ASSUME NEW table \in [TailFamilies -> SUBSET TailScores],
         \A g \in TailFamilies : IsFiniteSet(table[g]),
         NEW f \in Calibrating(table)
  PROVE  RobustThreshold(table) \in Int /\ TailThreshold(table[f]) <= RobustThreshold(table)
<1>1. ASSUME NEW g \in Calibrating(table) PROVE TailThreshold(table[g]) \in Int
  <2>1. g \in TailFamilies /\ Cardinality(table[g]) >= MinTail /\ MinTail >= 1 /\ MinTail \in Int
    BY FamilyGuardAssumption DEF Calibrating
  <2>2. IsFiniteSet(table[g]) /\ table[g] \subseteq Int
    BY <2>1, FamilyGuardAssumption
  <2>3. table[g] # {}
    <3>1. Cardinality({}) = 0
      BY FS_EmptySet
    <3>. QED  BY <2>1, <3>1
  <2>4. TailThreshold(table[g]) \in table[g]
    BY <2>2, <2>3, TailThresholdIs
  <2>. QED  BY <2>2, <2>4
<1>2. PICK T \in SUBSET Int : T = {TailThreshold(table[g]) : g \in Calibrating(table)}
  BY <1>1
<1>3. IsFiniteSet(Calibrating(table))
  BY FamilyGuardAssumption, FS_Subset DEF Calibrating
<1>4. [g \in Calibrating(table) |-> TailThreshold(table[g])] \in Surjection(Calibrating(table), T)
  BY <1>2 DEF Surjection
<1>5. IsFiniteSet(T) /\ T # {}
  BY <1>2, <1>3, <1>4, FS_Surjection
<1>6. Max(T) \in T /\ \A y \in T : y <= Max(T)
  BY <1>5, Extremes
<1>7. TailThreshold(table[f]) \in T
  BY <1>2
<1>. QED  BY <1>2, <1>6, <1>7 DEF RobustThreshold

(* The members of a family that the others' threshold signals are few:     *)
(* each has as many of its family below it as the threshold's rank.        *)
LEMMA FamilyRate == TablesInv => FamiliesKeepTheirRate
<1>. SUFFICES ASSUME TablesInv, tailTable # NotTried, NEW f \in TailFamilies,
                     Cardinality(tailTable[f]) > MinTail
              PROVE  Cardinality({s \in tailTable[f] : s >= RobustThreshold([tailTable EXCEPT ![f] = @ \ {s}])}) * TailDen
                       <= Max({Cardinality(tailTable[f]) * TailNum, TailDen})
  BY DEF FamiliesKeepTheirRate
<1>1. PICK T : T = tailTable[f]
  OBVIOUS
<1>2. tailTable \in [TailFamilies -> SUBSET TailScores] /\ IsFiniteSet(T) /\ \A x \in T : x \in Int
  BY <1>1, FamilyGuardAssumption DEF TablesInv
<1>3. PICK m \in Nat : m = Cardinality(T) /\ m > MinTail /\ m >= 2 /\ MinTail \in Nat
  <2>1. Cardinality(T) \in Nat
    BY <1>2, FS_CardinalityType
  <2>. QED  BY <1>1, <2>1, FamilyGuardAssumption
<1>4. PICK D \in Nat \ {0}, A \in 0..TailDen : D = TailDen /\ A = TailNum /\ 2 * A < D
  BY FamilyGuardAssumption
<1>5. PICK q \in Nat : (m * (D - A) + D - 1) \div D = m - q /\ q <= m /\ D * q <= m * A
  <2>1. A \in 0..D
    BY <1>4
  <2>. QED  BY <2>1, CeilingIs
<1>6. 2 * q <= m
  <2>1. SUFFICES ASSUME m + 1 <= 2 * q PROVE FALSE
    OBVIOUS
  <2>2. D * (m + 1) <= D * (2 * q) /\ m * (2 * A) <= m * D
    BY <1>4, <2>1, TimesKeepsOrder
  <2>3. D * (m + 1) = D * m + D /\ D * (2 * q) = 2 * (D * q) /\ m * (2 * A) = 2 * (m * A) /\ m * D = D * m
    OBVIOUS
  <2>4. D * q \in Nat /\ m * A \in Nat /\ D * m \in Nat
    OBVIOUS
  <2>. QED  BY <1>5, <2>2, <2>3, <2>4
<1>7. PICK k \in 1..(m - 1) : /\ k = Min({m - 1, Max({m - q, 1})})
                              /\ m - k = IF q <= 1 THEN 1 ELSE q
  <2>1. PICK x \in Int : x = Max({m - q, 1}) /\ x = m - q
    <3>1. m - q \in Int /\ m - q >= 1
      BY <1>3, <1>6
    <3>2. Max({m - q, 1}) = IF m - q >= 1 THEN m - q ELSE 1
      BY <3>1, OfTwo
    <3>. QED  BY <3>1, <3>2
  <2>2. PICK y \in Int : y = Min({m - 1, x}) /\ y = IF m - 1 <= x THEN m - 1 ELSE x
    <3>1. m - 1 \in Int
      OBVIOUS
    <3>. QED  BY <3>1, OfTwo
  <2>3. y \in 1..(m - 1) /\ m - y = IF q <= 1 THEN 1 ELSE q
    <3>1. m - 1 <= m - q <=> q <= 1
      OBVIOUS
    <3>2. y = IF q <= 1 THEN m - 1 ELSE m - q
      BY <2>1, <2>2, <3>1, Zenon
    <3>3. CASE q <= 1
      BY <1>3, <3>2, <3>3
    <3>4. CASE q > 1
      BY <1>3, <1>6, <3>2, <3>4
    <3>. QED  BY <3>3, <3>4
  <2>4. y = Min({m - 1, Max({m - q, 1})})
    BY <2>1, <2>2, Zenon
  <2>. QED  BY <2>3, <2>4
<1> DEFINE without(s) == [tailTable EXCEPT ![f] = @ \ {s}]
<1>8. PICK W \in SUBSET T : W = {s \in T : s >= RobustThreshold(without(s))}
  OBVIOUS
<1>9. ASSUME NEW s \in W
      PROVE  \E less \in SUBSET T : k <= Cardinality(less) /\ \A y \in less : y < s
  <2>1. PICK R : R = T \ {s}
    OBVIOUS
  <2>2. IsFiniteSet(R) /\ Cardinality(R) = m - 1
    <3>1. s \in T
      OBVIOUS
    <3>2. IsFiniteSet(T \ {s}) /\ Cardinality(T \ {s}) = Cardinality(T) - 1
      BY <1>2, <3>1, FS_RemoveElement
    <3>. QED  BY <1>3, <2>1, <3>2
  <2>3. PICK table \in [TailFamilies -> SUBSET TailScores] : table = without(s) /\ table[f] = R
    <3>1. tailTable[f] \ {s} \in SUBSET TailScores
      BY <1>2
    <3>2. without(s) \in [TailFamilies -> SUBSET TailScores] /\ without(s)[f] = tailTable[f] \ {s}
      BY <1>2, <3>1
    <3>. HIDE DEF without
    <3>. QED  BY <1>1, <2>1, <3>2
  <2>4. \A g \in TailFamilies : IsFiniteSet(table[g])
    <3>1. \A g \in TailFamilies : table[g] = IF g = f THEN R ELSE tailTable[g]
      BY <1>1, <1>2, <2>1, <2>3
    <3>. QED  BY <2>2, <3>1 DEF TablesInv
  <2>5. f \in Calibrating(table)
    <3>1. Cardinality(table[f]) = m - 1
      BY <2>2, <2>3, Zenon
    <3>2. Cardinality(table[f]) >= MinTail
      BY <1>3, <3>1
    <3>. QED  BY <3>2 DEF Calibrating
  <2>6. RobustThreshold(table) \in Int /\ TailThreshold(R) <= RobustThreshold(table)
    BY <2>3, <2>4, <2>5, RobustIsHigher
  <2>7. R # {} /\ R \subseteq Int
    <3>1. Cardinality({}) = 0
      BY FS_EmptySet
    <3>. QED  BY <1>2, <1>3, <2>1, <2>2, <3>1
  <2>8. PICK j \in Int, upto \in SUBSET R :
          /\ j = Min({Cardinality(R), Max({((Cardinality(R) + 1) * (TailDen - TailNum) + TailDen - 1) \div TailDen, 1})})
          /\ TailThreshold(R) \in R
          /\ j <= Cardinality(upto) /\ \A x \in upto : x <= TailThreshold(R)
    <3>1. PICK j \in 1..Cardinality(R) :
           /\ j = Min({Cardinality(R), Max({((Cardinality(R) + 1) * (TailDen - TailNum) + TailDen - 1) \div TailDen, 1})})
           /\ TailThreshold(R) \in R
           /\ \E upto \in SUBSET R : j <= Cardinality(upto) /\ \A x \in upto : x <= TailThreshold(R)
      BY <2>2, <2>7, TailThresholdIs
    <3>2. j \in Int
      BY <2>2
    <3>. QED  BY <3>1, <3>2
  <2>9. j = k
    <3>1. m - 1 + 1 = m
      OBVIOUS
    <3>. QED  BY <1>4, <1>5, <1>7, <2>2, <2>8, <3>1, Zenon
  <2>10. s >= RobustThreshold(table)
    BY <1>8, <2>3
  <2>11. PICK t \in Int : t = TailThreshold(R) /\ t \in R /\ t # s /\ t <= s /\ s \in Int
    <3>1. s \in Int
      BY <1>2
    <3>2. TailThreshold(R) \in R /\ TailThreshold(R) \in Int
      BY <2>7, <2>8
    <3>3. TailThreshold(R) # s
      BY <2>1, <3>2
    <3>4. TailThreshold(R) <= s
      BY <2>6, <2>10, <3>1, <3>2
    <3>. QED  BY <3>1, <3>2, <3>3, <3>4, Zenon
  <2>12. upto \in SUBSET T /\ \A y \in upto : y < s
    <3>1. \A y \in upto : y \in Int /\ y <= t
      BY <2>7, <2>8, <2>11
    <3>. QED  BY <2>1, <2>11, <3>1
  <2>. QED  BY <2>8, <2>9, <2>12
<1>10. Cardinality(W) \in Nat /\ Cardinality(W) <= m - k
  <2>1. PICK v \in [T -> Int] : \A x \in T : v[x] = x
    <3>1. [x \in T |-> x] \in [T -> Int]
      BY <1>2
    <3>. QED  BY <3>1
  <2>2. \A x, y \in T : v[x] = v[y] => x = y
    BY <2>1
  <2>3. \A x \in W : \E less \in SUBSET T : k <= Cardinality(less) /\ \A y \in less : v[y] < v[x]
    BY <1>9, <2>1
  <2>4. k \in 0..Cardinality(T)
    BY <1>3, <1>7
  <2>. HIDE DEF without
  <2>5. Cardinality(W) <= Cardinality(T) - k /\ Cardinality(W) \in Nat
    BY <1>2, <2>2, <2>3, <2>4, BeyondSoMany
  <2>. QED  BY <1>3, <2>5
<1>11. Cardinality(W) * D <= Max({m * A, D})
  <2>1. PICK c \in Nat : c = Cardinality(W) /\ c <= (IF q <= 1 THEN 1 ELSE q)
    BY <1>7, <1>10
  <2>2. PICK x \in Int, y \in Int : x = m * A /\ y = Max({x, D}) /\ y = (IF x >= D THEN x ELSE D)
    <3>1. PICK x \in Int : x = m * A
      BY <1>4, FamilyGuardAssumption
    <3>2. Max({x, D}) = IF x >= D THEN x ELSE D
      BY OfTwo
    <3>3. Max({x, D}) \in Int
      BY <3>2
    <3>. QED  BY <3>1, <3>2, <3>3
  <2>3. c * D = D * c /\ c * D \in Nat /\ D * q \in Nat
    OBVIOUS
  <2>4. CASE q <= 1
    <3>1. D * c <= D * 1
      BY <2>1, <2>4, TimesKeepsOrder
    <3>. QED  BY <2>1, <2>2, <2>3, <3>1
  <2>5. CASE q > 1
    <3>1. D * c <= D * q
      BY <2>1, <2>5, TimesKeepsOrder
    <3>2. D * q <= x
      BY <1>5, <2>2
    <3>. QED  BY <2>1, <2>2, <2>3, <3>1, <3>2
  <2>. QED  BY <2>4, <2>5
<1>12. W = {s \in tailTable[f] : s >= RobustThreshold([tailTable EXCEPT ![f] = @ \ {s}])}
  BY <1>1, <1>8
<1>. QED  BY <1>1, <1>3, <1>4, <1>11, <1>12, Zenon
-----------------------------------------------------------------------------
(* The row that is taken is first in the first key, and no other is as     *)
(* small in every key and smaller in one.                                  *)
LEMMA LeastKeyIs ==
  ASSUME NEW S \in SUBSET DOMAIN Rules, S # {}, NEW keys,
         \A i \in DOMAIN Rules : \E a, b, c, d \in Int : keys[i] = <<a, b, c, d>>
  PROVE  /\ LeastKey(keys, S) \in S
         /\ \A j \in S : keys[LeastKey(keys, S)][1] <= keys[j][1]
         /\ \A j \in S : (\A k \in 1..4 : keys[j][k] <= keys[LeastKey(keys, S)][k])
                          => \A k \in 1..4 : keys[j][k] = keys[LeastKey(keys, S)][k]
<1>1. DOMAIN Rules = 1..3
  BY DEF Rules
<1>2. PICK p \in [1..3 -> Int], q \in [1..3 -> Int], r \in [1..3 -> Int], s \in [1..3 -> Int] :
         \A i \in 1..3 : keys[i] = <<p[i], q[i], r[i], s[i]>>
  <2> DEFINE part(k) == [i \in 1..3 |-> keys[i][k]]
  <2>1. ASSUME NEW i \in 1..3
        PROVE  /\ keys[i][1] \in Int /\ keys[i][2] \in Int /\ keys[i][3] \in Int /\ keys[i][4] \in Int
               /\ keys[i] = <<keys[i][1], keys[i][2], keys[i][3], keys[i][4]>>
    <3>1. PICK a \in Int, b \in Int, c \in Int, d \in Int : keys[i] = <<a, b, c, d>>
      BY <1>1
    <3>. QED  BY <3>1
  <2>2. /\ part(1) \in [1..3 -> Int] /\ part(2) \in [1..3 -> Int]
        /\ part(3) \in [1..3 -> Int] /\ part(4) \in [1..3 -> Int]
    BY <2>1
  <2>3. \A i \in 1..3 : keys[i] = <<part(1)[i], part(2)[i], part(3)[i], part(4)[i]>>
    BY <2>1
  <2>. HIDE DEF part
  <2>. QED  BY <2>2, <2>3
<1>3. ASSUME NEW i \in 1..3, NEW j \in 1..3
      PROVE  Before(keys, i, j) <=> \/ p[i] < p[j]
                                    \/ p[i] = p[j] /\ q[i] < q[j]
                                    \/ p[i] = p[j] /\ q[i] = q[j] /\ r[i] < r[j]
                                    \/ p[i] = p[j] /\ q[i] = q[j] /\ r[i] = r[j] /\ s[i] < s[j]
  <2>1. DOMAIN keys[i] = 1..4
    BY <1>2
  <2>2. /\ keys[i][1] = p[i] /\ keys[i][2] = q[i] /\ keys[i][3] = r[i] /\ keys[i][4] = s[i]
        /\ keys[j][1] = p[j] /\ keys[j][2] = q[j] /\ keys[j][3] = r[j] /\ keys[j][4] = s[j]
    BY <1>2
  <2>3. Before(keys, i, j) <=>
          \E k \in 1..4 : keys[i][k] < keys[j][k] /\ \A l \in 1..(k - 1) : keys[i][l] = keys[j][l]
    BY <2>1, Zenon DEF Before
  <2>4. ASSUME NEW k \in 1..4
        PROVE  (\A l \in 1..(k - 1) : keys[i][l] = keys[j][l]) <=>
                 /\ k > 1 => p[i] = p[j]
                 /\ k > 2 => q[i] = q[j]
                 /\ k > 3 => r[i] = r[j]
    BY <2>2
  <2>5. Before(keys, i, j) <=>
          \E k \in 1..4 : /\ keys[i][k] < keys[j][k]
                          /\ k > 1 => p[i] = p[j]
                          /\ k > 2 => q[i] = q[j]
                          /\ k > 3 => r[i] = r[j]
    BY <2>3, <2>4
  <2>. QED  BY <2>2, <2>5
<1>4. IsFiniteSet(S) /\ S \subseteq 1..3
  <2>1. IsFiniteSet(1..3)
    <3>1. 1 \in Int /\ 3 \in Int
      OBVIOUS
    <3>. QED  BY <3>1, FS_Interval, Zenon
  <2>. QED  BY <1>1, <2>1, FS_Subset
<1>5. PICK A \in SUBSET S :
        /\ A # {} /\ IsFiniteSet(A)
        /\ \A x \in A, y \in S : p[x] <= p[y] /\ (p[x] = p[y] => y \in A)
  BY <1>4, LeastBy
<1>6. PICK B \in SUBSET A :
        /\ B # {} /\ IsFiniteSet(B)
        /\ \A x \in B, y \in A : q[x] <= q[y] /\ (q[x] = q[y] => y \in B)
  BY <1>4, <1>5, LeastBy
<1>7. PICK C \in SUBSET B :
        /\ C # {} /\ IsFiniteSet(C)
        /\ \A x \in C, y \in B : r[x] <= r[y] /\ (r[x] = r[y] => y \in C)
  BY <1>4, <1>6, LeastBy
<1>8. PICK E \in SUBSET C :
        /\ E # {} /\ IsFiniteSet(E)
        /\ \A x \in E, y \in C : s[x] <= s[y] /\ (s[x] = s[y] => y \in E)
  BY <1>4, <1>7, LeastBy
<1>9. PICK i \in E : \A j \in E : i <= j
  <2>1. E \in SUBSET Nat
    BY <1>4
  <2>. QED  BY <1>8, <2>1, LeastOf
<1>10. ASSUME NEW j \in S \ {i} PROVE Before(keys, i, j) \/ (~Before(keys, j, i) /\ i < j)
  <2>1. i \in 1..3 /\ j \in 1..3 /\ i \in S
    BY <1>4
  <2>2. /\ p[i] \in Int /\ q[i] \in Int /\ r[i] \in Int /\ s[i] \in Int
        /\ p[j] \in Int /\ q[j] \in Int /\ r[j] \in Int /\ s[j] \in Int
    BY <2>1
  <2>3. CASE j \notin A
    <3>1. p[i] < p[j]
      BY <1>5, <2>2, <2>3
    <3>. QED  BY <1>3, <2>1, <3>1
  <2>4. CASE j \in A /\ j \notin B
    <3>1. p[i] = p[j]
      BY <1>5, <2>2, <2>4
    <3>2. q[i] < q[j]
      BY <1>6, <2>2, <2>4
    <3>. QED  BY <1>3, <2>1, <3>1, <3>2
  <2>5. CASE j \in B /\ j \notin C
    <3>1. p[i] = p[j] /\ q[i] = q[j]
      BY <1>5, <1>6, <2>2, <2>5
    <3>2. r[i] < r[j]
      BY <1>7, <2>2, <2>5
    <3>. QED  BY <1>3, <2>1, <3>1, <3>2
  <2>6. CASE j \in C
    <3>1. p[i] = p[j] /\ q[i] = q[j] /\ r[i] = r[j]
      BY <1>5, <1>6, <1>7, <2>2, <2>6
    <3>2. s[i] <= s[j] /\ (s[i] = s[j] => j \in E)
      BY <1>8, <2>6
    <3>3. CASE s[i] < s[j]
      BY <1>3, <2>1, <3>1, <3>3
    <3>4. CASE s[i] = s[j]
      <4>1. i < j
        BY <1>9, <2>1, <3>2, <3>4
      <4>2. ~Before(keys, j, i)
        BY <1>3, <2>1, <2>2, <3>1, <3>4
      <4>. QED  BY <4>1, <4>2
    <3>. QED  BY <2>2, <3>2, <3>3, <3>4
  <2>. QED  BY <2>3, <2>4, <2>5, <2>6
<1>11. PICK l \in S : /\ l = LeastKey(keys, S)
                      /\ \A j \in S \ {l} : Before(keys, l, j) \/ (~Before(keys, j, l) /\ l < j)
  <2>1. \E x \in S : \A j \in S \ {x} : Before(keys, x, j) \/ (~Before(keys, j, x) /\ x < j)
    BY <1>10
  <2>. QED  BY <2>1, Zenon DEF LeastKey
<1>12. ASSUME NEW j \in S
       PROVE  /\ keys[l][1] <= keys[j][1]
              /\ (\A k \in 1..4 : keys[j][k] <= keys[l][k]) => \A k \in 1..4 : keys[j][k] = keys[l][k]
  <2>1. l \in 1..3 /\ j \in 1..3
    BY <1>4
  <2>2. /\ p[l] \in Int /\ q[l] \in Int /\ r[l] \in Int /\ s[l] \in Int
        /\ p[j] \in Int /\ q[j] \in Int /\ r[j] \in Int /\ s[j] \in Int
    BY <2>1
  <2>3. l = j \/ ~Before(keys, j, l)
    <3>1. Before(keys, l, j) => ~Before(keys, j, l)
      BY <1>3, <2>1, <2>2
    <3>. QED  BY <1>11, <3>1
  <2>4. /\ keys[l][1] = p[l] /\ keys[l][2] = q[l] /\ keys[l][3] = r[l] /\ keys[l][4] = s[l]
        /\ keys[j][1] = p[j] /\ keys[j][2] = q[j] /\ keys[j][3] = r[j] /\ keys[j][4] = s[j]
    BY <1>2, <2>1
  <2>5. l = j \/ ~(\/ p[j] < p[l]
                   \/ p[j] = p[l] /\ q[j] < q[l]
                   \/ p[j] = p[l] /\ q[j] = q[l] /\ r[j] < r[l]
                   \/ p[j] = p[l] /\ q[j] = q[l] /\ r[j] = r[l] /\ s[j] < s[l])
    BY <1>3, <2>1, <2>3
  <2>6. p[l] <= p[j]
    BY <2>2, <2>5
  <2>7. ASSUME p[j] <= p[l], q[j] <= q[l], r[j] <= r[l], s[j] <= s[l]
        PROVE  p[j] = p[l] /\ q[j] = q[l] /\ r[j] = r[l] /\ s[j] = s[l]
    BY <2>2, <2>5, <2>7
  <2>8. (\A k \in 1..4 : keys[j][k] <= keys[l][k]) =>
          p[j] <= p[l] /\ q[j] <= q[l] /\ r[j] <= r[l] /\ s[j] <= s[l]
    BY <2>4
  <2>9. p[j] = p[l] /\ q[j] = q[l] /\ r[j] = r[l] /\ s[j] = s[l] => \A k \in 1..4 : keys[j][k] = keys[l][k]
    BY <2>4
  <2>. QED  BY <2>4, <2>6, <2>7, <2>8, <2>9
<1>. QED  BY <1>11, <1>12, Zenon

(* The cases a guard treats in a way, and what they cost.                  *)
ReleasedCases(target) == {c \in guardCases : c.base = "RELEASE" /\ TargetOfFamily[c.family] = target}
SignalledCases(rule, target) == {c \in ReleasedCases(target) : Signal(rule, c.signals)}
EscalatedCases(target) == {c \in guardCases : c.base = "ESCALATE" /\ TargetOfFamily[c.family] = target}

(* A signal moves a released case to evidence, and no other.               *)
LEMMA CaseCounts ==
  ASSUME TablesInv, guardCases # NotTried, NEW rule, NEW target
  PROVE  /\ Cardinality(ReleasedCases(target)) \in Nat /\ Cardinality(SignalledCases(rule, target)) \in Nat
         /\ Cardinality(EscalatedCases(target)) \in Nat
         /\ Cardinality(CasesOf([c \in guardCases |-> GuardedAction(c, rule)], "RELEASE", target))
              = Cardinality(ReleasedCases(target)) - Cardinality(SignalledCases(rule, target))
         /\ CasesOf([c \in guardCases |-> GuardedAction(c, rule)], "EVIDENCE_NEEDED", target)
              = SignalledCases(rule, target)
         /\ CasesOf([c \in guardCases |-> GuardedAction(c, rule)], "ESCALATE", target) = EscalatedCases(target)
         /\ CasesOf([c \in guardCases |-> c.base], "RELEASE", target) = ReleasedCases(target)
         /\ CasesOf([c \in guardCases |-> c.base], "EVIDENCE_NEEDED", target) = {}
         /\ CasesOf([c \in guardCases |-> c.base], "ESCALATE", target) = EscalatedCases(target)
<1>1. IsFiniteSet(guardCases) /\ \A c \in guardCases : c.base \in {"RELEASE", "ESCALATE"}
  BY DEF TablesInv, GuardCases
<1>2. \A T \in SUBSET guardCases : IsFiniteSet(T) /\ Cardinality(T) \in Nat
  BY <1>1, FS_Subset, FS_CardinalityType
<1> DEFINE taken == [c \in guardCases |-> GuardedAction(c, rule)]
           R == ReleasedCases(target)
           S == SignalledCases(rule, target)
<1>3. R \in SUBSET guardCases /\ S \in SUBSET R /\ EscalatedCases(target) \in SUBSET guardCases
  BY DEF ReleasedCases, SignalledCases, EscalatedCases
<1>4. \A c \in guardCases :
        /\ taken[c] = "RELEASE" <=> c.base = "RELEASE" /\ ~Signal(rule, c.signals)
        /\ taken[c] = "EVIDENCE_NEEDED" <=> c.base = "RELEASE" /\ Signal(rule, c.signals)
        /\ taken[c] = "ESCALATE" <=> c.base = "ESCALATE"
  BY <1>1 DEF GuardedAction
<1>. HIDE DEF taken
<1>5. CasesOf(taken, "RELEASE", target) = R \ S
  BY <1>4 DEF CasesOf, ReleasedCases, SignalledCases
<1>6. CasesOf(taken, "EVIDENCE_NEEDED", target) = S
  BY <1>4 DEF CasesOf, ReleasedCases, SignalledCases
<1>7. CasesOf(taken, "ESCALATE", target) = EscalatedCases(target)
  BY <1>4 DEF CasesOf, EscalatedCases
<1>8. Cardinality(R \ S) = Cardinality(R) - Cardinality(S)
  <2>. HIDE DEF R, S
  <2>1. IsFiniteSet(R) /\ R \cap S = S
    BY <1>2, <1>3
  <2>2. Cardinality(R \ S) = Cardinality(R) - Cardinality(R \cap S)
    BY <2>1, FS_Difference
  <2>. QED  BY <2>1, <2>2
<1>9. /\ CasesOf([c \in guardCases |-> c.base], "RELEASE", target) = R
      /\ CasesOf([c \in guardCases |-> c.base], "EVIDENCE_NEEDED", target) = {}
      /\ CasesOf([c \in guardCases |-> c.base], "ESCALATE", target) = EscalatedCases(target)
  BY <1>1 DEF CasesOf, ReleasedCases, EscalatedCases
<1>10. Cardinality(R) \in Nat /\ Cardinality(S) \in Nat /\ Cardinality(EscalatedCases(target)) \in Nat
  <2>. HIDE DEF R, S
  <2>1. S \in SUBSET guardCases
    BY <1>3
  <2>. QED  BY <1>2, <1>3, <2>1
<1>. QED  BY <1>5, <1>6, <1>7, <1>8, <1>9, <1>10 DEF taken

(* A guard costs less by whom it diverts; what it leaves released, and     *)
(* whom it diverts, follow from the same three numbers.                    *)
LEMMA CostsFollowDiversions ==
  ASSUME TablesInv, guardCases # NotTried, NEW rule
  PROVE  /\ BaseCost \in Int
         /\ CostUnder(rule) = BaseCost + 5 * Cardinality(SignalledCases(rule, "RELEASE"))
                              - 20 * Cardinality(SignalledCases(rule, "EVIDENCE_NEEDED"))
                              - 70 * Cardinality(SignalledCases(rule, "ESCALATE"))
<1> DEFINE taken == [c \in guardCases |-> GuardedAction(c, rule)]
           base == [c \in guardCases |-> c.base]
           n(t, action, target) == Cardinality(CasesOf(t, action, target))
           r(target) == Cardinality(ReleasedCases(target))
           s(target) == Cardinality(SignalledCases(rule, target))
           e(target) == Cardinality(EscalatedCases(target))
           R == "RELEASE"
           V == "EVIDENCE_NEEDED"
           X == "ESCALATE"
<1>1. ASSUME NEW target
      PROVE  /\ r(target) \in Nat /\ s(target) \in Nat /\ e(target) \in Nat
             /\ n(taken, R, target) = r(target) - s(target)
             /\ n(taken, V, target) = s(target) /\ n(taken, X, target) = e(target)
             /\ n(base, R, target) = r(target) /\ n(base, V, target) = 0 /\ n(base, X, target) = e(target)
  BY CaseCounts, FS_EmptySet
<1>2. ASSUME NEW t
      PROVE  CaseCost(t) = (0 * n(t, R, R) + 25 * n(t, R, V) + 100 * n(t, R, X))
                           + (5 * n(t, V, R) + 5 * n(t, V, V) + 30 * n(t, V, X))
                           + (40 * n(t, X, R) + 20 * n(t, X, V) + 5 * n(t, X, X))
  <2>1. /\ GuardCost(R, R) = 0 /\ GuardCost(R, V) = 25 /\ GuardCost(R, X) = 100
        /\ GuardCost(V, R) = 5 /\ GuardCost(V, V) = 5 /\ GuardCost(V, X) = 30
        /\ GuardCost(X, R) = 40 /\ GuardCost(X, V) = 20 /\ GuardCost(X, X) = 5
    BY DEF GuardCost
  <2>2. CaseCost(t) = (GuardCost(R, R) * n(t, R, R) + GuardCost(R, V) * n(t, R, V) + GuardCost(R, X) * n(t, R, X))
                      + (GuardCost(V, R) * n(t, V, R) + GuardCost(V, V) * n(t, V, V) + GuardCost(V, X) * n(t, V, X))
                      + (GuardCost(X, R) * n(t, X, R) + GuardCost(X, V) * n(t, X, V) + GuardCost(X, X) * n(t, X, X))
    BY Zenon DEF CaseCost
  <2>. QED  BY <2>1, <2>2, Zenon
<1>3. CostUnder(rule) = CaseCost(taken) /\ BaseCost = CaseCost(base)
  BY DEF CostUnder, BaseCost
<1>4. PICK rr \in Nat, rv \in Nat, rx \in Nat, sr \in Nat, sv \in Nat, sx \in Nat, er \in Nat, ev \in Nat, ex \in Nat :
        /\ rr = r(R) /\ rv = r(V) /\ rx = r(X) /\ sr = s(R) /\ sv = s(V) /\ sx = s(X)
        /\ er = e(R) /\ ev = e(V) /\ ex = e(X)
  BY <1>1
<1>5. /\ n(taken, R, R) = rr - sr /\ n(taken, R, V) = rv - sv /\ n(taken, R, X) = rx - sx
      /\ n(taken, V, R) = sr /\ n(taken, V, V) = sv /\ n(taken, V, X) = sx
      /\ n(taken, X, R) = er /\ n(taken, X, V) = ev /\ n(taken, X, X) = ex
      /\ n(base, R, R) = rr /\ n(base, R, V) = rv /\ n(base, R, X) = rx
      /\ n(base, V, R) = 0 /\ n(base, V, V) = 0 /\ n(base, V, X) = 0
      /\ n(base, X, R) = er /\ n(base, X, V) = ev /\ n(base, X, X) = ex
  BY <1>1, <1>4, Zenon
<1>. HIDE DEF taken, base, n
<1>6. CostUnder(rule) = (0 * (rr - sr) + 25 * (rv - sv) + 100 * (rx - sx)) + (5 * sr + 5 * sv + 30 * sx)
                        + (40 * er + 20 * ev + 5 * ex)
  BY <1>2, <1>3, <1>5, Zenon
<1>7. BaseCost = (0 * rr + 25 * rv + 100 * rx) + (5 * 0 + 5 * 0 + 30 * 0) + (40 * er + 20 * ev + 5 * ex)
  BY <1>2, <1>3, <1>5, Zenon
<1>8. BaseCost \in Int /\ CostUnder(rule) = BaseCost + 5 * sr - 20 * sv - 70 * sx
  BY <1>6, <1>7
<1>. QED  BY <1>4, <1>8

(* What remains released, and who is diverted.                             *)
LEMMA RestFollowsDiversions ==
  ASSUME TablesInv, guardCases # NotTried, NEW rule
  PROVE  /\ Cardinality(StillReleased(rule)) =
              Cardinality(ReleasedCases("EVIDENCE_NEEDED")) + Cardinality(ReleasedCases("ESCALATE"))
              - Cardinality(SignalledCases(rule, "EVIDENCE_NEEDED")) - Cardinality(SignalledCases(rule, "ESCALATE"))
         /\ Cardinality(Diverted(rule, LegitimateFamilies)) =
              Cardinality(SignalledCases(rule, "RELEASE")) + Cardinality(SignalledCases(rule, "EVIDENCE_NEEDED"))
         /\ Cardinality(Diverted(rule, RiskFamilies)) = Cardinality(SignalledCases(rule, "ESCALATE"))
<1> DEFINE taken == [c \in guardCases |-> GuardedAction(c, rule)]
           remain(target) == CasesOf(taken, "RELEASE", target)
           s(target) == SignalledCases(rule, target)
<1>1. \A c \in guardCases :
        /\ c.family \in GuardFamilies
        /\ TargetOfFamily[c.family] \in {"RELEASE", "EVIDENCE_NEEDED", "ESCALATE"}
  <2>1. \A c \in guardCases : c.family \in GuardFamilies
    BY FamilyGuardAssumption DEF TablesInv, GuardCases, GuardFamilies
  <2>. QED  BY <2>1, FamilyGuardAssumption DEF GuardFamilies
<1>2. ASSUME NEW A \in SUBSET guardCases, NEW B \in SUBSET guardCases, A \cap B = {}
      PROVE  Cardinality(A \cup B) = Cardinality(A) + Cardinality(B)
  <2>1. IsFiniteSet(A) /\ IsFiniteSet(B)
    BY FS_Subset DEF TablesInv
  <2>2. Cardinality(A \cup B) = Cardinality(A) + Cardinality(B) - Cardinality(A \cap B)
    BY <2>1, FS_Union
  <2>3. Cardinality(A \cap B) = 0 /\ Cardinality(A) \in Nat /\ Cardinality(B) \in Nat
    BY <1>2, <2>1, FS_EmptySet, FS_CardinalityType
  <2>. QED  BY <2>2, <2>3
<1>3. /\ StillReleased(rule) = remain("EVIDENCE_NEEDED") \cup remain("ESCALATE")
      /\ remain("EVIDENCE_NEEDED") \cap remain("ESCALATE") = {}
      /\ remain("EVIDENCE_NEEDED") \in SUBSET guardCases /\ remain("ESCALATE") \in SUBSET guardCases
  BY <1>1 DEF StillReleased, CasesOf
<1>4. /\ Diverted(rule, LegitimateFamilies) = s("RELEASE") \cup s("EVIDENCE_NEEDED")
      /\ s("RELEASE") \cap s("EVIDENCE_NEEDED") = {}
      /\ s("RELEASE") \in SUBSET guardCases /\ s("EVIDENCE_NEEDED") \in SUBSET guardCases
  BY <1>1 DEF Diverted, ReleasedOf, SignalledCases, ReleasedCases, LegitimateFamilies
<1>5. Diverted(rule, RiskFamilies) = s("ESCALATE")
  BY <1>1 DEF Diverted, ReleasedOf, SignalledCases, ReleasedCases, LegitimateFamilies, RiskFamilies
<1>6. \A target : /\ Cardinality(remain(target)) = Cardinality(ReleasedCases(target)) - Cardinality(s(target))
                  /\ Cardinality(ReleasedCases(target)) \in Nat /\ Cardinality(s(target)) \in Nat
  BY CaseCounts
<1>. HIDE DEF remain
<1>7. Cardinality(StillReleased(rule)) = Cardinality(remain("EVIDENCE_NEEDED")) + Cardinality(remain("ESCALATE"))
  BY <1>2, <1>3
<1>8. Cardinality(Diverted(rule, LegitimateFamilies)) = Cardinality(s("RELEASE")) + Cardinality(s("EVIDENCE_NEEDED"))
  BY <1>2, <1>4
<1>9. Cardinality(Diverted(rule, RiskFamilies)) = Cardinality(s("ESCALATE"))
  BY <1>5, Zenon
<1>10. Cardinality(StillReleased(rule)) =
         Cardinality(ReleasedCases("EVIDENCE_NEEDED")) + Cardinality(ReleasedCases("ESCALATE"))
         - Cardinality(s("EVIDENCE_NEEDED")) - Cardinality(s("ESCALATE"))
  BY <1>6, <1>7
<1>. QED  BY <1>8, <1>9, <1>10

(* So the guard that is chosen is undominated: one that is no worse and    *)
(* not the same comes before it.                                           *)
LEMMA ChosenIsUndominated == TablesInv => GuardChoiceIsUndominated
<1>. SUFFICES ASSUME TablesInv, guardCases # NotTried PROVE GuardChoiceIsUndominated
  BY DEF GuardChoiceIsUndominated
<1>1. DOMAIN Rules = 1..3
  BY DEF Rules
<1>2. PICK none \in Int : none = BaseCost
  BY CostsFollowDiversions
<1>3. PICK a \in [1..3 -> Nat], b \in [1..3 -> Nat], c \in [1..3 -> Nat] :
        \A i \in 1..3 : /\ a[i] = Cardinality(SignalledCases(Rules[i], "RELEASE"))
                        /\ b[i] = Cardinality(SignalledCases(Rules[i], "EVIDENCE_NEEDED"))
                        /\ c[i] = Cardinality(SignalledCases(Rules[i], "ESCALATE"))
  <2> DEFINE count(target) == [i \in 1..3 |-> Cardinality(SignalledCases(Rules[i], target))]
  <2>1. \A target : count(target) \in [1..3 -> Nat]
    BY CaseCounts
  <2>2. \A i \in 1..3 : \A target : count(target)[i] = Cardinality(SignalledCases(Rules[i], target))
    OBVIOUS
  <2>. HIDE DEF count
  <2>. QED  BY <2>1, <2>2
<1>4. PICK whole \in Int :
        whole = Cardinality(ReleasedCases("EVIDENCE_NEEDED")) + Cardinality(ReleasedCases("ESCALATE"))
  <2>1. \A target : Cardinality(ReleasedCases(target)) \in Nat
    BY CaseCounts
  <2>. QED  BY <2>1
<1> DEFINE cost == [i \in 1..3 |-> none + 5 * a[i] - 20 * b[i] - 70 * c[i]]
           still == [i \in 1..3 |-> whole - b[i] - c[i]]
           friends == [i \in 1..3 |-> a[i] + b[i]]
           risks == [i \in 1..3 |-> -c[i]]
<1>5. ASSUME NEW i \in 1..3
      PROVE  /\ CostUnder(Rules[i]) = cost[i]
             /\ Cardinality(StillReleased(Rules[i])) = still[i]
             /\ Cardinality(Diverted(Rules[i], LegitimateFamilies)) = friends[i]
             /\ -Cardinality(Diverted(Rules[i], RiskFamilies)) = risks[i]
  <2>1. CostUnder(Rules[i]) = cost[i]
    BY <1>2, <1>3, CostsFollowDiversions
  <2>2. PICK rule : rule = Rules[i]
    OBVIOUS
  <2>3. /\ Cardinality(StillReleased(rule)) =
             Cardinality(ReleasedCases("EVIDENCE_NEEDED")) + Cardinality(ReleasedCases("ESCALATE"))
             - Cardinality(SignalledCases(rule, "EVIDENCE_NEEDED")) - Cardinality(SignalledCases(rule, "ESCALATE"))
        /\ Cardinality(Diverted(rule, LegitimateFamilies)) =
             Cardinality(SignalledCases(rule, "RELEASE")) + Cardinality(SignalledCases(rule, "EVIDENCE_NEEDED"))
        /\ Cardinality(Diverted(rule, RiskFamilies)) = Cardinality(SignalledCases(rule, "ESCALATE"))
    BY RestFollowsDiversions
  <2>4. /\ Cardinality(SignalledCases(rule, "RELEASE")) = a[i]
        /\ Cardinality(SignalledCases(rule, "EVIDENCE_NEEDED")) = b[i]
        /\ Cardinality(SignalledCases(rule, "ESCALATE")) = c[i]
    BY <1>3, <2>2
  <2>5. /\ Cardinality(StillReleased(rule)) = still[i]
        /\ Cardinality(Diverted(rule, LegitimateFamilies)) = friends[i]
        /\ -Cardinality(Diverted(rule, RiskFamilies)) = risks[i]
    <3>1. a[i] \in Nat /\ b[i] \in Nat /\ c[i] \in Nat
      OBVIOUS
    <3>2. still[i] = whole - b[i] - c[i] /\ friends[i] = a[i] + b[i] /\ risks[i] = -c[i]
      OBVIOUS
    <3>3. /\ Cardinality(StillReleased(rule)) = whole - b[i] - c[i]
          /\ Cardinality(Diverted(rule, LegitimateFamilies)) = a[i] + b[i]
          /\ Cardinality(Diverted(rule, RiskFamilies)) = c[i]
      <4>1. PICK x \in Nat, y \in Nat : /\ x = Cardinality(ReleasedCases("EVIDENCE_NEEDED"))
                                        /\ y = Cardinality(ReleasedCases("ESCALATE"))
        BY CaseCounts
      <4>2. whole = x + y
        BY <1>4, <4>1, Zenon
      <4>3. Cardinality(StillReleased(rule)) = x + y - b[i] - c[i]
        BY <2>3, <2>4, <4>1, Zenon
      <4>4. Cardinality(Diverted(rule, LegitimateFamilies)) = a[i] + b[i]
        BY <2>3, <2>4, Zenon
      <4>5. Cardinality(Diverted(rule, RiskFamilies)) = c[i]
        BY <2>3, <2>4, Zenon
      <4>. QED  BY <4>2, <4>3, <4>4, <4>5
    <3>. QED  BY <3>2, <3>3, Zenon
  <2>. QED  BY <2>1, <2>2, <2>5
<1>6. ASSUME NEW i \in 1..3
      PROVE  /\ cost[i] \in Int /\ still[i] \in Int /\ friends[i] \in Int /\ risks[i] \in Int
             /\ a[i] \in Nat /\ b[i] \in Nat /\ c[i] \in Nat
             /\ cost[i] = none + 5 * a[i] - 20 * b[i] - 70 * c[i] /\ still[i] = whole - b[i] - c[i]
             /\ friends[i] = a[i] + b[i] /\ risks[i] = -c[i]
  OBVIOUS
<1>. HIDE DEF cost, still, friends, risks
<1>7. ASSUME NEW i \in 1..3
      PROVE  /\ Measures(i) = <<cost[i], still[i], friends[i], risks[i]>>
             /\ ChoiceKeys[i] = <<cost[i] + 10 * friends[i], cost[i], friends[i], risks[i]>>
  <2>1. Measures(i) = <<cost[i], still[i], friends[i], risks[i]>>
    BY <1>5, Zenon DEF Measures
  <2>2. ChoiceKeys[i] = <<CostUnder(Rules[i]) + Friction(Rules[i]), CostUnder(Rules[i]),
                          Cardinality(Diverted(Rules[i], LegitimateFamilies)),
                          -Cardinality(Diverted(Rules[i], RiskFamilies))>>
    BY <1>1 DEF ChoiceKeys
  <2>. QED  BY <1>5, <2>1, <2>2, Zenon DEF Friction
<1> DEFINE measures == [i \in DOMAIN Rules |-> Measures(i)]
<1>8. ASSUME NEW i \in 1..3, NEW j \in 1..3
      PROVE  Dominates(i, j) <=>
               /\ ~(cost[i] = cost[j] /\ still[i] = still[j] /\ friends[i] = friends[j] /\ risks[i] = risks[j])
               /\ cost[i] <= cost[j] /\ still[i] <= still[j] /\ friends[i] <= friends[j] /\ risks[i] <= risks[j]
  <2>1. Measures(i) = Measures(j) <=>
          cost[i] = cost[j] /\ still[i] = still[j] /\ friends[i] = friends[j] /\ risks[i] = risks[j]
    BY <1>7
  <2>2. (\A k \in 1..4 : Measures(i)[k] <= Measures(j)[k]) <=>
          cost[i] <= cost[j] /\ still[i] <= still[j] /\ friends[i] <= friends[j] /\ risks[i] <= risks[j]
    BY <1>7
  <2>. QED  BY <2>1, <2>2, Zenon DEF Dominates
<1>9. ASSUME Passing # {}
      PROVE  /\ \A i \in Passing : ~Dominates(i, ChosenGuard)
             /\ CostUnder(Rules[ChosenGuard]) <= BaseCost
  <2>1. Passing \in SUBSET DOMAIN Rules
    BY DEF Passing
  <2>2. \A i \in DOMAIN Rules : \E w, x, y, z \in Int : ChoiceKeys[i] = <<w, x, y, z>>
    <3>1. ASSUME NEW i \in 1..3
          PROVE  \E w, x, y, z \in Int : ChoiceKeys[i] = <<w, x, y, z>>
      <4>1. cost[i] + 10 * friends[i] \in Int
        BY <1>6
      <4>2. PICK w \in Int : w = cost[i] + 10 * friends[i]
        BY <4>1
      <4>3. ChoiceKeys[i] = <<w, cost[i], friends[i], risks[i]>>
        BY <1>7, <4>2, Zenon
      <4>. QED  BY <1>6, <4>3, ZenonT(60)
    <3>. QED  BY <1>1, <3>1
  <2>3. PICK keys : keys = ChoiceKeys
    OBVIOUS
  <2>4. PICK l : l = LeastKey(keys, Passing)
    OBVIOUS
  <2>5. /\ l \in Passing
        /\ \A j \in Passing : (\A k \in 1..4 : keys[j][k] <= keys[l][k]) => \A k \in 1..4 : keys[j][k] = keys[l][k]
    BY <1>9, <2>1, <2>2, <2>3, <2>4, LeastKeyIs
  <2>6. l = ChosenGuard
    BY <2>3, <2>4 DEF ChosenGuard
  <2>7. ASSUME NEW i \in Passing PROVE ~Dominates(i, l)
    <3>1. i \in 1..3 /\ l \in 1..3
      BY <1>1, <2>1, <2>5
    <3>2. /\ keys[i] = <<cost[i] + 10 * friends[i], cost[i], friends[i], risks[i]>>
          /\ keys[l] = <<cost[l] + 10 * friends[l], cost[l], friends[l], risks[l]>>
      BY <1>7, <2>3, <3>1
    <3>3. ASSUME Dominates(i, l) PROVE FALSE
      <4>1. /\ ~(cost[i] = cost[l] /\ still[i] = still[l] /\ friends[i] = friends[l] /\ risks[i] = risks[l])
            /\ cost[i] <= cost[l] /\ still[i] <= still[l] /\ friends[i] <= friends[l] /\ risks[i] <= risks[l]
        BY <1>8, <3>1, <3>3
      <4>2. cost[i] + 10 * friends[i] <= cost[l] + 10 * friends[l]
        BY <1>6, <3>1, <4>1
      <4>3. \A k \in 1..4 : keys[i][k] <= keys[l][k]
        BY <3>2, <4>1, <4>2
      <4>4. \A k \in 1..4 : keys[i][k] = keys[l][k]
        BY <2>5, <4>3
      <4>5. cost[i] = cost[l] /\ friends[i] = friends[l] /\ risks[i] = risks[l]
        BY <3>2, <4>4
      <4>6. a[i] + b[i] = a[l] + b[l] /\ c[i] = c[l] /\ 5 * a[i] - 20 * b[i] = 5 * a[l] - 20 * b[l]
        BY <1>6, <3>1, <4>5
      <4>7. b[i] = b[l]
        BY <1>6, <3>1, <4>6
      <4>8. still[i] = still[l]
        BY <1>6, <3>1, <4>6, <4>7
      <4>. QED  BY <4>1, <4>5, <4>8
    <3>. QED  BY <3>3
  <2>8. CostUnder(Rules[l]) <= BaseCost
    BY <2>5 DEF Passing, GatePasses
  <2>. QED  BY <2>6, <2>7, <2>8
<1>10. ASSUME NEW i \in DOMAIN Rules PROVE CostUnder(Rules[Recommendation]) <= CostUnder(Rules[i])
  <2>1. \A j \in DOMAIN Rules : \E w, x, y, z \in Int : measures[j] = <<w, x, y, z>>
    <3>1. ASSUME NEW j \in 1..3 PROVE \E w, x, y, z \in Int : measures[j] = <<w, x, y, z>>
      <4>1. measures[j] = <<cost[j], still[j], friends[j], risks[j]>>
        BY <1>1, <1>7
      <4>. QED  BY <1>6, <4>1, ZenonT(60)
    <3>. QED  BY <1>1, <3>1
  <2>2. PICK keys : keys = measures
    OBVIOUS
  <2>3. \A j \in 1..3 : keys[j] = <<cost[j], still[j], friends[j], risks[j]>>
    BY <1>1, <1>7, <2>2
  <2>4. PICK m : m = LeastKey(keys, DOMAIN Rules)
    OBVIOUS
  <2>5. DOMAIN Rules # {} /\ DOMAIN Rules \in SUBSET DOMAIN Rules
    BY <1>1
  <2>6. /\ m \in DOMAIN Rules
        /\ \A j \in DOMAIN Rules : keys[m][1] <= keys[j][1]
        /\ \A j \in DOMAIN Rules :
             (\A k \in 1..4 : keys[j][k] <= keys[m][k]) => \A k \in 1..4 : keys[j][k] = keys[m][k]
    <3>1. PICK S \in SUBSET DOMAIN Rules : S = DOMAIN Rules
      BY <2>5
    <3>2. S # {} /\ m = LeastKey(keys, S)
      BY <2>4, <2>5, <3>1, Zenon
    <3>3. /\ m \in S
          /\ \A j \in S : keys[m][1] <= keys[j][1]
          /\ \A j \in S :
               (\A k \in 1..4 : keys[j][k] <= keys[m][k]) => \A k \in 1..4 : keys[j][k] = keys[m][k]
      <4>. HIDE DEF measures
      <4>1. \A j \in DOMAIN Rules : \E w, x, y, z \in Int : keys[j] = <<w, x, y, z>>
        BY <2>1, <2>2
      <4>2. /\ LeastKey(keys, S) \in S
            /\ \A j \in S : keys[LeastKey(keys, S)][1] <= keys[j][1]
            /\ \A j \in S : (\A k \in 1..4 : keys[j][k] <= keys[LeastKey(keys, S)][k])
                             => \A k \in 1..4 : keys[j][k] = keys[LeastKey(keys, S)][k]
        BY <3>2, <4>1, LeastKeyIs, Zenon
      <4>. QED  BY <3>2, <4>2, Zenon
    <3>. QED  BY <3>1, <3>3, Zenon
  <2>7. ASSUME NEW j \in DOMAIN Rules PROVE ~Dominates(j, m)
    <3>1. j \in 1..3 /\ m \in 1..3
      BY <1>1, <2>6
    <3>2. /\ keys[j] = <<cost[j], still[j], friends[j], risks[j]>>
          /\ keys[m] = <<cost[m], still[m], friends[m], risks[m]>>
      BY <2>3, <3>1
    <3>3. ASSUME Dominates(j, m) PROVE FALSE
      <4>1. /\ ~(cost[j] = cost[m] /\ still[j] = still[m] /\ friends[j] = friends[m] /\ risks[j] = risks[m])
            /\ cost[j] <= cost[m] /\ still[j] <= still[m] /\ friends[j] <= friends[m] /\ risks[j] <= risks[m]
        BY <1>8, <3>1, <3>3
      <4>2. \A k \in 1..4 : keys[j][k] <= keys[m][k]
        BY <3>2, <4>1
      <4>3. \A k \in 1..4 : keys[j][k] = keys[m][k]
        BY <2>6, <4>2
      <4>. QED  BY <3>2, <4>1, <4>3
    <3>. QED  BY <3>3
  <2>8. m \in Frontier /\ Frontier \in SUBSET DOMAIN Rules
    BY <2>6, <2>7 DEF Frontier
  <2>9. PICK l : l = LeastKey(keys, Frontier)
    OBVIOUS
  <2>10. l \in Frontier /\ \A j \in Frontier : keys[l][1] <= keys[j][1]
    <3>1. Frontier # {}
      BY <2>8
    <3>. QED  BY <2>1, <2>2, <2>8, <2>9, <3>1, LeastKeyIs
  <2>11. l = Recommendation
    BY <2>2, <2>9 DEF Recommendation
  <2>12. i \in 1..3 /\ l \in 1..3 /\ m \in 1..3
    BY <1>1, <2>6, <2>8, <2>10
  <2>13. cost[l] <= cost[m] /\ cost[m] <= cost[i]
    BY <1>1, <2>3, <2>6, <2>8, <2>10, <2>12
  <2>14. cost[l] <= cost[i]
    BY <1>6, <2>12, <2>13
  <2>. QED  BY <1>5, <2>11, <2>12, <2>14
<1>. QED  BY <1>9, <1>10 DEF GuardChoiceIsUndominated

(* For any families, scores and cases: a family that was calibrated on is  *)
(* signalled at the target rate at most, and the guard that is chosen is   *)
(* one that no other dominates.                                            *)
THEOREM GuardsAreChosenWell == GuardSpec => [](FamiliesKeepTheirRate /\ GuardChoiceIsUndominated)
BY TablesStart, TablesSteps, FamilyRate, ChosenIsUndominated, PTL DEF GuardSpec
=============================================================================
