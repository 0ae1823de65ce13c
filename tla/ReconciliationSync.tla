------------------------- MODULE ReconciliationSync -------------------------
(* The settlement reconciliation of a day (razorpay_processor.py,
   sync_reconciliation): the provider's list is read page by page with an
   offset, each page is stored in one transaction, and meanwhile the provider
   adds and settles items, and another call may be syncing the same day.      *)
EXTENDS Naturals, Sequences, FiniteSets

CONSTANTS
  Syncs,       \* calls of the sync route
  SettledEntities,    \* payments and refunds of the day
  PageSize, MaxPages,
  MaxChanges   \* bound: what the provider does to the list

ASSUME PagesAssumption == PageSize \in Nat \ {0} /\ MaxPages \in Nat \ {0}

VARIABLES
  listed,      \* the provider's list: a sequence of items
  itemRows,    \* processor_reconciliation_items: reconciliation_id -> on_hold
  sync,        \* the calls
  kept,        \* the pages committed: history
  changes      \* what the provider did so far

syncVars == <<listed, itemRows, sync, kept, changes>>

Items == [entity : SettledEntities, settled : BOOLEAN, onHold : BOOLEAN]

NewItem(e) == [entity |-> e, settled |-> FALSE, onHold |-> TRUE]

(* reconciliation_id hashes the entity, the settlement and the amounts; that
   the item is on hold is not part of it.                                     *)
ReconciliationId(item) == <<item.entity, item.settled>>

NoSync == [pc |-> "idle", skip |-> 0, pages |-> 0, fetched |-> 0, stored |-> 0,
           page |-> <<>>, first |-> {}, ended |-> "no"]

SyncInit ==
  /\ \E e, f \in SettledEntities :
       listed = IF e = f THEN <<NewItem(e)>> ELSE <<NewItem(e), NewItem(f)>>
  /\ itemRows = <<>> /\ kept = {} /\ changes = 0
  /\ sync = [s \in Syncs |-> NoSync]

(* The provider: a new item may come anywhere in the list, and an item keeps
   its place when it is settled or released.                                  *)
ItemAdded ==
  \E e \in SettledEntities, at \in 0..Len(listed) :
    /\ \A i \in DOMAIN listed : listed[i].entity # e
    /\ listed' = SubSeq(listed, 1, at)
                 \o <<NewItem(e)>>
                 \o SubSeq(listed, at + 1, Len(listed))

ItemChanged ==
  \E i \in DOMAIN listed :
    \/ listed[i].onHold /\ listed' = [listed EXCEPT ![i].onHold = FALSE]
    \/ ~listed[i].settled /\ listed' = [listed EXCEPT ![i].settled = TRUE]

ListMoves ==
  /\ changes < MaxChanges /\ changes' = changes + 1
  /\ ItemAdded \/ ItemChanged
  /\ UNCHANGED <<itemRows, sync, kept>>

Keys(items) == {ReconciliationId(items[i]) : i \in DOMAIN items}
To(s, r) == sync' = [sync EXCEPT ![s] = r]
End(s, how) == To(s, [sync[s] EXCEPT !.pc = "ended", !.ended = how, !.page = <<>>])

BeginSync(s) ==
  /\ sync[s].pc = "idle"
  /\ To(s, [sync[s] EXCEPT !.pc = "fetch", !.first = Keys(listed)])
  /\ UNCHANGED <<listed, itemRows, kept, changes>>

(* fetch_settlement_recon: the page at the offset, an empty one that ends the
   sync, a failed request, or a page with an item that does not normalise.    *)
FetchPage(s) ==
  LET r == sync[s]
      upTo == IF r.skip + PageSize < Len(listed) THEN r.skip + PageSize ELSE Len(listed)
      page == SubSeq(listed, r.skip + 1, upTo) IN
  /\ r.pc = "fetch"
  /\ \/ page = <<>> /\ End(s, "complete")
     \/ page # <<>> /\ To(s, [r EXCEPT !.pc = "store", !.page = page])
     \/ \E how \in {"unavailable", "invalid"} : End(s, how)
  /\ UNCHANGED <<listed, itemRows, kept, changes>>

(* One transaction for the page: the row of each reconciliation_id is made or
   assigned.                                                                  *)
Assigned(items) ==
  [k \in DOMAIN itemRows \cup Keys(items) |->
     IF k \in Keys(items)
     THEN (CHOOSE i \in {items[j] : j \in DOMAIN items} : ReconciliationId(i) = k).onHold
     ELSE itemRows[k]]

(* Mutant: a full page is taken for the last.                                 *)
LastWhenFull(count) == count <= PageSize
LastPage(count) == count < PageSize

(* Any other error of the store leaves the transaction without a trace.       *)
StoreFails(s) == End(s, "unavailable") /\ UNCHANGED <<itemRows, kept>>

StorePage(s) ==
  LET r == sync[s]
      pages == r.pages + 1
      after == [r EXCEPT !.pages = pages, !.skip = @ + Len(r.page), !.page = <<>>,
                         !.fetched = @ + Len(r.page), !.stored = @ + Len(r.page)] IN
  /\ r.pc = "store"
  /\ \/ /\ itemRows' = Assigned(r.page)
        /\ kept' = kept \cup {[by |-> s, number |-> pages, keys |-> Keys(r.page)]}
        /\ To(s, IF LastPage(Len(r.page)) THEN [after EXCEPT !.pc = "ended", !.ended = "complete"]
                 ELSE IF pages = MaxPages THEN [after EXCEPT !.pc = "ended", !.ended = "page limit"]
                 ELSE [after EXCEPT !.pc = "fetch"])
     \/ StoreFails(s)
  /\ UNCHANGED <<listed, changes>>

SyncNext ==
  \/ ListMoves
  \/ \E s \in Syncs : BeginSync(s) \/ FetchPage(s) \/ StorePage(s)

SyncSpec == SyncInit /\ [][SyncNext]_syncVars

-----------------------------------------------------------------------------
(* A sync that came to the end of the list has stored every item that was
   listed when it began and still is, wherever new items were put in between
   and whatever another sync did: the offset never steps over one
   (razorpay_processor.py:498).                                               *)
CompleteSyncMissesNothing ==
  \A s \in Syncs :
    sync[s].ended = "complete" => (sync[s].first \cap Keys(listed)) \subseteq DOMAIN itemRows

(* The rows are the pages that were committed, each whole, also when a later
   page of the same sync failed; a call's numbers count them.                 *)
RowsAreWholePages ==
  /\ DOMAIN itemRows = UNION {p.keys : p \in kept}
  /\ \A s \in Syncs : sync[s].pages = Cardinality({p \in kept : p.by = s})

SyncEnds == {"no", "complete", "page limit", "unavailable", "invalid"}
SyncRecords ==
  [pc : {"idle", "fetch", "store", "ended"}, skip : Nat, pages : Nat, fetched : Nat,
   stored : Nat, page : Seq(Items), first : SUBSET (SettledEntities \X BOOLEAN),
   ended : SyncEnds]
PageRecords ==
  [by : Syncs, number : Nat, keys : SUBSET (SettledEntities \X BOOLEAN)]

(* The types; the offset is the number of items fetched.                      *)
SyncTypeOK ==
  /\ listed \in Seq(Items) /\ DOMAIN itemRows \subseteq SettledEntities \X BOOLEAN
  /\ sync \in [Syncs -> SyncRecords] /\ kept \subseteq PageRecords /\ changes \in Nat
  /\ \A s \in Syncs : sync[s].skip = sync[s].fetched /\ sync[s].pages <= MaxPages

(* A sync stores whole pages, and all of them when it says it is complete. *)
SyncMissesNothing == SyncTypeOK /\ CompleteSyncMissesNothing /\ RowsAreWholePages
=============================================================================
