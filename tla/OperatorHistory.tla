-------------------------- MODULE OperatorHistory --------------------------
(***************************************************************************)
(* Imported payment histories (operator_history.py): the checks of an      *)
(* import, the two files it writes under the name of the file's hash, the  *)
(* listings, and the case of one transaction as it looked when it was      *)
(* observed.  The process may die between two writes.                      *)
(***************************************************************************)
EXTENDS FeatureContract, Sequences

CONSTANTS
  HistoryFiles,      \* CSV files, named by their hash
  HistoryAccounts,   \* account_id of an import
  FileContents       \* what a file may hold: sequences of raw rows

Manifests == [account : HistoryAccounts, hash : FileContents]

\* A row of a file once its fields are parsed: times are numbers, or Missing
\* where the field may be empty.
Parsed(row) ==
  /\ row = [id |-> row.id, at |-> row.at, observed |-> row.observed, amount |-> row.amount,
            status |-> row.status, device |-> row.device,
            refundAmount |-> row.refundAmount, refundAt |-> row.refundAt,
            refundObserved |-> row.refundObserved,
            disputeAt |-> row.disputeAt, disputeObserved |-> row.disputeObserved]
  /\ row.id # Missing /\ row.at \in Int /\ row.observed \in Int /\ row.amount \in Int
  /\ {row.refundAt, row.refundObserved, row.disputeAt, row.disputeObserved} \subseteq Int \cup {Missing}

\* What stands for nothing is no content of a file, no manifest and no time.
ASSUME HistoryAssumption ==
  /\ Missing \notin FileContents /\ Missing \notin Manifests /\ Missing \notin Int
  /\ \A rows \in FileContents :
       rows \in Seq({rows[i] : i \in DOMAIN rows}) /\ \A i \in DOMAIN rows : Parsed(rows[i])

VARIABLES
  content,    \* the rows of every file
  disk,       \* the directory of every file: "none", or records and manifest
  importing,  \* the import that is going on
  answers,    \* imports answered with a manifest: history
  histHolds,  \* holds by request_id, which names file and transaction
  shown       \* the last preview that was prepared

historyVars == <<content, disk, importing, answers, histHolds, shown>>

NoImport == [pc |-> "idle", file |-> Missing, account |-> Missing]
NoDirectory == [made |-> FALSE, records |-> Missing, manifest |-> Missing]

HistoryInit ==
  /\ content \in [HistoryFiles -> FileContents]
  /\ disk = [f \in HistoryFiles |-> NoDirectory]
  /\ importing = NoImport /\ answers = {} /\ shown = Missing
  /\ histHolds = {}

Present(x) == x # Missing
TornManifest == [account |-> Missing, hash |-> Missing]
Whole(manifest) == manifest \notin {Missing, TornManifest}
-----------------------------------------------------------------------------
(* The fields of a row that are dates or amounts; names, currency, status  *)
(* and geography are well-formed or the file is refused.                   *)
RowAccepted(row) ==
  /\ row.observed >= row.at /\ row.amount > 0
  /\ row.refundAmount \in 0..row.amount
  /\ row.refundAmount > 0 => Present(row.refundAt) /\ Present(row.refundObserved)
  /\ (Present(row.refundAt) /\ Present(row.refundObserved)) => row.refundObserved >= row.refundAt
  /\ Present(row.disputeAt) <=> Present(row.disputeObserved)
  /\ Present(row.disputeAt) => row.disputeObserved >= row.disputeAt

Importable(rows) ==
  /\ rows # <<>>
  /\ \A i, j \in DOMAIN rows : i # j => rows[i].id # rows[j].id
  /\ \A i \in DOMAIN rows : RowAccepted(rows[i])

Answer(f, account) == answers' = answers \cup {[file |-> f, account |-> account]}

(* import_csv_bytes up to mkdir: a directory that exists answers with its  *)
(* manifest, whatever the account of this call, and raises without a whole *)
(* one.                                                                    *)
BeginImport ==
  /\ importing.pc = "idle"
  /\ \E f \in HistoryFiles, a \in HistoryAccounts :
       \/ /\ disk[f].made /\ Whole(disk[f].manifest)
          /\ Answer(f, disk[f].manifest.account)
          /\ UNCHANGED <<disk, importing>>
       \/ /\ ~disk[f].made /\ Importable(content[f])
          /\ disk' = [disk EXCEPT ![f].made = TRUE]
          /\ importing' = [pc |-> "records", file |-> f, account |-> a]
          /\ UNCHANGED answers
  /\ UNCHANGED <<content, histHolds, shown>>

(* The records are sorted and written.                                     *)
WriteRecords ==
  /\ importing.pc = "records"
  /\ disk' = [disk EXCEPT ![importing.file].records = content[importing.file]]
  /\ importing' = [importing EXCEPT !.pc = "manifest"]
  /\ UNCHANGED <<content, answers, histHolds, shown>>

WriteManifest ==
  LET f == importing.file IN
  /\ importing.pc = "manifest"
  /\ disk' = [disk EXCEPT ![f].manifest = [account |-> importing.account, hash |-> disk[f].records]]
  /\ importing' = NoImport /\ Answer(f, importing.account)
  /\ UNCHANGED <<content, histHolds, shown>>

(* The process dies before a write, or in the middle of the manifest.      *)
KillImport ==
  LET f == importing.file IN
  /\ importing.pc # "idle" /\ importing' = NoImport
  /\ \/ UNCHANGED disk
     \/ importing.pc = "manifest" /\ disk' = [disk EXCEPT ![f].manifest = TornManifest]
  /\ UNCHANGED <<content, answers, histHolds, shown>>
-----------------------------------------------------------------------------
(* _preview: the rows that were observed by the cut-off, with the refunds  *)
(* and disputes that were.  Mutant: every refund of the file.              *)
RefundsOfTheFile(rows, cutoff) == {r \in rows : Present(r.refundObserved)}
RefundsKnown(rows, cutoff) ==
  {r \in rows : Present(r.refundObserved) /\ r.refundObserved <= cutoff}

HistoryFacts(rows, cutoff) ==
  LET seen == {r \in rows : r.observed <= cutoff} IN
  [payments |-> {[payment |-> r.id, order |-> r.id, status |-> r.status, inr |-> TRUE,
                  created |-> r.at, observed |-> r.observed] : r \in seen},
   telemetry |-> {[payment |-> r.id, order |-> r.id, device |-> r.device,
                   observed |-> r.observed] : r \in seen},
   refunds |-> {[payment |-> r.id, status |-> "processed", created |-> r.refundAt,
                 observed |-> r.refundObserved] : r \in RefundsKnown(seen, cutoff)},
   disputes |-> {[payment |-> r.id, created |-> r.disputeAt, observed |-> r.disputeObserved] :
                 r \in {x \in seen : Present(x.disputeObserved) /\ x.disputeObserved <= cutoff}},
   orderNow |-> [id \in {r.id : r \in rows} |-> id]]

(* fromisoformat of a refund time that is not there raises.                *)
RefundTimeAbsent(rows, cutoff) ==
  \E r \in rows : /\ r.observed <= cutoff /\ Present(r.refundObserved)
                  /\ r.refundObserved <= cutoff /\ ~Present(r.refundAt)

DisputeTimeAbsent(rows, cutoff) ==
  \E r \in rows : /\ r.observed <= cutoff /\ Present(r.disputeObserved)
                  /\ r.disputeObserved <= cutoff /\ ~Present(r.disputeAt)

HistoryPreview(rows, target) ==
  LET cutoff == target.observed IN
  IF RefundTimeAbsent(rows, cutoff) \/ DisputeTimeAbsent(rows, cutoff)
    THEN [raises |-> TRUE]
    ELSE ContractPreview(HistoryFacts(rows, cutoff), cutoff)

RowsOf(f) == {disk[f].records[i] : i \in DOMAIN disk[f].records}

Verified(f) == Present(disk[f].records) /\ disk[f].records = disk[f].manifest.hash

(* prepare_case: one hold for a transaction, of the manifest's account.    *)
PrepareCase ==
  \E f \in HistoryFiles :
    /\ importing.pc = "idle" /\ Whole(disk[f].manifest) /\ Verified(f)
    /\ \E target \in RowsOf(f) :
         LET preview == HistoryPreview(RowsOf(f), target) IN
         /\ shown' = [file |-> f, target |-> target, preview |-> preview]
         /\ histHolds' = IF preview.raises \/ \E h \in histHolds : h.file = f /\ h.id = target.id
              THEN histHolds
              ELSE histHolds \cup
                     {[file |-> f, id |-> target.id, account |-> disk[f].manifest.account]}
    /\ UNCHANGED <<content, disk, importing, answers>>

(* candidates reads the records of every listed manifest, and fails with   *)
(* the first that does not verify.                                         *)
Listed == {f \in HistoryFiles : Whole(disk[f].manifest)}

HistoryNext == BeginImport \/ WriteRecords \/ WriteManifest \/ KillImport \/ PrepareCase
HistorySpec == HistoryInit /\ [][HistoryNext]_historyVars
-----------------------------------------------------------------------------
(* A dataset that is listed has the records its manifest was written for,  *)
(* wherever imports were killed: the listing of candidates, which fails    *)
(* for all datasets when one does not verify, never fails of a killed      *)
(* import (operator_history.py:481, 525).                                  *)
ListedHistoriesVerify == \A f \in Listed : Verified(f) /\ disk[f].records = content[f]

(* Who imports a file first owns it: everybody who imports the same bytes  *)
(* later is answered with that account, and so is every hold of its        *)
(* transactions (operator_history.py:303, 671).                            *)
FirstImportOwnsTheFile ==
  /\ \A a, b \in answers : a.file = b.file => a.account = b.account
  /\ \A h \in histHolds : [file |-> h.file, account |-> h.account] \in answers

(* What a row says of later than the cut-off, taken away; a status whose   *)
(* refund was not known is the one it had before.                          *)
AsOf(row, cutoff) ==
  LET later(t) == ~Present(t) \/ t > cutoff IN
  [row EXCEPT
     !.status = IF @ = "refunded" /\ later(row.refundObserved) THEN "captured" ELSE @,
     !.refundAmount = IF later(row.refundObserved) THEN 0 ELSE @,
     !.refundAt = IF later(row.refundObserved) THEN Missing ELSE @,
     !.refundObserved = IF later(@) THEN Missing ELSE @,
     !.disputeAt = IF later(row.disputeObserved) THEN Missing ELSE @,
     !.disputeObserved = IF later(@) THEN Missing ELSE @]

(* No look-ahead: although a row holds what became of the payment in the   *)
(* end, the preview of a transaction is the one of the history as it was   *)
(* known when the transaction was observed (operator_history.py:560-640).  *)
HistoryHasNoLookAhead ==
  (shown # Missing /\ ~shown.preview.raises) =>
    LET cutoff == shown.target.observed
        past == {AsOf(r, cutoff) : r \in {x \in RowsOf(shown.file) : x.observed <= cutoff}}
        preview == HistoryPreview(past, AsOf(shown.target, cutoff)) IN
    /\ ~preview.raises /\ preview.blockers = shown.preview.blockers
    /\ preview.vector = shown.preview.vector

(* What import accepts can be previewed, except for a refund of nothing    *)
(* that was observed and has no time of its own: such a row is accepted    *)
(* (operator_history.py:393) and raises a TypeError in every preview that  *)
(* knows of it (operator_history.py:616).                                  *)
AcceptedHistoriesPreview ==
  (shown # Missing /\ shown.preview.raises) =>
    \E r \in RowsOf(shown.file) :
      r.refundAmount = 0 /\ Present(r.refundObserved) /\ ~Present(r.refundAt)
=============================================================================
