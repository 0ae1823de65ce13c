---------------------------- MODULE AuditLedger ----------------------------
(***************************************************************************)
(* The JSONL audit ledger of one process (audit.py) and the script that    *)
(* signs checkpoints of it from another process (checkpoint_audit.py) and  *)
(* publishes them to a write-once store (publish_audit_checkpoint.py).     *)
(*                                                                         *)
(* The file is a sequence of lines.  The only writer is the process, under *)
(* its lock, so the hash of a record is its place in the file: it fixes    *)
(* every record before it.  A write that fails, or a crash, may leave a    *)
(* fragment behind, and _records then raises for every caller.             *)
(***************************************************************************)
EXTENDS Naturals, Sequences, FiniteSets

CONSTANTS
  LedgerCases,     \* the cases that are written about
  MaxRecords,      \* bound: records in the file
  MaxCheckpoints   \* bound: checkpoints that are signed

VARIABLES
  file,        \* the lines of the ledger, in the order they were written
  signer,      \* the checkpoint script: what it has read so far
  signed,      \* output files: the checkpoints, as they were signed
  published    \* objects of the write-once store

ledgerVars == <<file, signer, signed, published>>

Fragment == [case |-> "none", seq |-> 0, type |-> "FRAGMENT"]

(* _records: json.loads of a fragment raises.                              *)
Readable == \A i \in DOMAIN file : file[i] # Fragment

SequenceNo(c) == 1 + Cardinality({i \in DOMAIN file : file[i].case = c})

AppendRecord(c, type) ==
  /\ Readable
  /\ file' = Append(file, [case |-> c, seq |-> SequenceNo(c), type |-> type])

(* Mutant: the file is not parsed before a line is added to it.            *)
AppendBlindly(c, type) ==
  file' = Append(file, [case |-> c, seq |-> SequenceNo(c), type |-> type])

(* A write that fails, or is cut off by a crash.                           *)
AppendBreaks == Readable /\ file' \in {file, Append(file, Fragment)}

LedgerInit ==
  /\ file = <<>>
  /\ signer = [pc |-> "idle", count |-> 0, head |-> 0]
  /\ signed = <<>>
  /\ published = {}

(* Any caller of append, in one process or the next one.                   *)
Log ==
  /\ Len(file) < MaxRecords
  /\ \E c \in LedgerCases : AppendRecord(c, "EVENT") \/ AppendBreaks
  /\ UNCHANGED <<signer, signed, published>>

(* main: verify() counts the records, the head is read from the file again *)
(* afterwards, and an existing output is never overwritten.                *)
Verify ==
  /\ signer.pc = "idle" /\ Len(signed) < MaxCheckpoints
  /\ Readable
  /\ signer' = [pc |-> "verified", count |-> Len(file), head |-> 0]
  /\ UNCHANGED <<file, signed, published>>

ReadHead ==
  /\ signer.pc = "verified"
  /\ signer' = IF Readable THEN [signer EXCEPT !.pc = "sign", !.head = Len(file)]
                           ELSE [pc |-> "idle", count |-> 0, head |-> 0]
  /\ UNCHANGED <<file, signed, published>>

(* Mutant: the head of the first read is signed with the count of the      *)
(* second.                                                                 *)
SignCountAfterHead ==
  /\ signer.pc = "sign"
  /\ signed' = Append(signed, [count |-> signer.head, head |-> signer.count])
  /\ signer' = [pc |-> "idle", count |-> 0, head |-> 0]
  /\ UNCHANGED <<file, published>>

Sign ==
  /\ signer.pc = "sign"
  /\ signed' = Append(signed, [count |-> signer.count, head |-> signer.head])
  /\ signer' = [pc |-> "idle", count |-> 0, head |-> 0]
  /\ UNCHANGED <<file, published>>

(* publish: the object is named by its digest and never overwritten; a     *)
(* second upload, or a retry after a lost answer, is refused.              *)
Publish ==
  /\ \E i \in DOMAIN signed :
       /\ signed[i] \notin published
       /\ published' = published \cup {signed[i]}
  /\ UNCHANGED <<file, signer, signed>>

LedgerNext == Log \/ Verify \/ ReadHead \/ Sign \/ Publish
-----------------------------------------------------------------------------
Lines == [case : LedgerCases, seq : Nat \ {0}, type : STRING] \cup {Fragment}

(* Every record is numbered within its case without a gap, and a fragment  *)
(* is the last line there will ever be: append parses the file before it   *)
(* writes (audit.py:71).                                                   *)
LedgerIsNumbered ==
  \A i \in DOMAIN file :
    /\ file[i] = Fragment => i = Len(file)
    /\ file[i] # Fragment =>
         file[i].seq = Cardinality({j \in 1..i : file[j].case = file[i].case})

(* What is published can be checked against the chain later: the signed    *)
(* head exists, is not older than the records that were verified, and a    *)
(* later checkpoint signs a chain that extends it.  The head may be newer  *)
(* than the count: checkpoint_audit.py:24 and :30 read the file twice.     *)
CheckpointsFollowTheChain ==
  /\ \A i \in DOMAIN signed :
       /\ signed[i].count <= signed[i].head /\ signed[i].head <= Len(file)
       /\ \A j \in DOMAIN signed : i < j => signed[i].head <= signed[j].count
  /\ \A c \in published : \E i \in DOMAIN signed : signed[i] = c
=============================================================================
