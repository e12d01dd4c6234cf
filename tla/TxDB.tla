------------------------------- MODULE TxDB -------------------------------
(***************************************************************************)
(* CTxDB of txdb-leveldb.h and txdb-leveldb.cpp: the objects through which *)
(* the node reads and writes its LevelDB, each with a batch of its own     *)
(* between TxnBegin and TxnCommit, that reads have to search.  Keys and    *)
(* values are opaque; their serialisation is left out.                     *)
(***************************************************************************)
EXTENDS Naturals, Sequences

CONSTANTS
  Key, Value,
  NULL,       \* no value; no batch
  Handle,     \* the CTxDB objects
  ReadOnly,   \* those opened with "r"
  MaxBatch    \* bound on the length of a batch

(* What is assumed of the constants. *)
DBAssumption ==
  /\ NULL \notin Value
  /\ ReadOnly \subseteq Handle
  /\ MaxBatch \in Nat

VARIABLES
  disk,         \* what LevelDB has committed
  activeBatch   \* activeBatch[h]: the WriteBatch of h, a list of Put and Delete

dbVars == <<disk, activeBatch>>

(* A Put of a value or, with NULL, a Delete. *)
Operation == [key : Key, value : Value \cup {NULL}]

(* NULL is neither a batch nor the changes one amounts to. *)
BatchAssumption ==
  /\ NULL \notin Seq(Operation)
  /\ \A K \in SUBSET Key : NULL \notin [K -> Value \cup {NULL}]

DBTypeOK ==
  /\ disk \in [Key -> Value \cup {NULL}]
  /\ activeBatch \in [Handle -> Seq(Operation) \cup {NULL}]

DBInit == activeBatch = [h \in Handle |-> NULL]

---------------------------------------------------------------------------
(* CBatchScanner: where the operation that counts for k is, if it has one. *)
Mentions(batch, k) == {i \in DOMAIN batch : batch[i].key = k}
(* Mutant: the first operation found is taken. *)
FirstMention(batch, k) ==
  CHOOSE i \in Mentions(batch, k) : \A j \in Mentions(batch, k) : i <= j
LastMention(batch, k) ==
  CHOOSE i \in Mentions(batch, k) : \A j \in Mentions(batch, k) : j <= i

(* ScanBatch finds k, and *deleted is set. *)
Found(batch, k) == Mentions(batch, k) # {}
Deleted(batch, k) == Found(batch, k) /\ batch[LastMention(batch, k)].value = NULL

(* Read: the value, or NULL when it returns false. *)
Read(h, k) ==
  IF activeBatch[h] # NULL /\ Found(activeBatch[h], k)
  THEN activeBatch[h][LastMention(activeBatch[h], k)].value
  ELSE disk[k]

Exists(h, k) ==
  \/ /\ activeBatch[h] # NULL
     /\ Found(activeBatch[h], k) /\ ~Deleted(activeBatch[h], k)
  \/ disk[k] # NULL

(* leveldb::DB::Write applies the operations of a batch in order, in one   *)
(* atomic step: the last one on a key stays.                               *)
Stays(batch, k) ==
  batch[CHOOSE i \in DOMAIN batch :
          /\ batch[i].key = k
          /\ \A j \in DOMAIN batch : batch[j].key = k => j <= i].value
LevelDBWrite(batch) ==
  [k \in Key |-> IF \E i \in DOMAIN batch : batch[i].key = k
                 THEN Stays(batch, k) ELSE disk[k]]

---------------------------------------------------------------------------
TxnBegin(h) ==
  /\ activeBatch[h] = NULL
  /\ activeBatch' = [activeBatch EXCEPT ![h] = <<>>]
  /\ UNCHANGED disk

(* Write of v or, with v = NULL, Erase. *)
Put(h, k, v) ==
  /\ h \notin ReadOnly
  /\ IF activeBatch[h] # NULL
     THEN /\ Len(activeBatch[h]) < MaxBatch
          /\ activeBatch' = [activeBatch EXCEPT ![h] = Append(@, [key |-> k, value |-> v])]
          /\ UNCHANGED disk
     ELSE /\ disk' = [disk EXCEPT ![k] = v]
          /\ UNCHANGED activeBatch

(* Mutant: the batch outlives the commit. *)
TxnCommitKeeps(h) ==
  /\ activeBatch[h] # NULL
  /\ disk' = LevelDBWrite(activeBatch[h])
  /\ UNCHANGED activeBatch

TxnCommit(h) ==
  /\ activeBatch[h] # NULL
  /\ disk' = LevelDBWrite(activeBatch[h])
  /\ activeBatch' = [activeBatch EXCEPT ![h] = NULL]

(* TxnAbort; TxnCommit when LevelDB refuses the batch; the object goes out *)
(* of scope.                                                               *)
TxnAbort(h) ==
  /\ activeBatch' = [activeBatch EXCEPT ![h] = NULL]
  /\ UNCHANGED disk

(* The process dies: only what LevelDB has committed is there afterwards. *)
DBCrash ==
  /\ activeBatch' = [h \in Handle |-> NULL]
  /\ UNCHANGED disk

DBNext ==
  \/ \E h \in Handle : TxnBegin(h) \/ TxnCommit(h) \/ TxnAbort(h)
  \/ \E h \in Handle, k \in Key, v \in Value \cup {NULL} : Put(h, k, v)
  \/ DBCrash

DBSpec ==
  /\ DBInit /\ disk \in [Key -> Value \cup {NULL}]
  /\ [][DBNext]_dbVars

---------------------------------------------------------------------------
(* Properties *)

Changes(batch) ==
  [k \in {batch[i].key : i \in DOMAIN batch} |-> Stays(batch, k)]

Abstract == INSTANCE KVStore WITH
  store <- disk,
  pending <- [h \in Handle |->
                IF activeBatch[h] = NULL THEN NULL ELSE Changes(activeBatch[h])]

(* The objects implement KVStore: a scan of the list of operations finds   *)
(* the change that counts, a batch is committed as a whole, and neither an *)
(* abort nor a crash lets any of it through.                               *)
StoreImplemented == Abstract!Spec

(* Each object reads its own changes and what others have committed: the   *)
(* scan agrees with the store at every key, after every list of puts and   *)
(* deletes, also where other objects write past an active batch.           *)
ReadsThroughBatch == \A h \in Handle, k \in Key : Read(h, k) = Abstract!Get(h, k)

(* What the comment on ScanBatch says of all of them: "once a database     *)
(* transaction begins reads are consistent with it".                       *)
ReadsConsistent ==
  \A h \in Handle, k \in Key : activeBatch[h] # NULL => (Exists(h, k) <=> Read(h, k) # NULL)
============================================================================
