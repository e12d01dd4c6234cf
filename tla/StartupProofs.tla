--------------------------- MODULE StartupProofs ---------------------------
(***************************************************************************)
(* Proofs about TxDB and Startup, for any set of master keys and any       *)
(* objects of TxDB: a CTxDB object reads through its batch, the objects    *)
(* implement KVStore, a node that is up has all it needs, and only the     *)
(* first start of a database can be spoiled.                               *)
(*                                                                         *)
(* TxDB's theorems rest on what a scan of a batch finds.  That a key which *)
(* occurs in a batch has a last occurrence is an induction over the length *)
(* of the batch; it is done here over the steps of the objects (HasLast),  *)
(* since a batch only grows by one operation at a time.                    *)
(*                                                                         *)
(* A load that a signal cuts short reports success, so that "loaded" does  *)
(* not mean that anything is; what holds is that without a request to shut *)
(* down fLoaded is set wherever LoadBlockIndex goes on (Reached).  The     *)
(* records need the place in the sequence of transactions (Recorded), and  *)
(* that needs the batches: each is the one of the transaction the start is *)
(* in (Batched).                                                           *)
(***************************************************************************)
EXTENDS Startup, TLAPS

(* i is the last operation on k. *)
IsLast(batch, k, i) ==
  /\ i \in DOMAIN batch /\ batch[i].key = k
  /\ \A j \in DOMAIN batch : batch[j].key = k => j <= i

(* Every key of an active batch has a last operation. *)
HasLast ==
  \A h \in Handle : activeBatch[h] # NULL =>
    \A k \in Key : Found(activeBatch[h], k) => \E i \in DOMAIN activeBatch[h] : IsLast(activeBatch[h], k, i)

DBInv == DBTypeOK /\ HasLast

---------------------------------------------------------------------------
(* What the scans return. *)

(* ScanBatch and LevelDB both take the last operation on a key. *)
LEMMA LastCounts ==
  ASSUME NEW batch \in Seq(Operation), NEW k, NEW i \in DOMAIN batch, IsLast(batch, k, i)
  PROVE  /\ LastMention(batch, k) = i
         /\ Stays(batch, k) = batch[i].value
         /\ Found(batch, k)
<1>1. DOMAIN batch \subseteq Nat
  OBVIOUS
<1>2. \A j \in DOMAIN batch : IsLast(batch, k, j) => j = i
  BY <1>1 DEF IsLast
<1>3. LastMention(batch, k) = i
  <2>1. i \in Mentions(batch, k) /\ \A j \in Mentions(batch, k) : j <= i
    BY DEF IsLast, Mentions
  <2>2. \A m \in Mentions(batch, k) : (\A j \in Mentions(batch, k) : j <= m) => m = i
    BY <1>2 DEF IsLast, Mentions
  <2>. QED
    BY <2>1, <2>2 DEF LastMention
<1>4. Stays(batch, k) = batch[i].value
  BY <1>2 DEF IsLast, Stays
<1>5. Found(batch, k)
  BY DEF IsLast, Found, Mentions
<1>. QED
  BY <1>3, <1>4, <1>5

(* An operation added to a batch is the last on its key and disturbs no    *)
(* other key.                                                              *)
LEMMA AppendedIsLast ==
  ASSUME NEW batch \in Seq(Operation), NEW op \in Operation
  PROVE  /\ IsLast(Append(batch, op), op.key, Len(batch) + 1)
         /\ \A k \in Key, i \in DOMAIN batch :
              k # op.key /\ IsLast(batch, k, i) => IsLast(Append(batch, op), k, i)
<1>. DEFINE longer == Append(batch, op)
<1>1. /\ longer \in Seq(Operation) /\ Len(longer) = Len(batch) + 1
      /\ longer[Len(batch) + 1] = op
      /\ \A j \in 1 .. Len(batch) : longer[j] = batch[j]
  OBVIOUS
<1>2. DOMAIN batch = 1 .. Len(batch) /\ DOMAIN longer = 1 .. Len(batch) + 1
  BY <1>1
<1>. QED
  BY <1>1, <1>2 DEF IsLast
(* The changes a batch amounts to, one operation later. *)
LEMMA ChangesOfAppend ==
  ASSUME NEW batch \in Seq(Operation), NEW op \in Operation,
         \A k \in Key : Found(batch, k) => \E i \in DOMAIN batch : IsLast(batch, k, i)
  PROVE  Changes(Append(batch, op)) =
           [x \in DOMAIN Changes(batch) \cup {op.key} |->
              IF x = op.key THEN op.value ELSE Changes(batch)[x]]
<1>. DEFINE longer == Append(batch, op)
<1>1. /\ longer \in Seq(Operation) /\ Len(longer) = Len(batch) + 1
      /\ longer[Len(batch) + 1] = op
      /\ \A j \in 1 .. Len(batch) : longer[j] = batch[j]
      /\ DOMAIN batch = 1 .. Len(batch) /\ DOMAIN longer = 1 .. Len(batch) + 1
  OBVIOUS
<1>2. /\ IsLast(longer, op.key, Len(batch) + 1)
      /\ \A k \in Key, i \in DOMAIN batch : k # op.key /\ IsLast(batch, k, i) => IsLast(longer, k, i)
  BY AppendedIsLast
<1>. HIDE DEF longer
<1>3. {longer[i].key : i \in DOMAIN longer} = {batch[i].key : i \in DOMAIN batch} \cup {op.key}
  BY <1>1
<1>4. ASSUME NEW x \in {batch[i].key : i \in DOMAIN batch}, x # op.key
      PROVE  Stays(longer, x) = Stays(batch, x)
  <2>1. PICK at \in DOMAIN batch : batch[at].key = x
    OBVIOUS
  <2>2. x \in Key /\ Found(batch, x)
    <3>1. batch[at] \in Operation
      OBVIOUS
    <3>2. at \in Mentions(batch, x)
      BY <2>1 DEF Mentions
    <3>. QED
      BY <2>1, <3>1, <3>2 DEF Operation, Found
  <2>3. PICK i \in DOMAIN batch : IsLast(batch, x, i)
    BY <2>2
  <2>4. IsLast(longer, x, i)
    BY <1>2, <1>4, <2>2, <2>3
  <2>5. i \in DOMAIN longer /\ longer[i] = batch[i]
    BY <1>1
  <2>6. Stays(longer, x) = longer[i].value
    BY <1>1, <2>4, <2>5, LastCounts
  <2>7. Stays(batch, x) = batch[i].value
    BY <2>3, LastCounts
  <2>. QED
    BY <2>5, <2>6, <2>7
<1>5. Stays(longer, op.key) = op.value
  <2>1. Len(batch) + 1 \in DOMAIN longer
    BY <1>2 DEF IsLast
  <2>2. Stays(longer, op.key) = longer[Len(batch) + 1].value
    BY <1>1, <1>2, <2>1, LastCounts
  <2>. QED
    BY <1>1, <2>2
<1>. QED
  BY <1>3, <1>4, <1>5 DEF Changes, longer

---------------------------------------------------------------------------
(* The invariant. *)

LEMMA DBInvInit ==
  ASSUME DBInit, disk \in [Key -> Value \cup {NULL}]
  PROVE  DBInv
BY DEF DBInit, DBInv, DBTypeOK, HasLast

LEMMA DBInvStep ==
  ASSUME DBAssumption, BatchAssumption, DBInv, [DBNext]_dbVars
  PROVE  DBInv'
<1>1. ASSUME NEW h \in Handle, TxnBegin(h)
      PROVE  DBInv'
  BY <1>1 DEF TxnBegin, DBInv, DBTypeOK, HasLast, Found, Mentions
<1>2. ASSUME NEW h \in Handle, TxnCommit(h)
      PROVE  DBInv'
  <2>1. activeBatch[h] \in Seq(Operation)
    BY <1>2 DEF TxnCommit, DBInv, DBTypeOK
  <2>2. ASSUME NEW k \in Key
        PROVE  LevelDBWrite(activeBatch[h])[k] \in Value \cup {NULL}
    <3>1. CASE \E i \in DOMAIN activeBatch[h] : activeBatch[h][i].key = k
      <4>. Found(activeBatch[h], k)
        BY <3>1 DEF Found, Mentions
      <4>1. PICK i \in DOMAIN activeBatch[h] : IsLast(activeBatch[h], k, i)
        BY <1>2 DEF TxnCommit, DBInv, HasLast
      <4>2. Stays(activeBatch[h], k) = activeBatch[h][i].value
        BY <2>1, <4>1, LastCounts
      <4>3. activeBatch[h][i] \in Operation
        BY <2>1
      <4>. QED
        BY <3>1, <4>2, <4>3 DEF LevelDBWrite, Operation
    <3>2. CASE ~\E i \in DOMAIN activeBatch[h] : activeBatch[h][i].key = k
      BY <3>2 DEF LevelDBWrite, DBInv, DBTypeOK
    <3>. QED
      BY <3>1, <3>2
  <2>3. disk' \in [Key -> Value \cup {NULL}]
    BY <1>2, <2>2 DEF TxnCommit, LevelDBWrite
  <2>. QED
    BY <1>2, <2>3 DEF TxnCommit, DBInv, DBTypeOK, HasLast
<1>3. ASSUME NEW h \in Handle, TxnAbort(h)
      PROVE  DBInv'
  BY <1>3 DEF TxnAbort, DBInv, DBTypeOK, HasLast
<1>4. ASSUME NEW h \in Handle, NEW k \in Key, NEW v \in Value \cup {NULL}, Put(h, k, v)
      PROVE  DBInv'
  <2>. DEFINE op == [key |-> k, value |-> v]
  <2>1. CASE activeBatch[h] = NULL
    BY <1>4, <2>1 DEF Put, DBInv, DBTypeOK, HasLast
  <2>2. CASE activeBatch[h] # NULL
    <3>1. /\ activeBatch[h] \in Seq(Operation) /\ op \in Operation
          /\ activeBatch' = [activeBatch EXCEPT ![h] = Append(@, op)] /\ disk' = disk
      BY <1>4, <2>2 DEF Put, DBInv, DBTypeOK, Operation
    <3>2. DBTypeOK'
      BY <3>1 DEF DBInv, DBTypeOK
    <3>3. ASSUME NEW x \in Key, Found(activeBatch'[h], x)
          PROVE  \E i \in DOMAIN activeBatch'[h] : IsLast(activeBatch'[h], x, i)
      <4>. DEFINE longer == Append(activeBatch[h], op)
      <4>1. activeBatch'[h] = longer
        BY <3>1 DEF DBInv, DBTypeOK
      <4>2. /\ DOMAIN activeBatch[h] = 1 .. Len(activeBatch[h])
            /\ DOMAIN longer = 1 .. Len(activeBatch[h]) + 1
            /\ longer[Len(activeBatch[h]) + 1] = op
            /\ \A j \in DOMAIN activeBatch[h] : longer[j] = activeBatch[h][j]
        BY <3>1
      <4>3. CASE x = k
        <5>1. op.key = k
          OBVIOUS
        <5>2. IsLast(longer, k, Len(activeBatch[h]) + 1)
          BY <3>1, <5>1, AppendedIsLast
        <5>. QED
          BY <4>1, <4>3, <5>2 DEF IsLast
      <4>4. CASE x # k
        <5>1. Found(activeBatch[h], x)
          BY <3>3, <4>1, <4>2, <4>4 DEF Found, Mentions
        <5>2. PICK i \in DOMAIN activeBatch[h] : IsLast(activeBatch[h], x, i)
          BY <2>2, <5>1 DEF DBInv, HasLast
        <5>3. op.key = k
          OBVIOUS
        <5>4. IsLast(longer, x, i)
          BY <3>1, <4>4, <5>2, <5>3, AppendedIsLast
        <5>. QED
          BY <4>1, <5>4 DEF IsLast
      <4>. QED
        BY <4>3, <4>4
    <3>. QED
      BY <3>1, <3>2, <3>3 DEF DBInv, DBTypeOK, HasLast
  <2>. QED
    BY <2>1, <2>2
<1>5. CASE DBCrash
  BY <1>5 DEF DBCrash, DBInv, DBTypeOK, HasLast
<1>6. CASE UNCHANGED dbVars
  BY <1>6 DEF dbVars, DBInv, DBTypeOK, HasLast
<1>. QED
  BY <1>1, <1>2, <1>3, <1>4, <1>5, <1>6 DEF DBNext

---------------------------------------------------------------------------
(* The refinement. *)

(* What KVStore takes for the changes of all objects. *)
Pending == [h \in Handle |-> IF activeBatch[h] = NULL THEN NULL ELSE Changes(activeBatch[h])]

(* Changes are a function on keys, hence not NULL. *)
LEMMA ChangesNotNull ==
  ASSUME BatchAssumption, DBInv, NEW h \in Handle, activeBatch[h] # NULL
  PROVE  /\ Changes(activeBatch[h]) # NULL
         /\ \A k \in Key : k \in DOMAIN Changes(activeBatch[h]) <=> Found(activeBatch[h], k)
<1>. DEFINE batch == activeBatch[h]
            keys  == {batch[i].key : i \in DOMAIN batch}
<1>1. batch \in Seq(Operation)
  BY DEF DBInv, DBTypeOK
<1>2. keys \subseteq Key
  <2>1. \A i \in DOMAIN batch : batch[i] \in Operation
    BY <1>1
  <2>. QED
    BY <2>1 DEF Operation
<1>3. ASSUME NEW k \in keys
      PROVE  Stays(batch, k) \in Value \cup {NULL}
  <2>1. PICK at \in DOMAIN batch : batch[at].key = k
    OBVIOUS
  <2>2. k \in Key /\ Found(batch, k)
    BY <1>2, <2>1 DEF Found, Mentions
  <2>3. PICK i \in DOMAIN batch : IsLast(batch, k, i)
    BY <2>2 DEF DBInv, HasLast
  <2>4. Stays(batch, k) = batch[i].value /\ batch[i] \in Operation
    BY <1>1, <2>3, LastCounts
  <2>. QED
    BY <2>4 DEF Operation
<1>4. Changes(batch) \in [keys -> Value \cup {NULL}]
  BY <1>3 DEF Changes
<1>5. \A k \in Key : k \in DOMAIN Changes(batch) <=> Found(batch, k)
  BY <1>4 DEF Found, Mentions
<1>. HIDE DEF batch, keys
<1>6. Changes(batch) # NULL
  BY <1>2, <1>4 DEF BatchAssumption
<1>. QED
  BY <1>5, <1>6 DEF batch

(* A scan of the batch and a look into the changes give the same. *)
LEMMA ReadIsGet ==
  ASSUME BatchAssumption, DBInv, NEW h \in Handle, NEW k \in Key
  PROVE  Read(h, k) = Abstract!Get(h, k)
<1>1. CASE activeBatch[h] = NULL
  BY <1>1 DEF Read, Abstract!Get
<1>2. CASE activeBatch[h] # NULL
  <2>1. /\ Changes(activeBatch[h]) # NULL
        /\ k \in DOMAIN Changes(activeBatch[h]) <=> Found(activeBatch[h], k)
    BY <1>2, ChangesNotNull
  <2>2. CASE ~Found(activeBatch[h], k)
    BY <1>2, <2>1, <2>2 DEF Read, Abstract!Get
  <2>3. CASE Found(activeBatch[h], k)
    <3>1. PICK i \in DOMAIN activeBatch[h] : IsLast(activeBatch[h], k, i)
      BY <1>2, <2>3 DEF DBInv, HasLast
    <3>2. activeBatch[h] \in Seq(Operation)
      BY <1>2 DEF DBInv, DBTypeOK
    <3>3. activeBatch[h][LastMention(activeBatch[h], k)].value = Stays(activeBatch[h], k)
      BY <3>1, <3>2, LastCounts
    <3>4. Changes(activeBatch[h])[k] = Stays(activeBatch[h], k)
      BY <2>1, <2>3 DEF Changes
    <3>. QED
      BY <1>2, <2>1, <2>3, <3>3, <3>4 DEF Read, Abstract!Get
  <2>. QED
    BY <2>2, <2>3
<1>. QED
  BY <1>1, <1>2

(* Every step of an object is the step of KVStore of the same name. *)
LEMMA StoreStep ==
  ASSUME DBAssumption, BatchAssumption, DBInv, [DBNext]_dbVars
  PROVE  [Abstract!Next]_(Abstract!vars)
<1>1. ASSUME NEW h \in Handle, TxnBegin(h)
      PROVE  Abstract!Begin(h)
  <2>1. Changes(<< >>) = [k \in {} |-> NULL]
    BY DEF Changes
  <2>2. activeBatch'[h] = << >> /\ activeBatch'[h] # NULL
        /\ \A p \in Handle \ {h} : activeBatch'[p] = activeBatch[p]
    <3>1. << >> \in Seq(Operation)
      OBVIOUS
    <3>. QED
      BY <1>1, <3>1 DEF TxnBegin, DBInv, DBTypeOK, BatchAssumption
  <2>3. Pending' = [Pending EXCEPT ![h] = [k \in {} |-> NULL]]
    BY <2>1, <2>2 DEF Pending
  <2>. QED
    BY <1>1, <2>3 DEF TxnBegin, Abstract!Begin, Pending
<1>2. ASSUME NEW h \in Handle, TxnCommit(h)
      PROVE  Abstract!Commit(h)
  <2>1. Changes(activeBatch[h]) # NULL
    BY <1>2, ChangesNotNull DEF TxnCommit
  <2>2. ASSUME NEW k \in Key
        PROVE  LevelDBWrite(activeBatch[h])[k] = Abstract!Get(h, k)
    <3>1. k \in DOMAIN Changes(activeBatch[h]) <=> \E i \in DOMAIN activeBatch[h] : activeBatch[h][i].key = k
      BY DEF Changes
    <3>. QED
      BY <1>2, <2>1, <3>1 DEF TxnCommit, LevelDBWrite, Changes, Abstract!Get
  <2>3. disk' = [k \in Key |-> Abstract!Get(h, k)]
    BY <1>2, <2>2 DEF TxnCommit, LevelDBWrite
  <2>4. Pending' = [Pending EXCEPT ![h] = NULL]
    BY <1>2 DEF TxnCommit, Pending, DBInv, DBTypeOK
  <2>. QED
    BY <1>2, <2>1, <2>3, <2>4 DEF TxnCommit, Abstract!Commit, Pending
<1>3. ASSUME NEW h \in Handle, TxnAbort(h)
      PROVE  Abstract!Discard(h)
  <2>1. Pending' = [Pending EXCEPT ![h] = NULL]
    BY <1>3 DEF TxnAbort, Pending, DBInv, DBTypeOK
  <2>. QED
    BY <1>3, <2>1 DEF TxnAbort, Abstract!Discard, Pending
<1>4. ASSUME NEW h \in Handle, NEW k \in Key, NEW v \in Value \cup {NULL}, Put(h, k, v)
      PROVE  Abstract!Set(h, k, v)
  <2>1. CASE activeBatch[h] = NULL
    BY <1>4, <2>1 DEF Put, Abstract!Set
  <2>2. CASE activeBatch[h] # NULL
    <3>. DEFINE op == [key |-> k, value |-> v]
    <3>1. /\ op \in Operation /\ op.key = k /\ op.value = v
          /\ activeBatch[h] \in Seq(Operation)
      BY <2>2 DEF Operation, DBInv, DBTypeOK
    <3>2. activeBatch' = [activeBatch EXCEPT ![h] = Append(activeBatch[h], op)] /\ disk' = disk
      BY <1>4, <2>2 DEF Put
    <3>. HIDE DEF op
    <3>3. Changes(Append(activeBatch[h], op)) =
            [x \in DOMAIN Changes(activeBatch[h]) \cup {k} |->
               IF x = k THEN v ELSE Changes(activeBatch[h])[x]]
      <4>1. \A x \in Key : Found(activeBatch[h], x) =>
              \E i \in DOMAIN activeBatch[h] : IsLast(activeBatch[h], x, i)
        BY <2>2 DEF DBInv, HasLast
      <4>2. Changes(Append(activeBatch[h], op)) =
              [x \in DOMAIN Changes(activeBatch[h]) \cup {op.key} |->
                 IF x = op.key THEN op.value ELSE Changes(activeBatch[h])[x]]
        BY <3>1, <4>1, ChangesOfAppend
      <4>. QED
        BY <3>1, <4>2
    <3>4. Append(activeBatch[h], op) # NULL
      BY <3>1 DEF BatchAssumption
    <3>5. Pending' = [Pending EXCEPT ![h] = Changes(Append(activeBatch[h], op))]
      BY <3>2, <3>4 DEF Pending, DBInv, DBTypeOK
    <3>6. Pending[h] = Changes(activeBatch[h]) /\ Pending[h] # NULL
      BY <2>2, ChangesNotNull DEF Pending
    <3>7. Pending' = [Pending EXCEPT ![h] = [x \in DOMAIN Pending[h] \cup {k} |->
                                               IF x = k THEN v ELSE Pending[h][x]]]
      BY <3>3, <3>5, <3>6
    <3>. QED
      BY <3>2, <3>6, <3>7 DEF Abstract!Set, Pending
  <2>. QED
    BY <2>1, <2>2
<1>5. CASE DBCrash
  <2>1. Pending' = [h \in Handle |-> NULL]
    BY <1>5 DEF DBCrash, Pending
  <2>. QED
    BY <1>5, <2>1 DEF DBCrash, Abstract!Crash, Abstract!Next, Pending
<1>6. CASE UNCHANGED dbVars
  BY <1>6 DEF dbVars, Abstract!vars
<1>. QED
  BY <1>1, <1>2, <1>3, <1>4, <1>5, <1>6 DEF DBNext, Abstract!Next

---------------------------------------------------------------------------
(* The theorems. *)

(* Type correctness, with a last operation for every key of a batch. *)
THEOREM DBTyping == ASSUME DBAssumption, BatchAssumption PROVE DBSpec => []DBInv
<1>1. DBInit /\ disk \in [Key -> Value \cup {NULL}] => DBInv
  BY DBInvInit
<1>2. DBInv /\ [DBNext]_dbVars => DBInv'
  BY DBInvStep
<1>. QED
  BY <1>1, <1>2, PTL DEF DBSpec

(* CTxDB::Read finds, for every key, the change the object made last, or   *)
(* what is committed if it made none.                                      *)
THEOREM ReadsSeeBatch == ASSUME DBAssumption, BatchAssumption PROVE DBSpec => []ReadsThroughBatch
<1>1. DBInv => ReadsThroughBatch
  BY ReadIsGet DEF ReadsThroughBatch
<1>. QED
  BY <1>1, DBTyping, PTL

(* TxnBegin, Write, Erase, TxnCommit and TxnAbort implement KVStore: a     *)
(* batch is committed as a whole or not at all.                            *)
THEOREM DBImplementsStore == ASSUME DBAssumption, BatchAssumption PROVE DBSpec => StoreImplemented
<1>1. DBInit /\ disk \in [Key -> Value \cup {NULL}] => Abstract!Init
  BY DEF DBInit, Abstract!Init
<1>2. DBInv /\ [DBNext]_dbVars => [Abstract!Next]_(Abstract!vars)
  BY StoreStep
<1>. QED
  BY <1>1, <1>2, DBTyping, PTL DEF DBSpec, StoreImplemented, Abstract!Spec

---------------------------------------------------------------------------
(* Start-up *)

(* The transaction of each place: the object, and what it writes. *)
Writes ==
  [fresh  |-> [by |-> call, key |-> "blockindex", value |-> "genesis"],
   best   |-> [by |-> call, key |-> "hashBestChain", value |-> "genesis"],
   sync   |-> [by |-> call, key |-> "hashSyncCheckpoint", value |-> "genesis"],
   newkey |-> [by |-> boot, key |-> "strCheckpointPubKey", value |-> strMasterPubKey],
   reset  |-> [by |-> call, key |-> "hashSyncCheckpoint", value |-> "genesis"],
   up     |-> [by |-> call, key |-> "hashBestChain", value |-> "tip"]]

Writing == {"fresh", "best", "sync", "newkey", "reset", "up"}

Operations == [key |-> Writes[pc].key, value |-> Writes[pc].value]

Batched ==
  /\ n # 0 => pc \in Writing
  /\ \A h \in Handle :
       activeBatch[h] = IF n # 0 /\ h = Writes[pc].by
                        THEN IF n = 1 THEN <<>> ELSE <<Operations>>
                        ELSE NULL

Complete == NULL \notin {disk["hashBestChain"], disk["hashSyncCheckpoint"], disk["blockindex"]}

Recorded ==
  /\ fWasUp \/ fLoaded => Complete
  /\ pc \in {"loading", "best", "sync"} => disk["blockindex"] # NULL
  /\ pc = "sync" => disk["hashBestChain"] # NULL
  /\ pc \in {"reset", "loaded", "up"} => disk["strCheckpointPubKey"] = strMasterPubKey
  /\ pc = "wiped" => ~fWasUp

Reached ==
  /\ fLoaded => pc \in {"key", "newkey", "reset", "loaded", "up"}
  /\ pc \in {"key", "newkey", "reset", "loaded"} => fLoaded \/ fRequestShutdown
  /\ pc = "up" => fLoaded
  /\ pc = "failed" => ~fWasUp

StartInv == StartTypeOK /\ Batched /\ Recorded /\ Reached

---------------------------------------------------------------------------
(* Records *)

(* What is used of the constants: NULL is no record, no key of a build and *)
(* no batch.                                                               *)
LEMMA Distinct ==
  ASSUME DBAssumption, BatchAssumption, StartAssumption
  PROVE  /\ Key = StartKey /\ StartKey \subseteq Key
         /\ \A v \in StartValue : v \in Value /\ v # NULL
         /\ {"old", "current", "genesis", "tip"} \subseteq StartValue /\ MasterKey \subseteq StartValue
         /\ \A b \in Seq(Operation) : b # NULL
         /\ boot \in Handle /\ call \in Handle /\ boot # call
         /\ boot \notin ReadOnly /\ call \notin ReadOnly
BY DEF DBAssumption, BatchAssumption, StartAssumption, StartValue

(* A batch of one operation changes one key. *)
LEMMA OneWritten ==
  ASSUME NEW k \in Key, NEW v, disk \in [Key -> Value \cup {NULL}]
  PROVE  LevelDBWrite(<<[key |-> k, value |-> v]>>) = [disk EXCEPT ![k] = v]
<1> DEFINE b == <<[key |-> k, value |-> v]>>
<1>1. DOMAIN b = {1} /\ b[1].key = k /\ b[1].value = v OBVIOUS
<1> HIDE DEF b
<1>2. Stays(b, k) = v BY <1>1 DEF Stays
<1>3. \A x \in Key : (\E i \in DOMAIN b : b[i].key = x) <=> x = k BY <1>1
<1>4. LevelDBWrite(b) = [x \in Key |-> IF x = k THEN v ELSE disk[x]]
  BY <1>2, <1>3 DEF LevelDBWrite
<1> QED BY <1>4 DEF b

(* A record is overwritten, never removed. *)
LEMMA Overwritten ==
  ASSUME NEW k \in Key, NEW v \in Value, disk \in [Key -> Value \cup {NULL}],
         NULL \notin Value, disk' = [disk EXCEPT ![k] = v]
  PROVE  /\ disk' \in [Key -> Value \cup {NULL}] /\ disk'[k] = v /\ disk'[k] # NULL
         /\ \A x \in Key : x # k => disk'[x] = disk[x]
         /\ \A x \in Key : disk[x] # NULL => disk'[x] # NULL
OBVIOUS

(* The three steps of the transaction of a place. *)
InTransaction(to) ==
  \/ n = 0 /\ n' = 1 /\ pc' = pc /\ disk' = disk
  \/ n = 1 /\ n' = 2 /\ pc' = pc /\ disk' = disk
  \/ n = 2 /\ n' = 0 /\ pc' = to /\ disk' = [disk EXCEPT ![Writes[pc].key] = Writes[pc].value]

LEMMA WritesAre ==
  ASSUME DBAssumption, BatchAssumption, StartAssumption, StartTypeOK, pc \in Writing
  PROVE  /\ Writes[pc].by \in Handle /\ Writes[pc].by \notin ReadOnly
         /\ Writes[pc].key \in Key /\ Writes[pc].value \in Value /\ Writes[pc].value # NULL
         /\ Operations \in Operation
         /\ Operations.key = Writes[pc].key /\ Operations.value = Writes[pc].value
<1>1. strMasterPubKey \in StartValue BY DEF StartTypeOK, StartValue
<1>2. /\ Writes[pc].by \in Handle /\ Writes[pc].by \notin ReadOnly
      /\ Writes[pc].key \in Key /\ Writes[pc].value \in StartValue
  BY <1>1, Distinct DEF Writes, Writing, StartKey
<1> QED BY <1>2, Distinct DEF Operations, Operation

(* What one of them does to the batches. *)
LEMMA TransactionStep ==
  ASSUME DBAssumption, BatchAssumption, StartAssumption, StartTypeOK, Batched,
         pc \in Writing, NEW to, strMasterPubKey' = strMasterPubKey,
         \/ n = 0 /\ TxnBegin(Writes[pc].by) /\ n' = 1 /\ pc' = pc
         \/ n = 1 /\ Put(Writes[pc].by, Writes[pc].key, Writes[pc].value) /\ n' = 2 /\ pc' = pc
         \/ n = 2 /\ TxnCommit(Writes[pc].by) /\ Goto(to)
  PROVE  /\ Batched' /\ InTransaction(to)
         /\ DBTypeOK' /\ n' \in 0 .. 2
         /\ \A x \in Key : disk[x] # NULL => disk'[x] # NULL
<1> DEFINE h == Writes[pc].by
           k == Writes[pc].key
           v == Writes[pc].value
           op == Operations
<1>a. /\ h \in Handle /\ k \in Key /\ v \in Value /\ v # NULL /\ op \in Operation
      /\ op = [key |-> k, value |-> v]
  BY WritesAre DEF Operations
<1>b. disk \in [Key -> Value \cup {NULL}] /\ activeBatch \in [Handle -> Seq(Operation) \cup {NULL}]
  BY DEF StartTypeOK, DBTypeOK
<1>c. pc' = pc => Writes' = Writes /\ Operations' = Operations /\ Writes[pc]' = Writes[pc]
  BY DEF Writes, Operations
<1>d. <<op>> \in Seq(Operation) /\ <<>> \in Seq(Operation) /\ Append(<<>>, op) = <<op>>
  BY <1>a
<1>e. \A b \in Seq(Operation) : b # NULL BY Distinct
<1>1. CASE n = 0 /\ TxnBegin(h) /\ n' = 1 /\ pc' = pc
  <2>1. activeBatch' = [activeBatch EXCEPT ![h] = <<>>] /\ disk' = disk BY <1>1 DEF TxnBegin
  <2>2. \A x \in Handle : activeBatch[x] = NULL BY <1>1 DEF Batched
  <2>3. activeBatch' \in [Handle -> Seq(Operation) \cup {NULL}] BY <2>1, <1>a, <1>b, <1>d
  <2>4. \A x \in Handle : activeBatch'[x] = IF x = h THEN <<>> ELSE NULL
    BY <2>1, <2>2, <1>b
  <2>5. n' # 0 /\ n' = 1 /\ n' \in 0 .. 2 BY <1>1
  <2>6. Batched' BY <2>4, <2>5, <1>1, <1>c DEF Batched
  <2> QED BY <2>1, <2>3, <2>5, <2>6, <1>1, <1>b DEF InTransaction, DBTypeOK
<1>2. CASE n = 1 /\ Put(h, k, v) /\ n' = 2 /\ pc' = pc
  <2>1. activeBatch[h] = <<>> BY <1>2, <1>a DEF Batched
  <2>2. activeBatch[h] # NULL BY <2>1, <1>d, <1>e
  <2>3. activeBatch' = [activeBatch EXCEPT ![h] = Append(@, op)] /\ disk' = disk
    BY <1>2, <2>2, <1>a DEF Put
  <2>4. activeBatch' = [activeBatch EXCEPT ![h] = <<op>>] BY <2>1, <2>3, <1>d
  <2>5. activeBatch' \in [Handle -> Seq(Operation) \cup {NULL}] BY <2>4, <1>a, <1>b, <1>d
  <2>6. \A x \in Handle : activeBatch'[x] = IF x = h THEN <<op>> ELSE NULL
    BY <2>4, <1>2, <1>b DEF Batched
  <2>7. n' # 0 /\ n' = 2 /\ n' \in 0 .. 2 BY <1>2
  <2>8. Batched' BY <2>6, <2>7, <1>2, <1>c DEF Batched
  <2> QED BY <2>3, <2>5, <2>7, <2>8, <1>2, <1>b DEF InTransaction, DBTypeOK
<1>3. CASE n = 2 /\ TxnCommit(h) /\ Goto(to)
  <2>1. activeBatch[h] = <<op>> BY <1>3, <1>a DEF Batched
  <2>2. disk' = [disk EXCEPT ![k] = v]
    <3>1. disk' = LevelDBWrite(<<op>>) BY <1>3, <2>1 DEF TxnCommit
    <3> QED BY <3>1, <1>a, <1>b, OneWritten
  <2>3. activeBatch' = [activeBatch EXCEPT ![h] = NULL] BY <1>3 DEF TxnCommit
  <2>4. /\ disk' \in [Key -> Value \cup {NULL}]
        /\ \A x \in Key : disk[x] # NULL => disk'[x] # NULL
    BY <2>2, <1>a, <1>b, Overwritten DEF DBAssumption
  <2>5. activeBatch' \in [Handle -> Seq(Operation) \cup {NULL}] BY <2>3, <1>a, <1>b
  <2>6. \A x \in Handle : activeBatch'[x] = NULL BY <2>3, <1>3, <1>b DEF Batched
  <2>7. n' = 0 /\ pc' = to /\ n' \in 0 .. 2 BY <1>3 DEF Goto
  <2>8. Batched' BY <2>6, <2>7 DEF Batched
  <2> QED BY <2>2, <2>4, <2>5, <2>7, <2>8, <1>3 DEF InTransaction, DBTypeOK
<1> QED BY <1>1, <1>2, <1>3

---------------------------------------------------------------------------
(* The invariant *)

LEMMA StartInvInit ==
  ASSUME DBAssumption, BatchAssumption, StartAssumption, StartInit
  PROVE  StartInv
<1>1. activeBatch = [h \in Handle |-> NULL] /\ pc = "down" /\ n = 0 /\ ~fLoaded BY DEF StartInit, DBInit
<1>2. disk \in [Key -> Value \cup {NULL}]
  <2>1. Empty \in [Key -> Value \cup {NULL}] BY DEF Empty
  <2>2. ASSUME NEW key \in MasterKey PROVE OldDisk(key) \in [Key -> Value \cup {NULL}]
    BY Distinct DEF OldDisk
  <2> QED BY <2>1, <2>2 DEF StartInit
<1>3. StartTypeOK
  <2>1. activeBatch \in [Handle -> Seq(Operation) \cup {NULL}] BY <1>1
  <2>2. fWasUp \in BOOLEAN BY DEF StartInit
  <2>3. pc \in PC /\ n \in 0 .. 2 BY <1>1 DEF PC
  <2> QED BY <1>2, <2>1, <2>2, <2>3 DEF StartInit, StartTypeOK, DBTypeOK
<1>4. Batched BY <1>1 DEF Batched
<1>5. disk # Empty => Complete
  <2>1. SUFFICES ASSUME NEW key \in MasterKey, disk = OldDisk(key) PROVE Complete
    BY DEF StartInit
  <2>2. {"hashBestChain", "hashSyncCheckpoint", "blockindex"} \subseteq Key BY Distinct DEF StartKey
  <2>3. disk["hashBestChain"] = "tip" /\ disk["hashSyncCheckpoint"] = "genesis" /\ disk["blockindex"] = "genesis"
    BY <2>1, <2>2 DEF OldDisk
  <2> QED BY <2>3, Distinct DEF Complete
<1>6. Recorded BY <1>1, <1>5 DEF StartInit, Recorded
<1>7. Reached BY <1>1 DEF Reached
<1> QED BY <1>3, <1>4, <1>6, <1>7 DEF StartInv

(* The places of LoadBlockIndex where it writes. *)
LEMMA WritingStep ==
  ASSUME DBAssumption, BatchAssumption, StartAssumption, StartInv,
         \/ AddGenesis \/ GenesisIsBest \/ InitSyncCheckpoint \/ WriteKey \/ ResetSync \/ Advance
  PROVE  StartInv'
<1> USE DEF StartInv
<1>k. {"hashBestChain", "hashSyncCheckpoint", "blockindex", "strCheckpointPubKey"} \subseteq Key
  BY Distinct DEF StartKey
<1>d. disk \in [Key -> Value \cup {NULL}] BY DEF StartTypeOK, DBTypeOK
<1>1. CASE AddGenesis
  <2>1. pc \in Writing /\ pc = "fresh" BY <1>1 DEF AddGenesis, Writing
  <2>2. Keep BY <1>1 DEF AddGenesis, Transaction
  <2>3. /\ Batched' /\ InTransaction("best") /\ DBTypeOK' /\ n' \in 0 .. 2
        /\ \A x \in Key : disk[x] # NULL => disk'[x] # NULL
    BY <1>1, <2>1, <2>2, TransactionStep DEF AddGenesis, Transaction, Keep, Writes
  <2>4. pc' = "fresh" \/ (pc' = "best" /\ disk'["blockindex"] # NULL)
    <3>1. Writes[pc].key = "blockindex" /\ Writes[pc].value = "genesis" BY <2>1 DEF Writes
    <3>2. "genesis" # NULL BY Distinct DEF StartTypeOK
    <3>3. pc' # pc => disk' = [disk EXCEPT !["blockindex"] = "genesis"]
      BY <2>1, <2>3, <3>1 DEF InTransaction
    <3>4. pc' # pc => disk'["blockindex"] = "genesis" BY <3>3, <1>k, <1>d
    <3> QED BY <2>1, <2>3, <3>2, <3>4 DEF InTransaction
  <2>5. Complete => Complete' BY <2>3, <1>k DEF Complete
  <2> QED BY <2>1, <2>2, <2>3, <2>4, <2>5 DEF Keep, StartTypeOK, PC, Recorded, Reached
<1>2. CASE GenesisIsBest
  <2>1. pc \in Writing /\ pc = "best" BY <1>2 DEF GenesisIsBest, Writing
  <2>2. Keep BY <1>2 DEF GenesisIsBest, Transaction
  <2>3. /\ Batched' /\ InTransaction("sync") /\ DBTypeOK' /\ n' \in 0 .. 2
        /\ \A x \in Key : disk[x] # NULL => disk'[x] # NULL
    BY <1>2, <2>1, <2>2, TransactionStep DEF GenesisIsBest, Transaction, Keep, Writes
  <2>4. pc' = "best" \/ (pc' = "sync" /\ disk'["hashBestChain"] # NULL)
    <3>1. Writes[pc].key = "hashBestChain" /\ Writes[pc].value = "genesis" BY <2>1 DEF Writes
    <3>2. "genesis" # NULL BY Distinct DEF StartTypeOK
    <3>3. pc' # pc => disk' = [disk EXCEPT !["hashBestChain"] = "genesis"]
      BY <2>1, <2>3, <3>1 DEF InTransaction
    <3>4. pc' # pc => disk'["hashBestChain"] = "genesis" BY <3>3, <1>k, <1>d
    <3> QED BY <2>1, <2>3, <3>2, <3>4 DEF InTransaction
  <2>5. (Complete => Complete') /\ (disk["blockindex"] # NULL => disk'["blockindex"] # NULL)
    BY <2>3, <1>k DEF Complete
  <2> QED BY <2>1, <2>2, <2>3, <2>4, <2>5 DEF Keep, StartTypeOK, PC, Recorded, Reached
<1>3. CASE InitSyncCheckpoint
  <2>1. pc \in Writing /\ pc = "sync" BY <1>3 DEF InitSyncCheckpoint, Writing
  <2>2. UNCHANGED <<fRequestShutdown, strMasterPubKey, fWasUp>> BY <1>3 DEF InitSyncCheckpoint
  <2>3. /\ Batched' /\ InTransaction("key") /\ DBTypeOK' /\ n' \in 0 .. 2
        /\ \A x \in Key : disk[x] # NULL => disk'[x] # NULL
    BY <1>3, <2>1, <2>2, TransactionStep DEF InitSyncCheckpoint, Writes
  <2>4. Complete => Complete' BY <2>3, <1>k DEF Complete
  <2>5. \/ pc' = "sync" /\ fLoaded' = fLoaded /\ disk' = disk
        \/ pc' = "key" /\ fLoaded' = TRUE /\ Complete'
    <3>1. CASE n = 2
      <4>1. pc' = "key" /\ fLoaded' = TRUE BY <3>1, <1>3 DEF InitSyncCheckpoint, Goto
      <4>2. disk' = [disk EXCEPT !["hashSyncCheckpoint"] = "genesis"]
        BY <2>1, <2>3, <3>1 DEF InTransaction, Writes
      <4>3. disk'["hashSyncCheckpoint"] # NULL BY <4>2, <1>k, <1>d, Distinct
      <4>4. disk["blockindex"] # NULL /\ disk["hashBestChain"] # NULL BY <2>1 DEF Recorded
      <4> QED BY <4>1, <4>3, <4>4, <2>3, <1>k DEF Complete
    <3>2. CASE n # 2 BY <3>2, <2>1, <2>3, <1>3 DEF InitSyncCheckpoint, InTransaction
    <3> QED BY <3>1, <3>2
  <2>6. StartTypeOK' BY <2>2, <2>3, <2>5, <2>1 DEF StartTypeOK, PC
  <2>7. Recorded' BY <2>1, <2>2, <2>4, <2>5 DEF Recorded
  <2>8. Reached' BY <2>1, <2>2, <2>5 DEF Reached
  <2> QED BY <2>3, <2>6, <2>7, <2>8
<1>4. CASE WriteKey
  <2>1. pc \in Writing /\ pc = "newkey" BY <1>4 DEF WriteKey, Writing
  <2>2. Keep BY <1>4 DEF WriteKey, Transaction
  <2>3. /\ Batched' /\ InTransaction("reset") /\ DBTypeOK' /\ n' \in 0 .. 2
        /\ \A x \in Key : disk[x] # NULL => disk'[x] # NULL
    BY <1>4, <2>1, <2>2, TransactionStep DEF WriteKey, Transaction, Keep, Writes
  <2>4. pc' = "newkey" \/ (pc' = "reset" /\ disk'["strCheckpointPubKey"] = strMasterPubKey)
    <3>1. Writes[pc].key = "strCheckpointPubKey" /\ Writes[pc].value = strMasterPubKey BY <2>1 DEF Writes
    <3>2. strMasterPubKey # NULL BY Distinct DEF StartTypeOK
    <3>3. pc' # pc => disk' = [disk EXCEPT !["strCheckpointPubKey"] = strMasterPubKey]
      BY <2>1, <2>3, <3>1 DEF InTransaction
    <3>4. pc' # pc => disk'["strCheckpointPubKey"] = strMasterPubKey BY <3>3, <1>k, <1>d
    <3> QED BY <2>1, <2>3, <3>2, <3>4 DEF InTransaction
  <2>5. Complete => Complete' BY <2>3, <1>k DEF Complete
  <2> QED BY <2>1, <2>2, <2>3, <2>4, <2>5 DEF Keep, StartTypeOK, PC, Recorded, Reached
<1>5. CASE ResetSync
  <2>1. pc \in Writing /\ pc = "reset" BY <1>5 DEF ResetSync, Writing
  <2>2. Keep BY <1>5 DEF ResetSync, Transaction
  <2>3. /\ Batched' /\ InTransaction("loaded") /\ DBTypeOK' /\ n' \in 0 .. 2
        /\ \A x \in Key : disk[x] # NULL => disk'[x] # NULL
    BY <1>5, <2>1, <2>2, TransactionStep DEF ResetSync, Transaction, Keep, Writes
  <2>4. pc' \in {"reset", "loaded"} /\ disk'["strCheckpointPubKey"] = disk["strCheckpointPubKey"]
    <3>1. Writes[pc].key = "hashSyncCheckpoint" /\ Writes[pc].value = "genesis" BY <2>1 DEF Writes
    <3>2. "genesis" # NULL BY Distinct DEF StartTypeOK
    <3> QED BY <2>1, <2>3, <3>1, <3>2, <1>k, <1>d DEF InTransaction
  <2>5. Complete => Complete' BY <2>3, <1>k DEF Complete
  <2> QED BY <2>1, <2>2, <2>3, <2>4, <2>5 DEF Keep, StartTypeOK, PC, Recorded, Reached
<1>6. CASE Advance
  <2>1. pc \in Writing /\ pc = "up" BY <1>6 DEF Advance, Writing
  <2>2. Keep BY <1>6 DEF Advance, Transaction
  <2>3. /\ Batched' /\ InTransaction("up") /\ DBTypeOK' /\ n' \in 0 .. 2
        /\ \A x \in Key : disk[x] # NULL => disk'[x] # NULL
    BY <1>6, <2>1, <2>2, TransactionStep DEF Advance, Transaction, Keep, Writes
  <2>4. pc' = "up" /\ disk'["strCheckpointPubKey"] = disk["strCheckpointPubKey"]
    <3>1. Writes[pc].key = "hashBestChain" /\ Writes[pc].value = "tip" BY <2>1 DEF Writes
    <3>2. "tip" # NULL BY Distinct DEF StartTypeOK
    <3> QED BY <2>1, <2>3, <3>1, <3>2, <1>k, <1>d DEF InTransaction
  <2>5. Complete => Complete' BY <2>3, <1>k DEF Complete
  <2> QED BY <2>1, <2>2, <2>3, <2>4, <2>5 DEF Keep, StartTypeOK, PC, Recorded, Reached
<1> QED BY <1>1, <1>2, <1>3, <1>4, <1>5, <1>6

(* No batch is open where the start is between transactions. *)
LEMMA NoBatch ==
  ASSUME StartAssumption, Batched, n = 0
  PROVE  \A h \in Handle : activeBatch[h] = NULL
BY DEF Batched

(* The other places, a signal and the end of the process. *)
LEMMA OtherStep ==
  ASSUME DBAssumption, BatchAssumption, StartAssumption, StartInv,
         Start \/ Open \/ WriteVersion \/ EnterLoop \/ FinishLoad \/ CompareKey \/ GoUp \/ Signal \/ Stop
  PROVE  StartInv'
<1> USE DEF StartInv
<1>k. {"version", "hashBestChain", "hashSyncCheckpoint", "blockindex", "strCheckpointPubKey"} \subseteq Key
  BY Distinct DEF StartKey
<1>d. disk \in [Key -> Value \cup {NULL}] BY DEF StartTypeOK, DBTypeOK
<1>n. pc \notin Writing => n = 0 BY DEF Batched
<1>b. boot \in Handle /\ boot \notin ReadOnly /\ NULL \notin Value BY Distinct DEF DBAssumption
<1>q. ASSUME activeBatch' = activeBatch, n = 0, n' = 0 PROVE Batched' BY <1>q DEF Batched
<1>r. ASSUME UNCHANGED dbVars PROVE (Complete' <=> Complete) /\ DBTypeOK'
  BY <1>r DEF dbVars, Complete, DBTypeOK, StartTypeOK
<1>1. CASE Start
  <2>1. n = 0 /\ ~fLoaded BY <1>1, <1>n DEF Start, Writing, Reached
  <2>2. Batched' BY <2>1, <1>1, <1>q DEF Start, Goto, dbVars
  <2> QED BY <2>1, <2>2, <1>1, <1>r DEF Start, Goto, StartTypeOK, PC, Recorded, Reached
<1>2. CASE Open
  <2>1. n = 0 /\ ~fLoaded BY <1>2, <1>n DEF Open, Writing, Reached
  <2>2. CASE disk["version"] = NULL
    <3>1. Put(boot, "version", "current") /\ Goto("load") /\ UNCHANGED fWasUp
      BY <1>2, <2>2, Distinct DEF Open
    <3>2. disk' = [disk EXCEPT !["version"] = "current"] /\ activeBatch' = activeBatch
      BY <3>1, <2>1, <1>b, NoBatch DEF Put
    <3>3. Complete' <=> Complete BY <3>2, <1>k, <1>d DEF Complete
    <3>4. DBTypeOK' BY <3>2, <1>k, <1>d, Distinct DEF DBTypeOK, StartTypeOK
    <3>5. Batched' BY <3>1, <3>2, <2>1, <1>q DEF Goto
    <3> QED BY <3>1, <3>3, <3>4, <3>5, <2>1, <1>2 DEF Open, Goto, StartTypeOK, PC, Recorded, Reached
  <2>3. CASE disk["version"] # NULL /\ disk["version"] = "old"
    <3>1. disk' = Empty /\ fWasUp' = FALSE /\ Goto("wiped") /\ UNCHANGED activeBatch
      BY <1>2, <2>3 DEF Open
    <3>2. DBTypeOK' BY <3>1 DEF DBTypeOK, StartTypeOK, Empty
    <3>3. Batched' BY <3>1, <2>1, <1>q DEF Goto
    <3> QED BY <3>1, <3>2, <3>3, <2>1, <1>2 DEF Open, Goto, StartTypeOK, PC, Recorded, Reached
  <2>4. CASE disk["version"] # NULL /\ disk["version"] # "old"
    <3>1. Goto("load") /\ UNCHANGED <<dbVars, fWasUp>> BY <1>2, <2>4 DEF Open
    <3>2. Batched' BY <3>1, <2>1, <1>q DEF Goto, dbVars
    <3> QED BY <3>1, <3>2, <2>1, <1>2, <1>r DEF Open, Goto, StartTypeOK, PC, Recorded, Reached
  <2> QED BY <2>2, <2>3, <2>4
<1>3. CASE WriteVersion
  <2>1. n = 0 /\ ~fLoaded BY <1>3, <1>n DEF WriteVersion, Writing, Reached
  <2>2. disk' = [disk EXCEPT !["version"] = "current"] /\ activeBatch' = activeBatch
    BY <1>3, <2>1, <1>b, NoBatch DEF WriteVersion, Put
  <2>3. Complete' <=> Complete BY <2>2, <1>k, <1>d DEF Complete
  <2>4. DBTypeOK' BY <2>2, <1>k, <1>d, Distinct DEF DBTypeOK, StartTypeOK
  <2>5. Batched' BY <1>3, <2>2, <2>1, <1>q DEF WriteVersion, Goto
  <2> QED BY <2>3, <2>4, <2>5, <2>1, <1>3 DEF WriteVersion, Keep, Goto, StartTypeOK, PC, Recorded, Reached
<1>4. CASE EnterLoop
  <2>1. n = 0 /\ ~fLoaded BY <1>4, <1>n DEF EnterLoop, Writing, Reached
  <2>2. n' = 0 /\ pc' \in {"fresh", "failed", "loading"} BY <1>4 DEF EnterLoop, Goto
  <2>3. /\ pc' = "failed" => disk["blockindex"] = NULL
        /\ pc' = "loading" => disk["blockindex"] # NULL
    BY <1>4 DEF EnterLoop, Goto
  <2>4. Batched' BY <1>4, <2>2, <2>1, <1>q DEF EnterLoop, dbVars
  <2>5. disk' = disk /\ Keep BY <1>4 DEF EnterLoop, dbVars
  <2>6. pc = "load" BY <1>4 DEF EnterLoop
  <2>7. StartTypeOK' BY <2>2, <2>5, <1>4, <1>r DEF EnterLoop, Keep, StartTypeOK, PC
  <2>8. Recorded' BY <2>1, <2>2, <2>3, <2>5, <2>6, <1>4, <1>r DEF EnterLoop, Keep, Recorded
  <2>9. Reached' BY <2>1, <2>2, <2>3, <2>5, <2>6 DEF Keep, Recorded, Reached, Complete
  <2> QED BY <2>4, <2>7, <2>8, <2>9
<1>5. CASE FinishLoad
  <2>1. n = 0 /\ ~fLoaded /\ pc = "loading" BY <1>5, <1>n DEF FinishLoad, Writing, Reached
  <2>2. \A k \in Key : Read(boot, k) = disk[k] BY <2>1, <1>b, NoBatch DEF Read
  <2>3. n' = 0 /\ Batched' BY <1>5, <2>1, <1>q DEF FinishLoad, dbVars, Goto
  <2>4. CASE fRequestShutdown
    BY <2>1, <2>3, <2>4, <1>5, <1>r DEF FinishLoad, Goto, StartTypeOK, PC, Recorded, Reached
  <2>5. CASE ~fRequestShutdown /\ NULL \in {disk["hashBestChain"], disk["hashSyncCheckpoint"]}
    <3>1. pc' = "failed" /\ fLoaded' = fLoaded BY <1>5, <2>2, <2>5, <1>k DEF FinishLoad, Goto
    <3>2. ~Complete BY <2>5 DEF Complete
    <3>3. ~fWasUp BY <3>2 DEF Recorded
    <3> QED BY <2>1, <2>3, <3>1, <3>3, <1>5, <1>r DEF FinishLoad, StartTypeOK, PC, Recorded, Reached
  <2>6. CASE ~fRequestShutdown /\ NULL \notin {disk["hashBestChain"], disk["hashSyncCheckpoint"]}
    <3>1. pc' = "key" /\ fLoaded' = TRUE BY <1>5, <2>2, <2>6, <1>k DEF FinishLoad, Goto
    <3>2. Complete BY <2>6, <2>1 DEF Complete, Recorded
    <3> QED BY <2>1, <2>3, <3>1, <3>2, <1>5, <1>r DEF FinishLoad, StartTypeOK, PC, Recorded, Reached
  <2> QED BY <2>4, <2>5, <2>6
<1>6. CASE CompareKey
  <2>1. n = 0 /\ pc = "key" BY <1>6, <1>n DEF CompareKey, Writing
  <2>2. Read(boot, "strCheckpointPubKey") = disk["strCheckpointPubKey"] BY <2>1, <1>b, NoBatch DEF Read
  <2>3. /\ n' = 0 /\ pc' \in {"loaded", "newkey"}
        /\ pc' = "loaded" => disk["strCheckpointPubKey"] = strMasterPubKey
    BY <1>6, <2>2 DEF CompareKey, Goto
  <2>4. Batched' BY <1>6, <2>3, <2>1, <1>q DEF CompareKey, dbVars
  <2>5. disk' = disk /\ Keep BY <1>6 DEF CompareKey, dbVars
  <2> QED BY <2>1, <2>3, <2>4, <2>5, <1>6, <1>r DEF CompareKey, Keep, StartTypeOK, PC, Recorded, Reached
<1>7. CASE GoUp
  <2>1. n = 0 /\ pc = "loaded" BY <1>7, <1>n DEF GoUp, Writing
  <2>2. n' = 0 /\ Batched' BY <1>7, <2>1, <1>q DEF GoUp, Goto, dbVars
  <2>3. disk' = disk /\ DBTypeOK' /\ (Complete' <=> Complete) BY <1>7, <1>r DEF GoUp, dbVars
  <2>4. CASE fRequestShutdown
    BY <2>1, <2>2, <2>3, <2>4, <1>7 DEF GoUp, Goto, StartTypeOK, PC, Recorded, Reached
  <2>5. CASE ~fRequestShutdown
    BY <2>1, <2>2, <2>3, <2>5, <1>7 DEF GoUp, Goto, StartTypeOK, PC, Recorded, Reached
  <2> QED BY <2>4, <2>5
<1>8. CASE Signal
  <2>1. Batched'
    <3>1. n' = n /\ pc' = pc /\ Writes' = Writes /\ Operations' = Operations /\ activeBatch' = activeBatch
      BY <1>8 DEF Signal, dbVars, Writes, Operations
    <3> QED BY <3>1 DEF Batched
  <2> QED BY <2>1, <1>8, <1>r DEF Signal, dbVars, StartTypeOK, PC, Recorded, Reached
<1>9. CASE Stop
  <2>1. Batched' BY <1>9 DEF Stop, DBCrash, Goto, Batched
  <2>2. DBTypeOK' BY <1>9 DEF Stop, DBCrash, DBTypeOK, StartTypeOK
  <2>3. disk' = disk /\ (Complete' <=> Complete) BY <1>9 DEF Stop, DBCrash, Complete
  <2>4. /\ pc' = "down" /\ n' = 0 /\ fRequestShutdown' = FALSE /\ fLoaded' = FALSE
        /\ UNCHANGED <<strMasterPubKey, fWasUp>>
    BY <1>9 DEF Stop, Goto
  <2>5. StartTypeOK'
    <3>1. n' \in 0 .. 2 /\ pc' \in PC BY <2>4 DEF PC
    <3>2. fRequestShutdown' \in BOOLEAN /\ fLoaded' \in BOOLEAN BY <2>4
    <3> QED BY <2>2, <2>4, <3>1, <3>2 DEF StartTypeOK
  <2>6. Recorded' BY <2>3, <2>4 DEF Recorded
  <2>7. Reached' BY <2>4 DEF Reached
  <2> QED BY <2>1, <2>5, <2>6, <2>7
<1> QED BY <1>1, <1>2, <1>3, <1>4, <1>5, <1>6, <1>7, <1>8, <1>9

LEMMA StartInvStep ==
  ASSUME DBAssumption, BatchAssumption, StartAssumption, StartInv, [StartNext]_bootVars
  PROVE  StartInv'
<1>1. CASE UNCHANGED bootVars
  <2>1. UNCHANGED <<disk, activeBatch, pc, n, fRequestShutdown, strMasterPubKey, fLoaded, fWasUp>>
    BY <1>1 DEF bootVars, dbVars, startVars
  <2>2. Writes' = Writes /\ Operations' = Operations BY <2>1 DEF Writes, Operations
  <2>3. Batched' BY <2>1, <2>2 DEF StartInv, Batched
  <2> QED BY <2>1, <2>3 DEF StartInv, StartTypeOK, DBTypeOK, Recorded, Reached, Complete
<1>2. CASE StartNext
  BY <1>2, WritingStep, OtherStep DEF StartNext, Step
<1> QED BY <1>1, <1>2

---------------------------------------------------------------------------
(* The theorems. *)

(* Type correctness; every batch is that of the transaction the start is   *)
(* in, and every record is there that the place of the start implies.      *)
THEOREM StartTyping ==
  ASSUME DBAssumption, BatchAssumption, StartAssumption
  PROVE  StartSpec => []StartInv
<1>1. StartInit => StartInv BY StartInvInit
<1>2. StartInv /\ [StartNext]_bootVars => StartInv' BY StartInvStep
<1> QED BY <1>1, <1>2, PTL DEF StartSpec

(* AppInit2 comes up only with everything in memory and on disk, and a     *)
(* LoadBlockIndex fails only on a database no start has completed, however *)
(* many starts crashes and signals have cut short before.                  *)
THEOREM StartIsSound ==
  ASSUME DBAssumption, BatchAssumption, StartAssumption
  PROVE  StartSpec => []StartsSound
<1>1. StartInv => StartsSound
  BY DEF StartInv, Recorded, Reached, Complete, StartsSound, UpIsComplete, OnceUpAlwaysUp
<1> QED BY <1>1, StartTyping, PTL
=============================================================================
