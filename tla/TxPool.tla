------------------------------ MODULE TxPool ------------------------------
(***************************************************************************)
(* The memory pool and the orphan transactions: CTxMemPool, the handler of *)
(* the "tx" message, AddOrphanTx, EraseOrphanTx and LimitOrphanTxSize of   *)
(* main.cpp.  The operations take the transaction index they read (txdb)   *)
(* and the best block they read (best) as arguments; Node.tla runs them    *)
(* against the chain.                                                      *)
(***************************************************************************)
EXTENDS Ledger, FiniteSets, FiniteSetsExt

CONSTANTS
  NonStandard,  \* transactions the pool refuses whatever the chain holds:
                \* CheckTransaction, IsStandard, fee, value, signature
  FreeTx,       \* transactions the rate limiter may refuse
  BigTx,        \* transactions of more than 5000 bytes
  MaxOrphans    \* MAX_ORPHAN_TRANSACTIONS

ASSUME PoolAssumption ==
  /\ NonStandard \subseteq Tx /\ FreeTx \subseteq Tx /\ BigTx \subseteq Tx
  /\ MaxOrphans \in Nat

VARIABLES
  mapTx,                        \* the transactions of the pool
  mapNextTx,                    \* the pool transaction that spends each outpoint
  mapOrphanTransactions,
  mapOrphanTransactionsByPrev,  \* for each hash, the orphans that spend it
  vWorkQueue,                   \* "tx" handler: accepted, orphans not yet tried
  vTry,                         \* "tx" handler: orphans of the current entry left
  vEraseQueue,                  \* "tx" handler: orphans to be erased
  brought                       \* history: what the message brought into the pool

orphanVars == <<mapOrphanTransactions, mapOrphanTransactionsByPrev>>
queueVars  == <<vWorkQueue, vTry, vEraseQueue, brought>>
poolVars   == <<mapTx, mapNextTx, orphanVars, queueVars>>

OutPoint == UNION {Vin[t] : t \in Tx}
Prevs(t) == {o[1] : o \in Vin[t]}

PoolTypeOK ==
  /\ mapTx \subseteq Tx
  /\ mapNextTx \in [OutPoint -> Tx \cup {NULL}]
  /\ mapOrphanTransactions \subseteq Tx
  /\ mapOrphanTransactionsByPrev \in [Tx -> SUBSET Tx]
  /\ vWorkQueue \in Seq(Tx) /\ vTry \subseteq Tx /\ vEraseQueue \subseteq Tx
  /\ brought \subseteq Tx

PoolInit ==
  /\ mapTx = {} /\ mapNextTx = [o \in OutPoint |-> NULL]
  /\ mapOrphanTransactions = {}
  /\ mapOrphanTransactionsByPrev = [t \in Tx |-> {}]
  /\ vWorkQueue = <<>> /\ vTry = {} /\ vEraseQueue = {} /\ brought = {}

(* The pool and the orphans are memory: a restart begins without them. *)
PoolRestart ==
  /\ mapTx' = {} /\ mapNextTx' = [o \in OutPoint |-> NULL]
  /\ mapOrphanTransactions' = {}
  /\ mapOrphanTransactionsByPrev' = [t \in Tx |-> {}]
  /\ vWorkQueue' = <<>> /\ vTry' = {} /\ vEraseQueue' = {} /\ brought' = {}

(* No "tx" handler is running. *)
HandlerIdle == vWorkQueue = <<>> /\ vTry = {} /\ vEraseQueue = {}

---------------------------------------------------------------------------
(* CTxMemPool::accept: the tests before FetchInputs. *)
Eligible(t, txdb) ==
  /\ t \notin CoinBase \cup CoinStake \cup NonStandard
  /\ t \notin mapTx
  /\ txdb[t] = NULL
  /\ \A o \in Vin[t] : mapNextTx[o] = NULL

HaveInputs(t, txdb) == \A p \in Prevs(t) : txdb[p] # NULL \/ p \in mapTx

(* pfMissingInputs *)
MissingInputs(t, txdb) == Eligible(t, txdb) /\ ~HaveInputs(t, txdb)

(* ConnectInputs against the index: an output of a pool transaction has no *)
(* index record, so only the pool's own mapNextTx guards it.               *)
Spendable(o, txdb, best) ==
  /\ o[2] < NOut[o[1]]
  /\ txdb[o[1]] # NULL =>
       /\ txdb[o[1]].vSpent[o[2]] = NULL
       /\ o[1] \in CoinBase \cup CoinStake => txdb[o[1]].pos \notin Immature(best)

Acceptable(t, txdb, best) ==
  /\ Eligible(t, txdb)
  /\ HaveInputs(t, txdb)
  /\ \A o \in Vin[t] : Spendable(o, txdb, best)

addUnchecked(t) ==
  /\ mapTx' = mapTx \cup {t}
  /\ mapNextTx' = [o \in OutPoint |-> IF o \in Vin[t] THEN t ELSE mapNextTx[o]]

(* Mutant: remove() forgets mapNextTx. *)
EraseKeepsNext(S) == mapTx' = mapTx \ S /\ UNCHANGED mapNextTx

(* remove() of every transaction of S that is in the pool. *)
Erase(S) ==
  /\ mapTx' = mapTx \ S
  /\ mapNextTx' = [o \in OutPoint |->
                     IF \E t \in S \cap mapTx : o \in Vin[t] THEN NULL ELSE mapNextTx[o]]

(* What remove(t, true) reaches: the least set of pool transactions with t *)
(* in it that mapNextTx leads out of for none of their outputs.            *)
ClosedBelow(S) ==
  \A o \in OutPoint : o[1] \in S /\ o[2] < NOut[o[1]] /\ mapNextTx[o] # NULL => mapNextTx[o] \in S
Descendants(t) ==
  IF t \notin mapTx THEN {}
  ELSE {d \in mapTx : \A S \in SUBSET mapTx : t \in S /\ ClosedBelow(S) => d \in S}

(* The pool transactions that spend an input of t. *)
Conflicts(t) == {mapNextTx[o] : o \in Vin[t]} \ {NULL, t}

(* Mutants: removeConflicts is not recursive, or is not called. *)
removeNotRecursive(t) == Erase({t} \cup Conflicts(t))
removeNoConflicts(t) == Erase({t})

(* remove(t), which leaves the children of t, then removeConflicts(t).     *)
removeConfirmed(t) ==
  Erase({t} \cup UNION {Descendants(c) : c \in Conflicts(t)})

---------------------------------------------------------------------------
ByPrev(S) == [p \in Tx |-> {t \in S : p \in Prevs(t)}]

(* LimitOrphanTxSize evicts at random. *)
LimitOrphanTxSize(S) ==
  IF Cardinality(S) > MaxOrphans THEN kSubset(MaxOrphans, S) ELSE {S}

EraseOrphanTx(S) ==
  /\ mapOrphanTransactions' = mapOrphanTransactions \ S
  /\ mapOrphanTransactionsByPrev' =
       [p \in Tx |-> mapOrphanTransactionsByPrev[p]
                       \ {t \in S \cap mapOrphanTransactions : p \in Prevs(t)}]

AddOrphanTx(t) ==
  LET added == [p \in Tx |-> mapOrphanTransactionsByPrev[p]
                              \cup IF p \in Prevs(t) THEN {t} ELSE {}]
      new   == mapOrphanTransactions \cup {t}
  IN  \E kept \in LimitOrphanTxSize(new) :
        /\ mapOrphanTransactions' = kept
        /\ mapOrphanTransactionsByPrev' =
             [p \in Tx |-> added[p] \ {h \in new \ kept : p \in Prevs(h)}]

---------------------------------------------------------------------------
(* A "tx" message.  A transaction that is refused for another reason than  *)
(* a missing input changes nothing.                                        *)
TxAccepted(t, txdb, best) ==
  /\ HandlerIdle
  /\ Acceptable(t, txdb, best)
  /\ addUnchecked(t)
  /\ vWorkQueue' = <<t>> /\ vEraseQueue' = {t} /\ brought' = {t}
  /\ UNCHANGED <<orphanVars, vTry>>

TxOrphaned(t, txdb) ==
  /\ HandlerIdle
  /\ MissingInputs(t, txdb)
  /\ t \notin BigTx /\ t \notin mapOrphanTransactions
  /\ AddOrphanTx(t)
  /\ UNCHANGED <<mapTx, mapNextTx, queueVars>>

(* A transaction of the node's own wallet or of sendrawtransaction: the    *)
(* orphans are not looked at.                                              *)
AcceptToMemoryPool(t, txdb, best) ==
  /\ HandlerIdle
  /\ Acceptable(t, txdb, best)
  /\ addUnchecked(t)
  /\ UNCHANGED <<orphanVars, queueVars>>

(* Mutant: the loop does not move on. *)
NextWorkStays ==
  /\ vWorkQueue # <<>> /\ vTry = {}
  /\ vTry' = mapOrphanTransactionsByPrev[Head(vWorkQueue)]
  /\ UNCHANGED <<mapTx, mapNextTx, orphanVars, vWorkQueue, vEraseQueue, brought>>

(* The next entry of vWorkQueue. *)
NextWork ==
  /\ vWorkQueue # <<>> /\ vTry = {}
  /\ vTry' = mapOrphanTransactionsByPrev[Head(vWorkQueue)]
  /\ vWorkQueue' = Tail(vWorkQueue)
  /\ UNCHANGED <<mapTx, mapNextTx, orphanVars, vEraseQueue, brought>>

(* Mutant: an accepted orphan is not queued for its own orphans. *)
OrphanNotQueued(t, txdb, best) ==
  /\ t \in vTry
  /\ Acceptable(t, txdb, best)
  /\ addUnchecked(t)
  /\ vTry' = vTry \ {t}
  /\ vEraseQueue' = vEraseQueue \cup {t} /\ brought' = brought \cup {t}
  /\ UNCHANGED <<orphanVars, vWorkQueue>>

(* One of its orphans, in the order of the hashes, which is arbitrary. *)
OrphanAccepted(t, txdb, best) ==
  /\ t \in vTry
  /\ Acceptable(t, txdb, best)
  /\ addUnchecked(t)
  /\ vTry' = vTry \ {t}
  /\ vWorkQueue' = Append(vWorkQueue, t)
  /\ vEraseQueue' = vEraseQueue \cup {t} /\ brought' = brought \cup {t}
  /\ UNCHANGED orphanVars

OrphanRefused(t, txdb, best) ==
  /\ t \in vTry
  /\ ~Acceptable(t, txdb, best) \/ t \in FreeTx
  /\ vTry' = vTry \ {t}
  /\ vEraseQueue' = vEraseQueue \cup IF MissingInputs(t, txdb) THEN {} ELSE {t}
  /\ UNCHANGED <<mapTx, mapNextTx, orphanVars, vWorkQueue, brought>>

EraseOrphans ==
  /\ vWorkQueue = <<>> /\ vTry = {} /\ vEraseQueue # {}
  /\ EraseOrphanTx(vEraseQueue)
  /\ vEraseQueue' = {} /\ brought' = {}
  /\ UNCHANGED <<mapTx, mapNextTx, vWorkQueue, vTry>>

HandlerStep(txdb, best) ==
  \/ NextWork
  \/ \E t \in Tx : OrphanAccepted(t, txdb, best) \/ OrphanRefused(t, txdb, best)
  \/ EraseOrphans

---------------------------------------------------------------------------
(* mapNextTx names exactly the inputs of the pool's transactions: its      *)
(* pointers into mapTx never dangle, no pool transaction is missing from   *)
(* it, and no two of them spend the same output, whatever reorganisations, *)
(* resurrections and recursive removals came before.                       *)
PoolIndexed ==
  \A o \in OutPoint : \A t \in Tx :
    mapNextTx[o] = t <=> t \in mapTx /\ o \in Vin[t]

(* The orphan index names exactly the stored orphans under every hash they *)
(* wait for, in spite of random eviction and of orphans erased while their *)
(* set is walked, and the store never holds more than its limit.           *)
OrphansIndexed ==
  /\ mapOrphanTransactionsByPrev = ByPrev(mapOrphanTransactions)
  /\ Cardinality(mapOrphanTransactions) <= MaxOrphans

(* The maps of the pool and those of the orphan store agree throughout:    *)
(* remove(), EraseOrphanTx and LimitOrphanTxSize each keep two maps in     *)
(* step while they recurse, walk and evict.                                *)
MapsAgree == PoolIndexed /\ OrphansIndexed
============================================================================
