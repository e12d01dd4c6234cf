------------------------------- MODULE Node -------------------------------
(***************************************************************************)
(* The chain and the memory pool together: what SetBestChainInner and      *)
(* Reorganize of main.cpp do to the pool, and what reaches the pool        *)
(* between two blocks.  Everything here holds cs_main, so a "tx" message   *)
(* is handled from its first step to its last while the chain stands       *)
(* still, and the other way round.                                         *)
(***************************************************************************)
EXTENDS Chain, TxPool, Functions

CONSTANT TotalBlocksEstimate   \* height of the last hardened checkpoint

ASSUME EstimateAssumption == TotalBlocksEstimate \in Nat

VARIABLES
  vResurrect,  \* Reorganize: transactions to be put back into the pool
  vDelete,     \* Reorganize: transactions to be taken out of it
  lost         \* history: transactions disconnected in this session that
               \* are neither in the new branch nor back in the pool

reorgVars == <<vResurrect, vDelete>>
nodeVars  == <<vars, poolVars, reorgVars, lost>>

NodeTypeOK ==
  /\ PoolTypeOK
  /\ vResurrect \in Seq(Tx) /\ vDelete \in Seq(Tx)
  /\ lost \subseteq Tx

NodeInit ==
  /\ Init /\ PoolInit
  /\ vResurrect = <<>> /\ vDelete = <<>> /\ lost = {}

Resurrecting == Range(vResurrect)
Deleting == Range(vDelete)

(* Reorganize has nothing left to do for the pool. *)
PoolSettled == vResurrect = <<>> /\ vDelete = <<>>

---------------------------------------------------------------------------
NodeAcceptBlock(b) ==
  /\ HandlerIdle
  /\ AcceptBlock(b)
  /\ UNCHANGED <<poolVars, reorgVars, lost>>

(* The steps of SetBestChain that leave the pool alone. *)
QuietStep ==
  /\ \/ ConnectTipFails \/ Postpone \/ Reorganize
     \/ PoolSettled /\ (SecondaryFails \/ NewBest)
  /\ UNCHANGED <<poolVars, reorgVars, lost>>

(* SetBestChainInner takes the block's transactions out of the pool and    *)
(* leaves the ones that conflict with them.                                *)
NodeConnectTip ==
  /\ ConnectTip
  /\ Erase(Txs(pindexNew))
  /\ UNCHANGED <<orphanVars, queueVars, reorgVars, lost>>

NodeConnectSecondary ==
  /\ PoolSettled
  /\ ConnectSecondary
  /\ Erase(Txs(NextOn(pindex, pindexNew)))
  /\ UNCHANGED <<orphanVars, queueVars, reorgVars, lost>>

(* The members of S in a list of transactions, in their order. *)
Kept(s, S) ==
  LET kept[n \in 0 .. Len(s)] ==
        IF n = 0 THEN <<>>
        ELSE IF s[n] \in S THEN Append(kept[n - 1], s[n]) ELSE kept[n - 1]
  IN  kept[Len(s)]

(* The transactions of a disconnected block that are queued. *)
Resurrectable(t) == t \notin CoinBase \cup CoinStake
QueuedOf(b) ==
  IF Height[b] > TotalBlocksEstimate THEN Kept(Vtx[b], {t \in Tx : Resurrectable(t)}) ELSE <<>>

(* No transactions spend each other in a circle, nor one itself: the hash  *)
(* of each covers those of the ones it spends.                             *)
ASSUME HashAssumption ==
  \A S \in SUBSET Tx : S # {} => \E t \in S : Prevs(t) \cap S = {}

(* Mutant: the queue is built the wrong way round. *)
ReorgDisconnectAppends ==
  /\ ReorgDisconnect
  /\ vResurrect' = vResurrect \o QueuedOf(pindex)
  /\ UNCHANGED <<poolVars, vDelete, lost>>

NodeReorgDisconnect ==
  /\ ReorgDisconnect
  /\ vResurrect' = QueuedOf(pindex) \o vResurrect
  /\ UNCHANGED <<poolVars, vDelete, lost>>

(* Mutant: the transactions of the connected blocks are not queued. *)
ReorgConnectForgets ==
  /\ ReorgConnect
  /\ UNCHANGED <<poolVars, reorgVars, lost>>

NodeReorgConnect ==
  /\ ReorgConnect
  /\ vDelete' = vDelete \o Vtx[NextOn(pindex, pindexInter)]
  /\ UNCHANGED <<poolVars, vResurrect, lost>>

NodeReorgFails ==
  /\ ReorgFails
  /\ vResurrect' = <<>> /\ vDelete' = <<>>
  /\ UNCHANGED <<poolVars, lost>>

Dropped(b) ==
  {t \in Txs(b) : Height[b] <= TotalBlocksEstimate \/ ~Resurrectable(t)}

NodeReorgCommit ==
  /\ ReorgCommit
  /\ lost' = lost \cup {t \in UNION {Dropped(b) : b \in Chain[pindexBest] \ Chain[pindexInter]} :
                          dbTx'[t] = NULL}
  /\ UNCHANGED <<poolVars, reorgVars>>

(* Reorganize after its commit: the txdb is the new one, pindexBest is     *)
(* still the old tip.                                                      *)
Resurrect ==
  LET t == Head(vResurrect) IN
  /\ pc = "secondary" /\ vResurrect # <<>>
  /\ Acceptable(t, dbTx, pindexBest)
  /\ addUnchecked(t)
  /\ vResurrect' = Tail(vResurrect)
  /\ UNCHANGED <<vars, orphanVars, queueVars, vDelete, lost>>

ResurrectFails ==
  LET t == Head(vResurrect) IN
  /\ pc = "secondary" /\ vResurrect # <<>>
  /\ ~Acceptable(t, dbTx, pindexBest) \/ t \in FreeTx
  /\ vResurrect' = Tail(vResurrect)
  /\ lost' = lost \cup IF t \in mapTx \/ dbTx[t] # NULL THEN {} ELSE {t}
  /\ UNCHANGED <<vars, poolVars, vDelete>>

DeleteRedundant ==
  /\ pc = "secondary" /\ vResurrect = <<>> /\ vDelete # <<>>
  /\ removeConfirmed(Head(vDelete))
  /\ vDelete' = Tail(vDelete)
  /\ UNCHANGED <<vars, orphanVars, queueVars, vResurrect, lost>>

---------------------------------------------------------------------------
(* Transactions arrive while no block is being processed. *)
ReceiveTx(t) ==
  /\ pc = "idle"
  /\ \/ TxAccepted(t, dbTx, pindexBest)
     \/ TxOrphaned(t, dbTx)
     \/ AcceptToMemoryPool(t, dbTx, pindexBest)
  /\ UNCHANGED <<vars, reorgVars, lost>>

HandleTx ==
  /\ HandlerStep(dbTx, pindexBest)
  /\ UNCHANGED <<vars, reorgVars, lost>>

NodeRestart ==
  /\ Restart \/ \E h \in StartFrom : RestartFrom(h)
  /\ PoolRestart
  /\ vResurrect' = <<>> /\ vDelete' = <<>> /\ lost' = {}

NodeStep ==
  \/ QuietStep
  \/ NodeConnectTip \/ NodeConnectSecondary
  \/ NodeReorgDisconnect \/ NodeReorgConnect \/ NodeReorgFails \/ NodeReorgCommit
  \/ Resurrect \/ ResurrectFails \/ DeleteRedundant
  \/ HandleTx

NodeNext ==
  \/ NodeStep
  \/ \E b \in Block : NodeAcceptBlock(b)
  \/ \E t \in Tx : ReceiveTx(t)
  \/ NodeRestart

(* Whoever holds cs_main gets on with it. *)
NodeSpec == NodeInit /\ [][NodeNext]_nodeVars /\ WF_nodeVars(NodeStep)

---------------------------------------------------------------------------
(* Properties *)

(* No confirmed transaction stays in the pool once Reorganize is done: what *)
(* the branch of hashBestChain holds the pool does not, and between the     *)
(* commit and the clean-up only transactions still to be deleted are in    *)
(* both.                                                                   *)
NoneConfirmed ==
  \A t \in mapTx : dbTx[t] # NULL => pc = "secondary" /\ t \in Deleting

(* Every input of a pool transaction is in the chain or in the pool,       *)
(* unless Reorganize took it from the chain and could not put it back: no  *)
(* other step, non-recursive remove() included, cuts a transaction off     *)
(* from its parents.                                                       *)
ConnectedOrLost ==
  \A t \in mapTx : \A p \in Prevs(t) :
    \/ dbTx[p] # NULL \/ p \in mapTx \/ p \in lost
    \/ pc = "secondary" /\ p \in Resurrecting

(* "all transactions in the memory pool should connect to either           *)
(* transactions in the chain or other transactions in the memory pool",    *)
(* says CreateNewBlock, and asserts it in debug mode.                      *)
PoolConnects ==
  pc = "idle" => \A t \in mapTx : HaveInputs(t, dbTx)

(* A disconnected transaction is only given up for a reason: an input is   *)
(* spent or immature in the new branch, or wanted by another pool          *)
(* transaction, or was given up itself.  In particular no child is tried   *)
(* before its parent.                                                      *)
RefusedForCause ==
  [][\A t \in lost' \ lost :
       \/ t \in NonStandard \cup FreeTx \cup CoinBase \cup CoinStake
       \/ \E b \in Block : t \in Dropped(b)
       \/ \E o \in Vin[t] :
            \/ mapNextTx[o] # NULL
            \/ o[1] \in lost
            \/ dbTx[o[1]] # NULL /\ ~Spendable(o, dbTx, pindexBest)]_nodeVars

(* When Reorganize has cleaned up, no pool transaction conflicts with the  *)
(* branch it connected: neither one that was there before, nor one that    *)
(* was resurrected.                                                        *)
NoConflictAfterReorg ==
  [][PoolSettled' /\ ~PoolSettled /\ pc = "secondary" /\ restarts' = restarts =>
       \A t \in mapTx' : \A b \in Chain[pindexInter] \ Chain[pindexBest] :
         \A u \in Txs(b) : Vin[t] \cap Vin[u] = {}]_nodeVars

(* When a "tx" message has been handled, no stored orphan that waited for  *)
(* a transaction it brought in could be accepted: chains of orphans are    *)
(* followed to their ends.  (What entered the pool before does not count:  *)
(* the children of an orphan that is in the pool already are not tried.)   *)
NoOrphanLeftBehind ==
  [][EraseOrphans =>
       \A t \in mapOrphanTransactions' :
         Prevs(t) \cap brought # {} => ~Acceptable(t, dbTx, pindexBest)]_nodeVars

(* Whoever holds cs_main releases it: the queues of the "tx" handler and   *)
(* of Reorganize run empty.                                                *)
Released == []<>(pc = "idle" /\ HandlerIdle)
============================================================================
