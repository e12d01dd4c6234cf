------------------------------- MODULE Miner -------------------------------
(***************************************************************************)
(* Block assembly on top of the chain and the pool: CreateNewBlock,        *)
(* CheckWork and CheckStake of miner.cpp and CBlock::SignBlock of          *)
(* main.cpp.  CreateNewBlock reads pindexBest before it takes cs_main and  *)
(* mempool.cs, collects the transactions under both, and lets go of them   *)
(* before the block is worked on; the check for a stale block comes last.  *)
(*                                                                         *)
(* A COrphan is named by its transaction, ptx.  Which transaction of       *)
(* vecPriority is first, and whether one that connects is passed over for  *)
(* its size, signature operations, time or fee, is left open.              *)
(***************************************************************************)
EXTENDS Node

CONSTANTS
  TxTime,      \* TxTime[t]: CTransaction::nTime
  StakeTime    \* times CreateCoinStake may find a kernel at

ASSUME MinerAssumption == TxTime \in [Tx -> Nat] /\ StakeTime \subseteq Nat

VARIABLES
  miner,        \* "off", "begun" (pindexPrev read), "collecting" (the locks
                \* are held), "made", "signed"
  pindexPrev,
  vecPriority,  \* the transactions whose inputs are in the chain or the block
  vOrphan,      \* the COrphan objects that are alive
  setDependsOn, \* of each of them
  mapDependers, \* for each hash, the COrphan pointers stored under it
  vtx,          \* the transactions of the block after the coinbase
  nTime,        \* the block's time once it is signed
  nTimeStake    \* the time of its coinstake

minerVars == <<miner, pindexPrev, vecPriority, vOrphan, setDependsOn, mapDependers,
               vtx, nTime, nTimeStake>>
allVars == <<nodeVars, minerVars>>

MinerStart ==
  [miner |-> "off", pindexPrev |-> NULL, vecPriority |-> {}, vOrphan |-> {},
   setDependsOn |-> [t \in Tx |-> {}], mapDependers |-> [t \in Tx |-> {}],
   vtx |-> <<>>, nTime |-> 0, nTimeStake |-> 0]

MinerInit ==
  /\ NodeInit
  /\ miner = MinerStart.miner /\ pindexPrev = MinerStart.pindexPrev
  /\ vecPriority = MinerStart.vecPriority /\ vOrphan = MinerStart.vOrphan
  /\ setDependsOn = MinerStart.setDependsOn /\ mapDependers = MinerStart.mapDependers
  /\ vtx = MinerStart.vtx /\ nTime = MinerStart.nTime /\ nTimeStake = MinerStart.nTimeStake

---------------------------------------------------------------------------
(* The first lines of CreateNewBlock, without a lock: whatever SetBestChain *)
(* is doing at the time.                                                   *)
BeginBlock ==
  /\ miner \in {"off", "made", "signed"}
  /\ miner' = "begun" /\ pindexPrev' = pindexBest
  /\ vecPriority' = {} /\ vOrphan' = {}
  /\ setDependsOn' = MinerStart.setDependsOn /\ mapDependers' = MinerStart.mapDependers
  /\ vtx' = <<>> /\ nTime' = 0 /\ nTimeStake' = 0
  /\ UNCHANGED nodeVars

(* Inputs that are not in the index: in the pool, or nowhere. *)
Awaited(t) == {p \in Prevs(t) : dbTx[p] = NULL /\ p \in mapTx}
IsMissing(t) == \E p \in Prevs(t) : dbTx[p] = NULL /\ p \notin mapTx

(* The loop over mapTx.  A transaction with an input that is nowhere is    *)
(* passed over and its COrphan popped off vOrphan, but the pointers stored *)
(* for the inputs before it stay in mapDependers.                          *)
Collect ==
  /\ miner = "begun" /\ pc = "idle" /\ HandlerIdle
  /\ miner' = "collecting"
  /\ LET whole == {t \in mapTx : ~IsMissing(t)}
         waiting == {t \in whole : Awaited(t) # {}}
     IN  /\ vOrphan' = waiting
         /\ vecPriority' = whole \ waiting
         /\ setDependsOn' = [t \in Tx |-> IF t \in waiting THEN Awaited(t) ELSE {}]
         /\ \E early \in [mapTx \ whole -> SUBSET Tx] :
              /\ \A t \in mapTx \ whole : early[t] \subseteq Awaited(t)
              /\ mapDependers' =
                   [p \in Tx |-> {t \in waiting : p \in Awaited(t)}
                                 \cup {t \in mapTx \ whole : p \in early[t]}]
  /\ UNCHANGED <<nodeVars, pindexPrev, vtx, nTime, nTimeStake>>

InBlock == Range(vtx)

(* Mutant: the transaction was connected when it entered the pool. *)
ConnectsInPool(t) == \A o \in Vin[t] : o[1] \in InBlock \/ dbTx[o[1]] # NULL

(* FetchInputs and ConnectInputs with fMiner, over mapTestPool.  The       *)
(* maturity is that of pindexPrev, one block short of the new block's.     *)
ConnectsInBlock(t) ==
  \A o \in Vin[t] :
    /\ o[1] \in InBlock \/ dbTx[o[1]] # NULL
    /\ o[2] < NOut[o[1]]
    /\ TxTime[o[1]] <= TxTime[t]
    /\ \A u \in InBlock : o \notin Vin[u]
    /\ o[1] \notin InBlock =>
         /\ dbTx[o[1]].vSpent[o[2]] = NULL
         /\ o[1] \in CoinBase \cup CoinStake => dbTx[o[1]].pos \notin Immature(pindexPrev)

(* A transaction is added: the COrphans stored under it have one           *)
(* dependency less, and go to vecPriority with the last one.  What a       *)
(* pointer to a COrphan that is gone finds is undefined: nothing to do, or *)
(* what was there before.                                                  *)
TakeAdded(t) ==
  /\ miner = "collecting" /\ t \in vecPriority
  /\ ConnectsInBlock(t)
  /\ vtx' = Append(vtx, t)
  /\ \E ghosts \in SUBSET (mapDependers[t] \ vOrphan) :
       LET released == {u \in mapDependers[t] \cap vOrphan : setDependsOn[u] = {t}}
       IN  vecPriority' = (vecPriority \ {t}) \cup released \cup ghosts
  /\ setDependsOn' = [u \in Tx |-> IF u \in mapDependers[t] THEN setDependsOn[u] \ {t}
                                   ELSE setDependsOn[u]]
  /\ UNCHANGED <<nodeVars, miner, pindexPrev, vOrphan, mapDependers, nTime, nTimeStake>>

TakePassed(t) ==
  /\ miner = "collecting" /\ t \in vecPriority
  /\ vecPriority' = vecPriority \ {t}
  /\ UNCHANGED <<nodeVars, miner, pindexPrev, vOrphan, setDependsOn, mapDependers,
                 vtx, nTime, nTimeStake>>

(* The locks are released. *)
BlockMade ==
  /\ miner = "collecting" /\ vecPriority = {}
  /\ miner' = "made"
  /\ vOrphan' = {}
  /\ setDependsOn' = MinerStart.setDependsOn /\ mapDependers' = MinerStart.mapDependers
  /\ UNCHANGED <<nodeVars, pindexPrev, vecPriority, vtx, nTime, nTimeStake>>

(* SignBlock with a kernel of time n, which satisfies its tests against    *)
(* the best block: the block takes the time of its latest transaction,     *)
(* and transactions later than that are erased.                            *)
SignBlock(n) ==
  /\ miner = "made"
  /\ miner' = "signed"
  /\ nTimeStake' = n
  /\ nTime' = Max({n} \cup {TxTime[t] : t \in InBlock})
  /\ vtx' = Kept(vtx, {t \in Tx : TxTime[t] <= nTime'})
  /\ UNCHANGED <<nodeVars, pindexPrev, vecPriority, vOrphan, setDependsOn, mapDependers>>

(* The other threads, which need cs_main; the process dies. *)
Others ==
  /\ miner # "collecting"
  /\ NodeStep \/ (\E b \in Block : NodeAcceptBlock(b)) \/ (\E t \in Tx : ReceiveTx(t))
  /\ UNCHANGED minerVars

Crash ==
  /\ NodeRestart
  /\ miner' = "off" /\ pindexPrev' = NULL /\ vecPriority' = {} /\ vOrphan' = {}
  /\ setDependsOn' = MinerStart.setDependsOn /\ mapDependers' = MinerStart.mapDependers
  /\ vtx' = <<>> /\ nTime' = 0 /\ nTimeStake' = 0

MinerNext ==
  \/ BeginBlock \/ Collect
  \/ \E t \in Tx : TakeAdded(t) \/ TakePassed(t)
  \/ BlockMade
  \/ \E n \in StakeTime : SignBlock(n)
  \/ Others
  \/ Crash

MinerSpec == MinerInit /\ [][MinerNext]_allVars

---------------------------------------------------------------------------
(* Properties *)

(* CheckWork and CheckStake, under cs_main: the block is not stale. *)
NotStale == miner \in {"made", "signed"} /\ pc = "idle" /\ pindexPrev = pindexBest

(* A block that passes the test for staleness connects: its transactions   *)
(* spend what the best chain or the block itself has unspent and mature,   *)
(* each once and after it is there, although pindexPrev was read before    *)
(* the locks were taken, the chain may have moved before, between and      *)
(* after, and the pool holds transactions that the chain has overtaken.    *)
BlockConnects ==
  NotStale /\ ~fTorn =>
    \A i \in DOMAIN vtx :
      /\ MayOverwrite(dbTx, vtx[i])
      /\ \A j \in 1 .. i - 1 : Vin[vtx[i]] \cap Vin[vtx[j]] = {}
      /\ \A o \in Vin[vtx[i]] :
           \/ \E j \in 1 .. i - 1 : vtx[j] = o[1]
           \/ /\ dbTx[o[1]] # NULL /\ dbTx[o[1]].vSpent[o[2]] = NULL
              /\ o[1] \in CoinBase \cup CoinStake =>
                   Height[pindexPrev] + 1 - Height[dbTx[o[1]].pos] >= Maturity

(* "list memory doesn't move", the comment on vOrphan: every COrphan that  *)
(* mapDependers points to is there.                                        *)
DependersAlive == \A p \in Tx : mapDependers[p] \subseteq vOrphan

(* SignBlock is to "make sure coinstake would meet timestamp protocol as   *)
(* it would be the same as the block timestamp".                           *)
StakeTimeIsBlockTime == miner = "signed" => nTime = nTimeStake
============================================================================
