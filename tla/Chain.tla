------------------------------- MODULE Chain -------------------------------
(***************************************************************************)
(* The block index, the block database and the choice of the best chain:   *)
(* CBlock::AcceptBlock, AddToBlockIndex, SetBestChain, SetBestChainInner   *)
(* and Reorganize of main.cpp over CTxDB of txdb-leveldb.cpp, with process *)
(* crashes and CTxDB::LoadBlockIndex at the next start.                    *)
(*                                                                         *)
(* All of it runs under cs_main, so one call runs at a time; it is split   *)
(* into steps where a loop goes round (the loops of SetBestChain and       *)
(* Reorganize) and where a batch is committed, because a crash keeps what  *)
(* has been committed and loses the active batch and the memory.           *)
(***************************************************************************)
EXTENDS Ledger

CONSTANTS
  Work,         \* Work[b]: GetBlockTrust() of b
  LateWork,     \* LateWork[b]: GetBlockTrust(true) of b with the 10x easier target
  ChainWork,    \* ChainWork[b]: the sum of Work over the branch of b
  Time,         \* Time[b]: CBlockIndex::nTime
  LateWindow,   \* the 600 seconds of GetModTrust
  StartFrom,    \* heights given to -startfrom
  MaxRestarts   \* bound on crashes

ASSUME TrustAssumption ==
  /\ Work \in [Block -> Nat \ {0}]
  /\ LateWork \in [Block -> Nat \ {0}]
  /\ \A b \in Block : LateWork[b] <= Work[b]
  /\ ChainWork \in [Block -> Nat]
  /\ ChainWork[Genesis] = Work[Genesis]
  /\ \A b \in Block \ {Genesis} : ChainWork[b] = ChainWork[Prev[b]] + Work[b]
  /\ Time \in [Block -> Nat] /\ LateWindow \in Nat
  /\ StartFrom \subseteq Nat \ {0}
  /\ MaxRestarts \in Nat

VARIABLES
  (* memory *)
  mapBlockIndex, \* the blocks with a CBlockIndex
  pnext,         \* CBlockIndex::pnext of each block
  nChainTrust,   \* CBlockIndex::nChainTrust of each block
  pindexBest,    \* pindexBest, and hashBestChain, nBestHeight, nBestChainTrust
  (* disk: the committed records of the txdb *)
  dbIndex,       \* the blocks with a "blockindex" record
  dbNext,        \* CDiskBlockIndex::hashNext of each
  dbTx,          \* the "tx" records
  dbBest,        \* the "hashBestChain" record
  (* the call in progress *)
  pc,            \* where it is
  pindexNew,     \* the argument of SetBestChain
  pindex,        \* pindexIntermediate in "walk"; the block the txdb has been
                 \* brought to, as read through the batch, in "reorg";
                 \* the last block connected in "secondary"
  pindexInter,   \* pindexIntermediate
  batchTx,       \* the "tx" records as read through the active batch
  batchNext,     \* hashNext as read through the active batch
  (* history *)
  restarts,      \* how often the node has been restarted
  fTorn          \* a postponed block failed to connect after Reorganize

memVars  == <<mapBlockIndex, pnext, nChainTrust, pindexBest>>
dbVars   == <<dbIndex, dbNext, dbTx, dbBest>>
callVars == <<pc, pindexNew, pindex, pindexInter, batchTx, batchNext>>
vars     == <<memVars, dbVars, callVars, restarts, fTorn>>

PC == {"idle", "tip", "walk", "reorg", "secondary"}

NextLinks == [Block -> Block \cup {NULL}]

TypeOK ==
  /\ mapBlockIndex \subseteq Block /\ dbIndex \subseteq Block
  /\ pnext \in NextLinks /\ dbNext \in NextLinks /\ batchNext \in NextLinks
  /\ nChainTrust \in [Block -> Nat]
  /\ pindexBest \in Block /\ dbBest \in Block
  /\ TxIndexType(dbTx) /\ TxIndexType(batchTx)
  /\ pc \in PC
  /\ {pindexNew, pindex, pindexInter} \subseteq Block
  /\ restarts \in 0 .. MaxRestarts
  /\ fTorn \in BOOLEAN

Init ==
  /\ mapBlockIndex = {Genesis} /\ dbIndex = {Genesis}
  /\ pnext = [b \in Block |-> NULL] /\ dbNext = pnext /\ batchNext = pnext
  /\ nChainTrust = [b \in Block |-> IF b = Genesis THEN Work[b] ELSE 0]
  /\ pindexBest = Genesis /\ dbBest = Genesis
  /\ dbTx = EmptyTxIndex /\ batchTx = EmptyTxIndex
  /\ pc = "idle"
  /\ pindexNew = Genesis /\ pindex = Genesis /\ pindexInter = Genesis
  /\ restarts = 0
  /\ fTorn = FALSE

---------------------------------------------------------------------------
(* GetBlockTrust(true): a block that is older than the best block by more  *)
(* than the window and forks off below the best block's parent counts for  *)
(* less, but only when it is first indexed.                                *)
IsLate(b) ==
  /\ pindexBest # Genesis
  /\ Height[Prev[b]] < Height[Prev[pindexBest]]
  /\ Time[b] + LateWindow < Time[pindexBest]

GetBlockTrust(b) == IF IsLate(b) THEN LateWork[b] ELSE Work[b]

(* The block after a on the branch of b. *)
NextOn(a, b) == CHOOSE c \in Chain[b] : Prev[c] = a

(* SetBestChain(b) up to its three-way split; TxnBegin gives a fresh batch. *)
CallSetBestChain(b) ==
  /\ pindexNew' = b /\ pindex' = b /\ pindexInter' = b
  /\ pc' = IF Prev[b] = pindexBest' THEN "tip" ELSE "walk"
  /\ batchTx' = dbTx' /\ batchNext' = dbNext'

(* The call returns: no batch is active, so reads go to the database. *)
Return ==
  /\ pc' = "idle"
  /\ pindexNew' = Genesis /\ pindex' = Genesis /\ pindexInter' = Genesis
  /\ batchTx' = dbTx' /\ batchNext' = dbNext'

(* Mutants: the new block is compared by height, or wins a tie. *)
AcceptBlockBy(b, better) ==
  /\ pc = "idle"
  /\ b \notin mapBlockIndex
  /\ Prev[b] \in mapBlockIndex
  /\ mapBlockIndex' = mapBlockIndex \cup {b}
  /\ nChainTrust' = [nChainTrust EXCEPT ![b] = nChainTrust[Prev[b]] + GetBlockTrust(b)]
  /\ dbIndex' = dbIndex \cup {b}
  /\ UNCHANGED <<dbNext, pnext, pindexBest, dbTx, dbBest, restarts, fTorn>>
  /\ IF better THEN CallSetBestChain(b) ELSE Return
AcceptBlockByHeight(b) == AcceptBlockBy(b, Height[b] > Height[pindexBest])
AcceptBlockOnTie(b) == AcceptBlockBy(b, nChainTrust'[b] >= nChainTrust[pindexBest])

(* AcceptBlock: the block is appended to the block file and AddToBlockIndex *)
(* commits its index record on its own, before SetBestChain begins.        *)
AcceptBlock(b) ==
  /\ pc = "idle"
  /\ b \notin mapBlockIndex
  /\ Prev[b] \in mapBlockIndex
  /\ mapBlockIndex' = mapBlockIndex \cup {b}
  /\ nChainTrust' = [nChainTrust EXCEPT ![b] = nChainTrust[Prev[b]] + GetBlockTrust(b)]
  /\ dbIndex' = dbIndex \cup {b}
  /\ dbNext' = [dbNext EXCEPT ![b] = NULL]
  /\ pnext' = [pnext EXCEPT ![b] = NULL]
  /\ UNCHANGED <<pindexBest, dbTx, dbBest, restarts, fTorn>>
  /\ IF nChainTrust'[b] > nChainTrust[pindexBest] THEN CallSetBestChain(b) ELSE Return

---------------------------------------------------------------------------
(* The txdb writes of ConnectBlock: the block's own record with the link   *)
(* memory has for it, then its parent's with the link to it.               *)
ConnectLinks(next, b) == [next EXCEPT ![b] = pnext[b], ![Prev[b]] = b]

DisconnectLinks(next, b) == [next EXCEPT ![Prev[b]] = NULL]

(* Mutant: the memory link is forgotten. *)
CommitWithoutLink(b) ==
  /\ dbTx' = ConnectBlock(dbTx, b)
  /\ dbNext' = ConnectLinks(dbNext, b)
  /\ dbBest' = b
  /\ UNCHANGED <<mapBlockIndex, pnext, nChainTrust, dbIndex, restarts>>

(* SetBestChainInner succeeds: one committed batch, then the memory link. *)
CommitInner(b) ==
  /\ dbTx' = ConnectBlock(dbTx, b)
  /\ dbNext' = ConnectLinks(dbNext, b)
  /\ dbBest' = b
  /\ pnext' = [pnext EXCEPT ![Prev[b]] = b]
  /\ UNCHANGED <<mapBlockIndex, nChainTrust, dbIndex, restarts>>

ConnectTip ==
  /\ pc = "tip"
  /\ CanConnect(dbTx, pindexNew)
  /\ CommitInner(pindexNew)
  /\ pindexBest' = pindexNew
  /\ UNCHANGED fTorn
  /\ Return

ConnectTipFails ==
  /\ pc = "tip"
  /\ ~CanConnect(dbTx, pindexNew)
  /\ UNCHANGED <<memVars, dbVars, restarts, fTorn>>
  /\ Return

(* The loop that looks for pindexIntermediate. *)
Outweighs(b) == nChainTrust[b] > nChainTrust[pindexBest]

Postpone ==
  /\ pc = "walk"
  /\ pindexInter # Genesis /\ Outweighs(Prev[pindexInter])
  /\ pindexInter' = Prev[pindexInter]
  /\ UNCHANGED <<memVars, dbVars, restarts, fTorn>>
  /\ UNCHANGED <<pc, pindexNew, pindex, batchTx, batchNext>>

Reorganize ==
  /\ pc = "walk"
  /\ ~(pindexInter # Genesis /\ Outweighs(Prev[pindexInter]))
  /\ pc' = "reorg"
  /\ pindex' = pindexBest
  /\ UNCHANGED <<memVars, dbVars, restarts, fTorn>>
  /\ UNCHANGED <<pindexNew, pindexInter, batchTx, batchNext>>

(* Down from the best block to the fork, the first block that the new      *)
(* branch shares.                                                          *)
ReorgDisconnect ==
  /\ pc = "reorg"
  /\ pindex \notin Chain[pindexInter]
  /\ CanDisconnect(batchTx, pindex)
  /\ batchTx' = DisconnectBlock(batchTx, pindex)
  /\ batchNext' = DisconnectLinks(batchNext, pindex)
  /\ pindex' = Prev[pindex]
  /\ UNCHANGED <<memVars, dbVars, restarts, fTorn>>
  /\ UNCHANGED <<pc, pindexNew, pindexInter>>

(* Up from the fork to pindexIntermediate. *)
ReorgConnect ==
  LET b == NextOn(pindex, pindexInter) IN
  /\ pc = "reorg"
  /\ pindex \in Chain[pindexInter] \ {pindexInter}
  /\ CanConnect(batchTx, b)
  /\ batchTx' = ConnectBlock(batchTx, b)
  /\ batchNext' = ConnectLinks(batchNext, b)
  /\ pindex' = b
  /\ UNCHANGED <<memVars, dbVars, restarts, fTorn>>
  /\ UNCHANGED <<pc, pindexNew, pindexInter>>

(* Either loop fails: TxnAbort, and SetBestChain returns false. *)
ReorgFails ==
  /\ pc = "reorg"
  /\ \/ pindex \notin Chain[pindexInter] /\ ~CanDisconnect(batchTx, pindex)
     \/ /\ pindex \in Chain[pindexInter] \ {pindexInter}
        /\ ~CanConnect(batchTx, NextOn(pindex, pindexInter))
  /\ UNCHANGED <<memVars, dbVars, restarts, fTorn>>
  /\ Return

(* The links once vDisconnect = Chain[pindexBest] \ Chain[b] and then      *)
(* vConnect = Chain[b] \ Chain[pindexBest] have been gone through.         *)
Rewired(b) ==
  [a \in Block |->
     IF \E c \in Chain[b] \ Chain[pindexBest] : Prev[c] = a THEN NextOn(a, b)
     ELSE IF \E c \in Chain[pindexBest] \ Chain[b] : Prev[c] = a THEN NULL
     ELSE pnext[a]]

(* Mutant: hashBestChain is written for pindexNew. *)
ReorgCommitsNew ==
  /\ pc = "reorg"
  /\ pindex = pindexInter
  /\ dbTx' = batchTx /\ dbNext' = batchNext /\ dbBest' = pindexNew
  /\ pnext' = Rewired(pindexInter)
  /\ pc' = "secondary"
  /\ UNCHANGED <<mapBlockIndex, nChainTrust, pindexBest, dbIndex, restarts, fTorn>>
  /\ UNCHANGED <<pindexNew, pindex, pindexInter, batchTx, batchNext>>

ReorgCommit ==
  /\ pc = "reorg"
  /\ pindex = pindexInter
  /\ dbTx' = batchTx /\ dbNext' = batchNext /\ dbBest' = pindexInter
  /\ pnext' = Rewired(pindexInter)
  /\ pc' = "secondary"
  /\ UNCHANGED <<mapBlockIndex, nChainTrust, pindexBest, dbIndex, restarts, fTorn>>
  /\ UNCHANGED <<pindexNew, pindex, pindexInter, batchTx, batchNext>>

---------------------------------------------------------------------------
(* The postponed blocks, each in a batch of its own. *)
ConnectSecondary ==
  LET b == NextOn(pindex, pindexNew) IN
  /\ pc = "secondary"
  /\ pindex # pindexNew
  /\ CanConnect(dbTx, b)
  /\ CommitInner(b)
  /\ pindex' = b
  /\ batchTx' = dbTx' /\ batchNext' = dbNext'
  /\ UNCHANGED <<pindexBest, pc, pindexNew, pindexInter, fTorn>>

(* "errors now are not fatal": the loop ends, and SetBestChain goes on to   *)
(* make pindexNew the best block all the same.                             *)
SecondaryFails ==
  /\ pc = "secondary"
  /\ pindex # pindexNew
  /\ ~CanConnect(dbTx, NextOn(pindex, pindexNew))
  /\ pindexBest' = pindexNew
  /\ fTorn' = TRUE
  /\ UNCHANGED <<mapBlockIndex, pnext, nChainTrust, dbVars, restarts>>
  /\ Return

NewBest ==
  /\ pc = "secondary"
  /\ pindex = pindexNew
  /\ pindexBest' = pindexNew
  /\ UNCHANGED <<mapBlockIndex, pnext, nChainTrust, dbVars, restarts, fTorn>>
  /\ Return

---------------------------------------------------------------------------
(* The process dies at any point and is started again: LoadBlockIndex      *)
(* rebuilds the memory from the records, without the late-block rule.      *)
LoadBlockIndex ==
  /\ restarts < MaxRestarts
  /\ restarts' = restarts + 1
  /\ mapBlockIndex' = dbIndex
  /\ pnext' = dbNext
  /\ nChainTrust' = [b \in Block |-> IF b \in dbIndex THEN ChainWork[b] ELSE 0]
  /\ pindexBest' = dbBest
  /\ UNCHANGED <<dbVars, fTorn>>

Restart == LoadBlockIndex /\ Return

(* The same with -startfrom=h: the best chain goes back to height h - 1. *)
RestartFrom(h) ==
  /\ LoadBlockIndex
  /\ h < Height[dbBest]
  /\ CallSetBestChain(CHOOSE a \in Chain[dbBest] : Height[a] = h - 1)

Step == \/ ConnectTip \/ ConnectTipFails \/ Postpone \/ Reorganize
        \/ ReorgDisconnect \/ ReorgConnect \/ ReorgFails \/ ReorgCommit
        \/ ConnectSecondary \/ SecondaryFails \/ NewBest

Next == \/ \E b \in Block : AcceptBlock(b)
        \/ Step
        \/ Restart
        \/ \E h \in StartFrom : RestartFrom(h)

(* A call under cs_main runs until it returns; blocks and crashes may never come. *)
Spec == Init /\ [][Next]_vars /\ WF_vars(Step)

---------------------------------------------------------------------------
(* Properties *)

(* The links of memory and disk never part: Reorganize and                 *)
(* SetBestChainInner write hashNext record by record through the batch and *)
(* set pnext from their own lists after the commit, and a start reads back *)
(* exactly what memory had.                                                *)
LinksMatchDisk == mapBlockIndex = dbIndex /\ pnext = dbNext

(* Until a postponed block fails, the committed transaction index is the   *)
(* one obtained by connecting the valid branch of hashBestChain and        *)
(* nothing else, whatever reorganisations and crashes came before: what    *)
(* DisconnectBlock undoes is exactly what ConnectBlock did.                *)
LedgerOfBest == ~fTorn => Valid(dbBest) /\ dbTx = LedgerAt[dbBest]

(* Until a postponed block fails, memory and disk name the same best block *)
(* whenever no call is in progress, and the links lead along its branch    *)
(* and nowhere else, so IsInMainChain() is right.                          *)
BestIsCommitted ==
  ~fTorn /\ pc = "idle" =>
    /\ pindexBest = dbBest
    /\ \A a \in Block :
         pnext[a] = IF a \in Chain[pindexBest] \ {pindexBest}
                    THEN NextOn(a, pindexBest) ELSE NULL

(* What a start would load is what memory has: Reorganize and              *)
(* SetBestChainInner never leave it ahead of the database or behind, until *)
(* a postponed block fails.                                                *)
MemoryMatchesDisk == LinksMatchDisk /\ BestIsCommitted

(* Within one session no known valid branch has more trust than the best   *)
(* one: a block that failed to connect earlier never keeps SetBestChain    *)
(* from a valid branch, and postponing blocks loses none of them.          *)
MostTrusted ==
  restarts = 0 /\ pc = "idle" =>
    \A b \in mapBlockIndex : Valid(b) => nChainTrust[b] <= nChainTrust[pindexBest]

(* The best block is only ever replaced by one with more trust, or by one  *)
(* of its own ancestors: -startfrom, or the restart that follows a failed  *)
(* postponed block.                                                        *)
HeavierOrBack ==
  [][pindexBest' # pindexBest =>
       \/ nChainTrust[pindexBest'] > nChainTrust[pindexBest]
       \/ pindexBest' \in Chain[pindexBest]]_vars

(* What SetBestChain says of itself before it connects the postponed       *)
(* blocks: "errors now are not fatal, we still did a reorganisation to a   *)
(* new chain in a valid way".                                              *)
StillValidWay == pc = "idle" => pindexBest = dbBest /\ Valid(pindexBest)

(* The database implements BestChain. *)
Abstract == INSTANCE BestChain WITH
              known <- dbIndex, best <- dbBest, ledger <- dbTx
Implements == Abstract!Spec
============================================================================
