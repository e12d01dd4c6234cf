------------------------------ MODULE Wallet ------------------------------
(***************************************************************************)
(* The wallet's transactions on top of the chain and the pool: CWallet and *)
(* CWalletTx of wallet.cpp and wallet.h, told of connected blocks,         *)
(* disconnected coinstakes and accepted transactions by SyncWithWallets of *)
(* main.cpp.  The wallet is told from inside ConnectBlock and              *)
(* DisconnectBlock, before the batch is committed, and writes to a file of *)
(* its own: nothing tells it that a batch was aborted or lost in a crash.  *)
(*                                                                         *)
(* wallet.dat is written with every change, so a crash of the process      *)
(* keeps mapWallet as it is.                                               *)
(***************************************************************************)
EXTENDS Node

SE == INSTANCE SequencesExt

CONSTANTS
  PrevOrder,      \* for each transaction, those its vin spends, in order
  Mine,           \* the outpoints <<t, n>> whose output is IsMine()
  Own,            \* the transactions CreateTransaction can make
  MaturityMargin, \* the 10 of GetBlocksToMaturity
  COPY_DEPTH,     \* 3
  MaxRepairs      \* bound on runs of FixSpentCoins

ASSUME WalletAssumption ==
  /\ PrevOrder \in [Tx -> Seq(Tx)]
  /\ \A t \in Tx : Range(PrevOrder[t]) = Prevs(t) /\ Len(PrevOrder[t]) = Cardinality(Prevs(t))
  /\ Mine \subseteq {o \in Tx \X Nat : o[2] < NOut[o[1]]}
  /\ Own \subseteq Tx \ (CoinBase \cup CoinStake)
  /\ \A t \in Own : Vin[t] # {} /\ Vin[t] \subseteq Mine
  /\ MaturityMargin \in Nat \ {0} /\ COPY_DEPTH \in Nat /\ MaxRepairs \in Nat
  /\ IsFiniteSet(Tx)  \* a hash has 256 bits

VARIABLES
  mapWallet,    \* for each transaction NULL, or its CWalletTx
  bestBlock,    \* the "bestblock" record: the tip of the locator
  reaccept,     \* ReacceptWalletTransactions: "due", in a "pass", in a pass
                \* that found coins spent elsewhere ("missing"), or "off"
  toReaccept,   \* the wallet transactions the pass has not come to
  vAccept,      \* what AcceptWalletTransaction has left to try
  (* history *)
  sent,         \* the transactions CommitTransaction has recorded
  fRefused,     \* the pool refused one of them
  fStale,       \* the wallet was told of a block whose batch was not committed
  repairs

reacceptVars == <<reaccept, toReaccept, vAccept>>
historyVars  == <<sent, fRefused, fStale, repairs>>
walletVars   == <<nodeVars, mapWallet, bestBlock, reacceptVars, historyVars>>

(* vtxPrev: copies of the supporting transactions, each with the hashBlock *)
(* it has.  None of them spends the transaction t, and one that only one   *)
(* of t and the copies spends comes before that.                           *)
TxsOf(copies) == {c.tx : c \in copies}
SpentByOne(p, S) == \A x, y \in S : p \in Prevs(x) \cap Prevs(y) => x = y

CMerkleTx == [tx : Tx, hashBlock : Block \cup {NULL}]
Supporting(t) == {c \in CMerkleTx : c.tx # t /\ t \notin Prevs(c.tx)}
Copies(t) ==
  {q \in Seq(Supporting(t)) :
     \A i, j \in DOMAIN q : /\ SpentByOne(q[i].tx, {t} \cup TxsOf(Range(q)))
                            /\ q[i].tx \in Prevs(q[j].tx)
                            => i < j}
CWalletTx(t) ==
  [hashBlock : Block \cup {NULL}, vfSpent : SUBSET (0 .. NOut[t] - 1), vtxPrev : Copies(t)]

ASSUME NullWalletAssumption == \A t \in Tx : NULL \notin CWalletTx(t)

WalletType(w) ==
  /\ w = [t \in Tx |-> w[t]]
  /\ \A t \in Tx : w[t] = NULL \/ w[t] \in CWalletTx(t)

WalletTypeOK ==
  /\ WalletType(mapWallet)
  /\ bestBlock \in Block
  /\ reaccept \in {"off", "due", "pass", "missing"}
  /\ toReaccept \subseteq Tx /\ vAccept \in Seq(Tx)
  /\ reaccept \in {"off", "due"} => toReaccept = {} /\ vAccept = <<>>
  /\ sent \subseteq Own /\ {fRefused, fStale} \subseteq BOOLEAN
  /\ repairs \in 0 .. MaxRepairs

WalletInit ==
  /\ NodeInit
  /\ mapWallet = [t \in Tx |-> NULL] /\ bestBlock = Genesis
  /\ reaccept = "off" /\ toReaccept = {} /\ vAccept = <<>>
  /\ sent = {} /\ fRefused = FALSE /\ fStale = FALSE /\ repairs = 0

---------------------------------------------------------------------------
(* The wallet w as a value: a block tells it of several transactions. *)

OutputsOf(t) == {<<t, n>> : n \in 0 .. NOut[t] - 1}
IsMine(t) == OutputsOf(t) \cap Mine # {}
IsFromMe(w, t) == \E o \in Vin[t] \cap Mine : w[o[1]] # NULL

MarkSpent(w, S) ==
  [t \in Tx |-> IF w[t] = NULL THEN NULL
                ELSE [w[t] EXCEPT !.vfSpent = @ \cup {o[2] : o \in S \cap OutputsOf(t)}]]
MarkUnspent(w, S) ==
  [t \in Tx |-> IF w[t] = NULL THEN NULL
                ELSE [w[t] EXCEPT !.vfSpent = @ \ {o[2] : o \in S \cap OutputsOf(t)}]]

(* Mutant: a confirmed transaction's inputs are taken for spent already. *)
UpdateSpentOutputsOnly(w, t, fBlock) ==
  IF fBlock THEN MarkUnspent(w, OutputsOf(t) \cap Mine) ELSE MarkSpent(w, Vin[t] \cap Mine)

WalletUpdateSpent(w, t, fBlock) ==
  LET spent == MarkSpent(w, Vin[t] \cap Mine)
  IN  IF fBlock THEN MarkUnspent(spent, OutputsOf(t) \cap Mine) ELSE spent

(* Mutant: an existing entry keeps the block it has. *)
AddToWalletFirstBlock(w, t, hashBlock, vtxPrev) ==
  WalletUpdateSpent(
    [w EXCEPT ![t] = IF @ = NULL
                     THEN [hashBlock |-> hashBlock, vfSpent |-> {}, vtxPrev |-> vtxPrev]
                     ELSE [@ EXCEPT !.hashBlock = IF @ = NULL THEN hashBlock ELSE @]],
    t, hashBlock # NULL)

(* Inserted, or merged with what is there. *)
AddToWallet(w, t, hashBlock, vtxPrev) ==
  LET entry == IF w[t] = NULL
               THEN [hashBlock |-> hashBlock, vfSpent |-> {}, vtxPrev |-> vtxPrev]
               ELSE [w[t] EXCEPT !.hashBlock = IF hashBlock = NULL THEN w[t].hashBlock ELSE hashBlock]
  IN  WalletUpdateSpent([w EXCEPT ![t] = entry], t, hashBlock # NULL)

AddToWalletIfInvolvingMe(w, t, hashBlock, fUpdate) ==
  CASE w[t] # NULL /\ ~fUpdate -> w
    [] w[t] # NULL /\ fUpdate -> AddToWallet(w, t, hashBlock, <<>>)
    [] w[t] = NULL /\ (IsMine(t) \/ IsFromMe(w, t)) -> AddToWallet(w, t, hashBlock, <<>>)
    [] OTHER -> WalletUpdateSpent(w, t, FALSE)

(* SyncWithWallets for the transactions of a block, one after the other. *)
SyncConnected(w, b, fUpdate) ==
  LET told[n \in 0 .. Len(Vtx[b])] ==
        IF n = 0 THEN w ELSE AddToWalletIfInvolvingMe(told[n - 1], Vtx[b][n], b, fUpdate)
  IN  told[Len(Vtx[b])]

DisableTransaction(w, t) ==
  IF t \in CoinStake /\ IsFromMe(w, t) THEN MarkUnspent(w, Vin[t] \cap Mine) ELSE w
SyncDisconnected(w, b) ==
  LET told[n \in 0 .. Len(Vtx[b])] ==
        IF n = 0 THEN w ELSE DisableTransaction(told[n - 1], Vtx[b][n])
  IN  told[Len(Vtx[b])]

(* ScanForWalletTransactions from block a up to the best block b. *)
BranchFrom(a, b, n) == CHOOSE c \in Chain[b] : Height[c] = Height[a] + n - 1
ScanForWalletTransactions(w, a, b, fUpdate) ==
  LET blocks == Height[b] - Height[a] + 1
      scanned[n \in 0 .. blocks] ==
        IF n = 0 THEN w ELSE SyncConnected(scanned[n - 1], BranchFrom(a, b, n), fUpdate)
  IN  scanned[blocks]

---------------------------------------------------------------------------
(* What AvailableCoins offers to SelectCoins. *)

IsInMainChain(b) == pnext[b] # NULL \/ b = pindexBest

GetDepthInMainChain(t, hashBlock) ==
  IF hashBlock # NULL /\ hashBlock \in mapBlockIndex /\ IsInMainChain(hashBlock)
  THEN Height[pindexBest] - Height[hashBlock] + 1
  ELSE IF t \in mapTx THEN 0 ELSE -1

Depth(t) == GetDepthInMainChain(t, mapWallet[t].hashBlock)
IsMature(t) == t \in CoinBase \cup CoinStake => Depth(t) >= Maturity + MaturityMargin

(* The copies the entry of t holds; t and what it carries with it. *)
VtxPrev(t) == Range(mapWallet[t].vtxPrev)
CopyOf(copies, p) == CHOOSE c \in copies : c.tx = p
Carried(t) == {t} \cup TxsOf(VtxPrev(t))

(* An unconfirmed transaction is trusted if it is ours and everything it   *)
(* rests on is confirmed or ours and in the pool; the work queue of the    *)
(* code ends with TRUE exactly if such a set exists.                       *)
IsTrusted(t) ==
  LET DepthOf(p) == IF p = t THEN Depth(t)
                    ELSE GetDepthInMainChain(p, CopyOf(VtxPrev(t), p).hashBlock)
  IN  \E S \in SUBSET Carried(t) :
        /\ t \in S
        /\ \A p \in S :
             \/ DepthOf(p) >= 1
             \/ /\ DepthOf(p) = 0 /\ IsFromMe(mapWallet, p)
                /\ Prevs(p) \subseteq S \ {t}

AvailableCoins ==
  {o \in Mine : /\ mapWallet[o[1]] # NULL
                /\ IsTrusted(o[1]) /\ IsMature(o[1]) /\ Depth(o[1]) >= 0
                /\ o[2] \notin mapWallet[o[1]].vfSpent}

(* AddSupportingTransactions: a queue of the inputs' transactions, and of  *)
(* theirs in turn while they are less than COPY_DEPTH deep.  One that the  *)
(* wallet, a copy of an entry it came by and the index do not have is left *)
(* out.                                                                    *)
MerkleDepth(p) ==
  IF dbTx[p] # NULL /\ IsInMainChain(dbTx[p].pos)
  THEN Height[pindexBest] - Height[dbTx[p].pos] + 1 ELSE 0

CopyBlock(p, prev) ==
  IF dbTx[p] # NULL THEN dbTx[p].pos
  ELSE IF mapWallet[p] # NULL THEN mapWallet[p].hashBlock ELSE CopyOf(prev, p).hashBlock

(* s is what the loop has: vWorkQueue from where it is, setAlreadyDone,    *)
(* mapWalletPrev and the vtxPrev made so far.                              *)
Visit(s) ==
  LET p == Head(s.queue)
      prev == IF mapWallet[p] = NULL THEN s.prev
              ELSE {c \in s.prev : c.tx \notin TxsOf(VtxPrev(p))} \cup VtxPrev(p)
      known == mapWallet[p] # NULL \/ p \in TxsOf(s.prev) \/ dbTx[p] # NULL
  IN  IF s.queue = <<>> THEN s
      ELSE IF p \in s.done \/ ~known
      THEN [s EXCEPT !.queue = Tail(@), !.done = @ \cup {p}]
      ELSE [queue |-> Tail(s.queue) \o (IF MerkleDepth(p) < COPY_DEPTH THEN PrevOrder[p] ELSE <<>>),
            done |-> s.done \cup {p}, prev |-> prev,
            found |-> Append(s.found, [tx |-> p, hashBlock |-> CopyBlock(p, s.prev)])]

(* The queue is never longer than all the vin are together. *)
QueueBound == Cardinality(Tx) * Cardinality(Tx)
Found(t) ==
  LET visited[n \in 0 .. QueueBound] ==
        IF n = 0 THEN [queue |-> PrevOrder[t], done |-> {}, prev |-> {}, found |-> <<>>]
        ELSE Visit(visited[n - 1])
  IN  visited[QueueBound].found

(* Mutant: the copies stay as they were found. *)
SupportingAsFound(t) == Found(t)

SupportingTransactions(t) == SE!Reverse(Found(t))

---------------------------------------------------------------------------
(* The steps of Node, and what the wallet is told in them. *)

(* ReacceptWalletTransactions holds cs_main for a whole pass. *)
InPass == reaccept \in {"pass", "missing"}

(* CTxMemPool::accept ends with SyncWithWallets: every transaction that    *)
(* enters the pool, one at a time.                                         *)
HearsOfPool ==
  mapWallet' = LET new == mapTx' \ mapTx
               IN  IF new = {} THEN mapWallet
                   ELSE AddToWalletIfInvolvingMe(mapWallet, CHOOSE t \in new : TRUE, NULL, TRUE)

(* SetBestChain writes the locator unless this is the initial download,    *)
(* which is a matter of clocks.                                            *)
WritesLocator ==
  bestBlock' \in IF pindexBest' = pindexBest THEN {bestBlock} ELSE {bestBlock, pindexBest'}

(* What the wallet has made can only be seen once it has been sent. *)
WalletAcceptBlock(b) ==
  /\ ~InPass
  /\ Txs(b) \cap Own \subseteq sent
  /\ NodeAcceptBlock(b)
  /\ UNCHANGED <<mapWallet, bestBlock, reacceptVars, historyVars>>

WalletReceiveTx(t) ==
  /\ ~InPass
  /\ t \in Own => t \in sent
  /\ ReceiveTx(t)
  /\ HearsOfPool
  /\ UNCHANGED <<bestBlock, reacceptVars, historyVars>>

WalletPoolStep ==
  /\ Resurrect \/ ResurrectFails \/ DeleteRedundant \/ HandleTx
  /\ HearsOfPool
  /\ UNCHANGED <<bestBlock, reacceptVars, historyVars>>

WalletQuietStep ==
  /\ QuietStep \/ NodeReorgCommit
  /\ WritesLocator
  /\ UNCHANGED <<mapWallet, reacceptVars, historyVars>>

WalletConnectTip ==
  /\ NodeConnectTip
  /\ mapWallet' = SyncConnected(mapWallet, pindexNew, TRUE)
  /\ WritesLocator
  /\ UNCHANGED <<reacceptVars, historyVars>>

WalletConnectSecondary ==
  /\ NodeConnectSecondary
  /\ mapWallet' = SyncConnected(mapWallet, NextOn(pindex, pindexNew), TRUE)
  /\ UNCHANGED <<bestBlock, reacceptVars, historyVars>>

(* Mutant: a coinstake's inputs stay spent. *)
WalletReorgDisconnectQuietly ==
  /\ NodeReorgDisconnect
  /\ UNCHANGED <<mapWallet, bestBlock, reacceptVars, historyVars>>

WalletReorgDisconnect ==
  /\ NodeReorgDisconnect
  /\ mapWallet' = SyncDisconnected(mapWallet, pindex)
  /\ UNCHANGED <<bestBlock, reacceptVars, historyVars>>

WalletReorgConnect ==
  /\ NodeReorgConnect
  /\ mapWallet' = SyncConnected(mapWallet, NextOn(pindex, pindexInter), TRUE)
  /\ UNCHANGED <<bestBlock, reacceptVars, historyVars>>

(* TxnAbort undoes the batch; the wallet keeps what it was told. *)
WalletReorgFails ==
  /\ NodeReorgFails
  /\ fStale' = TRUE
  /\ UNCHANGED <<mapWallet, bestBlock, reacceptVars, sent, fRefused, repairs>>

---------------------------------------------------------------------------
(* A start: locator.GetBlockIndex() is the last block of the locator that  *)
(* is in the main chain.                                                   *)
RescanStart == CHOOSE a \in Chain[bestBlock] \cap Chain[pindexBest'] :
                 \A c \in Chain[bestBlock] \cap Chain[pindexBest'] : Height[c] <= Height[a]

Rescanned(w) ==
  IF Height[pindexBest'] > Height[RescanStart]
  THEN ScanForWalletTransactions(w, RescanStart, pindexBest', TRUE) ELSE w

StartWith(w) ==
  /\ Restart
  /\ PoolRestart
  /\ vResurrect' = <<>> /\ vDelete' = <<>> /\ lost' = {}
  /\ mapWallet' = Rescanned(w)
  /\ reaccept' = "due" /\ toReaccept' = {} /\ vAccept' = <<>>
  /\ UNCHANGED <<bestBlock, sent, fRefused, repairs>>

(* The process dies between two steps. *)
WalletRestart ==
  /\ StartWith(mapWallet)
  /\ fStale' = (fStale \/ pc = "reorg")

(* It dies in ConnectBlock, the wallet told and the batch not committed. *)
CrashInConnect ==
  /\ \/ /\ pc = "tip" /\ CanConnect(dbTx, pindexNew)
        /\ StartWith(SyncConnected(mapWallet, pindexNew, TRUE))
     \/ /\ pc = "secondary" /\ PoolSettled /\ pindex # pindexNew
        /\ CanConnect(dbTx, NextOn(pindex, pindexNew))
        /\ StartWith(SyncConnected(mapWallet, NextOn(pindex, pindexNew), TRUE))
  /\ UNCHANGED fStale

(* A pass of ReacceptWalletTransactions: coins the index says are spent    *)
(* are marked, and the transactions it does not have are tried again.      *)
SkippedInPass(t) ==
  \/ t \in CoinBase /\ 0 \in mapWallet[t].vfSpent
  \/ t \in CoinStake /\ 1 \in mapWallet[t].vfSpent
SpentInIndex ==
  {o \in Mine : /\ mapWallet[o[1]] # NULL /\ ~SkippedInPass(o[1])
                /\ dbTx[o[1]] # NULL /\ dbTx[o[1]].vSpent[o[2]] # NULL
                /\ o[2] \notin mapWallet[o[1]].vfSpent}

ReacceptBegin ==
  /\ reaccept = "due" /\ pc = "idle" /\ HandlerIdle
  /\ reaccept' = IF SpentInIndex = {} THEN "pass" ELSE "missing"
  /\ mapWallet' = MarkSpent(mapWallet, SpentInIndex)
  /\ toReaccept' = {t \in Tx : /\ mapWallet[t] # NULL /\ dbTx[t] = NULL
                               /\ t \notin CoinBase \cup CoinStake}
  /\ UNCHANGED <<nodeVars, bestBlock, vAccept, historyVars>>

(* AcceptWalletTransaction: the copies in vtxPrev first, as they stand, and *)
(* then the transaction.                                                   *)
AcceptWalletTransaction(t) ==
  /\ InPass /\ vAccept = <<>> /\ t \in toReaccept
  /\ toReaccept' = toReaccept \ {t}
  /\ vAccept' = LET q == mapWallet[t].vtxPrev
                IN  [i \in 1 .. Len(q) + 1 |-> IF i <= Len(q) THEN q[i].tx ELSE t]
  /\ UNCHANGED <<nodeVars, mapWallet, bestBlock, reaccept, historyVars>>

(* Those of a coinbase or a coinstake, and what the pool or the index has  *)
(* already, are passed over.                                               *)
TryNext ==
  /\ vAccept # <<>>
  /\ vAccept' = Tail(vAccept)
  /\ IF Acceptable(Head(vAccept), dbTx, pindexBest)
     THEN addUnchecked(Head(vAccept)) ELSE UNCHANGED <<mapTx, mapNextTx>>
  /\ HearsOfPool
  /\ UNCHANGED <<vars, orphanVars, queueVars, reorgVars, lost>>
  /\ UNCHANGED <<bestBlock, reaccept, toReaccept, historyVars>>

(* Coins spent elsewhere lead to transactions the wallet does not have. *)
ReacceptEnd ==
  /\ InPass /\ toReaccept = {} /\ vAccept = <<>>
  /\ mapWallet' = IF reaccept = "missing"
                  THEN ScanForWalletTransactions(mapWallet, Genesis, pindexBest, FALSE)
                  ELSE mapWallet
  /\ reaccept' = IF \E t \in Tx : mapWallet[t] = NULL /\ mapWallet'[t] # NULL THEN "due" ELSE "off"
  /\ UNCHANGED <<nodeVars, bestBlock, toReaccept, vAccept, historyVars>>

---------------------------------------------------------------------------
(* CreateTransaction and CommitTransaction, with both locks held. *)
Send(t) ==
  /\ pc = "idle" /\ HandlerIdle /\ ~InPass
  /\ t \in Own \ sent
  /\ Vin[t] \subseteq AvailableCoins
  /\ sent' = sent \cup {t}
  /\ LET recorded == MarkSpent(AddToWallet(mapWallet, t, NULL, SupportingTransactions(t)), Vin[t])
     IN  IF Acceptable(t, dbTx, pindexBest)
         THEN /\ addUnchecked(t)
              /\ mapWallet' = AddToWalletIfInvolvingMe(recorded, t, NULL, TRUE)
              /\ UNCHANGED fRefused
         ELSE /\ mapWallet' = recorded
              /\ fRefused' = TRUE
              /\ UNCHANGED <<mapTx, mapNextTx>>
  /\ UNCHANGED <<vars, orphanVars, queueVars, reorgVars, lost>>
  /\ UNCHANGED <<bestBlock, reacceptVars, fStale, repairs>>

(* FixSpentCoins when nothing has happened for ten minutes: transactions   *)
(* that are not confirmed are erased, and the flags of the others set from *)
(* the index.  An erased entry is still read after it is freed; whatever   *)
(* is read, the entry is gone.                                             *)
SpentByIndex(t) ==
  IF dbTx[t] = NULL THEN {} ELSE {n \in 0 .. NOut[t] - 1 : dbTx[t].vSpent[n] # NULL}

(* Mutant: coins are never given back. *)
FixSpentOnly ==
  [t \in Tx |-> IF mapWallet[t] = NULL \/ Depth(t) < 1 THEN NULL
                ELSE [mapWallet[t] EXCEPT !.vfSpent = @ \cup SpentByIndex(t)]]

Fixed ==
  [t \in Tx |-> IF mapWallet[t] = NULL \/ Depth(t) < 1 THEN NULL
                ELSE IF dbTx[t] = NULL /\ t \notin CoinBase \cup CoinStake THEN mapWallet[t]
                ELSE [mapWallet[t] EXCEPT !.vfSpent =
                        {n \in 0 .. NOut[t] - 1 : IF <<t, n>> \in Mine THEN n \in SpentByIndex(t)
                                                  ELSE n \in @}]]

FixSpentCoins ==
  /\ pc = "idle" /\ HandlerIdle /\ ~InPass
  /\ repairs < MaxRepairs /\ repairs' = repairs + 1
  /\ mapWallet' = Fixed
  /\ UNCHANGED <<nodeVars, bestBlock, reacceptVars, sent, fRefused, fStale>>

WalletStep ==
  \/ WalletPoolStep \/ WalletQuietStep
  \/ WalletConnectTip \/ WalletConnectSecondary
  \/ WalletReorgDisconnect \/ WalletReorgConnect \/ WalletReorgFails
  \/ ReacceptBegin \/ TryNext \/ ReacceptEnd
  \/ \E t \in Tx : AcceptWalletTransaction(t)

WalletNext ==
  \/ WalletStep
  \/ \E b \in Block : WalletAcceptBlock(b)
  \/ \E t \in Tx : WalletReceiveTx(t) \/ Send(t)
  \/ FixSpentCoins
  \/ WalletRestart \/ CrashInConnect

WalletSpec == WalletInit /\ [][WalletNext]_walletVars /\ WF_walletVars(WalletStep)

---------------------------------------------------------------------------
(* Properties *)

Involved(t) == IsMine(t) \/ Vin[t] \cap Mine # {}

(* "make sure all wallets know about the given transaction, in the given   *)
(* block", says SyncWithWallets.                                           *)
KnownInBlock ==
  pc = "idle" =>
    \A t \in Tx : Involved(t) /\ dbTx[t] # NULL =>
      mapWallet[t] # NULL /\ mapWallet[t].hashBlock = dbTx[t].pos

(* Neither Reorganize nor the postponed blocks after it failed half-way. *)
Undisturbed == ~fStale /\ ~fTorn

(* Until a reorganisation is cut short, the wallet knows every transaction *)
(* of the best chain that concerns it, in the block it is in: through      *)
(* reorganisations, crashes before a commit, rescans from an old locator   *)
(* and repairs.                                                            *)
ConfirmedKnown == Undisturbed => KnownInBlock

(* Until a reorganisation is cut short, no coin that the best chain has    *)
(* spent is still unspent for the wallet: confirming a transaction clears  *)
(* the flags of its outputs, but what spends them is connected after it.   *)
ChainSpendsKnown ==
  Undisturbed /\ pc = "idle" =>
    \A o \in Mine : /\ mapWallet[o[1]] # NULL /\ dbTx[o[1]] # NULL
                    /\ dbTx[o[1]].vSpent[o[2]] # NULL
                    => o[2] \in mapWallet[o[1]].vfSpent

(* Within one session, a coin of the wallet is spent for a transaction     *)
(* that can be sent again, or for one the best chain holds: the coins of a *)
(* disconnected coinstake, which never can be, are given back.             *)
StakeRefunded ==
  restarts = 0 /\ Undisturbed /\ pc = "idle" =>
    \A o \in Mine : mapWallet[o[1]] # NULL /\ o[2] \in mapWallet[o[1]].vfSpent =>
      \E t \in Tx : o \in Vin[t] /\ (t \notin CoinStake \/ dbTx[t] # NULL)

(* repairwallet leaves the flags of every confirmed coin as the index has  *)
(* them, however the wallet came to differ, until a reorganisation is cut  *)
(* short.                                                                  *)
RepairAgrees ==
  [][repairs' # repairs /\ Undisturbed =>
       \A o \in Mine : dbTx[o[1]] # NULL =>
         /\ mapWallet'[o[1]] # NULL
         /\ o[2] \in mapWallet'[o[1]].vfSpent <=> dbTx[o[1]].vSpent[o[2]] # NULL]_walletVars

(* The copies in vtxPrev reach down to the index: none that is not indexed *)
(* spends something that is neither indexed nor a copy.                    *)
CarriesParents(t) ==
  \A p \in Carried(t) :
    dbTx[p] = NULL => \A q \in Prevs(p) : q \in TxsOf(VtxPrev(t)) \/ dbTx[q] # NULL

(* No copy that has to enter the pool is spent by two of what t carries.   *)
(* Of one that is, AddSupportingTransactions may put a spender before it:  *)
(* if t spends A and then B, and B spends A, the copies are B, A.          *)
Outside(p) == dbTx[p] = NULL /\ p \notin CoinBase \cup CoinStake
CarriesChains(t) == \A p \in Carried(t) : Outside(p) => SpentByOne(p, Carried(t))

(* When a start has put the wallet's transactions back into the pool, none *)
(* that carries what it depends on, each spent once, and that the pool     *)
(* would take is left out, in whatever order the pass came to them: the    *)
(* copies are tried from the oldest on, and no transaction has to wait for *)
(* one that comes later.                                                   *)
ReacceptComplete ==
  [][ReacceptEnd =>
       \A t \in Tx : mapWallet[t] # NULL /\ CarriesParents(t) /\ CarriesChains(t)
                    => ~Acceptable(t, dbTx, pindexBest)]_walletVars

(* "Add previous supporting transactions first", says AcceptWallet-        *)
(* Transaction, whatever they spend of each other.                         *)
ReacceptsCarried ==
  [][ReacceptEnd =>
       \A t \in Tx : mapWallet[t] # NULL /\ CarriesParents(t)
                    => ~Acceptable(t, dbTx, pindexBest)]_walletVars

(* "Re-accept any txes of ours that aren't already in a block", says       *)
(* ReacceptWalletTransactions.                                             *)
ReacceptsAny ==
  [][ReacceptEnd =>
       \A t \in Tx : mapWallet[t] # NULL => ~Acceptable(t, dbTx, pindexBest)]_walletVars

(* "This must not fail. The transaction has already been signed and        *)
(* recorded.", says CommitTransaction of AcceptToMemoryPool.               *)
MustNotFail == ~fRefused
============================================================================
