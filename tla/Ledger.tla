------------------------------ MODULE Ledger ------------------------------
(***************************************************************************)
(* The block tree, and the transaction index ("tx" records of the txdb)    *)
(* that connecting a branch of it builds: CBlock::ConnectBlock,            *)
(* CBlock::DisconnectBlock, CTransaction::FetchInputs, ConnectInputs and   *)
(* DisconnectInputs of main.cpp.                                           *)
(*                                                                         *)
(* The tree is a parameter: which blocks exist, what they contain and      *)
(* which of them break a rule that no other block can repair is fixed, and *)
(* the specifications built on this module choose the order in which the   *)
(* blocks arrive.  Hashes are the blocks and transactions themselves.      *)
(***************************************************************************)
EXTENDS Integers, Sequences

CONSTANTS
  NULL,        \* the null pointer, the zero hash, the null CDiskTxPos
  Block,       \* every block there is
  Genesis,     \* pindexGenesisBlock
  Prev,        \* Prev[b]: b.hashPrevBlock
  Height,      \* Height[b]: CBlockIndex::nHeight
  Chain,       \* Chain[b]: b and all of its ancestors
  Tx,          \* every transaction there is
  Vtx,         \* Vtx[b]: CBlock::vtx
  Vin,         \* Vin[t]: the outpoints <<hash, n>> of CTransaction::vin
  NOut,        \* NOut[t]: CTransaction::vout.size()
  CoinBase,    \* the transactions for which IsCoinBase()
  CoinStake,   \* the transactions for which IsCoinStake()
  BadBlock,    \* blocks that AcceptBlock lets in and that fail a test of
               \* ConnectBlock or ConnectInputs no other block can repair:
               \* sigops, values, timestamps, signatures, fees, reward
  Maturity,    \* nCoinbaseMaturity
  LedgerAt     \* LedgerAt[b]: the txindex after connecting the branch of b

Txs(b) == {Vtx[b][i] : i \in DOMAIN Vtx[b]}

ASSUME NullAssumption == NULL \notin Block /\ NULL \notin Tx

ASSUME TreeAssumption ==
  /\ Genesis \in Block
  /\ Prev \in [Block -> Block \cup {NULL}]
  /\ Height \in [Block -> Nat]
  /\ Chain \in [Block -> SUBSET Block]
  /\ Prev[Genesis] = NULL /\ Height[Genesis] = 0 /\ Chain[Genesis] = {Genesis}
  /\ \A b \in Block \ {Genesis} :
       /\ Prev[b] \in Block
       /\ Height[b] = Height[Prev[b]] + 1
       /\ Chain[b] = Chain[Prev[b]] \cup {b}
       /\ b \notin Chain[Prev[b]]

ASSUME TxAssumption ==
  /\ Vtx \in [Block -> Seq(Tx)]
  /\ NOut \in [Tx -> Nat]
  /\ Vin \in [Tx -> SUBSET (Tx \X Nat)]
  /\ CoinBase \subseteq Tx /\ CoinStake \subseteq Tx
  /\ \A t \in Tx : Vin[t] = {} <=> t \in CoinBase  \* CheckTransaction: vin is not empty
  /\ BadBlock \subseteq Block
  /\ Maturity \in Nat
  /\ \A b \in Block : \A i, j \in DOMAIN Vtx[b] : Vtx[b][i] = Vtx[b][j] => i = j

---------------------------------------------------------------------------
(* CTxIndex: where the transaction is on disk (the block stands for the    *)
(* position, which only the maturity test looks at) and, for each output,  *)
(* which transaction spends it.                                            *)
CTxIndex(t) == [pos : Block, vSpent : [0 .. (NOut[t] - 1) -> Tx \cup {NULL}]]

TxIndexType(s) ==
  /\ s = [t \in Tx |-> s[t]]
  /\ \A t \in Tx : s[t] = NULL \/ s[t] \in CTxIndex(t)

ASSUME NullIndexAssumption == \A t \in Tx : NULL \notin CTxIndex(t)

EmptyTxIndex == [t \in Tx |-> NULL]

(* The blocks a coinbase or coinstake output must not come from when the   *)
(* spending transaction is checked against pindexBlock = b.                *)
Immature(b) == {a \in Chain[b] : Height[b] - Height[a] < Maturity}

(* The transaction of block b that spends outpoint o, if any. *)
SpenderIn(b, o) ==
  IF \E t \in Txs(b) : o \in Vin[t]
  THEN CHOOSE t \in Txs(b) : o \in Vin[t]
  ELSE NULL

(* BIP30 test of ConnectBlock: an indexed transaction may be repeated only *)
(* if all of its outputs are spent.                                        *)
MayOverwrite(s, t) ==
  s[t] # NULL => \A n \in DOMAIN s[t].vSpent : s[t].vSpent[n] # NULL

(* FetchInputs and ConnectInputs for input o of the i-th transaction of    *)
(* block b, the txdb holding s.  mapQueuedChanges hides the txdb for the   *)
(* transactions of b already passed.                                       *)
InputConnects(s, b, i, o) ==
  LET queued == \E j \in DOMAIN Vtx[b] : j < i /\ Vtx[b][j] = o[1]
      pos    == IF queued THEN b ELSE s[o[1]].pos
  IN  /\ ~queued => s[o[1]] # NULL
      /\ o[2] < NOut[o[1]]
      /\ o[1] \in CoinBase \cup CoinStake => pos \notin Immature(b)
      /\ ~queued => s[o[1]].vSpent[o[2]] = NULL
      /\ \A j \in DOMAIN Vtx[b] : j < i => o \notin Vin[Vtx[b][j]]

CanConnect(s, b) ==
  /\ b \notin BadBlock
  /\ \A i \in DOMAIN Vtx[b] :
       /\ MayOverwrite(s, Vtx[b][i])
       /\ \A o \in Vin[Vtx[b][i]] : InputConnects(s, b, i, o)

(* The txindex once the queued changes of ConnectBlock are written. *)
ConnectBlock(s, b) ==
  [t \in Tx |->
     CASE t \in Txs(b) ->
            [pos |-> b,
             vSpent |-> [n \in 0 .. (NOut[t] - 1) |-> SpenderIn(b, <<t, n>>)]]
       [] t \notin Txs(b) /\ s[t] = NULL -> NULL
       [] t \notin Txs(b) /\ s[t] # NULL ->
            [pos |-> s[t].pos,
             vSpent |-> [n \in 0 .. (NOut[t] - 1) |->
                           IF SpenderIn(b, <<t, n>>) # NULL
                           THEN SpenderIn(b, <<t, n>>) ELSE s[t].vSpent[n]]]]

(* DisconnectInputs runs over vtx backwards: an input's transaction must   *)
(* still be indexed when its spender's turn comes.                         *)
CanDisconnect(s, b) ==
  \A i \in DOMAIN Vtx[b] : \A o \in Vin[Vtx[b][i]] :
    /\ s[o[1]] # NULL
    /\ o[2] \in DOMAIN s[o[1]].vSpent
    /\ \A j \in DOMAIN Vtx[b] : j > i => Vtx[b][j] # o[1]

DisconnectBlock(s, b) ==
  [t \in Tx |->
     IF t \in Txs(b) \/ s[t] = NULL THEN NULL
     ELSE [pos |-> s[t].pos,
           vSpent |-> [n \in 0 .. (NOut[t] - 1) |->
                         IF SpenderIn(b, <<t, n>>) # NULL
                         THEN NULL ELSE s[t].vSpent[n]]]]

---------------------------------------------------------------------------
ASSUME LedgerAssumption ==
  /\ LedgerAt[Genesis] = EmptyTxIndex  \* the genesis block is never connected
  /\ \A b \in Block \ {Genesis} : LedgerAt[b] = ConnectBlock(LedgerAt[Prev[b]], b)

(* Every block of the branch of b passes ConnectBlock on top of the one    *)
(* before it.                                                              *)
Valid(b) == \A a \in Chain[b] \ {Genesis} : CanConnect(LedgerAt[Prev[a]], a)

(* A coinbase starts with the height of its block (AcceptBlock). *)
ASSUME CoinBaseAssumption ==
  \A a, b \in Block : \A t \in CoinBase : t \in Txs(a) /\ t \in Txs(b) => Height[a] = Height[b]
============================================================================
