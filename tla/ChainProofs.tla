---------------------------- MODULE ChainProofs ----------------------------
(***************************************************************************)
(* Proofs about Ledger and Chain, for every block tree, every arrival      *)
(* order and every crash: DisconnectBlock undoes ConnectBlock, and a valid *)
(* branch never indexes a transaction twice; the links of memory and disk  *)
(* agree, the committed index is the ledger of the committed branch until  *)
(* a postponed block fails, and within one session the best branch is the  *)
(* most trusted valid one.                                                 *)
(*                                                                         *)
(* The tree and the ledgers are given by their steps from a block to the   *)
(* next, so what holds of all of them takes an induction on the height.    *)
(* The provers cannot instantiate the induction rules of the library,      *)
(* which are about operators; Least is first-order, and enough.            *)
(***************************************************************************)
EXTENDS Chain, WellFoundedInduction, TLAPS

---------------------------------------------------------------------------
(* Induction *)

(* Every set of naturals has a least element. *)
LEMMA Least ==
  ASSUME NEW S \in SUBSET Nat, S # {}
  PROVE  \E m \in S : \A n \in S : m <= n
<1> DEFINE R == {ss \in Nat \X Nat : ss[1] < ss[2]}
<1>1. IsWellFoundedOn(R, Nat) BY NatLessThanWellFounded DEF OpToRel
<1>2. PICK x \in S : \A y \in S : ~(<<y, x>> \in R) BY <1>1, WFMin
<1>3. \A y \in S : ~(y < x) BY <1>2
<1> QED BY <1>3

(* What holds of the genesis block, and of a block when it holds of its    *)
(* parent, holds of every block.                                           *)
LEMMA BlockInduction ==
  ASSUME NEW S \in SUBSET Block, Genesis \in S,
         \A b \in Block \ {Genesis} : Prev[b] \in S => b \in S
  PROVE  S = Block
<1> SUFFICES ASSUME Block \ S # {} PROVE FALSE OBVIOUS
<1> DEFINE H == {Height[b] : b \in Block \ S}
<1>1. H \in SUBSET Nat /\ H # {} BY TreeAssumption
<1>2. PICK m \in H : \A n \in H : m <= n
  <2> HIDE DEF H
  <2> QED BY <1>1, Least
<1>3. PICK b \in Block \ S : Height[b] = m BY <1>2
<1>4. b # Genesis /\ Prev[b] \in Block \ S /\ Height[b] = Height[Prev[b]] + 1 BY TreeAssumption
<1>5. Height[b] <= Height[Prev[b]] BY <1>2, <1>3, <1>4
<1> QED BY <1>4, <1>5, TreeAssumption

---------------------------------------------------------------------------
(* Branches *)

IsBranch(b) ==
  /\ Genesis \in Chain[b] /\ b \in Chain[b]
  /\ \A a \in Chain[b] :
       /\ Chain[a] \subseteq Chain[b]
       /\ a # b => /\ Height[a] < Height[b]
                   /\ \E c \in Chain[b] : Prev[c] = a
  /\ \A a, c \in Chain[b] : Height[a] = Height[c] => a = c
  /\ \A n \in 0 .. Height[b] : \E a \in Chain[b] : Height[a] = n

(* A branch is a line of blocks, one of each height, and holds the branch  *)
(* of each of its blocks.                                                  *)
LEMMA Branches == \A b \in Block : IsBranch(b)
<1> DEFINE S == {b \in Block : IsBranch(b)}
<1>1. Genesis \in S BY TreeAssumption DEF IsBranch
<1>2. ASSUME NEW b \in Block \ {Genesis}, Prev[b] \in S PROVE b \in S
  <2> DEFINE p == Prev[b]
  <2>1. /\ p \in Block /\ IsBranch(p) /\ b \notin Chain[p] /\ Chain[p] \subseteq Block
        /\ Chain[b] = Chain[p] \cup {b} /\ Height[b] = Height[p] + 1
        /\ Height[b] \in Nat /\ Height[p] \in Nat
    BY <1>2, TreeAssumption
  <2>2. \A a \in Chain[p] : Height[a] \in Nat /\ Height[a] <= Height[p]
    BY <2>1, TreeAssumption DEF IsBranch
  <2>3. Genesis \in Chain[b] /\ b \in Chain[b] BY <2>1 DEF IsBranch
  <2>4. ASSUME NEW a \in Chain[b]
        PROVE  /\ Chain[a] \subseteq Chain[b]
               /\ a # b => Height[a] < Height[b] /\ \E c \in Chain[b] : Prev[c] = a
    <3>1. CASE a = b BY <3>1
    <3>2. CASE a # b
      <4>1. a \in Chain[p] /\ Chain[a] \subseteq Chain[p] BY <2>1, <3>2 DEF IsBranch
      <4>2. Height[a] < Height[b] BY <2>1, <2>2, <4>1
      <4>3. \E c \in Chain[b] : Prev[c] = a
        <5>1. CASE a = p BY <2>1, <5>1
        <5>2. CASE a # p BY <2>1, <4>1, <5>2 DEF IsBranch
        <5> QED BY <5>1, <5>2
      <4> QED BY <2>1, <4>1, <4>2, <4>3
    <3> QED BY <3>1, <3>2
  <2>5. ASSUME NEW a \in Chain[b], NEW c \in Chain[b], Height[a] = Height[c] PROVE a = c
    <3>1. CASE a = b \/ c = b BY <2>1, <2>2, <2>5, <3>1
    <3>2. CASE a # b /\ c # b BY <2>1, <2>5, <3>2 DEF IsBranch
    <3> QED BY <3>1, <3>2
  <2>6. ASSUME NEW n \in 0 .. Height[b] PROVE \E a \in Chain[b] : Height[a] = n
    <3>1. CASE n = Height[b] BY <2>1, <3>1
    <3>2. CASE n # Height[b]
      <4>1. n \in 0 .. Height[p] BY <2>1, <3>2
      <4> QED BY <2>1, <4>1 DEF IsBranch
    <3> QED BY <3>1, <3>2
  <2> QED BY <2>3, <2>4, <2>5, <2>6 DEF IsBranch
<1>3. S = Block
  <2> HIDE DEF S
  <2> SUFFICES S \in SUBSET Block BY <1>1, <1>2, BlockInduction
  <2> QED BY DEF S
<1> QED BY <1>3

---------------------------------------------------------------------------
(* Connecting and disconnecting *)

(* A spender is a transaction, or there is none. *)
LEMMA SpenderType ==
  ASSUME NEW b \in Block, NEW o
  PROVE  SpenderIn(b, o) \in Tx \cup {NULL}
<1>1. Txs(b) \subseteq Tx BY TxAssumption DEF Txs
<1> QED BY <1>1 DEF SpenderIn

(* Connecting a block keeps the index well formed (ConnectBlock). *)
LEMMA ConnectType ==
  ASSUME NEW s, TxIndexType(s), NEW b \in Block
  PROVE  TxIndexType(ConnectBlock(s, b))
<1>1. \A o : SpenderIn(b, o) \in Tx \cup {NULL} BY SpenderType
<1>2. ConnectBlock(s, b) = [t \in Tx |-> ConnectBlock(s, b)[t]] BY DEF ConnectBlock
<1>3. ASSUME NEW t \in Tx
      PROVE  ConnectBlock(s, b)[t] = NULL \/ ConnectBlock(s, b)[t] \in CTxIndex(t)
  <2>1. CASE t \in Txs(b) BY <1>1, <2>1 DEF ConnectBlock, CTxIndex
  <2>2. CASE t \notin Txs(b) /\ s[t] = NULL BY <2>2 DEF ConnectBlock
  <2>3. CASE t \notin Txs(b) /\ s[t] # NULL
    <3>1. s[t] \in CTxIndex(t) BY <2>3 DEF TxIndexType
    <3> QED BY <1>1, <2>3, <3>1 DEF ConnectBlock, CTxIndex
  <2> QED BY <2>1, <2>2, <2>3
<1> QED BY <1>2, <1>3 DEF TxIndexType

(* Disconnecting a block keeps the index well formed (DisconnectBlock). *)
LEMMA DisconnectType ==
  ASSUME NEW s, TxIndexType(s), NEW b \in Block
  PROVE  TxIndexType(DisconnectBlock(s, b))
<1>1. DisconnectBlock(s, b) = [t \in Tx |-> DisconnectBlock(s, b)[t]] BY DEF DisconnectBlock
<1>2. ASSUME NEW t \in Tx
      PROVE  DisconnectBlock(s, b)[t] = NULL \/ DisconnectBlock(s, b)[t] \in CTxIndex(t)
  <2>1. CASE t \in Txs(b) \/ s[t] = NULL BY <2>1 DEF DisconnectBlock
  <2>2. CASE t \notin Txs(b) /\ s[t] # NULL
    <3>1. s[t] \in CTxIndex(t) BY <2>2 DEF TxIndexType
    <3> QED BY <2>2, <3>1 DEF DisconnectBlock, CTxIndex
  <2> QED BY <2>1, <2>2
<1> QED BY <1>1, <1>2 DEF TxIndexType

(* An outpoint of an older transaction that block b spends was unspent     *)
(* when b was connected (the double-spend test of ConnectInputs).          *)
LEMMA SpentWasUnspent ==
  ASSUME NEW s, NEW b \in Block, CanConnect(s, b),
         NEW t \in Tx, t \notin Txs(b), NEW n, SpenderIn(b, <<t, n>>) # NULL
  PROVE  s[t].vSpent[n] = NULL
<1>1. PICK i \in DOMAIN Vtx[b] : <<t, n>> \in Vin[Vtx[b][i]]
  BY DEF SpenderIn, Txs
<1>2. InputConnects(s, b, i, <<t, n>>) BY <1>1 DEF CanConnect
<1>3. ~(\E j \in DOMAIN Vtx[b] : j < i /\ Vtx[b][j] = t) BY DEF Txs
<1> QED BY <1>2, <1>3 DEF InputConnects

(* DisconnectBlock undoes ConnectBlock: a reorganisation that goes down    *)
(* from a connected block finds the index as it was before the block.      *)
LEMMA DisconnectUndoes ==
  ASSUME NEW s, TxIndexType(s), NEW b \in Block, CanConnect(s, b),
         \A t \in Txs(b) : s[t] = NULL
  PROVE  DisconnectBlock(ConnectBlock(s, b), b) = s
<1> DEFINE c == ConnectBlock(s, b)
<1> HIDE DEF c
<1>1. ASSUME NEW t \in Tx PROVE DisconnectBlock(c, b)[t] = s[t]
  <2>1. CASE t \in Txs(b) BY <2>1 DEF DisconnectBlock
  <2>2. CASE t \notin Txs(b) /\ s[t] = NULL
    <3>1. c[t] = NULL BY <2>2 DEF ConnectBlock, c
    <3> QED BY <2>2, <3>1 DEF DisconnectBlock
  <2>3. CASE t \notin Txs(b) /\ s[t] # NULL
    <3> DEFINE N == 0 .. (NOut[t] - 1)
    <3>1. s[t] = [pos |-> s[t].pos, vSpent |-> s[t].vSpent]
          /\ s[t].vSpent \in [N -> Tx \cup {NULL}]
      BY <2>3 DEF TxIndexType, CTxIndex
    <3>2. c[t] = [pos |-> s[t].pos,
                  vSpent |-> [n \in N |-> IF SpenderIn(b, <<t, n>>) # NULL
                                          THEN SpenderIn(b, <<t, n>>) ELSE s[t].vSpent[n]]]
      BY <2>3 DEF ConnectBlock, c
    <3>3. c[t] # NULL
      <4>1. s[t].pos \in Block BY <2>3 DEF TxIndexType, CTxIndex
      <4>2. \A n \in N : SpenderIn(b, <<t, n>>) \in Tx \cup {NULL} BY SpenderType
      <4>3. [n \in N |-> IF SpenderIn(b, <<t, n>>) # NULL
                         THEN SpenderIn(b, <<t, n>>) ELSE s[t].vSpent[n]]
              \in [N -> Tx \cup {NULL}]
        BY <3>1, <4>2
      <4>4. c[t] \in CTxIndex(t) BY <3>2, <4>1, <4>3 DEF CTxIndex
      <4> QED BY <4>4, NullIndexAssumption
    <3>4. DisconnectBlock(c, b)[t] =
            [pos |-> s[t].pos,
             vSpent |-> [n \in N |-> IF SpenderIn(b, <<t, n>>) # NULL THEN NULL ELSE s[t].vSpent[n]]]
      <4>1. DisconnectBlock(c, b)[t] =
            [pos |-> c[t].pos,
             vSpent |-> [n \in N |-> IF SpenderIn(b, <<t, n>>) # NULL THEN NULL ELSE c[t].vSpent[n]]]
        BY <2>3, <3>3 DEF DisconnectBlock
      <4>2. c[t].pos = s[t].pos BY <3>2
      <4>3. \A n \in N : SpenderIn(b, <<t, n>>) = NULL => c[t].vSpent[n] = s[t].vSpent[n]
        BY <3>2
      <4> QED BY <4>1, <4>2, <4>3
    <3>5. ASSUME NEW n \in N
          PROVE  (IF SpenderIn(b, <<t, n>>) # NULL THEN NULL ELSE s[t].vSpent[n]) = s[t].vSpent[n]
      BY <2>3, SpentWasUnspent
    <3> QED BY <3>1, <3>4, <3>5
  <2> QED BY <2>1, <2>2, <2>3
<1>2. s = [t \in Tx |-> s[t]] BY DEF TxIndexType
<1>3. DisconnectBlock(c, b) = [t \in Tx |-> DisconnectBlock(c, b)[t]] BY DEF DisconnectBlock
<1> QED BY <1>1, <1>2, <1>3 DEF c

(* A connected block can be disconnected again: DisconnectInputs finds     *)
(* every record it needs, in particular because a transaction comes after  *)
(* the ones of its block that it spends.                                   *)
LEMMA ConnectedCanDisconnect ==
  ASSUME NEW s, TxIndexType(s), NEW b \in Block, CanConnect(s, b),
         \A t \in Txs(b) : s[t] = NULL
  PROVE  CanDisconnect(ConnectBlock(s, b), b)
<1> DEFINE c == ConnectBlock(s, b)
<1>1. SUFFICES ASSUME NEW i \in DOMAIN Vtx[b], NEW o \in Vin[Vtx[b][i]]
               PROVE  /\ c[o[1]] # NULL
                      /\ o[2] \in DOMAIN c[o[1]].vSpent
                      /\ \A j \in DOMAIN Vtx[b] : j > i => Vtx[b][j] # o[1]
  BY DEF CanDisconnect
<1>2. Vtx[b][i] \in Tx /\ o \in Tx \X Nat /\ o[1] \in Tx /\ o[2] \in Nat
  BY TxAssumption
<1>3. InputConnects(s, b, i, o) BY DEF CanConnect
<1>4. o[1] \in Txs(b) \/ s[o[1]] # NULL BY <1>3 DEF InputConnects, Txs
<1>5. c[o[1]] # NULL /\ DOMAIN c[o[1]].vSpent = 0 .. (NOut[o[1]] - 1)
  <2>1. c[o[1]] = NULL \/ c[o[1]] \in CTxIndex(o[1]) BY <1>2, ConnectType DEF TxIndexType
  <2>2. CASE o[1] \in Txs(b)
    <3>1. c[o[1]].pos = b /\ c[o[1]] = [pos |-> b,
             vSpent |-> [n \in 0 .. (NOut[o[1]] - 1) |-> SpenderIn(b, <<o[1], n>>)]]
      BY <1>2, <2>2 DEF ConnectBlock
    <3>2. c[o[1]] \in CTxIndex(o[1])
      <4>1. \A n : SpenderIn(b, <<o[1], n>>) \in Tx \cup {NULL} BY SpenderType
      <4> QED BY <3>1, <4>1 DEF CTxIndex
    <3> QED BY <3>2, <1>2, NullIndexAssumption DEF CTxIndex
  <2>3. CASE o[1] \notin Txs(b) /\ s[o[1]] # NULL
    <3> DEFINE v == [n \in 0 .. (NOut[o[1]] - 1) |->
                           IF SpenderIn(b, <<o[1], n>>) # NULL
                           THEN SpenderIn(b, <<o[1], n>>) ELSE s[o[1]].vSpent[n]]
    <3>1. c[o[1]] = [pos |-> s[o[1]].pos, vSpent |-> v] BY <1>2, <2>3 DEF ConnectBlock
    <3>2. s[o[1]] \in CTxIndex(o[1]) BY <1>2, <2>3 DEF TxIndexType
    <3>3. \A n : SpenderIn(b, <<o[1], n>>) \in Tx \cup {NULL} BY SpenderType
    <3>4. v \in [0 .. (NOut[o[1]] - 1) -> Tx \cup {NULL}] BY <3>2, <3>3 DEF CTxIndex
    <3>5. c[o[1]] \in CTxIndex(o[1]) BY <3>1, <3>2, <3>4 DEF CTxIndex
    <3> QED BY <3>5, <1>2, NullIndexAssumption DEF CTxIndex
  <2> QED BY <1>4, <2>2, <2>3
<1>6. o[2] \in 0 .. (NOut[o[1]] - 1)
  BY <1>2, <1>3, TxAssumption DEF InputConnects
<1>7. ASSUME NEW j \in DOMAIN Vtx[b], j > i, Vtx[b][j] = o[1] PROVE FALSE
  <2>1. s[o[1]] = NULL BY <1>7 DEF Txs
  <2>2. PICK k \in DOMAIN Vtx[b] : k < i /\ Vtx[b][k] = o[1] BY <1>3, <2>1 DEF InputConnects
  <2>3. k = j BY <1>7, <2>2, TxAssumption
  <2>4. DOMAIN Vtx[b] \subseteq Int BY TxAssumption
  <2> QED BY <1>7, <2>2, <2>3, <2>4
<1> QED BY <1>5, <1>6, <1>7

---------------------------------------------------------------------------
(* The ledgers *)

(* Every ledger is well formed. *)
LEMMA LedgerTyped == \A b \in Block : TxIndexType(LedgerAt[b])
<1> DEFINE S == {b \in Block : TxIndexType(LedgerAt[b])}
<1>1. Genesis \in S
  <2>1. TxIndexType(EmptyTxIndex) BY DEF TxIndexType, EmptyTxIndex
  <2> QED BY <2>1, TreeAssumption, LedgerAssumption
<1>2. \A b \in Block \ {Genesis} : Prev[b] \in S => b \in S BY ConnectType, LedgerAssumption
<1>3. S = Block
  <2> HIDE DEF S
  <2> SUFFICES S \in SUBSET Block BY <1>1, <1>2, BlockInduction
  <2> QED BY DEF S
<1> QED BY <1>3

(* What is on record is in the block of the branch it is recorded at. *)
InTheirBlocks(b) ==
  \A t \in Tx : LedgerAt[b][t] # NULL =>
    LedgerAt[b][t].pos \in Chain[b] /\ t \in Txs(LedgerAt[b][t].pos)

(* A record is of a transaction of the branch, at its block (CTxIndex::pos). *)
LEMMA Recorded == \A b \in Block : InTheirBlocks(b)
<1> DEFINE S == {b \in Block : InTheirBlocks(b)}
<1>1. Genesis \in S
  BY TreeAssumption, LedgerAssumption DEF InTheirBlocks, EmptyTxIndex
<1>2. ASSUME NEW b \in Block \ {Genesis}, Prev[b] \in S PROVE b \in S
  <2> DEFINE s == LedgerAt[Prev[b]]
             c == LedgerAt[b]
  <2>1. c = ConnectBlock(s, b) /\ InTheirBlocks(Prev[b]) /\ Chain[b] = Chain[Prev[b]] \cup {b}
    BY <1>2, TreeAssumption, LedgerAssumption
  <2>2. ASSUME NEW t \in Tx, c[t] # NULL PROVE c[t].pos \in Chain[b] /\ t \in Txs(c[t].pos)
    <3>1. CASE t \in Txs(b)
      <4>1. c[t].pos = b BY <2>1, <3>1 DEF ConnectBlock
      <4> QED BY <2>1, <3>1, <4>1
    <3>2. CASE t \notin Txs(b)
      <4>1. s[t] # NULL BY <2>1, <2>2, <3>2 DEF ConnectBlock
      <4>2. c[t].pos = s[t].pos BY <2>1, <3>2, <4>1 DEF ConnectBlock
      <4> QED BY <2>1, <4>1, <4>2 DEF InTheirBlocks
    <3> QED BY <3>1, <3>2
  <2> QED BY <2>2 DEF InTheirBlocks
<1>3. S = Block
  <2> HIDE DEF S
  <2> SUFFICES S \in SUBSET Block BY <1>1, <1>2, BlockInduction
  <2> QED BY DEF S
<1> QED BY <1>3

(* What a recorded transaction spends is recorded, and spent. *)
InputsSpent(s) ==
  \A t \in Tx : s[t] # NULL =>
    \A o \in Vin[t] :
      s[o[1]] # NULL /\ o[2] < NOut[o[1]] /\ s[o[1]].vSpent[o[2]] # NULL

(* A block that connects where all of this is so repeats nothing: the      *)
(* first of its transactions to do so would be a coinbase of another       *)
(* height, or spend an output once more.                                   *)
LEMMA BlockIsNew ==
  ASSUME NEW b \in Block, b # Genesis, CanConnect(LedgerAt[Prev[b]], b),
         InputsSpent(LedgerAt[Prev[b]])
  PROVE  \A t \in Txs(b) : LedgerAt[Prev[b]][t] = NULL
<1> DEFINE p == Prev[b]
           s == LedgerAt[p]
           Repeats == {i \in DOMAIN Vtx[b] : s[Vtx[b][i]] # NULL}
<1>1. p \in Block /\ b \notin Chain[p] /\ Height[b] = Height[p] + 1
      /\ Height[b] \in Nat /\ Height[p] \in Nat
  BY TreeAssumption
<1>2. Vtx[b] \in Seq(Tx) /\ DOMAIN Vtx[b] \subseteq Nat BY TxAssumption
<1> SUFFICES ASSUME Repeats # {} PROVE FALSE BY DEF Txs
<1>3. PICK i \in Repeats : \A j \in Repeats : i <= j
  <2>1. Repeats \in SUBSET Nat BY <1>2
  <2> HIDE DEF Repeats
  <2> QED BY <2>1, Least
<1> DEFINE t == Vtx[b][i]
<1>4. t \in Tx /\ t \in Txs(b) /\ s[t] # NULL BY <1>2, <1>3 DEF Txs
<1>5. CASE Vin[t] = {}
  <2>1. t \in CoinBase BY <1>4, <1>5, TxAssumption
  <2>2. s[t].pos \in Chain[p] /\ t \in Txs(s[t].pos) BY <1>1, <1>4, Recorded DEF InTheirBlocks
  <2>3. s[t].pos \in Block BY <1>1, <2>2, TreeAssumption
  <2>4. Height[s[t].pos] = Height[b] BY <1>4, <2>1, <2>2, <2>3, CoinBaseAssumption
  <2>5. s[t].pos = p \/ Height[s[t].pos] < Height[p] BY <1>1, <2>2, Branches DEF IsBranch
  <2> QED BY <1>1, <2>4, <2>5
<1>6. CASE Vin[t] # {}
  <2>1. PICK o \in Vin[t] : TRUE BY <1>6
  <2>2. s[o[1]] # NULL /\ s[o[1]].vSpent[o[2]] # NULL BY <1>4 DEF InputsSpent
  <2>3. InputConnects(s, b, i, o) BY <1>3 DEF CanConnect
  <2>4. PICK j \in DOMAIN Vtx[b] : j < i /\ Vtx[b][j] = o[1] BY <2>2, <2>3 DEF InputConnects
  <2>5. j \in Repeats /\ i \in Nat /\ j \in Nat BY <1>2, <1>3, <2>2, <2>4
  <2> QED BY <1>3, <2>4, <2>5
<1> QED BY <1>5, <1>6

(* Such a block leaves it so. *)
LEMMA InputsStaySpent ==
  ASSUME NEW s, TxIndexType(s), NEW b \in Block, CanConnect(s, b), InputsSpent(s),
         \A t \in Txs(b) : s[t] = NULL
  PROVE  InputsSpent(ConnectBlock(s, b))
<1> DEFINE c == ConnectBlock(s, b)
<1>1. ASSUME NEW u \in Tx, u \in Txs(b) \/ s[u] # NULL
      PROVE  /\ c[u] # NULL
             /\ \A n \in 0 .. (NOut[u] - 1) :
                  /\ SpenderIn(b, <<u, n>>) # NULL => c[u].vSpent[n] # NULL
                  /\ u \notin Txs(b) /\ s[u].vSpent[n] # NULL => c[u].vSpent[n] # NULL
  <2>1. CASE u \in Txs(b)
    <3>1. c[u] = [pos |-> b, vSpent |-> [n \in 0 .. (NOut[u] - 1) |-> SpenderIn(b, <<u, n>>)]]
      BY <2>1 DEF ConnectBlock
    <3>2. c[u] # NULL
      <4>1. \A n : SpenderIn(b, <<u, n>>) \in Tx \cup {NULL} BY SpenderType
      <4>2. c[u] \in CTxIndex(u) BY <3>1, <4>1 DEF CTxIndex
      <4> QED BY <4>2, NullIndexAssumption
    <3> QED BY <2>1, <3>1, <3>2
  <2>2. CASE u \notin Txs(b)
    <3>1. c[u] = [pos |-> s[u].pos,
                  vSpent |-> [n \in 0 .. (NOut[u] - 1) |->
                                IF SpenderIn(b, <<u, n>>) # NULL
                                THEN SpenderIn(b, <<u, n>>) ELSE s[u].vSpent[n]]]
      BY <1>1, <2>2 DEF ConnectBlock
    <3>2. c[u] # NULL
      <4>1. \A n : SpenderIn(b, <<u, n>>) \in Tx \cup {NULL} BY SpenderType
      <4>2. s[u].pos \in Block /\ s[u].vSpent \in [0 .. (NOut[u] - 1) -> Tx \cup {NULL}]
        BY <1>1, <2>2 DEF TxIndexType, CTxIndex
      <4>3. [n \in 0 .. (NOut[u] - 1) |->
               IF SpenderIn(b, <<u, n>>) # NULL
               THEN SpenderIn(b, <<u, n>>) ELSE s[u].vSpent[n]]
              \in [0 .. (NOut[u] - 1) -> Tx \cup {NULL}]
        BY <4>1, <4>2
      <4>4. c[u] \in CTxIndex(u) BY <3>1, <4>2, <4>3 DEF CTxIndex
      <4> QED BY <4>4, NullIndexAssumption
    <3>3. \A n \in 0 .. (NOut[u] - 1) :
            c[u].vSpent[n] = IF SpenderIn(b, <<u, n>>) # NULL
                             THEN SpenderIn(b, <<u, n>>) ELSE s[u].vSpent[n]
      BY <3>1
    <3> QED BY <3>2, <3>3
  <2> QED BY <2>1, <2>2
<1> HIDE DEF c
<1>2. ASSUME NEW t \in Tx, c[t] # NULL, NEW o \in Vin[t]
      PROVE  c[o[1]] # NULL /\ o[2] < NOut[o[1]] /\ c[o[1]].vSpent[o[2]] # NULL
  <2>1. o[1] \in Tx /\ o[2] \in Nat /\ o = <<o[1], o[2]>> /\ NOut[o[1]] \in Nat
    BY TxAssumption
  <2>2. CASE t \in Txs(b)
    <3>1. PICK i \in DOMAIN Vtx[b] : Vtx[b][i] = t BY <2>2 DEF Txs
    <3>2. InputConnects(s, b, i, o) BY <3>1 DEF CanConnect
    <3>3. o[2] < NOut[o[1]] /\ o[2] \in 0 .. (NOut[o[1]] - 1) BY <2>1, <3>2 DEF InputConnects
    <3>4. SpenderIn(b, <<o[1], o[2]>>) # NULL
      <4>1. \E u \in Txs(b) : o \in Vin[u] BY <2>2
      <4>2. SpenderIn(b, o) \in Txs(b) BY <4>1 DEF SpenderIn
      <4>3. Txs(b) \subseteq Tx BY TxAssumption DEF Txs
      <4> QED BY <2>1, <4>2, <4>3, NullAssumption
    <3>5. o[1] \in Txs(b) \/ s[o[1]] # NULL BY <3>2 DEF InputConnects, Txs
    <3> QED BY <1>1, <2>1, <3>3, <3>4, <3>5
  <2>3. CASE t \notin Txs(b)
    <3>1. s[t] # NULL BY <1>2, <2>3 DEF c, ConnectBlock
    <3>2. s[o[1]] # NULL /\ o[2] < NOut[o[1]] /\ s[o[1]].vSpent[o[2]] # NULL
      BY <3>1 DEF InputsSpent
    <3>3. o[1] \notin Txs(b) /\ o[2] \in 0 .. (NOut[o[1]] - 1) BY <2>1, <3>2
    <3> QED BY <1>1, <2>1, <3>2, <3>3
  <2> QED BY <2>2, <2>3
<1> QED BY <1>2 DEF c, InputsSpent

(* The branch below a block of a valid branch is valid. *)
LEMMA ValidParent ==
  ASSUME NEW b \in Block, b # Genesis, Valid(b)
  PROVE  Prev[b] \in Block /\ Valid(Prev[b]) /\ CanConnect(LedgerAt[Prev[b]], b)
BY TreeAssumption DEF Valid

(* On a valid branch no transaction is indexed twice, although BIP30 lets  *)
(* one be overwritten that is spent: DisconnectBlock, which erases the     *)
(* records of its block, never erases an older one (ConnectBlock).         *)
THEOREM NoRepeat ==
  \A b \in Block \ {Genesis} :
    Valid(b) => \A t \in Txs(b) : LedgerAt[Prev[b]][t] = NULL
<1> DEFINE S == {b \in Block : Valid(b) => InputsSpent(LedgerAt[b])}
<1>1. Genesis \in S BY TreeAssumption, LedgerAssumption DEF InputsSpent, EmptyTxIndex
<1>2. ASSUME NEW b \in Block \ {Genesis}, Prev[b] \in S, Valid(b)
      PROVE  InputsSpent(LedgerAt[b])
  <2>1. CanConnect(LedgerAt[Prev[b]], b) /\ InputsSpent(LedgerAt[Prev[b]])
    BY <1>2, ValidParent
  <2>2. \A t \in Txs(b) : LedgerAt[Prev[b]][t] = NULL BY <2>1, BlockIsNew
  <2>3. TxIndexType(LedgerAt[Prev[b]]) BY LedgerTyped, TreeAssumption
  <2>4. LedgerAt[b] = ConnectBlock(LedgerAt[Prev[b]], b) BY LedgerAssumption
  <2> QED BY <2>1, <2>2, <2>3, <2>4, InputsStaySpent
<1>3. S = Block
  <2>1. S \in SUBSET Block /\ \A b \in Block \ {Genesis} : Prev[b] \in S => b \in S BY <1>2
  <2> HIDE DEF S
  <2> QED BY <1>1, <2>1, BlockInduction
<1>4. ASSUME NEW b \in Block \ {Genesis}, Valid(b)
      PROVE  \A t \in Txs(b) : LedgerAt[Prev[b]][t] = NULL
  BY <1>3, <1>4, ValidParent, BlockIsNew
<1> QED BY <1>4

---------------------------------------------------------------------------
(* The block tree *)

(* A block belongs to its own branch, and so does its parent. *)
LEMMA ParentInBranch ==
  ASSUME NEW b \in Block
  PROVE  /\ b \in Chain[b]
         /\ b # Genesis => /\ Prev[b] \in Block
                           /\ Prev[b] \in Chain[b]
                           /\ Prev[b] # b
                           /\ Height[b] = Height[Prev[b]] + 1
                           /\ Chain[b] = Chain[Prev[b]] \cup {b}
                           /\ b \notin Chain[Prev[b]]
<1>1. ASSUME NEW c \in Block PROVE c \in Chain[c]
  <2>1. CASE c = Genesis BY <2>1, TreeAssumption
  <2>2. CASE c # Genesis BY <2>2, TreeAssumption
  <2> QED BY <2>1, <2>2
<1> QED BY <1>1, TreeAssumption

(* NextOn(a, b) is the one block of the branch of b on top of a. *)
LEMMA NextOnIs ==
  ASSUME NEW b \in Block, NEW a \in Chain[b], a # b
  PROVE  /\ NextOn(a, b) \in Block
         /\ NextOn(a, b) \in Chain[b]
         /\ Prev[NextOn(a, b)] = a
         /\ NextOn(a, b) # Genesis
<1>1. \E c \in Chain[b] : Prev[c] = a BY Branches DEF IsBranch
<1>2. NextOn(a, b) \in Chain[b] /\ Prev[NextOn(a, b)] = a BY <1>1 DEF NextOn
<1>3. a \in Block /\ NextOn(a, b) \in Block BY <1>2, TreeAssumption
<1> QED BY <1>2, <1>3, TreeAssumption, NullAssumption

(* A block of the branch of b whose parent is a is NextOn(a, b). *)
LEMMA NextOnUnique ==
  ASSUME NEW b \in Block, NEW c \in Chain[b], c # Genesis
  PROVE  NextOn(Prev[c], b) = c /\ Prev[c] \in Chain[b] /\ Prev[c] # b
<1>1. c \in Block BY TreeAssumption
<1>2. Prev[c] \in Chain[c] /\ Height[c] = Height[Prev[c]] + 1 /\ Prev[c] \in Block
  BY <1>1, ParentInBranch
<1>3. Prev[c] \in Chain[b] BY <1>2, Branches DEF IsBranch
<1>4. Height[c] \in Nat /\ Height[b] \in Nat /\ Height[Prev[c]] \in Nat BY <1>1, <1>2, TreeAssumption
<1>5. Prev[c] # b
  <2>1. c = b \/ Height[c] < Height[b] BY Branches DEF IsBranch
  <2> QED BY <1>2, <1>4, <2>1
<1>6. NextOn(Prev[c], b) \in Chain[b] /\ Prev[NextOn(Prev[c], b)] = Prev[c]
      /\ NextOn(Prev[c], b) \in Block /\ NextOn(Prev[c], b) # Genesis
  BY <1>3, <1>5, NextOnIs
<1>7. Height[NextOn(Prev[c], b)] = Height[c] BY <1>2, <1>6, ParentInBranch
<1> QED BY <1>3, <1>5, <1>6, <1>7, Branches DEF IsBranch

(* The block -startfrom=h goes back to exists. *)
LEMMA ForkBackIs ==
  ASSUME NEW b \in Block, NEW h \in StartFrom, h < Height[b]
  PROVE  (CHOOSE a \in Chain[b] : Height[a] = h - 1) \in Chain[b]
<1>1. h \in Nat \ {0} /\ Height[b] \in Nat BY TrustAssumption, TreeAssumption
<1>2. h - 1 \in 0 .. Height[b] BY <1>1
<1> QED BY <1>2, Branches DEF IsBranch

---------------------------------------------------------------------------
(* Type correctness *)

(* CallSetBestChain and Return leave well-typed call variables behind. *)
LEMMA CallTypes ==
  ASSUME TypeOK, dbNext' \in NextLinks, TxIndexType(dbTx'),
         Return \/ \E b \in Block : CallSetBestChain(b)
  PROVE  /\ batchNext' \in NextLinks /\ TxIndexType(batchTx')
         /\ pc' \in PC
         /\ pindexNew' \in Block /\ pindex' \in Block /\ pindexInter' \in Block
BY TreeAssumption DEF Return, CallSetBestChain, PC

(* Where the loops stand: pindexIntermediate and the block reached by the  *)
(* postponed connects are on the new branch, and the reorganisation is on  *)
(* the old branch or the new one, at or above their fork.                  *)
Positions ==
  /\ pc = "tip" => pindexNew # Genesis /\ Prev[pindexNew] = pindexBest
  /\ pc \in {"walk", "reorg"} => pindexInter \in Chain[pindexNew]
  /\ pc = "reorg" => /\ pindex \in Chain[pindexBest] \cup Chain[pindexInter]
                     /\ Chain[pindexBest] \cap Chain[pindexInter] \subseteq Chain[pindex]
  /\ pc = "secondary" => pindex \in Chain[pindexNew]

(* The positions are kept by every step (the loops of SetBestChain and     *)
(* Reorganize).                                                            *)
LEMMA PositionsStep ==
  ASSUME TypeOK, Positions, [Next]_vars
  PROVE  Positions'
<1> USE DEF TypeOK, Positions
<1>1. ASSUME NEW b \in Block, AcceptBlock(b) PROVE Positions'
  <2>1. b # Genesis BY <1>1, TreeAssumption, NullAssumption DEF AcceptBlock
  <2>2. b \in Chain[b] BY ParentInBranch
  <2> QED BY <1>1, <2>1, <2>2 DEF AcceptBlock, CallSetBestChain, Return
<1>2. ASSUME Return PROVE Positions' BY <1>2 DEF Return
<1>3. ASSUME Postpone PROVE Positions'
  <2>1. pindexInter \in Chain[pindexNew] /\ pindexInter # Genesis BY <1>3 DEF Postpone
  <2>2. Prev[pindexInter] \in Chain[pindexNew] BY <2>1, NextOnUnique
  <2> QED BY <1>3, <2>2 DEF Postpone
<1>4. ASSUME Reorganize PROVE Positions'
  <2>1. pindexBest \in Chain[pindexBest] BY ParentInBranch
  <2> QED BY <1>4, <2>1 DEF Reorganize, memVars
<1>5. ASSUME ReorgDisconnect PROVE Positions'
  <2>1. pindex # Genesis /\ pindex \in Chain[pindexBest]
    BY <1>5, Branches DEF IsBranch, ReorgDisconnect
  <2>2. Chain[pindex] = Chain[Prev[pindex]] \cup {pindex} BY <2>1, ParentInBranch
  <2>3. Prev[pindex] \in Chain[pindexBest] BY <2>1, NextOnUnique
  <2> QED BY <1>5, <2>2, <2>3 DEF ReorgDisconnect, memVars
<1>6. ASSUME ReorgConnect PROVE Positions'
  <2> DEFINE b == NextOn(pindex, pindexInter)
  <2>1. b \in Chain[pindexInter] /\ b \in Block /\ b # Genesis /\ Prev[b] = pindex
    BY <1>6, NextOnIs DEF ReorgConnect
  <2>2. Chain[b] = Chain[pindex] \cup {b} BY <2>1, ParentInBranch
  <2> QED BY <1>6, <2>1, <2>2 DEF ReorgConnect, memVars
<1>7. ASSUME ReorgCommit PROVE Positions' BY <1>7 DEF ReorgCommit
<1>8. ASSUME ConnectSecondary PROVE Positions'
  <2>1. NextOn(pindex, pindexNew) \in Chain[pindexNew] BY <1>8, NextOnIs DEF ConnectSecondary
  <2> QED BY <1>8, <2>1 DEF ConnectSecondary
<1>9. ASSUME NEW h \in StartFrom, RestartFrom(h) PROVE Positions'
  <2> DEFINE b == CHOOSE a \in Chain[dbBest] : Height[a] = h - 1
  <2>1. b \in Chain[dbBest] /\ b \in Block /\ b # NULL
    BY <1>9, ForkBackIs, TreeAssumption, NullAssumption DEF RestartFrom
  <2>2. b \in Chain[b] BY <2>1, ParentInBranch
  <2>3. Prev[b] # dbBest
    <3>1. CASE b = Genesis BY <3>1, TreeAssumption, NullAssumption
    <3>2. CASE b # Genesis BY <2>1, <3>2, NextOnUnique
    <3> QED BY <3>1, <3>2
  <2>4. pindexBest' = dbBest /\ pc' = "walk" /\ pindexNew' = b /\ pindexInter' = b
    BY <1>9, <2>3 DEF RestartFrom, LoadBlockIndex, CallSetBestChain
  <2> QED BY <2>2, <2>4
<1>10. ASSUME UNCHANGED vars PROVE Positions'
  BY <1>10 DEF vars, memVars, callVars
<1> QED BY <1>1, <1>2, <1>3, <1>4, <1>5, <1>6, <1>7, <1>8, <1>9, <1>10
        DEF Next, Step, ConnectTip, ConnectTipFails, ReorgFails, SecondaryFails, NewBest, Restart

(* Every step keeps the types (all actions). *)
LEMMA TypeStep ==
  ASSUME TypeOK, Positions, [Next]_vars
  PROVE  TypeOK'
<1> USE DEF TypeOK
<1>1. ASSUME NEW b \in Block, AcceptBlock(b) PROVE TypeOK'
  <2>1. Prev[b] \in Block BY <1>1 DEF AcceptBlock
  <2>2. nChainTrust' \in [Block -> Nat]
    <3>1. nChainTrust[Prev[b]] + GetBlockTrust(b) \in Nat
      BY <2>1, TrustAssumption DEF GetBlockTrust
    <3> QED BY <1>1, <3>1 DEF AcceptBlock
  <2>3. dbNext' \in NextLinks /\ pnext' \in NextLinks /\ dbTx' = dbTx
    BY <1>1 DEF AcceptBlock, NextLinks
  <2>4. Return \/ \E c \in Block : CallSetBestChain(c) BY <1>1 DEF AcceptBlock
  <2> QED BY <1>1, <2>2, <2>3, <2>4, CallTypes DEF AcceptBlock
<1>2. ASSUME NEW b \in Block, CommitInner(b)
      PROVE  dbNext' \in NextLinks /\ pnext' \in NextLinks /\ TxIndexType(dbTx')
  <2>1. TxIndexType(dbTx') BY <1>2, ConnectType DEF CommitInner
  <2>2. ConnectLinks(dbNext, b) \in NextLinks BY DEF ConnectLinks, NextLinks
  <2>3. pnext' \in NextLinks BY <1>2 DEF CommitInner, NextLinks
  <2> QED BY <1>2, <2>1, <2>2, <2>3 DEF CommitInner
<1>3. ASSUME ConnectTip PROVE TypeOK'
  BY <1>2, <1>3, CallTypes DEF ConnectTip, CommitInner
<1>4. ASSUME ConnectTipFails PROVE TypeOK'
  BY <1>4, CallTypes DEF ConnectTipFails, memVars, dbVars
<1>5. ASSUME Postpone PROVE TypeOK'
  BY <1>5, ParentInBranch DEF Postpone, memVars, dbVars
<1>6. ASSUME Reorganize PROVE TypeOK'
  BY <1>6 DEF Reorganize, memVars, dbVars, PC
<1>7. ASSUME ReorgDisconnect PROVE TypeOK'
  <2>1. pindex # Genesis BY <1>7, Branches DEF IsBranch, ReorgDisconnect
  <2>2. Prev[pindex] \in Block BY <2>1, ParentInBranch
  <2>3. TxIndexType(batchTx') BY <1>7, DisconnectType DEF ReorgDisconnect
  <2>4. batchNext' \in NextLinks BY <1>7 DEF ReorgDisconnect, DisconnectLinks, NextLinks
  <2> QED BY <1>7, <2>2, <2>3, <2>4 DEF ReorgDisconnect, memVars, dbVars
<1>8. ASSUME ReorgConnect PROVE TypeOK'
  <2> DEFINE b == NextOn(pindex, pindexInter)
  <2>1. b \in Block BY <1>8, NextOnIs DEF ReorgConnect
  <2>2. TxIndexType(batchTx') BY <1>8, <2>1, ConnectType DEF ReorgConnect
  <2>3. batchNext' \in NextLinks BY <1>8, <2>1 DEF ReorgConnect, ConnectLinks, NextLinks
  <2> QED BY <1>8, <2>1, <2>2, <2>3 DEF ReorgConnect, memVars, dbVars
<1>9. ASSUME ReorgFails PROVE TypeOK'
  BY <1>9, CallTypes DEF ReorgFails, memVars, dbVars
<1>10. ASSUME ReorgCommit PROVE TypeOK'
  <2>1. ASSUME NEW a \in Block, NEW c \in Chain[pindexInter], Prev[c] = a
        PROVE  NextOn(a, pindexInter) \in Block
    <3>1. c # Genesis BY <2>1, TreeAssumption, NullAssumption
    <3>2. NextOn(a, pindexInter) = c BY <2>1, <3>1, NextOnUnique
    <3> QED BY <3>2, TreeAssumption
  <2>2. Rewired(pindexInter) \in NextLinks BY <2>1 DEF Rewired, NextLinks
  <2> QED BY <1>10, <2>2 DEF ReorgCommit, PC
<1>11. ASSUME ConnectSecondary PROVE TypeOK'
  <2> DEFINE b == NextOn(pindex, pindexNew)
  <2>1. b \in Block BY <1>11, NextOnIs DEF ConnectSecondary, Positions
  <2> QED BY <1>2, <1>11, <2>1 DEF ConnectSecondary, CommitInner
<1>12. ASSUME SecondaryFails PROVE TypeOK'
  BY <1>12, CallTypes DEF SecondaryFails, dbVars
<1>13. ASSUME NewBest PROVE TypeOK'
  BY <1>13, CallTypes DEF NewBest, dbVars
<1>14. ASSUME LoadBlockIndex
       PROVE  /\ mapBlockIndex' \subseteq Block /\ pnext' \in NextLinks
              /\ nChainTrust' \in [Block -> Nat] /\ pindexBest' \in Block
              /\ restarts' \in 0 .. MaxRestarts
              /\ dbVars' = dbVars /\ fTorn' = fTorn
  BY <1>14, TrustAssumption DEF LoadBlockIndex, dbVars
<1>15. ASSUME Restart PROVE TypeOK'
  BY <1>14, <1>15, CallTypes DEF Restart, dbVars
<1>16. ASSUME NEW h \in StartFrom, RestartFrom(h) PROVE TypeOK'
  <2>1. \E b \in Block : CallSetBestChain(b)
    BY <1>16, ForkBackIs, TreeAssumption DEF RestartFrom
  <2> QED BY <1>14, <1>16, <2>1, CallTypes DEF RestartFrom, dbVars
<1>17. ASSUME UNCHANGED vars PROVE TypeOK'
  BY <1>17 DEF vars, memVars, dbVars, callVars
<1> QED BY <1>1, <1>3, <1>4, <1>5, <1>6, <1>7, <1>8, <1>9, <1>10, <1>11, <1>12, <1>13,
           <1>15, <1>16, <1>17 DEF Next, Step

(* Initial types and positions. *)
LEMMA TypeInit == ASSUME Init PROVE TypeOK /\ Positions
<1>1. TxIndexType(EmptyTxIndex) BY DEF TxIndexType, EmptyTxIndex
<1>2. nChainTrust \in [Block -> Nat] BY TrustAssumption, TreeAssumption DEF Init
<1>3. pnext \in NextLinks BY DEF Init, NextLinks
<1>4. restarts \in 0 .. MaxRestarts BY TrustAssumption DEF Init
<1> QED BY <1>1, <1>2, <1>3, <1>4, TreeAssumption DEF Init, TypeOK, PC, Positions

(* Every variable keeps its type, in particular every block pointer points *)
(* to a block whatever the loops of SetBestChain and Reorganize do.        *)
THEOREM Typing == Spec => [](TypeOK /\ Positions)
<1>1. Init => TypeOK /\ Positions BY TypeInit
<1>2. TypeOK /\ Positions /\ [Next]_vars => (TypeOK /\ Positions)' BY TypeStep, PositionsStep
<1> QED BY <1>1, <1>2, PTL DEF Spec

---------------------------------------------------------------------------
(* Links *)

(* The batch and the index: outside Reorganize nothing is pending, and     *)
(* inside it the pending links are the ones memory will get if the batch   *)
(* is committed here.                                                      *)
LinksInv ==
  /\ mapBlockIndex = dbIndex
  /\ pnext = dbNext
  /\ pc # "reorg" => batchTx = dbTx /\ batchNext = dbNext
  /\ pc = "reorg" => batchNext = Rewired(pindex)

(* Before the first block is disconnected nothing is rewired. *)
LEMMA RewiredBest == ASSUME TypeOK PROVE Rewired(pindexBest) = pnext
BY DEF Rewired, TypeOK, NextLinks

(* DisconnectBlock takes one link away. *)
LEMMA RewiredDown ==
  ASSUME TypeOK, NEW x \in Chain[pindexBest], x # Genesis
  PROVE  Rewired(Prev[x]) = DisconnectLinks(Rewired(x), x)
<1>1. x \in Block /\ pindexBest \in Block BY TreeAssumption DEF TypeOK
<1>2. Prev[x] \in Block /\ Prev[x] \in Chain[x] /\ Chain[x] = Chain[Prev[x]] \cup {x}
      /\ x \notin Chain[Prev[x]]
  BY <1>1, ParentInBranch
<1>3. Chain[x] \subseteq Chain[pindexBest] BY <1>1, Branches DEF IsBranch
<1>4. Chain[x] \ Chain[pindexBest] = {} /\ Chain[Prev[x]] \ Chain[pindexBest] = {}
  BY <1>2, <1>3
<1>5. Chain[pindexBest] \ Chain[Prev[x]] = (Chain[pindexBest] \ Chain[x]) \cup {x}
  BY <1>2, <1>3
<1>6. ASSUME NEW a \in Block
      PROVE  Rewired(Prev[x])[a] = IF a = Prev[x] THEN NULL ELSE Rewired(x)[a]
  BY <1>4, <1>5 DEF Rewired
<1>7. Rewired(x) \in [Block -> {Rewired(x)[a] : a \in Block}] BY DEF Rewired
<1>8. DisconnectLinks(Rewired(x), x) = [a \in Block |-> IF a = Prev[x] THEN NULL ELSE Rewired(x)[a]]
  BY <1>2, <1>7 DEF DisconnectLinks
<1>9. Rewired(Prev[x]) = [a \in Block |-> Rewired(Prev[x])[a]] BY DEF Rewired
<1> QED BY <1>6, <1>8, <1>9

(* ConnectBlock sets one link, the parent's; the block's own record is     *)
(* written with the link it has.                                           *)
LEMMA RewiredUp ==
  ASSUME TypeOK, NEW c \in Block, c # Genesis, c \notin Chain[pindexBest]
  PROVE  Rewired(c) = ConnectLinks(Rewired(Prev[c]), c)
<1> DEFINE x == Prev[c]
<1>1. pindexBest \in Block BY DEF TypeOK
<1>2. x \in Block /\ x \in Chain[c] /\ x # c /\ Chain[c] = Chain[x] \cup {c} /\ c \notin Chain[x]
      /\ c \in Chain[c] /\ x \in Chain[x]
  BY ParentInBranch
<1>3. Chain[c] \ Chain[pindexBest] = (Chain[x] \ Chain[pindexBest]) \cup {c} BY <1>2
<1>4. Chain[pindexBest] \ Chain[c] = Chain[pindexBest] \ Chain[x] BY <1>2
<1>5. NextOn(x, c) = c BY <1>2, NextOnUnique
<1>6. ASSUME NEW d \in Chain[x], d # Genesis
      PROVE  NextOn(Prev[d], c) = NextOn(Prev[d], x) /\ Prev[d] # c
  <2>1. NextOn(Prev[d], x) = d /\ Prev[d] \in Chain[x] BY <1>2, <1>6, NextOnUnique
  <2>2. NextOn(Prev[d], c) = d BY <1>2, <1>6, NextOnUnique
  <2> QED BY <1>2, <2>1, <2>2
<1>7. ASSUME NEW d \in Chain[pindexBest], d # Genesis PROVE Prev[d] # c
  BY <1>1, <1>7, NextOnUnique
<1>8. \A d \in Block : d # Genesis <=> Prev[d] \in Block BY TreeAssumption, NullAssumption
<1>9. ASSUME NEW a \in Block
      PROVE  Rewired(c)[a] = IF a = x THEN c ELSE IF a = c THEN pnext[c] ELSE Rewired(x)[a]
  <2>1. CASE a = x BY <1>3, <1>5, <2>1 DEF Rewired
  <2>2. CASE a = c
    <3>1. ~(\E d \in Chain[c] \ Chain[pindexBest] : Prev[d] = a)
      <4>1. SUFFICES ASSUME NEW d \in Chain[c], Prev[d] = c PROVE FALSE BY <2>2
      <4>2. d # Genesis BY <4>1, <1>8, TreeAssumption
      <4>3. CASE d = c BY <4>1, <4>3, <1>2
      <4>4. CASE d \in Chain[x] BY <4>1, <4>2, <4>4, <1>6
      <4> QED BY <1>2, <4>3, <4>4
    <3>2. ~(\E d \in Chain[pindexBest] \ Chain[c] : Prev[d] = a)
      BY <1>7, <1>8, <2>2, TreeAssumption, <1>1
    <3> QED BY <1>2, <2>2, <3>1, <3>2 DEF Rewired
  <2>3. CASE a # x /\ a # c
    <3>1. (\E d \in Chain[c] \ Chain[pindexBest] : Prev[d] = a)
            <=> (\E d \in Chain[x] \ Chain[pindexBest] : Prev[d] = a)
      BY <1>3, <2>3
    <3>2. ASSUME NEW d \in Chain[x], Prev[d] = a PROVE NextOn(a, c) = NextOn(a, x)
      <4>1. d # Genesis BY <3>2, <1>2, <1>8, TreeAssumption
      <4> QED BY <3>2, <4>1, <1>6
    <3> QED BY <1>4, <2>3, <3>1, <3>2 DEF Rewired
  <2> QED BY <2>1, <2>2, <2>3
<1>10. Rewired(x) \in [Block -> {Rewired(x)[a] : a \in Block}] BY DEF Rewired
<1>11. ConnectLinks(Rewired(x), c) =
         [a \in Block |-> IF a = x THEN c ELSE IF a = c THEN pnext[c] ELSE Rewired(x)[a]]
  BY <1>2, <1>10 DEF ConnectLinks
<1>12. Rewired(c) = [a \in Block |-> Rewired(c)[a]] BY DEF Rewired
<1> QED BY <1>9, <1>11, <1>12

(* LinksInv is kept by every step. *)
LEMMA LinksStep ==
  ASSUME TypeOK, Positions, LinksInv, [Next]_vars
  PROVE  LinksInv'
<1> USE DEF LinksInv
<1>1. ASSUME Return, mapBlockIndex' = dbIndex', pnext' = dbNext' PROVE LinksInv'
  BY <1>1 DEF Return
<1>2. ASSUME NEW b \in Block, CallSetBestChain(b), mapBlockIndex' = dbIndex', pnext' = dbNext'
      PROVE  LinksInv'
  BY <1>2 DEF CallSetBestChain
<1>3. ASSUME NEW b \in Block, AcceptBlock(b) PROVE LinksInv'
  BY <1>1, <1>2, <1>3 DEF AcceptBlock
<1>4. ASSUME NEW b \in Block, CommitInner(b), b # Genesis
      PROVE  mapBlockIndex' = dbIndex' /\ pnext' = dbNext'
  <2>1. ConnectLinks(dbNext, b) = [pnext EXCEPT ![Prev[b]] = b]
    BY DEF ConnectLinks, TypeOK, NextLinks
  <2> QED BY <1>4, <2>1 DEF CommitInner
<1>5. ASSUME ConnectTip PROVE LinksInv'
  BY <1>1, <1>4, <1>5 DEF ConnectTip, Positions, TypeOK
<1>6. ASSUME ConnectTipFails PROVE LinksInv'
  BY <1>1, <1>6 DEF ConnectTipFails, memVars, dbVars
<1>7. ASSUME Postpone PROVE LinksInv'
  BY <1>7 DEF Postpone, memVars, dbVars
<1>8. ASSUME Reorganize PROVE LinksInv'
  <2>1. Rewired(pindex)' = Rewired(pindexBest) BY <1>8 DEF Reorganize, Rewired, memVars
  <2> QED BY <1>8, <2>1, RewiredBest DEF Reorganize, memVars, dbVars
<1>9. ASSUME ReorgDisconnect PROVE LinksInv'
  <2>1. pindex # Genesis /\ pindex \in Chain[pindexBest]
    BY <1>9, Branches DEF IsBranch, ReorgDisconnect, Positions, TypeOK
  <2>2. Rewired(Prev[pindex]) = DisconnectLinks(batchNext, pindex)
    BY <1>9, <2>1, RewiredDown DEF ReorgDisconnect
  <2>3. Rewired(pindex)' = Rewired(Prev[pindex]) BY <1>9 DEF ReorgDisconnect, Rewired, memVars
  <2> QED BY <1>9, <2>2, <2>3 DEF ReorgDisconnect, memVars, dbVars
<1>10. ASSUME ReorgConnect PROVE LinksInv'
  <2> DEFINE b == NextOn(pindex, pindexInter)
  <2>1. b \in Chain[pindexInter] /\ b \in Block /\ b # Genesis /\ Prev[b] = pindex
    BY <1>10, NextOnIs DEF ReorgConnect, TypeOK
  <2>2. b \notin Chain[pindex] BY <2>1, ParentInBranch
  <2>3. b \notin Chain[pindexBest] BY <1>10, <2>1, <2>2 DEF ReorgConnect, Positions
  <2>4. Rewired(b) = ConnectLinks(batchNext, b) BY <1>10, <2>1, <2>3, RewiredUp DEF ReorgConnect
  <2>5. Rewired(pindex)' = Rewired(b) BY <1>10 DEF ReorgConnect, Rewired, memVars
  <2> QED BY <1>10, <2>4, <2>5 DEF ReorgConnect, memVars, dbVars
<1>11. ASSUME ReorgFails PROVE LinksInv'
  BY <1>1, <1>11 DEF ReorgFails, memVars, dbVars
<1>12. ASSUME ReorgCommit PROVE LinksInv'
  BY <1>12 DEF ReorgCommit
<1>13. ASSUME ConnectSecondary PROVE LinksInv'
  <2>1. NextOn(pindex, pindexNew) \in Block /\ NextOn(pindex, pindexNew) # Genesis
    BY <1>13, NextOnIs DEF ConnectSecondary, Positions, TypeOK
  <2> QED BY <1>4, <1>13, <2>1 DEF ConnectSecondary
<1>14. ASSUME SecondaryFails PROVE LinksInv'
  BY <1>1, <1>14 DEF SecondaryFails, dbVars
<1>15. ASSUME NewBest PROVE LinksInv'
  BY <1>1, <1>15 DEF NewBest, dbVars
<1>16. ASSUME Restart PROVE LinksInv'
  BY <1>1, <1>16 DEF Restart, LoadBlockIndex, dbVars
<1>17. ASSUME NEW h \in StartFrom, RestartFrom(h) PROVE LinksInv'
  <2>1. \E b \in Block : CallSetBestChain(b)
    BY <1>17, ForkBackIs, TreeAssumption DEF RestartFrom, TypeOK
  <2> QED BY <1>2, <1>17, <2>1 DEF RestartFrom, LoadBlockIndex, dbVars
<1>18. ASSUME UNCHANGED vars PROVE LinksInv'
  BY <1>18 DEF vars, memVars, dbVars, callVars, Rewired
<1> QED BY <1>3, <1>5, <1>6, <1>7, <1>8, <1>9, <1>10, <1>11, <1>12, <1>13, <1>14, <1>15,
           <1>16, <1>17, <1>18 DEF Next, Step

(* Memory and disk always agree on the index and its links, through any    *)
(* reorganisation, failure and crash.                                      *)
THEOREM LinksAgree == Spec => []LinksMatchDisk
<1> DEFINE I == TypeOK /\ Positions /\ LinksInv
<1>1. Init => I BY TypeInit DEF Init, LinksInv
<1>2. I /\ [Next]_vars => I' BY TypeStep, PositionsStep, LinksStep
<1>3. I => LinksMatchDisk BY DEF LinksInv, LinksMatchDisk
<1> QED BY <1>1, <1>2, <1>3, PTL DEF Spec

---------------------------------------------------------------------------
(* The ledger *)

(* The links of the branch of b. *)
Links(b) == [a \in Block |-> IF a \in Chain[b] \ {b} THEN NextOn(a, b) ELSE NULL]

(* Until a postponed block fails, what is committed, and what the batch of *)
(* a reorganisation shows, is the ledger and the links of a valid branch.  *)
LedgerInv ==
  ~fTorn =>
    /\ Valid(dbBest)
    /\ dbTx = LedgerAt[dbBest]
    /\ dbNext = Links(dbBest)
    /\ pc # "secondary" => pindexBest = dbBest
    /\ pc = "secondary" => pindex = dbBest
    /\ pc = "reorg" => Valid(pindex) /\ batchTx = LedgerAt[pindex]

(* A block that connects on top of a valid branch extends it. *)
LEMMA ValidUp ==
  ASSUME NEW b \in Block, b # Genesis, Valid(Prev[b]), CanConnect(LedgerAt[Prev[b]], b)
  PROVE  Valid(b) /\ ConnectBlock(LedgerAt[Prev[b]], b) = LedgerAt[b]
<1>1. Chain[b] = Chain[Prev[b]] \cup {b} BY ParentInBranch
<1> QED BY <1>1, LedgerAssumption DEF Valid

(* Every block of a valid branch is valid. *)
LEMMA ValidDown ==
  ASSUME NEW b \in Block, Valid(b), NEW a \in Chain[b]
  PROVE  Valid(a)
BY Branches DEF IsBranch, Valid

(* Disconnecting the tip of a valid branch gives the ledger of its parent, *)
(* and never fails.                                                        *)
LEMMA LedgerDown ==
  ASSUME NEW b \in Block, b # Genesis, Valid(b)
  PROVE  /\ CanDisconnect(LedgerAt[b], b)
         /\ DisconnectBlock(LedgerAt[b], b) = LedgerAt[Prev[b]]
         /\ Valid(Prev[b])
<1>1. Prev[b] \in Block /\ Prev[b] \in Chain[b] /\ b \in Chain[b] BY ParentInBranch
<1>2. LedgerAt[b] = ConnectBlock(LedgerAt[Prev[b]], b) BY LedgerAssumption
<1>3. TxIndexType(LedgerAt[Prev[b]]) BY <1>1, LedgerTyped
<1>4. CanConnect(LedgerAt[Prev[b]], b) BY <1>1 DEF Valid
<1>5. \A t \in Txs(b) : LedgerAt[Prev[b]][t] = NULL BY NoRepeat
<1> QED BY <1>1, <1>2, <1>3, <1>4, <1>5, DisconnectUndoes, ConnectedCanDisconnect, ValidDown

(* One more block, one more link. *)
LEMMA LinksUp ==
  ASSUME NEW b \in Block, b # Genesis
  PROVE  Links(b) = [Links(Prev[b]) EXCEPT ![Prev[b]] = b]
<1> DEFINE x == Prev[b]
<1>1. x \in Block /\ x # b /\ Chain[b] = Chain[x] \cup {b} /\ b \notin Chain[x] /\ x \in Chain[x]
      /\ b \in Chain[b]
  BY ParentInBranch
<1>2. NextOn(x, b) = b BY <1>1, NextOnUnique
<1>3. ASSUME NEW a \in Chain[x], a # x PROVE NextOn(a, b) = NextOn(a, x)
  <2>1. NextOn(a, x) \in Chain[x] /\ Prev[NextOn(a, x)] = a /\ NextOn(a, x) # Genesis
    BY <1>1, <1>3, NextOnIs
  <2>2. NextOn(a, x) \in Chain[b] BY <1>1, <2>1
  <2> QED BY <2>1, <2>2, NextOnUnique
<1> QED BY <1>1, <1>2, <1>3 DEF Links

(* Rewiring the links of the old best branch gives those of the new one. *)
LEMMA RewiredLinks ==
  ASSUME TypeOK, pnext = Links(pindexBest), NEW b \in Block
  PROVE  Rewired(b) = Links(b)
<1> DEFINE p == pindexBest
<1>1. p \in Block BY DEF TypeOK
<1>2. Chain[b] \subseteq Block /\ Chain[p] \subseteq Block BY <1>1, TreeAssumption
<1>3. \A c \in Block : c # Genesis <=> Prev[c] \in Block BY TreeAssumption, NullAssumption
<1>4. ASSUME NEW a \in Block PROVE Rewired(b)[a] = Links(b)[a]
  <2>1. CASE \E c \in Chain[b] \ Chain[p] : Prev[c] = a
    <3>1. PICK c \in Chain[b] \ Chain[p] : Prev[c] = a BY <2>1
    <3>2. c # Genesis BY <1>2, <1>3, <3>1
    <3>3. a \in Chain[b] /\ a # b BY <3>1, <3>2, NextOnUnique
    <3> QED BY <2>1, <3>3 DEF Rewired, Links
  <2>2. CASE (\A c \in Chain[b] \ Chain[p] : Prev[c] # a)
             /\ (\E c \in Chain[p] \ Chain[b] : Prev[c] = a)
    <3>1. PICK c \in Chain[p] \ Chain[b] : Prev[c] = a BY <2>2
    <3>2. c # Genesis BY <1>2, <1>3, <3>1
    <3>3. NextOn(a, p) = c BY <1>1, <3>1, <3>2, NextOnUnique
    <3>4. ASSUME a \in Chain[b], a # b PROVE FALSE
      <4> DEFINE d == NextOn(a, b)
      <4>1. d \in Chain[b] /\ Prev[d] = a /\ d # Genesis BY <3>4, NextOnIs
      <4>2. d \in Chain[p] BY <2>2, <4>1
      <4>3. NextOn(a, p) = d BY <1>1, <4>1, <4>2, NextOnUnique
      <4> QED BY <3>1, <3>3, <4>1, <4>3
    <3>5. Rewired(b)[a] = NULL BY <2>2 DEF Rewired
    <3> QED BY <3>4, <3>5 DEF Links
  <2>3. CASE (\A c \in Chain[b] \ Chain[p] : Prev[c] # a)
             /\ (\A c \in Chain[p] \ Chain[b] : Prev[c] # a)
    <3>1. Rewired(b)[a] = Links(p)[a] BY <2>3 DEF Rewired
    <3>2. CASE a \in Chain[p] /\ a # p
      <4> DEFINE d == NextOn(a, p)
      <4>1. d \in Chain[p] /\ Prev[d] = a /\ d # Genesis BY <1>1, <3>2, NextOnIs
      <4>2. d \in Chain[b] BY <2>3, <4>1
      <4>3. NextOn(a, b) = d /\ a \in Chain[b] /\ a # b BY <4>1, <4>2, NextOnUnique
      <4> QED BY <3>1, <3>2, <4>3 DEF Links
    <3>3. CASE ~(a \in Chain[p] /\ a # p)
      <4>1. ASSUME a \in Chain[b], a # b PROVE FALSE
        <5> DEFINE d == NextOn(a, b)
        <5>1. d \in Chain[b] /\ Prev[d] = a /\ d # Genesis BY <4>1, NextOnIs
        <5>2. d \in Chain[p] BY <2>3, <5>1
        <5>3. a \in Chain[p] /\ a # p BY <1>1, <5>1, <5>2, NextOnUnique
        <5> QED BY <3>3, <5>3
      <4> QED BY <3>1, <3>3, <4>1 DEF Links
    <3> QED BY <3>2, <3>3
  <2> QED BY <2>1, <2>2, <2>3
<1>5. Rewired(b) = [a \in Block |-> Rewired(b)[a]] BY DEF Rewired
<1>6. Links(b) = [a \in Block |-> Links(b)[a]] BY DEF Links
<1> QED BY <1>4, <1>5, <1>6

(* The index holds whole branches, and the blocks SetBestChain works on. *)
Indexed ==
  /\ Genesis \in mapBlockIndex
  /\ \A b \in mapBlockIndex : Chain[b] \subseteq mapBlockIndex
  /\ pindexBest \in mapBlockIndex /\ dbBest \in mapBlockIndex
  /\ pindexNew \in mapBlockIndex

(* Indexed is kept by every step: AcceptBlock only takes a block whose     *)
(* parent is indexed.                                                      *)
LEMMA IndexedStep ==
  ASSUME TypeOK, Positions, LinksInv, Indexed, [Next]_vars
  PROVE  Indexed'
<1> USE DEF Indexed
<1>1. ASSUME NEW b \in Block, AcceptBlock(b) PROVE Indexed'
  <2>1. b # Genesis /\ Prev[b] \in mapBlockIndex BY <1>1 DEF AcceptBlock
  <2>2. Chain[b] = Chain[Prev[b]] \cup {b} BY <2>1, ParentInBranch
  <2>3. mapBlockIndex' = mapBlockIndex \cup {b} /\ pindexBest' = pindexBest /\ dbBest' = dbBest
    BY <1>1 DEF AcceptBlock
  <2>4. pindexNew' \in {b, Genesis} BY <1>1 DEF AcceptBlock, CallSetBestChain, Return
  <2> QED BY <2>1, <2>2, <2>3, <2>4
<1>2. ASSUME UNCHANGED <<mapBlockIndex, pindexBest, dbBest>>, pindexNew' \in {pindexNew, Genesis}
      PROVE  Indexed'
  BY <1>2
<1>3. ASSUME ConnectTip PROVE Indexed' BY <1>3 DEF ConnectTip, CommitInner, Return
<1>4. ASSUME ReorgCommit PROVE Indexed'
  BY <1>4 DEF ReorgCommit, Positions
<1>5. ASSUME ConnectSecondary PROVE Indexed'
  <2>1. NextOn(pindex, pindexNew) \in Chain[pindexNew]
    BY <1>5, NextOnIs DEF ConnectSecondary, Positions, TypeOK
  <2> QED BY <1>5, <2>1 DEF ConnectSecondary, CommitInner
<1>6. ASSUME SecondaryFails \/ NewBest PROVE Indexed'
  BY <1>6 DEF SecondaryFails, NewBest, Return, dbVars
<1>7. ASSUME Restart PROVE Indexed'
  BY <1>7 DEF Restart, LoadBlockIndex, dbVars, Return, LinksInv
<1>8. ASSUME NEW h \in StartFrom, RestartFrom(h) PROVE Indexed'
  <2>1. pindexNew' \in Chain[dbBest]
    BY <1>8, ForkBackIs DEF RestartFrom, CallSetBestChain, TypeOK
  <2> QED BY <1>8, <2>1 DEF RestartFrom, LoadBlockIndex, dbVars, LinksInv
<1>9. ASSUME ConnectTipFails \/ Postpone \/ Reorganize \/ ReorgDisconnect \/ ReorgConnect
             \/ ReorgFails \/ UNCHANGED vars
      PROVE  Indexed'
  BY <1>2, <1>9 DEF ConnectTipFails, Postpone, Reorganize, ReorgDisconnect, ReorgConnect,
                    ReorgFails, Return, vars, memVars, dbVars, callVars
<1> QED BY <1>1, <1>3, <1>4, <1>5, <1>6, <1>7, <1>8, <1>9 DEF Next, Step

(* LedgerInv is kept by every step. *)
LEMMA LedgerStep ==
  ASSUME TypeOK, Positions, LinksInv, Indexed, LedgerInv, [Next]_vars
  PROVE  LedgerInv'
<1> USE DEF LedgerInv
<1>1. CASE fTorn
  BY <1>1 DEF Next, Step, AcceptBlock, ConnectTip, ConnectTipFails, Postpone, Reorganize,
     ReorgDisconnect, ReorgConnect, ReorgFails, ReorgCommit, ConnectSecondary, SecondaryFails,
     NewBest, Restart, RestartFrom, LoadBlockIndex, vars
<1>2. SUFFICES ASSUME ~fTorn PROVE LedgerInv' BY <1>1
<1>3. ASSUME pc' \in {"idle", "tip", "walk"}, Valid(dbBest'), dbTx' = LedgerAt[dbBest'],
             dbNext' = Links(dbBest'), pindexBest' = dbBest'
      PROVE  LedgerInv'
  BY <1>3
<1>4. ASSUME NEW b \in Block, AcceptBlock(b) PROVE LedgerInv'
  <2>1. b \notin Chain[dbBest] BY <1>4 DEF AcceptBlock, Indexed
  <2>2. dbNext' = dbNext
    <3>1. dbNext[b] = NULL BY <1>2, <2>1 DEF Links
    <3> QED BY <1>4, <3>1 DEF AcceptBlock, TypeOK, NextLinks
  <2>3. pc = "idle" /\ dbBest' = dbBest /\ dbTx' = dbTx /\ pindexBest' = pindexBest
        /\ pc' \in {"idle", "tip", "walk"}
    BY <1>4 DEF AcceptBlock, CallSetBestChain, Return
  <2> QED BY <1>2, <1>3, <2>2, <2>3
<1>5. ASSUME NEW b \in Block, b # Genesis, Prev[b] = dbBest, CanConnect(dbTx, b), CommitInner(b)
      PROVE  /\ dbBest' = b /\ Valid(dbBest') /\ dbTx' = LedgerAt[dbBest'] /\ dbNext' = Links(dbBest')
  <2>1. Valid(b) /\ ConnectBlock(dbTx, b) = LedgerAt[b] BY <1>2, <1>5, ValidUp
  <2>2. ConnectLinks(dbNext, b) = [dbNext EXCEPT ![Prev[b]] = b]
    BY DEF ConnectLinks, TypeOK, NextLinks, LinksInv
  <2>3. Links(b) = [dbNext EXCEPT ![Prev[b]] = b] BY <1>2, <1>5, LinksUp
  <2> QED BY <1>5, <2>1, <2>2, <2>3 DEF CommitInner
<1>6. ASSUME ConnectTip PROVE LedgerInv'
  <2>1. pindexNew # Genesis /\ Prev[pindexNew] = dbBest /\ pindexNew \in Block
    BY <1>2, <1>6 DEF ConnectTip, Positions, TypeOK
  <2> QED BY <1>3, <1>5, <1>6, <2>1 DEF ConnectTip, Return
<1>7. ASSUME ConnectTipFails PROVE LedgerInv'
  BY <1>2, <1>3, <1>7 DEF ConnectTipFails, memVars, dbVars, Return
<1>8. ASSUME Postpone PROVE LedgerInv' BY <1>2, <1>8 DEF Postpone, memVars, dbVars
<1>9. ASSUME Reorganize PROVE LedgerInv'
  BY <1>2, <1>9 DEF Reorganize, memVars, dbVars, LinksInv
<1>10. ASSUME ReorgDisconnect PROVE LedgerInv'
  <2>1. pindex # Genesis /\ pindex \in Block
    BY <1>10, Branches DEF IsBranch, ReorgDisconnect, TypeOK
  <2>2. batchTx' = LedgerAt[Prev[pindex]] /\ Valid(Prev[pindex])
    BY <1>2, <1>10, <2>1, LedgerDown DEF ReorgDisconnect
  <2> QED BY <1>2, <1>10, <2>2 DEF ReorgDisconnect, memVars, dbVars
<1>11. ASSUME ReorgConnect PROVE LedgerInv'
  <2> DEFINE b == NextOn(pindex, pindexInter)
  <2>1. b \in Block /\ b # Genesis /\ Prev[b] = pindex
    BY <1>11, NextOnIs DEF ReorgConnect, TypeOK
  <2>2. batchTx' = LedgerAt[b] /\ Valid(b)
    BY <1>2, <1>11, <2>1, ValidUp DEF ReorgConnect
  <2> QED BY <1>2, <1>11, <2>2 DEF ReorgConnect, memVars, dbVars
<1>12. ASSUME ReorgFails PROVE LedgerInv'
  BY <1>2, <1>3, <1>12 DEF ReorgFails, memVars, dbVars, Return
<1>13. ASSUME ReorgCommit PROVE LedgerInv'
  <2>1. Rewired(pindexInter) = Links(pindexInter)
    BY <1>2, <1>13, RewiredLinks DEF ReorgCommit, TypeOK, LinksInv
  <2> QED BY <1>2, <1>13, <2>1 DEF ReorgCommit, LinksInv
<1>14. ASSUME ConnectSecondary PROVE LedgerInv'
  <2> DEFINE b == NextOn(pindex, pindexNew)
  <2>1. b \in Block /\ b # Genesis /\ Prev[b] = dbBest
    BY <1>2, <1>14, NextOnIs DEF ConnectSecondary, Positions, TypeOK
  <2> QED BY <1>5, <1>14, <2>1 DEF ConnectSecondary
<1>15. ASSUME SecondaryFails PROVE LedgerInv' BY <1>15 DEF SecondaryFails
<1>16. ASSUME NewBest PROVE LedgerInv'
  BY <1>2, <1>3, <1>16 DEF NewBest, dbVars, Return
<1>17. ASSUME Restart PROVE LedgerInv'
  BY <1>2, <1>3, <1>17 DEF Restart, LoadBlockIndex, dbVars, Return
<1>18. ASSUME NEW h \in StartFrom, RestartFrom(h) PROVE LedgerInv'
  BY <1>2, <1>3, <1>18 DEF RestartFrom, LoadBlockIndex, dbVars, CallSetBestChain
<1>19. ASSUME UNCHANGED vars PROVE LedgerInv'
  BY <1>2, <1>19 DEF vars, memVars, dbVars, callVars
<1> QED BY <1>4, <1>6, <1>7, <1>8, <1>9, <1>10, <1>11, <1>12, <1>13, <1>14, <1>15,
           <1>16, <1>17, <1>18, <1>19 DEF Next, Step

SafetyInv == TypeOK /\ Positions /\ LinksInv /\ Indexed /\ LedgerInv

(* The conjunction is inductive. *)
LEMMA SafetyInductive ==
  /\ Init => SafetyInv
  /\ SafetyInv /\ [Next]_vars => SafetyInv'
<1>1. ASSUME Init PROVE SafetyInv
  <2>1. TypeOK /\ Positions BY <1>1, TypeInit
  <2>2. Chain[Genesis] = {Genesis} BY TreeAssumption
  <2>3. LinksInv /\ Indexed BY <1>1, <2>2 DEF Init, LinksInv, Indexed
  <2>4. Valid(Genesis) /\ LedgerAt[Genesis] = EmptyTxIndex
    BY <2>2, LedgerAssumption DEF Valid
  <2>5. Links(Genesis) = [b \in Block |-> NULL] BY <2>2 DEF Links
  <2>6. LedgerInv BY <1>1, <2>4, <2>5 DEF Init, LedgerInv
  <2> QED BY <2>1, <2>3, <2>6 DEF SafetyInv
<1>2. ASSUME SafetyInv, [Next]_vars PROVE SafetyInv'
  BY <1>2, TypeStep, PositionsStep, LinksStep, IndexedStep, LedgerStep DEF SafetyInv
<1> QED BY <1>1, <1>2

(* Until a postponed block fails, the committed transaction index is that  *)
(* of the valid branch hashBestChain names, through every reorganisation,  *)
(* failed or not, and every crash.                                         *)
THEOREM LedgerIsBestChain == Spec => []LedgerOfBest
<1>1. SafetyInv => LedgerOfBest BY DEF SafetyInv, LedgerInv, LedgerOfBest
<1> QED BY <1>1, SafetyInductive, PTL DEF Spec

(* Memory and disk agree on index and links at all times and, until a      *)
(* postponed block fails, between calls on the best block and its branch.  *)
THEOREM MemoryAgrees == Spec => []MemoryMatchesDisk
<1>1. SafetyInv => LinksMatchDisk BY DEF SafetyInv, LinksInv, LinksMatchDisk
<1>2. SafetyInv => BestIsCommitted
  BY DEF SafetyInv, LinksInv, LedgerInv, Links, BestIsCommitted
<1>3. SafetyInv => MemoryMatchesDisk BY <1>1, <1>2 DEF MemoryMatchesDisk
<1> QED BY <1>3, SafetyInductive, PTL DEF Spec

---------------------------------------------------------------------------
(* Trust *)

(* A block has no less trust than its ancestors, as memory counts it and   *)
(* as a start would.                                                       *)
TrustGrows ==
  \A b \in mapBlockIndex : \A a \in Chain[b] :
    nChainTrust[a] <= nChainTrust[b] /\ ChainWork[a] <= ChainWork[b]

(* Trust keeps growing along the branches. *)
LEMMA GrowsStep ==
  ASSUME SafetyInv, TrustGrows, [Next]_vars
  PROVE  TrustGrows'
<1> USE DEF SafetyInv, TrustGrows
<1>1. ASSUME NEW b \in Block, AcceptBlock(b) PROVE TrustGrows'
  <2> DEFINE p == Prev[b]
  <2>1. b # Genesis /\ p \in mapBlockIndex /\ p \in Block
    BY <1>1, TreeAssumption, NullAssumption DEF AcceptBlock, TypeOK
  <2>2. Chain[b] = Chain[p] \cup {b} /\ p \in Chain[p] /\ Chain[p] \subseteq mapBlockIndex
    BY <2>1, ParentInBranch DEF Indexed
  <2>3. b \notin mapBlockIndex /\ mapBlockIndex' = mapBlockIndex \cup {b}
        /\ nChainTrust' = [nChainTrust EXCEPT ![b] = nChainTrust[p] + GetBlockTrust(b)]
    BY <1>1 DEF AcceptBlock
  <2>4. GetBlockTrust(b) \in Nat /\ Work[b] \in Nat /\ ChainWork[b] = ChainWork[p] + Work[b]
    BY <2>1, TrustAssumption DEF GetBlockTrust
  <2>5. \A a \in Block : nChainTrust[a] \in Nat /\ ChainWork[a] \in Nat
    BY TrustAssumption DEF TypeOK
  <2>6. \A a \in mapBlockIndex : nChainTrust'[a] = nChainTrust[a] /\ a \in Block
    BY <2>3 DEF TypeOK
  <2>7. nChainTrust'[b] = nChainTrust[p] + GetBlockTrust(b) BY <2>3 DEF TypeOK
  <2>8. ASSUME NEW x \in mapBlockIndex, NEW a \in Chain[x]
        PROVE  nChainTrust'[a] <= nChainTrust'[x] /\ ChainWork[a] <= ChainWork[x]
    BY <2>6, <2>8 DEF Indexed
  <2>9. ASSUME NEW a \in Chain[b]
        PROVE  nChainTrust'[a] <= nChainTrust'[b] /\ ChainWork[a] <= ChainWork[b]
    <3>1. CASE a = b BY <2>4, <2>5, <2>1, <2>7, <3>1
    <3>2. CASE a \in Chain[p]
      <4>1. nChainTrust[a] <= nChainTrust[p] /\ ChainWork[a] <= ChainWork[p] BY <2>1, <3>2
      <4>2. a \in mapBlockIndex /\ a \in Block BY <2>2, <2>6, <3>2
      <4> QED BY <2>1, <2>4, <2>5, <2>6, <2>7, <4>1, <4>2
    <3> QED BY <2>2, <3>1, <3>2
  <2> QED BY <2>3, <2>8, <2>9
<1>2. ASSUME LoadBlockIndex PROVE TrustGrows'
  <2>1. mapBlockIndex' = mapBlockIndex
        /\ nChainTrust' = [b \in Block |-> IF b \in mapBlockIndex THEN ChainWork[b] ELSE 0]
    BY <1>2 DEF LoadBlockIndex, LinksInv
  <2>2. \A b \in mapBlockIndex : nChainTrust'[b] = ChainWork[b] BY <2>1 DEF TypeOK
  <2> QED BY <2>1, <2>2 DEF Indexed
<1>3. ASSUME UNCHANGED <<mapBlockIndex, nChainTrust>> PROVE TrustGrows' BY <1>3
<1>4. ASSUME Step PROVE UNCHANGED <<mapBlockIndex, nChainTrust>>
  BY <1>4 DEF Step, ConnectTip, ConnectTipFails, Postpone, Reorganize, ReorgDisconnect, ReorgConnect,
     ReorgFails, ReorgCommit, ConnectSecondary, SecondaryFails, NewBest, CommitInner, memVars
<1> QED BY <1>1, <1>2, <1>3, <1>4 DEF Next, Restart, RestartFrom, vars, memVars

(* SetBestChain only gives a block up for good reason: when the tip does   *)
(* not connect, or Reorganize fails, the branch holds a block that does    *)
(* not connect on top of its parent's.                                     *)
LEMMA FailedInvalid ==
  ASSUME SafetyInv, ~fTorn, ConnectTipFails \/ ReorgFails
  PROVE  ~Valid(pindexNew)
<1> USE DEF SafetyInv
<1>1. CASE ConnectTipFails
  <2>1. ~CanConnect(LedgerAt[Prev[pindexNew]], pindexNew) /\ pindexNew # Genesis
    BY <1>1 DEF ConnectTipFails, LedgerInv, Positions
  <2> QED BY <2>1, ParentInBranch DEF Valid, TypeOK
<1>2. CASE ReorgFails
  <2>1. pindex \in Block /\ pindexInter \in Block /\ pindexNew \in Block BY DEF TypeOK
  <2>2. pindex \notin Chain[pindexInter] => CanDisconnect(batchTx, pindex)
    BY <1>2, <2>1, Branches, LedgerDown DEF IsBranch, ReorgFails, LedgerInv
  <2> DEFINE c == NextOn(pindex, pindexInter)
  <2>3. pindex \in Chain[pindexInter] \ {pindexInter} /\ ~CanConnect(batchTx, c)
    BY <1>2, <2>2 DEF ReorgFails
  <2>4. c \in Chain[pindexInter] /\ c # Genesis /\ Prev[c] = pindex BY <2>1, <2>3, NextOnIs
  <2>5. c \in Chain[pindexNew]
    BY <1>2, <2>1, <2>4, Branches DEF IsBranch, ReorgFails, Positions
  <2>6. ~CanConnect(LedgerAt[Prev[c]], c) BY <1>2, <2>3, <2>4 DEF ReorgFails, LedgerInv
  <2> QED BY <2>4, <2>5, <2>6 DEF Valid
<1> QED BY <1>1, <1>2

(* A step of SetBestChain goes on with its block, or returns: with the     *)
(* block as the best one, or because it cannot be.                         *)
LEMMA StepGoesOn ==
  ASSUME SafetyInv, Step, ~fTorn'
  PROVE  /\ ~fTorn /\ pc # "idle" /\ UNCHANGED <<mapBlockIndex, nChainTrust>>
         /\ pc' # "idle" => pindexNew' = pindexNew
         /\ pc' = "idle" => pindexBest' = pindexNew \/ ~Valid(pindexNew)
<1> USE DEF memVars, dbVars
<1>1. CASE ConnectTip BY <1>1 DEF ConnectTip, CommitInner, Return
<1>2. CASE ConnectTipFails BY <1>2, FailedInvalid DEF ConnectTipFails, Return
<1>3. CASE ReorgFails BY <1>3, FailedInvalid DEF ReorgFails, Return
<1>4. CASE Postpone BY <1>4 DEF Postpone
<1>5. CASE Reorganize BY <1>5 DEF Reorganize
<1>6. CASE ReorgDisconnect BY <1>6 DEF ReorgDisconnect
<1>7. CASE ReorgConnect BY <1>7 DEF ReorgConnect
<1>8. CASE ReorgCommit BY <1>8 DEF ReorgCommit
<1>9. CASE ConnectSecondary BY <1>9 DEF ConnectSecondary, CommitInner
<1>10. CASE SecondaryFails BY <1>10 DEF SecondaryFails
<1>11. CASE NewBest BY <1>11 DEF NewBest, Return
<1> QED BY <1>1, <1>2, <1>3, <1>4, <1>5, <1>6, <1>7, <1>8, <1>9, <1>10, <1>11 DEF Step

(* In the first session every indexed valid block but the one being        *)
(* adopted has at most the best block's trust, so a postponed block can    *)
(* only sit on top of an invalid one and Reorganize commits the new tip    *)
(* itself or nothing.                                                      *)
TrustInv ==
  restarts = 0 =>
    /\ ~fTorn
    /\ \A b \in mapBlockIndex :
         Valid(b) => \/ nChainTrust[b] <= nChainTrust[pindexBest]
                     \/ pc # "idle" /\ b = pindexNew
    /\ pc # "idle" => nChainTrust[pindexNew] > nChainTrust[pindexBest]
    /\ pc \in {"walk", "reorg"} => pindexInter = pindexNew \/ Outweighs(pindexInter)
    /\ pc = "secondary" => pindex = pindexNew

(* TrustInv is kept by every step. *)
LEMMA TrustStep ==
  ASSUME SafetyInv, TrustInv, [Next]_vars
  PROVE  TrustInv'
<1> USE DEF SafetyInv
<1>1. CASE restarts' # 0 BY <1>1 DEF TrustInv
<1>2. SUFFICES ASSUME restarts' = 0, restarts = 0 PROVE TrustInv'
  <2>1. restarts' = 0 => restarts = 0
    BY DEF Next, Step, AcceptBlock, ConnectTip, ConnectTipFails, Postpone, Reorganize,
       ReorgDisconnect, ReorgConnect, ReorgFails, ReorgCommit, ConnectSecondary, SecondaryFails,
       NewBest, Restart, RestartFrom, LoadBlockIndex, CommitInner, vars, TypeOK
  <2> QED BY <1>1, <2>1
<1> USE DEF TrustInv
<1>3. ~Restart /\ \A h \in StartFrom : ~RestartFrom(h)
  BY <1>2, TrustAssumption DEF Restart, RestartFrom, LoadBlockIndex, TypeOK
<1>4. ~SecondaryFails BY <1>2 DEF SecondaryFails
<1>5. \A b \in Block : nChainTrust[b] \in Nat BY DEF TypeOK
<1>6. ASSUME NEW b \in Block, AcceptBlock(b) PROVE TrustInv'
  <2>1. \A c \in mapBlockIndex : c \in Block /\ nChainTrust'[c] = nChainTrust[c]
    BY <1>6 DEF AcceptBlock, TypeOK
  <2>2. nChainTrust'[pindexBest'] = nChainTrust[pindexBest] /\ pindexBest' = pindexBest
    BY <1>6, <2>1 DEF AcceptBlock, Indexed
  <2>3. nChainTrust'[b] \in Nat BY <1>6, TypeStep DEF TypeOK
  <2>4. mapBlockIndex' = mapBlockIndex \cup {b} /\ fTorn' = fTorn /\ pc = "idle" BY <1>6 DEF AcceptBlock
  <2>5. CASE nChainTrust'[b] > nChainTrust[pindexBest]
    <3>1. pc' \in {"tip", "walk"} /\ pindexNew' = b /\ pindexInter' = b
      BY <1>6, <2>5 DEF AcceptBlock, CallSetBestChain
    <3> QED BY <1>2, <2>1, <2>2, <2>4, <2>5, <3>1
  <2>6. CASE ~(nChainTrust'[b] > nChainTrust[pindexBest])
    <3>1. pc' = "idle" BY <1>6, <2>6 DEF AcceptBlock, Return
    <3>2. nChainTrust'[b] <= nChainTrust'[pindexBest'] BY <1>5, <2>2, <2>3, <2>6 DEF TypeOK
    <3> QED BY <1>2, <2>1, <2>2, <2>4, <3>1, <3>2
  <2> QED BY <2>5, <2>6
<1>7. ASSUME pc # "idle", pc' = "idle", pindexBest' = pindexNew,
             UNCHANGED <<mapBlockIndex, nChainTrust, fTorn>>
      PROVE  TrustInv'
  <2>1. ASSUME NEW b \in mapBlockIndex, Valid(b) PROVE nChainTrust[b] <= nChainTrust[pindexNew]
    <3>1. b \in Block /\ pindexNew \in Block /\ pindexBest \in Block BY DEF TypeOK
    <3>2. nChainTrust[pindexNew] > nChainTrust[pindexBest] BY <1>2, <1>7
    <3>3. nChainTrust[b] <= nChainTrust[pindexBest] \/ b = pindexNew BY <1>2, <2>1
    <3> QED BY <1>5, <3>1, <3>2, <3>3
  <2> QED BY <1>2, <1>7, <2>1
<1>8. ASSUME ~Valid(pindexNew), pc' = "idle", UNCHANGED <<memVars, fTorn>> PROVE TrustInv'
  BY <1>2, <1>8 DEF memVars
<1>9. ASSUME ConnectTip PROVE TrustInv' BY <1>7, <1>9 DEF ConnectTip, CommitInner, Return
<1>10. ASSUME ConnectTipFails PROVE TrustInv'
  <2>1. ~Valid(pindexNew) BY <1>2, <1>10, FailedInvalid
  <2> QED BY <1>8, <1>10, <2>1 DEF ConnectTipFails, Return
<1>11. ASSUME Postpone PROVE TrustInv'
  BY <1>2, <1>11 DEF Postpone, memVars, Outweighs
<1>12. ASSUME Reorganize PROVE TrustInv' BY <1>2, <1>12 DEF Reorganize, memVars, Outweighs
<1>13. ASSUME ReorgDisconnect PROVE TrustInv' BY <1>2, <1>13 DEF ReorgDisconnect, memVars, Outweighs
<1>14. ASSUME ReorgConnect PROVE TrustInv' BY <1>2, <1>14 DEF ReorgConnect, memVars, Outweighs
<1>15. ASSUME ReorgFails PROVE TrustInv'
  <2>1. ~Valid(pindexNew) BY <1>2, <1>15, FailedInvalid
  <2> QED BY <1>8, <1>15, <2>1 DEF ReorgFails, Return
<1>16. ASSUME ReorgCommit PROVE TrustInv'
  <2>1. Valid(pindexInter) BY <1>2, <1>16 DEF ReorgCommit, LedgerInv
  <2>2. pindexInter \in mapBlockIndex BY <1>16 DEF ReorgCommit, Indexed, Positions
  <2>3. pindexInter = pindexNew
    <3>1. SUFFICES ASSUME pindexInter # pindexNew PROVE FALSE OBVIOUS
    <3>2. nChainTrust[pindexInter] > nChainTrust[pindexBest]
      BY <1>2, <1>16, <3>1 DEF ReorgCommit, Outweighs
    <3>3. nChainTrust[pindexInter] <= nChainTrust[pindexBest] BY <1>2, <2>1, <2>2, <3>1
    <3>4. nChainTrust[pindexInter] \in Nat /\ nChainTrust[pindexBest] \in Nat BY DEF TypeOK
    <3> QED BY <3>2, <3>3, <3>4
  <2> QED BY <1>2, <1>16, <2>3 DEF ReorgCommit
<1>17. ASSUME ConnectSecondary PROVE TrustInv' BY <1>2, <1>17 DEF ConnectSecondary
<1>18. ASSUME NewBest PROVE TrustInv' BY <1>7, <1>18 DEF NewBest, Return
<1>19. ASSUME UNCHANGED vars PROVE TrustInv'
  BY <1>2, <1>19 DEF vars, memVars, dbVars, callVars, Outweighs
<1> QED BY <1>3, <1>4, <1>6, <1>9, <1>10, <1>11, <1>12, <1>13, <1>14, <1>15, <1>16, <1>17,
           <1>18, <1>19 DEF Next, Step

(* Within one session the best chain is a valid chain with the most trust  *)
(* among all valid chains the node knows, in whatever order their blocks   *)
(* came and whichever invalid blocks came with them.                       *)
THEOREM BestIsMostTrusted == Spec => []MostTrusted
<1>1. Init => SafetyInv /\ TrustInv
  <2>1. ASSUME Init PROVE TrustInv
    BY <2>1, TrustAssumption, TreeAssumption DEF Init, TrustInv
  <2> QED BY <2>1, SafetyInductive
<1>2. (SafetyInv /\ TrustInv) /\ [Next]_vars => (SafetyInv /\ TrustInv)'
  BY SafetyInductive, TrustStep
<1>3. SafetyInv /\ TrustInv => MostTrusted BY DEF TrustInv, MostTrusted
<1> QED BY <1>1, <1>2, <1>3, PTL DEF Spec
---------------------------------------------------------------------------
(* The best block *)

(* The invariant.  SetBestChain is called for a block that outweighs the   *)
(* best one, or to go back to an ancestor of it; what it commits on the    *)
(* way there outweighs the best block too, unless it is the block itself.  *)
(* A start falls back to hashBestChain, which is on the branch of the best *)
(* block, even when a postponed block has failed.                          *)
HeavierInv ==
  /\ pc # "secondary" => dbBest \in Chain[pindexBest]
  /\ pc = "secondary" => dbBest = pindex
  /\ pc # "idle" => Outweighs(pindexNew) \/ pindexNew \in Chain[pindexBest]
  /\ pc \in {"walk", "reorg"} => Outweighs(pindexInter) \/ pindexInter = pindexNew
  /\ pc = "secondary" => Outweighs(pindex) \/ pindex = pindexNew

(* The new best block outweighs the old one, or is an ancestor of it. *)
Heavier ==
  pindexBest' # pindexBest =>
    \/ nChainTrust[pindexBest'] > nChainTrust[pindexBest]
    \/ pindexBest' \in Chain[pindexBest]

(* Every step keeps HeavierInv and moves the best block as it may. *)
LEMMA HeavierStep ==
  ASSUME SafetyInv, TrustGrows, HeavierInv, [Next]_vars
  PROVE  HeavierInv' /\ Heavier
<1> USE DEF SafetyInv, HeavierInv, Outweighs
<1>0. /\ pindexBest \in Block /\ dbBest \in Block /\ pindexNew \in Block
      /\ \A b \in Block : b \in Chain[b]
  BY ParentInBranch DEF TypeOK
<1>1. ASSUME NEW b \in Block, AcceptBlock(b) PROVE HeavierInv' /\ Heavier
  <2>1. pindexBest # b BY <1>1 DEF AcceptBlock, Indexed
  <2>2. nChainTrust'[pindexBest] = nChainTrust[pindexBest]
    BY <1>0, <1>1, <2>1 DEF AcceptBlock, TypeOK
  <2> QED BY <1>1, <2>2 DEF AcceptBlock, CallSetBestChain, Return, Heavier
<1>2. ASSUME UNCHANGED <<pindexBest, dbBest>>, Return, pc # "secondary" PROVE HeavierInv' /\ Heavier
  BY <1>2 DEF Return, Heavier
<1>3. ASSUME ConnectTip PROVE HeavierInv' /\ Heavier
  BY <1>0, <1>3 DEF ConnectTip, CommitInner, Return, Heavier
<1>4. ASSUME ConnectTipFails \/ ReorgFails PROVE HeavierInv' /\ Heavier
  BY <1>2, <1>4 DEF ConnectTipFails, ReorgFails, memVars, dbVars
<1>5. ASSUME Postpone PROVE HeavierInv' /\ Heavier
  BY <1>5 DEF Postpone, memVars, dbVars, Heavier
<1>6. ASSUME Reorganize \/ ReorgDisconnect \/ ReorgConnect PROVE HeavierInv' /\ Heavier
  BY <1>6 DEF Reorganize, ReorgDisconnect, ReorgConnect, memVars, dbVars, Heavier
<1>7. ASSUME ReorgCommit PROVE HeavierInv' /\ Heavier
  BY <1>7 DEF ReorgCommit, Heavier
<1>8. ASSUME ConnectSecondary PROVE HeavierInv' /\ Heavier
  <2> DEFINE b == NextOn(pindex, pindexNew)
  <2>1. b \in Block /\ b \in Chain[pindexNew] /\ Prev[b] = pindex /\ b # Genesis
    BY <1>8, NextOnIs DEF ConnectSecondary, Positions, TypeOK
  <2>2. b \in mapBlockIndex /\ pindex \in Chain[b] /\ pindex \in Block
    BY <2>1, ParentInBranch DEF Indexed
  <2>3. nChainTrust[pindex] <= nChainTrust[b] BY <2>2 DEF TrustGrows
  <2>4. {nChainTrust[pindex], nChainTrust[b], nChainTrust[pindexBest]} \subseteq Nat
    BY <1>0, <2>1, <2>2 DEF TypeOK
  <2>5. nChainTrust[b] > nChainTrust[pindexBest] BY <1>8, <2>3, <2>4 DEF ConnectSecondary
  <2> QED BY <1>8, <2>5 DEF ConnectSecondary, CommitInner, Heavier
<1>9. ASSUME SecondaryFails PROVE HeavierInv' /\ Heavier
  BY <1>9 DEF SecondaryFails, Return, dbVars, Positions, Heavier
<1>10. ASSUME NewBest PROVE HeavierInv' /\ Heavier
  BY <1>0, <1>10 DEF NewBest, Return, dbVars, Heavier
<1>11. ASSUME LoadBlockIndex PROVE Heavier
  <2>1. pindexBest' = dbBest BY <1>11 DEF LoadBlockIndex
  <2> QED BY <2>1 DEF Heavier
<1>12. ASSUME Restart PROVE HeavierInv' /\ Heavier
  BY <1>0, <1>11, <1>12 DEF Restart, LoadBlockIndex, Return, dbVars
<1>13. ASSUME NEW h \in StartFrom, RestartFrom(h) PROVE HeavierInv' /\ Heavier
  <2>1. pindexNew' \in Chain[dbBest] /\ pindexInter' = pindexNew' /\ pc' \in {"tip", "walk"}
    BY <1>0, <1>13, ForkBackIs DEF RestartFrom, CallSetBestChain
  <2> QED BY <1>0, <1>11, <1>13, <2>1 DEF RestartFrom, LoadBlockIndex, dbVars
<1>14. ASSUME UNCHANGED vars PROVE HeavierInv' /\ Heavier
  BY <1>14 DEF vars, memVars, dbVars, callVars, Heavier
<1> QED BY <1>1, <1>3, <1>4, <1>5, <1>6, <1>7, <1>8, <1>9, <1>10, <1>12, <1>13, <1>14 DEF Next, Step

(* The trust of the first best block, and where the records begin. *)
LEMMA HeavierInit == ASSUME Init PROVE TrustGrows /\ HeavierInv
BY TreeAssumption, TrustAssumption DEF Init, TrustGrows, HeavierInv

(* The best block is only replaced by a heavier one or by its ancestor,    *)
(* through reorganisations that fail on the way, crashes in the middle of  *)
(* one, and starts after a postponed block has failed.                     *)
THEOREM BestGrowsHeavier == Spec => HeavierOrBack
<1> DEFINE I == SafetyInv /\ TrustGrows /\ HeavierInv
<1>1. Init => I BY SafetyInductive, HeavierInit
<1>2. I /\ [Next]_vars => I' BY SafetyInductive, GrowsStep, HeavierStep
<1>3. I /\ [Next]_vars =>
        [pindexBest' # pindexBest =>
           \/ nChainTrust[pindexBest'] > nChainTrust[pindexBest]
           \/ pindexBest' \in Chain[pindexBest]]_vars
  BY HeavierStep DEF Heavier
<1> QED BY <1>1, <1>2, <1>3, PTL DEF Spec, HeavierOrBack

---------------------------------------------------------------------------
(* Refinement *)

(* Every step is a step of BestChain or leaves its variables alone: a      *)
(* commit adopts one valid, known branch together with its whole ledger.   *)
LEMMA StepRefines ==
  ASSUME SafetyInv, [Next]_vars
  PROVE  [Abstract!Next]_(Abstract!vars)
<1> USE DEF Abstract!Next, Abstract!vars, Abstract!Learn, Abstract!Adopt, Abstract!Tear
<1>1. TypeOK /\ Positions /\ LinksInv /\ Indexed /\ LedgerInv BY DEF SafetyInv
<1>2. LedgerInv' /\ TypeOK' /\ Indexed' /\ LinksInv' BY SafetyInductive DEF SafetyInv
<1>3. ASSUME fTorn' PROVE [Abstract!Next]_(Abstract!vars) BY <1>3
<1>4. ASSUME UNCHANGED <<dbIndex, dbBest, dbTx, fTorn>> PROVE [Abstract!Next]_(Abstract!vars)
  BY <1>4
<1>5. ASSUME UNCHANGED <<dbIndex, fTorn>> PROVE [Abstract!Next]_(Abstract!vars)
  <2>1. CASE fTorn BY <1>3, <1>5, <2>1
  <2>2. CASE ~fTorn
    <3>1. dbBest' \in Block /\ Valid(dbBest') /\ dbTx' = LedgerAt[dbBest']
      BY <1>2, <1>5, <2>2 DEF LedgerInv, TypeOK
    <3>2. Chain[dbBest'] \subseteq dbIndex BY <1>2, <1>5 DEF Indexed, LinksInv
    <3>3. Abstract!Valid(dbBest') = Valid(dbBest')
      BY DEF Valid, CanConnect, MayOverwrite, InputConnects, Immature, Abstract!Valid,
         Abstract!CanConnect, Abstract!MayOverwrite, Abstract!InputConnects, Abstract!Immature
    <3> QED BY <1>5, <2>2, <3>1, <3>2, <3>3
  <2> QED BY <2>1, <2>2
<1>6. ASSUME NEW b \in Block, AcceptBlock(b) PROVE [Abstract!Next]_(Abstract!vars)
  <2>1. CASE fTorn BY <1>3, <1>6, <2>1 DEF AcceptBlock
  <2>2. CASE ~fTorn
    <3>1. Prev[b] \in dbIndex BY <1>1, <1>6 DEF AcceptBlock, LinksInv
    <3> QED BY <1>6, <2>2, <3>1 DEF AcceptBlock
  <2> QED BY <2>1, <2>2
<1>7. ASSUME ConnectTip \/ ReorgCommit \/ ConnectSecondary PROVE [Abstract!Next]_(Abstract!vars)
  BY <1>5, <1>7 DEF ConnectTip, ReorgCommit, ConnectSecondary, CommitInner
<1>8. ASSUME SecondaryFails PROVE [Abstract!Next]_(Abstract!vars) BY <1>3, <1>8 DEF SecondaryFails
<1>9. ASSUME ConnectTipFails \/ Postpone \/ Reorganize \/ ReorgDisconnect \/ ReorgConnect
             \/ ReorgFails \/ NewBest \/ Restart \/ (\E h \in StartFrom : RestartFrom(h))
             \/ UNCHANGED vars
      PROVE  [Abstract!Next]_(Abstract!vars)
  BY <1>4, <1>9 DEF ConnectTipFails, Postpone, Reorganize, ReorgDisconnect, ReorgConnect,
     ReorgFails, NewBest, Restart, RestartFrom, LoadBlockIndex, vars, dbVars
<1> QED BY <1>6, <1>7, <1>8, <1>9 DEF Next, Step

(* The block database with its crashes, its batches and its postponed      *)
(* connects implements BestChain: SetBestChain switches from one valid     *)
(* branch to another with its whole ledger in one step.                    *)
THEOREM ChainImplementsBestChain == Spec => Implements
<1>1. Init => Abstract!Init
  <2>1. LedgerAt[Genesis] = EmptyTxIndex BY LedgerAssumption
  <2> QED BY <2>1 DEF Init, Abstract!Init
<1>2. SafetyInv /\ [Next]_vars => [Abstract!Next]_(Abstract!vars) BY StepRefines
<1> QED BY <1>1, <1>2, SafetyInductive, PTL DEF Spec, Implements, Abstract!Spec
=============================================================================
