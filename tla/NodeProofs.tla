---------------------------- MODULE NodeProofs ----------------------------
(***************************************************************************)
(* Proofs about Node, for every block tree, set of transactions and limit: *)
(* the pool's two maps agree, the orphan index is exact and bounded, no    *)
(* confirmed transaction stays in the pool, and a pool transaction is only *)
(* cut off from its parents by a transaction Reorganize could not put back *)
(* for a cause; after a reorganisation no two transactions of the pool and *)
(* the new branch spend the same output, and no stored orphan is left      *)
(* behind that what a message brought in makes acceptable.                 *)
(*                                                                         *)
(* About Miner, at the end: a block that passes the test for staleness     *)
(* connects, although the block it was begun on was read without a lock    *)
(* and the transactions were collected later.  The chain may have moved    *)
(* between the two.  Then it does not come back: the best block only       *)
(* becomes the block SetBestChain was called for, and that is never the    *)
(* one the assembly was begun on, which was the best one already.  So a    *)
(* block that is not stale in the end was not stale when its transactions  *)
(* were collected either, and the index the collected transactions were    *)
(* tested against is the one of its parent.                                *)
(***************************************************************************)
EXTENDS Miner, ChainProofs, FiniteSetTheorems

---------------------------------------------------------------------------
(* Queues *)

(* What a queue holds after its front is taken off (vResurrect, vDelete). *)
LEMMA RangeTail ==
  ASSUME NEW S, NEW q \in Seq(S), q # <<>>
  PROVE  /\ Head(q) \in S /\ Tail(q) \in Seq(S)
         /\ Range(q) = {Head(q)} \cup Range(Tail(q))
<1>1. Head(q) = q[1] /\ Len(q) \in Nat \ {0} /\ 1 \in DOMAIN q OBVIOUS
<1>2. Tail(q) \in Seq(S) /\ DOMAIN Tail(q) = 1 .. (Len(q) - 1)
      /\ \A i \in 1 .. (Len(q) - 1) : Tail(q)[i] = q[i + 1]
  OBVIOUS
<1>3. Range(q) \subseteq {Head(q)} \cup Range(Tail(q))
  <2>1. ASSUME NEW i \in DOMAIN q, i # 1 PROVE q[i] \in Range(Tail(q))
    <3>1. i - 1 \in 1 .. (Len(q) - 1) BY <1>1, <2>1
    <3>2. Tail(q)[i - 1] = q[i] BY <1>2, <3>1
    <3> QED BY <1>2, <3>1, <3>2 DEF Range
  <2> QED BY <1>1, <2>1 DEF Range
<1>4. Range(Tail(q)) \subseteq Range(q)
  <2>1. ASSUME NEW i \in DOMAIN Tail(q) PROVE Tail(q)[i] \in Range(q)
    <3>1. i + 1 \in DOMAIN q BY <1>1, <1>2, <2>1
    <3> QED BY <1>2, <2>1, <3>1 DEF Range
  <2> QED BY <2>1 DEF Range
<1>5. Head(q) \in Range(q) BY <1>1 DEF Range
<1> QED BY <1>1, <1>2, <1>3, <1>4, <1>5

(* What two queues hold together. *)
LEMMA RangeConcat ==
  ASSUME NEW S, NEW p \in Seq(S), NEW q \in Seq(S)
  PROVE  p \o q \in Seq(S) /\ Range(p \o q) = Range(p) \cup Range(q)
<1>1. p \o q \in Seq(S) /\ DOMAIN (p \o q) = 1 .. (Len(p) + Len(q))
      /\ DOMAIN p = 1 .. Len(p) /\ DOMAIN q = 1 .. Len(q) /\ Len(p) \in Nat /\ Len(q) \in Nat
      /\ \A i \in 1 .. (Len(p) + Len(q)) :
           (p \o q)[i] = IF i <= Len(p) THEN p[i] ELSE q[i - Len(p)]
  OBVIOUS
<1>2. Range(p \o q) \subseteq Range(p) \cup Range(q)
  <2>1. ASSUME NEW i \in 1 .. (Len(p) + Len(q)) PROVE (p \o q)[i] \in Range(p) \cup Range(q)
    <3>1. CASE i <= Len(p) BY <1>1, <3>1 DEF Range
    <3>2. CASE ~(i <= Len(p))
      <4>1. i - Len(p) \in 1 .. Len(q) BY <1>1, <3>2
      <4> QED BY <1>1, <3>2, <4>1 DEF Range
    <3> QED BY <3>1, <3>2
  <2> QED BY <1>1, <2>1 DEF Range
<1>3. Range(p) \subseteq Range(p \o q)
  <2>1. ASSUME NEW i \in 1 .. Len(p) PROVE p[i] \in Range(p \o q)
    <3>1. i \in 1 .. (Len(p) + Len(q)) /\ (p \o q)[i] = p[i] BY <1>1, <2>1
    <3> QED BY <1>1, <3>1 DEF Range
  <2> QED BY <1>1, <2>1 DEF Range
<1>4. Range(q) \subseteq Range(p \o q)
  <2>1. ASSUME NEW i \in 1 .. Len(q) PROVE q[i] \in Range(p \o q)
    <3>1. i + Len(p) \in 1 .. (Len(p) + Len(q)) /\ ~(i + Len(p) <= Len(p)) /\ (i + Len(p)) - Len(p) = i
      BY <1>1, <2>1
    <3>2. (p \o q)[i + Len(p)] = q[i] BY <1>1, <3>1
    <3> QED BY <1>1, <3>1, <3>2 DEF Range
  <2> QED BY <1>1, <2>1 DEF Range
<1> QED BY <1>1, <1>2, <1>3, <1>4

(* The empty queue holds nothing. *)
LEMMA RangeEmpty == Range(<<>>) = {} /\ \A S : <<>> \in Seq(S)
BY DEF Range

---------------------------------------------------------------------------
(* Kept *)

(* The recursion of Kept, for the first entries of a list. *)
Keeps(f, s, S, m) ==
  f = [n \in 0 .. m |-> IF n = 0 THEN <<>>
                        ELSE IF s[n] \in S THEN Append(f[n - 1], s[n]) ELSE f[n - 1]]

(* It defines a function: from the entries before m to m. *)
LEMMA KeepsExists == ASSUME NEW s, NEW S, NEW l \in Nat PROVE \E f : Keeps(f, s, S, l)
<1> DEFINE Bad == {m \in 0 .. l : ~\E f : Keeps(f, s, S, m)}
<1> SUFFICES ASSUME Bad # {} PROVE FALSE OBVIOUS
<1>1. PICK m \in Bad : \A k \in Bad : m <= k
  <2>1. Bad \in SUBSET Nat OBVIOUS
  <2> HIDE DEF Bad
  <2> QED BY <2>1, Least
<1>2. CASE m = 0
  <2> DEFINE f == [n \in 0 .. 0 |-> <<>>]
  <2>1. Keeps(f, s, S, 0) BY DEF Keeps
  <2> QED BY <1>1, <1>2, <2>1
<1>3. CASE m # 0
  <2>1. m \in Nat /\ m - 1 \in 0 .. l /\ m - 1 \notin Bad BY <1>1, <1>3
  <2>2. PICK f : Keeps(f, s, S, m - 1) BY <2>1
  <2> DEFINE last == IF s[m] \in S THEN Append(f[m - 1], s[m]) ELSE f[m - 1]
             g == [n \in 0 .. m |-> IF n = m THEN last ELSE f[n]]
  <2>3. \A n \in 0 .. (m - 1) :
          f[n] = IF n = 0 THEN <<>>
                 ELSE IF s[n] \in S THEN Append(f[n - 1], s[n]) ELSE f[n - 1]
    BY <2>2 DEF Keeps
  <2>4. ASSUME NEW n \in 0 .. m
        PROVE  g[n] = IF n = 0 THEN <<>>
                      ELSE IF s[n] \in S THEN Append(g[n - 1], s[n]) ELSE g[n - 1]
    <3>1. CASE n = m
      <4>1. g[n] = last /\ g[n - 1] = f[m - 1] /\ n # 0 BY <1>3, <2>1, <3>1
      <4> QED BY <3>1, <4>1
    <3>2. CASE n # m
      <4>1. n \in 0 .. (m - 1) /\ g[n] = f[n] /\ (n # 0 => g[n - 1] = f[n - 1])
        BY <2>1, <2>4, <3>2
      <4> QED BY <2>3, <4>1
    <3> QED BY <3>1, <3>2
  <2>5. Keeps(g, s, S, m)
    <3>1. g = [n \in 0 .. m |-> g[n]] OBVIOUS
    <3> HIDE DEF g
    <3> QED BY <2>4, <3>1 DEF Keeps
  <2> QED BY <1>1, <2>5
<1> QED BY <1>2, <1>3

(* What a list q of the members of S among the first entries of s is. *)
InOrder(q, s, S, n) ==
  /\ q \in Seq(Range(s))
  /\ Range(q) = {s[i] : i \in {j \in 1 .. n : s[j] \in S}}
  /\ \A i \in DOMAIN q : \E k \in 1 .. n :
       s[k] = q[i] /\ \A m \in 1 .. k - 1 : s[m] \in S => \E j \in 1 .. i - 1 : q[j] = s[m]
  /\ (\A i \in 1 .. n : s[i] \in S) => q = [i \in 1 .. n |-> s[i]]

(* An entry more is left out, or put at the end. *)
LEMMA InOrderStep ==
  ASSUME NEW V, NEW s \in Seq(V), NEW S, NEW n \in 1 .. Len(s), NEW q,
         InOrder(q, s, S, n - 1)
  PROVE  InOrder(IF s[n] \in S THEN Append(q, s[n]) ELSE q, s, S, n)
<1>1. n \in Nat /\ n # 0 /\ n - 1 \in Nat /\ n \in DOMAIN s /\ s[n] \in Range(s)
      /\ 1 .. n = 1 .. (n - 1) \cup {n} /\ n \notin 1 .. (n - 1)
  BY DEF Range
<1>2. q \in Seq(Range(s)) /\ Len(q) \in Nat /\ DOMAIN q = 1 .. Len(q) BY DEF InOrder
<1>3. CASE s[n] \notin S
  <2>1. {j \in 1 .. n : s[j] \in S} = {j \in 1 .. (n - 1) : s[j] \in S} BY <1>1, <1>3
  <2>2. \A i \in DOMAIN q : \E k \in 1 .. n :
          s[k] = q[i] /\ \A m \in 1 .. k - 1 : s[m] \in S => \E j \in 1 .. i - 1 : q[j] = s[m]
    BY <1>1 DEF InOrder
  <2> QED BY <1>1, <1>2, <1>3, <2>1, <2>2 DEF InOrder
<1>4. CASE s[n] \in S
  <2> DEFINE r == Append(q, s[n])
  <2>1. r \in Seq(Range(s)) /\ DOMAIN r = 1 .. (Len(q) + 1) /\ r[Len(q) + 1] = s[n]
        /\ \A i \in 1 .. Len(q) : r[i] = q[i]
    BY <1>1, <1>2
  <2>2. Range(r) = Range(q) \cup {s[n]}
    <3>1. DOMAIN r = DOMAIN q \cup {Len(q) + 1} BY <1>2, <2>1
    <3> QED BY <1>2, <2>1, <3>1 DEF Range
  <2>3. Range(r) = {s[i] : i \in {j \in 1 .. n : s[j] \in S}}
    <3>1. {j \in 1 .. n : s[j] \in S} = {j \in 1 .. (n - 1) : s[j] \in S} \cup {n} BY <1>1, <1>4
    <3> QED BY <2>2, <3>1 DEF InOrder
  <2>4. ASSUME NEW i \in DOMAIN r
        PROVE  \E k \in 1 .. n :
                 s[k] = r[i] /\ \A m \in 1 .. k - 1 : s[m] \in S => \E j \in 1 .. i - 1 : r[j] = s[m]
    <3>1. CASE i \in DOMAIN q
      <4>1. PICK k \in 1 .. (n - 1) :
              /\ s[k] = q[i]
              /\ \A m \in 1 .. k - 1 : s[m] \in S => \E j \in 1 .. i - 1 : q[j] = s[m]
        BY <3>1 DEF InOrder
      <4>2. \A j \in 1 .. i - 1 : r[j] = q[j] BY <1>2, <2>1, <3>1
      <4>3. r[i] = q[i] BY <1>2, <2>1, <3>1
      <4> QED BY <1>1, <4>1, <4>2, <4>3
    <3>2. CASE i = Len(q) + 1
      <4>1. ASSUME NEW m \in 1 .. n - 1, s[m] \in S PROVE \E j \in 1 .. i - 1 : r[j] = s[m]
        <5>1. s[m] \in Range(q) BY <4>1 DEF InOrder
        <5>2. PICK j \in DOMAIN q : q[j] = s[m] BY <5>1 DEF Range
        <5>3. j \in 1 .. i - 1 /\ r[j] = q[j] BY <1>2, <2>1, <3>2, <5>2
        <5> QED BY <5>2, <5>3
      <4>2. n \in 1 .. n /\ s[n] = r[i] BY <1>1, <2>1, <3>2
      <4> QED BY <4>1, <4>2
    <3> QED BY <1>2, <2>1, <3>1, <3>2
  <2>5. ASSUME \A i \in 1 .. n : s[i] \in S PROVE r = [i \in 1 .. n |-> s[i]]
    <3>1. q = [i \in 1 .. (n - 1) |-> s[i]] BY <1>1, <2>5 DEF InOrder
    <3>2. Len(q) = n - 1
      <4>1. DOMAIN q = 1 .. (n - 1) BY <3>1
      <4> QED BY <1>1, <1>2, <4>1
    <3> QED BY <1>1, <2>1, <3>1, <3>2
  <2>6. InOrder(r, s, S, n)
    <3> HIDE DEF r
    <3> QED BY <2>1, <2>3, <2>4, <2>5 DEF InOrder
  <2> QED BY <1>4, <2>6
<1> QED BY <1>3, <1>4

(* What the queueing loop of Reorganize and the erasing loop of SignBlock  *)
(* leave of a list.                                                        *)
LEMMA KeptIs ==
  ASSUME NEW V, NEW s \in Seq(V), NEW S
  PROVE  InOrder(Kept(s, S), s, S, Len(s))
<1> DEFINE l == Len(s)
           F == CHOOSE f : Keeps(f, s, S, l)
           Bad == {n \in 0 .. l : ~InOrder(F[n], s, S, n)}
<1>1. l \in Nat OBVIOUS
<1>2. Keeps(F, s, S, l) BY <1>1, KeepsExists
<1>3. \A n \in 0 .. l : F[n] = IF n = 0 THEN <<>>
                               ELSE IF s[n] \in S THEN Append(F[n - 1], s[n]) ELSE F[n - 1]
  <2> HIDE DEF F
  <2> QED BY <1>2 DEF Keeps
<1>4. Kept(s, S) = F[l] BY DEF Kept, Keeps
<1>5. Bad = {}
  <2> SUFFICES ASSUME Bad # {} PROVE FALSE OBVIOUS
  <2> HIDE DEF F
  <2>1. PICK n \in Bad : \A k \in Bad : n <= k
    <3>1. Bad \in SUBSET Nat BY <1>1
    <3> HIDE DEF Bad
    <3> QED BY <3>1, Least
  <2>2. CASE n = 0
    <3>1. F[0] = <<>> BY <1>1, <1>3
    <3>2. InOrder(<<>>, s, S, 0) BY RangeEmpty DEF InOrder
    <3> QED BY <2>1, <2>2, <3>1, <3>2
  <2>3. CASE n # 0
    <3>1. n \in 1 .. l /\ n - 1 \in 0 .. l /\ n - 1 \notin Bad BY <1>1, <2>1, <2>3
    <3>2. InOrder(F[n - 1], s, S, n - 1) BY <3>1
    <3>3. F[n] = IF s[n] \in S THEN Append(F[n - 1], s[n]) ELSE F[n - 1] BY <1>3, <2>1, <2>3
    <3>4. InOrder(F[n], s, S, n) BY <3>1, <3>2, <3>3, InOrderStep
    <3> QED BY <2>1, <3>4
  <2> QED BY <2>2, <2>3
<1> QED BY <1>1, <1>4, <1>5

(* The transactions Reorganize queues of a disconnected block: those it    *)
(* may put back, in the order they have in the block.                      *)
LEMMA QueuedIs ==
  \A b \in Block :
    /\ QueuedOf(b) \in Seq(Tx)
    /\ Range(QueuedOf(b)) = {t \in Txs(b) : Height[b] > TotalBlocksEstimate /\ Resurrectable(t)}
    /\ \A i \in DOMAIN QueuedOf(b) : \E n \in DOMAIN Vtx[b] :
         /\ Vtx[b][n] = QueuedOf(b)[i]
         /\ \A m \in 1 .. n - 1 :
              Resurrectable(Vtx[b][m]) => \E j \in 1 .. i - 1 : QueuedOf(b)[j] = Vtx[b][m]
<1> SUFFICES ASSUME NEW b \in Block
             PROVE  /\ QueuedOf(b) \in Seq(Tx)
                    /\ Range(QueuedOf(b))
                         = {t \in Txs(b) : Height[b] > TotalBlocksEstimate /\ Resurrectable(t)}
                    /\ \A i \in DOMAIN QueuedOf(b) : \E n \in DOMAIN Vtx[b] :
                         /\ Vtx[b][n] = QueuedOf(b)[i]
                         /\ \A m \in 1 .. n - 1 :
                              Resurrectable(Vtx[b][m]) =>
                                \E j \in 1 .. i - 1 : QueuedOf(b)[j] = Vtx[b][m]
  OBVIOUS
<1>1. CASE ~(Height[b] > TotalBlocksEstimate) BY <1>1, RangeEmpty DEF QueuedOf
<1>2. CASE Height[b] > TotalBlocksEstimate
  <2> DEFINE s == Vtx[b]
             S == {t \in Tx : Resurrectable(t)}
             q == Kept(s, S)
  <2>1. s \in Seq(Tx) /\ DOMAIN s = 1 .. Len(s) /\ Len(s) \in Nat
        /\ \A m \in DOMAIN s : s[m] \in Tx
    BY TxAssumption
  <2>2. InOrder(q, s, S, Len(s)) BY <2>1, KeptIs
  <2>3. QueuedOf(b) = q BY <1>2 DEF QueuedOf
  <2>4. q \in Seq(Tx)
    <3>1. Range(s) \subseteq Tx BY <2>1 DEF Range
    <3>2. q \in Seq(Range(s)) BY <2>2 DEF InOrder
    <3> HIDE DEF q, s
    <3> QED BY <3>1, <3>2
  <2>5. Range(q) = {t \in Txs(b) : Resurrectable(t)}
    <3>1. Range(q) = {s[i] : i \in {j \in 1 .. Len(s) : s[j] \in S}} BY <2>2 DEF InOrder
    <3> QED BY <2>1, <3>1 DEF Txs
  <2>6. ASSUME NEW i \in DOMAIN q
        PROVE  \E n \in DOMAIN s :
                 /\ s[n] = q[i]
                 /\ \A m \in 1 .. n - 1 : Resurrectable(s[m]) => \E j \in 1 .. i - 1 : q[j] = s[m]
    <3>1. PICK n \in 1 .. Len(s) :
            s[n] = q[i] /\ \A m \in 1 .. n - 1 : s[m] \in S => \E j \in 1 .. i - 1 : q[j] = s[m]
      BY <2>2 DEF InOrder
    <3>2. \A m \in 1 .. n - 1 : Resurrectable(s[m]) => s[m] \in S BY <2>1
    <3> QED BY <2>1, <3>1, <3>2
  <2> QED BY <1>2, <2>3, <2>4, <2>5, <2>6
<1> QED BY <1>1, <1>2

---------------------------------------------------------------------------
(* mapTx and mapNextTx *)

PoolMapsOK ==
  /\ mapTx \subseteq Tx
  /\ mapNextTx \in [OutPoint -> Tx \cup {NULL}]
  /\ PoolIndexed

(* remove() keeps the maps in step. *)
LEMMA EraseMaps ==
  ASSUME PoolMapsOK, NEW S, Erase(S)
  PROVE  PoolMapsOK'
<1> USE DEF PoolMapsOK
<1>1. mapTx' \subseteq Tx BY DEF Erase
<1>2. mapNextTx' \in [OutPoint -> Tx \cup {NULL}] BY DEF Erase
<1>3. ASSUME NEW o \in OutPoint, NEW t \in Tx
      PROVE  mapNextTx'[o] = t <=> t \in mapTx' /\ o \in Vin[t]
  <2>1. mapNextTx[o] = t <=> t \in mapTx /\ o \in Vin[t] BY DEF PoolIndexed
  <2>2. CASE \E u \in S \cap mapTx : o \in Vin[u]
    <3>1. PICK u \in S \cap mapTx : o \in Vin[u] BY <2>2
    <3>2. mapNextTx[o] = u BY <3>1 DEF PoolIndexed
    <3>3. mapNextTx'[o] = NULL BY <2>2 DEF Erase
    <3> QED BY <2>1, <3>1, <3>2, <3>3, NullAssumption DEF Erase
  <2>3. CASE ~\E u \in S \cap mapTx : o \in Vin[u]
    <3>1. mapNextTx'[o] = mapNextTx[o] BY <2>3 DEF Erase
    <3> QED BY <2>1, <2>3, <3>1 DEF Erase
  <2> QED BY <2>2, <2>3
<1> QED BY <1>1, <1>2, <1>3 DEF PoolIndexed

(* addUnchecked() keeps the maps in step when accept() found no input of   *)
(* the transaction in mapNextTx.                                           *)
LEMMA AddMaps ==
  ASSUME PoolMapsOK, NEW t \in Tx, NEW txdb, Eligible(t, txdb), addUnchecked(t)
  PROVE  PoolMapsOK'
<1> USE DEF PoolMapsOK
<1>1. mapTx' \subseteq Tx BY DEF addUnchecked
<1>2. mapNextTx' \in [OutPoint -> Tx \cup {NULL}] BY DEF addUnchecked
<1>3. ASSUME NEW o \in OutPoint, NEW u \in Tx
      PROVE  mapNextTx'[o] = u <=> u \in mapTx' /\ o \in Vin[u]
  <2>1. mapNextTx[o] = u <=> u \in mapTx /\ o \in Vin[u] BY DEF PoolIndexed
  <2>2. CASE o \in Vin[t]
    <3>1. mapNextTx'[o] = t /\ mapNextTx[o] = NULL BY <2>2 DEF addUnchecked, Eligible
    <3> QED BY <2>1, <2>2, <3>1, NullAssumption DEF addUnchecked
  <2>3. CASE o \notin Vin[t]
    <3>1. mapNextTx'[o] = mapNextTx[o] BY <2>3 DEF addUnchecked
    <3> QED BY <2>1, <2>3, <3>1 DEF addUnchecked
  <2> QED BY <2>2, <2>3
<1> QED BY <1>1, <1>2, <1>3 DEF PoolIndexed

(* remove(t, true) takes every child of what it takes. *)
LEMMA DescendantsClosed ==
  ASSUME PoolMapsOK, NEW c, NEW p \in Descendants(c), NEW t \in mapTx,
         NEW o \in Vin[t], o[1] = p, o[2] < NOut[o[1]]
  PROVE  t \in Descendants(c)
<1>1. c \in mapTx /\ p \in mapTx BY DEF Descendants
<1>2. o \in OutPoint /\ mapNextTx[o] = t /\ t # NULL
  BY NullAssumption DEF OutPoint, PoolMapsOK, PoolIndexed
<1>3. ASSUME NEW S \in SUBSET mapTx, c \in S, ClosedBelow(S) PROVE t \in S
  <2>1. p \in S BY <1>1, <1>3 DEF Descendants
  <2> QED BY <1>2, <1>3, <2>1 DEF ClosedBelow
<1> QED BY <1>1, <1>3 DEF Descendants
---------------------------------------------------------------------------
(* Orphans *)

OrphansOK ==
  /\ mapOrphanTransactions \subseteq Tx
  /\ IsFiniteSet(mapOrphanTransactions)
  /\ OrphansIndexed

(* The index of a set of transactions is a map of sets of transactions. *)
LEMMA ByPrevType == ASSUME NEW S \in SUBSET Tx PROVE ByPrev(S) \in [Tx -> SUBSET Tx]
BY DEF ByPrev

(* AddOrphanTx followed by LimitOrphanTxSize. *)
LEMMA AddOrphanOK ==
  ASSUME OrphansOK, NEW t \in Tx, AddOrphanTx(t)
  PROVE  OrphansOK'
<1> DEFINE new == mapOrphanTransactions \cup {t}
           added == [p \in Tx |-> mapOrphanTransactionsByPrev[p]
                                   \cup IF p \in Prevs(t) THEN {t} ELSE {}]
<1>1. PICK kept \in LimitOrphanTxSize(new) :
        /\ mapOrphanTransactions' = kept
        /\ mapOrphanTransactionsByPrev' =
             [p \in Tx |-> added[p] \ {h \in new \ kept : p \in Prevs(h)}]
  BY DEF AddOrphanTx
<1>2. IsFiniteSet(new) /\ new \subseteq Tx BY FS_AddElement DEF OrphansOK
<1>3. kept \subseteq new /\ Cardinality(kept) <= MaxOrphans
  <2>1. MaxOrphans \in Nat /\ Cardinality(new) \in Nat BY <1>2, FS_CardinalityType, PoolAssumption
  <2>2. CASE Cardinality(new) > MaxOrphans
    <3>1. kept \in kSubset(MaxOrphans, new) BY <1>1, <2>2 DEF LimitOrphanTxSize
    <3> QED BY <2>1, <3>1 DEF kSubset
  <2>3. CASE ~(Cardinality(new) > MaxOrphans)
    BY <1>1, <2>1, <2>3 DEF LimitOrphanTxSize
  <2> QED BY <2>2, <2>3
<1>4. IsFiniteSet(kept) BY <1>2, <1>3, FS_Subset
<1>5. mapOrphanTransactionsByPrev' = ByPrev(kept)
  <2>1. \A p \in Tx : mapOrphanTransactionsByPrev[p] = {h \in mapOrphanTransactions : p \in Prevs(h)}
    BY DEF OrphansOK, OrphansIndexed, ByPrev
  <2>2. \A p \in Tx : added[p] = {h \in new : p \in Prevs(h)} BY <2>1
  <2>3. \A p \in Tx : added[p] \ {h \in new \ kept : p \in Prevs(h)} = {h \in kept : p \in Prevs(h)}
    BY <1>3, <2>2
  <2> QED BY <1>1, <2>3 DEF ByPrev
<1> QED BY <1>1, <1>2, <1>3, <1>4, <1>5 DEF OrphansOK, OrphansIndexed

(* EraseOrphanTx. *)
LEMMA EraseOrphanOK ==
  ASSUME OrphansOK, NEW S, EraseOrphanTx(S)
  PROVE  OrphansOK'
<1> DEFINE kept == mapOrphanTransactions \ S
<1>1. mapOrphanTransactions' = kept /\ kept \subseteq mapOrphanTransactions BY DEF EraseOrphanTx
<1>2. IsFiniteSet(kept) /\ Cardinality(kept) <= Cardinality(mapOrphanTransactions)
  BY <1>1, FS_Subset DEF OrphansOK
<1>3. Cardinality(kept) \in Nat /\ Cardinality(mapOrphanTransactions) \in Nat
  BY <1>2, FS_CardinalityType DEF OrphansOK
<1>4. Cardinality(kept) <= MaxOrphans
  BY <1>2, <1>3, PoolAssumption DEF OrphansOK, OrphansIndexed
<1>5. mapOrphanTransactionsByPrev' = ByPrev(kept)
  <2>1. \A p \in Tx : mapOrphanTransactionsByPrev[p] = {h \in mapOrphanTransactions : p \in Prevs(h)}
    BY DEF OrphansOK, OrphansIndexed, ByPrev
  <2>2. \A p \in Tx : mapOrphanTransactionsByPrev[p]
                          \ {h \in S \cap mapOrphanTransactions : p \in Prevs(h)}
                       = {h \in kept : p \in Prevs(h)}
    BY <2>1
  <2> QED BY <2>2 DEF EraseOrphanTx, ByPrev
<1> QED BY <1>1, <1>2, <1>4, <1>5 DEF OrphansOK, OrphansIndexed

---------------------------------------------------------------------------
(* The chain under the pool *)

(* Every step of the node is a step of the chain or leaves it alone. *)
LEMMA ChainSteps == ASSUME [NodeNext]_nodeVars PROVE [Next]_vars
<1>1. CASE NodeNext
  BY <1>1 DEF NodeNext, NodeStep, QuietStep, NodeAcceptBlock, NodeConnectTip, NodeConnectSecondary,
     NodeReorgDisconnect, NodeReorgConnect, NodeReorgFails, NodeReorgCommit, Resurrect,
     ResurrectFails, DeleteRedundant, HandleTx, ReceiveTx, NodeRestart, Next, Step
<1>2. CASE UNCHANGED nodeVars BY <1>2 DEF nodeVars
<1> QED BY <1>1, <1>2

ChainOK == TypeOK /\ Positions /\ LinksInv

(* The chain's own invariants hold under the pool. *)
LEMMA ChainOKStep ==
  /\ NodeInit => ChainOK
  /\ ChainOK /\ [NodeNext]_nodeVars => ChainOK'
<1>1. ASSUME NodeInit PROVE ChainOK BY <1>1, TypeInit DEF NodeInit, Init, ChainOK, LinksInv
<1>2. ASSUME ChainOK, [NodeNext]_nodeVars PROVE ChainOK'
  BY <1>2, ChainSteps, TypeStep, PositionsStep, LinksStep DEF ChainOK
<1> QED BY <1>1, <1>2

---------------------------------------------------------------------------
(* The pool's invariant, step by step *)

QueuesOK ==
  /\ vWorkQueue \in Seq(Tx) /\ vTry \subseteq Tx /\ vEraseQueue \subseteq Tx
  /\ brought \subseteq Tx
  /\ vResurrect \in Seq(Tx) /\ vDelete \in Seq(Tx)
  /\ lost \subseteq Tx

MapsInv == PoolMapsOK /\ OrphansOK /\ QueuesOK

(* The maps, the orphans and the queues: initially, ... *)
LEMMA MapsInit == ASSUME NodeInit PROVE MapsInv
<1>1. PoolMapsOK BY NullAssumption DEF NodeInit, PoolInit, PoolMapsOK, PoolIndexed
<1>2. OrphansOK
  <2>1. IsFiniteSet({}) /\ Cardinality({}) = 0 BY FS_EmptySet
  <2>2. ByPrev({}) = [t \in Tx |-> {}] BY DEF ByPrev
  <2> QED BY <2>1, <2>2, PoolAssumption DEF NodeInit, PoolInit, OrphansOK, OrphansIndexed
<1>3. QueuesOK BY DEF NodeInit, PoolInit, QueuesOK
<1> QED BY <1>1, <1>2, <1>3 DEF MapsInv

(* ... and after every step. *)
LEMMA MapsStep ==
  ASSUME ChainOK, MapsInv, [NodeNext]_nodeVars
  PROVE  MapsInv'
<1>1. PoolMapsOK /\ OrphansOK /\ QueuesOK /\ TypeOK /\ Positions BY DEF MapsInv, ChainOK
<1>2. ASSUME UNCHANGED <<mapTx, mapNextTx>> PROVE PoolMapsOK'
  BY <1>1, <1>2 DEF PoolMapsOK, PoolIndexed
<1>3. ASSUME UNCHANGED orphanVars PROVE OrphansOK'
  BY <1>1, <1>3 DEF OrphansOK, OrphansIndexed, orphanVars
<1>4. ASSUME UNCHANGED <<queueVars, reorgVars, lost>> PROVE QueuesOK'
  BY <1>1, <1>4 DEF QueuesOK, queueVars, reorgVars
<1>5. ASSUME UNCHANGED <<poolVars, reorgVars, lost>> PROVE MapsInv'
  BY <1>2, <1>3, <1>4, <1>5 DEF poolVars, MapsInv
<1>6. ASSUME NodeConnectTip \/ NodeConnectSecondary PROVE MapsInv'
  <2>1. (\E S : Erase(S)) /\ UNCHANGED <<orphanVars, queueVars, reorgVars, lost>>
    BY <1>6 DEF NodeConnectTip, NodeConnectSecondary
  <2>2. PoolMapsOK' BY <1>1, <2>1, EraseMaps
  <2> QED BY <1>3, <1>4, <2>1, <2>2 DEF MapsInv
<1>7. ASSUME UNCHANGED poolVars, UNCHANGED queueVars, vResurrect' \in Seq(Tx), vDelete' \in Seq(Tx), lost' \subseteq Tx
      PROVE  MapsInv'
  BY <1>1, <1>2, <1>3, <1>7 DEF poolVars, queueVars, MapsInv, QueuesOK
<1>8. ASSUME NodeReorgDisconnect PROVE MapsInv'
  <2>1. QueuedOf(pindex) \in Seq(Tx) BY <1>1, QueuedIs DEF TypeOK
  <2>2. vResurrect' \in Seq(Tx) BY <1>1, <1>8, <2>1, RangeConcat DEF NodeReorgDisconnect, QueuesOK
  <2> QED BY <1>1, <1>7, <1>8, <2>2 DEF NodeReorgDisconnect, QueuesOK, poolVars
<1>9. ASSUME NodeReorgConnect PROVE MapsInv'
  <2>1. NextOn(pindex, pindexInter) \in Block
    BY <1>1, <1>9, NextOnIs DEF NodeReorgConnect, ReorgConnect, TypeOK
  <2>2. Vtx[NextOn(pindex, pindexInter)] \in Seq(Tx) BY <2>1, TxAssumption
  <2>3. vDelete' \in Seq(Tx) BY <1>1, <1>9, <2>2, RangeConcat DEF NodeReorgConnect, QueuesOK
  <2> QED BY <1>1, <1>7, <1>9, <2>3 DEF NodeReorgConnect, QueuesOK, poolVars
<1>10. ASSUME NodeReorgFails PROVE MapsInv'
  BY <1>1, <1>7, <1>10 DEF NodeReorgFails, QueuesOK, poolVars
<1>11. ASSUME NodeReorgCommit PROVE MapsInv'
  <2>1. \A b \in Chain[pindexBest] : Txs(b) \subseteq Tx
    <3>1. ASSUME NEW b \in Chain[pindexBest] PROVE Txs(b) \subseteq Tx
      <4>1. b \in Block BY <1>1, TreeAssumption DEF TypeOK
      <4>2. Vtx[b] \in Seq(Tx) BY <4>1, TxAssumption
      <4>3. \A i \in DOMAIN Vtx[b] : Vtx[b][i] \in Tx BY <4>2
      <4> QED BY <4>3 DEF Txs
    <3> QED BY <3>1
  <2>2. lost' \subseteq Tx BY <1>1, <1>11, <2>1 DEF NodeReorgCommit, QueuesOK, Dropped
  <2> QED BY <1>1, <1>7, <1>11, <2>2 DEF NodeReorgCommit, QueuesOK, poolVars, reorgVars
<1>12. ASSUME NEW t \in Tx, NEW txdb, NEW best, Acceptable(t, txdb, best), addUnchecked(t)
       PROVE  PoolMapsOK'
  BY <1>1, <1>12, AddMaps DEF Acceptable
<1>13. ASSUME Resurrect PROVE MapsInv'
  <2>1. Head(vResurrect) \in Tx /\ Tail(vResurrect) \in Seq(Tx)
    BY <1>1, <1>13, RangeTail DEF Resurrect, QueuesOK
  <2>2. PoolMapsOK' BY <1>12, <1>13, <2>1 DEF Resurrect
  <2>3. QueuesOK' BY <1>1, <1>13, <2>1 DEF Resurrect, QueuesOK, queueVars
  <2> QED BY <1>3, <1>13, <2>2, <2>3 DEF Resurrect, MapsInv
<1>14. ASSUME ResurrectFails PROVE MapsInv'
  <2>1. Head(vResurrect) \in Tx /\ Tail(vResurrect) \in Seq(Tx)
    BY <1>1, <1>14, RangeTail DEF ResurrectFails, QueuesOK
  <2> QED BY <1>1, <1>7, <1>14, <2>1 DEF ResurrectFails, QueuesOK, poolVars
<1>15. ASSUME DeleteRedundant PROVE MapsInv'
  <2>1. Tail(vDelete) \in Seq(Tx) BY <1>1, <1>15, RangeTail DEF DeleteRedundant, QueuesOK
  <2>2. PoolMapsOK' BY <1>1, <1>15, EraseMaps DEF DeleteRedundant, removeConfirmed
  <2>3. QueuesOK' BY <1>1, <1>15, <2>1 DEF DeleteRedundant, QueuesOK, queueVars
  <2> QED BY <1>3, <1>15, <2>2, <2>3 DEF DeleteRedundant, MapsInv
<1>16. ASSUME NEW t \in Tx, ReceiveTx(t) PROVE MapsInv'
  <2>1. CASE TxAccepted(t, dbTx, pindexBest)
    <3>1. PoolMapsOK' BY <1>12, <2>1 DEF TxAccepted
    <3>2. QueuesOK' BY <1>1, <1>16, <2>1 DEF ReceiveTx, TxAccepted, QueuesOK, reorgVars
    <3> QED BY <1>3, <2>1, <3>1, <3>2 DEF TxAccepted, MapsInv
  <2>2. CASE TxOrphaned(t, dbTx)
    <3>1. OrphansOK' BY <1>1, <2>2, AddOrphanOK DEF TxOrphaned
    <3> QED BY <1>2, <1>4, <1>16, <2>2, <3>1 DEF TxOrphaned, ReceiveTx, MapsInv
  <2>3. CASE AcceptToMemoryPool(t, dbTx, pindexBest)
    <3>1. PoolMapsOK' BY <1>12, <2>3 DEF AcceptToMemoryPool
    <3> QED BY <1>3, <1>4, <1>16, <2>3, <3>1 DEF AcceptToMemoryPool, ReceiveTx, MapsInv
  <2> QED BY <1>16, <2>1, <2>2, <2>3 DEF ReceiveTx
<1>17. ASSUME HandleTx PROVE MapsInv'
  <2>1. CASE NextWork
    <3>1. Head(vWorkQueue) \in Tx /\ Tail(vWorkQueue) \in Seq(Tx)
      BY <1>1, <2>1, RangeTail DEF NextWork, QueuesOK
    <3>2. mapOrphanTransactionsByPrev \in [Tx -> SUBSET Tx]
      BY <1>1, ByPrevType DEF OrphansOK, OrphansIndexed
    <3>3. QueuesOK' BY <1>1, <1>17, <2>1, <3>1, <3>2 DEF HandleTx, NextWork, QueuesOK, reorgVars
    <3> QED BY <1>2, <1>3, <2>1, <3>3 DEF NextWork, MapsInv
  <2>2. CASE \E t \in Tx : OrphanAccepted(t, dbTx, pindexBest)
    <3>1. PICK t \in Tx : OrphanAccepted(t, dbTx, pindexBest) BY <2>2
    <3>2. PoolMapsOK' BY <1>12, <3>1 DEF OrphanAccepted
    <3>3. QueuesOK' BY <1>1, <1>17, <3>1 DEF HandleTx, OrphanAccepted, QueuesOK, reorgVars
    <3> QED BY <1>3, <3>1, <3>2, <3>3 DEF OrphanAccepted, MapsInv
  <2>3. CASE \E t \in Tx : OrphanRefused(t, dbTx, pindexBest)
    <3>1. PICK t \in Tx : OrphanRefused(t, dbTx, pindexBest) BY <2>3
    <3>2. QueuesOK' BY <1>1, <1>17, <3>1 DEF HandleTx, OrphanRefused, QueuesOK, reorgVars
    <3> QED BY <1>2, <1>3, <3>1, <3>2 DEF OrphanRefused, MapsInv
  <2>4. CASE EraseOrphans
    <3>1. OrphansOK' BY <1>1, <2>4, EraseOrphanOK DEF EraseOrphans
    <3>2. QueuesOK' BY <1>1, <1>17, <2>4 DEF HandleTx, EraseOrphans, QueuesOK, reorgVars
    <3> QED BY <1>2, <2>4, <3>1, <3>2 DEF EraseOrphans, MapsInv
  <2> QED BY <1>17, <2>1, <2>2, <2>3, <2>4 DEF HandleTx, HandlerStep
<1>18. ASSUME NodeRestart PROVE MapsInv'
  <2>1. PoolMapsOK' BY <1>18, NullAssumption DEF NodeRestart, PoolRestart, PoolMapsOK, PoolIndexed
  <2>2. OrphansOK'
    <3>1. IsFiniteSet({}) /\ Cardinality({}) = 0 BY FS_EmptySet
    <3>2. ByPrev({}) = [t \in Tx |-> {}] BY DEF ByPrev
    <3> QED BY <1>18, <3>1, <3>2, PoolAssumption DEF NodeRestart, PoolRestart, OrphansOK, OrphansIndexed
  <2>3. QueuesOK' BY <1>18 DEF NodeRestart, PoolRestart, QueuesOK
  <2> QED BY <2>1, <2>2, <2>3 DEF MapsInv
<1>19. ASSUME UNCHANGED nodeVars PROVE MapsInv' BY <1>5, <1>19 DEF nodeVars
<1>20. ASSUME QuietStep \/ \E b \in Block : NodeAcceptBlock(b) PROVE MapsInv'
  BY <1>5, <1>20 DEF QuietStep, NodeAcceptBlock
<1> QED BY <1>6, <1>8, <1>9, <1>10, <1>11, <1>13, <1>14, <1>15, <1>16, <1>17, <1>18, <1>19, <1>20
        DEF NodeNext, NodeStep

(* Every variable of the pool keeps its type. *)
THEOREM NodeTyping == NodeSpec => []NodeTypeOK
<1>1. NodeInit => ChainOK /\ MapsInv BY ChainOKStep, MapsInit
<1>2. (ChainOK /\ MapsInv) /\ [NodeNext]_nodeVars => (ChainOK /\ MapsInv)' BY ChainOKStep, MapsStep
<1>3. MapsInv => NodeTypeOK
  BY ByPrevType DEF MapsInv, PoolMapsOK, OrphansOK, OrphansIndexed, QueuesOK, NodeTypeOK, PoolTypeOK
<1> QED BY <1>1, <1>2, <1>3, PTL DEF NodeSpec

(* mapNextTx names exactly the inputs of the pool's transactions, so no    *)
(* output is spent twice within the pool, and the orphan index is exact    *)
(* and the store bounded, for every limit.                                 *)
THEOREM PoolMapsAgree == NodeSpec => []MapsAgree
<1>1. NodeInit => ChainOK /\ MapsInv BY ChainOKStep, MapsInit
<1>2. (ChainOK /\ MapsInv) /\ [NodeNext]_nodeVars => (ChainOK /\ MapsInv)' BY ChainOKStep, MapsStep
<1>3. MapsInv => MapsAgree BY DEF MapsInv, PoolMapsOK, OrphansOK, MapsAgree
<1> QED BY <1>1, <1>2, <1>3, PTL DEF NodeSpec
---------------------------------------------------------------------------
(* Confirmed and lost transactions *)

(* Which transactions ConnectBlock leaves in the index. *)
LEMMA ConnectPresence ==
  ASSUME NEW s, TxIndexType(s), NEW b \in Block, NEW t \in Tx
  PROVE  ConnectBlock(s, b)[t] # NULL <=> t \in Txs(b) \/ s[t] # NULL
<1>1. \A o : SpenderIn(b, o) \in Tx \cup {NULL} BY SpenderType
<1>2. CASE t \in Txs(b)
  <2>1. ConnectBlock(s, b)[t] \in CTxIndex(t) BY <1>1, <1>2 DEF ConnectBlock, CTxIndex
  <2> QED BY <1>2, <2>1, NullIndexAssumption
<1>3. CASE t \notin Txs(b) /\ s[t] = NULL BY <1>3 DEF ConnectBlock
<1>4. CASE t \notin Txs(b) /\ s[t] # NULL
  <2>1. s[t] \in CTxIndex(t) BY <1>4 DEF TxIndexType
  <2>2. ConnectBlock(s, b)[t] \in CTxIndex(t) BY <1>1, <1>4, <2>1 DEF ConnectBlock, CTxIndex
  <2> QED BY <1>4, <2>2, NullIndexAssumption
<1> QED BY <1>2, <1>3, <1>4

(* Which transactions DisconnectBlock takes from it. *)
LEMMA DisconnectPresence ==
  ASSUME NEW s, TxIndexType(s), NEW b \in Block, NEW t \in Tx
  PROVE  DisconnectBlock(s, b)[t] = NULL <=> t \in Txs(b) \/ s[t] = NULL
<1>1. CASE t \in Txs(b) \/ s[t] = NULL BY <1>1 DEF DisconnectBlock
<1>2. CASE ~(t \in Txs(b) \/ s[t] = NULL)
  <2>1. s[t] \in CTxIndex(t) BY <1>2 DEF TxIndexType
  <2>2. DisconnectBlock(s, b)[t] \in CTxIndex(t) BY <1>2, <2>1 DEF DisconnectBlock, CTxIndex
  <2> QED BY <1>2, <2>2, NullIndexAssumption
<1> QED BY <1>1, <1>2

(* accept() only takes outputs that exist. *)
InRange == \A t \in mapTx : \A o \in Vin[t] : o[2] < NOut[o[1]]

(* When the queues can be in use. *)
Phases ==
  /\ pc \notin {"reorg", "secondary"} => vResurrect = <<>> /\ vDelete = <<>>
  /\ pc = "reorg" /\ pindex \notin Chain[pindexInter] => vDelete = <<>>
  /\ ~HandlerIdle => pc = "idle"

(* How the batch of a reorganisation differs from what is committed. *)
DroppedHere(t) == \E b \in Chain[pindexBest] \ Chain[pindexInter] : t \in Dropped(b)
Pending ==
  pc = "reorg" => \A t \in Tx :
    /\ batchTx[t] # NULL => dbTx[t] # NULL \/ t \in Deleting
    /\ t \in Deleting => batchTx[t] # NULL
    /\ dbTx[t] # NULL /\ batchTx[t] = NULL => t \in Resurrecting \/ DroppedHere(t)

DeletingConfirmed == pc = "secondary" => \A t \in Deleting : dbTx[t] # NULL

PoolInv == InRange /\ Phases /\ Pending /\ DeletingConfirmed /\ NoneConfirmed /\ ConnectedOrLost

(* The transactions of a block are transactions. *)
LEMMA TxsType == ASSUME NEW b \in Block PROVE Txs(b) \subseteq Tx
<1>1. Vtx[b] \in Seq(Tx) BY TxAssumption
<1> QED BY <1>1 DEF Txs

(* PoolInv while Reorganize builds its batch. *)
LEMMA BatchStep ==
  ASSUME ChainOK, MapsInv, PoolInv, NodeReorgDisconnect \/ NodeReorgConnect
  PROVE  PoolInv'
<1>1. TypeOK /\ QueuesOK /\ TxIndexType(batchTx) /\ pindex \in Block /\ pindexInter \in Block
  BY DEF ChainOK, MapsInv, TypeOK
<1>2. InRange /\ Phases /\ Pending /\ NoneConfirmed /\ ConnectedOrLost BY DEF PoolInv
<1>3. /\ pc = "reorg" /\ pc' = "reorg"
      /\ UNCHANGED <<mapTx, lost, vWorkQueue, vTry, vEraseQueue, dbTx, pindexBest, pindexInter>>
  BY DEF NodeReorgDisconnect, NodeReorgConnect, ReorgDisconnect, ReorgConnect, poolVars, queueVars,
         memVars, dbVars
<1>4. InRange' BY <1>2, <1>3 DEF InRange
<1>5. NoneConfirmed' BY <1>2, <1>3 DEF NoneConfirmed
<1>6. ConnectedOrLost' BY <1>2, <1>3 DEF ConnectedOrLost
<1>7. DeletingConfirmed' BY <1>3 DEF DeletingConfirmed
<1>8. HandlerIdle' BY <1>2, <1>3 DEF Phases, HandlerIdle
<1>9. CASE NodeReorgDisconnect
  <2>1. /\ vDelete = <<>> /\ vDelete' = vDelete
        /\ pindex \notin Chain[pindexInter]
        /\ batchTx' = DisconnectBlock(batchTx, pindex)
        /\ vResurrect' = QueuedOf(pindex) \o vResurrect
    BY <1>2, <1>9 DEF NodeReorgDisconnect, ReorgDisconnect, Phases
  <2>2. Phases' BY <1>3, <1>8, <2>1 DEF Phases
  <2>3. Resurrecting' = Range(QueuedOf(pindex)) \cup Resurrecting
    BY <1>1, <2>1, QueuedIs, RangeConcat DEF QueuesOK, Resurrecting
  <2>4. pindex \in Chain[pindexBest] \ Chain[pindexInter]
    BY <1>3, <2>1 DEF ChainOK, Positions
  <2>5. \A t \in Txs(pindex) : t \in Range(QueuedOf(pindex)) \/ t \in Dropped(pindex)
    <3>1. Range(QueuedOf(pindex))
            = {t \in Txs(pindex) : Height[pindex] > TotalBlocksEstimate /\ Resurrectable(t)}
      BY <1>1, QueuedIs
    <3>2. Height[pindex] \in Nat /\ TotalBlocksEstimate \in Nat
      BY <1>1, TreeAssumption, EstimateAssumption
    <3> QED BY <3>1, <3>2 DEF Dropped
  <2>6. Deleting' = {} /\ Deleting = {} BY <2>1, RangeEmpty DEF Deleting
  <2>7. Pending'
    <3>1. ASSUME NEW t \in Tx
          PROVE  /\ batchTx'[t] # NULL => dbTx'[t] # NULL \/ t \in Deleting'
                 /\ t \in Deleting' => batchTx'[t] # NULL
                 /\ dbTx'[t] # NULL /\ batchTx'[t] = NULL => t \in Resurrecting' \/ DroppedHere(t)'
      <4>1. batchTx'[t] = NULL <=> t \in Txs(pindex) \/ batchTx[t] = NULL
        BY <1>1, <2>1, DisconnectPresence
      <4>2. DroppedHere(t)' <=> DroppedHere(t) BY <1>3 DEF DroppedHere, Dropped
      <4>3. t \in Dropped(pindex) => DroppedHere(t) BY <2>4 DEF DroppedHere
      <4> QED BY <1>2, <1>3, <2>3, <2>5, <2>6, <4>1, <4>2, <4>3 DEF Pending
    <3> QED BY <3>1 DEF Pending
  <2> QED BY <1>4, <1>5, <1>6, <1>7, <2>2, <2>7 DEF PoolInv
<1>10. CASE NodeReorgConnect
  <2> DEFINE b == NextOn(pindex, pindexInter)
  <2>1. /\ batchTx' = ConnectBlock(batchTx, b)
        /\ vDelete' = vDelete \o Vtx[b] /\ vResurrect' = vResurrect
        /\ pindex' = b /\ pindex \in Chain[pindexInter] /\ pindex # pindexInter
    BY <1>10 DEF NodeReorgConnect, ReorgConnect
  <2>2. b \in Block /\ b \in Chain[pindexInter] BY <1>1, <2>1, NextOnIs
  <2>3. Phases' BY <1>3, <1>8, <2>1, <2>2 DEF Phases
  <2>4. Vtx[b] \in Seq(Tx) BY <2>2, TxAssumption
  <2>5. Deleting' = Deleting \cup Txs(b)
    <3>1. Deleting' = Deleting \cup Range(Vtx[b])
      BY <1>1, <2>1, <2>4, RangeConcat DEF QueuesOK, Deleting
    <3> QED BY <3>1 DEF Range, Txs
  <2>6. Resurrecting' = Resurrecting BY <2>1 DEF Resurrecting
  <2>7. Pending'
    <3>1. ASSUME NEW t \in Tx
          PROVE  /\ batchTx'[t] # NULL => dbTx'[t] # NULL \/ t \in Deleting'
                 /\ t \in Deleting' => batchTx'[t] # NULL
                 /\ dbTx'[t] # NULL /\ batchTx'[t] = NULL => t \in Resurrecting' \/ DroppedHere(t)'
      <4>1. batchTx'[t] # NULL <=> t \in Txs(b) \/ batchTx[t] # NULL
        BY <1>1, <2>1, <2>2, ConnectPresence
      <4>2. DroppedHere(t)' <=> DroppedHere(t) BY <1>3 DEF DroppedHere, Dropped
      <4> QED BY <1>2, <1>3, <2>5, <2>6, <4>1, <4>2 DEF Pending
    <3> QED BY <3>1 DEF Pending
  <2> QED BY <1>4, <1>5, <1>6, <1>7, <2>3, <2>7 DEF PoolInv
<1> QED BY <1>9, <1>10

(* accept() brings in a transaction that has its inputs and is in no block. *)
LEMMA AcceptStep ==
  ASSUME PoolInv, NEW t \in Tx, Acceptable(t, dbTx, pindexBest), addUnchecked(t), pc # "reorg"
  PROVE  /\ \A u \in mapTx' : \A o \in Vin[u] : o[2] < NOut[o[1]]
         /\ \A u \in mapTx' : u \in mapTx \/ dbTx[u] = NULL
         /\ \A u \in mapTx' : \A p \in Prevs(u) :
              u \in mapTx \/ dbTx[p] # NULL \/ p \in mapTx
         /\ mapTx \subseteq mapTx' /\ t \in mapTx'
<1>1. mapTx' = mapTx \cup {t} BY DEF addUnchecked
<1>2. InRange BY DEF PoolInv
<1>3. \A o \in Vin[t] : o[2] < NOut[o[1]] BY DEF Acceptable, Spendable
<1>4. dbTx[t] = NULL /\ \A p \in Prevs(t) : dbTx[p] # NULL \/ p \in mapTx
  BY DEF Acceptable, Eligible, HaveInputs
<1> QED BY <1>1, <1>2, <1>3, <1>4 DEF InRange

(* The parents of a transaction are transactions. *)
LEMMA PrevsType == ASSUME NEW t \in Tx PROVE \A p \in Prevs(t) : p \in Tx
BY TxAssumption DEF Prevs

(* PoolInv is kept by every other step. *)
LEMMA PoolStep ==
  ASSUME ChainOK, MapsInv, PoolInv, [NodeNext]_nodeVars
  PROVE  PoolInv'
<1>1. TypeOK /\ LinksInv /\ PoolMapsOK /\ QueuesOK /\ TxIndexType(dbTx) /\ mapTx \subseteq Tx
  BY DEF ChainOK, MapsInv, TypeOK, PoolMapsOK
<1>2. InRange /\ Phases /\ Pending /\ DeletingConfirmed /\ NoneConfirmed /\ ConnectedOrLost
  BY DEF PoolInv
<1>3. pc # "idle" => HandlerIdle BY <1>2 DEF Phases
<1>4. PoolSettled => Resurrecting = {} /\ Deleting = {}
  BY RangeEmpty DEF PoolSettled, Resurrecting, Deleting
<1>5. pc \notin {"reorg", "secondary"} => PoolSettled BY <1>2 DEF Phases, PoolSettled
<1>6. ASSUME PoolSettled, HandlerIdle, UNCHANGED <<poolVars, reorgVars, lost>>, dbTx' = dbTx,
             pc' # "secondary", pc' = "reorg" => batchTx' = dbTx'
      PROVE  PoolInv'
  <2>1. UNCHANGED <<mapTx, lost, vResurrect, vDelete, vWorkQueue, vTry, vEraseQueue>>
    BY <1>6 DEF poolVars, queueVars, reorgVars
  <2>2. InRange' BY <1>2, <2>1 DEF InRange
  <2>3. Phases' BY <1>6, <2>1 DEF Phases, PoolSettled, HandlerIdle
  <2>4. Deleting' = {} BY <1>4, <1>6, <2>1 DEF Deleting
  <2>5. Pending' BY <1>6, <2>4 DEF Pending
  <2>6. DeletingConfirmed' BY <2>4 DEF DeletingConfirmed
  <2>7. NoneConfirmed' BY <1>2, <1>4, <1>6, <2>1 DEF NoneConfirmed
  <2>8. ConnectedOrLost' BY <1>2, <1>4, <1>6, <2>1 DEF ConnectedOrLost
  <2> QED BY <2>2, <2>3, <2>5, <2>6, <2>7, <2>8 DEF PoolInv
<1>7. ASSUME QuietStep PROVE PoolInv'
  <2>1. UNCHANGED <<poolVars, reorgVars, lost>> BY <1>7 DEF QuietStep
  <2>2. CASE ConnectTipFails
    BY <1>3, <1>5, <1>6, <2>1, <2>2 DEF ConnectTipFails, Return, dbVars
  <2>3. CASE Postpone BY <1>3, <1>5, <1>6, <2>1, <2>3 DEF Postpone, dbVars
  <2>4. CASE Reorganize
    <3>1. batchTx = dbTx BY <1>1, <2>4 DEF LinksInv, Reorganize
    <3> QED BY <1>3, <1>5, <1>6, <2>1, <2>4, <3>1 DEF Reorganize, dbVars
  <2>5. CASE PoolSettled /\ (SecondaryFails \/ NewBest)
    BY <1>3, <1>6, <2>1, <2>5 DEF SecondaryFails, NewBest, Return, dbVars
  <2> QED BY <1>7, <2>2, <2>3, <2>4, <2>5 DEF QuietStep
<1>8. ASSUME NEW b \in Block, NodeAcceptBlock(b) PROVE PoolInv'
  <2>1. /\ HandlerIdle /\ pc = "idle" /\ pc' \in {"idle", "tip", "walk"} /\ dbTx' = dbTx
        /\ UNCHANGED <<poolVars, reorgVars, lost>>
    BY <1>8 DEF NodeAcceptBlock, AcceptBlock, Return, CallSetBestChain
  <2> QED BY <1>5, <1>6, <2>1
<1>9. ASSUME PoolSettled, HandlerIdle, NEW b \in Block, dbTx' = ConnectBlock(dbTx, b),
             Erase(Txs(b)), UNCHANGED <<queueVars, reorgVars, lost>>, pc' \in {"idle", "secondary"}
      PROVE  PoolInv'
  <2>1. mapTx' = mapTx \ Txs(b) BY <1>9 DEF Erase
  <2>2. UNCHANGED <<lost, vResurrect, vDelete, vWorkQueue, vTry, vEraseQueue>>
    BY <1>9 DEF queueVars, reorgVars
  <2>3. \A t \in Tx : dbTx'[t] # NULL <=> t \in Txs(b) \/ dbTx[t] # NULL
    BY <1>1, <1>9, ConnectPresence
  <2>4. InRange' BY <1>2, <2>1 DEF InRange
  <2>5. Phases' BY <1>9, <2>2 DEF Phases, PoolSettled, HandlerIdle
  <2>6. Pending' BY <1>9 DEF Pending
  <2>7. Deleting' = {} BY <1>4, <1>9, <2>2 DEF Deleting
  <2>8. DeletingConfirmed' BY <2>7 DEF DeletingConfirmed
  <2>9. NoneConfirmed' BY <1>1, <1>2, <1>4, <1>9, <2>1, <2>3 DEF NoneConfirmed
  <2>10. ConnectedOrLost'
    <3>1. ASSUME NEW t \in mapTx', NEW p \in Prevs(t)
          PROVE  dbTx'[p] # NULL \/ p \in mapTx' \/ p \in lost'
      <4>1. t \in mapTx /\ t \in Tx /\ p \in Tx BY <1>1, <2>1, PrevsType
      <4>2. dbTx[p] # NULL \/ p \in mapTx \/ p \in lost
        BY <1>2, <1>4, <1>9, <4>1 DEF ConnectedOrLost
      <4> QED BY <2>1, <2>2, <2>3, <4>1, <4>2
    <3> QED BY <3>1 DEF ConnectedOrLost
  <2> QED BY <2>4, <2>5, <2>6, <2>8, <2>9, <2>10 DEF PoolInv
<1>10. ASSUME NodeConnectTip PROVE PoolInv'
  <2>1. pc = "tip" /\ pindexNew \in Block /\ dbTx' = ConnectBlock(dbTx, pindexNew) /\ pc' = "idle"
        /\ Erase(Txs(pindexNew)) /\ UNCHANGED <<queueVars, reorgVars, lost>>
    BY <1>1, <1>10 DEF NodeConnectTip, ConnectTip, CommitInner, Return, TypeOK
  <2> QED BY <1>3, <1>5, <1>9, <2>1
<1>11. ASSUME NodeConnectSecondary PROVE PoolInv'
  <2> DEFINE b == NextOn(pindex, pindexNew)
  <2>1. pc = "secondary" /\ PoolSettled /\ pindex # pindexNew /\ dbTx' = ConnectBlock(dbTx, b)
        /\ pc' = pc /\ Erase(Txs(b)) /\ UNCHANGED <<queueVars, reorgVars, lost>>
    BY <1>11 DEF NodeConnectSecondary, ConnectSecondary, CommitInner
  <2>2. pindex \in Chain[pindexNew] /\ pindexNew \in Block
    BY <1>1, <2>1 DEF ChainOK, Positions, TypeOK
  <2>3. b \in Block BY <2>1, <2>2, NextOnIs
  <2> QED BY <1>3, <1>9, <2>1, <2>3
<1>12. ASSUME NodeReorgFails PROVE PoolInv'
  <2>1. /\ pc = "reorg" /\ pc' = "idle" /\ dbTx' = dbTx /\ vResurrect' = <<>> /\ vDelete' = <<>>
        /\ UNCHANGED <<mapTx, lost>>
    BY <1>12 DEF NodeReorgFails, ReorgFails, Return, dbVars, poolVars
  <2>2. InRange' BY <1>2, <2>1 DEF InRange
  <2>3. Phases' BY <2>1 DEF Phases
  <2>4. Pending' /\ DeletingConfirmed' BY <2>1 DEF Pending, DeletingConfirmed
  <2>5. NoneConfirmed' BY <1>2, <2>1 DEF NoneConfirmed
  <2>6. ConnectedOrLost' BY <1>2, <2>1 DEF ConnectedOrLost
  <2> QED BY <2>2, <2>3, <2>4, <2>5, <2>6 DEF PoolInv
<1>13. ASSUME NodeReorgCommit PROVE PoolInv'
  <2>1. /\ pc = "reorg" /\ pc' = "secondary" /\ dbTx' = batchTx
        /\ UNCHANGED <<mapTx, vResurrect, vDelete, vWorkQueue, vTry, vEraseQueue>>
    BY <1>13 DEF NodeReorgCommit, ReorgCommit, poolVars, queueVars, reorgVars
  <2>2. Deleting' = Deleting /\ Resurrecting' = Resurrecting BY <2>1 DEF Deleting, Resurrecting
  <2>3. \A t : DroppedHere(t) /\ dbTx'[t] = NULL => t \in lost'
    BY <1>13 DEF NodeReorgCommit, DroppedHere
  <2>4. lost \subseteq lost' BY <1>13 DEF NodeReorgCommit
  <2>5. InRange' BY <1>2, <2>1 DEF InRange
  <2>6. Phases' BY <1>3, <2>1 DEF Phases, HandlerIdle
  <2>7. Pending' BY <2>1 DEF Pending
  <2>8. Deleting \subseteq Tx
    <3>1. \A i \in DOMAIN vDelete : vDelete[i] \in Tx BY <1>1 DEF QueuesOK
    <3> QED BY <3>1 DEF Deleting, Range
  <2>9. DeletingConfirmed' BY <1>2, <2>1, <2>2, <2>8 DEF Pending, DeletingConfirmed
  <2>10. NoneConfirmed' BY <1>1, <1>2, <2>1, <2>2 DEF Pending, NoneConfirmed
  <2>11. ConnectedOrLost'
    <3>1. ASSUME NEW t \in mapTx', NEW p \in Prevs(t)
          PROVE  dbTx'[p] # NULL \/ p \in mapTx' \/ p \in lost' \/ p \in Resurrecting'
      <4>1. t \in mapTx /\ p \in Tx BY <1>1, <2>1, PrevsType
      <4>2. dbTx[p] # NULL \/ p \in mapTx \/ p \in lost BY <1>2, <2>1, <4>1 DEF ConnectedOrLost
      <4>3. dbTx[p] # NULL /\ batchTx[p] = NULL => p \in Resurrecting \/ DroppedHere(p)
        BY <1>2, <2>1, <4>1 DEF Pending
      <4> QED BY <2>1, <2>2, <2>3, <2>4, <4>2, <4>3
    <3> QED BY <2>1, <3>1 DEF ConnectedOrLost
  <2> QED BY <2>5, <2>6, <2>7, <2>9, <2>10, <2>11 DEF PoolInv
<1>14. ASSUME Resurrect PROVE PoolInv'
  <2> DEFINE t == Head(vResurrect)
  <2>1. /\ t \in Tx /\ Resurrecting = {t} \cup Range(Tail(vResurrect))
    BY <1>1, <1>14, RangeTail DEF Resurrect, QueuesOK, Resurrecting
  <2>2. /\ pc = "secondary" /\ pc' = pc /\ dbTx' = dbTx
        /\ UNCHANGED <<vDelete, lost, vWorkQueue, vTry, vEraseQueue>>
        /\ Resurrecting' = Range(Tail(vResurrect))
    BY <1>14 DEF Resurrect, vars, callVars, dbVars, queueVars, Resurrecting
  <2>3. /\ \A u \in mapTx' : \A o \in Vin[u] : o[2] < NOut[o[1]]
        /\ \A u \in mapTx' : u \in mapTx \/ dbTx[u] = NULL
        /\ \A u \in mapTx' : \A p \in Prevs(u) : u \in mapTx \/ dbTx[p] # NULL \/ p \in mapTx
        /\ mapTx \subseteq mapTx' /\ t \in mapTx'
    BY <1>14, <2>1, <2>2, AcceptStep DEF Resurrect
  <2>4. InRange' BY <2>3 DEF InRange
  <2>5. Phases' BY <1>3, <2>2 DEF Phases, HandlerIdle
  <2>6. Pending' BY <2>2 DEF Pending
  <2>7. DeletingConfirmed' BY <1>2, <2>2 DEF DeletingConfirmed, Deleting
  <2>8. NoneConfirmed' BY <1>2, <2>2, <2>3 DEF NoneConfirmed, Deleting
  <2>9. ConnectedOrLost' BY <1>2, <2>1, <2>2, <2>3 DEF ConnectedOrLost
  <2> QED BY <2>4, <2>5, <2>6, <2>7, <2>8, <2>9 DEF PoolInv
<1>15. ASSUME ResurrectFails PROVE PoolInv'
  <2> DEFINE t == Head(vResurrect)
  <2>1. /\ t \in Tx /\ Resurrecting = {t} \cup Range(Tail(vResurrect))
    BY <1>1, <1>15, RangeTail DEF ResurrectFails, QueuesOK, Resurrecting
  <2>2. /\ pc = "secondary" /\ pc' = pc /\ dbTx' = dbTx
        /\ UNCHANGED <<mapTx, vDelete, vWorkQueue, vTry, vEraseQueue>>
        /\ Resurrecting' = Range(Tail(vResurrect))
    BY <1>15 DEF ResurrectFails, vars, callVars, dbVars, poolVars, queueVars, Resurrecting
  <2>3. lost \subseteq lost' /\ (t \in mapTx \/ dbTx[t] # NULL \/ t \in lost')
    BY <1>15 DEF ResurrectFails
  <2>4. InRange' BY <1>2, <2>2 DEF InRange
  <2>5. Phases' BY <1>3, <2>2 DEF Phases, HandlerIdle
  <2>6. Pending' BY <2>2 DEF Pending
  <2>7. DeletingConfirmed' BY <1>2, <2>2 DEF DeletingConfirmed, Deleting
  <2>8. NoneConfirmed' BY <1>2, <2>2 DEF NoneConfirmed, Deleting
  <2>9. ConnectedOrLost' BY <1>2, <2>1, <2>2, <2>3 DEF ConnectedOrLost
  <2> QED BY <2>4, <2>5, <2>6, <2>7, <2>8, <2>9 DEF PoolInv
<1>16. ASSUME DeleteRedundant PROVE PoolInv'
  <2> DEFINE h == Head(vDelete)
             S == {h} \cup UNION {Descendants(c) : c \in Conflicts(h)}
  <2>1. h \in Tx /\ Deleting = {h} \cup Range(Tail(vDelete))
    BY <1>1, <1>16, RangeTail DEF DeleteRedundant, QueuesOK, Deleting
  <2>2. /\ pc = "secondary" /\ pc' = pc /\ dbTx' = dbTx /\ mapTx' = mapTx \ S
        /\ UNCHANGED <<vResurrect, lost, vWorkQueue, vTry, vEraseQueue>>
        /\ vResurrect = <<>> /\ Deleting' = Range(Tail(vDelete))
    BY <1>16 DEF DeleteRedundant, removeConfirmed, Erase, vars, callVars, dbVars, queueVars, Deleting
  <2>3. Resurrecting = {} /\ Resurrecting' = {} BY <2>2, RangeEmpty DEF Resurrecting
  <2>4. InRange' BY <1>2, <2>2 DEF InRange
  <2>5. Phases' BY <1>3, <2>2 DEF Phases, HandlerIdle
  <2>6. Pending' BY <2>2 DEF Pending
  <2>7. dbTx[h] # NULL BY <1>2, <2>1, <2>2 DEF DeletingConfirmed
  <2>8. DeletingConfirmed' BY <1>2, <2>1, <2>2 DEF DeletingConfirmed
  <2>9. NoneConfirmed' BY <1>2, <2>1, <2>2 DEF NoneConfirmed
  <2>10. ConnectedOrLost'
    <3>1. ASSUME NEW t \in mapTx', NEW p \in Prevs(t)
          PROVE  dbTx'[p] # NULL \/ p \in mapTx' \/ p \in lost'
      <4>1. t \in mapTx /\ t \notin S BY <2>2
      <4>2. dbTx[p] # NULL \/ p \in mapTx \/ p \in lost
        BY <1>2, <2>3, <4>1 DEF ConnectedOrLost
      <4>3. PICK o \in Vin[t] : o[1] = p BY DEF Prevs
      <4>4. o[2] < NOut[o[1]] BY <1>2, <4>1 DEF InRange
      <4>5. ASSUME NEW c \in Conflicts(h), p \in Descendants(c) PROVE FALSE
        <5>1. t \in Descendants(c) BY <1>1, <4>1, <4>3, <4>4, <4>5, DescendantsClosed
        <5> QED BY <4>1, <5>1
      <4>6. p \in S => p = h BY <4>5
      <4> QED BY <2>2, <2>7, <4>2, <4>6
    <3> QED BY <3>1 DEF ConnectedOrLost
  <2> QED BY <2>4, <2>5, <2>6, <2>8, <2>9, <2>10 DEF PoolInv
<1>17. ASSUME pc = "idle", UNCHANGED <<vars, reorgVars, lost>>,
              \/ UNCHANGED mapTx
              \/ \E t \in Tx : Acceptable(t, dbTx, pindexBest) /\ addUnchecked(t)
       PROVE  PoolInv'
  <2>1. /\ pc' = "idle" /\ dbTx' = dbTx /\ UNCHANGED <<vResurrect, vDelete, lost>>
    BY <1>17 DEF vars, callVars, dbVars, reorgVars
  <2>2. \A u \in mapTx : dbTx[u] = NULL BY <1>2, <1>17 DEF NoneConfirmed
  <2>3. \A u \in mapTx : \A p \in Prevs(u) : dbTx[p] # NULL \/ p \in mapTx \/ p \in lost
    BY <1>2, <1>17 DEF ConnectedOrLost
  <2>4. Phases' BY <1>2, <1>17, <2>1 DEF Phases
  <2>5. Pending' /\ DeletingConfirmed' BY <2>1 DEF Pending, DeletingConfirmed
  <2>6. CASE UNCHANGED mapTx
    <3>1. InRange' BY <1>2, <2>6 DEF InRange
    <3>2. NoneConfirmed' BY <2>1, <2>2, <2>6 DEF NoneConfirmed
    <3>3. ConnectedOrLost' BY <2>1, <2>3, <2>6 DEF ConnectedOrLost
    <3> QED BY <2>4, <2>5, <3>1, <3>2, <3>3 DEF PoolInv
  <2>7. CASE \E t \in Tx : Acceptable(t, dbTx, pindexBest) /\ addUnchecked(t)
    <3>1. PICK t \in Tx : Acceptable(t, dbTx, pindexBest) /\ addUnchecked(t) BY <2>7
    <3>2. /\ \A u \in mapTx' : \A o \in Vin[u] : o[2] < NOut[o[1]]
          /\ \A u \in mapTx' : u \in mapTx \/ dbTx[u] = NULL
          /\ \A u \in mapTx' : \A p \in Prevs(u) : u \in mapTx \/ dbTx[p] # NULL \/ p \in mapTx
          /\ mapTx \subseteq mapTx'
      BY <1>17, <3>1, AcceptStep
    <3>3. InRange' BY <3>2 DEF InRange
    <3>4. NoneConfirmed' BY <2>1, <2>2, <3>2 DEF NoneConfirmed
    <3>5. ConnectedOrLost' BY <2>1, <2>3, <3>2 DEF ConnectedOrLost
    <3> QED BY <2>4, <2>5, <3>3, <3>4, <3>5 DEF PoolInv
  <2> QED BY <1>17, <2>6, <2>7
<1>18. ASSUME NEW t \in Tx, ReceiveTx(t) PROVE PoolInv'
  BY <1>17, <1>18 DEF ReceiveTx, TxAccepted, TxOrphaned, AcceptToMemoryPool
<1>19. ASSUME HandleTx PROVE PoolInv'
  <2>1. ~HandlerIdle
    BY <1>19 DEF HandleTx, HandlerStep, HandlerIdle, NextWork, OrphanAccepted, OrphanRefused,
                 EraseOrphans
  <2>2. pc = "idle" BY <1>3, <2>1
  <2>3. \/ UNCHANGED mapTx
        \/ \E t \in Tx : Acceptable(t, dbTx, pindexBest) /\ addUnchecked(t)
    BY <1>19 DEF HandleTx, HandlerStep, NextWork, OrphanAccepted, OrphanRefused, EraseOrphans
  <2> QED BY <1>17, <1>19, <2>2, <2>3 DEF HandleTx
<1>20. ASSUME NodeRestart PROVE PoolInv'
  <2>1. /\ mapTx' = {} /\ vResurrect' = <<>> /\ vDelete' = <<>>
        /\ vWorkQueue' = <<>> /\ vTry' = {} /\ vEraseQueue' = {}
    BY <1>20 DEF NodeRestart, PoolRestart
  <2>2. pc' \in {"idle", "tip", "walk"}
    BY <1>20 DEF NodeRestart, Restart, RestartFrom, Return, CallSetBestChain
  <2>3. InRange' /\ NoneConfirmed' /\ ConnectedOrLost'
    BY <2>1 DEF InRange, NoneConfirmed, ConnectedOrLost
  <2>4. Phases' BY <2>1, <2>2 DEF Phases, HandlerIdle
  <2>5. Pending' /\ DeletingConfirmed' BY <2>2 DEF Pending, DeletingConfirmed
  <2> QED BY <2>3, <2>4, <2>5 DEF PoolInv
<1>21. ASSUME UNCHANGED nodeVars PROVE PoolInv'
  <2>1. UNCHANGED <<mapTx, lost, vResurrect, vDelete, vWorkQueue, vTry, vEraseQueue, pc, dbTx, batchTx,
                    pindex, pindexBest, pindexInter>>
    BY <1>21 DEF nodeVars, vars, poolVars, queueVars, reorgVars, memVars, dbVars, callVars
  <2>2. InRange' /\ NoneConfirmed' /\ ConnectedOrLost'
    BY <1>2, <2>1 DEF InRange, NoneConfirmed, ConnectedOrLost, Deleting, Resurrecting
  <2>3. Phases' BY <1>2, <2>1 DEF Phases, HandlerIdle
  <2>4. Pending' /\ DeletingConfirmed'
    BY <1>2, <2>1 DEF Pending, DeletingConfirmed, Deleting, Resurrecting, DroppedHere, Dropped
  <2> QED BY <2>2, <2>3, <2>4 DEF PoolInv
<1> QED BY BatchStep, <1>7, <1>8, <1>10, <1>11, <1>12, <1>13, <1>14, <1>15, <1>16, <1>18, <1>19, <1>20,
           <1>21 DEF NodeNext, NodeStep

(* PoolInv initially. *)
LEMMA PoolInvInit == ASSUME NodeInit PROVE PoolInv
BY RangeEmpty DEF NodeInit, Init, PoolInit, PoolInv, InRange, Phases, Pending, DeletingConfirmed,
   NoneConfirmed, ConnectedOrLost, HandlerIdle, Deleting

(* A confirmed transaction stays in the pool only until Reorganize, after  *)
(* its commit, comes to it.                                                *)
THEOREM ConfirmedLeavesPool == NodeSpec => []NoneConfirmed
<1> DEFINE I == ChainOK /\ MapsInv /\ PoolInv
<1>1. NodeInit => I BY ChainOKStep, MapsInit, PoolInvInit
<1>2. I /\ [NodeNext]_nodeVars => I' BY ChainOKStep, MapsStep, PoolStep
<1>3. I => NoneConfirmed BY DEF PoolInv
<1> QED BY <1>1, <1>2, <1>3, PTL DEF NodeSpec

(* A pool transaction is cut off from a parent only by a transaction that  *)
(* Reorganize disconnected and did not put back.                           *)
THEOREM CutOffOnlyByReorg == NodeSpec => []ConnectedOrLost
<1> DEFINE I == ChainOK /\ MapsInv /\ PoolInv
<1>1. NodeInit => I BY ChainOKStep, MapsInit, PoolInvInit
<1>2. I /\ [NodeNext]_nodeVars => I' BY ChainOKStep, MapsStep, PoolStep
<1>3. I => ConnectedOrLost BY DEF PoolInv
<1> QED BY <1>1, <1>2, <1>3, PTL DEF NodeSpec

---------------------------------------------------------------------------
(* What Reorganize takes out of the pool *)

(* The transactions of the blocks Reorganize has connected so far are      *)
(* queued in vDelete, and once they are in the index, what is not queued   *)
(* any more conflicts with nothing in the pool.  None of them is dealt     *)
(* with before the last transaction is put back.                           *)
Merged == UNION {Txs(b) : b \in Chain[pindexInter] \ Chain[pindexBest]}
MergedSoFar == UNION {Txs(b) : b \in Chain[pindex] \ Chain[pindexBest]}
RedundantInv ==
  /\ pc = "reorg" /\ pindex \in Chain[pindexInter] => MergedSoFar \subseteq Deleting
  /\ pc = "secondary" =>
       /\ vResurrect # <<>> => Merged \subseteq Deleting
       /\ \A u \in Merged \ Deleting : \A t \in mapTx : Vin[t] \cap Vin[u] = {}

(* remove(h), then removeConflicts(h): nothing left spends what h spends. *)
LEMMA NoConflictLeft ==
  ASSUME PoolMapsOK, NEW h \in Tx, removeConfirmed(h), NEW t \in mapTx'
  PROVE  Vin[t] \cap Vin[h] = {}
<1>1. t \in mapTx /\ t # h /\ t \notin UNION {Descendants(c) : c \in Conflicts(h)}
  BY DEF removeConfirmed, Erase
<1>2. ASSUME NEW o \in Vin[t] \cap Vin[h] PROVE FALSE
  <2>1. t \in Tx /\ o \in OutPoint BY <1>1 DEF PoolMapsOK, OutPoint
  <2>2. mapNextTx[o] = t BY <1>1, <2>1 DEF PoolMapsOK, PoolIndexed
  <2>3. t \in Conflicts(h) BY <1>1, <2>1, <2>2, NullAssumption DEF Conflicts
  <2>4. t \in Descendants(t) BY <1>1 DEF Descendants
  <2> QED BY <1>1, <2>3, <2>4
<1> QED BY <1>2

(* The steps after the commit that leave the chain alone. *)
LEMMA SettlingStep ==
  ASSUME ChainOK, MapsInv, RedundantInv, Resurrect \/ ResurrectFails \/ DeleteRedundant
  PROVE  RedundantInv'
<1>1. PoolMapsOK /\ vDelete \in Seq(Tx) BY DEF MapsInv, QueuesOK
<1>2. pc = "secondary" /\ pc' = pc /\ Merged' = Merged
  BY DEF Resurrect, ResurrectFails, DeleteRedundant, vars, memVars, callVars, Merged
<1>3. CASE Resurrect \/ ResurrectFails
  <2>1. Merged \subseteq Deleting /\ vDelete' = vDelete
    BY <1>2, <1>3 DEF RedundantInv, Resurrect, ResurrectFails
  <2> QED BY <1>2, <2>1 DEF RedundantInv, Deleting
<1>4. CASE DeleteRedundant
  <2> DEFINE h == Head(vDelete)
  <2>1. /\ removeConfirmed(h) /\ vDelete # <<>> /\ vDelete' = Tail(vDelete)
        /\ vResurrect' = <<>> /\ mapTx' \subseteq mapTx
    BY <1>4 DEF DeleteRedundant, removeConfirmed, Erase
  <2>2. h \in Tx /\ Deleting = {h} \cup Deleting'
    BY <1>1, <2>1, RangeTail DEF Deleting
  <2>3. ASSUME NEW u \in Merged \ Deleting', NEW t \in mapTx' PROVE Vin[t] \cap Vin[u] = {}
    <3>1. CASE u = h BY <1>1, <2>1, <2>2, <3>1, NoConflictLeft
    <3>2. CASE u # h BY <1>2, <2>1, <2>2, <2>3, <3>2 DEF RedundantInv
    <3> QED BY <3>1, <3>2
  <2> QED BY <1>2, <2>1, <2>3 DEF RedundantInv
<1> QED BY <1>3, <1>4

LEMMA RedundantStep ==
  ASSUME ChainOK, MapsInv, PoolInv, RedundantInv, [NodeNext]_nodeVars
  PROVE  RedundantInv'
<1>1. TypeOK /\ Positions /\ QueuesOK BY DEF ChainOK, MapsInv
<1>2. ASSUME pc' \notin {"reorg", "secondary"} PROVE RedundantInv'
  BY <1>2 DEF RedundantInv
<1>3. ASSUME NodeReorgDisconnect PROVE RedundantInv'
  <2>1. /\ pc' = "reorg" /\ pindexBest' = pindexBest
        /\ pindex' = Prev[pindex] /\ pindex \in Chain[pindexBest] \ Chain[pindexInter]
    BY <1>1, <1>3 DEF NodeReorgDisconnect, ReorgDisconnect, memVars, Positions
  <2>2. pindex # Genesis /\ pindex \in Block /\ pindexBest \in Block /\ pindexInter \in Block
    BY <1>1, <2>1, Branches DEF IsBranch, TypeOK
  <2>3. Chain[pindex'] \subseteq Chain[pindexBest]
    <3>1. Chain[pindex'] \subseteq Chain[pindex] BY <2>1, <2>2, TreeAssumption
    <3> QED BY <2>1, <2>2, <3>1, Branches DEF IsBranch
  <2> QED BY <2>1, <2>3 DEF RedundantInv, MergedSoFar
<1>4. ASSUME NodeReorgConnect PROVE RedundantInv'
  <2> DEFINE b == NextOn(pindex, pindexInter)
  <2>1. /\ pc = "reorg" /\ pc' = "reorg"
        /\ pindex \in Chain[pindexInter] \ {pindexInter} /\ pindexInter \in Block
        /\ UNCHANGED <<pindexBest, pindexInter>> /\ pindex' = b /\ vDelete' = vDelete \o Vtx[b]
    BY <1>1, <1>4 DEF NodeReorgConnect, ReorgConnect, memVars, TypeOK
  <2>2. b \in Block /\ Prev[b] = pindex BY <2>1, NextOnIs
  <2>3. Chain[b] = Chain[pindex] \cup {b} BY <1>1, <2>2, TreeAssumption, NullAssumption DEF TypeOK
  <2>4. Vtx[b] \in Seq(Tx) BY <2>2, TxAssumption
  <2>5. Deleting' = Deleting \cup Txs(b)
    <3>1. Range(Vtx[b]) = Txs(b) BY DEF Range, Txs
    <3> QED BY <1>1, <2>1, <2>4, <3>1, RangeConcat DEF QueuesOK, Deleting
  <2>6. MergedSoFar \subseteq Deleting BY <2>1 DEF RedundantInv
  <2>7. MergedSoFar' \subseteq MergedSoFar \cup Txs(b)
    BY <2>1, <2>3 DEF MergedSoFar
  <2> QED BY <2>1, <2>5, <2>6, <2>7 DEF RedundantInv
<1>5. ASSUME NodeReorgCommit PROVE RedundantInv'
  <2>1. /\ pc = "reorg" /\ pindex = pindexInter /\ pindexInter \in Block
        /\ pc' = "secondary" /\ UNCHANGED <<pindexInter, pindexBest, vDelete>>
    BY <1>1, <1>5 DEF NodeReorgCommit, ReorgCommit, reorgVars, TypeOK
  <2>2. pindex \in Chain[pindexInter] BY <2>1, TreeAssumption, NullAssumption
  <2>3. Merged' \subseteq Deleting'
    BY <2>1, <2>2 DEF RedundantInv, Merged, MergedSoFar, Deleting
  <2> QED BY <2>1, <2>3 DEF RedundantInv
<1>6. ASSUME Reorganize, UNCHANGED <<poolVars, reorgVars, lost>> PROVE RedundantInv'
  <2>1. pc' = "reorg" /\ pindex' = pindexBest' BY <1>6 DEF Reorganize, memVars
  <2> QED BY <2>1 DEF RedundantInv, MergedSoFar
<1>7. ASSUME NodeConnectSecondary PROVE RedundantInv'
  <2>1. /\ pc = "secondary" /\ pc' = "secondary" /\ vResurrect' = <<>> /\ vDelete' = vDelete
        /\ UNCHANGED <<pindexInter, pindexBest>> /\ mapTx' \subseteq mapTx
    BY <1>7 DEF NodeConnectSecondary, ConnectSecondary, PoolSettled, reorgVars, Erase
  <2> QED BY <2>1 DEF RedundantInv, Merged, Deleting
<1>8. ASSUME UNCHANGED <<vars, reorgVars>>, mapTx' \subseteq mapTx \/ pc = "idle"
      PROVE  RedundantInv'
  BY <1>8 DEF RedundantInv, Merged, MergedSoFar, Deleting, vars, memVars, callVars, reorgVars
<1>9. ASSUME HandleTx PROVE RedundantInv'
  <2>1. pc = "idle" /\ UNCHANGED <<vars, reorgVars>>
    BY <1>9 DEF HandleTx, HandlerStep, HandlerIdle, NextWork, OrphanAccepted, OrphanRefused,
                EraseOrphans, PoolInv, Phases
  <2> QED BY <1>8, <2>1
<1>10. ASSUME QuietStep PROVE RedundantInv'
  <2>1. UNCHANGED <<poolVars, reorgVars, lost>> BY <1>10 DEF QuietStep
  <2>2. CASE Reorganize BY <1>6, <2>1, <2>2
  <2>3. CASE ConnectTipFails \/ SecondaryFails \/ NewBest
    BY <1>2, <2>3 DEF ConnectTipFails, SecondaryFails, NewBest, Return
  <2>4. CASE Postpone BY <1>2, <2>4 DEF Postpone
  <2> QED BY <1>10, <2>2, <2>3, <2>4 DEF QuietStep
<1>11. ASSUME NodeConnectTip \/ NodeReorgFails PROVE RedundantInv'
  BY <1>2, <1>11 DEF NodeConnectTip, ConnectTip, NodeReorgFails, ReorgFails, Return
<1>12. ASSUME \E b \in Block : NodeAcceptBlock(b) PROVE RedundantInv'
  BY <1>2, <1>12 DEF NodeAcceptBlock, AcceptBlock, CallSetBestChain, Return
<1>13. ASSUME NodeRestart PROVE RedundantInv'
  BY <1>2, <1>13 DEF NodeRestart, Restart, RestartFrom, CallSetBestChain, Return
<1>14. ASSUME \E t \in Tx : ReceiveTx(t) PROVE RedundantInv'
  BY <1>8, <1>14 DEF ReceiveTx
<1>15. ASSUME UNCHANGED nodeVars PROVE RedundantInv'
  BY <1>8, <1>15 DEF nodeVars, poolVars
<1> QED BY SettlingStep, <1>3, <1>4, <1>5, <1>7, <1>9, <1>10, <1>11, <1>12, <1>13, <1>14, <1>15
        DEF NodeNext, NodeStep

(* The invariant of the pool over the chain. *)
LEMMA NodeInvariant == NodeSpec => [](ChainOK /\ MapsInv /\ PoolInv /\ RedundantInv)
<1> DEFINE I == ChainOK /\ MapsInv /\ PoolInv /\ RedundantInv
<1>1. NodeInit => I
  <2>1. NodeInit => RedundantInv BY DEF NodeInit, Init, RedundantInv
  <2> QED BY <2>1, ChainOKStep, MapsInit, PoolInvInit
<1>2. I /\ [NodeNext]_nodeVars => I' BY ChainOKStep, MapsStep, PoolStep, RedundantStep
<1> QED BY <1>1, <1>2, PTL DEF NodeSpec

(* Once Reorganize has put back what it disconnected and deleted what it   *)
(* connected, nothing in the pool spends what the new branch spends: not   *)
(* what was in the pool before, not what was put back, and none of their   *)
(* children.                                                               *)
THEOREM SettledWithoutConflict == NodeSpec => NoConflictAfterReorg
<1> DEFINE I == ChainOK /\ MapsInv /\ PoolInv /\ RedundantInv
           A == PoolSettled' /\ ~PoolSettled /\ pc = "secondary" /\ restarts' = restarts =>
                  \A t \in mapTx' : \A b \in Chain[pindexInter] \ Chain[pindexBest] :
                    \A u \in Txs(b) : Vin[t] \cap Vin[u] = {}
<1>1. ASSUME I, I', [NodeNext]_nodeVars PROVE [A]_nodeVars
  <2> SUFFICES ASSUME PoolSettled', ~PoolSettled, pc = "secondary", restarts' = restarts,
                      NEW t \in mapTx', NEW b \in Chain[pindexInter] \ Chain[pindexBest],
                      NEW u \in Txs(b)
               PROVE  Vin[t] \cap Vin[u] = {}
    OBVIOUS
  <2>1. Resurrect \/ ResurrectFails \/ DeleteRedundant
    <3>1. ~(UNCHANGED reorgVars)
      BY DEF reorgVars, PoolSettled
    <3>2. ~NodeRestart
      <4>1. restarts \in Int BY <1>1 DEF ChainOK, TypeOK
      <4> QED BY <4>1 DEF NodeRestart, Restart, RestartFrom, LoadBlockIndex
    <3> QED BY <1>1, <3>1, <3>2
            DEF NodeNext, NodeStep, QuietStep, NodeAcceptBlock, NodeConnectTip,
                NodeConnectSecondary, NodeReorgDisconnect, NodeReorgConnect, NodeReorgFails,
                NodeReorgCommit, ReorgDisconnect, ReorgConnect, ReorgFails, ReorgCommit,
                HandleTx, ReceiveTx, nodeVars
  <2>2. pc' = "secondary" /\ Merged' = Merged
    BY <2>1 DEF Resurrect, ResurrectFails, DeleteRedundant, vars, memVars, callVars, Merged
  <2>3. Deleting' = {} BY RangeEmpty DEF PoolSettled, Deleting
  <2>4. u \in Merged' BY <2>2 DEF Merged
  <2> QED BY <1>1, <2>2, <2>3, <2>4 DEF RedundantInv
<1> QED BY <1>1, NodeInvariant, PTL DEF NodeSpec, NoConflictAfterReorg

---------------------------------------------------------------------------
(* What Reorganize puts back *)

(* Every input of what is queued in vResurrect exists, and its transaction *)
(* is in S or before it in the queue.                                      *)
ParentsFirst(q, S) ==
  \A i \in DOMAIN q : \A o \in Vin[q[i]] :
    /\ o[2] < NOut[o[1]]
    /\ o[1] \in S \/ \E j \in 1 .. i - 1 : q[j] = o[1]

(* While the batch is built S is what it has indexed and what Reorganize   *)
(* drops; afterwards what is indexed, in the pool, or given up.            *)
Batched == {t \in Tx : batchTx[t] # NULL \/ DroppedHere(t)}
Settled == {t \in Tx : dbTx[t] # NULL} \cup mapTx \cup lost
OrderInv ==
  /\ pc = "reorg" => ParentsFirst(vResurrect, Batched)
  /\ pc = "secondary" => ParentsFirst(vResurrect, Settled)

LEMMA FirstGrows ==
  ASSUME NEW q, NEW S, NEW T, ParentsFirst(q, S), S \subseteq T
  PROVE  ParentsFirst(q, T)
BY DEF ParentsFirst

(* The front of the queue has been dealt with. *)
LEMMA FirstTail ==
  ASSUME NEW q \in Seq(Tx), q # <<>>, NEW S, NEW T, ParentsFirst(q, S),
         S \subseteq T, Head(q) \in T
  PROVE  ParentsFirst(Tail(q), T)
<1>1. /\ Len(q) \in Nat \ {0} /\ DOMAIN q = 1 .. Len(q) /\ Head(q) = q[1]
      /\ DOMAIN Tail(q) = 1 .. (Len(q) - 1)
      /\ \A i \in 1 .. (Len(q) - 1) : Tail(q)[i] = q[i + 1]
  OBVIOUS
<1>2. ASSUME NEW i \in DOMAIN Tail(q), NEW o \in Vin[Tail(q)[i]]
      PROVE  /\ o[2] < NOut[o[1]]
             /\ o[1] \in T \/ \E j \in 1 .. i - 1 : Tail(q)[j] = o[1]
  <2>1. i + 1 \in DOMAIN q /\ o \in Vin[q[i + 1]] BY <1>1, <1>2
  <2>2. /\ o[2] < NOut[o[1]]
        /\ o[1] \in S \/ \E j \in 1 .. (i + 1) - 1 : q[j] = o[1]
    BY <2>1 DEF ParentsFirst
  <2>3. ASSUME NEW j \in 1 .. (i + 1) - 1, q[j] = o[1], o[1] \notin T
        PROVE  \E k \in 1 .. i - 1 : Tail(q)[k] = o[1]
    <3>1. j # 1 BY <1>1, <2>3
    <3>2. j - 1 \in 1 .. i - 1 /\ j - 1 \in 1 .. (Len(q) - 1) /\ (j - 1) + 1 = j
      BY <1>1, <1>2, <2>3, <3>1
    <3>3. Tail(q)[j - 1] = o[1] BY <1>1, <2>3, <3>2
    <3> QED BY <3>2, <3>3
  <2> QED BY <2>2, <2>3
<1> QED BY <1>2 DEF ParentsFirst

(* A block's transactions are queued before those of the blocks above. *)
LEMMA FirstConcat ==
  ASSUME NEW p \in Seq(Tx), NEW q \in Seq(Tx), NEW S, NEW T,
         ParentsFirst(p, T), ParentsFirst(q, S), S \subseteq T \cup Range(p)
  PROVE  ParentsFirst(p \o q, T)
<1>1. /\ Len(p) \in Nat /\ Len(q) \in Nat
      /\ DOMAIN p = 1 .. Len(p) /\ DOMAIN q = 1 .. Len(q)
      /\ DOMAIN (p \o q) = 1 .. (Len(p) + Len(q))
      /\ \A i \in 1 .. (Len(p) + Len(q)) :
           (p \o q)[i] = IF i <= Len(p) THEN p[i] ELSE q[i - Len(p)]
  OBVIOUS
<1>2. ASSUME NEW i \in DOMAIN (p \o q), NEW o \in Vin[(p \o q)[i]]
      PROVE  /\ o[2] < NOut[o[1]]
             /\ o[1] \in T \/ \E j \in 1 .. i - 1 : (p \o q)[j] = o[1]
  <2>1. CASE i <= Len(p)
    <3>1. i \in DOMAIN p /\ o \in Vin[p[i]] BY <1>1, <1>2, <2>1
    <3>2. /\ o[2] < NOut[o[1]]
          /\ o[1] \in T \/ \E j \in 1 .. i - 1 : p[j] = o[1]
      BY <3>1 DEF ParentsFirst
    <3>3. \A j \in 1 .. i - 1 : (p \o q)[j] = p[j] BY <1>1, <2>1, <3>1
    <3> QED BY <3>2, <3>3
  <2>2. CASE ~(i <= Len(p))
    <3>1. i - Len(p) \in DOMAIN q /\ o \in Vin[q[i - Len(p)]] BY <1>1, <1>2, <2>2
    <3>2. /\ o[2] < NOut[o[1]]
          /\ o[1] \in S \/ \E j \in 1 .. (i - Len(p)) - 1 : q[j] = o[1]
      BY <3>1 DEF ParentsFirst
    <3>3. ASSUME NEW j \in 1 .. (i - Len(p)) - 1, q[j] = o[1]
          PROVE  \E k \in 1 .. i - 1 : (p \o q)[k] = o[1]
      <4>1. /\ j + Len(p) \in 1 .. i - 1 /\ j + Len(p) \in 1 .. (Len(p) + Len(q))
            /\ ~(j + Len(p) <= Len(p)) /\ (j + Len(p)) - Len(p) = j
        BY <1>1, <1>2, <3>1, <3>3
      <4>2. (p \o q)[j + Len(p)] = o[1] BY <1>1, <3>3, <4>1
      <4> QED BY <4>1, <4>2
    <3>4. ASSUME o[1] \in Range(p) PROVE \E k \in 1 .. i - 1 : (p \o q)[k] = o[1]
      <4>1. PICK j \in DOMAIN p : p[j] = o[1] BY <3>4 DEF Range
      <4>2. j \in 1 .. i - 1 /\ (p \o q)[j] = p[j] BY <1>1, <1>2, <2>2, <4>1
      <4> QED BY <4>1, <4>2
    <3> QED BY <3>2, <3>3, <3>4
  <2> QED BY <2>1, <2>2
<1> QED BY <1>2 DEF ParentsFirst

(* No transaction spends itself. *)
LEMMA NotOwnPrev == \A t \in Tx : t \notin Prevs(t)
<1> SUFFICES ASSUME NEW t \in Tx PROVE t \notin Prevs(t)
  OBVIOUS
<1>1. {t} \in SUBSET Tx /\ {t} # {} OBVIOUS
<1> QED BY <1>1, HashAssumption

(* What DisconnectBlock undoes: in the order of the block, every input is  *)
(* of a transaction that stays indexed, that the block drops, or that is   *)
(* queued before.                                                          *)
LEMMA QueuedFirst ==
  ASSUME NEW s, TxIndexType(s), NEW b \in Block, CanDisconnect(s, b), NEW T,
         \A t \in Tx : s[t] # NULL /\ t \notin Txs(b) => t \in T,
         Dropped(b) \subseteq T
  PROVE  ParentsFirst(QueuedOf(b), T)
<1> SUFFICES ASSUME NEW i \in DOMAIN QueuedOf(b), NEW o \in Vin[QueuedOf(b)[i]]
             PROVE  /\ o[2] < NOut[o[1]]
                    /\ o[1] \in T \/ \E j \in 1 .. i - 1 : QueuedOf(b)[j] = o[1]
  BY DEF ParentsFirst
<1>1. PICK n \in DOMAIN Vtx[b] :
        /\ Vtx[b][n] = QueuedOf(b)[i]
        /\ \A m \in 1 .. n - 1 :
             Resurrectable(Vtx[b][m]) => \E j \in 1 .. i - 1 : QueuedOf(b)[j] = Vtx[b][m]
  BY QueuedIs
<1>2. Vtx[b] \in Seq(Tx) /\ Vtx[b][n] \in Tx BY <1>1, TxAssumption
<1>3. o[1] \in Tx /\ o \in Tx \X Nat /\ o[1] # Vtx[b][n]
  BY <1>1, <1>2, TxAssumption, NotOwnPrev DEF Prevs
<1>4. /\ s[o[1]] # NULL /\ o[2] \in DOMAIN s[o[1]].vSpent
      /\ \A j \in DOMAIN Vtx[b] : j > n => Vtx[b][j] # o[1]
  BY <1>1 DEF CanDisconnect
<1>5. o[2] < NOut[o[1]]
  <2>1. s[o[1]] \in CTxIndex(o[1]) BY <1>3, <1>4 DEF TxIndexType
  <2>2. DOMAIN s[o[1]].vSpent = 0 .. (NOut[o[1]] - 1) BY <2>1 DEF CTxIndex
  <2>3. NOut[o[1]] \in Nat BY <1>3, TxAssumption
  <2> QED BY <1>4, <2>2, <2>3
<1>6. ASSUME o[1] \in Txs(b), o[1] \notin Dropped(b)
      PROVE  \E j \in 1 .. i - 1 : QueuedOf(b)[j] = o[1]
  <2>1. PICK m \in DOMAIN Vtx[b] : Vtx[b][m] = o[1] BY <1>6 DEF Txs
  <2>2. m # n /\ ~(m > n) BY <1>3, <1>4, <2>1
  <2>3. m \in 1 .. n - 1 BY <1>1, <1>2, <2>1, <2>2
  <2>4. Resurrectable(o[1]) BY <1>6 DEF Dropped
  <2> QED BY <1>1, <2>1, <2>3, <2>4
<1> QED BY <1>3, <1>4, <1>5, <1>6

LEMMA EmptyFirst == \A S : ParentsFirst(<<>>, S)
BY DEF ParentsFirst

(* OrderInv while Reorganize builds its batch, and when it commits it. *)
LEMMA OrderBatch ==
  ASSUME ChainOK, MapsInv, OrderInv, NodeReorgDisconnect \/ NodeReorgConnect \/ NodeReorgCommit
  PROVE  OrderInv'
<1>1. /\ QueuesOK /\ TxIndexType(batchTx)
      /\ pindex \in Block /\ pindexBest \in Block /\ pindexInter \in Block
  BY DEF ChainOK, MapsInv, TypeOK
<1>2. ParentsFirst(vResurrect, Batched) /\ pc = "reorg"
  BY DEF OrderInv, NodeReorgDisconnect, NodeReorgConnect, NodeReorgCommit,
         ReorgDisconnect, ReorgConnect, ReorgCommit
<1>3. CASE NodeReorgDisconnect
  <2>1. /\ pc' = "reorg" /\ UNCHANGED <<pindexBest, pindexInter>>
        /\ pindex \in Chain[pindexBest] \ Chain[pindexInter]
        /\ CanDisconnect(batchTx, pindex) /\ batchTx' = DisconnectBlock(batchTx, pindex)
        /\ vResurrect' = QueuedOf(pindex) \o vResurrect
    BY <1>3 DEF NodeReorgDisconnect, ReorgDisconnect, memVars, ChainOK, Positions
  <2>2. \A t \in Tx : batchTx[t] # NULL /\ t \notin Txs(pindex) => t \in Batched'
    BY <1>1, <2>1, DisconnectPresence DEF Batched
  <2>3. Dropped(pindex) \subseteq Batched'
    <3>1. Dropped(pindex) \subseteq Tx BY <1>1, TxsType DEF Dropped
    <3>2. \A t \in Dropped(pindex) : DroppedHere(t)' BY <2>1 DEF DroppedHere, Dropped
    <3> QED BY <3>1, <3>2 DEF Batched
  <2>4. ParentsFirst(QueuedOf(pindex), Batched')
    BY <1>1, <2>1, <2>2, <2>3, QueuedFirst
  <2>5. Batched \subseteq Batched' \cup Range(QueuedOf(pindex))
    <3>1. ASSUME NEW t \in Tx, batchTx[t] # NULL, t \in Txs(pindex)
          PROVE  t \in Batched' \cup Range(QueuedOf(pindex))
      <4>1. Range(QueuedOf(pindex))
              = {u \in Txs(pindex) : Height[pindex] > TotalBlocksEstimate /\ Resurrectable(u)}
        BY <1>1, QueuedIs
      <4>2. Height[pindex] \in Nat /\ TotalBlocksEstimate \in Nat
        BY <1>1, TreeAssumption, EstimateAssumption
      <4>3. t \in Range(QueuedOf(pindex)) \/ t \in Dropped(pindex)
        BY <3>1, <4>1, <4>2 DEF Dropped
      <4> QED BY <2>3, <4>3
    <3>2. \A t : DroppedHere(t) => DroppedHere(t)' BY <2>1 DEF DroppedHere, Dropped
    <3> QED BY <2>2, <3>1, <3>2 DEF Batched
  <2>6. ParentsFirst(vResurrect', Batched')
    BY <1>1, <1>2, <2>1, <2>4, <2>5, QueuedIs, FirstConcat DEF QueuesOK
  <2> QED BY <2>1, <2>6 DEF OrderInv
<1>4. CASE NodeReorgConnect
  <2> DEFINE b == NextOn(pindex, pindexInter)
  <2>1. /\ pc' = "reorg" /\ UNCHANGED <<pindexBest, pindexInter, vResurrect>>
        /\ pindex \in Chain[pindexInter] \ {pindexInter}
        /\ batchTx' = ConnectBlock(batchTx, b)
    BY <1>4 DEF NodeReorgConnect, ReorgConnect, memVars
  <2>2. b \in Block BY <1>1, <2>1, NextOnIs
  <2>3. Batched \subseteq Batched'
    <3>1. \A t \in Tx : batchTx[t] # NULL => batchTx'[t] # NULL
      BY <1>1, <2>1, <2>2, ConnectPresence
    <3>2. \A t : DroppedHere(t) => DroppedHere(t)' BY <2>1 DEF DroppedHere, Dropped
    <3> QED BY <3>1, <3>2 DEF Batched
  <2> QED BY <1>2, <2>1, <2>3, FirstGrows DEF OrderInv
<1>5. CASE NodeReorgCommit
  <2>1. /\ pc' = "secondary" /\ dbTx' = batchTx /\ vResurrect' = vResurrect
        /\ lost' = lost \cup {t \in UNION {Dropped(b) : b \in Chain[pindexBest] \ Chain[pindexInter]} :
                                dbTx'[t] = NULL}
    BY <1>5 DEF NodeReorgCommit, ReorgCommit, reorgVars
  <2>2. Batched \subseteq Settled' BY <2>1 DEF Batched, Settled, DroppedHere
  <2> QED BY <1>2, <2>1, <2>2, FirstGrows DEF OrderInv
<1> QED BY <1>3, <1>4, <1>5

LEMMA OrderStep ==
  ASSUME ChainOK, MapsInv, PoolInv, OrderInv, [NodeNext]_nodeVars
  PROVE  OrderInv'
<1>1. QueuesOK /\ Phases BY DEF MapsInv, PoolInv
<1>2. ASSUME pc' \notin {"reorg", "secondary"} PROVE OrderInv'
  BY <1>2 DEF OrderInv
<1>3. ASSUME vResurrect' = <<>> PROVE OrderInv'
  BY <1>3, EmptyFirst DEF OrderInv
<1>4. ASSUME Resurrect \/ ResurrectFails PROVE OrderInv'
  <2> DEFINE h == Head(vResurrect)
  <2>1. /\ pc = "secondary" /\ pc' = pc /\ vResurrect # <<>> /\ vResurrect' = Tail(vResurrect)
        /\ dbTx' = dbTx
    BY <1>4 DEF Resurrect, ResurrectFails, vars, callVars, dbVars
  <2>2. h \in Tx BY <1>1, <2>1, RangeTail DEF QueuesOK
  <2>3. Settled \subseteq Settled' /\ h \in Settled'
    <3>1. CASE Resurrect
      <4>1. mapTx' = mapTx \cup {h} /\ lost' = lost BY <3>1 DEF Resurrect, addUnchecked
      <4> QED BY <2>1, <4>1 DEF Settled
    <3>2. CASE ResurrectFails
      <4>1. /\ mapTx' = mapTx
            /\ lost' = lost \cup IF h \in mapTx \/ dbTx[h] # NULL THEN {} ELSE {h}
        BY <3>2 DEF ResurrectFails, poolVars
      <4> QED BY <2>1, <2>2, <4>1 DEF Settled
    <3> QED BY <1>4, <3>1, <3>2
  <2>4. ParentsFirst(vResurrect, Settled) /\ vResurrect \in Seq(Tx)
    BY <1>1, <2>1 DEF OrderInv, QueuesOK
  <2>5. ParentsFirst(Tail(vResurrect), Settled') BY <2>1, <2>3, <2>4, FirstTail
  <2> QED BY <2>1, <2>5 DEF OrderInv
<1>5. ASSUME UNCHANGED <<vars, reorgVars, lost>>, mapTx \subseteq mapTx' PROVE OrderInv'
  <2>1. Batched' = Batched /\ Settled \subseteq Settled' /\ vResurrect' = vResurrect /\ pc' = pc
    BY <1>5 DEF Batched, Settled, DroppedHere, Dropped, vars, memVars, dbVars, callVars, reorgVars
  <2> QED BY <2>1, FirstGrows DEF OrderInv
<1>6. ASSUME QuietStep PROVE OrderInv'
  <2>1. CASE Reorganize
    <3>1. vResurrect' = <<>> BY <1>1, <1>6, <2>1 DEF Phases, Reorganize, QuietStep, reorgVars
    <3> QED BY <1>3, <3>1
  <2>2. CASE ConnectTipFails \/ SecondaryFails \/ NewBest \/ Postpone
    BY <1>2, <2>2 DEF ConnectTipFails, SecondaryFails, NewBest, Postpone, Return
  <2> QED BY <1>6, <2>1, <2>2 DEF QuietStep
<1>7. ASSUME NodeConnectSecondary \/ DeleteRedundant PROVE OrderInv'
  BY <1>3, <1>7 DEF NodeConnectSecondary, DeleteRedundant, PoolSettled, reorgVars
<1>8. ASSUME NodeConnectTip \/ NodeReorgFails \/ NodeRestart
             \/ \E b \in Block : NodeAcceptBlock(b)
      PROVE  OrderInv'
  BY <1>2, <1>8 DEF NodeConnectTip, ConnectTip, NodeReorgFails, ReorgFails, NodeRestart, Restart,
     RestartFrom, NodeAcceptBlock, AcceptBlock, CallSetBestChain, Return
<1>9. ASSUME HandleTx \/ \E t \in Tx : ReceiveTx(t) PROVE OrderInv'
  <2>1. mapTx \subseteq mapTx'
    BY <1>9 DEF HandleTx, HandlerStep, NextWork, OrphanAccepted, OrphanRefused, EraseOrphans,
                ReceiveTx, TxAccepted, TxOrphaned, AcceptToMemoryPool, addUnchecked
  <2> QED BY <1>5, <1>9, <2>1 DEF HandleTx, ReceiveTx
<1>10. ASSUME UNCHANGED nodeVars PROVE OrderInv'
  BY <1>5, <1>10 DEF nodeVars, poolVars
<1> QED BY OrderBatch, <1>4, <1>6, <1>7, <1>8, <1>9, <1>10 DEF NodeNext, NodeStep

(* A disconnected transaction is given up only because it cannot be in the *)
(* pool on the new branch: an input is gone, spent, immature or wanted, or *)
(* it is one Reorganize does not put back.  The queue is in the order of   *)
(* the chain, so that the parent of a transaction is never still to come.  *)
THEOREM GivenUpForCause == NodeSpec => RefusedForCause
<1> DEFINE I == ChainOK /\ MapsInv /\ PoolInv /\ OrderInv
           Cause(t) ==
             \/ t \in NonStandard \cup FreeTx \cup CoinBase \cup CoinStake
             \/ \E b \in Block : t \in Dropped(b)
             \/ \E o \in Vin[t] :
                  \/ mapNextTx[o] # NULL
                  \/ o[1] \in lost
                  \/ dbTx[o[1]] # NULL /\ ~Spendable(o, dbTx, pindexBest)
<1>1. NodeInit => I
  <2>1. NodeInit => OrderInv BY DEF NodeInit, Init, OrderInv
  <2> QED BY <2>1, ChainOKStep, MapsInit, PoolInvInit
<1>2. I /\ [NodeNext]_nodeVars => I' BY ChainOKStep, MapsStep, PoolStep, OrderStep
<1>3. ASSUME I, [NodeNext]_nodeVars, NEW t \in lost' \ lost PROVE Cause(t)
  <2>1. CASE NodeReorgCommit
    <3>1. PICK b \in Chain[pindexBest] \ Chain[pindexInter] : t \in Dropped(b)
      BY <1>3, <2>1 DEF NodeReorgCommit
    <3>2. b \in Block BY <1>3, <3>1, TreeAssumption DEF ChainOK, TypeOK
    <3> QED BY <3>1, <3>2
  <2>2. CASE ResurrectFails
    <3>1. /\ pc = "secondary" /\ vResurrect # <<>> /\ t = Head(vResurrect)
          /\ t \notin mapTx /\ dbTx[t] = NULL
          /\ ~Acceptable(t, dbTx, pindexBest) \/ t \in FreeTx
      BY <1>3, <2>2 DEF ResurrectFails
    <3>2. vResurrect \in Seq(Tx) /\ 1 \in DOMAIN vResurrect /\ t = vResurrect[1] /\ t \in Tx
      BY <1>3, <3>1, RangeTail DEF MapsInv, QueuesOK
    <3>3. \A o \in Vin[t] : o[2] < NOut[o[1]] /\ o[1] \in Settled
      <4>1. ParentsFirst(vResurrect, Settled) BY <1>3, <3>1 DEF OrderInv
      <4>2. \A j : ~(j \in 1 .. 1 - 1) OBVIOUS
      <4> QED BY <3>2, <4>1, <4>2 DEF ParentsFirst
    <3>4. CASE t \in FreeTx BY <3>4
    <3>5. CASE ~Eligible(t, dbTx) BY <3>1, <3>5 DEF Eligible
    <3>6. CASE ~HaveInputs(t, dbTx)
      <4>1. PICK o \in Vin[t] : dbTx[o[1]] = NULL /\ o[1] \notin mapTx
        BY <3>6 DEF HaveInputs, Prevs
      <4>2. o[1] \in lost BY <3>3, <4>1 DEF Settled
      <4> QED BY <4>2
    <3>7. CASE \E o \in Vin[t] : ~Spendable(o, dbTx, pindexBest)
      <4>1. PICK o \in Vin[t] : ~Spendable(o, dbTx, pindexBest) BY <3>7
      <4>2. dbTx[o[1]] # NULL BY <3>3, <4>1 DEF Spendable
      <4> QED BY <4>1, <4>2
    <3> QED BY <3>1, <3>4, <3>5, <3>6, <3>7 DEF Acceptable
  <2>3. CASE NodeRestart BY <1>3, <2>3 DEF NodeRestart
  <2>4. CASE UNCHANGED lost BY <1>3, <2>4
  <2>5. \/ NodeReorgCommit \/ ResurrectFails \/ NodeRestart \/ UNCHANGED lost
    BY <1>3 DEF NodeNext, NodeStep, QuietStep, NodeAcceptBlock, NodeConnectTip,
         NodeConnectSecondary, NodeReorgDisconnect, NodeReorgConnect, NodeReorgFails,
         Resurrect, DeleteRedundant, HandleTx, ReceiveTx, nodeVars
  <2> QED BY <2>1, <2>2, <2>3, <2>4, <2>5
<1>4. I /\ [NodeNext]_nodeVars => [\A t \in lost' \ lost : Cause(t)]_nodeVars BY <1>3
<1> QED BY <1>1, <1>2, <1>4, PTL DEF NodeSpec, RefusedForCause

---------------------------------------------------------------------------
(* Orphans of orphans *)

(* A stored orphan that waits for something the message brought in is      *)
(* still to be tried, is to be erased, or cannot be accepted as it is.     *)
StillToTry(t) == t \in vTry \/ \E p \in Prevs(t) : p \in Range(vWorkQueue)
TriedInv ==
  /\ brought \subseteq vEraseQueue
  /\ \A t \in mapOrphanTransactions :
       Prevs(t) \cap brought # {} =>
         StillToTry(t) \/ t \in vEraseQueue \/ ~Acceptable(t, dbTx, pindexBest)

(* A transaction that enters the pool makes only its children acceptable. *)
LEMMA OnlyChildrenGain ==
  ASSUME PoolMapsOK, NEW u \in Tx, addUnchecked(u), UNCHANGED <<dbTx, pindexBest>>,
         NEW t \in Tx, Acceptable(t, dbTx, pindexBest)', u \notin Prevs(t)
  PROVE  Acceptable(t, dbTx, pindexBest)
<1>1. /\ mapTx' = mapTx \cup {u}
      /\ mapNextTx' = [o \in OutPoint |-> IF o \in Vin[u] THEN u ELSE mapNextTx[o]]
  BY DEF addUnchecked
<1>2. /\ t \notin mapTx' /\ dbTx[t] = NULL
      /\ t \notin CoinBase \cup CoinStake \cup NonStandard
      /\ \A o \in Vin[t] : mapNextTx'[o] = NULL
      /\ \A p \in Prevs(t) : dbTx[p] # NULL \/ p \in mapTx'
      /\ \A o \in Vin[t] : Spendable(o, dbTx, pindexBest)
  BY DEF Acceptable, Eligible, HaveInputs, Spendable
<1>3. \A o \in Vin[t] : mapNextTx[o] = NULL
  <2>1. \A o \in Vin[t] : o \in OutPoint BY DEF OutPoint
  <2> QED BY <1>1, <1>2, <2>1, NullAssumption
<1>4. HaveInputs(t, dbTx) BY <1>1, <1>2 DEF HaveInputs
<1>5. Eligible(t, dbTx) BY <1>1, <1>2, <1>3 DEF Eligible
<1> QED BY <1>2, <1>4, <1>5 DEF Acceptable

LEMMA TriedStep ==
  ASSUME MapsInv, PoolInv, TriedInv, [NodeNext]_nodeVars
  PROVE  TriedInv'
<1>1. PoolMapsOK /\ OrphansOK /\ QueuesOK /\ Phases BY DEF MapsInv, PoolInv
<1>2. ASSUME HandlerIdle, UNCHANGED queueVars PROVE TriedInv'
  <2>1. brought' = {} /\ vEraseQueue' = {}
    BY <1>2 DEF TriedInv, HandlerIdle, queueVars
  <2> QED BY <2>1 DEF TriedInv
<1>3. pc # "idle" => HandlerIdle BY <1>1 DEF Phases
<1>4. ASSUME \/ QuietStep \/ NodeConnectTip \/ NodeConnectSecondary
             \/ NodeReorgDisconnect \/ NodeReorgConnect \/ NodeReorgFails \/ NodeReorgCommit
             \/ Resurrect \/ ResurrectFails \/ DeleteRedundant
             \/ \E b \in Block : NodeAcceptBlock(b)
      PROVE  TriedInv'
  <2>1. UNCHANGED queueVars
    BY <1>4 DEF QuietStep, NodeConnectTip, NodeConnectSecondary, NodeReorgDisconnect,
       NodeReorgConnect, NodeReorgFails, NodeReorgCommit, Resurrect, ResurrectFails,
       DeleteRedundant, NodeAcceptBlock, poolVars
  <2>2. HandlerIdle
    BY <1>3, <1>4 DEF QuietStep, ConnectTipFails, Postpone, Reorganize, SecondaryFails, NewBest,
       NodeConnectTip, ConnectTip, NodeConnectSecondary, ConnectSecondary,
       NodeReorgDisconnect, ReorgDisconnect, NodeReorgConnect, ReorgConnect,
       NodeReorgFails, ReorgFails, NodeReorgCommit, ReorgCommit, Resurrect, ResurrectFails,
       DeleteRedundant, NodeAcceptBlock
  <2> QED BY <1>2, <2>1, <2>2
<1>5. ASSUME NEW t \in Tx, ReceiveTx(t) PROVE TriedInv'
  <2>1. CASE TxAccepted(t, dbTx, pindexBest)
    <3>1. brought' = {t} /\ vEraseQueue' = {t} /\ vWorkQueue' = <<t>>
      BY <2>1 DEF TxAccepted
    <3>2. t \in Range(vWorkQueue') BY <3>1 DEF Range
    <3> QED BY <3>1, <3>2 DEF TriedInv, StillToTry
  <2>2. CASE TxOrphaned(t, dbTx) \/ AcceptToMemoryPool(t, dbTx, pindexBest)
    BY <1>2, <2>2 DEF TxOrphaned, AcceptToMemoryPool
  <2> QED BY <1>5, <2>1, <2>2 DEF ReceiveTx
<1>6. ASSUME HandleTx PROVE TriedInv'
  <2>1. UNCHANGED <<dbTx, pindexBest>> BY <1>6 DEF HandleTx, vars, memVars, dbVars
  <2>2. CASE NextWork
    <3> DEFINE h == Head(vWorkQueue)
    <3>1. /\ vTry = {} /\ vWorkQueue # <<>> /\ vWorkQueue' = Tail(vWorkQueue)
          /\ vTry' = mapOrphanTransactionsByPrev[h]
          /\ UNCHANGED <<mapTx, mapNextTx, mapOrphanTransactions, vEraseQueue, brought>>
      BY <2>2 DEF NextWork, orphanVars
    <3>2. h \in Tx /\ Range(vWorkQueue) = {h} \cup Range(vWorkQueue')
      BY <1>1, <3>1, RangeTail DEF QueuesOK
    <3>3. vTry' = {t \in mapOrphanTransactions : h \in Prevs(t)}
      BY <1>1, <3>1, <3>2 DEF OrphansOK, OrphansIndexed, ByPrev
    <3>4. \A t \in mapOrphanTransactions : StillToTry(t) => StillToTry(t)'
      BY <3>1, <3>2, <3>3 DEF StillToTry
    <3>5. \A t : Acceptable(t, dbTx, pindexBest)' => Acceptable(t, dbTx, pindexBest)
      BY <2>1, <3>1 DEF Acceptable, Eligible, HaveInputs, Spendable
    <3> QED BY <3>1, <3>4, <3>5 DEF TriedInv
  <2>3. ASSUME NEW u \in Tx, OrphanAccepted(u, dbTx, pindexBest) PROVE TriedInv'
    <3>1. /\ addUnchecked(u) /\ vTry' = vTry \ {u} /\ vWorkQueue' = Append(vWorkQueue, u)
          /\ vEraseQueue' = vEraseQueue \cup {u} /\ brought' = brought \cup {u}
          /\ mapOrphanTransactions' = mapOrphanTransactions
      BY <2>3 DEF OrphanAccepted, orphanVars
    <3>2. Range(vWorkQueue') = Range(vWorkQueue) \cup {u}
      <4>1. vWorkQueue \in Seq(Tx) /\ <<u>> \in Seq(Tx) BY <1>1 DEF QueuesOK
      <4>2. vWorkQueue' = vWorkQueue \o <<u>> BY <3>1, <4>1
      <4>3. Range(<<u>>) = {u} BY DEF Range
      <4>4. Range(vWorkQueue \o <<u>>) = Range(vWorkQueue) \cup Range(<<u>>)
        BY <4>1, RangeConcat
      <4> QED BY <4>2, <4>3, <4>4
    <3>3. ASSUME NEW t \in mapOrphanTransactions, Prevs(t) \cap brought' # {},
                 ~StillToTry(t)', t \notin vEraseQueue', Acceptable(t, dbTx, pindexBest)'
          PROVE  FALSE
      <4>1. u \notin Prevs(t) /\ ~StillToTry(t) BY <3>1, <3>2, <3>3 DEF StillToTry
      <4>2. Acceptable(t, dbTx, pindexBest)
        BY <1>1, <2>1, <3>1, <3>3, <4>1, OnlyChildrenGain DEF OrphansOK
      <4> QED BY <3>1, <3>3, <4>1, <4>2 DEF TriedInv
    <3> QED BY <3>1, <3>3 DEF TriedInv
  <2>4. ASSUME NEW u \in Tx, OrphanRefused(u, dbTx, pindexBest) PROVE TriedInv'
    <3>1. /\ vTry' = vTry \ {u} /\ brought' = brought /\ vWorkQueue' = vWorkQueue
          /\ vEraseQueue' = vEraseQueue \cup IF MissingInputs(u, dbTx) THEN {} ELSE {u}
          /\ UNCHANGED <<mapTx, mapNextTx, mapOrphanTransactions>>
      BY <2>4 DEF OrphanRefused, orphanVars
    <3>2. u \in vEraseQueue' \/ ~Acceptable(u, dbTx, pindexBest)
      BY <3>1 DEF MissingInputs, Acceptable
    <3>3. \A t : Acceptable(t, dbTx, pindexBest)' => Acceptable(t, dbTx, pindexBest)
      BY <2>1, <3>1 DEF Acceptable, Eligible, HaveInputs, Spendable
    <3>4. \A t : t # u /\ StillToTry(t) => StillToTry(t)' BY <3>1 DEF StillToTry
    <3> QED BY <3>1, <3>2, <3>3, <3>4 DEF TriedInv
  <2>5. CASE EraseOrphans
    BY <2>5 DEF EraseOrphans, TriedInv
  <2> QED BY <1>6, <2>2, <2>3, <2>4, <2>5 DEF HandleTx, HandlerStep
<1>7. ASSUME NodeRestart PROVE TriedInv'
  BY <1>7 DEF NodeRestart, PoolRestart, TriedInv
<1>8. ASSUME UNCHANGED nodeVars PROVE TriedInv'
  <2>1. UNCHANGED <<mapTx, mapNextTx, mapOrphanTransactions, vWorkQueue, vTry, vEraseQueue,
                    brought, dbTx, pindexBest>>
    BY <1>8 DEF nodeVars, poolVars, orphanVars, queueVars, vars, memVars, dbVars
  <2> QED BY <2>1 DEF TriedInv, StillToTry, Acceptable, Eligible, HaveInputs, Spendable
<1> QED BY <1>4, <1>5, <1>6, <1>7, <1>8 DEF NodeNext, NodeStep

(* When a "tx" message has been handled, every stored orphan that waited   *)
(* for what it brought in has been tried, and none of them could be        *)
(* accepted: one that an earlier orphan made acceptable had a further turn.*)
THEOREM OrphansFollowed == NodeSpec => NoOrphanLeftBehind
<1> DEFINE I == ChainOK /\ MapsInv /\ PoolInv /\ TriedInv
           A == EraseOrphans =>
                  \A t \in mapOrphanTransactions' :
                    Prevs(t) \cap brought # {} => ~Acceptable(t, dbTx, pindexBest)
<1>1. NodeInit => I
  <2>1. NodeInit => TriedInv BY DEF NodeInit, PoolInit, TriedInv
  <2> QED BY <2>1, ChainOKStep, MapsInit, PoolInvInit
<1>2. I /\ [NodeNext]_nodeVars => I' BY ChainOKStep, MapsStep, PoolStep, TriedStep
<1>3. I => A
  <2> SUFFICES ASSUME I, EraseOrphans, NEW t \in mapOrphanTransactions',
                      Prevs(t) \cap brought # {}
               PROVE  ~Acceptable(t, dbTx, pindexBest)
    OBVIOUS
  <2>1. /\ t \in mapOrphanTransactions /\ t \notin vEraseQueue
        /\ vWorkQueue = <<>> /\ vTry = {}
    BY DEF EraseOrphans, EraseOrphanTx
  <2>2. ~StillToTry(t) BY <2>1, RangeEmpty DEF StillToTry
  <2> QED BY <2>1, <2>2 DEF TriedInv
<1> QED BY <1>1, <1>2, <1>3, PTL DEF NodeSpec, NoOrphanLeftBehind

---------------------------------------------------------------------------
(* Block assembly. *)

(* The steps of the miner are steps of the node, or leave it alone. *)
LEMMA MinerSteps == ASSUME [MinerNext]_allVars PROVE [NodeNext]_nodeVars
BY DEF MinerNext, BeginBlock, Collect, TakeAdded, TakePassed, BlockMade, SignBlock, Others, Crash,
       NodeNext, allVars

---------------------------------------------------------------------------
(* The best block *)

(* SetBestChain is never called for the best block. *)
Elsewhere == pc # "idle" => pindexNew # pindexBest

(* It stays so, -startfrom included. *)
LEMMA ElsewhereStep ==
  ASSUME SafetyInv, Elsewhere, [Next]_vars
  PROVE  Elsewhere'
<1> USE DEF SafetyInv, Elsewhere
<1>1. ASSUME NEW b \in Block, AcceptBlock(b) PROVE Elsewhere'
  BY <1>1 DEF AcceptBlock, Indexed, CallSetBestChain, Return
<1>2. ASSUME Step PROVE Elsewhere'
  BY <1>2 DEF Step, ConnectTip, ConnectTipFails, Postpone, Reorganize, ReorgDisconnect,
     ReorgConnect, ReorgFails, ReorgCommit, ConnectSecondary, SecondaryFails, NewBest,
     Return, memVars
<1>3. ASSUME Restart PROVE Elsewhere' BY <1>3 DEF Restart, Return
<1>4. ASSUME NEW h \in StartFrom, RestartFrom(h) PROVE Elsewhere'
  <2> DEFINE a == CHOOSE a \in Chain[dbBest] : Height[a] = h - 1
  <2>1. dbBest \in Block /\ h < Height[dbBest] /\ pindexNew' = a /\ pindexBest' = dbBest
    BY <1>4 DEF RestartFrom, LoadBlockIndex, CallSetBestChain, TypeOK
  <2>2. \E x \in Chain[dbBest] : Height[x] = h - 1
    <3>1. h \in Nat \ {0} /\ Height[dbBest] \in Nat BY <2>1, TrustAssumption, TreeAssumption
    <3>2. h - 1 \in 0 .. Height[dbBest] BY <2>1, <3>1
    <3> QED BY <2>1, <3>2, Branches DEF IsBranch
  <2>3. Height[a] = h - 1 BY <2>2
  <2>4. h \in Nat /\ Height[dbBest] \in Nat BY <2>1, TrustAssumption, TreeAssumption
  <2> HIDE DEF a
  <2> QED BY <2>1, <2>3, <2>4
<1>5. ASSUME UNCHANGED vars PROVE Elsewhere' BY <1>5 DEF vars, memVars, callVars
<1> QED BY <1>1, <1>2, <1>3, <1>4, <1>5 DEF Next

(* Without a restart the best block only becomes pindexNew, a call goes on *)
(* with the same argument, and a torn chain stays torn.                    *)
LEMMA BestMoves ==
  ASSUME SafetyInv, Step \/ (\E b \in Block : AcceptBlock(b)) \/ UNCHANGED vars
  PROVE  /\ pindexBest' # pindexBest => pc # "idle" /\ pindexBest' = pindexNew
         /\ pc' # "idle" => \/ pc # "idle" /\ pindexNew' = pindexNew
                            \/ pindexNew' \notin mapBlockIndex
         /\ fTorn => fTorn'
         /\ mapBlockIndex \subseteq mapBlockIndex'
<1>1. CASE Step
  BY <1>1 DEF Step, ConnectTip, ConnectTipFails, Postpone, Reorganize, ReorgDisconnect,
     ReorgConnect, ReorgFails, ReorgCommit, ConnectSecondary, SecondaryFails, NewBest,
     Return, CommitInner, memVars
<1>2. CASE \E b \in Block : AcceptBlock(b) BY <1>2 DEF AcceptBlock, CallSetBestChain, Return
<1>3. CASE UNCHANGED vars BY <1>3 DEF vars, memVars, callVars
<1> QED BY <1>1, <1>2, <1>3

---------------------------------------------------------------------------
(* The block *)

(* The transactions of the block can follow the index s, one by one. *)
PlacedAt(s, i) ==
  /\ s[vtx[i]] = NULL
  /\ \A j \in 1 .. i - 1 : Vin[vtx[i]] \cap Vin[vtx[j]] = {}
  /\ \A o \in Vin[vtx[i]] :
       \/ \E j \in 1 .. i - 1 : vtx[j] = o[1]
       \/ /\ s[o[1]] # NULL /\ s[o[1]].vSpent[o[2]] = NULL
          /\ o[1] \in CoinBase \cup CoinStake => s[o[1]].pos \notin Immature(pindexPrev)
Placed(s) == \A i \in DOMAIN vtx : PlacedAt(s, i)

AssemblyInv ==
  /\ miner \in {"off", "begun", "collecting", "made", "signed"}
  /\ vtx \in Seq(Tx)
  /\ miner \in {"off", "begun"} => vtx = <<>>
  /\ miner # "off" => /\ pindexPrev \in mapBlockIndex
                      /\ pc # "idle" => pindexNew # pindexPrev
  /\ miner = "collecting" =>
       /\ pc = "idle"
       /\ vecPriority \subseteq mapTx
       /\ \A p \in Tx : mapDependers[p] \subseteq mapTx
  /\ miner # "off" /\ ~fTorn /\ pindexPrev = pindexBest => Placed(LedgerAt[pindexPrev])

MinerInv == SafetyInv /\ Elsewhere /\ MapsInv /\ PoolInv /\ AssemblyInv

(* A transaction that connects on top of the block so far is put at its end. *)
LEMMA PlacedAppend ==
  ASSUME vtx \in Seq(Tx), NEW t \in Tx, Placed(dbTx), dbTx[t] = NULL, ConnectsInBlock(t),
         vtx' = Append(vtx, t), UNCHANGED <<dbTx, pindexPrev>>
  PROVE  Placed(dbTx)'
<1>1. DOMAIN vtx' = 1 .. (Len(vtx) + 1) /\ DOMAIN vtx = 1 .. Len(vtx) /\ Len(vtx) \in Nat
      /\ vtx'[Len(vtx) + 1] = t /\ \A i \in 1 .. Len(vtx) : vtx'[i] = vtx[i]
  OBVIOUS
<1> SUFFICES ASSUME NEW i \in DOMAIN vtx' PROVE PlacedAt(dbTx, i)' BY DEF Placed
<1> USE DEF PlacedAt
<1>2. CASE i \in DOMAIN vtx
  <2>1. vtx'[i] = vtx[i] /\ \A j \in 1 .. i - 1 : vtx'[j] = vtx[j] BY <1>1, <1>2
  <2> QED BY <1>2, <2>1 DEF Placed
<1>3. CASE i = Len(vtx) + 1
  <2>1. vtx'[i] = t /\ \A j \in 1 .. i - 1 : vtx'[j] = vtx[j] /\ vtx[j] \in InBlock
    BY <1>1, <1>3 DEF InBlock, Range
  <2>2. \A u \in InBlock : \E j \in 1 .. i - 1 : vtx'[j] = u BY <1>1, <1>3 DEF InBlock, Range
  <2>3. \A j \in 1 .. i - 1 : Vin[t] \cap Vin[vtx[j]] = {} BY <2>1 DEF ConnectsInBlock
  <2>4. \A o \in Vin[t] :
          \/ o[1] \in InBlock
          \/ /\ dbTx[o[1]] # NULL /\ dbTx[o[1]].vSpent[o[2]] = NULL
             /\ o[1] \in CoinBase \cup CoinStake => dbTx[o[1]].pos \notin Immature(pindexPrev)
    BY DEF ConnectsInBlock
  <2> QED BY <2>1, <2>2, <2>3, <2>4
<1>4. i \in DOMAIN vtx \/ i = Len(vtx) + 1 BY <1>1
<1> QED BY <1>2, <1>3, <1>4

(* A list of transactions has a latest one. *)
LEMMA Latest ==
  ASSUME NEW s \in Seq(Tx), NEW n \in Nat
  PROVE  LET S == {n} \cup {TxTime[t] : t \in Range(s)}
         IN  \E m \in S : \A y \in S : m >= y
<1> DEFINE T(k) == {n} \cup {TxTime[s[j]] : j \in 1 .. k}
           Bad == {k \in 0 .. Len(s) : ~\E m \in T(k) : \A y \in T(k) : m >= y}
<1>1. Len(s) \in Nat /\ DOMAIN s = 1 .. Len(s) /\ \A j \in 1 .. Len(s) : TxTime[s[j]] \in Nat
  BY MinerAssumption
<1>2. Bad = {}
  <2> SUFFICES ASSUME Bad # {} PROVE FALSE OBVIOUS
  <2>1. PICK k \in Bad : \A l \in Bad : k <= l
    <3>1. Bad \in SUBSET Nat BY <1>1
    <3> HIDE DEF Bad
    <3> QED BY <3>1, Least
  <2>2. CASE k = 0
    <3>1. T(0) = {n} OBVIOUS
    <3> QED BY <2>1, <2>2, <3>1
  <2>3. CASE k # 0
    <3>1. k \in Nat /\ k - 1 \in 0 .. Len(s) /\ k \in 1 .. Len(s) /\ k - 1 \notin Bad
      <4>1. k \in 0 .. Len(s) BY <2>1
      <4>2. k \in Nat /\ k - 1 \in 0 .. Len(s) /\ k \in 1 .. Len(s) /\ ~(k <= k - 1)
        BY <1>1, <2>3, <4>1
      <4> HIDE DEF Bad
      <4> QED BY <2>1, <4>2
    <3>2. PICK m \in T(k - 1) : \A y \in T(k - 1) : m >= y BY <3>1
    <3>3. T(k) = T(k - 1) \cup {TxTime[s[k]]}
      <4>1. 1 .. k = 1 .. (k - 1) \cup {k} BY <3>1
      <4> QED BY <4>1
    <3>4. TxTime[s[k]] \in Nat /\ T(k - 1) \subseteq Nat
      <4>1. \A j \in 1 .. (k - 1) : j \in 1 .. Len(s) BY <1>1, <3>1
      <4> QED BY <1>1, <3>1, <4>1
    <3> HIDE DEF T
    <3>5. CASE m >= TxTime[s[k]]
      <4>1. m \in T(k) /\ \A y \in T(k) : m >= y BY <3>2, <3>3, <3>5
      <4> QED BY <2>1, <4>1
    <3>6. CASE ~(m >= TxTime[s[k]])
      <4>1. \A y \in T(k) : TxTime[s[k]] >= y BY <3>2, <3>3, <3>4, <3>6
      <4> QED BY <2>1, <3>3, <4>1
    <3> QED BY <3>5, <3>6
  <2> QED BY <2>2, <2>3
<1>3. T(Len(s)) = {n} \cup {TxTime[t] : t \in Range(s)} BY <1>1 DEF Range
<1>4. Len(s) \in 0 .. Len(s) BY <1>1
<1> HIDE DEF T
<1> QED BY <1>2, <1>3, <1>4

(* SignBlock erases nothing: the block is at least as late as the latest   *)
(* of its transactions.                                                    *)
LEMMA SignErasesNothing ==
  ASSUME vtx \in Seq(Tx), NEW n \in StakeTime, SignBlock(n)
  PROVE  vtx' = vtx
<1> DEFINE S == {n} \cup {TxTime[t] : t \in InBlock}
           early == {t \in Tx : TxTime[t] <= nTime'}
<1>1. nTime' \in S /\ \A y \in S : nTime' >= y
  <2>1. n \in Nat BY MinerAssumption
  <2>2. \E m \in S : \A y \in S : m >= y BY <2>1, Latest DEF InBlock
  <2>3. nTime' = CHOOSE m \in S : \A y \in S : m >= y BY DEF SignBlock, Max
  <2> HIDE DEF S
  <2> QED BY <2>2, <2>3
<1>2. DOMAIN vtx = 1 .. Len(vtx) /\ Len(vtx) \in Nat /\ \A i \in 1 .. Len(vtx) : vtx[i] \in Tx
  OBVIOUS
<1>3. ASSUME NEW i \in 1 .. Len(vtx) PROVE vtx[i] \in early
  <2>1. vtx[i] \in InBlock /\ vtx[i] \in Tx BY <1>2 DEF InBlock, Range
  <2>2. nTime' >= TxTime[vtx[i]] /\ TxTime[vtx[i]] \in Nat BY <1>1, <2>1, MinerAssumption
  <2>3. nTime' \in Nat
    <3>1. \A t \in InBlock : t \in Tx BY <1>2 DEF InBlock, Range
    <3> QED BY <1>1, <3>1, MinerAssumption
  <2> QED BY <2>1, <2>2, <2>3
<1>4. vtx' = Kept(vtx, early) BY DEF SignBlock
<1>5. InOrder(Kept(vtx, early), vtx, early, Len(vtx)) BY KeptIs
<1>6. Kept(vtx, early) = [i \in 1 .. Len(vtx) |-> vtx[i]]
  <2> HIDE DEF early
  <2> QED BY <1>3, <1>5 DEF InOrder
<1> QED BY <1>2, <1>4, <1>6

---------------------------------------------------------------------------
(* Every step keeps the assembly in order. *)
LEMMA AssemblyStep ==
  ASSUME MinerInv, [MinerNext]_allVars
  PROVE  AssemblyInv'
<1> USE DEF AssemblyInv
<1>0. SafetyInv /\ TypeOK /\ Indexed /\ LedgerInv /\ Elsewhere /\ MapsInv /\ PoolInv /\ AssemblyInv
  BY DEF MinerInv, SafetyInv
<1>1. ASSUME UNCHANGED nodeVars
      PROVE  UNCHANGED <<mapBlockIndex, pc, pindexNew, pindexBest, fTorn, dbTx, mapTx>>
  BY <1>1 DEF nodeVars, vars, memVars, callVars, dbVars, poolVars
<1>2. ASSUME BeginBlock PROVE AssemblyInv'
  <2>1. miner' = "begun" /\ pindexPrev' = pindexBest /\ vtx' = <<>> /\ UNCHANGED nodeVars
    BY <1>2 DEF BeginBlock
  <2>2. Placed(LedgerAt[pindexPrev])' BY <2>1 DEF Placed, PlacedAt
  <2> QED BY <1>0, <1>1, <2>1, <2>2 DEF Elsewhere, Indexed
<1>3. ASSUME Collect PROVE AssemblyInv'
  <2> DEFINE whole == {t \in mapTx : ~IsMissing(t)}
             waiting == {t \in whole : Awaited(t) # {}}
  <2>1. /\ miner = "begun" /\ miner' = "collecting" /\ pc = "idle"
        /\ UNCHANGED <<nodeVars, pindexPrev, vtx>> /\ vecPriority' = whole \ waiting
    BY <1>3 DEF Collect
  <2>2. \A p \in Tx : mapDependers'[p] \subseteq mapTx BY <1>3 DEF Collect
  <2>3. Placed(LedgerAt[pindexPrev])'
    <3>1. vtx' = <<>> BY <1>0, <2>1
    <3> QED BY <3>1 DEF Placed
  <2> QED BY <1>0, <1>1, <2>1, <2>2, <2>3
<1>4. ASSUME NEW t \in Tx, TakeAdded(t) PROVE AssemblyInv'
  <2>1. /\ miner = "collecting" /\ t \in vecPriority /\ ConnectsInBlock(t)
        /\ vtx' = Append(vtx, t) /\ UNCHANGED <<nodeVars, miner, pindexPrev, mapDependers>>
    BY <1>4 DEF TakeAdded
  <2>2. vecPriority' \subseteq mapTx BY <1>0, <1>4 DEF TakeAdded
  <2>3. pc = "idle" /\ t \in mapTx BY <1>0, <2>1
  <2>4. ASSUME ~fTorn, pindexPrev = pindexBest PROVE Placed(LedgerAt[pindexPrev])'
    <3>1. dbTx = LedgerAt[pindexPrev] /\ dbTx' = dbTx
      BY <1>0, <1>1, <2>1, <2>3, <2>4 DEF LedgerInv
    <3>2. Placed(dbTx) BY <1>0, <2>1, <2>4, <3>1
    <3>3. dbTx[t] = NULL BY <1>0, <2>3 DEF PoolInv, NoneConfirmed
    <3>4. Placed(dbTx)' BY <1>0, <2>1, <3>1, <3>2, <3>3, PlacedAppend
    <3> QED BY <2>1, <3>1, <3>4
  <2>5. vtx' \in Seq(Tx) BY <1>0, <2>1
  <2> QED BY <1>0, <1>1, <2>1, <2>2, <2>3, <2>4, <2>5
<1>5. ASSUME NEW t \in Tx, TakePassed(t) PROVE AssemblyInv'
  <2>1. /\ UNCHANGED <<nodeVars, miner, pindexPrev, vtx, mapDependers>>
        /\ vecPriority' \subseteq vecPriority /\ miner = "collecting"
    BY <1>5 DEF TakePassed
  <2>2. Placed(LedgerAt[pindexPrev]) => Placed(LedgerAt[pindexPrev])' BY <2>1 DEF Placed, PlacedAt
  <2> QED BY <1>0, <1>1, <2>1, <2>2
<1>6. ASSUME BlockMade PROVE AssemblyInv'
  <2>1. /\ UNCHANGED <<nodeVars, pindexPrev, vtx>> /\ miner = "collecting" /\ miner' = "made"
    BY <1>6 DEF BlockMade
  <2>2. Placed(LedgerAt[pindexPrev]) => Placed(LedgerAt[pindexPrev])' BY <2>1 DEF Placed, PlacedAt
  <2> QED BY <1>0, <1>1, <2>1, <2>2
<1>7. ASSUME NEW n \in StakeTime, SignBlock(n) PROVE AssemblyInv'
  <2>1. /\ UNCHANGED <<nodeVars, pindexPrev>> /\ miner = "made" /\ miner' = "signed"
    BY <1>7 DEF SignBlock
  <2>2. vtx' = vtx BY <1>0, <1>7, SignErasesNothing
  <2>3. Placed(LedgerAt[pindexPrev]) => Placed(LedgerAt[pindexPrev])' BY <2>1, <2>2 DEF Placed, PlacedAt
  <2> QED BY <1>0, <1>1, <2>1, <2>2, <2>3
<1>8. ASSUME Others PROVE AssemblyInv'
  <2>1. miner # "collecting" /\ UNCHANGED <<miner, pindexPrev, vtx>> BY <1>8 DEF Others, minerVars
  <2>2. Step \/ (\E b \in Block : AcceptBlock(b)) \/ UNCHANGED vars
    BY <1>8 DEF Others, NodeStep, QuietStep, NodeAcceptBlock, NodeConnectTip, NodeConnectSecondary,
       NodeReorgDisconnect, NodeReorgConnect, NodeReorgFails, NodeReorgCommit, Resurrect,
       ResurrectFails, DeleteRedundant, HandleTx, ReceiveTx, Step
  <2>3. /\ pindexBest' # pindexBest => pc # "idle" /\ pindexBest' = pindexNew
        /\ pc' # "idle" => \/ pc # "idle" /\ pindexNew' = pindexNew
                           \/ pindexNew' \notin mapBlockIndex
        /\ fTorn => fTorn'
        /\ mapBlockIndex \subseteq mapBlockIndex'
    BY <1>0, <2>2, BestMoves
  <2>4. ASSUME miner # "off", ~fTorn', pindexPrev = pindexBest' PROVE Placed(LedgerAt[pindexPrev])'
    <3>1. pindexPrev = pindexBest /\ ~fTorn BY <1>0, <2>3, <2>4
    <3>2. Placed(LedgerAt[pindexPrev]) BY <1>0, <2>4, <3>1
    <3> QED BY <2>1, <3>2 DEF Placed, PlacedAt
  <2> QED BY <1>0, <2>1, <2>3, <2>4
<1>9. ASSUME Crash PROVE AssemblyInv' BY <1>9 DEF Crash
<1>10. ASSUME UNCHANGED allVars PROVE AssemblyInv'
  <2>1. UNCHANGED nodeVars /\ UNCHANGED minerVars BY <1>10 DEF allVars
  <2>2. UNCHANGED <<miner, pindexPrev, vtx, vecPriority, mapDependers>> BY <2>1 DEF minerVars
  <2>3. Placed(LedgerAt[pindexPrev]) => Placed(LedgerAt[pindexPrev])' BY <2>2 DEF Placed, PlacedAt
  <2> QED BY <1>0, <1>1, <2>1, <2>2, <2>3
<1> QED BY <1>2, <1>3, <1>4, <1>5, <1>6, <1>7, <1>8, <1>9, <1>10 DEF MinerNext

(* A block that is not stale connects on top of the best chain, whenever   *)
(* CreateNewBlock read its parent and whatever the chain and the pool have *)
(* been through since, until a postponed block fails.                      *)
THEOREM AssembledConnects == MinerSpec => []BlockConnects
<1>1. MinerInit => MinerInv
  <2> SUFFICES ASSUME MinerInit PROVE MinerInv OBVIOUS
  <2>1. NodeInit BY DEF MinerInit
  <2>2. SafetyInv /\ ChainOK BY <2>1, SafetyInductive, ChainOKStep DEF NodeInit
  <2>3. Elsewhere BY <2>1 DEF NodeInit, Init, Elsewhere
  <2>4. AssemblyInv
    <3>1. miner = "off" /\ vtx = <<>> BY DEF MinerInit, MinerStart
    <3> QED BY <3>1 DEF AssemblyInv
  <2> QED BY <2>1, <2>2, <2>3, <2>4, MapsInit, PoolInvInit DEF MinerInv
<1>2. MinerInv /\ [MinerNext]_allVars => MinerInv'
  <2> SUFFICES ASSUME MinerInv, [MinerNext]_allVars PROVE MinerInv' OBVIOUS
  <2>1. [NodeNext]_nodeVars /\ [Next]_vars BY MinerSteps, ChainSteps
  <2>2. ChainOK BY DEF MinerInv, SafetyInv, ChainOK
  <2>3. SafetyInv' BY <2>1, SafetyInductive DEF MinerInv
  <2>4. MapsInv' /\ PoolInv' BY <2>1, <2>2, MapsStep, PoolStep DEF MinerInv
  <2>5. Elsewhere' BY <2>1, ElsewhereStep DEF MinerInv
  <2> QED BY <2>3, <2>4, <2>5, AssemblyStep DEF MinerInv
<1>3. MinerInv => BlockConnects
  <2> SUFFICES ASSUME MinerInv, NotStale, ~fTorn PROVE
        \A i \in DOMAIN vtx :
          /\ MayOverwrite(dbTx, vtx[i])
          /\ \A j \in 1 .. i - 1 : Vin[vtx[i]] \cap Vin[vtx[j]] = {}
          /\ \A o \in Vin[vtx[i]] :
               \/ \E j \in 1 .. i - 1 : vtx[j] = o[1]
               \/ /\ dbTx[o[1]] # NULL /\ dbTx[o[1]].vSpent[o[2]] = NULL
                  /\ o[1] \in CoinBase \cup CoinStake =>
                       Height[pindexPrev] + 1 - Height[dbTx[o[1]].pos] >= Maturity
    BY DEF BlockConnects
  <2>1. /\ pindexBest \in Block /\ dbTx = LedgerAt[pindexPrev] /\ pindexPrev = pindexBest
        /\ Placed(dbTx)
    BY DEF MinerInv, SafetyInv, LedgerInv, TypeOK, AssemblyInv, NotStale
  <2>2. \A p \in Tx : dbTx[p] # NULL => dbTx[p].pos \in Chain[pindexPrev]
    BY <2>1, Recorded DEF InTheirBlocks
  <2>3. ASSUME NEW p \in Tx, dbTx[p] # NULL, dbTx[p].pos \notin Immature(pindexPrev)
        PROVE  Height[pindexPrev] + 1 - Height[dbTx[p].pos] >= Maturity
    <3>1. dbTx[p].pos \in Block /\ ~(Height[pindexPrev] - Height[dbTx[p].pos] < Maturity)
      BY <2>1, <2>2, <2>3, TreeAssumption DEF Immature
    <3> QED BY <2>1, <3>1, TreeAssumption, TxAssumption
  <2>4. ASSUME NEW i \in DOMAIN vtx, NEW o \in Vin[vtx[i]] PROVE o[1] \in Tx
    <3>1. vtx[i] \in Tx BY DEF MinerInv, AssemblyInv
    <3> QED BY <3>1, TxAssumption
  <2> QED BY <2>1, <2>3, <2>4 DEF Placed, PlacedAt, MayOverwrite
<1> QED BY <1>1, <1>2, <1>3, PTL DEF MinerSpec
============================================================================
