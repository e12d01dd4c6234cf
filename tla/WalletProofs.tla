--------------------------- MODULE WalletProofs ----------------------------
(***************************************************************************)
(* Proofs about Wallet, for every block tree, set of transactions and      *)
(* choice of the outputs that are mine: what the wallet knows of the best  *)
(* chain.                                                                  *)
(*                                                                         *)
(* The wallet is told of a block while it is connected, before its batch   *)
(* is committed, and of a disconnected one only for its coinstakes.  So    *)
(* what it knows has to be compared with the index as read through the     *)
(* batch; and the comparison survives the loss of a batch and a rescan     *)
(* from any block below, because a ledger only says more than those of the *)
(* blocks below it (no transaction is indexed twice on a valid branch).    *)
(*                                                                         *)
(* A pass of ReacceptWalletTransactions leaves nothing behind it that the  *)
(* pool would take, if it carries what it depends on (GoneThrough).        *)
(***************************************************************************)
EXTENDS Wallet, NodeProofs

---------------------------------------------------------------------------
(* Repetition *)

(* What holds at 0 and is handed on holds up to N. *)
LEMMA CountUp ==
  ASSUME NEW N \in Nat, NEW S, 0 \in S, \A n \in 1 .. N : n - 1 \in S => n \in S
  PROVE  \A n \in 0 .. N : n \in S
<1> DEFINE Bad == (0 .. N) \ S
<1> SUFFICES ASSUME Bad # {} PROVE FALSE OBVIOUS
<1>1. PICK m \in Bad : \A k \in Bad : m <= k
  <2>1. Bad \in SUBSET Nat OBVIOUS
  <2> HIDE DEF Bad
  <2> QED BY <2>1, Least
<1>2. m \in 1 .. N /\ m - 1 \in 0 .. N /\ m - 1 \notin Bad BY <1>1
<1> QED BY <1>1, <1>2

(* A loop over N steps has a course. *)
HasCourse(N, W, w, G) ==
  \E f \in [0 .. N -> W] : f[0] = w /\ \A n \in 1 .. N : f[n] = G[<<n, f[n - 1]>>]
LEMMA Iterated ==
  ASSUME NEW N \in Nat, NEW W, NEW w \in W, NEW G \in [(1 .. N) \X W -> W]
  PROVE  HasCourse(N, W, w, G)
<1> DEFINE P(f, m) == f[0] = w /\ \A n \in 1 .. m : f[n] = G[<<n, f[n - 1]>>]
           S == {m \in 0 .. N : \E f \in [0 .. m -> W] : P(f, m)}
<1>1. 0 \in S
  <2> DEFINE e == [n \in 0 .. 0 |-> w]
  <2>1. e \in [0 .. 0 -> W] /\ e[0] = w /\ (\A n \in 1 .. 0 : FALSE) /\ 0 \in 0 .. N OBVIOUS
  <2> HIDE DEF e
  <2>2. P(e, 0) BY <2>1
  <2> QED BY <2>1, <2>2
<1>2. ASSUME NEW m \in 1 .. N, m - 1 \in S PROVE m \in S
  <2>1. PICK f \in [0 .. (m - 1) -> W] : P(f, m - 1) BY <1>2
  <2> DEFINE g == [n \in 0 .. m |-> IF n = m THEN G[<<m, f[m - 1]>>] ELSE f[n]]
  <2>2. m - 1 \in 0 .. (m - 1) /\ f[m - 1] \in W /\ m \in 0 .. N OBVIOUS
  <2>3. g \in [0 .. m -> W]
    <3>1. G[<<m, f[m - 1]>>] \in W BY <2>2
    <3>2. \A n \in 0 .. m : n # m => n \in 0 .. (m - 1) OBVIOUS
    <3> QED BY <3>1, <3>2
  <2>4. g[0] = w BY <2>1
  <2>5. ASSUME NEW n \in 1 .. m PROVE g[n] = G[<<n, g[n - 1]>>]
    <3>1. n - 1 \in 0 .. m /\ n - 1 # m /\ g[n - 1] = f[n - 1] OBVIOUS
    <3>2. CASE n = m BY <3>1, <3>2
    <3>3. CASE n # m
      <4>1. n \in 1 .. (m - 1) /\ g[n] = f[n] BY <3>3
      <4> QED BY <2>1, <3>1, <4>1
    <3> QED BY <3>2, <3>3
  <2> HIDE DEF g
  <2> QED BY <2>2, <2>3, <2>4, <2>5
<1>3. N \in S
  <2> HIDE DEF S
  <2> QED BY <1>1, <1>2, CountUp
<1> QED BY <1>3 DEF HasCourse

---------------------------------------------------------------------------
(* One transaction *)

Wallets == {w \in [Tx -> {NULL} \cup UNION {CWalletTx(t) : t \in Tx}] : WalletType(w)}

LEMMA WalletsAre == \A w : w \in Wallets <=> WalletType(w)
<1> SUFFICES ASSUME NEW w, WalletType(w) PROVE w \in [Tx -> {NULL} \cup UNION {CWalletTx(t) : t \in Tx}]
  BY DEF Wallets
<1>1. w = [t \in Tx |-> w[t]] BY DEF WalletType
<1>2. \A t \in Tx : w[t] \in {NULL} \cup UNION {CWalletTx(t_1) : t_1 \in Tx} BY DEF WalletType
<1> QED BY <1>1, <1>2

(* The transactions the wallet has, and a coin it has for spent. *)
Has(w, t) == w[t] # NULL
Spent(w, o) == o[2] \in w[o[1]].vfSpent

(* A coin of the wallet is an output of its transaction. *)
LEMMA MineIs ==
  ASSUME NEW o \in Mine
  PROVE  /\ o[1] \in Tx /\ o[2] \in 0 .. NOut[o[1]] - 1 /\ o = <<o[1], o[2]>>
         /\ o \in OutputsOf(o[1]) /\ IsMine(o[1]) /\ Involved(o[1])
<1>1. o[1] \in Tx /\ o[2] \in Nat /\ o[2] < NOut[o[1]] /\ o = <<o[1], o[2]>>
  BY WalletAssumption
<1>2. o[2] \in 0 .. NOut[o[1]] - 1 BY <1>1, TxAssumption
<1>3. o \in OutputsOf(o[1]) BY <1>1, <1>2 DEF OutputsOf
<1> QED BY <1>1, <1>2, <1>3 DEF IsMine, Involved

(* An entry is changed only in its flags. *)
WithFlags(x, F) == [x EXCEPT !.vfSpent = F]
LEMMA FlagsOf ==
  ASSUME NEW t \in Tx, NEW x \in CWalletTx(t), NEW F \in SUBSET (0 .. NOut[t] - 1)
  PROVE  /\ WithFlags(x, F) \in CWalletTx(t) /\ WithFlags(x, F) # NULL
         /\ WithFlags(x, F).vfSpent = F /\ WithFlags(x, F).hashBlock = x.hashBlock
<1> DEFINE y == WithFlags(x, F)
<1>1. y \in CWalletTx(t) /\ y.vfSpent = F /\ y.hashBlock = x.hashBlock
  BY DEF CWalletTx, WithFlags
<1> QED BY <1>1, NullWalletAssumption

(* CWalletTx::MarkSpent of the coins of S. *)
LEMMA MarkSpentIs ==
  ASSUME NEW w \in Wallets, NEW S
  PROVE  LET v == MarkSpent(w, S) IN
         /\ v \in Wallets
         /\ \A t \in Tx : (Has(v, t) <=> Has(w, t)) /\ (Has(w, t) => v[t].hashBlock = w[t].hashBlock)
         /\ \A o \in Mine : Has(w, o[1]) => (Spent(v, o) <=> Spent(w, o) \/ o \in S)
<1> DEFINE v == MarkSpent(w, S)
           F(t) == w[t].vfSpent \cup {o[2] : o \in S \cap OutputsOf(t)}
<1>1. \A t \in Tx : v[t] = IF w[t] = NULL THEN NULL ELSE [w[t] EXCEPT !.vfSpent = F(t)]
  BY DEF MarkSpent
<1>2. \A t \in Tx : w[t] = NULL \/ w[t] \in CWalletTx(t) BY WalletsAre DEF WalletType
<1>3. \A t \in Tx : w[t] # NULL => F(t) \in SUBSET (0 .. NOut[t] - 1)
  BY <1>2 DEF CWalletTx, OutputsOf
<1>4. ASSUME NEW t \in Tx, w[t] # NULL
      PROVE  v[t] \in CWalletTx(t) /\ v[t] # NULL /\ v[t].vfSpent = F(t) /\ v[t].hashBlock = w[t].hashBlock
  <2>1. v[t] = WithFlags(w[t], F(t)) BY <1>1, <1>4 DEF WithFlags
  <2>2. w[t] \in CWalletTx(t) /\ F(t) \in SUBSET (0 .. NOut[t] - 1) BY <1>2, <1>3, <1>4
  <2> HIDE DEF F, v
  <2> QED BY <2>1, <2>2, FlagsOf
<1>5. v \in Wallets
  <2>1. v = [t \in Tx |-> v[t]] BY DEF MarkSpent
  <2> HIDE DEF v
  <2> QED BY <1>1, <1>4, <2>1, WalletsAre DEF WalletType
<1>6. ASSUME NEW o \in Mine, w[o[1]] # NULL PROVE Spent(v, o) <=> Spent(w, o) \/ o \in S
  <2>1. o[1] \in Tx /\ o = <<o[1], o[2]>> /\ o \in OutputsOf(o[1]) BY MineIs
  <2>2. \A x \in OutputsOf(o[1]) : x[1] = o[1] /\ x = <<x[1], x[2]>> BY DEF OutputsOf
  <2>3. \A x \in S \cap OutputsOf(o[1]) : x[2] = o[2] => x = o BY <2>1, <2>2
  <2>4. v[o[1]].vfSpent = F(o[1]) BY <1>4, <1>6, <2>1
  <2> HIDE DEF v
  <2> QED BY <2>1, <2>3, <2>4 DEF Spent
<1> HIDE DEF v
<1>7. \A t \in Tx : w[t] = NULL => v[t] = NULL BY <1>1
<1> QED BY <1>4, <1>5, <1>6, <1>7 DEF v, Has

(* CWalletTx::MarkUnspent of the coins of S. *)
LEMMA MarkUnspentIs ==
  ASSUME NEW w \in Wallets, NEW S
  PROVE  LET v == MarkUnspent(w, S) IN
         /\ v \in Wallets
         /\ \A t \in Tx : (Has(v, t) <=> Has(w, t)) /\ (Has(w, t) => v[t].hashBlock = w[t].hashBlock)
         /\ \A o \in Mine : Has(w, o[1]) => (Spent(v, o) <=> Spent(w, o) /\ o \notin S)
<1> DEFINE v == MarkUnspent(w, S)
           F(t) == w[t].vfSpent \ {o[2] : o \in S \cap OutputsOf(t)}
<1>1. \A t \in Tx : v[t] = IF w[t] = NULL THEN NULL ELSE [w[t] EXCEPT !.vfSpent = F(t)]
  BY DEF MarkUnspent
<1>2. \A t \in Tx : w[t] = NULL \/ w[t] \in CWalletTx(t) BY WalletsAre DEF WalletType
<1>3. \A t \in Tx : w[t] # NULL => F(t) \in SUBSET (0 .. NOut[t] - 1)
  BY <1>2 DEF CWalletTx
<1>4. ASSUME NEW t \in Tx, w[t] # NULL
      PROVE  v[t] \in CWalletTx(t) /\ v[t] # NULL /\ v[t].vfSpent = F(t) /\ v[t].hashBlock = w[t].hashBlock
  <2>1. v[t] = WithFlags(w[t], F(t)) BY <1>1, <1>4 DEF WithFlags
  <2>2. w[t] \in CWalletTx(t) /\ F(t) \in SUBSET (0 .. NOut[t] - 1) BY <1>2, <1>3, <1>4
  <2> HIDE DEF F, v
  <2> QED BY <2>1, <2>2, FlagsOf
<1>5. v \in Wallets
  <2>1. v = [t \in Tx |-> v[t]] BY DEF MarkUnspent
  <2> HIDE DEF v
  <2> QED BY <1>1, <1>4, <2>1, WalletsAre DEF WalletType
<1>6. ASSUME NEW o \in Mine, w[o[1]] # NULL PROVE Spent(v, o) <=> Spent(w, o) /\ o \notin S
  <2>1. o[1] \in Tx /\ o = <<o[1], o[2]>> /\ o \in OutputsOf(o[1]) BY MineIs
  <2>2. \A x \in OutputsOf(o[1]) : x[1] = o[1] /\ x = <<x[1], x[2]>> BY DEF OutputsOf
  <2>3. \A x \in S \cap OutputsOf(o[1]) : x[2] = o[2] => x = o BY <2>1, <2>2
  <2>4. v[o[1]].vfSpent = F(o[1]) BY <1>4, <1>6, <2>1
  <2> HIDE DEF v
  <2> QED BY <2>1, <2>3, <2>4 DEF Spent
<1> HIDE DEF v
<1>7. \A t \in Tx : w[t] = NULL => v[t] = NULL BY <1>1
<1> QED BY <1>4, <1>5, <1>6, <1>7 DEF v, Has

(* An entry made by a block or the pool has no copies. *)
LEMMA NoCopies == \A t : <<>> \in Copies(t)
<1> SUFFICES ASSUME NEW t PROVE <<>> \in Copies(t)
  OBVIOUS
<1>1. <<>> \in Seq(Supporting(t)) /\ DOMAIN <<>> = {} OBVIOUS
<1> QED BY <1>1 DEF Copies

(* What is found in v when the wallet w has recorded or merged t, seen in  *)
(* the block h or (NULL) in none: a block clears the flags of the          *)
(* transaction's own outputs, and the coins it spends are marked.          *)
Heard(w, t, h, v, known) ==
  /\ v \in Wallets
  /\ \A u \in Tx : Has(v, u) <=> Has(w, u) \/ (u = t /\ known)
  /\ \A u \in Tx : Has(w, u) /\ (u # t \/ h = NULL) => v[u].hashBlock = w[u].hashBlock
  /\ Has(v, t) /\ (h # NULL \/ ~Has(w, t)) => v[t].hashBlock = h
  /\ \A o \in Mine : Has(v, o[1]) =>
       (Spent(v, o) <=> /\ ~(o[1] = t /\ (h # NULL \/ ~Has(w, t)))
                        /\ Spent(w, o) \/ o \in Vin[t])

(* CWallet::AddToWallet inserts or merges. *)
LEMMA AddedIs ==
  ASSUME NEW w \in Wallets, NEW t \in Tx, NEW h \in Block \cup {NULL}, NEW p \in Copies(t)
  PROVE  Heard(w, t, h, AddToWallet(w, t, h, p), TRUE)
<1> DEFINE new == [hashBlock |-> h, vfSpent |-> {}, vtxPrev |-> p]
           old == [w[t] EXCEPT !.hashBlock = IF h = NULL THEN w[t].hashBlock ELSE h]
           x == [w EXCEPT ![t] = IF w[t] = NULL THEN new ELSE old]
           m == MarkSpent(x, Vin[t] \cap Mine)
           v == AddToWallet(w, t, h, p)
<1>1. w = [u \in Tx |-> w[u]] /\ \A u \in Tx : w[u] = NULL \/ w[u] \in CWalletTx(u)
  BY WalletsAre DEF WalletType
<1>2. new \in CWalletTx(t) BY DEF CWalletTx
<1>3. w[t] # NULL => /\ old \in CWalletTx(t) /\ old.vfSpent = w[t].vfSpent
                     /\ old.hashBlock = IF h = NULL THEN w[t].hashBlock ELSE h
  <2> SUFFICES ASSUME w[t] # NULL
               PROVE  /\ old \in CWalletTx(t) /\ old.vfSpent = w[t].vfSpent
                      /\ old.hashBlock = IF h = NULL THEN w[t].hashBlock ELSE h
    OBVIOUS
  <2>1. w[t] \in CWalletTx(t) BY <1>1
  <2> QED BY <2>1 DEF CWalletTx
<1>4. x[t] = (IF w[t] = NULL THEN new ELSE old) /\ \A u \in Tx : u # t => x[u] = w[u]
  BY <1>1
<1>5. x \in Wallets /\ Has(x, t)
  <2>1. x = [u \in Tx |-> x[u]] BY <1>1
  <2>2. x[t] \in CWalletTx(t) BY <1>2, <1>3, <1>4
  <2> HIDE DEF x, new, old
  <2> QED BY <1>1, <1>4, <2>1, <2>2, WalletsAre, NullWalletAssumption DEF WalletType, Has
<1>6. /\ \A u \in Tx : Has(x, u) <=> Has(w, u) \/ u = t
      /\ \A u \in Tx : Has(w, u) /\ (u # t \/ h = NULL) => x[u].hashBlock = w[u].hashBlock
      /\ (h # NULL \/ ~Has(w, t)) => x[t].hashBlock = h
      /\ \A o \in Mine : Has(x, o[1]) =>
           (Spent(x, o) <=> ~(o[1] = t /\ ~Has(w, t)) /\ Spent(w, o))
  <2>1. \A o \in Mine : o[1] \in Tx BY MineIs
  <2>2. new.hashBlock = h /\ new.vfSpent = {} OBVIOUS
  <2> HIDE DEF x, new, old
  <2> QED BY <1>3, <1>4, <1>5, <2>1, <2>2 DEF Has, Spent
<1>7. /\ m \in Wallets
      /\ \A u \in Tx : (Has(m, u) <=> Has(x, u)) /\ (Has(x, u) => m[u].hashBlock = x[u].hashBlock)
      /\ \A o \in Mine : Has(x, o[1]) => (Spent(m, o) <=> Spent(x, o) \/ o \in Vin[t])
  <2> HIDE DEF x
  <2> QED BY <1>5, MarkSpentIs
<1>8. CASE h = NULL
  <2>1. v = m BY <1>8 DEF AddToWallet, WalletUpdateSpent
  <2>2. \A o \in Mine : o[1] \in Tx BY MineIs
  <2>3. \A o \in Vin[t] : o[1] # t BY NotOwnPrev DEF Prevs
  <2>4. \A u \in Tx : Has(v, u) <=> Has(w, u) \/ u = t
    <3> HIDE DEF v, m, x
    <3> QED BY <1>6, <1>7, <2>1
  <2>5. \A u \in Tx : Has(w, u) /\ (u # t \/ h = NULL) => v[u].hashBlock = w[u].hashBlock
    <3> HIDE DEF v, m, x
    <3> QED BY <1>6, <1>7, <2>1
  <2>6. ~Has(w, t) => v[t].hashBlock = h
    <3> HIDE DEF v, m, x
    <3> QED BY <1>5, <1>6, <1>7, <2>1
  <2>7. \A o \in Mine : Has(v, o[1]) =>
          (Spent(v, o) <=> ~(o[1] = t /\ ~Has(w, t)) /\ (Spent(w, o) \/ o \in Vin[t]))
    <3> HIDE DEF v, m, x
    <3> QED BY <1>6, <1>7, <2>1, <2>2, <2>3
  <2> HIDE DEF v, m, x
  <2> QED BY <1>7, <1>8, <2>1, <2>4, <2>5, <2>6, <2>7 DEF Heard, v
<1>9. CASE h # NULL
  <2>1. v = MarkUnspent(m, OutputsOf(t) \cap Mine) BY <1>9 DEF AddToWallet, WalletUpdateSpent
  <2>2. \A o \in Mine : o[1] \in Tx /\ (o \in OutputsOf(t) <=> o[1] = t)
    <3>1. \A o \in OutputsOf(t) : o[1] = t BY DEF OutputsOf
    <3> QED BY <3>1, MineIs
  <2> HIDE DEF v, m, x
  <2>3. /\ v \in Wallets
        /\ \A u \in Tx : (Has(v, u) <=> Has(m, u)) /\ (Has(m, u) => v[u].hashBlock = m[u].hashBlock)
        /\ \A o \in Mine : Has(m, o[1]) =>
             (Spent(v, o) <=> Spent(m, o) /\ o \notin OutputsOf(t) \cap Mine)
    BY <1>7, <2>1, MarkUnspentIs
  <2>4. \A u \in Tx : Has(v, u) <=> Has(w, u) \/ u = t BY <1>6, <1>7, <2>3
  <2>5. \A u \in Tx : Has(w, u) /\ u # t => v[u].hashBlock = w[u].hashBlock
    BY <1>6, <1>7, <2>3
  <2>6. v[t].hashBlock = h BY <1>5, <1>6, <1>7, <1>9, <2>3
  <2>7. \A o \in Mine : Has(v, o[1]) =>
          (Spent(v, o) <=> o[1] # t /\ (Spent(w, o) \/ o \in Vin[t]))
    BY <1>6, <1>7, <2>2, <2>3
  <2> QED BY <1>9, <2>3, <2>4, <2>5, <2>6, <2>7 DEF Heard, v
<1> QED BY <1>8, <1>9

(* CWallet::AddToWalletIfInvolvingMe: what is told is heard, unless it is  *)
(* known already and not to be updated.                                    *)
LEMMA HearsIs ==
  ASSUME NEW w \in Wallets, NEW t \in Tx, NEW h \in Block \cup {NULL}, NEW f \in BOOLEAN
  PROVE  LET v == AddToWalletIfInvolvingMe(w, t, h, f) IN
         IF Has(w, t) /\ ~f THEN v = w
         ELSE Heard(w, t, h, v, IsMine(t) \/ IsFromMe(w, t))
<1> DEFINE v == AddToWalletIfInvolvingMe(w, t, h, f)
<1>1. CASE Has(w, t) /\ ~f BY <1>1 DEF AddToWalletIfInvolvingMe, Has
<1>2. CASE Has(w, t) /\ f
  <2>1. v = AddToWallet(w, t, h, <<>>) BY <1>2 DEF AddToWalletIfInvolvingMe, Has
  <2>2. Heard(w, t, h, v, TRUE) BY <2>1, AddedIs, NoCopies
  <2> QED BY <1>2, <2>2 DEF Heard
<1>3. CASE ~Has(w, t) /\ (IsMine(t) \/ IsFromMe(w, t))
  <2>1. v = AddToWallet(w, t, h, <<>>) BY <1>3 DEF AddToWalletIfInvolvingMe, Has
  <2>2. Heard(w, t, h, v, TRUE) BY <2>1, AddedIs, NoCopies
  <2> QED BY <1>3, <2>2 DEF Heard
<1>4. CASE ~Has(w, t) /\ ~(IsMine(t) \/ IsFromMe(w, t))
  <2>1. v = MarkSpent(w, Vin[t] \cap Mine)
    BY <1>4 DEF AddToWalletIfInvolvingMe, WalletUpdateSpent, Has
  <2>2. \A o \in Mine : o[1] \in Tx BY MineIs
  <2>3. /\ v \in Wallets
        /\ \A u \in Tx : (Has(v, u) <=> Has(w, u)) /\ (Has(w, u) => v[u].hashBlock = w[u].hashBlock)
        /\ \A o \in Mine : Has(w, o[1]) => (Spent(v, o) <=> Spent(w, o) \/ o \in Vin[t] \cap Mine)
    BY <2>1, MarkSpentIs
  <2> HIDE DEF v
  <2>4. \A o \in Mine : Has(v, o[1]) => o[1] # t BY <1>4, <2>2, <2>3
  <2> QED BY <1>4, <2>2, <2>3, <2>4 DEF Heard, v
<1> QED BY <1>1, <1>2, <1>3, <1>4

(* Marking coins leaves the copies of an entry alone.                      *)
LEMMA MarkingKeepsCopies ==
  ASSUME NEW w \in Wallets, NEW S, NEW t \in Tx, Has(w, t)
  PROVE  MarkSpent(w, S)[t].vtxPrev = w[t].vtxPrev
<1>1. w[t] \in CWalletTx(t) BY WalletsAre DEF WalletType, Has
<1>2. MarkSpent(w, S)[t] = [w[t] EXCEPT !.vfSpent = @ \cup {o[2] : o \in S \cap OutputsOf(t)}]
  BY DEF MarkSpent, Has
<1> QED BY <1>1, <1>2 DEF CWalletTx

(* What the pool tells the wallet leaves the copies it has alone, and a    *)
(* new entry has none.                                                     *)
LEMMA HearingKeepsCopies ==
  ASSUME NEW w \in Wallets, NEW t \in Tx
  PROVE  LET v == AddToWalletIfInvolvingMe(w, t, NULL, TRUE) IN
         /\ \A u \in Tx : Has(w, u) => v[u].vtxPrev = w[u].vtxPrev
         /\ Has(v, t) /\ ~Has(w, t) => v[t].vtxPrev = <<>>
<1> SUFFICES ASSUME NEW v, v = AddToWalletIfInvolvingMe(w, t, NULL, TRUE)
             PROVE  /\ \A u \in Tx : Has(w, u) => v[u].vtxPrev = w[u].vtxPrev
                    /\ Has(v, t) /\ ~Has(w, t) => v[t].vtxPrev = <<>>
  OBVIOUS
<1> DEFINE entry == IF w[t] = NULL
                    THEN [hashBlock |-> NULL, vfSpent |-> {}, vtxPrev |-> <<>>]
                    ELSE [w[t] EXCEPT !.hashBlock = w[t].hashBlock]
           x == [w EXCEPT ![t] = entry]
           S == Vin[t] \cap Mine
<1>1. w = [u \in Tx |-> w[u]] /\ \A u \in Tx : w[u] = NULL \/ w[u] \in CWalletTx(u)
  BY WalletsAre DEF WalletType
<1>2. CASE v = AddToWallet(w, t, NULL, <<>>)
  <2>1. v = MarkSpent(x, S) BY <1>2 DEF AddToWallet, WalletUpdateSpent
  <2>2. /\ entry \in CWalletTx(t)
        /\ w[t] # NULL => entry.vtxPrev = w[t].vtxPrev
        /\ w[t] = NULL => entry.vtxPrev = <<>>
    <3>1. CASE w[t] = NULL
      <4>1. entry = [hashBlock |-> NULL, vfSpent |-> {}, vtxPrev |-> <<>>] BY <3>1
      <4>2. <<>> \in Copies(t) BY NoCopies
      <4> QED BY <3>1, <4>1, <4>2 DEF CWalletTx
    <3>2. CASE w[t] # NULL
      <4>1. w[t] \in CWalletTx(t) BY <1>1, <3>2
      <4>2. entry = [w[t] EXCEPT !.hashBlock = w[t].hashBlock] BY <3>2
      <4> QED BY <3>2, <4>1, <4>2 DEF CWalletTx
    <3> QED BY <3>1, <3>2
  <2> HIDE DEF entry, S
  <2>3. x[t] = entry /\ \A u \in Tx : u # t => x[u] = w[u] BY <1>1
  <2>4. x = [u \in Tx |-> x[u]] BY <1>1
  <2> HIDE DEF x
  <2>5. x \in Wallets /\ Has(x, t)
    BY <1>1, <2>2, <2>3, <2>4, WalletsAre, NullWalletAssumption DEF WalletType, Has
  <2>6. ASSUME NEW u \in Tx, Has(x, u) PROVE v[u].vtxPrev = x[u].vtxPrev
    <3>1. MarkSpent(x, S)[u].vtxPrev = x[u].vtxPrev BY <2>5, <2>6, MarkingKeepsCopies
    <3> QED BY <2>1, <3>1
  <2>7. \A u \in Tx : Has(w, u) => Has(x, u) /\ x[u].vtxPrev = w[u].vtxPrev
    BY <2>2, <2>3, <2>5 DEF Has
  <2> QED BY <2>2, <2>3, <2>5, <2>6, <2>7 DEF Has
<1>3. CASE v # AddToWallet(w, t, NULL, <<>>)
  <2>1. w[t] = NULL /\ v = MarkSpent(w, S)
    BY <1>3 DEF AddToWalletIfInvolvingMe, WalletUpdateSpent
  <2>2. v[t] = NULL BY <2>1 DEF MarkSpent
  <2>3. ASSUME NEW u \in Tx, Has(w, u) PROVE v[u].vtxPrev = w[u].vtxPrev
    <3>1. MarkSpent(w, S)[u].vtxPrev = w[u].vtxPrev BY <2>3, MarkingKeepsCopies
    <3> QED BY <2>1, <3>1
  <2> QED BY <2>1, <2>2, <2>3 DEF Has
<1> QED BY <1>2, <1>3

---------------------------------------------------------------------------
(* What the wallet knows of a part of a branch *)

(* at[u] is the block u is recorded in, or NULL; X holds the coins of the  *)
(* wallet that the recorded transactions spend.                            *)
IsView(at, X) == X \subseteq Mine /\ \A o \in X : at[o[1]] # NULL

Agrees(w, at, X) ==
  /\ \A u \in Tx : Involved(u) /\ at[u] # NULL => Has(w, u) /\ w[u].hashBlock = at[u]
  /\ \A o \in X : Spent(w, o)

Blamed(w, at) ==
  \A o \in Mine : Has(w, o[1]) /\ Spent(w, o) =>
    \E t \in Tx : o \in Vin[t] /\ (t \notin CoinStake \/ at[t] # NULL)

(* A transaction heard of in its block, after those it spends.             *)
LEMMA HeardInBlock ==
  ASSUME NEW w \in Wallets, NEW t \in Tx, NEW b \in Block, NEW at, NEW X, NEW more, NEW v,
         IsView(at, X), Agrees(w, at, X),
         Heard(w, t, b, v, IsMine(t) \/ IsFromMe(w, t)),
         at[t] = NULL, \A o \in Vin[t] \cap Mine : at[o[1]] # NULL,
         more[t] = b, \A u \in Tx : u # t => more[u] = at[u]
  PROVE  /\ IsView(more, X \cup (Vin[t] \cap Mine))
         /\ Agrees(v, more, X \cup (Vin[t] \cap Mine))
         /\ Blamed(w, at) => Blamed(v, more)
<1> DEFINE Y == X \cup (Vin[t] \cap Mine)
<1>1. b # NULL BY NullAssumption
<1>2. \A o \in Mine : o[1] \in Tx /\ Involved(o[1]) BY MineIs
<1>3. \A o \in Y : o \in Mine /\ o[1] # t /\ at[o[1]] # NULL /\ Has(w, o[1])
  BY <1>2 DEF IsView, Agrees
<1>4. IsView(more, Y) BY <1>2, <1>3 DEF IsView
<1>5. Involved(t) => IsMine(t) \/ IsFromMe(w, t)
  <2>1. CASE IsMine(t) BY <2>1
  <2>2. CASE ~IsMine(t) /\ Involved(t)
    <3>1. PICK o \in Vin[t] \cap Mine : TRUE BY <2>2 DEF Involved
    <3>2. Has(w, o[1]) BY <1>3
    <3> QED BY <3>2 DEF IsFromMe, Has
  <2> QED BY <2>1, <2>2
<1>6. ASSUME NEW u \in Tx, Involved(u), more[u] # NULL
      PROVE  Has(v, u) /\ v[u].hashBlock = more[u]
  <2>1. CASE u = t BY <1>1, <1>5, <1>6, <2>1 DEF Heard
  <2>2. CASE u # t BY <1>6, <2>2 DEF Heard, Agrees
  <2> QED BY <2>1, <2>2
<1>7. ASSUME NEW o \in Y PROVE Spent(v, o)
  <2>1. Has(v, o[1]) /\ o \in Mine /\ o[1] # t BY <1>2, <1>3 DEF Heard
  <2>2. Spent(w, o) \/ o \in Vin[t] BY DEF Agrees
  <2> QED BY <2>1, <2>2 DEF Heard
<1>8. ASSUME Blamed(w, at) PROVE Blamed(v, more)
  <2> SUFFICES ASSUME NEW o \in Mine, Has(v, o[1]), Spent(v, o)
               PROVE  \E u \in Tx : o \in Vin[u] /\ (u \notin CoinStake \/ more[u] # NULL)
    BY DEF Blamed
  <2>1. o[1] \in Tx /\ o[1] # t /\ (Spent(w, o) \/ o \in Vin[t]) BY <1>1, <1>2 DEF Heard
  <2>2. CASE o \in Vin[t] BY <1>1, <2>2
  <2>3. CASE Spent(w, o)
    <3>1. Has(w, o[1]) BY <2>1 DEF Heard
    <3>2. PICK u \in Tx : o \in Vin[u] /\ (u \notin CoinStake \/ at[u] # NULL)
      BY <1>8, <2>3, <3>1 DEF Blamed
    <3>3. u \notin CoinStake \/ more[u] # NULL BY <1>1, <3>2
    <3> QED BY <3>2, <3>3
  <2> QED BY <2>1, <2>2, <2>3
<1> QED BY <1>4, <1>6, <1>7, <1>8 DEF Agrees

(* A transaction heard of in no block, or for the first time: if it is on  *)
(* record and concerns the wallet, the wallet had it.                      *)
LEMMA HeardAgain ==
  ASSUME NEW w \in Wallets, NEW t \in Tx, NEW h \in Block \cup {NULL}, NEW at, NEW X, NEW v,
         NEW known, IsView(at, X), Agrees(w, at, X), Heard(w, t, h, v, known),
         h = NULL \/ ~Has(w, t)
  PROVE  /\ Agrees(v, at, X)
         /\ Blamed(w, at) /\ (t \notin CoinStake \/ at[t] # NULL) => Blamed(v, at)
<1>1. \A o \in Mine : o[1] \in Tx /\ Involved(o[1]) BY MineIs
<1>2. ASSUME NEW u \in Tx, Involved(u), at[u] # NULL
      PROVE  Has(v, u) /\ v[u].hashBlock = at[u]
  <2>1. Has(w, u) /\ w[u].hashBlock = at[u] BY <1>2 DEF Agrees
  <2> QED BY <2>1 DEF Heard
<1>3. ASSUME NEW o \in X PROVE Spent(v, o)
  <2>1. o \in Mine /\ at[o[1]] # NULL /\ Spent(w, o) BY DEF IsView, Agrees
  <2>2. Has(w, o[1]) /\ Has(v, o[1]) BY <1>1, <2>1 DEF Agrees, Heard
  <2> QED BY <2>1, <2>2 DEF Heard
<1>4. ASSUME Blamed(w, at), t \notin CoinStake \/ at[t] # NULL PROVE Blamed(v, at)
  <2> SUFFICES ASSUME NEW o \in Mine, Has(v, o[1]), Spent(v, o)
               PROVE  \E u \in Tx : o \in Vin[u] /\ (u \notin CoinStake \/ at[u] # NULL)
    BY DEF Blamed
  <2>1. /\ Spent(w, o) \/ o \in Vin[t]
        /\ ~(o[1] = t /\ (h # NULL \/ ~Has(w, t)))
    BY DEF Heard
  <2>2. CASE o \in Vin[t] BY <1>4, <2>2
  <2>3. CASE Spent(w, o)
    <3>1. Has(w, o[1]) BY <1>1, <2>1 DEF Heard
    <3> QED BY <1>4, <2>3, <3>1 DEF Blamed
  <2> QED BY <2>1, <2>2, <2>3
<1> QED BY <1>2, <1>3, <1>4 DEF Agrees

---------------------------------------------------------------------------
(* A block *)

(* SyncWithWallets for each transaction of a block: the course of the loop. *)
LEMMA ConnectedCourse ==
  ASSUME NEW w \in Wallets, NEW b \in Block, NEW f \in BOOLEAN
  PROVE  \E F \in [0 .. Len(Vtx[b]) -> Wallets] :
           /\ F[0] = w
           /\ \A n \in 1 .. Len(Vtx[b]) :
                F[n] = AddToWalletIfInvolvingMe(F[n - 1], Vtx[b][n], b, f)
           /\ SyncConnected(w, b, f) = F[Len(Vtx[b])]
<1> DEFINE N == Len(Vtx[b])
           Next1(x, n) == AddToWalletIfInvolvingMe(x, Vtx[b][n], b, f)
           IsCourse(F) == F = [n \in 0 .. N |-> IF n = 0 THEN w ELSE Next1(F[n - 1], n)]
           F == CHOOSE F : IsCourse(F)
           G == [x \in (1 .. N) \X Wallets |-> Next1(x[2], x[1])]
<1>1. N \in Nat /\ \A n \in 1 .. N : Vtx[b][n] \in Tx BY TxAssumption
<1>2. ASSUME NEW x \in Wallets, NEW n \in 1 .. N PROVE Next1(x, n) \in Wallets
  <2>1. Vtx[b][n] \in Tx BY <1>1
  <2>2. LET v == AddToWalletIfInvolvingMe(x, Vtx[b][n], b, f) IN
        IF Has(x, Vtx[b][n]) /\ ~f THEN v = x
        ELSE Heard(x, Vtx[b][n], b, v, IsMine(Vtx[b][n]) \/ IsFromMe(x, Vtx[b][n]))
    BY <2>1, HearsIs
  <2> QED BY <2>2 DEF Heard
<1>3. \E F_1 : IsCourse(F_1)
  <2>1. G \in [(1 .. N) \X Wallets -> Wallets]
    <3> HIDE DEF Next1
    <3> QED BY <1>2
  <2>2. \A n \in 1 .. N, x \in Wallets : G[<<n, x>>] = Next1(x, n)
    <3> HIDE DEF Next1
    <3> QED OBVIOUS
  <2> HIDE DEF G, Next1
  <2>3. PICK g \in [0 .. N -> Wallets] : g[0] = w /\ \A n \in 1 .. N : g[n] = G[<<n, g[n - 1]>>]
    <3> HIDE DEF N, F, IsCourse
    <3>1. HasCourse(N, Wallets, w, G) BY <1>1, <2>1, Iterated, Zenon
    <3> QED BY <3>1 DEF HasCourse
  <2>4. ASSUME NEW n \in 0 .. N PROVE g[n] = IF n = 0 THEN w ELSE Next1(g[n - 1], n)
    <3>1. CASE n = 0 BY <2>3, <3>1
    <3>2. CASE n # 0
      <4>1. n \in 1 .. N /\ n - 1 \in 0 .. N BY <1>1, <3>2
      <4>2. g[n - 1] \in Wallets BY <4>1
      <4> QED BY <2>2, <2>3, <3>2, <4>1, <4>2
    <3> QED BY <3>1, <3>2
  <2>5. IsCourse(g) BY <2>4
  <2> QED BY <2>5
<1>4. IsCourse(F)
  <2> HIDE DEF IsCourse
  <2> QED BY <1>3
<1>5. F[0] = w /\ \A n \in 1 .. N : F[n] = Next1(F[n - 1], n)
  <2>1. ASSUME NEW x, IsCourse(x)
        PROVE  x[0] = w /\ \A n \in 1 .. N : x[n] = Next1(x[n - 1], n)
    <3> HIDE DEF Next1, N, F
    <3>1. 0 \in 0 .. N /\ \A n \in 1 .. N : n \in 0 .. N /\ n # 0 BY <1>1
    <3> QED BY <2>1, <3>1
  <2> HIDE DEF IsCourse
  <2> QED BY <1>4, <2>1
<1>6. F \in [0 .. N -> Wallets]
  <2> DEFINE S == {n \in 0 .. N : F[n] \in Wallets}
  <2> HIDE DEF F
  <2>1. 0 \in S BY <1>1, <1>5
  <2>2. \A n \in 1 .. N : n - 1 \in S => n \in S
    <3> HIDE DEF Next1
    <3> QED BY <1>2, <1>5
  <2>3. \A n \in 0 .. N : n \in S
    <3> HIDE DEF S
    <3> QED BY <1>1, <2>1, <2>2, CountUp
  <2> HIDE DEF Next1
  <2> QED BY <1>4, <2>3
<1>7. SyncConnected(w, b, f) = F[N] BY DEF SyncConnected
<1> QED
  <2> HIDE DEF F
  <2> QED BY <1>5, <1>6, <1>7

(* Transaction by transaction, a block keeps the wallet well formed. *)
LEMMA ConnectedTyped ==
  ASSUME NEW w \in Wallets, NEW b \in Block, NEW f \in BOOLEAN
  PROVE  SyncConnected(w, b, f) \in Wallets
<1>1. Len(Vtx[b]) \in Nat BY TxAssumption
<1> QED BY <1>1, ConnectedCourse

(* The blocks and the spent coins of the wallet in a transaction index. *)
At(s) == [t \in Tx |-> IF s[t] = NULL THEN NULL ELSE s[t].pos]
Sp(s) == {o \in Mine : s[o[1]] # NULL /\ s[o[1]].vSpent[o[2]] # NULL}

LEMMA LedgerView ==
  ASSUME NEW s, TxIndexType(s)
  PROVE  /\ IsView(At(s), Sp(s))
         /\ \A t \in Tx : At(s)[t] # NULL <=> s[t] # NULL
<1>1. ASSUME NEW t \in Tx, s[t] # NULL PROVE s[t].pos \in Block
  BY <1>1 DEF TxIndexType, CTxIndex
<1>2. \A t \in Tx : At(s)[t] # NULL <=> s[t] # NULL BY <1>1, NullAssumption DEF At
<1>3. \A o \in Mine : o[1] \in Tx BY MineIs
<1> QED BY <1>2, <1>3 DEF IsView, Sp

KnowsOf(w, s) == Agrees(w, At(s), Sp(s))

(* The records once the first n transactions of b are connected on s. *)
AtUpTo(s, b, n) == [u \in Tx |-> IF \E i \in 1 .. n : Vtx[b][i] = u THEN b ELSE At(s)[u]]
SpUpTo(s, b, n) == Sp(s) \cup {o \in Mine : \E i \in 1 .. n : o \in Vin[Vtx[b][i]]}

(* All of them: that is what ConnectBlock leaves. *)
LEMMA WholeBlock ==
  ASSUME NEW s, TxIndexType(s), NEW b \in Block, CanConnect(s, b), \A t \in Txs(b) : s[t] = NULL
  PROVE  /\ At(ConnectBlock(s, b)) = AtUpTo(s, b, Len(Vtx[b]))
         /\ Sp(ConnectBlock(s, b)) = SpUpTo(s, b, Len(Vtx[b]))
<1> DEFINE N == Len(Vtx[b])
           c == ConnectBlock(s, b)
<1>1. DOMAIN Vtx[b] = 1 .. N /\ \A i \in 1 .. N : Vtx[b][i] \in Tx BY TxAssumption
<1>2. \A u : u \in Txs(b) <=> \E i \in 1 .. N : Vtx[b][i] = u BY <1>1 DEF Txs
<1>3. TxIndexType(c) BY ConnectType
<1>4. ASSUME NEW u \in Tx
      PROVE  /\ u \in Txs(b) => c[u] = [pos |-> b, vSpent |-> [n \in 0 .. (NOut[u] - 1) |-> SpenderIn(b, <<u, n>>)]]
             /\ u \notin Txs(b) /\ s[u] = NULL => c[u] = NULL
             /\ u \notin Txs(b) /\ s[u] # NULL =>
                  c[u] = [pos |-> s[u].pos,
                          vSpent |-> [n \in 0 .. (NOut[u] - 1) |->
                                        IF SpenderIn(b, <<u, n>>) # NULL
                                        THEN SpenderIn(b, <<u, n>>) ELSE s[u].vSpent[n]]]
  BY DEF ConnectBlock
<1>9. ASSUME NEW u \in Tx, u \in Txs(b)
      PROVE  c[u].pos = b /\ \A n \in 0 .. (NOut[u] - 1) : c[u].vSpent[n] = SpenderIn(b, <<u, n>>)
  <2> DEFINE r == [n \in 0 .. (NOut[u] - 1) |-> SpenderIn(b, <<u, n>>)]
  <2>1. c[u] = [pos |-> b, vSpent |-> r] BY <1>4, <1>9
  <2>2. \A n \in 0 .. (NOut[u] - 1) : r[n] = SpenderIn(b, <<u, n>>) OBVIOUS
  <2> HIDE DEF c, r
  <2> QED BY <2>1, <2>2
<1>10. ASSUME NEW u \in Tx, u \notin Txs(b), s[u] # NULL
       PROVE  /\ c[u].pos = s[u].pos
              /\ \A n \in 0 .. (NOut[u] - 1) :
                   c[u].vSpent[n] = IF SpenderIn(b, <<u, n>>) # NULL
                                    THEN SpenderIn(b, <<u, n>>) ELSE s[u].vSpent[n]
  <2> DEFINE r == [n \in 0 .. (NOut[u] - 1) |->
                     IF SpenderIn(b, <<u, n>>) # NULL
                     THEN SpenderIn(b, <<u, n>>) ELSE s[u].vSpent[n]]
  <2>1. c[u] = [pos |-> s[u].pos, vSpent |-> r] BY <1>4, <1>10
  <2>2. \A n \in 0 .. (NOut[u] - 1) :
          r[n] = IF SpenderIn(b, <<u, n>>) # NULL
                 THEN SpenderIn(b, <<u, n>>) ELSE s[u].vSpent[n]
    OBVIOUS
  <2> HIDE DEF c, r
  <2> QED BY <2>1, <2>2
<1>5. ASSUME NEW u \in Tx
      PROVE  c[u] # NULL <=> u \in Txs(b) \/ s[u] # NULL
  <2> DEFINE v == [n \in 0 .. (NOut[u] - 1) |-> SpenderIn(b, <<u, n>>)]
             x == [n \in 0 .. (NOut[u] - 1) |->
                     IF SpenderIn(b, <<u, n>>) # NULL
                     THEN SpenderIn(b, <<u, n>>) ELSE s[u].vSpent[n]]
  <2>1. \A n : SpenderIn(b, <<u, n>>) \in Tx \cup {NULL} BY SpenderType
  <2>2. CASE u \in Txs(b)
    <3>1. [pos |-> b, vSpent |-> v] \in CTxIndex(u) BY <2>1 DEF CTxIndex
    <3> QED BY <1>4, <2>2, <3>1, NullIndexAssumption
  <2>3. CASE u \notin Txs(b) /\ s[u] # NULL
    <3>1. s[u] \in CTxIndex(u) BY <2>3 DEF TxIndexType
    <3>2. s[u].pos \in Block /\ s[u].vSpent \in [0 .. (NOut[u] - 1) -> Tx \cup {NULL}]
      BY <3>1 DEF CTxIndex
    <3>3. x \in [0 .. (NOut[u] - 1) -> Tx \cup {NULL}] BY <2>1, <3>2
    <3>4. [pos |-> s[u].pos, vSpent |-> x] \in CTxIndex(u) BY <3>2, <3>3 DEF CTxIndex
    <3> QED BY <1>4, <2>3, <3>4, NullIndexAssumption
  <2>4. CASE u \notin Txs(b) /\ s[u] = NULL BY <1>4, <2>4
  <2> QED BY <2>2, <2>3, <2>4
<1>6. ASSUME NEW u \in Tx PROVE At(c)[u] = AtUpTo(s, b, N)[u]
  <2>1. AtUpTo(s, b, N)[u] = IF u \in Txs(b) THEN b ELSE At(s)[u] BY <1>2 DEF AtUpTo
  <2>2. At(c)[u] = IF c[u] = NULL THEN NULL ELSE c[u].pos BY DEF At
  <2>3. At(s)[u] = IF s[u] = NULL THEN NULL ELSE s[u].pos BY DEF At
  <2>4. c[u] # NULL => c[u].pos = IF u \in Txs(b) THEN b ELSE s[u].pos
    BY <1>5, <1>9, <1>10
  <2> HIDE DEF c, N
  <2> QED BY <1>5, <2>1, <2>2, <2>3, <2>4
<1>7. ASSUME NEW o \in Mine PROVE o \in Sp(c) <=> o \in SpUpTo(s, b, N)
  <2> DEFINE u == o[1]
             k == o[2]
  <2>1. u \in Tx /\ k \in 0 .. (NOut[u] - 1) /\ o = <<u, k>> BY MineIs
  <2>2. SpenderIn(b, o) # NULL <=> \E i \in 1 .. N : o \in Vin[Vtx[b][i]]
    <3>1. Txs(b) \subseteq Tx BY TxAssumption DEF Txs
    <3>2. (\E t \in Txs(b) : o \in Vin[t]) => SpenderIn(b, o) \in Txs(b) BY DEF SpenderIn
    <3>3. ~(\E t \in Txs(b) : o \in Vin[t]) => SpenderIn(b, o) = NULL BY DEF SpenderIn
    <3> QED BY <1>2, <3>1, <3>2, <3>3, NullAssumption
  <2>3. o \in SpUpTo(s, b, N) <=> (s[u] # NULL /\ s[u].vSpent[k] # NULL) \/ SpenderIn(b, o) # NULL
    BY <2>2 DEF SpUpTo, Sp
  <2>4. o \in Sp(c) <=> c[u] # NULL /\ c[u].vSpent[k] # NULL BY DEF Sp
  <2>5. CASE u \in Txs(b)
    <3>1. c[u].vSpent[k] = SpenderIn(b, o) BY <1>9, <2>1, <2>5
    <3> QED BY <1>5, <2>1, <2>3, <2>4, <2>5, <3>1
  <2>6. CASE u \notin Txs(b) /\ s[u] # NULL
    <3>1. c[u].vSpent[k] = IF SpenderIn(b, o) # NULL THEN SpenderIn(b, o) ELSE s[u].vSpent[k]
      BY <1>10, <2>1, <2>6
    <3> QED BY <1>5, <2>1, <2>3, <2>4, <2>6, <3>1
  <2>7. CASE u \notin Txs(b) /\ s[u] = NULL
    <3>1. ASSUME NEW i \in 1 .. N, o \in Vin[Vtx[b][i]] PROVE FALSE
      <4>1. InputConnects(s, b, i, o) BY <1>1, <3>1 DEF CanConnect
      <4> QED BY <1>1, <2>7, <4>1 DEF InputConnects, Txs
    <3> QED BY <1>5, <2>1, <2>2, <2>3, <2>4, <2>7, <3>1
  <2> QED BY <2>5, <2>6, <2>7
<1>8. Sp(c) \subseteq Mine /\ SpUpTo(s, b, N) \subseteq Mine BY DEF Sp, SpUpTo
<1> QED BY <1>6, <1>7, <1>8 DEF At, AtUpTo

(* A wallet that knows of a branch and is told of the block connected on   *)
(* top of it knows of the longer branch: what spends a coin is connected   *)
(* after the transaction whose flags are cleared.                          *)
LEMMA ConnectTold ==
  ASSUME NEW b \in Block \ {Genesis}, Valid(b), NEW w \in Wallets, KnowsOf(w, LedgerAt[Prev[b]])
  PROVE  LET v == SyncConnected(w, b, TRUE) IN
         /\ KnowsOf(v, LedgerAt[b])
         /\ Blamed(w, At(LedgerAt[Prev[b]])) => Blamed(v, At(LedgerAt[b]))
<1> DEFINE s == LedgerAt[Prev[b]]
           N == Len(Vtx[b])
           at(n) == AtUpTo(s, b, n)
           X(n) == SpUpTo(s, b, n)
<1>1. N \in Nat /\ DOMAIN Vtx[b] = 1 .. N /\ \A i \in 1 .. N : Vtx[b][i] \in Tx BY TxAssumption
<1>2. Prev[b] \in Block /\ CanConnect(s, b) BY ValidParent
<1>3. TxIndexType(s) /\ \A t \in Txs(b) : s[t] = NULL BY <1>2, LedgerTyped, NoRepeat
<1>4. LedgerAt[b] = ConnectBlock(s, b) BY LedgerAssumption
<1>5. PICK F \in [0 .. N -> Wallets] :
        /\ F[0] = w
        /\ \A n \in 1 .. N : F[n] = AddToWalletIfInvolvingMe(F[n - 1], Vtx[b][n], b, TRUE)
        /\ SyncConnected(w, b, TRUE) = F[N]
  BY ConnectedCourse
<1> DEFINE P(n) == /\ IsView(at(n), X(n)) /\ Agrees(F[n], at(n), X(n))
                   /\ Blamed(w, At(s)) => Blamed(F[n], at(n))
           S == {n \in 0 .. N : P(n)}
<1>6. 0 \in S
  <2>1. at(0) = At(s) /\ X(0) = Sp(s) BY DEF AtUpTo, SpUpTo, At
  <2>2. IsView(At(s), Sp(s)) BY <1>3, LedgerView
  <2>3. 0 \in 0 .. N BY <1>1
  <2> HIDE DEF at, X
  <2> QED BY <1>5, <2>1, <2>2, <2>3 DEF KnowsOf
<1>7. ASSUME NEW n \in 1 .. N, n - 1 \in S PROVE n \in S
  <2> DEFINE t == Vtx[b][n]
  <2>1. t \in Tx /\ t \in Txs(b) /\ n - 1 \in 0 .. N /\ n \in 0 .. N BY <1>1 DEF Txs
  <2>2. \A i \in 1 .. n - 1 : i \in DOMAIN Vtx[b] /\ n \in DOMAIN Vtx[b] /\ i # n BY <1>1
  <2>3. \A i \in 1 .. n - 1 : Vtx[b][i] # t BY <2>2, TxAssumption
  <2>4. at(n - 1)[t] = NULL
    <3>1. At(s)[t] = NULL BY <1>3, <2>1 DEF At
    <3> QED BY <2>1, <2>3, <3>1 DEF AtUpTo
  <2>5. ASSUME NEW o \in Vin[t] \cap Mine PROVE at(n - 1)[o[1]] # NULL
    <3>1. o[1] \in Tx BY MineIs
    <3>2. InputConnects(s, b, n, o) BY <1>1, <1>2 DEF CanConnect
    <3>3. CASE \E j \in DOMAIN Vtx[b] : j < n /\ Vtx[b][j] = o[1]
      <4>1. \E j \in 1 .. n - 1 : Vtx[b][j] = o[1] BY <1>1, <3>3
      <4>2. at(n - 1)[o[1]] = b BY <3>1, <4>1 DEF AtUpTo
      <4> QED BY <4>2, NullAssumption
    <3>4. CASE ~\E j \in DOMAIN Vtx[b] : j < n /\ Vtx[b][j] = o[1]
      <4>1. s[o[1]] # NULL BY <3>2, <3>4 DEF InputConnects
      <4>2. At(s)[o[1]] # NULL BY <1>3, <3>1, <4>1, LedgerView
      <4> QED BY <3>1, <4>2, NullAssumption DEF AtUpTo
    <3> QED BY <3>3, <3>4
  <2>6. at(n)[t] = b BY <2>1, <1>1 DEF AtUpTo
  <2>7. \A u \in Tx : u # t => at(n)[u] = at(n - 1)[u]
    <3>1. \A i \in 1 .. n : i \in 1 .. n - 1 \/ i = n OBVIOUS
    <3>2. \A i \in 1 .. n - 1 : i \in 1 .. n OBVIOUS
    <3> QED BY <3>1, <3>2 DEF AtUpTo
  <2>8. X(n) = X(n - 1) \cup (Vin[t] \cap Mine)
    <3>1. \A i \in 1 .. n : i \in 1 .. n - 1 \/ i = n OBVIOUS
    <3>2. (\A i \in 1 .. n - 1 : i \in 1 .. n) /\ n \in 1 .. n OBVIOUS
    <3> QED BY <3>1, <3>2 DEF SpUpTo
  <2>9. F[n - 1] \in Wallets /\ F[n] = AddToWalletIfInvolvingMe(F[n - 1], t, b, TRUE) BY <1>5, <2>1
  <2>10. Heard(F[n - 1], t, b, F[n], IsMine(t) \/ IsFromMe(F[n - 1], t))
    <3> HIDE DEF t
    <3> QED BY <2>1, <2>9, HearsIs
  <2>11. /\ IsView(at(n - 1), X(n - 1)) /\ Agrees(F[n - 1], at(n - 1), X(n - 1))
         /\ Blamed(w, At(s)) => Blamed(F[n - 1], at(n - 1))
    BY <1>7
  <2>12. /\ IsView(at(n), X(n)) /\ Agrees(F[n], at(n), X(n))
         /\ Blamed(F[n - 1], at(n - 1)) => Blamed(F[n], at(n))
    <3> DEFINE x == F[n - 1]
               v == F[n]
               a == at(n - 1)
               more == at(n)
               Y == X(n - 1)
    <3>1. x \in Wallets /\ t \in Tx /\ b \in Block BY <2>1, <2>9
    <3>2. IsView(a, Y) /\ Agrees(x, a, Y) BY <2>11
    <3>3. Heard(x, t, b, v, IsMine(t) \/ IsFromMe(x, t)) BY <2>10
    <3>4. a[t] = NULL BY <2>4
    <3>5. \A o \in Vin[t] \cap Mine : a[o[1]] # NULL BY <2>5
    <3>6. more[t] = b BY <2>6
    <3>7. \A u \in Tx : u # t => more[u] = a[u] BY <2>7
    <3> HIDE DEF a, more, Y, t, x, v
    <3>8. /\ IsView(more, Y \cup (Vin[t] \cap Mine))
          /\ Agrees(v, more, Y \cup (Vin[t] \cap Mine))
          /\ Blamed(x, a) => Blamed(v, more)
      BY ONLY <3>1, <3>2, <3>3, <3>4, <3>5, <3>6, <3>7, HeardInBlock
    <3> QED BY <2>8, <3>8 DEF a, more, Y, t, x, v
  <2> HIDE DEF at, X
  <2> QED BY <2>1, <2>11, <2>12
<1>8. P(N)
  <2> HIDE DEF P
  <2>1. S \in SUBSET (0 .. N) OBVIOUS
  <2>2. \A n \in 0 .. N : n \in S
    <3> HIDE DEF S
    <3> QED BY <1>1, <1>6, <1>7, CountUp
  <2> QED BY <1>1, <2>2
<1>9. At(LedgerAt[b]) = at(N) /\ Sp(LedgerAt[b]) = X(N) BY <1>2, <1>3, <1>4, WholeBlock
<1> QED
  <2> HIDE DEF at, X
  <2> QED BY <1>5, <1>8, <1>9 DEF KnowsOf

(* A block told of again, for what is not known only, takes nothing away.  *)
LEMMA ToldAgain ==
  ASSUME NEW b \in Block, NEW w \in Wallets, NEW at, NEW X, IsView(at, X), Agrees(w, at, X)
  PROVE  Agrees(SyncConnected(w, b, FALSE), at, X)
<1> DEFINE N == Len(Vtx[b])
<1>1. N \in Nat /\ \A i \in 1 .. N : Vtx[b][i] \in Tx BY TxAssumption
<1>2. PICK F \in [0 .. N -> Wallets] :
        /\ F[0] = w
        /\ \A n \in 1 .. N : F[n] = AddToWalletIfInvolvingMe(F[n - 1], Vtx[b][n], b, FALSE)
        /\ SyncConnected(w, b, FALSE) = F[N]
  BY ConnectedCourse
<1> DEFINE S == {n \in 0 .. N : Agrees(F[n], at, X)}
<1>3. 0 \in S BY <1>1, <1>2
<1>4. ASSUME NEW n \in 1 .. N, n - 1 \in S PROVE n \in S
  <2> DEFINE t == Vtx[b][n]
             x == F[n - 1]
  <2>1. t \in Tx /\ x \in Wallets /\ n \in 0 .. N /\ Agrees(x, at, X) BY <1>1, <1>4
  <2>2. F[n] = AddToWalletIfInvolvingMe(x, t, b, FALSE) BY <1>2
  <2>3. IF Has(x, t) THEN F[n] = x ELSE Heard(x, t, b, F[n], IsMine(t) \/ IsFromMe(x, t))
    <3> HIDE DEF t, x
    <3> QED BY <2>1, <2>2, HearsIs
  <2>4. Agrees(F[n], at, X)
    <3> HIDE DEF t, x, N
    <3> QED BY <2>1, <2>3, HeardAgain
  <2> QED BY <2>1, <2>4
<1>5. \A n \in 0 .. N : n \in S
  <2> HIDE DEF S
  <2> QED BY <1>1, <1>3, <1>4, CountUp
<1>6. N \in 0 .. N BY <1>1
<1>7. Agrees(F[N], at, X) BY <1>5, <1>6
<1> QED BY <1>2, <1>7

---------------------------------------------------------------------------
(* Down a branch *)

(* What is on record at a block of a valid branch is on record, in the     *)
(* same block and spent if it was, at every block after it.                *)
Extends(s, r) ==
  /\ \A u \in Tx : At(r)[u] # NULL => At(s)[u] = At(r)[u]
  /\ Sp(r) \subseteq Sp(s)

LEMMA ExtendsPrev ==
  ASSUME NEW b \in Block \ {Genesis}, Valid(b)
  PROVE  Extends(LedgerAt[b], LedgerAt[Prev[b]])
<1> DEFINE s == LedgerAt[Prev[b]]
           N == Len(Vtx[b])
<1>1. Prev[b] \in Block /\ CanConnect(s, b) /\ LedgerAt[b] = ConnectBlock(s, b)
  BY ValidParent, LedgerAssumption
<1>2. TxIndexType(s) /\ \A t \in Txs(b) : s[t] = NULL BY <1>1, LedgerTyped, NoRepeat
<1>3. At(LedgerAt[b]) = AtUpTo(s, b, N) /\ Sp(LedgerAt[b]) = SpUpTo(s, b, N)
  BY <1>1, <1>2, WholeBlock
<1>4. DOMAIN Vtx[b] = 1 .. N BY TxAssumption
<1>5. \A i \in 1 .. N : Vtx[b][i] \in Txs(b) BY <1>4 DEF Txs
<1>6. \A u \in Tx : u \in Txs(b) => At(s)[u] = NULL BY <1>2 DEF At
<1>7. \A u \in Tx : At(s)[u] # NULL => AtUpTo(s, b, N)[u] = At(s)[u]
  BY <1>5, <1>6 DEF AtUpTo
<1>8. Sp(s) \subseteq SpUpTo(s, b, N) BY DEF SpUpTo
<1> QED BY <1>3, <1>7, <1>8 DEF Extends

LEMMA ExtendsBelow ==
  \A b \in Block : Valid(b) => \A a \in Chain[b] : Extends(LedgerAt[b], LedgerAt[a])
<1> DEFINE S == {b \in Block : Valid(b) => \A a \in Chain[b] : Extends(LedgerAt[b], LedgerAt[a])}
<1>1. \A s : Extends(s, s) BY DEF Extends
<1>2. Genesis \in S BY <1>1, TreeAssumption
<1>3. ASSUME NEW b \in Block \ {Genesis}, Prev[b] \in S, Valid(b), NEW a \in Chain[b]
      PROVE  Extends(LedgerAt[b], LedgerAt[a])
  <2>1. Valid(Prev[b]) /\ Extends(LedgerAt[b], LedgerAt[Prev[b]]) BY <1>3, ValidParent, ExtendsPrev
  <2>2. a = b \/ a \in Chain[Prev[b]] BY ParentInBranch
  <2>3. CASE a = b BY <1>1, <2>3
  <2>4. CASE a \in Chain[Prev[b]]
    <3>1. Extends(LedgerAt[Prev[b]], LedgerAt[a]) BY <1>3, <2>1, <2>4
    <3> QED BY <2>1, <3>1 DEF Extends
  <2> QED BY <2>2, <2>3, <2>4
<1>4. S = Block
  <2>1. S \in SUBSET Block /\ \A b \in Block \ {Genesis} : Prev[b] \in S => b \in S BY <1>3
  <2> HIDE DEF S
  <2> QED BY <1>2, <2>1, BlockInduction
<1> QED BY <1>4

(* So a wallet that knows of a branch knows of every part of it: it needs  *)
(* no telling when a batch is lost, and can be told again from anywhere.   *)
LEMMA KnowsBelow ==
  ASSUME NEW b \in Block, Valid(b), NEW a \in Chain[b], NEW w, KnowsOf(w, LedgerAt[b])
  PROVE  KnowsOf(w, LedgerAt[a])
<1>1. Extends(LedgerAt[b], LedgerAt[a]) BY ExtendsBelow
<1> QED BY <1>1 DEF Extends, KnowsOf, Agrees

(* DisableTransaction for each transaction of a block: the course of the   *)
(* loop.                                                                   *)
LEMMA DisableIs ==
  ASSUME NEW w \in Wallets, NEW t \in Tx
  PROVE  LET v == DisableTransaction(w, t) IN
         /\ v \in Wallets
         /\ \A u \in Tx : (Has(v, u) <=> Has(w, u)) /\ (Has(w, u) => v[u].hashBlock = w[u].hashBlock)
         /\ \A o \in Mine : Has(w, o[1]) =>
              (Spent(v, o) <=> Spent(w, o) /\ ~(t \in CoinStake /\ o \in Vin[t]))
<1> DEFINE v == DisableTransaction(w, t)
<1>1. CASE t \in CoinStake /\ IsFromMe(w, t)
  <2>1. v = MarkUnspent(w, Vin[t] \cap Mine) BY <1>1 DEF DisableTransaction
  <2>2. /\ v \in Wallets
        /\ \A u \in Tx : (Has(v, u) <=> Has(w, u)) /\ (Has(w, u) => v[u].hashBlock = w[u].hashBlock)
        /\ \A o \in Mine : Has(w, o[1]) => (Spent(v, o) <=> Spent(w, o) /\ o \notin Vin[t] \cap Mine)
    BY <2>1, MarkUnspentIs
  <2> HIDE DEF v
  <2>3. \A o \in Mine : Has(w, o[1]) =>
          (Spent(v, o) <=> Spent(w, o) /\ ~(t \in CoinStake /\ o \in Vin[t]))
    BY <1>1, <2>2
  <2> QED BY <2>2, <2>3 DEF v
<1>2. CASE ~(t \in CoinStake /\ IsFromMe(w, t))
  <2>1. v = w BY <1>2 DEF DisableTransaction
  <2>2. \A o \in Mine : Has(w, o[1]) => ~(t \in CoinStake /\ o \in Vin[t])
    BY <1>2 DEF IsFromMe, Has
  <2> QED BY <2>1, <2>2
<1> QED BY <1>1, <1>2

LEMMA DisconnectedCourse ==
  ASSUME NEW w \in Wallets, NEW b \in Block
  PROVE  \E F \in [0 .. Len(Vtx[b]) -> Wallets] :
           /\ F[0] = w
           /\ \A n \in 1 .. Len(Vtx[b]) : F[n] = DisableTransaction(F[n - 1], Vtx[b][n])
           /\ SyncDisconnected(w, b) = F[Len(Vtx[b])]
<1> DEFINE N == Len(Vtx[b])
           Next1(x, n) == DisableTransaction(x, Vtx[b][n])
           IsCourse(F) == F = [n \in 0 .. N |-> IF n = 0 THEN w ELSE Next1(F[n - 1], n)]
           F == CHOOSE F : IsCourse(F)
           G == [x \in (1 .. N) \X Wallets |-> Next1(x[2], x[1])]
<1>1. N \in Nat /\ \A n \in 1 .. N : Vtx[b][n] \in Tx BY TxAssumption
<1>2. ASSUME NEW x \in Wallets, NEW n \in 1 .. N PROVE Next1(x, n) \in Wallets
  BY <1>1, DisableIs
<1>3. \E F_1 : IsCourse(F_1)
  <2>1. G \in [(1 .. N) \X Wallets -> Wallets]
    <3> HIDE DEF Next1
    <3> QED BY <1>2
  <2>2. \A n \in 1 .. N, x \in Wallets : G[<<n, x>>] = Next1(x, n)
    <3> HIDE DEF Next1
    <3> QED OBVIOUS
  <2> HIDE DEF G, Next1
  <2>3. PICK g \in [0 .. N -> Wallets] : g[0] = w /\ \A n \in 1 .. N : g[n] = G[<<n, g[n - 1]>>]
    <3> HIDE DEF N, F, IsCourse
    <3>1. HasCourse(N, Wallets, w, G) BY <1>1, <2>1, Iterated, Zenon
    <3> QED BY <3>1 DEF HasCourse
  <2>4. ASSUME NEW n \in 0 .. N PROVE g[n] = IF n = 0 THEN w ELSE Next1(g[n - 1], n)
    <3>1. CASE n = 0 BY <2>3, <3>1
    <3>2. CASE n # 0
      <4>1. n \in 1 .. N /\ n - 1 \in 0 .. N BY <1>1, <3>2
      <4>2. g[n - 1] \in Wallets BY <4>1
      <4> QED BY <2>2, <2>3, <3>2, <4>1, <4>2
    <3> QED BY <3>1, <3>2
  <2>5. IsCourse(g) BY <2>4
  <2> QED BY <2>5
<1>4. IsCourse(F)
  <2> HIDE DEF IsCourse
  <2> QED BY <1>3
<1>5. F[0] = w /\ \A n \in 1 .. N : F[n] = Next1(F[n - 1], n)
  <2> HIDE DEF F, Next1
  <2> QED BY <1>1, <1>4
<1>6. F \in [0 .. N -> Wallets]
  <2> DEFINE S == {n \in 0 .. N : F[n] \in Wallets}
  <2> HIDE DEF F
  <2>1. 0 \in S BY <1>1, <1>5
  <2>2. \A n \in 1 .. N : n - 1 \in S => n \in S
    <3> HIDE DEF Next1
    <3> QED BY <1>2, <1>5
  <2>3. \A n \in 0 .. N : n \in S
    <3> HIDE DEF S
    <3> QED BY <1>1, <2>1, <2>2, CountUp
  <2> HIDE DEF Next1
  <2> QED BY <1>4, <2>3
<1>7. SyncDisconnected(w, b) = F[N] BY DEF SyncDisconnected
<1> QED
  <2> HIDE DEF F
  <2> QED BY <1>5, <1>6, <1>7

(* A disconnected block gives back the coins its coinstakes have spent,    *)
(* and nothing else changes.                                               *)
LEMMA DisabledIs ==
  ASSUME NEW w \in Wallets, NEW b \in Block
  PROVE  LET v == SyncDisconnected(w, b) IN
         /\ v \in Wallets
         /\ \A u \in Tx : (Has(v, u) <=> Has(w, u)) /\ (Has(w, u) => v[u].hashBlock = w[u].hashBlock)
         /\ \A o \in Mine : Has(w, o[1]) =>
              (Spent(v, o) <=> Spent(w, o) /\ ~\E t \in Txs(b) \cap CoinStake : o \in Vin[t])
<1> DEFINE N == Len(Vtx[b])
<1>1. N \in Nat /\ DOMAIN Vtx[b] = 1 .. N /\ \A i \in 1 .. N : Vtx[b][i] \in Tx BY TxAssumption
<1>2. PICK F \in [0 .. N -> Wallets] :
        /\ F[0] = w
        /\ \A n \in 1 .. N : F[n] = DisableTransaction(F[n - 1], Vtx[b][n])
        /\ SyncDisconnected(w, b) = F[N]
  BY DisconnectedCourse
<1> DEFINE P(n) == 
             /\ \A u \in Tx : (Has(F[n], u) <=> Has(w, u))
                              /\ (Has(w, u) => F[n][u].hashBlock = w[u].hashBlock)
             /\ \A o \in Mine : Has(w, o[1]) =>
                  (Spent(F[n], o) <=>
                     /\ Spent(w, o)
                     /\ ~\E i \in 1 .. n : Vtx[b][i] \in CoinStake /\ o \in Vin[Vtx[b][i]])
           S == {n \in 0 .. N : P(n)}
<1>3. 0 \in S BY <1>1, <1>2
<1>4. ASSUME NEW n \in 1 .. N, n - 1 \in S PROVE n \in S
  <2> DEFINE t == Vtx[b][n]
             x == F[n - 1]
             v == F[n]
  <2>1. t \in Tx /\ x \in Wallets /\ n \in 0 .. N BY <1>1
  <2>2. v = DisableTransaction(x, t) BY <1>2
  <2>3. /\ \A u \in Tx : (Has(v, u) <=> Has(x, u)) /\ (Has(x, u) => v[u].hashBlock = x[u].hashBlock)
        /\ \A o \in Mine : Has(x, o[1]) =>
             (Spent(v, o) <=> Spent(x, o) /\ ~(t \in CoinStake /\ o \in Vin[t]))
    <3> HIDE DEF t, x, v
    <3> QED BY <2>1, <2>2, DisableIs
  <2>4. P(n - 1) BY <1>4
  <2>5. \A o : (\E i \in 1 .. n : Vtx[b][i] \in CoinStake /\ o \in Vin[Vtx[b][i]])
               <=> \/ \E i \in 1 .. n - 1 : Vtx[b][i] \in CoinStake /\ o \in Vin[Vtx[b][i]]
                   \/ t \in CoinStake /\ o \in Vin[t]
    <3>1. \A i \in 1 .. n : i \in 1 .. n - 1 \/ i = n OBVIOUS
    <3>2. (\A i \in 1 .. n - 1 : i \in 1 .. n) /\ n \in 1 .. n OBVIOUS
    <3> QED BY <3>1, <3>2
  <2>6. \A o \in Mine : o[1] \in Tx BY MineIs
  <2>7. P(n)
    <3> HIDE DEF t
    <3> QED BY <2>3, <2>4, <2>5, <2>6
  <2> QED BY <2>1, <2>7
<1>5. \A n \in 0 .. N : n \in S
  <2> HIDE DEF S
  <2> QED BY <1>1, <1>3, <1>4, CountUp
<1>6. N \in 0 .. N BY <1>1
<1>7. P(N) /\ F[N] \in Wallets
  <2> HIDE DEF P
  <2> QED BY <1>5, <1>6
<1>8. \A o : (\E i \in 1 .. N : Vtx[b][i] \in CoinStake /\ o \in Vin[Vtx[b][i]])
             <=> \E t \in Txs(b) \cap CoinStake : o \in Vin[t]
  BY <1>1 DEF Txs
<1> QED BY <1>2, <1>7, <1>8

(* A wallet that knows of a branch and is told that its last block is      *)
(* disconnected knows of the rest, and has no coin left that only a        *)
(* coinstake of that block spent.                                          *)
LEMMA DisconnectTold ==
  ASSUME NEW b \in Block \ {Genesis}, Valid(b), NEW w \in Wallets, KnowsOf(w, LedgerAt[b])
  PROVE  LET v == SyncDisconnected(w, b) IN
         /\ KnowsOf(v, LedgerAt[Prev[b]])
         /\ Blamed(w, At(LedgerAt[b])) => Blamed(v, At(LedgerAt[Prev[b]]))
<1> DEFINE s == LedgerAt[Prev[b]]
           c == LedgerAt[b]
           v == SyncDisconnected(w, b)
           N == Len(Vtx[b])
<1>1. Prev[b] \in Block /\ CanConnect(s, b) /\ c = ConnectBlock(s, b)
  BY ValidParent, LedgerAssumption
<1>2. TxIndexType(s) /\ \A t \in Txs(b) : s[t] = NULL BY <1>1, LedgerTyped, NoRepeat
<1>3. At(c) = AtUpTo(s, b, N) BY <1>1, <1>2, WholeBlock
<1>4. DOMAIN Vtx[b] = 1 .. N BY TxAssumption
<1>5. KnowsOf(w, s) BY ExtendsPrev DEF Extends, KnowsOf, Agrees
<1>6. /\ \A u \in Tx : (Has(v, u) <=> Has(w, u)) /\ (Has(w, u) => v[u].hashBlock = w[u].hashBlock)
      /\ \A o \in Mine : Has(w, o[1]) =>
           (Spent(v, o) <=> Spent(w, o) /\ ~\E t \in Txs(b) \cap CoinStake : o \in Vin[t])
  BY DisabledIs
<1>7. ASSUME NEW o \in Sp(s) PROVE Spent(v, o)
  <2>1. o \in Mine /\ s[o[1]] # NULL /\ s[o[1]].vSpent[o[2]] # NULL /\ Spent(w, o)
    BY <1>5 DEF Sp, KnowsOf, Agrees
  <2>2. o[1] \in Tx /\ Involved(o[1]) BY <2>1, MineIs
  <2>3. At(s)[o[1]] # NULL BY <1>2, <2>1, <2>2, LedgerView
  <2>4. Has(w, o[1]) BY <1>5, <2>2, <2>3 DEF KnowsOf, Agrees
  <2>5. ASSUME NEW t \in Txs(b), o \in Vin[t] PROVE FALSE
    <3>1. PICK i \in DOMAIN Vtx[b] : Vtx[b][i] = t BY DEF Txs
    <3>2. InputConnects(s, b, i, o) BY <1>1, <2>5, <3>1 DEF CanConnect
    <3>3. ~\E j \in DOMAIN Vtx[b] : j < i /\ Vtx[b][j] = o[1] BY <1>2, <2>1 DEF Txs
    <3> QED BY <2>1, <3>2, <3>3 DEF InputConnects
  <2> QED BY <1>6, <2>1, <2>4, <2>5
<1>8. KnowsOf(v, s) BY <1>5, <1>6, <1>7 DEF KnowsOf, Agrees
<1>9. ASSUME Blamed(w, At(c)) PROVE Blamed(v, At(s))
  <2> SUFFICES ASSUME NEW o \in Mine, Has(v, o[1]), Spent(v, o)
               PROVE  \E t \in Tx : o \in Vin[t] /\ (t \notin CoinStake \/ At(s)[t] # NULL)
    BY DEF Blamed
  <2>1. o[1] \in Tx BY MineIs
  <2>2. Has(w, o[1]) /\ Spent(w, o) /\ ~\E t \in Txs(b) \cap CoinStake : o \in Vin[t]
    BY <1>6, <2>1
  <2>3. PICK t \in Tx : o \in Vin[t] /\ (t \notin CoinStake \/ At(c)[t] # NULL)
    BY <1>9, <2>2 DEF Blamed
  <2>4. ASSUME t \in CoinStake PROVE At(s)[t] # NULL
    <3>1. t \notin Txs(b) BY <2>2, <2>3, <2>4
    <3>2. ~\E i \in 1 .. N : Vtx[b][i] = t BY <1>4, <3>1 DEF Txs
    <3>3. At(c)[t] = At(s)[t] BY <1>3, <3>2 DEF AtUpTo
    <3> QED BY <2>3, <2>4, <3>3
  <2> QED BY <2>3, <2>4
<1> QED BY <1>8, <1>9

---------------------------------------------------------------------------
(* A rescan *)

(* The locator and the best chain have a last block in common.             *)
LEMMA Highest ==
  ASSUME NEW a \in Block, NEW b \in Block
  PROVE  \E x \in Chain[a] \cap Chain[b] : \A c \in Chain[a] \cap Chain[b] : Height[c] <= Height[x]
<1> DEFINE C == Chain[a] \cap Chain[b]
           D == {Height[b] - Height[c] : c \in C}
<1>1. Genesis \in C /\ C \subseteq Block BY Branches, TreeAssumption DEF IsBranch
<1>2. ASSUME NEW c \in C PROVE Height[c] \in Nat /\ Height[b] \in Nat /\ Height[c] <= Height[b]
  <2>1. c \in Chain[b] /\ c \in Block BY <1>1
  <2>2. Height[c] \in Nat /\ Height[b] \in Nat BY <2>1, TreeAssumption
  <2>3. c = b \/ Height[c] < Height[b] BY <2>1, Branches DEF IsBranch
  <2> QED BY <2>2, <2>3
<1>3. D \in SUBSET Nat /\ D # {} BY <1>1, <1>2
<1>4. PICK m \in D : \A n \in D : m <= n
  <2> HIDE DEF D
  <2> QED BY <1>3, Least
<1>5. PICK x \in C : m = Height[b] - Height[x] BY <1>4
<1>6. ASSUME NEW c \in C PROVE Height[c] <= Height[x]
  <2>1. Height[b] - Height[x] <= Height[b] - Height[c] BY <1>4, <1>5
  <2> QED BY <1>2, <2>1
<1> QED BY <1>5, <1>6

(* The blocks a rescan goes through: from a up to b, one after the other.  *)
LEMMA BranchFromIs ==
  ASSUME NEW b \in Block, NEW a \in Chain[b]
  PROVE  LET N == Height[b] - Height[a] + 1 IN
         /\ N \in Nat \ {0}
         /\ \A n \in 1 .. N : BranchFrom(a, b, n) \in Chain[b] /\ BranchFrom(a, b, n) \in Block
         /\ BranchFrom(a, b, 1) = a /\ BranchFrom(a, b, N) = b
         /\ \A n \in 2 .. N : /\ BranchFrom(a, b, n) # Genesis
                              /\ Prev[BranchFrom(a, b, n)] = BranchFrom(a, b, n - 1)
<1> DEFINE N == Height[b] - Height[a] + 1
           B(n) == BranchFrom(a, b, n)
<1>1. a \in Block /\ Chain[b] \subseteq Block /\ b \in Chain[b] /\ IsBranch(b)
  BY Branches, TreeAssumption DEF IsBranch
<1>2. Height[a] \in Nat /\ Height[b] \in Nat /\ Height[a] <= Height[b]
  <2>1. Height[a] \in Nat /\ Height[b] \in Nat BY <1>1, TreeAssumption
  <2>2. a = b \/ Height[a] < Height[b] BY <1>1 DEF IsBranch
  <2> QED BY <2>1, <2>2
<1>3. N \in Nat \ {0} BY <1>2
<1>4. ASSUME NEW n \in 1 .. N PROVE B(n) \in Chain[b] /\ Height[B(n)] = Height[a] + n - 1
  <2>1. Height[a] + n - 1 \in 0 .. Height[b] BY <1>2
  <2>2. \E c \in Chain[b] : Height[c] = Height[a] + n - 1 BY <1>1, <2>1 DEF IsBranch
  <2> QED BY <2>2 DEF BranchFrom
<1>5. \A c, d \in Chain[b] : Height[c] = Height[d] => c = d BY <1>1 DEF IsBranch
<1>6. B(1) = a /\ B(N) = b
  <2>1. 1 \in 1 .. N /\ N \in 1 .. N BY <1>3
  <2>2. Height[B(1)] = Height[a] /\ Height[B(N)] = Height[b] BY <1>2, <1>4, <2>1
  <2>3. B(1) \in Chain[b] /\ B(N) \in Chain[b] BY <1>4, <2>1
  <2> HIDE DEF B, N
  <2> QED BY <1>1, <1>5, <2>2, <2>3
<1>7. ASSUME NEW n \in 2 .. N PROVE B(n) # Genesis /\ Prev[B(n)] = B(n - 1)
  <2>1. n \in 1 .. N /\ n - 1 \in 1 .. N BY <1>3
  <2>2. Height[B(n)] = Height[a] + n - 1 /\ Height[B(n - 1)] = Height[a] + (n - 1) - 1
        /\ B(n) \in Chain[b] /\ B(n - 1) \in Chain[b]
    BY <1>4, <2>1
  <2>3. B(n) # Genesis BY <1>2, <2>2, TreeAssumption
  <2>4. B(n) \in Block /\ Prev[B(n)] \in Chain[B(n)] /\ Height[B(n)] = Height[Prev[B(n)]] + 1
        /\ Prev[B(n)] \in Block
    BY <1>1, <2>2, <2>3, ParentInBranch
  <2>5. Prev[B(n)] \in Chain[b] BY <1>1, <2>2, <2>4 DEF IsBranch
  <2>6. Height[Prev[B(n)]] \in Nat BY <2>4, TreeAssumption
  <2>7. Height[Prev[B(n)]] = Height[B(n - 1)] BY <1>2, <2>2, <2>4, <2>6
  <2> HIDE DEF B
  <2> QED BY <1>5, <2>2, <2>3, <2>5, <2>7
<1> QED
  <2> HIDE DEF B
  <2> QED BY <1>1, <1>3, <1>4, <1>6, <1>7 DEF B

(* ScanForWalletTransactions: the course of the loop.                      *)
LEMMA ScanCourse ==
  ASSUME NEW w \in Wallets, NEW b \in Block, NEW a \in Chain[b], NEW f \in BOOLEAN
  PROVE  LET N == Height[b] - Height[a] + 1 IN
         \E F \in [0 .. N -> Wallets] :
           /\ F[0] = w
           /\ \A n \in 1 .. N : F[n] = SyncConnected(F[n - 1], BranchFrom(a, b, n), f)
           /\ ScanForWalletTransactions(w, a, b, f) = F[N]
<1> DEFINE N == Height[b] - Height[a] + 1
           Next1(x, n) == SyncConnected(x, BranchFrom(a, b, n), f)
           IsCourse(F) == F = [n \in 0 .. N |-> IF n = 0 THEN w ELSE Next1(F[n - 1], n)]
           F == CHOOSE F : IsCourse(F)
           G == [x \in (1 .. N) \X Wallets |-> Next1(x[2], x[1])]
<1>1. N \in Nat /\ \A n \in 1 .. N : BranchFrom(a, b, n) \in Block BY BranchFromIs
<1>2. ASSUME NEW x \in Wallets, NEW n \in 1 .. N PROVE Next1(x, n) \in Wallets
  BY <1>1, ConnectedTyped
<1>3. \E F_1 : IsCourse(F_1)
  <2>1. G \in [(1 .. N) \X Wallets -> Wallets]
    <3> HIDE DEF Next1
    <3> QED BY <1>2
  <2>2. \A n \in 1 .. N, x \in Wallets : G[<<n, x>>] = Next1(x, n)
    <3> HIDE DEF Next1
    <3> QED OBVIOUS
  <2> HIDE DEF G, Next1
  <2>3. PICK g \in [0 .. N -> Wallets] : g[0] = w /\ \A n \in 1 .. N : g[n] = G[<<n, g[n - 1]>>]
    <3> HIDE DEF N, F, IsCourse
    <3>1. HasCourse(N, Wallets, w, G) BY <1>1, <2>1, Iterated, Zenon
    <3> QED BY <3>1 DEF HasCourse
  <2>4. ASSUME NEW n \in 0 .. N PROVE g[n] = IF n = 0 THEN w ELSE Next1(g[n - 1], n)
    <3>1. CASE n = 0 BY <2>3, <3>1
    <3>2. CASE n # 0
      <4>1. n \in 1 .. N /\ n - 1 \in 0 .. N BY <1>1, <3>2
      <4>2. g[n - 1] \in Wallets BY <4>1
      <4> QED BY <2>2, <2>3, <3>2, <4>1, <4>2
    <3> QED BY <3>1, <3>2
  <2>5. IsCourse(g) BY <2>4
  <2> QED BY <2>5
<1>4. IsCourse(F)
  <2> HIDE DEF IsCourse
  <2> QED BY <1>3
<1>5. F[0] = w /\ \A n \in 1 .. N : F[n] = Next1(F[n - 1], n)
  <2> HIDE DEF F, Next1, N
  <2> QED BY <1>1, <1>4
<1>6. F \in [0 .. N -> Wallets]
  <2> DEFINE S == {n \in 0 .. N : F[n] \in Wallets}
  <2> HIDE DEF F
  <2>1. 0 \in S BY <1>1, <1>5
  <2>2. \A n \in 1 .. N : n - 1 \in S => n \in S
    <3> HIDE DEF Next1, N
    <3> QED BY <1>1, <1>2, <1>5
  <2>3. \A n \in 0 .. N : n \in S
    <3> HIDE DEF S, N
    <3> QED BY <1>1, <2>1, <2>2, CountUp
  <2> HIDE DEF Next1
  <2> QED BY <1>4, <2>3
<1>7. ScanForWalletTransactions(w, a, b, f) = F[N] BY DEF ScanForWalletTransactions
<1> QED
  <2> HIDE DEF F
  <2> QED BY <1>5, <1>6, <1>7

LEMMA ScanTyped ==
  ASSUME NEW w \in Wallets, NEW b \in Block, NEW a \in Chain[b], NEW f \in BOOLEAN
  PROVE  ScanForWalletTransactions(w, a, b, f) \in Wallets
<1>1. Height[b] - Height[a] + 1 \in Nat BY BranchFromIs
<1> QED BY <1>1, ScanCourse

(* A rescan from any block of the branch up to its last leaves a wallet    *)
(* that knew of the branch knowing of it.                                  *)
LEMMA ScanTold ==
  ASSUME NEW b \in Block, Valid(b), NEW a \in Chain[b], NEW w \in Wallets,
         KnowsOf(w, LedgerAt[b])
  PROVE  KnowsOf(ScanForWalletTransactions(w, a, b, TRUE), LedgerAt[b])
<1> DEFINE N == Height[b] - Height[a] + 1
           B(n) == BranchFrom(a, b, n)
<1>1. /\ N \in Nat \ {0}
      /\ \A n \in 1 .. N : B(n) \in Chain[b] /\ B(n) \in Block
      /\ B(1) = a /\ B(N) = b
      /\ \A n \in 2 .. N : B(n) # Genesis /\ Prev[B(n)] = B(n - 1)
  BY BranchFromIs
<1>2. PICK F \in [0 .. N -> Wallets] :
        /\ F[0] = w
        /\ \A n \in 1 .. N : F[n] = SyncConnected(F[n - 1], B(n), TRUE)
        /\ ScanForWalletTransactions(w, a, b, TRUE) = F[N]
  <2>1. PICK f \in BOOLEAN : f = TRUE OBVIOUS
  <2>2. \E F \in [0 .. N -> Wallets] :
          /\ F[0] = w
          /\ \A n \in 1 .. N : F[n] = SyncConnected(F[n - 1], B(n), f)
          /\ ScanForWalletTransactions(w, a, b, f) = F[N]
    BY ScanCourse
  <2> QED BY <2>1, <2>2
<1> DEFINE S == {n \in 0 .. N : n # 0 => KnowsOf(F[n], LedgerAt[B(n)])}
<1> HIDE DEF N, B
<1>3. 0 \in S BY <1>1
<1>4. ASSUME NEW n \in 1 .. N, n - 1 \in S PROVE n \in S
  <2> DEFINE c == B(n)
  <2>1. c \in Block /\ c \in Chain[b] /\ n \in 0 .. N /\ n - 1 \in 0 .. N BY <1>1
  <2>2. Valid(c) /\ F[n - 1] \in Wallets BY <2>1, ValidDown
  <2>3. F[n] = SyncConnected(F[n - 1], c, TRUE) BY <1>2
  <2>4. CASE c = Genesis
    <3>1. At(LedgerAt[c]) = [t \in Tx |-> NULL] /\ Sp(LedgerAt[c]) = {}
      <4>1. LedgerAt[c] = EmptyTxIndex BY <2>4, LedgerAssumption
      <4>2. \A o \in Mine : o[1] \in Tx BY MineIs
      <4> QED BY <4>1, <4>2 DEF At, Sp, EmptyTxIndex
    <3>2. KnowsOf(F[n], LedgerAt[c]) BY <3>1 DEF KnowsOf, Agrees
    <3> QED BY <2>1, <3>2
  <2>5. CASE c # Genesis
    <3>1. KnowsOf(F[n - 1], LedgerAt[Prev[c]])
      <4>1. CASE n = 1
        <5>1. Prev[c] \in Chain[c] /\ Chain[c] \subseteq Chain[b]
          BY <2>1, <2>5, ParentInBranch, Branches DEF IsBranch
        <5>2. F[n - 1] = w BY <1>2, <4>1
        <5> QED BY <5>1, <5>2, KnowsBelow
      <4>2. CASE n # 1
        <5>1. n \in 2 .. N /\ n - 1 # 0 BY <1>1, <4>2
        <5>2. Prev[c] = B(n - 1) BY <1>1, <5>1
        <5> QED BY <1>4, <5>1, <5>2
      <4> QED BY <4>1, <4>2
    <3>2. KnowsOf(F[n], LedgerAt[c])
      <4> HIDE DEF c
      <4> QED BY <2>1, <2>2, <2>3, <2>5, <3>1, ConnectTold
    <3> QED BY <2>1, <3>2
  <2> QED BY <2>4, <2>5
<1>5. \A n \in 0 .. N : n \in S
  <2> HIDE DEF S
  <2> QED BY <1>1, <1>3, <1>4, CountUp
<1>6. N \in 0 .. N /\ N # 0 BY <1>1
<1>7. KnowsOf(F[N], LedgerAt[B(N)]) BY <1>5, <1>6
<1> QED BY <1>1, <1>2, <1>7

(* A rescan for what is not known only takes nothing away.                 *)
LEMMA ScanAgain ==
  ASSUME NEW b \in Block, NEW a \in Chain[b], NEW w \in Wallets, NEW at, NEW X,
         IsView(at, X), Agrees(w, at, X)
  PROVE  Agrees(ScanForWalletTransactions(w, a, b, FALSE), at, X)
<1> DEFINE N == Height[b] - Height[a] + 1
           B(n) == BranchFrom(a, b, n)
<1>1. N \in Nat \ {0} /\ \A n \in 1 .. N : B(n) \in Block BY BranchFromIs
<1>2. PICK F \in [0 .. N -> Wallets] :
        /\ F[0] = w
        /\ \A n \in 1 .. N : F[n] = SyncConnected(F[n - 1], B(n), FALSE)
        /\ ScanForWalletTransactions(w, a, b, FALSE) = F[N]
  <2>1. PICK f \in BOOLEAN : f = FALSE OBVIOUS
  <2>2. \E F \in [0 .. N -> Wallets] :
          /\ F[0] = w
          /\ \A n \in 1 .. N : F[n] = SyncConnected(F[n - 1], B(n), f)
          /\ ScanForWalletTransactions(w, a, b, f) = F[N]
    BY ScanCourse
  <2> QED BY <2>1, <2>2
<1> DEFINE S == {n \in 0 .. N : Agrees(F[n], at, X)}
<1> HIDE DEF N, B
<1>3. 0 \in S BY <1>1, <1>2
<1>4. ASSUME NEW n \in 1 .. N, n - 1 \in S PROVE n \in S
  <2>1. B(n) \in Block /\ n \in 0 .. N /\ n - 1 \in 0 .. N BY <1>1
  <2>2. F[n - 1] \in Wallets /\ Agrees(F[n - 1], at, X) BY <1>4, <2>1
  <2>3. F[n] = SyncConnected(F[n - 1], B(n), FALSE) BY <1>2
  <2>4. Agrees(F[n], at, X) BY <2>1, <2>2, <2>3, ToldAgain
  <2> QED BY <2>1, <2>4
<1>5. \A n \in 0 .. N : n \in S
  <2> HIDE DEF S
  <2> QED BY <1>1, <1>3, <1>4, CountUp
<1>6. Agrees(F[N], at, X)
  <2>1. N \in 0 .. N BY <1>1
  <2> QED BY <1>5, <2>1
<1> QED BY <1>2, <1>6

---------------------------------------------------------------------------
(* The chain and the pool under the wallet *)

(* The wallet's own two ways into the pool are those of accept().          *)
OwnAccept == TryNext \/ \E t \in Tx : Send(t)

(* Every other step of the wallet is one of the node.                      *)
LEMMA WalletSteps ==
  ASSUME [WalletNext]_walletVars
  PROVE  OwnAccept \/ [NodeNext]_nodeVars
<1>1. CASE WalletPoolStep \/ WalletQuietStep \/ WalletConnectTip \/ WalletConnectSecondary
           \/ WalletReorgDisconnect \/ WalletReorgConnect \/ WalletReorgFails
  BY <1>1 DEF WalletPoolStep, WalletQuietStep, WalletConnectTip, WalletConnectSecondary,
     WalletReorgDisconnect, WalletReorgConnect, WalletReorgFails, NodeNext, NodeStep
<1>2. CASE ReacceptBegin \/ ReacceptEnd \/ FixSpentCoins \/ \E t \in Tx : AcceptWalletTransaction(t)
  BY <1>2 DEF ReacceptBegin, ReacceptEnd, FixSpentCoins, AcceptWalletTransaction
<1>3. CASE (\E b \in Block : WalletAcceptBlock(b)) \/ \E t \in Tx : WalletReceiveTx(t)
  BY <1>3 DEF WalletAcceptBlock, WalletReceiveTx, NodeNext
<1>4. CASE WalletRestart \/ CrashInConnect
  BY <1>4 DEF WalletRestart, CrashInConnect, StartWith, NodeNext, NodeRestart
<1>5. CASE UNCHANGED walletVars BY <1>5 DEF walletVars
<1>6. CASE OwnAccept BY <1>6
<1> QED BY <1>1, <1>2, <1>3, <1>4, <1>5, <1>6 DEF WalletNext, WalletStep, OwnAccept

(* The chain, the pool and its queues. *)
LEMMA WalletUnder ==
  ASSUME SafetyInv, MapsInv, WalletTypeOK, [WalletNext]_walletVars
  PROVE  [Next]_vars /\ SafetyInv' /\ MapsInv'
<1>1. ChainOK BY DEF SafetyInv, ChainOK
<1>2. CASE [NodeNext]_nodeVars
  <2>1. [Next]_vars BY <1>2, ChainSteps
  <2> QED BY <1>1, <1>2, <2>1, SafetyInductive, MapsStep
<1>3. CASE OwnAccept
  <2>1. UNCHANGED vars /\ UNCHANGED <<orphanVars, queueVars, reorgVars, lost>>
    BY <1>3 DEF OwnAccept, TryNext, Send
  <2>2. [Next]_vars BY <2>1
  <2>3. PoolMapsOK'
    <3>1. CASE UNCHANGED <<mapTx, mapNextTx>> BY <3>1 DEF MapsInv, PoolMapsOK, PoolIndexed
    <3>2. CASE TryNext /\ ~UNCHANGED <<mapTx, mapNextTx>>
      <4>1. Head(vAccept) \in Tx BY <3>2, RangeTail DEF TryNext, WalletTypeOK
      <4>2. Acceptable(Head(vAccept), dbTx, pindexBest) /\ addUnchecked(Head(vAccept))
        BY <3>2 DEF TryNext
      <4> QED BY <4>1, <4>2, AddMaps DEF Acceptable, MapsInv
    <3>3. CASE ~UNCHANGED <<mapTx, mapNextTx>> /\ \E t \in Tx : Send(t)
      <4>1. PICK t \in Tx : Acceptable(t, dbTx, pindexBest) /\ addUnchecked(t) BY <3>3 DEF Send
      <4> QED BY <4>1, AddMaps DEF Acceptable, MapsInv
    <3> QED BY <1>3, <3>1, <3>2, <3>3 DEF OwnAccept
  <2>4. OrphansOK' /\ QueuesOK'
    BY <2>1 DEF MapsInv, OrphansOK, OrphansIndexed, QueuesOK, orphanVars, queueVars, reorgVars
  <2> QED BY <2>2, <2>3, <2>4, SafetyInductive DEF MapsInv
<1> QED BY <1>2, <1>3, WalletSteps

(* What enters the pool is a transaction the pool may have.                *)
LEMMA NewInPool ==
  ASSUME MapsInv, WalletTypeOK, MapsInv',
         WalletPoolStep \/ (\E t \in Tx : WalletReceiveTx(t)) \/ TryNext
  PROVE  \A t \in mapTx' \ mapTx : t \in Tx /\ t \notin CoinStake
<1> DEFINE Entered == \E t \in Tx : t \notin CoinStake /\ mapTx' = mapTx \cup {t}
<1>1. mapTx' \subseteq Tx BY DEF MapsInv, PoolMapsOK
<1>2. ASSUME NEW t, NEW txdb, NEW best, Acceptable(t, txdb, best), addUnchecked(t)
      PROVE  t \notin CoinStake /\ mapTx' = mapTx \cup {t}
  BY <1>2 DEF Acceptable, Eligible, addUnchecked
<1>3. ASSUME WalletPoolStep PROVE \A t \in mapTx' \ mapTx : t \notin CoinStake
  <2>1. CASE Resurrect BY <1>2, <2>1 DEF Resurrect
  <2>2. CASE ResurrectFails BY <2>2 DEF ResurrectFails, poolVars
  <2>3. CASE DeleteRedundant BY <2>3 DEF DeleteRedundant, removeConfirmed, Erase
  <2>4. CASE HandleTx
    <3>1. CASE NextWork \/ EraseOrphans BY <3>1 DEF NextWork, EraseOrphans
    <3>2. CASE \E t \in Tx : OrphanAccepted(t, dbTx, pindexBest)
      BY <1>2, <3>2 DEF OrphanAccepted
    <3>3. CASE \E t \in Tx : OrphanRefused(t, dbTx, pindexBest) BY <3>3 DEF OrphanRefused
    <3> QED BY <2>4, <3>1, <3>2, <3>3 DEF HandleTx, HandlerStep
  <2> QED BY <1>3, <2>1, <2>2, <2>3, <2>4 DEF WalletPoolStep
<1>4. ASSUME NEW u \in Tx, WalletReceiveTx(u) PROVE \A t \in mapTx' \ mapTx : t \notin CoinStake
  <2>1. CASE TxAccepted(u, dbTx, pindexBest) BY <1>2, <2>1 DEF TxAccepted
  <2>2. CASE TxOrphaned(u, dbTx) BY <2>2 DEF TxOrphaned
  <2>3. CASE AcceptToMemoryPool(u, dbTx, pindexBest) BY <1>2, <2>3 DEF AcceptToMemoryPool
  <2> QED BY <1>4, <2>1, <2>2, <2>3 DEF WalletReceiveTx, ReceiveTx
<1>5. ASSUME TryNext PROVE \A t \in mapTx' \ mapTx : t \notin CoinStake
  BY <1>2, <1>5 DEF TryNext
<1> QED BY <1>1, <1>3, <1>4, <1>5

---------------------------------------------------------------------------
(* Types *)

(* What t rests on, and nothing that rests on t: what spends t, directly   *)
(* or not, is a set that no chain of inputs from t enters, since no        *)
(* transactions spend each other in a circle.                              *)
RestsOn(t, A) ==
  /\ A \subseteq Tx /\ Prevs(t) \subseteq A
  /\ \A p \in A : Prevs(p) \subseteq A /\ p # t /\ t \notin Prevs(p)
LEMMA RestsOnSome == \A t \in Tx : \E A : RestsOn(t, A)
<1> SUFFICES ASSUME NEW t \in Tx PROVE \E A : RestsOn(t, A) OBVIOUS
<1> DEFINE Downward(E) == t \in E /\ \A p, q \in Tx : q \in E /\ q \in Prevs(p) => p \in E
           Below == {p \in Tx : \A E \in SUBSET Tx : Downward(E) => p \in E}
<1>1. t \in Below /\ \A p, q \in Tx : q \in Below /\ q \in Prevs(p) => p \in Below
  OBVIOUS
<1>2. Prevs(t) \cap Below = {}
  <2>1. PICK u \in Below : Prevs(u) \cap Below = {}
    <3>1. Below \in SUBSET Tx /\ Below # {} BY <1>1
    <3> HIDE DEF Below
    <3> QED BY <3>1, HashAssumption
  <2>2. ASSUME u # t PROVE FALSE
    <3>1. Below \ {u} \in SUBSET Tx OBVIOUS
    <3>2. Downward(Below \ {u})
      <4> HIDE DEF Below
      <4> QED BY <1>1, <2>1, <2>2
    <3>3. u \in Below \ {u} BY <2>1, <3>1, <3>2
    <3> QED BY <3>3
  <2> QED BY <2>1, <2>2
<1>3. \A p \in Tx : Prevs(p) \subseteq Tx BY TxAssumption DEF Prevs, OutPoint
<1> HIDE DEF Below
<1>4. RestsOn(t, Tx \ Below) BY <1>1, <1>2, <1>3 DEF RestsOn
<1> QED BY <1>4

(* The search of AddSupportingTransactions comes to each transaction once, *)
(* and to none but from t or from one it has found before.                 *)
Met(t, p, f) == p \in Prevs(t) \/ \E k \in DOMAIN f : p \in Prevs(f[k].tx)
InTurn(t, f) ==
  \A j \in DOMAIN f :
    /\ \A i \in DOMAIN f : f[i].tx = f[j].tx => i = j
    /\ f[j].tx \in Prevs(t) \/ \E k \in DOMAIN f : k < j /\ f[j].tx \in Prevs(f[k].tx)
CopiesOf(A) == {c \in CMerkleTx : c.tx \in A}
Search(t, A) ==
  {s \in [queue : Seq(A), done : SUBSET Tx, prev : SUBSET CMerkleTx, found : Seq(CopiesOf(A))] :
     /\ \A p \in Range(s.queue) : Met(t, p, s.found)
     /\ \A j \in DOMAIN s.found : s.found[j].tx \in s.done
     /\ InTurn(t, s.found)}

LEMMA SearchIs ==
  ASSUME NEW t, NEW A, NEW q \in Seq(A), NEW d \in SUBSET Tx, NEW p \in SUBSET CMerkleTx,
         NEW f \in Seq(CopiesOf(A)), \A x \in Range(q) : Met(t, x, f),
         \A j \in DOMAIN f : f[j].tx \in d, InTurn(t, f)
  PROVE  [queue |-> q, done |-> d, prev |-> p, found |-> f] \in Search(t, A)
<1> DEFINE s == [queue |-> q, done |-> d, prev |-> p, found |-> f]
<1>1. s \in [queue : Seq(A), done : SUBSET Tx, prev : SUBSET CMerkleTx, found : Seq(CopiesOf(A))]
  OBVIOUS
<1>2. s.queue = q /\ s.done = d /\ s.found = f OBVIOUS
<1> HIDE DEF s
<1>3. s \in Search(t, A) BY <1>1, <1>2 DEF Search
<1> QED BY <1>3 DEF s

(* One more is found. *)
LEMMA FoundOneMore ==
  ASSUME NEW t, NEW A, NEW f \in Seq(CopiesOf(A)), InTurn(t, f), NEW c \in CopiesOf(A),
         Met(t, c.tx, f), \A j \in DOMAIN f : f[j].tx # c.tx
  PROVE  LET g == Append(f, c) IN
         /\ g \in Seq(CopiesOf(A)) /\ InTurn(t, g)
         /\ \A j \in DOMAIN g : (j \in DOMAIN f /\ g[j] = f[j]) \/ g[j] = c
         /\ \A p : Met(t, p, g) <=> Met(t, p, f) \/ p \in Prevs(c.tx)
<1> DEFINE n == Len(f)
           g == Append(f, c)
<1>1. /\ n \in Nat /\ DOMAIN f = 1 .. n /\ g \in Seq(CopiesOf(A)) /\ DOMAIN g = 1 .. (n + 1)
      /\ g[n + 1] = c /\ \A i \in 1 .. n : g[i] = f[i]
  <2> HIDE DEF CopiesOf
  <2> QED OBVIOUS
<1> HIDE DEF n, g
<1>2. \A j \in 1 .. (n + 1) : (j \in 1 .. n /\ g[j] = f[j]) \/ (j = n + 1 /\ g[j] = c)
  <2>1. \A j \in 1 .. (n + 1) : j \in 1 .. n \/ j = n + 1 BY <1>1
  <2> QED BY <1>1, <2>1
<1>3. n + 1 \in 1 .. (n + 1) /\ 1 .. n \subseteq 1 .. (n + 1) BY <1>1
<1>4. \A p : Met(t, p, g) <=> Met(t, p, f) \/ p \in Prevs(c.tx) BY <1>1, <1>2, <1>3 DEF Met
<1>5. ASSUME NEW i \in 1 .. (n + 1), NEW j \in 1 .. (n + 1), g[i].tx = g[j].tx PROVE i = j
  <2>1. CASE i = n + 1 /\ j \in 1 .. n BY <1>1, <1>5, <2>1
  <2>2. CASE j = n + 1 /\ i \in 1 .. n BY <1>1, <1>5, <2>2
  <2>3. CASE i \in 1 .. n /\ j \in 1 .. n BY <1>1, <1>5, <2>3 DEF InTurn
  <2> QED BY <1>2, <2>1, <2>2, <2>3
<1>6. ASSUME NEW j \in 1 .. (n + 1)
      PROVE  g[j].tx \in Prevs(t) \/ \E k \in 1 .. (n + 1) : k < j /\ g[j].tx \in Prevs(g[k].tx)
  <2>1. CASE j = n + 1
    <3>1. g[j] = c BY <1>1, <2>1
    <3>2. \A k \in 1 .. n : k < j /\ k \in 1 .. (n + 1) /\ g[k] = f[k] BY <1>1, <2>1
    <3> QED BY <1>1, <3>1, <3>2 DEF Met
  <2>2. CASE j \in 1 .. n
    <3>1. g[j] = f[j] BY <1>1, <2>2
    <3>2. f[j].tx \in Prevs(t) \/ \E k \in 1 .. n : k < j /\ f[j].tx \in Prevs(f[k].tx)
      BY <1>1, <2>2 DEF InTurn
    <3>3. \A k \in 1 .. n : g[k] = f[k] BY <1>1
    <3> QED BY <1>3, <3>1, <3>2, <3>3
  <2> QED BY <1>2, <2>1, <2>2
<1>7. InTurn(t, g) BY <1>1, <1>5, <1>6 DEF InTurn
<1> QED BY <1>1, <1>2, <1>4, <1>7 DEF g

(* The copies of an entry, and the block a copy has. *)
LEMMA EntryCopies ==
  ASSUME NEW w \in Wallets, NEW t \in Tx, Has(w, t)
  PROVE  /\ w[t].hashBlock \in Block \cup {NULL} /\ w[t].vtxPrev \in Copies(t)
         /\ w[t].vtxPrev \in Seq(Supporting(t)) /\ Range(w[t].vtxPrev) \subseteq Supporting(t)
         /\ Supporting(t) \subseteq CMerkleTx
<1>1. w[t] \in CWalletTx(t) BY WalletsAre DEF WalletType, Has
<1>2. w[t].hashBlock \in Block \cup {NULL} /\ w[t].vtxPrev \in Copies(t) BY <1>1 DEF CWalletTx
<1>3. w[t].vtxPrev \in Seq(Supporting(t)) BY <1>2 DEF Copies
<1>4. Range(w[t].vtxPrev) \subseteq Supporting(t)
  <2>1. \A S : \A q \in Seq(S) : \A i \in DOMAIN q : q[i] \in S OBVIOUS
  <2> QED BY <1>3, <2>1 DEF Range
<1> QED BY <1>2, <1>3, <1>4 DEF Supporting

(* One round of the loop. *)
LEMMA VisitKeeps ==
  ASSUME TxIndexType(dbTx), mapWallet \in Wallets, NEW t \in Tx, NEW A, RestsOn(t, A),
         NEW s \in Search(t, A)
  PROVE  Visit(s) \in Search(t, A)
<1> DEFINE p == Head(s.queue)
           prev == IF mapWallet[p] = NULL THEN s.prev
                   ELSE {c \in s.prev : c.tx \notin TxsOf(VtxPrev(p))} \cup VtxPrev(p)
           known == mapWallet[p] # NULL \/ p \in TxsOf(s.prev) \/ dbTx[p] # NULL
           more == IF MerkleDepth(p) < COPY_DEPTH THEN PrevOrder[p] ELSE <<>>
           copy == [tx |-> p, hashBlock |-> CopyBlock(p, s.prev)]
           Visited == [queue |-> Tail(s.queue) \o more, done |-> s.done \cup {p}, prev |-> prev,
                       found |-> Append(s.found, copy)]
<1>1. /\ s \in [queue : Seq(A), done : SUBSET Tx, prev : SUBSET CMerkleTx, found : Seq(CopiesOf(A))]
      /\ \A q \in Range(s.queue) : Met(t, q, s.found)
      /\ \A j \in DOMAIN s.found : s.found[j].tx \in s.done
      /\ InTurn(t, s.found)
  BY DEF Search
<1>2. CASE s.queue = <<>>
  <2>1. Visit(s) = s BY <1>2 DEF Visit
  <2> QED BY <2>1
<1>3. ASSUME s.queue # <<>>
      PROVE  /\ p \in A /\ p \in Tx /\ Tail(s.queue) \in Seq(A)
             /\ Range(s.queue) = {p} \cup Range(Tail(s.queue)) /\ Met(t, p, s.found)
  <2>1. s.queue \in Seq(A) BY <1>1
  <2>2. p \in A /\ Tail(s.queue) \in Seq(A) /\ Range(s.queue) = {p} \cup Range(Tail(s.queue))
    BY <1>3, <2>1, RangeTail
  <2> HIDE DEF p
  <2> QED BY <1>1, <2>2 DEF RestsOn
<1>4. CASE s.queue # <<>> /\ (p \in s.done \/ ~known)
  <2>1. Visit(s) = [s EXCEPT !.queue = Tail(@), !.done = @ \cup {p}] BY <1>4 DEF Visit
  <2> HIDE DEF p, known
  <2>2. Visit(s) = [queue |-> Tail(s.queue), done |-> s.done \cup {p}, prev |-> s.prev,
                    found |-> s.found]
    BY <1>1, <2>1
  <2>3. p \in Tx /\ Tail(s.queue) \in Seq(A) /\ Range(Tail(s.queue)) \subseteq Range(s.queue)
    BY <1>3, <1>4
  <2>4. s.done \cup {p} \in SUBSET Tx BY <1>1, <2>3
  <2>5. \A q \in Range(Tail(s.queue)) : Met(t, q, s.found) BY <1>1, <2>3
  <2>6. \A j \in DOMAIN s.found : s.found[j].tx \in s.done \cup {p} BY <1>1
  <2>7. s.prev \in SUBSET CMerkleTx /\ s.found \in Seq(CopiesOf(A)) BY <1>1
  <2>8. InTurn(t, s.found) BY <1>1
  <2>9. [queue |-> Tail(s.queue), done |-> s.done \cup {p}, prev |-> s.prev, found |-> s.found]
          \in Search(t, A)
    BY <2>3, <2>4, <2>5, <2>6, <2>7, <2>8, SearchIs
  <2> QED BY <2>2, <2>9
<1>5. CASE s.queue # <<>> /\ p \notin s.done /\ known
  <2>1. Visit(s) = Visited BY <1>5 DEF Visit
  <2>2. p \in Tx /\ p \in A /\ Tail(s.queue) \in Seq(A) /\ Met(t, p, s.found)
        /\ Range(s.queue) = {p} \cup Range(Tail(s.queue))
    BY <1>3, <1>5
  <2>3. mapWallet[p] # NULL => /\ mapWallet[p].hashBlock \in Block \cup {NULL}
                               /\ VtxPrev(p) \subseteq CMerkleTx
    <3> HIDE DEF p
    <3> QED BY <2>2, EntryCopies DEF Has, VtxPrev
  <2>4. prev \in SUBSET CMerkleTx BY <1>1, <2>3
  <2>5. CopyBlock(p, s.prev) \in Block \cup {NULL}
    <3>1. dbTx[p] # NULL => dbTx[p].pos \in Block
      <4> HIDE DEF p
      <4> QED BY <2>2 DEF TxIndexType, CTxIndex
    <3>2. ASSUME p \in TxsOf(s.prev) PROVE CopyOf(s.prev, p).hashBlock \in Block \cup {NULL}
      <4> HIDE DEF p
      <4>1. \E c \in s.prev : c.tx = p BY <3>2 DEF TxsOf
      <4>2. CopyOf(s.prev, p) \in s.prev BY <4>1 DEF CopyOf
      <4>3. CopyOf(s.prev, p) \in CMerkleTx BY <1>1, <4>2
      <4> QED BY <4>3 DEF CMerkleTx
    <3> QED BY <1>5, <2>3, <3>1, <3>2 DEF CopyBlock
  <2> HIDE DEF prev, known
  <2>6. copy \in CopiesOf(A) /\ copy.tx = p
    <3> HIDE DEF p
    <3> QED BY <2>2, <2>5 DEF CopiesOf, CMerkleTx
  <2>7. more \in Seq(A) /\ Range(more) \subseteq Prevs(p)
    <3> HIDE DEF p
    <3>1. Prevs(p) \subseteq A BY <2>2 DEF RestsOn
    <3>2. CASE MerkleDepth(p) < COPY_DEPTH
      <4>1. PrevOrder[p] \in Seq(Tx) /\ Range(PrevOrder[p]) = Prevs(p) BY <2>2, WalletAssumption
      <4>2. PrevOrder[p] \in Seq(A)
        <5>1. \A S : \A q \in Seq(S) : q \in Seq(Range(q)) BY DEF Range
        <5>2. \A S, T : S \subseteq T => Seq(S) \subseteq Seq(T) OBVIOUS
        <5> QED BY <3>1, <4>1, <5>1, <5>2
      <4> QED BY <3>2, <4>1, <4>2
    <3>3. CASE ~(MerkleDepth(p) < COPY_DEPTH) BY <3>3, RangeEmpty
    <3> QED BY <3>2, <3>3
  <2> HIDE DEF more, copy
  <2>8. /\ Tail(s.queue) \o more \in Seq(A)
        /\ Range(Tail(s.queue) \o more) \subseteq Range(s.queue) \cup Prevs(p)
    <3> HIDE DEF p
    <3>1. /\ Tail(s.queue) \o more \in Seq(A)
          /\ Range(Tail(s.queue) \o more) = Range(Tail(s.queue)) \cup Range(more)
      <4>1. \A x, y \in Seq(A) : x \o y \in Seq(A) /\ Range(x \o y) = Range(x) \cup Range(y)
        BY RangeConcat
      <4>2. Tail(s.queue) \in Seq(A) /\ more \in Seq(A) BY <2>2, <2>7
      <4> QED BY <4>1, <4>2
    <3> QED BY <2>2, <2>7, <3>1
  <2>9. /\ Append(s.found, copy) \in Seq(CopiesOf(A)) /\ InTurn(t, Append(s.found, copy))
        /\ \A j \in DOMAIN Append(s.found, copy) :
             \/ j \in DOMAIN s.found /\ Append(s.found, copy)[j] = s.found[j]
             \/ Append(s.found, copy)[j] = copy
        /\ \A q : Met(t, q, Append(s.found, copy)) <=> Met(t, q, s.found) \/ q \in Prevs(p)
    <3> HIDE DEF p
    <3>1. \A j \in DOMAIN s.found : s.found[j].tx # copy.tx BY <1>1, <1>5, <2>6
    <3>2. s.found \in Seq(CopiesOf(A)) /\ InTurn(t, s.found) /\ Met(t, copy.tx, s.found)
      BY <1>1, <2>2, <2>6
    <3> QED BY <2>6, <3>1, <3>2, FoundOneMore
  <2>10. s.done \cup {p} \in SUBSET Tx BY <1>1, <2>2
  <2>11. \A q \in Range(Tail(s.queue) \o more) : Met(t, q, Append(s.found, copy))
    BY <1>1, <2>8, <2>9
  <2>12. \A j \in DOMAIN Append(s.found, copy) : Append(s.found, copy)[j].tx \in s.done \cup {p}
    BY <1>1, <2>6, <2>9
  <2> HIDE DEF p
  <2> QED BY <2>1, <2>4, <2>8, <2>9, <2>10, <2>11, <2>12, SearchIs
<1> QED BY <1>2, <1>4, <1>5

(* What the search has found when it is through. *)
LEMMA FoundIs ==
  ASSUME TxIndexType(dbTx), mapWallet \in Wallets, NEW t \in Tx, NEW A, RestsOn(t, A)
  PROVE  Found(t) \in Seq(CopiesOf(A)) /\ InTurn(t, Found(t))
<1> DEFINE N == QueueBound
           W == Search(t, A)
           w == [queue |-> PrevOrder[t], done |-> {}, prev |-> {}, found |-> <<>>]
           IsCourse(F) == F = [n \in 0 .. N |-> IF n = 0 THEN w ELSE Visit(F[n - 1])]
           F == CHOOSE F : IsCourse(F)
           G == [x \in (1 .. N) \X W |-> Visit(x[2])]
<1>1. N \in Nat
  <2>1. Cardinality(Tx) \in Nat BY WalletAssumption, FS_CardinalityType
  <2> QED BY <2>1 DEF QueueBound
<1>2. w \in W
  <2>1. PrevOrder[t] \in Seq(A) /\ Range(PrevOrder[t]) = Prevs(t)
    <3>1. PrevOrder[t] \in Seq(Tx) /\ Range(PrevOrder[t]) = Prevs(t) BY WalletAssumption
    <3>2. Prevs(t) \subseteq A BY DEF RestsOn
    <3>3. \A S : \A q \in Seq(S) : q \in Seq(Range(q)) BY DEF Range
    <3>4. \A S, T : S \subseteq T => Seq(S) \subseteq Seq(T) OBVIOUS
    <3> QED BY <3>1, <3>2, <3>3, <3>4
  <2>2. <<>> \in Seq(CopiesOf(A)) /\ DOMAIN <<>> = {} BY RangeEmpty
  <2>3. \A p \in Range(PrevOrder[t]) : Met(t, p, <<>>) BY <2>1 DEF Met
  <2>4. InTurn(t, <<>>) BY <2>2 DEF InTurn
  <2> QED BY <2>1, <2>2, <2>3, <2>4 DEF Search
<1>3. \A s \in W : Visit(s) \in W BY VisitKeeps
<1> HIDE DEF W, w
<1>4. \E F_1 : IsCourse(F_1)
  <2>1. G \in [(1 .. N) \X W -> W] BY <1>3
  <2>2. \A n \in 1 .. N, x \in W : G[<<n, x>>] = Visit(x) OBVIOUS
  <2> HIDE DEF G
  <2>3. PICK g \in [0 .. N -> W] : g[0] = w /\ \A n \in 1 .. N : g[n] = G[<<n, g[n - 1]>>]
    <3> HIDE DEF N, F, IsCourse
    <3>1. HasCourse(N, W, w, G) BY <1>1, <1>2, <2>1, Iterated, Zenon
    <3> QED BY <3>1 DEF HasCourse
  <2>4. ASSUME NEW n \in 0 .. N PROVE g[n] = IF n = 0 THEN w ELSE Visit(g[n - 1])
    <3>1. CASE n = 0 BY <2>3, <3>1
    <3>2. CASE n # 0
      <4>1. n \in 1 .. N /\ n - 1 \in 0 .. N BY <1>1, <3>2
      <4>2. g[n - 1] \in W BY <4>1
      <4> QED BY <2>2, <2>3, <3>2, <4>1, <4>2
    <3> QED BY <3>1, <3>2
  <2>5. IsCourse(g) BY <2>4
  <2> QED BY <2>5
<1>5. IsCourse(F)
  <2> HIDE DEF IsCourse
  <2> QED BY <1>4
<1>6. F[0] = w /\ \A n \in 1 .. N : F[n] = Visit(F[n - 1])
  <2>1. ASSUME NEW x, IsCourse(x)
        PROVE  x[0] = w /\ \A n \in 1 .. N : x[n] = Visit(x[n - 1])
    <3> HIDE DEF N, F
    <3>1. 0 \in 0 .. N /\ \A n \in 1 .. N : n \in 0 .. N /\ n # 0 BY <1>1
    <3> QED BY <2>1, <3>1
  <2> HIDE DEF IsCourse
  <2> QED BY <1>5, <2>1
<1>7. F[N] \in W
  <2> DEFINE S == {n \in 0 .. N : F[n] \in W}
  <2> HIDE DEF F
  <2>1. 0 \in S BY <1>1, <1>2, <1>6
  <2>2. \A n \in 1 .. N : n - 1 \in S => n \in S BY <1>1, <1>3, <1>6
  <2>3. \A n \in 0 .. N : n \in S
    <3> HIDE DEF S, N
    <3> QED BY <1>1, <2>1, <2>2, CountUp
  <2>4. N \in 0 .. N BY <1>1
  <2> QED BY <2>3, <2>4
<1>8. Found(t) = F[N].found BY DEF Found, w
<1> HIDE DEF F, N
<1> QED BY <1>7, <1>8 DEF Search, W

(* What AddSupportingTransactions leaves in vtxPrev: its search turned     *)
(* round, in which one that has a single spender comes before it.          *)
LEMMA SupportIs ==
  ASSUME TxIndexType(dbTx), mapWallet \in Wallets, NEW t \in Tx
  PROVE  SupportingTransactions(t) \in Copies(t)
<1> DEFINE f == Found(t)
           q == SupportingTransactions(t)
           n == Len(f)
<1>1. PICK A : RestsOn(t, A) BY RestsOnSome
<1>2. f \in Seq(CopiesOf(A)) /\ InTurn(t, f) BY <1>1, FoundIs
<1>3. \A c \in CopiesOf(A) : c \in Supporting(t) BY <1>1 DEF RestsOn, CopiesOf, Supporting
<1>4. q = [i \in 1 .. n |-> f[(n - i) + 1]] BY DEF SupportingTransactions, SE!Reverse
<1> HIDE DEF q, f
<1>5. n \in Nat /\ DOMAIN f = 1 .. n /\ \A i \in 1 .. n : f[i] \in CopiesOf(A)
  <2> HIDE DEF CopiesOf
  <2> QED BY <1>2
<1> HIDE DEF n
<1>6. DOMAIN q = 1 .. n /\ \A i \in 1 .. n : (n - i) + 1 \in 1 .. n /\ q[i] = f[(n - i) + 1]
  BY <1>4, <1>5
<1>7. q \in Seq(Supporting(t))
  <2>1. \A i \in 1 .. n : q[i] \in Supporting(t) BY <1>3, <1>5, <1>6
  <2>2. q = [i \in 1 .. n |-> q[i]] BY <1>4
  <2>3. q \in [1 .. n -> Supporting(t)] BY <2>1, <2>2
  <2>4. \A S : \A x \in [1 .. n -> S] : x \in Seq(S) BY <1>5
  <2> QED BY <2>3, <2>4
<1>8. ASSUME NEW i \in 1 .. n, NEW j \in 1 .. n, SpentByOne(q[i].tx, {t} \cup TxsOf(Range(q))),
             q[i].tx \in Prevs(q[j].tx)
      PROVE  i < j
  <2> DEFINE a == (n - i) + 1
             b == (n - j) + 1
             S == {t} \cup TxsOf(Range(q))
  <2>1. a \in 1 .. n /\ b \in 1 .. n /\ q[i] = f[a] /\ q[j] = f[b] BY <1>6
  <2>2. \A k \in 1 .. n : f[k].tx \in S /\ f[k].tx # t
    <3> SUFFICES ASSUME NEW k \in 1 .. n PROVE f[k].tx \in S /\ f[k].tx # t OBVIOUS
    <3>1. (n - k) + 1 \in 1 .. n /\ (n - ((n - k) + 1)) + 1 = k BY <1>5
    <3>2. q[(n - k) + 1] = f[k] BY <1>6, <3>1
    <3>3. f[k] \in Range(q) BY <1>6, <3>1, <3>2 DEF Range
    <3>4. f[k] \in Supporting(t) BY <1>3, <1>5
    <3> QED BY <3>3, <3>4 DEF TxsOf, Supporting
  <2>3. \A x \in S : f[a].tx \in Prevs(x) => x = f[b].tx
    <3> HIDE DEF a, b
    <3>1. f[b].tx \in S /\ f[a].tx \in Prevs(f[b].tx) BY <1>8, <2>1, <2>2
    <3> HIDE DEF S
    <3>2. SpentByOne(f[a].tx, S) BY <1>8, <2>1 DEF S
    <3> QED BY <3>1, <3>2 DEF SpentByOne
  <2>4. f[a].tx \notin Prevs(t)
    <3> HIDE DEF a, b
    <3> QED BY <2>1, <2>2, <2>3
  <2>5. PICK k \in 1 .. n : k < a /\ f[a].tx \in Prevs(f[k].tx)
    <3> HIDE DEF a, b, S
    <3> QED BY <1>2, <1>5, <2>1, <2>4 DEF InTurn
  <2>6. f[k].tx = f[b].tx
    <3> HIDE DEF a, b, S
    <3> QED BY <2>2, <2>3, <2>5
  <2>7. k = b
    <3> HIDE DEF a, b, S
    <3> QED BY <1>2, <1>5, <2>1, <2>6 DEF InTurn
  <2> HIDE DEF S
  <2> QED BY <1>5, <2>5, <2>7
<1> QED BY <1>6, <1>7, <1>8 DEF Copies, q

(* A list to try in which no transaction that is outside of the index      *)
(* comes after one that spends it.                                         *)
Sorted(q) == \A i, j \in DOMAIN q : Outside(q[i]) /\ q[i] \in Prevs(q[j]) => i < j

(* AcceptWalletTransaction goes through all that t carries, t last; and    *)
(* what it spends first, if t carries no transaction that is spent twice.  *)
LEMMA TryListIs ==
  ASSUME NEW t \in Tx, mapWallet \in Wallets, Has(mapWallet, t), AcceptWalletTransaction(t)
  PROVE  /\ vAccept' \in Seq(Tx) /\ vAccept' # <<>> /\ vAccept'[Len(vAccept')] = t
         /\ CarriesChains(t) => Sorted(vAccept')
         /\ Carried(t) \subseteq Range(vAccept')
         /\ Carried(t) \subseteq Tx
<1> DEFINE q == mapWallet[t].vtxPrev
           n == Len(q)
           v == vAccept'
<1>1. /\ q \in Copies(t) /\ q \in Seq(Supporting(t)) /\ Range(q) \subseteq Supporting(t)
      /\ Supporting(t) \subseteq CMerkleTx
  BY EntryCopies
<1>2. VtxPrev(t) = Range(q) BY DEF VtxPrev
<1>3. v = [i \in 1 .. (n + 1) |-> IF i <= n THEN q[i].tx ELSE t] BY DEF AcceptWalletTransaction
<1> HIDE DEF q, v
<1>4. n \in Nat /\ DOMAIN q = 1 .. n BY <1>1
<1>5. \A i \in 1 .. n : q[i] \in Supporting(t) /\ q[i].tx \in Tx /\ t \notin Prevs(q[i].tx)
  <2>1. \A i \in 1 .. n : q[i] \in Supporting(t) BY <1>1, <1>4 DEF Range
  <2> QED BY <2>1 DEF Supporting, CMerkleTx
<1> HIDE DEF n
<1>6. /\ DOMAIN v = 1 .. (n + 1) /\ v[n + 1] = t /\ n + 1 \in 1 .. (n + 1)
      /\ \A i \in 1 .. n : i \in 1 .. (n + 1) /\ v[i] = q[i].tx
      /\ \A i \in 1 .. (n + 1) : i \in 1 .. n \/ i = n + 1
  BY <1>3, <1>4
<1>7. v \in Seq(Tx) /\ Len(v) = n + 1 /\ v # <<>>
  <2>1. v \in [1 .. (n + 1) -> Tx] BY <1>3, <1>5, <1>6
  <2>2. n + 1 \in Nat \ {0} BY <1>4
  <2>3. \A k \in Nat \ {0} : \A x \in [1 .. k -> Tx] : x \in Seq(Tx) /\ Len(x) = k /\ x # <<>>
    OBVIOUS
  <2> QED BY <2>1, <2>2, <2>3
<1>8. Carried(t) \subseteq Range(v) /\ Carried(t) \subseteq Tx
  <2>1. ASSUME NEW p \in TxsOf(Range(q)) PROVE \E i \in 1 .. n : q[i].tx = p
    <3>1. PICK c \in Range(q) : c.tx = p BY DEF TxsOf
    <3> QED BY <1>4, <3>1 DEF Range
  <2>2. \A p \in TxsOf(Range(q)) : p \in Range(v) /\ p \in Tx BY <1>5, <1>6, <2>1 DEF Range
  <2>3. t \in Range(v) BY <1>6 DEF Range
  <2> QED BY <1>2, <2>2, <2>3 DEF Carried
<1>9. ASSUME CarriesChains(t), NEW i \in 1 .. (n + 1), NEW j \in 1 .. (n + 1), Outside(v[i]),
             v[i] \in Prevs(v[j])
      PROVE  i < j
  <2>1. CASE i = n + 1
    <3>1. CASE j = n + 1 BY <1>6, <1>9, <2>1, <3>1, NotOwnPrev
    <3>2. CASE j \in 1 .. n BY <1>5, <1>6, <1>9, <2>1, <3>2
    <3> QED BY <1>6, <3>1, <3>2
  <2>2. CASE i \in 1 .. n
    <3>1. CASE j = n + 1 BY <1>4, <2>2, <3>1
    <3>2. CASE j \in 1 .. n
      <4>1. v[i] = q[i].tx /\ v[j] = q[j].tx BY <1>6, <2>2, <3>2
      <4>2. q[i] \in Range(q) BY <1>4, <2>2 DEF Range
      <4>3. q[i].tx \in Carried(t) BY <1>2, <4>2 DEF Carried, TxsOf
      <4>4. SpentByOne(q[i].tx, {t} \cup TxsOf(Range(q)))
        BY <1>2, <1>9, <4>1, <4>3 DEF CarriesChains, Carried
      <4> QED BY <1>1, <1>4, <1>9, <2>2, <3>2, <4>1, <4>4 DEF Copies
    <3> QED BY <1>6, <3>1, <3>2
  <2> QED BY <1>6, <2>1, <2>2
<1>10. CarriesChains(t) => Sorted(v) BY <1>6, <1>9 DEF Sorted
<1> QED BY <1>6, <1>7, <1>8, <1>10 DEF v

(* locator.GetBlockIndex() is a block of the best chain. *)
LEMMA RescanStartIs ==
  ASSUME bestBlock \in Block, pindexBest' \in Block
  PROVE  RescanStart \in Chain[pindexBest']
BY Highest DEF RescanStart

(* The wallet hears of what enters the pool, of one transaction at a time. *)
LEMMA HearsOfPoolIs ==
  ASSUME mapWallet \in Wallets, mapTx' \ mapTx \subseteq Tx, HearsOfPool
  PROVE  \/ mapWallet' = mapWallet
         \/ \E t \in mapTx' \ mapTx : \E known \in BOOLEAN :
              Heard(mapWallet, t, NULL, mapWallet', known)
<1> DEFINE new == mapTx' \ mapTx
           t == CHOOSE t \in new : TRUE
<1>1. CASE new = {} BY <1>1 DEF HearsOfPool
<1>2. CASE new # {}
  <2>1. t \in new /\ t \in Tx BY <1>2
  <2>2. mapWallet' = AddToWalletIfInvolvingMe(mapWallet, t, NULL, TRUE) BY <1>2 DEF HearsOfPool
  <2> HIDE DEF t
  <2>3. Heard(mapWallet, t, NULL, mapWallet', IsMine(t) \/ IsFromMe(mapWallet, t))
    BY <2>1, <2>2, HearsIs
  <2>4. (IsMine(t) \/ IsFromMe(mapWallet, t)) \in BOOLEAN OBVIOUS
  <2> QED BY <2>1, <2>3, <2>4
<1> QED BY <1>1, <1>2

(* A pass of ReacceptWalletTransactions has cs_main to itself, and goes    *)
(* through transactions of the wallet.                                     *)
PassInv ==
  InPass => /\ pc = "idle" /\ HandlerIdle
            /\ \A t \in toReaccept : Has(mapWallet, t)

(* What a start leaves of the wallet is well formed. *)
LEMMA StartTyped ==
  ASSUME SafetyInv, SafetyInv', bestBlock \in Block, NEW w \in Wallets, StartWith(w)
  PROVE  mapWallet' \in Wallets
<1>1. pindexBest' \in Block BY DEF SafetyInv, TypeOK
<1>2. RescanStart \in Chain[pindexBest'] BY <1>1, RescanStartIs
<1>3. ScanForWalletTransactions(w, RescanStart, pindexBest', TRUE) \in Wallets
  BY <1>1, <1>2, ScanTyped
<1> QED BY <1>3 DEF StartWith, Rescanned

(* FixSpentCoins: what is confirmed stays, in its block, and the flags of  *)
(* the coins are set from the index unless it has no record of an ordinary *)
(* transaction.                                                            *)
LEMMA FixedIs ==
  ASSUME mapWallet \in Wallets
  PROVE  /\ Fixed \in Wallets
         /\ \A t \in Tx : Has(Fixed, t) <=> Has(mapWallet, t) /\ ~(Depth(t) < 1)
         /\ \A t \in Tx : Has(Fixed, t) => Fixed[t].hashBlock = mapWallet[t].hashBlock
         /\ \A o \in Mine : Has(Fixed, o[1]) =>
              (Spent(Fixed, o) <=>
                 IF dbTx[o[1]] = NULL /\ o[1] \notin CoinBase \cup CoinStake
                 THEN Spent(mapWallet, o)
                 ELSE dbTx[o[1]] # NULL /\ dbTx[o[1]].vSpent[o[2]] # NULL)
<1> DEFINE w == mapWallet
           Gone(t) == w[t] = NULL \/ Depth(t) < 1
           Kept1(t) == dbTx[t] = NULL /\ t \notin CoinBase \cup CoinStake
           F(t) == {n \in 0 .. NOut[t] - 1 : IF <<t, n>> \in Mine THEN n \in SpentByIndex(t)
                                             ELSE n \in w[t].vfSpent}
           v == Fixed
<1>1. \A t \in Tx : v[t] = IF Gone(t) THEN NULL ELSE IF Kept1(t) THEN w[t]
                           ELSE [w[t] EXCEPT !.vfSpent = F(t)]
  BY DEF Fixed
<1>2. v = [t \in Tx |-> v[t]] BY DEF Fixed
<1>3. \A t \in Tx : w[t] = NULL \/ w[t] \in CWalletTx(t) BY WalletsAre DEF WalletType
<1>4. \A t \in Tx : F(t) \in SUBSET (0 .. NOut[t] - 1) OBVIOUS
<1>5. ASSUME NEW t \in Tx, ~Gone(t)
      PROVE  /\ v[t] \in CWalletTx(t) /\ v[t] # NULL /\ v[t].hashBlock = w[t].hashBlock
             /\ v[t].vfSpent = IF Kept1(t) THEN w[t].vfSpent ELSE F(t)
  <2>1. w[t] \in CWalletTx(t) /\ w[t] # NULL BY <1>3, <1>5
  <2>2. CASE Kept1(t) BY <1>1, <1>5, <2>1, <2>2
  <2>3. CASE ~Kept1(t)
    <3>1. v[t] = WithFlags(w[t], F(t)) BY <1>1, <1>5, <2>3 DEF WithFlags
    <3> HIDE DEF F, v
    <3> QED BY <1>4, <2>1, <2>3, <3>1, FlagsOf
  <2> QED BY <2>2, <2>3
<1>6. \A t \in Tx : Gone(t) => v[t] = NULL BY <1>1
<1>7. v \in Wallets
  <2> HIDE DEF v, Gone
  <2> QED BY <1>2, <1>5, <1>6, WalletsAre DEF WalletType
<1>8. ASSUME NEW o \in Mine, ~Gone(o[1])
      PROVE  Spent(v, o) <=> IF Kept1(o[1]) THEN Spent(w, o)
                             ELSE dbTx[o[1]] # NULL /\ dbTx[o[1]].vSpent[o[2]] # NULL
  <2>1. o[1] \in Tx /\ o[2] \in 0 .. NOut[o[1]] - 1 /\ <<o[1], o[2]>> \in Mine BY MineIs
  <2>2. o[2] \in F(o[1]) <=> o[2] \in SpentByIndex(o[1]) BY <2>1
  <2>3. o[2] \in SpentByIndex(o[1]) <=> dbTx[o[1]] # NULL /\ dbTx[o[1]].vSpent[o[2]] # NULL
    BY <2>1 DEF SpentByIndex
  <2>4. v[o[1]].vfSpent = IF Kept1(o[1]) THEN w[o[1]].vfSpent ELSE F(o[1]) BY <1>5, <1>8, <2>1
  <2> HIDE DEF v, F, Kept1
  <2> QED BY <2>2, <2>3, <2>4 DEF Spent
<1>9. \A t \in Tx : Has(v, t) <=> ~Gone(t)
  <2> HIDE DEF v, Gone
  <2> QED BY <1>5, <1>6 DEF Has
<1>10. \A o \in Mine : o[1] \in Tx BY MineIs
<1>11. \A t \in Tx : Gone(t) <=> ~Has(w, t) \/ Depth(t) < 1 BY DEF Has
<1> HIDE DEF v, Gone
<1>12. \A t \in Tx : Has(v, t) => v[t].hashBlock = w[t].hashBlock BY <1>5, <1>9
<1>13. \A t \in Tx : Has(v, t) <=> Has(w, t) /\ ~(Depth(t) < 1) BY <1>9, <1>11
<1>14. \A o \in Mine : Has(v, o[1]) =>
         (Spent(v, o) <=> IF Kept1(o[1]) THEN Spent(w, o)
                          ELSE dbTx[o[1]] # NULL /\ dbTx[o[1]].vSpent[o[2]] # NULL)
  BY <1>8, <1>9, <1>10
<1> QED BY <1>7, <1>12, <1>13, <1>14 DEF v

(* CommitTransaction records the transaction, marks the coins it spends,   *)
(* and hears of it once more if it enters the pool.                        *)
LEMMA SendIs ==
  ASSUME TxIndexType(dbTx), mapWallet \in Wallets, NEW t \in Tx, Send(t)
  PROVE  \E x, y \in Wallets :
           /\ Heard(mapWallet, t, NULL, x, TRUE)
           /\ y = MarkSpent(x, Vin[t])
           /\ mapWallet' = y \/ \E known \in BOOLEAN : Heard(y, t, NULL, mapWallet', known)
<1> DEFINE x == AddToWallet(mapWallet, t, NULL, SupportingTransactions(t))
           y == MarkSpent(x, Vin[t])
<1>1. Heard(mapWallet, t, NULL, x, TRUE) BY SupportIs, AddedIs
<1>2. x \in Wallets BY <1>1 DEF Heard
<1>3. y \in Wallets
  <2> HIDE DEF x
  <2> QED BY <1>2, MarkSpentIs
<1>4. mapWallet' = y \/ mapWallet' = AddToWalletIfInvolvingMe(y, t, NULL, TRUE) BY DEF Send
<1>5. ASSUME mapWallet' = AddToWalletIfInvolvingMe(y, t, NULL, TRUE)
      PROVE  \E known \in BOOLEAN : Heard(y, t, NULL, mapWallet', known)
  <2> HIDE DEF y
  <2>1. Heard(y, t, NULL, mapWallet', IsMine(t) \/ IsFromMe(y, t)) BY <1>3, <1>5, HearsIs
  <2>2. (IsMine(t) \/ IsFromMe(y, t)) \in BOOLEAN OBVIOUS
  <2> QED BY <2>1, <2>2
<1> HIDE DEF x
<1> QED BY <1>1, <1>2, <1>3, <1>4, <1>5

(* In a pass nothing of the chain or the pool moves but what the pass does *)
(* itself.                                                                 *)
LEMMA PassAlone ==
  ASSUME PassInv, InPass, WalletPoolStep \/ WalletQuietStep \/ WalletConnectTip
         \/ WalletConnectSecondary \/ WalletReorgDisconnect \/ WalletReorgConnect \/ WalletReorgFails
  PROVE  FALSE
<1>1. pc = "idle" /\ vWorkQueue = <<>> /\ vTry = {} /\ vEraseQueue = {} BY DEF PassInv, HandlerIdle
<1>2. CASE WalletPoolStep
  <2>1. CASE Resurrect \/ ResurrectFails \/ DeleteRedundant
    BY <1>1, <2>1 DEF Resurrect, ResurrectFails, DeleteRedundant
  <2>2. CASE HandleTx
    BY <1>1, <2>2 DEF HandleTx, HandlerStep, NextWork, OrphanAccepted, OrphanRefused, EraseOrphans
  <2> QED BY <1>2, <2>1, <2>2 DEF WalletPoolStep
<1>3. CASE WalletQuietStep
  BY <1>1, <1>3 DEF WalletQuietStep, QuietStep, NodeReorgCommit, ConnectTipFails, Postpone,
     Reorganize, SecondaryFails, NewBest, ReorgCommit
<1>4. CASE WalletConnectTip \/ WalletConnectSecondary \/ WalletReorgDisconnect
           \/ WalletReorgConnect \/ WalletReorgFails
  BY <1>1, <1>4 DEF WalletConnectTip, WalletConnectSecondary, WalletReorgDisconnect,
     WalletReorgConnect, WalletReorgFails, NodeConnectTip, NodeConnectSecondary,
     NodeReorgDisconnect, NodeReorgConnect, NodeReorgFails, ConnectTip, ConnectSecondary,
     ReorgDisconnect, ReorgConnect, ReorgFails
<1> QED BY <1>2, <1>3, <1>4

(* What the pass and the locator are about, apart from the wallet itself. *)
RestTyped ==
  /\ bestBlock \in Block
  /\ reaccept \in {"off", "due", "pass", "missing"}
  /\ toReaccept \subseteq Tx /\ vAccept \in Seq(Tx)
  /\ reaccept \in {"off", "due"} => toReaccept = {} /\ vAccept = <<>>
  /\ sent \subseteq Own /\ {fRefused, fStale} \subseteq BOOLEAN
  /\ repairs \in 0 .. MaxRepairs

(* Every step keeps the wallet well formed, and a pass alone with the lock. *)
LEMMA WalletTypeStep ==
  ASSUME SafetyInv, MapsInv, SafetyInv', MapsInv', WalletTypeOK, PassInv, [WalletNext]_walletVars
  PROVE  WalletTypeOK' /\ PassInv'
<1> DEFINE w == mapWallet
<1>1. w \in Wallets /\ RestTyped BY WalletsAre DEF WalletTypeOK, RestTyped
<1>2. TxIndexType(dbTx) /\ pindexBest \in Block /\ pindexBest' \in Block
      /\ {pindexNew, pindex, pindexInter} \subseteq Block
  BY DEF SafetyInv, TypeOK
<1>3. mapWallet' \in Wallets /\ RestTyped' => WalletTypeOK'
  <2>1. mapWallet' \in Wallets => WalletType(mapWallet') BY WalletsAre
  <2> QED BY <2>1 DEF WalletTypeOK, RestTyped
<1>4. ASSUME UNCHANGED <<bestBlock, reacceptVars>>, repairs' = repairs, sent' = sent,
             fRefused' = fRefused, fStale' = fStale \/ fStale' = TRUE
      PROVE  RestTyped'
  BY <1>1, <1>4 DEF RestTyped, reacceptVars
<1>5. ASSUME ~InPass, UNCHANGED reacceptVars PROVE PassInv'
  BY <1>5 DEF PassInv, InPass, reacceptVars
<1>6. ASSUME NEW b \in Block, NEW f \in BOOLEAN PROVE SyncConnected(w, b, f) \in Wallets
  BY <1>1, ConnectedTyped
<1>7. ASSUME mapTx' \ mapTx \subseteq Tx, HearsOfPool
      PROVE  mapWallet' \in Wallets /\ \A t \in Tx : Has(mapWallet, t) => Has(mapWallet', t)
  <2>1. CASE mapWallet' = mapWallet BY <1>1, <2>1
  <2>2. CASE \E t \in mapTx' \ mapTx : \E known \in BOOLEAN :
               Heard(mapWallet, t, NULL, mapWallet', known)
    BY <2>2 DEF Heard
  <2> QED BY <1>1, <1>7, <2>1, <2>2, HearsOfPoolIs
<1>8. mapTx' \ mapTx \subseteq Tx BY DEF MapsInv, PoolMapsOK
<1>9. CASE WalletPoolStep
  <2>1. ~InPass BY <1>9, PassAlone
  <2>2. UNCHANGED <<bestBlock, reacceptVars, historyVars>> /\ HearsOfPool
    BY <1>9 DEF WalletPoolStep
  <2> QED BY <1>3, <1>4, <1>5, <1>7, <1>8, <2>1, <2>2 DEF historyVars
<1>10. CASE WalletQuietStep
  <2>1. ~InPass BY <1>10, PassAlone
  <2>2. UNCHANGED <<mapWallet, reacceptVars, historyVars>> /\ WritesLocator
    BY <1>10 DEF WalletQuietStep
  <2>3. bestBlock' \in Block BY <1>1, <1>2, <2>2 DEF WritesLocator, RestTyped
  <2>4. RestTyped' BY <1>1, <2>2, <2>3 DEF RestTyped, reacceptVars, historyVars
  <2> QED BY <1>1, <1>3, <1>5, <2>1, <2>2, <2>4
<1>11. CASE WalletConnectTip
  <2>1. ~InPass BY <1>11, PassAlone
  <2>2. UNCHANGED <<reacceptVars, historyVars>> /\ WritesLocator
        /\ mapWallet' = SyncConnected(mapWallet, pindexNew, TRUE)
    BY <1>11 DEF WalletConnectTip
  <2>3. bestBlock' \in Block BY <1>1, <1>2, <2>2 DEF WritesLocator, RestTyped
  <2>4. RestTyped' BY <1>1, <2>2, <2>3 DEF RestTyped, reacceptVars, historyVars
  <2> QED BY <1>2, <1>3, <1>5, <1>6, <2>1, <2>2, <2>4
<1>12. CASE WalletConnectSecondary
  <2>1. ~InPass BY <1>12, PassAlone
  <2>2. UNCHANGED <<bestBlock, reacceptVars, historyVars>>
        /\ mapWallet' = SyncConnected(mapWallet, NextOn(pindex, pindexNew), TRUE)
    BY <1>12 DEF WalletConnectSecondary
  <2>3. NextOn(pindex, pindexNew) \in Block
    BY <1>2, <1>12, NextOnIs
       DEF WalletConnectSecondary, NodeConnectSecondary, ConnectSecondary, SafetyInv, Positions
  <2> QED BY <1>3, <1>4, <1>5, <1>6, <2>1, <2>2, <2>3 DEF historyVars
<1>13. CASE WalletReorgDisconnect
  <2>1. ~InPass BY <1>13, PassAlone
  <2>2. UNCHANGED <<bestBlock, reacceptVars, historyVars>>
        /\ mapWallet' = SyncDisconnected(mapWallet, pindex)
    BY <1>13 DEF WalletReorgDisconnect
  <2>3. mapWallet' \in Wallets BY <1>1, <1>2, <2>2, DisabledIs
  <2> QED BY <1>3, <1>4, <1>5, <2>1, <2>2, <2>3 DEF historyVars
<1>14. CASE WalletReorgConnect
  <2>1. ~InPass BY <1>14, PassAlone
  <2>2. UNCHANGED <<bestBlock, reacceptVars, historyVars>>
        /\ mapWallet' = SyncConnected(mapWallet, NextOn(pindex, pindexInter), TRUE)
    BY <1>14 DEF WalletReorgConnect
  <2>3. NextOn(pindex, pindexInter) \in Block
    BY <1>2, <1>14, NextOnIs DEF WalletReorgConnect, NodeReorgConnect, ReorgConnect
  <2> QED BY <1>3, <1>4, <1>5, <1>6, <2>1, <2>2, <2>3 DEF historyVars
<1>15. CASE WalletReorgFails
  <2>1. ~InPass BY <1>15, PassAlone
  <2>2. UNCHANGED <<mapWallet, bestBlock, reacceptVars, sent, fRefused, repairs>> /\ fStale' = TRUE
    BY <1>15 DEF WalletReorgFails
  <2> QED BY <1>1, <1>3, <1>4, <1>5, <2>1, <2>2
<1>16. CASE ReacceptBegin
  <2>1. mapWallet' = MarkSpent(mapWallet, SpentInIndex)
        /\ toReaccept' = {t \in Tx : /\ mapWallet[t] # NULL /\ dbTx[t] = NULL
                                     /\ t \notin CoinBase \cup CoinStake}
        /\ UNCHANGED <<nodeVars, bestBlock, vAccept, historyVars>>
        /\ reaccept = "due" /\ reaccept' \in {"pass", "missing"}
        /\ pc = "idle" /\ HandlerIdle
    BY <1>16 DEF ReacceptBegin
  <2>2. mapWallet' \in Wallets /\ \A t \in Tx : Has(mapWallet', t) <=> Has(mapWallet, t)
    BY <1>1, <2>1, MarkSpentIs
  <2>3. RestTyped' BY <1>1, <2>1 DEF RestTyped, historyVars
  <2>4. \A t \in toReaccept' : Has(mapWallet', t) BY <2>1, <2>2 DEF Has
  <2>5. pc' = "idle" /\ HandlerIdle'
    BY <2>1 DEF nodeVars, vars, callVars, poolVars, queueVars, HandlerIdle
  <2> QED BY <1>3, <2>2, <2>3, <2>4, <2>5 DEF PassInv
<1>17. ASSUME NEW t \in Tx, AcceptWalletTransaction(t) PROVE WalletTypeOK' /\ PassInv'
  <2>1. InPass /\ t \in toReaccept /\ toReaccept' = toReaccept \ {t}
        /\ UNCHANGED <<nodeVars, mapWallet, bestBlock, reaccept, historyVars>>
    BY <1>17 DEF AcceptWalletTransaction
  <2>2. pc = "idle" /\ HandlerIdle /\ \A u \in toReaccept : Has(mapWallet, u)
    BY <2>1 DEF PassInv
  <2>3. vAccept' \in Seq(Tx) BY <1>1, <1>17, <2>1, <2>2, TryListIs
  <2>4. RestTyped' BY <1>1, <2>1, <2>3 DEF RestTyped, InPass, historyVars
  <2>5. pc' = "idle" /\ HandlerIdle'
    BY <2>1, <2>2 DEF nodeVars, vars, callVars, poolVars, queueVars, HandlerIdle
  <2>6. PassInv' BY <2>1, <2>2, <2>5 DEF PassInv
  <2> QED BY <1>1, <1>3, <2>1, <2>4, <2>6
<1>18. CASE TryNext
  <2>1. vAccept # <<>> /\ vAccept' = Tail(vAccept) /\ HearsOfPool
        /\ UNCHANGED <<vars, orphanVars, queueVars, reorgVars, lost>>
        /\ UNCHANGED <<bestBlock, reaccept, toReaccept, historyVars>>
    BY <1>18 DEF TryNext
  <2>2. vAccept' \in Seq(Tx) BY <1>1, <2>1, RangeTail DEF RestTyped
  <2>3. InPass /\ RestTyped' BY <1>1, <2>1, <2>2 DEF RestTyped, InPass, historyVars
  <2>4. mapWallet' \in Wallets /\ \A t \in Tx : Has(mapWallet, t) => Has(mapWallet', t)
    BY <1>7, <1>8, <2>1
  <2>5. pc' = "idle" /\ HandlerIdle' BY <2>1, <2>3 DEF PassInv, vars, callVars, queueVars, HandlerIdle
  <2>6. PassInv' BY <1>1, <2>1, <2>3, <2>4, <2>5 DEF PassInv, RestTyped
  <2> QED BY <1>3, <2>3, <2>4, <2>6
<1>19. CASE ReacceptEnd
  <2>1. /\ mapWallet' = IF reaccept = "missing"
                        THEN ScanForWalletTransactions(mapWallet, Genesis, pindexBest, FALSE)
                        ELSE mapWallet
        /\ reaccept' \in {"due", "off"} /\ toReaccept = {} /\ vAccept = <<>>
        /\ UNCHANGED <<nodeVars, bestBlock, toReaccept, vAccept, historyVars>>
    BY <1>19 DEF ReacceptEnd
  <2>2. Genesis \in Chain[pindexBest] BY <1>2, Branches DEF IsBranch
  <2>3. mapWallet' \in Wallets BY <1>1, <1>2, <2>1, <2>2, ScanTyped
  <2>4. RestTyped' BY <1>1, <2>1 DEF RestTyped, historyVars
  <2>5. PassInv' BY <2>1 DEF PassInv, InPass
  <2> QED BY <1>3, <2>3, <2>4, <2>5
<1>20. ASSUME NEW b \in Block, WalletAcceptBlock(b) PROVE WalletTypeOK' /\ PassInv'
  <2>1. ~InPass /\ UNCHANGED <<mapWallet, bestBlock, reacceptVars, historyVars>>
    BY <1>20 DEF WalletAcceptBlock
  <2> QED BY <1>1, <1>3, <1>4, <1>5, <2>1 DEF historyVars
<1>21. ASSUME NEW t \in Tx, WalletReceiveTx(t) PROVE WalletTypeOK' /\ PassInv'
  <2>1. ~InPass /\ UNCHANGED <<bestBlock, reacceptVars, historyVars>> /\ HearsOfPool
    BY <1>21 DEF WalletReceiveTx
  <2> QED BY <1>3, <1>4, <1>5, <1>7, <1>8, <2>1 DEF historyVars
<1>22. ASSUME NEW t \in Tx, Send(t) PROVE WalletTypeOK' /\ PassInv'
  <2>1. ~InPass /\ UNCHANGED <<bestBlock, reacceptVars, fStale, repairs>>
        /\ sent' = sent \cup {t} /\ t \in Own /\ (fRefused' = fRefused \/ fRefused' = TRUE)
    BY <1>22 DEF Send
  <2>2. mapWallet' \in Wallets
    <3>1. PICK x, y \in Wallets :
            /\ Heard(mapWallet, t, NULL, x, TRUE)
            /\ y = MarkSpent(x, Vin[t])
            /\ mapWallet' = y \/ \E known \in BOOLEAN : Heard(y, t, NULL, mapWallet', known)
      BY <1>1, <1>2, <1>22, SendIs
    <3> QED BY <3>1 DEF Heard
  <2>3. RestTyped' BY <1>1, <2>1 DEF RestTyped, reacceptVars
  <2> QED BY <1>3, <1>5, <2>1, <2>2, <2>3
<1>23. CASE FixSpentCoins
  <2>1. ~InPass /\ mapWallet' = Fixed /\ repairs < MaxRepairs /\ repairs' = repairs + 1
        /\ UNCHANGED <<nodeVars, bestBlock, reacceptVars, sent, fRefused, fStale>>
    BY <1>23 DEF FixSpentCoins
  <2>2. mapWallet' \in Wallets BY <1>1, <2>1, FixedIs
  <2>3. repairs' \in 0 .. MaxRepairs BY <1>1, <2>1, WalletAssumption DEF RestTyped
  <2>4. RestTyped' BY <1>1, <2>1, <2>3 DEF RestTyped, reacceptVars
  <2> QED BY <1>3, <1>5, <2>1, <2>2, <2>4
<1>24. ASSUME NEW v \in Wallets, StartWith(v), fStale' \in BOOLEAN PROVE WalletTypeOK' /\ PassInv'
  <2>1. mapWallet' \in Wallets BY <1>1, <1>24, StartTyped DEF RestTyped
  <2>2. reaccept' = "due" /\ toReaccept' = {} /\ vAccept' = <<>>
        /\ UNCHANGED <<bestBlock, sent, fRefused, repairs>>
    BY <1>24 DEF StartWith
  <2>3. RestTyped' BY <1>1, <1>24, <2>2 DEF RestTyped
  <2>4. PassInv' BY <2>2 DEF PassInv, InPass
  <2> QED BY <1>3, <2>1, <2>3, <2>4
<1>25. CASE WalletRestart
  <2>1. StartWith(mapWallet) /\ fStale' \in BOOLEAN
    BY <1>1, <1>25 DEF WalletRestart, RestTyped
  <2> QED BY <1>1, <1>24, <2>1
<1>26. CASE CrashInConnect
  <2>1. fStale' \in BOOLEAN BY <1>1, <1>26 DEF CrashInConnect, RestTyped
  <2>2. CASE StartWith(SyncConnected(mapWallet, pindexNew, TRUE)) BY <1>2, <1>6, <1>24, <2>1, <2>2
  <2>3. CASE /\ pc = "secondary" /\ pindex # pindexNew
             /\ StartWith(SyncConnected(mapWallet, NextOn(pindex, pindexNew), TRUE))
    <3>1. NextOn(pindex, pindexNew) \in Block BY <1>2, <2>3, NextOnIs DEF SafetyInv, Positions
    <3> QED BY <1>6, <1>24, <2>1, <2>3, <3>1
  <2> QED BY <1>26, <2>2, <2>3 DEF CrashInConnect
<1>27. CASE UNCHANGED walletVars
  <2>1. UNCHANGED <<nodeVars, mapWallet, bestBlock, reacceptVars, historyVars>>
    BY <1>27 DEF walletVars
  <2>2. PassInv'
    BY <2>1 DEF PassInv, InPass, reacceptVars, nodeVars, vars, callVars, poolVars, queueVars, HandlerIdle
  <2> QED BY <1>1, <1>3, <1>4, <2>1, <2>2 DEF historyVars
<1> QED BY <1>9, <1>10, <1>11, <1>12, <1>13, <1>14, <1>15, <1>16, <1>17, <1>18, <1>19, <1>20,
           <1>21, <1>22, <1>23, <1>25, <1>26, <1>27 DEF WalletNext, WalletStep

---------------------------------------------------------------------------
(* What the wallet knows of the best chain *)

(* What spends a recorded output is recorded. *)
SpendersRecorded(s) ==
  \A u \in Tx : s[u] # NULL =>
    \A n \in 0 .. NOut[u] - 1 : s[u].vSpent[n] # NULL =>
      s[u].vSpent[n] \in Tx /\ <<u, n>> \in Vin[s[u].vSpent[n]] /\ s[s[u].vSpent[n]] # NULL

LEMMA SpenderRecorded == \A b \in Block : SpendersRecorded(LedgerAt[b])
<1> DEFINE S == {b \in Block : SpendersRecorded(LedgerAt[b])}
<1>1. Genesis \in S BY TreeAssumption, LedgerAssumption DEF SpendersRecorded, EmptyTxIndex
<1>2. ASSUME NEW b \in Block \ {Genesis}, Prev[b] \in S PROVE b \in S
  <2> DEFINE s == LedgerAt[Prev[b]]
             c == LedgerAt[b]
  <2>1. c = ConnectBlock(s, b) /\ SpendersRecorded(s) /\ TxIndexType(s)
    BY <1>2, LedgerTyped, LedgerAssumption
  <2>2. \A t \in Tx : c[t] # NULL <=> t \in Txs(b) \/ s[t] # NULL BY <2>1, ConnectPresence
  <2>3. Txs(b) \subseteq Tx BY TxsType
  <2> SUFFICES ASSUME NEW u \in Tx, c[u] # NULL, NEW n \in 0 .. NOut[u] - 1, c[u].vSpent[n] # NULL
               PROVE  LET t == c[u].vSpent[n] IN t \in Tx /\ <<u, n>> \in Vin[t] /\ c[t] # NULL
    BY DEF SpendersRecorded
  <2>4. ASSUME SpenderIn(b, <<u, n>>) # NULL
        PROVE  SpenderIn(b, <<u, n>>) \in Txs(b) /\ <<u, n>> \in Vin[SpenderIn(b, <<u, n>>)]
    BY <2>4 DEF SpenderIn
  <2>5. CASE u \in Txs(b)
    <3> DEFINE r == [k \in 0 .. (NOut[u] - 1) |-> SpenderIn(b, <<u, k>>)]
    <3>1. c[u] = [pos |-> b, vSpent |-> r] BY <2>1, <2>5 DEF ConnectBlock
    <3>2. r[n] = SpenderIn(b, <<u, n>>) OBVIOUS
    <3> HIDE DEF r
    <3>3. c[u].vSpent[n] = SpenderIn(b, <<u, n>>) BY <3>1, <3>2
    <3> QED BY <2>2, <2>3, <2>4, <3>3
  <2>6. CASE u \notin Txs(b)
    <3> DEFINE r == [k \in 0 .. (NOut[u] - 1) |->
                       IF SpenderIn(b, <<u, k>>) # NULL
                       THEN SpenderIn(b, <<u, k>>) ELSE s[u].vSpent[k]]
    <3>1. s[u] # NULL BY <2>2, <2>6
    <3>2. c[u] = [pos |-> s[u].pos, vSpent |-> r] BY <2>1, <2>6, <3>1 DEF ConnectBlock
    <3>3. r[n] = IF SpenderIn(b, <<u, n>>) # NULL THEN SpenderIn(b, <<u, n>>) ELSE s[u].vSpent[n]
      OBVIOUS
    <3> HIDE DEF r
    <3>4. c[u].vSpent[n] = IF SpenderIn(b, <<u, n>>) # NULL
                           THEN SpenderIn(b, <<u, n>>) ELSE s[u].vSpent[n]
      BY <3>2, <3>3
    <3>5. CASE SpenderIn(b, <<u, n>>) # NULL
      <4>1. c[u].vSpent[n] = SpenderIn(b, <<u, n>>) BY <3>4, <3>5
      <4> HIDE DEF s, c
      <4> QED BY <2>2, <2>3, <2>4, <3>5, <4>1
    <3>6. CASE SpenderIn(b, <<u, n>>) = NULL
      <4>1. c[u].vSpent[n] = s[u].vSpent[n] BY <3>4, <3>6
      <4>2. LET t == s[u].vSpent[n] IN t \in Tx /\ <<u, n>> \in Vin[t] /\ s[t] # NULL
        BY <2>1, <3>1, <4>1 DEF SpendersRecorded
      <4> HIDE DEF s, c
      <4> QED BY <2>2, <4>1, <4>2
    <3> QED BY <3>5, <3>6
  <2> QED BY <2>5, <2>6
<1>3. S = Block
  <2> HIDE DEF S
  <2> SUFFICES S \in SUBSET Block BY <1>1, <1>2, BlockInduction
  <2> QED BY DEF S
<1> QED BY <1>3

(* Knowing does not depend on more than the records. *)
LEMMA ViewOf ==
  ASSUME TxIndexType(batchTx)
  PROVE  IsView(At(batchTx), Sp(batchTx))
BY LedgerView

(* Whatever the wallet was told before its batch is aborted or lost, it    *)
(* knows of the best chain as read through the batch; and within one       *)
(* session a coin it has for spent is spent by a transaction that can be   *)
(* sent again or is on record there.                                       *)
Knowledge == Undisturbed => KnowsOf(mapWallet, batchTx)
Session ==
  /\ restarts = 0 => reaccept = "off"
  /\ Undisturbed /\ restarts = 0 => Blamed(mapWallet, At(batchTx))

(* Steps that tell the wallet nothing and leave the chain as it is read. *)
LEMMA NothingTold ==
  ASSUME Knowledge, Session, mapWallet' = mapWallet, batchTx' = batchTx,
         restarts' = restarts, reaccept' = reaccept, Undisturbed' => Undisturbed
  PROVE  Knowledge' /\ Session'
BY DEF Knowledge, Session

(* A transaction that may enter the pool. *)
LEMMA PoolTold ==
  ASSUME TxIndexType(batchTx), Knowledge, Session, mapWallet \in Wallets, NEW t \in Tx, NEW known,
         t \notin CoinStake, Heard(mapWallet, t, NULL, mapWallet', known),
         UNCHANGED <<batchTx, restarts, reaccept, fStale, fTorn>>
  PROVE  Knowledge' /\ Session'
<1>1. Undisturbed' = Undisturbed BY DEF Undisturbed
<1>2. ASSUME Undisturbed
      PROVE  /\ KnowsOf(mapWallet', batchTx)
             /\ Blamed(mapWallet, At(batchTx)) => Blamed(mapWallet', At(batchTx))
  <2> DEFINE w == mapWallet
             v == mapWallet'
             a == At(batchTx)
             X == Sp(batchTx)
  <2>1. w \in Wallets /\ t \in Tx /\ NULL \in Block \cup {NULL} OBVIOUS
  <2>2. IsView(a, X) BY ViewOf
  <2>3. Agrees(w, a, X) BY <1>2 DEF Knowledge, KnowsOf
  <2>4. Heard(w, t, NULL, v, known) OBVIOUS
  <2> HIDE DEF w, v, a, X
  <2>5. Agrees(v, a, X) /\ (Blamed(w, a) /\ (t \notin CoinStake \/ a[t] # NULL) => Blamed(v, a))
    BY ONLY <2>1, <2>2, <2>3, <2>4, HeardAgain
  <2> QED BY <2>5 DEF w, v, a, X, KnowsOf
<1> QED BY <1>1, <1>2 DEF Knowledge, Session

(* A block connected on top of the chain as it is read. *)
LEMMA BlockTold ==
  ASSUME Knowledge, Session, mapWallet \in Wallets, NEW b \in Block \ {Genesis},
         Undisturbed => Valid(b) /\ batchTx = LedgerAt[Prev[b]] /\ batchTx' = LedgerAt[b],
         mapWallet' = SyncConnected(mapWallet, b, TRUE),
         UNCHANGED <<restarts, reaccept, fStale, fTorn>>
  PROVE  Knowledge' /\ Session'
<1>1. Undisturbed' = Undisturbed BY DEF Undisturbed
<1>2. ASSUME Undisturbed
      PROVE  /\ KnowsOf(mapWallet', batchTx')
             /\ Blamed(mapWallet, At(batchTx)) => Blamed(mapWallet', At(batchTx'))
  BY <1>2, ConnectTold DEF Knowledge
<1> QED BY <1>1, <1>2 DEF Knowledge, Session

(* Its last block disconnected. *)
LEMMA BlockTakenBack ==
  ASSUME Knowledge, Session, mapWallet \in Wallets, NEW b \in Block \ {Genesis},
         Undisturbed => Valid(b) /\ batchTx = LedgerAt[b] /\ batchTx' = LedgerAt[Prev[b]],
         mapWallet' = SyncDisconnected(mapWallet, b),
         UNCHANGED <<restarts, reaccept, fStale, fTorn>>
  PROVE  Knowledge' /\ Session'
<1>1. Undisturbed' = Undisturbed BY DEF Undisturbed
<1>2. ASSUME Undisturbed
      PROVE  /\ KnowsOf(mapWallet', batchTx')
             /\ Blamed(mapWallet, At(batchTx)) => Blamed(mapWallet', At(batchTx'))
  BY <1>2, DisconnectTold DEF Knowledge
<1> QED BY <1>1, <1>2 DEF Knowledge, Session

(* A start with a wallet that knew of the branch to be loaded, or of a     *)
(* longer one whose batch was lost.                                        *)
LEMMA StartTold ==
  ASSUME SafetyInv, WalletTypeOK, NEW v \in Wallets, StartWith(v), ~fTorn => KnowsOf(v, dbTx)
  PROVE  (~fTorn' => KnowsOf(mapWallet', batchTx')) /\ restarts' # 0
<1>1. restarts' = restarts + 1 /\ restarts \in Nat /\ fTorn' = fTorn /\ pindexBest' = dbBest
      /\ batchTx' = dbTx
  BY DEF StartWith, Restart, LoadBlockIndex, Return, dbVars, SafetyInv, TypeOK
<1>2. ASSUME ~fTorn PROVE KnowsOf(mapWallet', dbTx)
  <2>1. dbBest \in Block /\ Valid(dbBest) /\ dbTx = LedgerAt[dbBest]
    BY <1>2 DEF SafetyInv, LedgerInv, TypeOK
  <2>2. RescanStart \in Chain[dbBest] BY <1>1, <2>1, RescanStartIs DEF WalletTypeOK
  <2> DEFINE a == RescanStart
  <2>3. mapWallet' = IF Height[dbBest] > Height[a]
                     THEN ScanForWalletTransactions(v, a, dbBest, TRUE) ELSE v
    BY <1>1 DEF StartWith, Rescanned
  <2> HIDE DEF a
  <2>4. KnowsOf(ScanForWalletTransactions(v, a, dbBest, TRUE), LedgerAt[dbBest])
    BY <1>2, <2>1, <2>2, ScanTold DEF a
  <2> QED BY <1>2, <2>1, <2>3, <2>4
<1> QED BY <1>1, <1>2

(* A confirmed transaction is at least one deep. *)
LEMMA ConfirmedDepth ==
  ASSUME SafetyInv, ~fTorn, pc = "idle", NEW t \in Tx, dbTx[t] # NULL,
         mapWallet[t].hashBlock = dbTx[t].pos
  PROVE  ~(Depth(t) < 1)
<1> DEFINE a == dbTx[t].pos
<1>1. dbBest \in Block /\ dbTx = LedgerAt[dbBest] /\ pindexBest = dbBest /\ pnext = Links(dbBest)
      /\ Chain[dbBest] \subseteq mapBlockIndex
  BY DEF SafetyInv, LedgerInv, LinksInv, Indexed, TypeOK
<1>2. a \in Chain[dbBest] BY <1>1, Recorded DEF InTheirBlocks
<1>3. a \in Block /\ a \in mapBlockIndex BY <1>1, <1>2, TreeAssumption
<1>4. IsInMainChain(a)
  <2>1. CASE a = dbBest BY <1>1, <2>1 DEF IsInMainChain
  <2>2. CASE a # dbBest
    <3>1. NextOn(a, dbBest) \in Block BY <1>1, <1>2, <2>2, NextOnIs
    <3>2. pnext[a] = NextOn(a, dbBest) BY <1>1, <1>2, <1>3, <2>2 DEF Links
    <3> QED BY <3>1, <3>2, NullAssumption DEF IsInMainChain
  <2> QED BY <2>1, <2>2
<1>5. Depth(t) = Height[dbBest] - Height[a] + 1
  <2>1. mapWallet[t].hashBlock = a /\ a # NULL BY <1>3, NullAssumption
  <2> HIDE DEF a
  <2>2. GetDepthInMainChain(t, a) = Height[pindexBest] - Height[a] + 1
    BY <1>3, <1>4, <2>1 DEF GetDepthInMainChain
  <2> QED BY <1>1, <2>1, <2>2 DEF Depth
<1>6. Height[a] \in Nat /\ Height[dbBest] \in Nat /\ (a = dbBest \/ Height[a] < Height[dbBest])
  BY <1>1, <1>2, <1>3, TreeAssumption, Branches DEF IsBranch
<1> QED BY <1>5, <1>6

(* FixSpentCoins finds every confirmed transaction of the wallet in the    *)
(* main chain and sets its flags from the index; the coins of the others   *)
(* it keeps are not touched, or made unspent.                              *)
LEMMA RepairTold ==
  ASSUME SafetyInv, WalletTypeOK, pc = "idle", ~fTorn, KnowsOf(mapWallet, dbTx)
  PROVE  /\ KnowsOf(Fixed, dbTx)
         /\ Blamed(mapWallet, At(dbTx)) => Blamed(Fixed, At(dbTx))
         /\ \A o \in Mine : dbTx[o[1]] # NULL =>
              Has(Fixed, o[1]) /\ (Spent(Fixed, o) <=> dbTx[o[1]].vSpent[o[2]] # NULL)
<1> DEFINE w == mapWallet
           v == Fixed
<1>1. w \in Wallets /\ TxIndexType(dbTx) /\ dbBest \in Block /\ dbTx = LedgerAt[dbBest]
  BY WalletsAre DEF WalletTypeOK, SafetyInv, TypeOK, LedgerInv
<1>2. IsView(At(dbTx), Sp(dbTx)) /\ \A t \in Tx : At(dbTx)[t] # NULL <=> dbTx[t] # NULL
  BY <1>1, LedgerView
<1>3. /\ v \in Wallets
      /\ \A t \in Tx : Has(v, t) <=> Has(w, t) /\ ~(Depth(t) < 1)
      /\ \A t \in Tx : Has(v, t) => v[t].hashBlock = w[t].hashBlock
      /\ \A o \in Mine : Has(v, o[1]) =>
           (Spent(v, o) <=> IF dbTx[o[1]] = NULL /\ o[1] \notin CoinBase \cup CoinStake
                            THEN Spent(w, o)
                            ELSE dbTx[o[1]] # NULL /\ dbTx[o[1]].vSpent[o[2]] # NULL)
  BY <1>1, FixedIs
<1> HIDE DEF v
<1>4. ASSUME NEW t \in Tx, Involved(t), dbTx[t] # NULL
      PROVE  Has(v, t) /\ v[t].hashBlock = At(dbTx)[t]
  <2>1. Has(w, t) /\ w[t].hashBlock = At(dbTx)[t] BY <1>2, <1>4 DEF KnowsOf, Agrees
  <2>2. At(dbTx)[t] = dbTx[t].pos BY <1>4 DEF At
  <2>3. ~(Depth(t) < 1) BY <1>4, <2>1, <2>2, ConfirmedDepth
  <2> QED BY <1>3, <2>1, <2>3
<1>5. ASSUME NEW o \in Mine, dbTx[o[1]] # NULL
      PROVE  Has(v, o[1]) /\ (Spent(v, o) <=> dbTx[o[1]].vSpent[o[2]] # NULL)
  <2>1. o[1] \in Tx /\ Involved(o[1]) BY MineIs
  <2>2. Has(v, o[1]) BY <1>4, <1>5, <2>1
  <2> QED BY <1>3, <1>5, <2>2
<1>6. KnowsOf(v, dbTx)
  <2>1. \A o \in Sp(dbTx) : o \in Mine /\ dbTx[o[1]] # NULL /\ dbTx[o[1]].vSpent[o[2]] # NULL
    BY DEF Sp
  <2> QED BY <1>2, <1>4, <1>5, <2>1 DEF KnowsOf, Agrees
<1>7. ASSUME Blamed(w, At(dbTx)) PROVE Blamed(v, At(dbTx))
  <2> SUFFICES ASSUME NEW o \in Mine, Has(v, o[1]), Spent(v, o)
               PROVE  \E t \in Tx : o \in Vin[t] /\ (t \notin CoinStake \/ At(dbTx)[t] # NULL)
    BY DEF Blamed
  <2>1. o[1] \in Tx /\ o[2] \in 0 .. NOut[o[1]] - 1 /\ o = <<o[1], o[2]>> BY MineIs
  <2>2. CASE dbTx[o[1]] = NULL
    <3>1. Spent(w, o) /\ Has(w, o[1]) BY <1>3, <2>1, <2>2
    <3> QED BY <1>7, <3>1 DEF Blamed
  <2>3. CASE dbTx[o[1]] # NULL
    <3> DEFINE t == dbTx[o[1]].vSpent[o[2]]
    <3>1. t # NULL BY <1>5, <2>3
    <3>2. t \in Tx /\ o \in Vin[t] /\ dbTx[t] # NULL
      BY <1>1, <2>1, <2>3, <3>1, SpenderRecorded DEF SpendersRecorded
    <3> HIDE DEF t
    <3> QED BY <1>2, <3>2
  <2> QED BY <2>2, <2>3
<1> QED BY <1>5, <1>6, <1>7 DEF v

(* Every step of the wallet, the chain and the pool keeps it so. *)
LEMMA KnowledgeStep ==
  ASSUME SafetyInv, MapsInv, SafetyInv', MapsInv', WalletTypeOK, PassInv, Knowledge, Session,
         [WalletNext]_walletVars
  PROVE  Knowledge' /\ Session'
<1>1. mapWallet \in Wallets /\ fStale \in BOOLEAN BY WalletsAre DEF WalletTypeOK
<1>2. /\ TypeOK /\ Positions /\ LedgerInv /\ LedgerInv'
      /\ TxIndexType(batchTx) /\ TxIndexType(dbTx)
      /\ pc # "reorg" => batchTx = dbTx
  BY DEF SafetyInv, TypeOK, LinksInv
<1>4. ASSUME HearsOfPool, \A t \in mapTx' \ mapTx : t \in Tx /\ t \notin CoinStake,
             UNCHANGED <<batchTx, restarts, reaccept, fStale, fTorn>>
      PROVE  Knowledge' /\ Session'
  <2>1. CASE mapWallet' = mapWallet BY <1>4, <2>1, NothingTold DEF Undisturbed
  <2>2. CASE \E t \in mapTx' \ mapTx : \E known \in BOOLEAN :
               Heard(mapWallet, t, NULL, mapWallet', known)
    <3>1. PICK t \in mapTx' \ mapTx, known \in BOOLEAN :
            Heard(mapWallet, t, NULL, mapWallet', known)
      BY <2>2
    <3>2. t \in Tx /\ t \notin CoinStake BY <1>4
    <3> QED BY <1>1, <1>2, <1>4, <3>1, <3>2, PoolTold
  <2>3. mapTx' \ mapTx \subseteq Tx BY <1>4
  <2> QED BY <1>1, <1>4, <2>1, <2>2, <2>3, HearsOfPoolIs
<1>5. CASE WalletPoolStep
  <2>1. \A t \in mapTx' \ mapTx : t \in Tx /\ t \notin CoinStake BY <1>5, NewInPool
  <2>2. UNCHANGED vars
    BY <1>5 DEF WalletPoolStep, Resurrect, ResurrectFails, DeleteRedundant, HandleTx
  <2>3. HearsOfPool /\ UNCHANGED <<batchTx, restarts, reaccept, fStale, fTorn>>
    BY <1>5, <2>2 DEF WalletPoolStep, vars, callVars, reacceptVars, historyVars
  <2> QED BY <1>4, <2>1, <2>3
<1>6. CASE WalletQuietStep
  <2>1. mapWallet' = mapWallet /\ reaccept' = reaccept /\ fStale' = fStale
    BY <1>6 DEF WalletQuietStep, reacceptVars, historyVars
  <2>2. batchTx' = batchTx /\ restarts' = restarts
    <3>1. CASE ConnectTipFails \/ SecondaryFails \/ NewBest
      BY <1>2, <3>1 DEF ConnectTipFails, SecondaryFails, NewBest, Return, dbVars
    <3>2. CASE Postpone \/ Reorganize \/ ReorgCommit BY <3>2 DEF Postpone, Reorganize, ReorgCommit
    <3> QED BY <1>6, <3>1, <3>2 DEF WalletQuietStep, QuietStep, NodeReorgCommit
  <2>3. fTorn' = fTorn \/ fTorn'
    BY <1>6 DEF WalletQuietStep, QuietStep, NodeReorgCommit, ConnectTipFails, SecondaryFails,
       NewBest, Postpone, Reorganize, ReorgCommit
  <2>4. Undisturbed' => Undisturbed BY <2>1, <2>3 DEF Undisturbed
  <2> QED BY <2>1, <2>2, <2>4, NothingTold
<1>7. CASE WalletConnectTip
  <2>1. /\ ConnectTip /\ mapWallet' = SyncConnected(mapWallet, pindexNew, TRUE)
        /\ reaccept' = reaccept /\ fStale' = fStale
    BY <1>7 DEF WalletConnectTip, NodeConnectTip, reacceptVars, historyVars
  <2>2. pc = "tip" /\ fTorn' = fTorn /\ restarts' = restarts /\ batchTx' = dbTx' /\ dbBest' = pindexNew
    BY <2>1 DEF ConnectTip, CommitInner, Return
  <2>3. pindexNew \in Block \ {Genesis} BY <1>2, <2>2 DEF Positions, TypeOK
  <2>4. Undisturbed => Valid(pindexNew) /\ batchTx = LedgerAt[Prev[pindexNew]]
                       /\ batchTx' = LedgerAt[pindexNew]
    BY <1>2, <2>2 DEF Undisturbed, LedgerInv, Positions
  <2> QED BY <1>1, <2>1, <2>2, <2>3, <2>4, BlockTold
<1>8. CASE WalletConnectSecondary
  <2> DEFINE b == NextOn(pindex, pindexNew)
  <2>1. /\ ConnectSecondary /\ mapWallet' = SyncConnected(mapWallet, b, TRUE)
        /\ reaccept' = reaccept /\ fStale' = fStale
    BY <1>8 DEF WalletConnectSecondary, NodeConnectSecondary, reacceptVars, historyVars
  <2>2. pc = "secondary" /\ fTorn' = fTorn /\ restarts' = restarts /\ batchTx' = dbTx' /\ dbBest' = b
    BY <2>1 DEF ConnectSecondary, CommitInner
  <2>3. b \in Block \ {Genesis} /\ Prev[b] = pindex
    BY <1>2, <2>1, <2>2, NextOnIs DEF ConnectSecondary, Positions, TypeOK
  <2> HIDE DEF b
  <2>4. Undisturbed => Valid(b) /\ batchTx = LedgerAt[Prev[b]] /\ batchTx' = LedgerAt[b]
    BY <1>2, <2>2, <2>3 DEF Undisturbed, LedgerInv
  <2> QED BY <1>1, <2>1, <2>2, <2>3, <2>4, BlockTold
<1>9. CASE WalletReorgConnect
  <2> DEFINE b == NextOn(pindex, pindexInter)
  <2>1. /\ ReorgConnect /\ mapWallet' = SyncConnected(mapWallet, b, TRUE)
        /\ reaccept' = reaccept /\ fStale' = fStale
    BY <1>9 DEF WalletReorgConnect, NodeReorgConnect, reacceptVars, historyVars
  <2>2. pc = "reorg" /\ pc' = "reorg" /\ fTorn' = fTorn /\ restarts' = restarts /\ pindex' = b
    BY <2>1 DEF ReorgConnect
  <2>3. b \in Block \ {Genesis} /\ Prev[b] = pindex
    BY <1>2, <2>1, <2>2, NextOnIs DEF ReorgConnect, TypeOK
  <2> HIDE DEF b
  <2>4. Undisturbed => Valid(b) /\ batchTx = LedgerAt[Prev[b]] /\ batchTx' = LedgerAt[b]
    BY <1>2, <2>2, <2>3 DEF Undisturbed, LedgerInv
  <2> QED BY <1>1, <2>1, <2>2, <2>3, <2>4, BlockTold
<1>10. CASE WalletReorgDisconnect
  <2>1. /\ ReorgDisconnect /\ mapWallet' = SyncDisconnected(mapWallet, pindex)
        /\ reaccept' = reaccept /\ fStale' = fStale
    BY <1>10 DEF WalletReorgDisconnect, NodeReorgDisconnect, reacceptVars, historyVars
  <2>2. pc = "reorg" /\ pc' = "reorg" /\ fTorn' = fTorn /\ restarts' = restarts
        /\ pindex' = Prev[pindex]
    BY <2>1 DEF ReorgDisconnect
  <2>3. pindex \in Block \ {Genesis} BY <1>2, <2>1, Branches DEF IsBranch, ReorgDisconnect, TypeOK
  <2>4. Undisturbed => Valid(pindex) /\ batchTx = LedgerAt[pindex] /\ batchTx' = LedgerAt[Prev[pindex]]
    BY <1>2, <2>2 DEF Undisturbed, LedgerInv
  <2> QED BY <1>1, <2>1, <2>2, <2>3, <2>4, BlockTakenBack
<1>11. CASE WalletReorgFails
  <2>1. fStale' = TRUE /\ reaccept' = reaccept /\ restarts' = restarts
    BY <1>11 DEF WalletReorgFails, NodeReorgFails, ReorgFails, reacceptVars
  <2> QED BY <2>1 DEF Knowledge, Session, Undisturbed
<1>12. CASE ReacceptBegin
  <2>1. /\ reaccept = "due" /\ UNCHANGED <<nodeVars, bestBlock, vAccept, historyVars>>
        /\ mapWallet' = MarkSpent(mapWallet, SpentInIndex)
    BY <1>12 DEF ReacceptBegin
  <2>2. UNCHANGED <<batchTx, restarts, fStale, fTorn>> /\ Undisturbed' = Undisturbed
    BY <2>1 DEF nodeVars, vars, callVars, historyVars, Undisturbed
  <2>3. restarts # 0 BY <2>1 DEF Session
  <2>4. Agrees(mapWallet, At(batchTx), Sp(batchTx)) => Agrees(mapWallet', At(batchTx), Sp(batchTx))
    <3>1. \A o \in Sp(batchTx) : o \in Mine /\ o[1] \in Tx /\ Involved(o[1]) /\ At(batchTx)[o[1]] # NULL
      BY <1>2, ViewOf, MineIs DEF IsView
    <3>2. /\ \A t \in Tx : (Has(mapWallet', t) <=> Has(mapWallet, t))
                           /\ (Has(mapWallet, t) => mapWallet'[t].hashBlock = mapWallet[t].hashBlock)
          /\ \A o \in Mine : Has(mapWallet, o[1]) =>
               (Spent(mapWallet', o) <=> Spent(mapWallet, o) \/ o \in SpentInIndex)
      BY <1>1, <2>1, MarkSpentIs
    <3> QED BY <3>1, <3>2 DEF Agrees
  <2> QED BY <2>2, <2>3, <2>4 DEF Knowledge, Session, KnowsOf
<1>13. ASSUME NEW t \in Tx, AcceptWalletTransaction(t) PROVE Knowledge' /\ Session'
  <2>1. UNCHANGED <<nodeVars, mapWallet, bestBlock, reaccept, historyVars>>
    BY <1>13 DEF AcceptWalletTransaction
  <2> QED BY <2>1, NothingTold DEF nodeVars, vars, callVars, historyVars, Undisturbed
<1>14. CASE TryNext
  <2>1. \A t \in mapTx' \ mapTx : t \in Tx /\ t \notin CoinStake BY <1>14, NewInPool
  <2>2. HearsOfPool /\ UNCHANGED <<batchTx, restarts, reaccept, fStale, fTorn>>
    BY <1>14 DEF TryNext, vars, callVars, historyVars
  <2> QED BY <1>4, <2>1, <2>2
<1>15. CASE ReacceptEnd
  <2>1. /\ InPass /\ UNCHANGED <<nodeVars, bestBlock, toReaccept, vAccept, historyVars>>
        /\ mapWallet' = IF reaccept = "missing"
                        THEN ScanForWalletTransactions(mapWallet, Genesis, pindexBest, FALSE)
                        ELSE mapWallet
    BY <1>15 DEF ReacceptEnd
  <2>2. UNCHANGED <<batchTx, restarts, fStale, fTorn>> /\ Undisturbed' = Undisturbed
    BY <2>1 DEF nodeVars, vars, callVars, historyVars, Undisturbed
  <2>3. restarts # 0 BY <2>1 DEF Session, InPass
  <2>4. Agrees(mapWallet, At(batchTx), Sp(batchTx)) => Agrees(mapWallet', At(batchTx), Sp(batchTx))
    <3>1. pindexBest \in Block /\ Genesis \in Chain[pindexBest]
      BY <1>2, Branches DEF IsBranch, TypeOK
    <3>2. IsView(At(batchTx), Sp(batchTx)) BY <1>2, ViewOf
    <3> QED BY <1>1, <2>1, <3>1, <3>2, ScanAgain
  <2> QED BY <2>2, <2>3, <2>4 DEF Knowledge, Session, KnowsOf
<1>16. ASSUME NEW b \in Block, WalletAcceptBlock(b) PROVE Knowledge' /\ Session'
  <2>1. AcceptBlock(b) /\ UNCHANGED <<mapWallet, bestBlock, reacceptVars, historyVars>>
    BY <1>16 DEF WalletAcceptBlock, NodeAcceptBlock
  <2>2. pc = "idle" /\ dbTx' = dbTx /\ batchTx' = dbTx' /\ UNCHANGED <<restarts, fTorn>>
    BY <2>1 DEF AcceptBlock, CallSetBestChain, Return
  <2> QED BY <1>2, <2>1, <2>2, NothingTold DEF reacceptVars, historyVars, Undisturbed
<1>17. ASSUME NEW t \in Tx, WalletReceiveTx(t) PROVE Knowledge' /\ Session'
  <2>1. \A u \in mapTx' \ mapTx : u \in Tx /\ u \notin CoinStake BY <1>17, NewInPool
  <2>2. HearsOfPool /\ UNCHANGED <<batchTx, restarts, reaccept, fStale, fTorn>>
    BY <1>17 DEF WalletReceiveTx, ReceiveTx, vars, callVars, reacceptVars, historyVars
  <2> QED BY <1>4, <2>1, <2>2
<1>18. ASSUME NEW t \in Tx, Send(t) PROVE Knowledge' /\ Session'
  <2>1. UNCHANGED <<batchTx, restarts, reaccept, fStale, fTorn>> /\ Undisturbed' = Undisturbed
    BY <1>18 DEF Send, vars, callVars, reacceptVars, Undisturbed
  <2>2. t \notin CoinStake BY <1>18, WalletAssumption DEF Send
  <2>3. PICK x, y \in Wallets :
          /\ Heard(mapWallet, t, NULL, x, TRUE)
          /\ y = MarkSpent(x, Vin[t])
          /\ mapWallet' = y \/ \E known \in BOOLEAN : Heard(y, t, NULL, mapWallet', known)
    BY <1>1, <1>2, <1>18, SendIs
  <2> DEFINE at == At(batchTx)
             X == Sp(batchTx)
             Sound(v) == Agrees(v, at, X) /\ (Blamed(mapWallet, at) => Blamed(v, at))
  <2>4. IsView(at, X) BY <1>2, ViewOf
  <2> HIDE DEF at, X
  <2>5. ASSUME NEW u \in Wallets, NEW v, NEW known, Heard(u, t, NULL, v, known), Sound(u)
        PROVE  Sound(v)
    <3>1. Agrees(u, at, X) /\ NULL \in Block \cup {NULL} BY <2>5
    <3>2. Agrees(v, at, X) /\ (Blamed(u, at) /\ (t \notin CoinStake \/ at[t] # NULL) => Blamed(v, at))
      BY <2>4, <2>5, <3>1, HeardAgain
    <3> QED BY <2>2, <2>5, <3>2
  <2>6. ASSUME Sound(x) PROVE Sound(y)
    <3>1. /\ \A u \in Tx : (Has(y, u) <=> Has(x, u)) /\ (Has(x, u) => y[u].hashBlock = x[u].hashBlock)
          /\ \A o \in Mine : Has(x, o[1]) => (Spent(y, o) <=> Spent(x, o) \/ o \in Vin[t])
      BY <2>3, MarkSpentIs
    <3>2. \A o \in Mine : o[1] \in Tx /\ Involved(o[1]) BY MineIs
    <3>3. Agrees(y, at, X) BY <2>4, <2>6, <3>1, <3>2 DEF IsView, Agrees
    <3>4. Blamed(x, at) => Blamed(y, at) BY <2>2, <3>1, <3>2 DEF Blamed
    <3> QED BY <2>6, <3>3, <3>4
  <2>7. ASSUME Undisturbed PROVE Sound(mapWallet')
    <3>1. Sound(mapWallet) BY <2>7 DEF Knowledge, KnowsOf, at, X
    <3> HIDE DEF Sound
    <3>2. Sound(x) BY <1>1, <2>3, <2>5, <3>1
    <3>3. Sound(y) BY <2>6, <3>2
    <3> QED BY <2>3, <2>5, <3>3
  <2> QED BY <2>1, <2>7 DEF Knowledge, Session, KnowsOf, at, X
<1>19. CASE FixSpentCoins
  <2>1. /\ pc = "idle" /\ mapWallet' = Fixed
        /\ UNCHANGED <<nodeVars, bestBlock, reacceptVars, sent, fRefused, fStale>>
    BY <1>19 DEF FixSpentCoins
  <2>2. UNCHANGED <<batchTx, restarts, reaccept, fStale, fTorn>> /\ Undisturbed' = Undisturbed
    BY <2>1 DEF nodeVars, vars, callVars, reacceptVars, Undisturbed
  <2>3. batchTx = dbTx BY <1>2, <2>1
  <2>4. ASSUME Undisturbed
        PROVE  /\ KnowsOf(mapWallet', dbTx)
               /\ Blamed(mapWallet, At(dbTx)) => Blamed(mapWallet', At(dbTx))
    BY <2>1, <2>3, <2>4, RepairTold DEF Knowledge, Undisturbed
  <2> QED BY <2>2, <2>3, <2>4 DEF Knowledge, Session
<1>20. CASE WalletRestart
  <2>1. StartWith(mapWallet) /\ fStale' = (fStale \/ pc = "reorg") BY <1>20 DEF WalletRestart
  <2>2. CASE Undisturbed /\ pc # "reorg"
    <3>1. ~fTorn => KnowsOf(mapWallet, dbTx) BY <1>2, <2>2 DEF Knowledge
    <3>2. (~fTorn' => KnowsOf(mapWallet', batchTx')) /\ restarts' # 0
      BY <1>1, <2>1, <3>1, StartTold
    <3> QED BY <3>2 DEF Knowledge, Session, Undisturbed
  <2>3. CASE ~(Undisturbed /\ pc # "reorg")
    <3>1. ~Undisturbed'
      BY <2>1, <2>3 DEF Undisturbed, StartWith, Restart, LoadBlockIndex
    <3>2. restarts' # 0
      BY <1>2, <2>1 DEF StartWith, Restart, LoadBlockIndex, TypeOK
    <3> QED BY <3>1, <3>2 DEF Knowledge, Session
  <2> QED BY <2>2, <2>3
<1>21. CASE CrashInConnect
  <2>1. PICK b \in Block \ {Genesis} :
          /\ StartWith(SyncConnected(mapWallet, b, TRUE))
          /\ CanConnect(dbTx, b) /\ pc # "reorg"
          /\ ~fTorn => Prev[b] = dbBest
    <3>1. CASE /\ pc = "tip" /\ CanConnect(dbTx, pindexNew)
               /\ StartWith(SyncConnected(mapWallet, pindexNew, TRUE))
      <4>1. pindexNew \in Block \ {Genesis} /\ (~fTorn => Prev[pindexNew] = dbBest)
        BY <1>2, <3>1 DEF Positions, TypeOK, LedgerInv
      <4> QED BY <3>1, <4>1
    <3>2. CASE /\ pc = "secondary" /\ pindex # pindexNew
               /\ CanConnect(dbTx, NextOn(pindex, pindexNew))
               /\ StartWith(SyncConnected(mapWallet, NextOn(pindex, pindexNew), TRUE))
      <4> DEFINE c == NextOn(pindex, pindexNew)
      <4>1. c \in Block \ {Genesis} /\ Prev[c] = pindex
        BY <1>2, <3>2, NextOnIs DEF Positions, TypeOK
      <4>2. ~fTorn => Prev[c] = dbBest BY <1>2, <3>2, <4>1 DEF LedgerInv
      <4> HIDE DEF c
      <4> QED BY <3>2, <4>1, <4>2 DEF c
    <3> QED BY <1>21, <3>1, <3>2 DEF CrashInConnect
  <2>2. fStale' = fStale BY <1>21 DEF CrashInConnect
  <2> DEFINE v == SyncConnected(mapWallet, b, TRUE)
  <2>3. v \in Wallets BY <1>1, ConnectedTyped
  <2>4. CASE Undisturbed
    <3>1. ~fTorn /\ KnowsOf(mapWallet, dbTx) /\ dbTx = LedgerAt[Prev[b]] /\ Valid(Prev[b])
      BY <1>2, <2>1, <2>4 DEF Knowledge, Undisturbed, LedgerInv
    <3>2. Valid(b) BY <2>1, <3>1, ValidUp
    <3>3. KnowsOf(v, LedgerAt[b]) BY <1>1, <3>1, <3>2, ConnectTold
    <3>4. Prev[b] \in Chain[b] BY ParentInBranch
    <3>5. KnowsOf(v, dbTx)
      <4> HIDE DEF v
      <4> QED BY <3>1, <3>2, <3>3, <3>4, KnowsBelow
    <3>6. (~fTorn' => KnowsOf(mapWallet', batchTx')) /\ restarts' # 0
      <4> HIDE DEF v
      <4>1. StartWith(v) BY <2>1 DEF v
      <4> QED BY <2>3, <3>5, <4>1, StartTold
    <3> QED BY <3>6 DEF Knowledge, Session, Undisturbed
  <2>5. CASE ~Undisturbed
    <3>1. ~Undisturbed'
      BY <2>1, <2>2, <2>5 DEF Undisturbed, StartWith, Restart, LoadBlockIndex
    <3>2. restarts' # 0
      BY <1>2, <2>1 DEF StartWith, Restart, LoadBlockIndex, TypeOK
    <3> QED BY <3>1, <3>2 DEF Knowledge, Session
  <2> QED BY <2>4, <2>5
<1>22. CASE UNCHANGED walletVars
  BY <1>22, NothingTold
     DEF walletVars, nodeVars, vars, callVars, reacceptVars, historyVars, Undisturbed
<1> QED BY <1>5, <1>6, <1>7, <1>8, <1>9, <1>10, <1>11, <1>12, <1>13, <1>14, <1>15, <1>16, <1>17,
           <1>18, <1>19, <1>20, <1>21, <1>22 DEF WalletNext, WalletStep

---------------------------------------------------------------------------
(* The invariant and what it says *)

(* Well-formed maps under the wallet, a pass alone with the lock, and what *)
(* the wallet was told.                                                    *)
WalletInv == SafetyInv /\ MapsInv /\ WalletTypeOK /\ PassInv /\ Knowledge /\ Session

(* The conjunction is inductive. *)
LEMMA WalletInductive ==
  /\ WalletInit => WalletInv
  /\ WalletInv /\ [WalletNext]_walletVars => WalletInv'
<1>1. ASSUME WalletInit PROVE WalletInv
  <2>1. SafetyInv /\ MapsInv BY <1>1, SafetyInductive, MapsInit DEF WalletInit, NodeInit
  <2>2. WalletType(mapWallet) BY <1>1 DEF WalletInit, WalletType
  <2>3. WalletTypeOK
    <3>1. bestBlock \in Block /\ repairs \in 0 .. MaxRepairs /\ sent \subseteq Own
      BY <1>1, WalletAssumption, TreeAssumption DEF WalletInit
    <3>2. reaccept = "off" /\ toReaccept = {} /\ vAccept = <<>> BY <1>1 DEF WalletInit
    <3>3. {fRefused, fStale} \subseteq BOOLEAN BY <1>1 DEF WalletInit
    <3>4. vAccept \in Seq(Tx) BY <3>2
    <3> QED BY <2>2, <3>1, <3>2, <3>3, <3>4 DEF WalletTypeOK
  <2>4. PassInv BY <1>1 DEF WalletInit, PassInv, InPass
  <2>5. batchTx = EmptyTxIndex BY <1>1 DEF WalletInit, NodeInit, Init
  <2>6. At(batchTx) = [t \in Tx |-> NULL] /\ Sp(batchTx) = {}
    <3>1. \A o \in Mine : o[1] \in Tx BY MineIs
    <3> QED BY <2>5, <3>1 DEF EmptyTxIndex, At, Sp
  <2>7. Knowledge BY <2>6 DEF Knowledge, KnowsOf, Agrees
  <2>8. \A t \in Tx : ~Has(mapWallet, t) BY <1>1 DEF WalletInit, Has
  <2>9. Session
    <3>1. \A o \in Mine : o[1] \in Tx BY MineIs
    <3> QED BY <1>1, <2>8, <3>1 DEF WalletInit, Session, Blamed
  <2> QED BY <2>1, <2>3, <2>4, <2>7, <2>9 DEF WalletInv
<1>2. ASSUME WalletInv, [WalletNext]_walletVars PROVE WalletInv'
  <2>1. SafetyInv' /\ MapsInv' BY <1>2, WalletUnder DEF WalletInv
  <2>2. WalletTypeOK' /\ PassInv' BY <1>2, <2>1, WalletTypeStep DEF WalletInv
  <2>3. Knowledge' /\ Session' BY <1>2, <2>1, KnowledgeStep DEF WalletInv
  <2> QED BY <2>1, <2>2, <2>3 DEF WalletInv
<1> QED BY <1>1, <1>2

(* Between calls no batch is open. *)
LEMMA BetweenCalls ==
  ASSUME WalletInv, pc = "idle", Undisturbed
  PROVE  /\ KnowsOf(mapWallet, dbTx) /\ TxIndexType(dbTx)
         /\ \A t \in Tx : At(dbTx)[t] # NULL <=> dbTx[t] # NULL
<1>1. batchTx = dbTx /\ TxIndexType(dbTx) BY DEF WalletInv, SafetyInv, TypeOK, LinksInv
<1> QED BY <1>1, LedgerView DEF WalletInv, Knowledge

(* The wallet's transactions, their flags and copies, the pass of          *)
(* ReacceptWalletTransactions and its queue stay well formed: the flags of *)
(* CWalletTx never leave the outputs its transaction has, whatever         *)
(* SyncWithWallets, a rescan or FixSpentCoins writes to them.              *)
THEOREM WalletTyping == WalletSpec => []WalletTypeOK
<1>1. WalletInit => WalletInv BY WalletInductive
<1>2. WalletInv /\ [WalletNext]_walletVars => WalletInv' BY WalletInductive
<1>3. WalletInv => WalletTypeOK BY DEF WalletInv
<1> QED BY <1>1, <1>2, <1>3, PTL DEF WalletSpec

(* Until a reorganisation is cut short, the wallet has every transaction   *)
(* of the best chain that concerns it, with the block it is in, although   *)
(* SyncWithWallets tells it before the batch of the block is committed and *)
(* nothing tells it of a batch that is lost.                               *)
THEOREM ConfirmedIsKnown == WalletSpec => []ConfirmedKnown
<1>1. WalletInit => WalletInv BY WalletInductive
<1>2. WalletInv /\ [WalletNext]_walletVars => WalletInv' BY WalletInductive
<1>3. ASSUME WalletInv PROVE ConfirmedKnown
  <2> SUFFICES ASSUME Undisturbed, pc = "idle", NEW t \in Tx, Involved(t), dbTx[t] # NULL
               PROVE  mapWallet[t] # NULL /\ mapWallet[t].hashBlock = dbTx[t].pos
    BY DEF ConfirmedKnown, KnownInBlock
  <2>1. Agrees(mapWallet, At(dbTx), Sp(dbTx)) /\ At(dbTx)[t] # NULL
    BY <1>3, BetweenCalls DEF KnowsOf
  <2>2. At(dbTx)[t] = dbTx[t].pos BY DEF At
  <2> QED BY <2>1, <2>2 DEF Agrees, Has
<1> QED BY <1>1, <1>2, <1>3, PTL DEF WalletSpec

(* Until a reorganisation is cut short, a coin the best chain has spent is *)
(* marked in vfSpent: AddToWallet clears the flags of a confirmed          *)
(* transaction's outputs, but no later block, rescan or repair does so     *)
(* after the one that spends them.                                         *)
THEOREM SpendsAreKnown == WalletSpec => []ChainSpendsKnown
<1>1. WalletInit => WalletInv BY WalletInductive
<1>2. WalletInv /\ [WalletNext]_walletVars => WalletInv' BY WalletInductive
<1>3. ASSUME WalletInv PROVE ChainSpendsKnown
  <2> SUFFICES ASSUME Undisturbed, pc = "idle", NEW o \in Mine, mapWallet[o[1]] # NULL,
                      dbTx[o[1]] # NULL, dbTx[o[1]].vSpent[o[2]] # NULL
               PROVE  o[2] \in mapWallet[o[1]].vfSpent
    BY DEF ChainSpendsKnown
  <2>1. Agrees(mapWallet, At(dbTx), Sp(dbTx)) BY <1>3, BetweenCalls DEF KnowsOf
  <2>2. o \in Sp(dbTx) BY DEF Sp
  <2> QED BY <2>1, <2>2 DEF Agrees, Spent
<1> QED BY <1>1, <1>2, <1>3, PTL DEF WalletSpec

(* Within one session, a coin marked in vfSpent is spent by a transaction  *)
(* that can be sent again or by one the best chain holds: the call of      *)
(* DisableTransaction in DisconnectBlock gives back the coins of every     *)
(* coinstake that a reorganisation takes away.                             *)
THEOREM StakesComeBack == WalletSpec => []StakeRefunded
<1>1. WalletInit => WalletInv BY WalletInductive
<1>2. WalletInv /\ [WalletNext]_walletVars => WalletInv' BY WalletInductive
<1>3. ASSUME WalletInv PROVE StakeRefunded
  <2> SUFFICES ASSUME restarts = 0, Undisturbed, pc = "idle", NEW o \in Mine,
                      mapWallet[o[1]] # NULL, o[2] \in mapWallet[o[1]].vfSpent
               PROVE  \E t \in Tx : o \in Vin[t] /\ (t \notin CoinStake \/ dbTx[t] # NULL)
    BY DEF StakeRefunded
  <2>1. batchTx = dbTx BY <1>3 DEF WalletInv, SafetyInv, LinksInv
  <2>2. Blamed(mapWallet, At(dbTx)) BY <1>3, <2>1 DEF WalletInv, Session
  <2>3. \A t \in Tx : At(dbTx)[t] # NULL <=> dbTx[t] # NULL BY <1>3, BetweenCalls
  <2> QED BY <2>2, <2>3 DEF Blamed, Has, Spent
<1> QED BY <1>1, <1>2, <1>3, PTL DEF WalletSpec

(* FixSpentCoins leaves the flags of every confirmed coin as the index has *)
(* them: it finds each of their transactions in the wallet and at least    *)
(* one deep, so it erases none, until a reorganisation is cut short.       *)
THEOREM RepairLeavesAgreement == WalletSpec => RepairAgrees
<1> DEFINE A == repairs' # repairs /\ Undisturbed =>
                  \A o \in Mine : dbTx[o[1]] # NULL =>
                    /\ mapWallet'[o[1]] # NULL
                    /\ o[2] \in mapWallet'[o[1]].vfSpent <=> dbTx[o[1]].vSpent[o[2]] # NULL
<1>1. WalletInit => WalletInv BY WalletInductive
<1>2. WalletInv /\ [WalletNext]_walletVars => WalletInv' BY WalletInductive
<1>3. ASSUME WalletInv, [WalletNext]_walletVars PROVE [A]_walletVars
  <2> SUFFICES ASSUME repairs' # repairs, Undisturbed
               PROVE  \A o \in Mine : dbTx[o[1]] # NULL =>
                        /\ mapWallet'[o[1]] # NULL
                        /\ o[2] \in mapWallet'[o[1]].vfSpent <=> dbTx[o[1]].vSpent[o[2]] # NULL
    OBVIOUS
  <2>1. FixSpentCoins
    BY <1>3 DEF WalletNext, WalletStep, WalletPoolStep, WalletQuietStep, WalletConnectTip,
       WalletConnectSecondary, WalletReorgDisconnect, WalletReorgConnect, WalletReorgFails,
       ReacceptBegin, TryNext, ReacceptEnd, AcceptWalletTransaction, WalletAcceptBlock,
       WalletReceiveTx, Send, WalletRestart, CrashInConnect, StartWith, historyVars, walletVars
  <2>2. pc = "idle" /\ mapWallet' = Fixed BY <2>1 DEF FixSpentCoins
  <2>3. KnowsOf(mapWallet, dbTx) BY <1>3, <2>2, BetweenCalls
  <2>4. \A o \in Mine : dbTx[o[1]] # NULL =>
          Has(Fixed, o[1]) /\ (Spent(Fixed, o) <=> dbTx[o[1]].vSpent[o[2]] # NULL)
    BY <1>3, <2>2, <2>3, RepairTold DEF WalletInv, Undisturbed
  <2> QED BY <2>2, <2>4 DEF Has, Spent
<1> QED BY <1>1, <1>2, <1>3, PTL DEF WalletSpec, RepairAgrees

---------------------------------------------------------------------------
(* A pass of ReacceptWalletTransactions *)

(* The transaction whose AcceptWalletTransaction is under way. *)
Trying == vAccept[Len(vAccept)]

(* The pass has been through the others it has no more to come to: nothing *)
(* one of them carries would be taken, if it carries what it depends on.   *)
PassDone ==
  \A t \in Tx : /\ Has(mapWallet, t) /\ Outside(t) /\ CarriesParents(t) /\ CarriesChains(t)
                /\ t \notin toReaccept /\ (vAccept # <<>> => t # Trying)
                => \A p \in Carried(t) : ~Acceptable(p, dbTx, pindexBest)

(* Of what that transaction carries, nothing that was tried would be taken *)
(* or can become so before it is done with: what is left to try comes      *)
(* later in the order.                                                     *)
PassTrying ==
  vAccept # <<>> =>
    /\ Has(mapWallet, Trying)
    /\ CarriesChains(Trying) =>
         /\ Sorted(vAccept)
         /\ \A p \in Carried(Trying) \ Range(vAccept) :
              /\ ~Acceptable(p, dbTx, pindexBest)
              /\ \A x \in Prevs(p) \cap Range(vAccept) : ~Outside(x)

GoneThrough == InPass => PassDone /\ PassTrying

(* What an entry carries are transactions, and the same while its copies   *)
(* are.                                                                    *)
LEMMA CarriedType ==
  ASSUME mapWallet \in Wallets, NEW t \in Tx, Has(mapWallet, t)
  PROVE  /\ Carried(t) \subseteq Tx
         /\ UNCHANGED mapWallet[t].vtxPrev => UNCHANGED <<VtxPrev(t), Carried(t)>>
<1>1. Range(mapWallet[t].vtxPrev) \subseteq CMerkleTx BY EntryCopies
<1>2. \A c \in CMerkleTx : c.tx \in Tx BY DEF CMerkleTx
<1> QED BY <1>1, <1>2 DEF Carried, VtxPrev, TxsOf

(* One transaction is tried: it cannot be taken again, only those that     *)
(* spend it can be that could not before, and the wallet has at most the   *)
(* transaction itself new, without copies.                                 *)
LEMMA TriedOnce ==
  ASSUME WalletTypeOK, MapsInv, TryNext, NEW h, h = Head(vAccept)
  PROVE  /\ h \in Tx /\ ~Acceptable(h, dbTx, pindexBest)'
         /\ \A p \in Tx : Acceptable(p, dbTx, pindexBest)' =>
              \/ Acceptable(p, dbTx, pindexBest)
              \/ h \in Prevs(p) /\ Acceptable(h, dbTx, pindexBest)
         /\ \A t \in Tx : Has(mapWallet, t) =>
              Has(mapWallet', t) /\ mapWallet'[t].vtxPrev = mapWallet[t].vtxPrev
         /\ \A t \in Tx : Has(mapWallet', t) /\ ~Has(mapWallet, t) =>
              t = h /\ mapWallet'[t].vtxPrev = <<>>
<1>1. mapWallet \in Wallets BY WalletsAre DEF WalletTypeOK
<1>2. h \in Tx BY RangeTail DEF WalletTypeOK, TryNext
<1>3. UNCHANGED <<dbTx, pindexBest>> BY DEF TryNext, vars, memVars, dbVars
<1>4. CASE Acceptable(h, dbTx, pindexBest)
  <2>1. addUnchecked(h) /\ mapTx' = mapTx \cup {h} BY <1>4 DEF TryNext, addUnchecked
  <2>2. h \notin mapTx BY <1>4 DEF Acceptable, Eligible
  <2>3. ~Acceptable(h, dbTx, pindexBest)' BY <2>1 DEF Acceptable, Eligible
  <2>4. \A p \in Tx : Acceptable(p, dbTx, pindexBest)' =>
          Acceptable(p, dbTx, pindexBest) \/ h \in Prevs(p)
    <3> SUFFICES ASSUME NEW p \in Tx, Acceptable(p, dbTx, pindexBest)', h \notin Prevs(p)
                 PROVE  Acceptable(p, dbTx, pindexBest)
      OBVIOUS
    <3>1. PoolMapsOK BY DEF MapsInv
    <3> QED BY <1>2, <1>3, <2>1, <3>1, OnlyChildrenGain
  <2>5. mapTx' \ mapTx = {h} BY <2>1, <2>2
  <2>6. mapWallet' = AddToWalletIfInvolvingMe(mapWallet, h, NULL, TRUE)
    <3>1. (CHOOSE t \in {h} : TRUE) = h OBVIOUS
    <3>2. HearsOfPool BY DEF TryNext
    <3> QED BY <2>5, <3>1, <3>2 DEF HearsOfPool
  <2>7. Heard(mapWallet, h, NULL, mapWallet', IsMine(h) \/ IsFromMe(mapWallet, h))
    <3> QED BY <1>1, <1>2, <2>6, HearsIs
  <2>8. /\ \A u \in Tx : Has(mapWallet, u) => mapWallet'[u].vtxPrev = mapWallet[u].vtxPrev
        /\ Has(mapWallet', h) /\ ~Has(mapWallet, h) => mapWallet'[h].vtxPrev = <<>>
    <3>1. LET v == AddToWalletIfInvolvingMe(mapWallet, h, NULL, TRUE) IN
          /\ \A u \in Tx : Has(mapWallet, u) => v[u].vtxPrev = mapWallet[u].vtxPrev
          /\ Has(v, h) /\ ~Has(mapWallet, h) => v[h].vtxPrev = <<>>
      BY <1>1, <1>2, HearingKeepsCopies
    <3> QED BY <2>6, <3>1
  <2>9. \A u \in Tx : (Has(mapWallet, u) => Has(mapWallet', u))
                      /\ (Has(mapWallet', u) /\ ~Has(mapWallet, u) => u = h)
    BY <2>7 DEF Heard
  <2> QED BY <1>2, <1>4, <2>3, <2>4, <2>8, <2>9
<1>5. CASE ~Acceptable(h, dbTx, pindexBest)
  <2>1. UNCHANGED <<mapTx, mapNextTx>> BY <1>5 DEF TryNext
  <2>2. mapWallet' = mapWallet BY <2>1 DEF TryNext, HearsOfPool
  <2>3. ASSUME NEW p PROVE Acceptable(p, dbTx, pindexBest)' <=> Acceptable(p, dbTx, pindexBest)
    BY <1>3, <2>1 DEF Acceptable, Eligible, HaveInputs, Spendable, Immature
  <2> QED BY <1>2, <1>5, <2>2, <2>3
<1> QED BY <1>4, <1>5

(* While the pass tries one transaction after the other.                   *)
LEMMA GoneThroughTry ==
  ASSUME WalletTypeOK, MapsInv, GoneThrough, TryNext, InPass
  PROVE  PassDone' /\ PassTrying'
<1> DEFINE A(p) == Acceptable(p, dbTx, pindexBest)
<1>1. PICK h : h = Head(vAccept) OBVIOUS
<1>2. /\ h \in Tx /\ ~A(h)'
      /\ \A p \in Tx : A(p)' => A(p) \/ (h \in Prevs(p) /\ A(h))
      /\ \A t \in Tx : Has(mapWallet, t) =>
           Has(mapWallet', t) /\ mapWallet'[t].vtxPrev = mapWallet[t].vtxPrev
      /\ \A t \in Tx : Has(mapWallet', t) /\ ~Has(mapWallet, t) =>
           t = h /\ mapWallet'[t].vtxPrev = <<>>
  BY <1>1, TriedOnce
<1>3. PassDone /\ PassTrying BY DEF GoneThrough
<1>4. UNCHANGED <<dbTx, pindexBest, toReaccept>> BY DEF TryNext, vars, memVars, dbVars
<1>5. vAccept \in Seq(Tx) /\ vAccept # <<>> /\ vAccept' = Tail(vAccept)
  BY DEF WalletTypeOK, TryNext
<1>6. /\ Len(vAccept) \in Nat \ {0} /\ vAccept[1] = h /\ DOMAIN vAccept = 1 .. Len(vAccept)
      /\ DOMAIN vAccept' = 1 .. (Len(vAccept) - 1) /\ Len(vAccept') = Len(vAccept) - 1
      /\ \A i \in 1 .. (Len(vAccept) - 1) : vAccept'[i] = vAccept[i + 1]
  BY <1>1, <1>5
<1>7. Range(vAccept) = {h} \cup Range(vAccept') BY <1>1, <1>5, RangeTail
<1>8. Trying \in Tx /\ (vAccept' # <<>> => Trying' = Trying)
  <2>1. Trying \in Tx BY <1>5, <1>6 DEF Trying
  <2>2. ASSUME vAccept' # <<>> PROVE Trying' = Trying
    <3>1. vAccept' \in Seq(Tx) BY <1>5, RangeTail
    <3>2. Len(vAccept') \in 1 .. (Len(vAccept) - 1) BY <1>6, <2>2, <3>1
    <3>3. vAccept'[Len(vAccept')] = vAccept[Len(vAccept') + 1] /\ Len(vAccept') + 1 = Len(vAccept)
      BY <1>6, <3>2
    <3> QED BY <3>3 DEF Trying
  <2> QED BY <2>1, <2>2
<1>9. mapWallet \in Wallets BY WalletsAre DEF WalletTypeOK
<1>10. ASSUME NEW t \in Tx, Has(mapWallet, t)
       PROVE  /\ Carried(t)' = Carried(t) /\ Carried(t) \subseteq Tx
              /\ CarriesParents(t)' <=> CarriesParents(t)
              /\ CarriesChains(t)' <=> CarriesChains(t)
  <2>1. UNCHANGED mapWallet[t].vtxPrev BY <1>2, <1>10
  <2>2. Carried(t) \subseteq Tx /\ UNCHANGED <<VtxPrev(t), Carried(t)>>
    BY <1>9, <1>10, <2>1, CarriedType
  <2>3. CarriesParents(t)' <=> CarriesParents(t) BY <1>4, <2>2 DEF CarriesParents
  <2>4. CarriesChains(t)' <=> CarriesChains(t) BY <1>4, <2>2 DEF CarriesChains, Outside
  <2> QED BY <2>2, <2>3, <2>4
<1>11. ASSUME NEW p \in Tx, A(p)' PROVE dbTx[p] = NULL
  BY <1>4, <1>11 DEF Acceptable, Eligible
<1>12. A(h) => Outside(h) BY DEF Acceptable, Eligible, Outside
<1>13. PassDone'
  <2> SUFFICES ASSUME NEW t \in Tx, Has(mapWallet', t), Outside(t), CarriesParents(t)',
                      CarriesChains(t)', t \notin toReaccept, vAccept' # <<>> => t # Trying,
                      NEW p \in Carried(t)'
               PROVE  ~A(p)'
    <3> HIDE DEF A
    <3> QED BY <1>4, <1>8 DEF PassDone, A, Has, Outside
  <2>1. CASE ~Has(mapWallet, t)
    <3>1. t = h /\ mapWallet'[t].vtxPrev = <<>> BY <1>2, <2>1
    <3>2. Range(<<>>) = {} BY RangeEmpty
    <3>3. p = h BY <3>1, <3>2 DEF Carried, VtxPrev, TxsOf
    <3> QED BY <1>2, <3>3
  <2>2. CASE Has(mapWallet, t) /\ (t = Trying => Range(vAccept') # {})
    <3>1. t # Trying
      <4>1. vAccept' # <<>> => t # Trying OBVIOUS
      <4>2. Range(<<>>) = {} BY RangeEmpty
      <4> QED BY <2>2, <4>1, <4>2
    <3>2. p \in Carried(t) /\ p \in Tx BY <1>10, <2>2
    <3>3. CarriesParents(t) /\ CarriesChains(t) BY <1>10, <2>2
    <3>4. \A q \in Carried(t) : ~A(q) BY <1>3, <2>2, <3>1, <3>3 DEF PassDone
    <3>5. ASSUME A(p)' PROVE FALSE
      <4>1. h \in Prevs(p) /\ A(h) BY <1>2, <3>2, <3>4, <3>5
      <4>2. dbTx[p] = NULL /\ dbTx[h] = NULL BY <1>11, <1>12, <3>2, <3>5, <4>1 DEF Outside
      <4>3. h \in Carried(t) BY <3>2, <3>3, <4>1, <4>2 DEF CarriesParents, Carried
      <4> QED BY <3>4, <4>1, <4>3
    <3> QED BY <3>5
  <2>3. CASE Has(mapWallet, t) /\ t = Trying /\ Range(vAccept') = {}
    <3>1. p \in Carried(t) /\ p \in Tx BY <1>10, <2>3
    <3>2. CASE p = h BY <1>2, <3>2
    <3>3. CASE p # h
      <4>1. p \in Carried(Trying) \ Range(vAccept) BY <1>7, <2>3, <3>1, <3>3
      <4>2. CarriesChains(Trying) BY <1>10, <2>3
      <4>3. ~A(p) /\ \A x \in Prevs(p) \cap Range(vAccept) : ~Outside(x)
        BY <1>3, <1>5, <4>1, <4>2 DEF PassTrying
      <4>4. h \in Range(vAccept) BY <1>7
      <4> HIDE DEF A
      <4> QED BY <1>2, <1>12, <3>1, <4>3, <4>4
    <3> QED BY <3>2, <3>3
  <2> QED BY <2>1, <2>2, <2>3
<1>14. PassTrying'
  <2> SUFFICES ASSUME vAccept' # <<>>
               PROVE  PassTrying'
    BY DEF PassTrying
  <2>1. Has(mapWallet, Trying) BY <1>3, <1>5 DEF PassTrying
  <2>2. Has(mapWallet', Trying) /\ Trying' = Trying BY <1>2, <1>8, <2>1
  <2> SUFFICES ASSUME CarriesChains(Trying)'
               PROVE  /\ Sorted(vAccept)'
                      /\ \A p \in Carried(Trying)' \ Range(vAccept') :
                           ~A(p)' /\ \A x \in Prevs(p) \cap Range(vAccept') : ~Outside(x)'
    BY <2>2 DEF PassTrying, Has
  <2>3. /\ Sorted(vAccept)
        /\ \A p \in Carried(Trying) \ Range(vAccept) :
             ~A(p) /\ \A x \in Prevs(p) \cap Range(vAccept) : ~Outside(x)
    <3>1. CarriesChains(Trying) BY <1>8, <1>10, <2>1, <2>2
    <3> QED BY <1>3, <1>5, <3>1 DEF PassTrying
  <2>4. \A x : Outside(x)' <=> Outside(x) BY <1>4 DEF Outside
  <2>5. Sorted(vAccept)'
    <3> SUFFICES ASSUME NEW i \in 1 .. (Len(vAccept) - 1), NEW j \in 1 .. (Len(vAccept) - 1),
                        Outside(vAccept'[i]), vAccept'[i] \in Prevs(vAccept'[j])
                 PROVE  i < j
      BY <1>6, <2>4 DEF Sorted
    <3>1. i + 1 \in DOMAIN vAccept /\ j + 1 \in DOMAIN vAccept
          /\ vAccept[i + 1] \in Prevs(vAccept[j + 1]) /\ Outside(vAccept[i + 1])
      BY <1>6
    <3>2. i + 1 < j + 1 BY <2>3, <3>1 DEF Sorted
    <3> QED BY <3>2
  <2>6. \A x \in Prevs(h) \cap Range(vAccept') : ~Outside(x)
    <3>1. ASSUME NEW i \in 1 .. (Len(vAccept) - 1), vAccept'[i] \in Prevs(h), Outside(vAccept'[i])
          PROVE  FALSE
      <4>1. /\ i + 1 \in DOMAIN vAccept /\ 1 \in DOMAIN vAccept
            /\ vAccept[i + 1] \in Prevs(vAccept[1]) /\ Outside(vAccept[i + 1])
        BY <1>6, <3>1
      <4>2. i + 1 < 1 BY <2>3, <4>1 DEF Sorted
      <4> QED BY <4>2
    <3> QED BY <1>6, <3>1 DEF Range
  <2>7. ASSUME NEW p \in Carried(Trying), p \notin Range(vAccept')
        PROVE  ~A(p)' /\ \A x \in Prevs(p) \cap Range(vAccept') : ~Outside(x)
    <3>1. p \in Tx BY <1>8, <1>10, <2>1
    <3>2. CASE p = h BY <1>2, <2>6, <3>2
    <3>3. CASE p # h
      <4>1. ~A(p) /\ \A x \in Prevs(p) \cap Range(vAccept) : ~Outside(x)
        BY <1>7, <2>7, <2>3, <3>3
      <4> HIDE DEF A
      <4> QED BY <1>2, <1>7, <1>12, <3>1, <4>1
    <3> QED BY <3>2, <3>3
  <2>8. Carried(Trying)' = Carried(Trying) BY <1>8, <1>10, <2>1, <2>2
  <2> HIDE DEF A
  <2> QED BY <2>5, <2>7, <2>8, <2>4
<1> QED BY <1>13, <1>14

(* Every step of a pass leaves what it went through behind it. *)
LEMMA GoneThroughStep ==
  ASSUME WalletInv, GoneThrough, [WalletNext]_walletVars
  PROVE  GoneThrough'
<1>1. /\ WalletTypeOK /\ MapsInv /\ PassInv /\ mapWallet \in Wallets
      /\ (reaccept \in {"off", "due"} => toReaccept = {} /\ vAccept = <<>>)
  BY WalletsAre DEF WalletInv, WalletTypeOK
<1>2. ASSUME ~InPass, UNCHANGED reaccept PROVE GoneThrough'
  BY <1>2 DEF GoneThrough, InPass
<1>3. CASE WalletPoolStep \/ WalletQuietStep \/ WalletConnectTip \/ WalletConnectSecondary
           \/ WalletReorgDisconnect \/ WalletReorgConnect \/ WalletReorgFails
  <2>1. ~InPass BY <1>1, <1>3, PassAlone
  <2>2. UNCHANGED reacceptVars
    <3>1. CASE WalletPoolStep BY <3>1 DEF WalletPoolStep
    <3>2. CASE WalletQuietStep BY <3>2 DEF WalletQuietStep
    <3>3. CASE WalletConnectTip BY <3>3 DEF WalletConnectTip
    <3>4. CASE WalletConnectSecondary BY <3>4 DEF WalletConnectSecondary
    <3>5. CASE WalletReorgDisconnect BY <3>5 DEF WalletReorgDisconnect
    <3>6. CASE WalletReorgConnect BY <3>6 DEF WalletReorgConnect
    <3>7. CASE WalletReorgFails BY <3>7 DEF WalletReorgFails
    <3> QED BY <1>3, <3>1, <3>2, <3>3, <3>4, <3>5, <3>6, <3>7
  <2>3. UNCHANGED reaccept BY <2>2 DEF reacceptVars
  <2> QED BY <1>2, <2>1, <2>3
<1>4. CASE ReacceptBegin
  <2>1. mapWallet' = MarkSpent(mapWallet, SpentInIndex)
        /\ toReaccept' = {t \in Tx : /\ mapWallet[t] # NULL /\ dbTx[t] = NULL
                                     /\ t \notin CoinBase \cup CoinStake}
        /\ vAccept' = <<>> /\ UNCHANGED dbTx
    BY <1>1, <1>4 DEF ReacceptBegin, nodeVars, vars, dbVars
  <2>2. \A t \in Tx : Has(mapWallet', t) <=> Has(mapWallet, t) BY <1>1, <2>1, MarkSpentIs
  <2>3. PassDone'
    <3>1. \A t \in Tx : Outside(t)' => dbTx[t] = NULL /\ t \notin CoinBase \cup CoinStake
      BY <2>1 DEF Outside
    <3> QED BY <2>1, <2>2, <3>1 DEF PassDone, Has
  <2>4. PassTrying' BY <2>1 DEF PassTrying
  <2> QED BY <2>3, <2>4 DEF GoneThrough
<1>5. ASSUME NEW t \in Tx, AcceptWalletTransaction(t) PROVE GoneThrough'
  <2>1. InPass /\ t \in toReaccept /\ toReaccept' = toReaccept \ {t} /\ vAccept = <<>>
        /\ UNCHANGED <<nodeVars, mapWallet, reaccept>>
    BY <1>5 DEF AcceptWalletTransaction
  <2>2. UNCHANGED <<dbTx, pindexBest, mapTx, mapNextTx>>
    BY <2>1 DEF nodeVars, vars, memVars, dbVars, poolVars
  <2>3. Has(mapWallet, t) BY <1>1, <2>1 DEF PassInv
  <2>4. /\ vAccept' # <<>> /\ vAccept'[Len(vAccept')] = t
        /\ CarriesChains(t) => Sorted(vAccept')
        /\ Carried(t) \subseteq Range(vAccept')
    BY <1>1, <1>5, <2>3, TryListIs
  <2>5. \A p : Acceptable(p, dbTx, pindexBest)' <=> Acceptable(p, dbTx, pindexBest)
    BY <2>2 DEF Acceptable, Eligible, HaveInputs, Spendable, Immature
  <2>6. \A u \in Tx : /\ Carried(u)' = Carried(u) /\ (Outside(u)' <=> Outside(u))
                      /\ CarriesParents(u)' <=> CarriesParents(u)
                      /\ CarriesChains(u)' <=> CarriesChains(u)
    BY <2>1, <2>2 DEF Carried, VtxPrev, CarriesParents, CarriesChains, Outside
  <2>7. Trying' = t BY <2>4 DEF Trying
  <2>8. PassDone'
    <3>1. PassDone BY <2>1 DEF GoneThrough
    <3> SUFFICES ASSUME NEW u \in Tx, Has(mapWallet, u), Outside(u)', CarriesParents(u)',
                        CarriesChains(u)', u \notin toReaccept', u # t, NEW p \in Carried(u)'
                 PROVE  ~Acceptable(p, dbTx, pindexBest)'
      BY <2>1, <2>2, <2>4, <2>7 DEF PassDone, Has
    <3>2. /\ u \notin toReaccept /\ CarriesParents(u) /\ CarriesChains(u) /\ Outside(u)
          /\ p \in Carried(u)
      BY <2>1, <2>6
    <3>3. ~Acceptable(p, dbTx, pindexBest) BY <2>1, <3>1, <3>2 DEF PassDone
    <3> QED BY <2>5, <3>3
  <2>9. PassTrying'
    <3>1. Carried(t) \ Range(vAccept') = {} BY <2>4
    <3>2. /\ Carried(Trying)' = Carried(t) /\ Has(mapWallet', Trying')
          /\ CarriesChains(Trying)' <=> CarriesChains(t)
      BY <2>1, <2>2, <2>3, <2>7 DEF Carried, VtxPrev, CarriesChains, Outside
    <3>3. CarriesChains(t) => Sorted(vAccept)' BY <2>2, <2>4 DEF Sorted, Outside
    <3> QED BY <3>1, <3>2, <3>3 DEF PassTrying, Has
  <2> QED BY <2>8, <2>9 DEF GoneThrough
<1>6. CASE TryNext
  <2>1. vAccept # <<>> /\ UNCHANGED reaccept BY <1>6 DEF TryNext
  <2>2. InPass BY <1>1, <2>1 DEF InPass, WalletTypeOK
  <2>3. PassDone' /\ PassTrying' BY <1>1, <1>6, <2>2, GoneThroughTry
  <2> QED BY <2>3 DEF GoneThrough
<1>7. CASE ReacceptEnd BY <1>7 DEF ReacceptEnd, GoneThrough, InPass
<1>8. CASE (\E b \in Block : WalletAcceptBlock(b)) \/ \E t \in Tx : WalletReceiveTx(t) \/ Send(t)
  <2>1. ~InPass /\ UNCHANGED reaccept
    BY <1>8 DEF WalletAcceptBlock, WalletReceiveTx, Send, reacceptVars
  <2> QED BY <1>2, <2>1
<1>9. CASE FixSpentCoins
  <2>1. ~InPass /\ UNCHANGED reaccept BY <1>9 DEF FixSpentCoins, reacceptVars
  <2> QED BY <1>2, <2>1
<1>10. CASE WalletRestart \/ CrashInConnect
  <2>1. reaccept' = "due" BY <1>10 DEF WalletRestart, CrashInConnect, StartWith
  <2> QED BY <2>1 DEF GoneThrough, InPass
<1>11. CASE UNCHANGED walletVars
  <2>1. UNCHANGED <<mapWallet, reaccept, toReaccept, vAccept, dbTx, pindexBest, mapTx, mapNextTx>>
    BY <1>11 DEF walletVars, reacceptVars, nodeVars, vars, memVars, dbVars, poolVars
  <2>2. \A p : Acceptable(p, dbTx, pindexBest)' <=> Acceptable(p, dbTx, pindexBest)
    BY <2>1 DEF Acceptable, Eligible, HaveInputs, Spendable, Immature
  <2>3. /\ \A u : /\ Carried(u)' = Carried(u) /\ (Outside(u)' <=> Outside(u))
                  /\ CarriesParents(u)' <=> CarriesParents(u)
                  /\ CarriesChains(u)' <=> CarriesChains(u)
        /\ Trying' = Trying
    BY <2>1 DEF Carried, VtxPrev, CarriesParents, CarriesChains, Outside, Trying
  <2>4. (PassDone' <=> PassDone) /\ (PassTrying' <=> PassTrying)
    BY <2>1, <2>2, <2>3 DEF PassDone, PassTrying, Has, Sorted
  <2> QED BY <2>1, <2>4 DEF GoneThrough, InPass
<1> QED BY <1>3, <1>4, <1>5, <1>6, <1>7, <1>8, <1>9, <1>10, <1>11 DEF WalletNext, WalletStep

(* At the end of a pass of ReacceptWalletTransactions no transaction that  *)
(* carries what it depends on in vtxPrev, each spent by one of the others, *)
(* is left for the pool to take, whatever the order of mapWallet:          *)
(* AcceptWalletTransaction has tried the copies before it, which           *)
(* AddSupportingTransactions has left each after those it spends, and a    *)
(* transaction that enters the pool later makes only those acceptable that *)
(* spend it.                                                               *)
THEOREM ReacceptsWhatItCan == WalletSpec => ReacceptComplete
<1> DEFINE I == WalletInv /\ GoneThrough
           E == ReacceptEnd =>
                  \A t \in Tx : mapWallet[t] # NULL /\ CarriesParents(t) /\ CarriesChains(t)
                                => ~Acceptable(t, dbTx, pindexBest)
<1>1. WalletInit => I
  <2>1. WalletInit => WalletInv BY WalletInductive
  <2>2. WalletInit => GoneThrough BY DEF WalletInit, GoneThrough, InPass
  <2> QED BY <2>1, <2>2
<1>2. I /\ [WalletNext]_walletVars => I'
  <2>1. WalletInv /\ [WalletNext]_walletVars => WalletInv' BY WalletInductive
  <2> QED BY <2>1, GoneThroughStep
<1>3. I => E
  <2> SUFFICES ASSUME I, ReacceptEnd, NEW t \in Tx, mapWallet[t] # NULL, CarriesParents(t),
                      CarriesChains(t), Acceptable(t, dbTx, pindexBest)
               PROVE  FALSE
    OBVIOUS
  <2>1. InPass /\ toReaccept = {} /\ vAccept = <<>> BY DEF ReacceptEnd
  <2>2. PassDone BY <2>1 DEF GoneThrough
  <2>3. Outside(t) BY DEF Acceptable, Eligible, Outside
  <2>4. t \in Carried(t) BY DEF Carried
  <2> QED BY <2>1, <2>2, <2>3, <2>4 DEF PassDone, Has
<1>4. I /\ [WalletNext]_walletVars => [E]_walletVars BY <1>3
<1> QED BY <1>1, <1>2, <1>4, PTL DEF WalletSpec, ReacceptComplete
============================================================================
