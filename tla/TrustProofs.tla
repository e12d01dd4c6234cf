---------------------------- MODULE TrustProofs ----------------------------
(***************************************************************************)
(* Proofs about Trust, for every tree of blocks, its branches as long and  *)
(* as late as may be: a base that is not ahead of the block it is used for *)
(* was read from the block's branch where no other stake branch has parted *)
(* from it long ago, and a start weighs every steady block as the sessions *)
(* before it did.                                                          *)
(*                                                                         *)
(* The difficulty is that the base is refreshed by whichever stake block   *)
(* comes first, that a start begins without one, that sessions may have    *)
(* begun anywhere, and that any block may come late.  What holds is that   *)
(* the heights of the stake blocks below the gaps alone decide at which    *)
(* height the base of a block is, if the block was not late (Ordered): a   *)
(* start, which comes by the same heights in the same order, refreshes the *)
(* base where the sessions before did.                                     *)
(***************************************************************************)
EXTENDS Trust, WellFoundedInduction, TLAPS

(* The blocks that are weighed with the base; those weighed so far.        *)
Staking == Stake \ Old
Weighed == mapBlockIndex \ toLoad
H(b) == Height[Prev[b]]

(* The base at height h, read from the branch of b. *)
OwnWindow(b, h) == {a \in Chain[b] : h - 2 * Window < Height[a] /\ Height[a] <= h - Window}
OwnBase(b, h) == Hardest(OwnWindow(b, h))

(* The tree of what is indexed, and the order in which a start goes. *)
Indexed ==
  /\ \A b \in mapBlockIndex \ {Genesis} : Prev[b] \in mapBlockIndex
  /\ \A a \in Weighed, b \in toLoad : Height[a] <= Height[b]
  /\ gaps \subseteq Stakes

(* The base that is kept was read for some stake block. *)
Kept ==
  nBaseStakeTrust # 0 =>
    \E c \in Stakes : /\ nBaseStakeTrustHeight = BaseHeight(c)
                      /\ nBaseStakeTrust = OwnBase(c, BaseHeight(c))

(* So was every base a block was weighed with. *)
Own ==
  /\ \A b \in Block \ Stakes : baseOf[b] = NoBase
  /\ \A b \in Stakes :
       /\ baseOf[b] \in Nat \X (Nat \ {0})
       /\ baseOf[b][1] + Window >= H(b)
       /\ \E c \in Stakes : /\ baseOf[b][1] = BaseHeight(c)
                            /\ baseOf[b][2] = OwnBase(c, BaseHeight(c))

(* The heights of the stake blocks below the gaps, and the height of the   *)
(* base at each of them: e is what a pass over them by height arrives at.  *)
Low == {H(c) : c \in {x \in Stakes : \A y \in gaps : H(x) < H(y)}}
Multiple(h) == Window * (h \div Window)
NextHeight(h, k) == IF h > k + Window THEN Multiple(h) ELSE k
NextBelow(k, h, S) == k \in S /\ k < h /\ \A l \in S : l < h => l <= k
Steps(e, S) ==
  \A h \in S : /\ e[h] \in Nat /\ e[h] <= h /\ h <= e[h] + Window
               /\ (\A l \in S : ~(l < h)) => e[h] = Multiple(h)
               /\ \A k \in S : NextBelow(k, h, S) => e[h] = NextHeight(h, e[k])

(* A block that was not late got the base of its height, ... *)
InStep(e) == \A b \in Stakes \ late : H(b) \in Low => baseOf[b][1] = e[H(b)]

(* ... and the base that is kept is that of the highest block weighed. *)
Current(e) ==
  \/ Stakes \cap Weighed = {} /\ nBaseStakeTrust = 0
  \/ \E c \in Stakes \cap Weighed :
       /\ \A d \in Stakes \cap Weighed : H(d) <= H(c)
       /\ H(c) \in Low => nBaseStakeTrust # 0 /\ nBaseStakeTrustHeight = e[H(c)]

Ordered == \E e : Steps(e, Low) /\ InStep(e) /\ Current(e)

(* What a block weighed before, and what it weighs in this session. *)
Weight(b) ==
  TrustBase \div (Bits[b] + 1) + IF b \in Staking THEN TrustBase \div baseOf[b][2] ELSE 0
Weights ==
  /\ \A b \in mapBlockIndex : Steady(b) =>
       before[b] = (IF b = Genesis THEN 0 ELSE before[Prev[b]]) + Weight(b)
  /\ \A b \in Weighed : Steady(b) => nChainTrust[b] = before[b]

TrustInv == TrustTypeOK /\ Indexed /\ Kept /\ Own /\ Ordered /\ Weights

---------------------------------------------------------------------------
(* Numbers and repetition *)

(* Every set of naturals has a least element. *)
LEMMA Least ==
  ASSUME NEW S \in SUBSET Nat, S # {}
  PROVE  \E m \in S : \A n \in S : m <= n
<1> DEFINE R == {ss \in Nat \X Nat : ss[1] < ss[2]}
<1>1. IsWellFoundedOn(R, Nat) BY NatLessThanWellFounded DEF OpToRel
<1>2. PICK x \in S : \A y \in S : ~(<<y, x>> \in R) BY <1>1, WFMin
<1>3. \A y \in S : ~(y < x) BY <1>2
<1> QED BY <1>3

(* What holds at 0 and is handed on holds up to N. *)
LEMMA CountUp ==
  ASSUME NEW N \in Nat, NEW S, 0 \in S, \A n \in 1 .. N : n - 1 \in S => n \in S
  PROVE  \A n \in 0 .. N : n \in S
<1> DEFINE Bad == (0 .. N) \ S
<1> SUFFICES ASSUME Bad # {} PROVE FALSE OBVIOUS
<1>1. PICK m \in Bad : \A k \in Bad : m <= k
  <2>1. Bad \in SUBSET Nat OBVIOUS
  <2> HIDE DEF Bad
  <2> QED BY <2>1, Least
<1>2. m \in 1 .. N /\ m - 1 \in 0 .. N /\ m - 1 \notin Bad BY <1>1
<1> QED BY <1>1, <1>2

(* A loop over N steps has a course. *)
HasCourse(N, W, w, G) ==
  \E f \in [0 .. N -> W] : f[0] = w /\ \A n \in 1 .. N : f[n] = G[<<n, f[n - 1]>>]
LEMMA Iterated ==
  ASSUME NEW N \in Nat, NEW W, NEW w \in W, NEW G \in [(1 .. N) \X W -> W]
  PROVE  HasCourse(N, W, w, G)
<1> DEFINE P(f, m) == f[0] = w /\ \A n \in 1 .. m : f[n] = G[<<n, f[n - 1]>>]
           S == {m \in 0 .. N : \E f \in [0 .. m -> W] : P(f, m)}
<1>1. 0 \in S
  <2> DEFINE e == [n \in 0 .. 0 |-> w]
  <2>1. e \in [0 .. 0 -> W] /\ e[0] = w /\ (\A n \in 1 .. 0 : FALSE) /\ 0 \in 0 .. N OBVIOUS
  <2> HIDE DEF e
  <2>2. P(e, 0) BY <2>1
  <2> QED BY <2>1, <2>2
<1>2. ASSUME NEW m \in 1 .. N, m - 1 \in S PROVE m \in S
  <2>1. PICK f \in [0 .. (m - 1) -> W] : P(f, m - 1) BY <1>2
  <2> DEFINE g == [n \in 0 .. m |-> IF n = m THEN G[<<m, f[m - 1]>>] ELSE f[n]]
  <2>2. m - 1 \in 0 .. (m - 1) /\ f[m - 1] \in W /\ m \in 0 .. N OBVIOUS
  <2>3. g \in [0 .. m -> W]
    <3>1. G[<<m, f[m - 1]>>] \in W BY <2>2
    <3>2. \A n \in 0 .. m : n # m => n \in 0 .. (m - 1) OBVIOUS
    <3> QED BY <3>1, <3>2
  <2>4. g[0] = w BY <2>1
  <2>5. ASSUME NEW n \in 1 .. m PROVE g[n] = G[<<n, g[n - 1]>>]
    <3>1. n - 1 \in 0 .. m /\ n - 1 # m /\ g[n - 1] = f[n - 1] OBVIOUS
    <3>2. CASE n = m BY <3>1, <3>2
    <3>3. CASE n # m
      <4>1. n \in 1 .. (m - 1) /\ g[n] = f[n] BY <3>3
      <4> QED BY <2>1, <3>1, <4>1
    <3> QED BY <3>2, <3>3
  <2> HIDE DEF g
  <2> QED BY <2>2, <2>3, <2>4, <2>5
<1>3. N \in S
  <2> HIDE DEF S
  <2> QED BY <1>1, <1>2, CountUp
<1> QED BY <1>3 DEF HasCourse

---------------------------------------------------------------------------
(* The tree *)

LEMMA TreeIs ==
  ASSUME TrustTreeAssumption, NEW b \in Block
  PROVE  /\ Height[b] \in Nat /\ Bits[b] \in Nat \ {0} /\ Window \in Nat \ {0} /\ TrustBase \in Nat
         /\ b # Genesis => Prev[b] \in Block /\ H(b) \in Nat /\ Height[b] = H(b) + 1
         /\ b \in Staking => b \in Block \ Old /\ b # Genesis /\ H(b) >= 2 * Window
<1>1. Height[b] \in Nat /\ Bits[b] \in Nat \ {0} /\ Window \in Nat \ {0} /\ TrustBase \in Nat
  BY DEF TrustTreeAssumption
<1>2. b # Genesis => Prev[b] \in Block /\ H(b) \in Nat /\ Height[b] = H(b) + 1
  BY DEF TrustTreeAssumption, H
<1>3. b \in Staking => b \in Block \ Old /\ b # Genesis /\ H(b) >= 2 * Window
  BY DEF TrustTreeAssumption, H, Staking
<1> QED BY <1>1, <1>2, <1>3

(* A branch consists of blocks up to its tip, ... *)
LEMMA BranchIs ==
  ASSUME TrustTreeAssumption, NEW b \in Block
  PROVE  \A a \in Chain[b] : a \in Block /\ Height[a] <= Height[b]
<1> DEFINE P(c) == \A a \in Chain[c] : a \in Block /\ Height[a] <= Height[c]
           N == Height[b]
           S == {n \in 0 .. N : \A c \in Block : Height[c] = n => P(c)}
<1>n. N \in Nat BY TreeIs
<1>1. ASSUME NEW c \in Block, c # Genesis, P(Prev[c]) PROVE P(c)
  <2>1. /\ Chain[c] = Chain[Prev[c]] \cup {c} /\ Height[c] = Height[Prev[c]] + 1
        /\ Height[Prev[c]] \in Nat /\ Prev[c] \in Block
    BY <1>1 DEF TrustTreeAssumption
  <2>2. \A a \in Block : Height[a] \in Nat BY TreeIs
  <2> QED BY <1>1, <2>1, <2>2
<1>2. P(Genesis) BY DEF TrustTreeAssumption
<1>3. 0 \in S
  <2>1. \A c \in Block : Height[c] = 0 => c = Genesis BY TreeIs
  <2> QED BY <1>2, <1>n, <2>1
<1>4. ASSUME NEW n \in 1 .. N, n - 1 \in S PROVE n \in S
  <2>1. ASSUME NEW c \in Block, Height[c] = n PROVE P(c)
    <3>1. c # Genesis BY <2>1 DEF TrustTreeAssumption
    <3>2. Prev[c] \in Block /\ Height[Prev[c]] = n - 1 BY <2>1, <3>1 DEF TrustTreeAssumption
    <3>3. P(Prev[c]) BY <1>4, <3>2
    <3> QED BY <1>1, <3>1, <3>3
  <2> HIDE DEF P
  <2> QED BY <2>1
<1> HIDE DEF P
<1>5. N \in S
  <2> HIDE DEF S, N
  <2>1. \A n \in 0 .. N : n \in S BY <1>n, <1>3, <1>4, CountUp
  <2> QED BY <2>1, <1>n
<1>6. P(b) BY <1>5
<1> QED BY <1>6 DEF P

(* ... with one at every height. *)
LEMMA BranchComplete ==
  ASSUME TrustTreeAssumption, NEW b \in Block, NEW h \in 0 .. Height[b]
  PROVE  \E a \in Chain[b] : Height[a] = h
<1> DEFINE P(c) == \A k \in 0 .. Height[c] : \E a \in Chain[c] : Height[a] = k
           N == Height[b]
           S == {n \in 0 .. N : \A c \in Block : Height[c] = n => P(c)}
<1>n. N \in Nat BY TreeIs
<1>1. ASSUME NEW c \in Block, c # Genesis, P(Prev[c]) PROVE P(c)
  <2>1. /\ Chain[c] = Chain[Prev[c]] \cup {c} /\ Height[c] = Height[Prev[c]] + 1
        /\ Height[Prev[c]] \in Nat /\ Prev[c] \in Block
    BY <1>1 DEF TrustTreeAssumption
  <2>2. ASSUME NEW k \in 0 .. Height[c] PROVE \E a \in Chain[c] : Height[a] = k
    <3>1. CASE k = Height[c] BY <2>1, <3>1
    <3>2. CASE k # Height[c]
      <4>1. k \in 0 .. Height[Prev[c]] BY <2>1, <3>2
      <4> QED BY <1>1, <2>1, <4>1
    <3> QED BY <3>1, <3>2
  <2> QED BY <2>2
<1>2. P(Genesis)
  <2>1. \A k \in 0 .. 0 : k = 0 OBVIOUS
  <2> QED BY <2>1 DEF TrustTreeAssumption
<1>3. 0 \in S
  <2>1. \A c \in Block : Height[c] = 0 => c = Genesis BY TreeIs
  <2> HIDE DEF P
  <2> QED BY <1>2, <1>n, <2>1
<1>4. ASSUME NEW n \in 1 .. N, n - 1 \in S PROVE n \in S
  <2>1. ASSUME NEW c \in Block, Height[c] = n PROVE P(c)
    <3>1. c # Genesis BY <2>1 DEF TrustTreeAssumption
    <3>2. Prev[c] \in Block /\ Height[Prev[c]] = n - 1 BY <2>1, <3>1 DEF TrustTreeAssumption
    <3>3. P(Prev[c]) BY <1>4, <3>2
    <3> QED BY <1>1, <3>1, <3>3
  <2> HIDE DEF P
  <2> QED BY <2>1
<1> HIDE DEF P
<1>5. N \in S
  <2> HIDE DEF S, N
  <2>1. \A n \in 0 .. N : n \in S BY <1>n, <1>3, <1>4, CountUp
  <2> QED BY <2>1, <1>n
<1>6. P(b) BY <1>5
<1> QED BY <1>6 DEF P

(* The smallest target of some blocks is a positive number. *)
LEMMA HardestIs ==
  ASSUME TrustTreeAssumption, NEW S \in SUBSET Block, S # {}
  PROVE  Hardest(S) \in Nat \ {0}
<1> DEFINE T == {Bits[a] : a \in S}
<1>1. T \in SUBSET Nat /\ T # {} /\ \A x \in T : x # 0 BY TreeIs
<1> HIDE DEF T
<1>2. PICK m \in T : \A n \in T : m <= n BY <1>1, Least
<1>3. Hardest(S) = CHOOSE x \in T : \A a \in S : x <= Bits[a] BY DEF Hardest, T
<1>4. \A a \in S : m <= Bits[a] BY <1>2 DEF T
<1>5. Hardest(S) \in T BY <1>2, <1>3, <1>4
<1> QED BY <1>1, <1>5

(* Where a base for b would be read: at a multiple of the window not       *)
(* ahead of b, so that there are blocks in the window before it.           *)
LEMMA BaseHeightIs ==
  ASSUME TrustTreeAssumption, NEW b \in Block, b \in Staking
  PROVE  /\ BaseHeight(b) \in Nat /\ BaseHeight(b) >= 2 * Window
         /\ BaseHeight(b) <= H(b) /\ H(b) < BaseHeight(b) + Window
         /\ BaseWindow(Prev[b], BaseHeight(b)) = OwnWindow(b, BaseHeight(b))
         /\ OwnBase(b, BaseHeight(b)) \in Nat \ {0}
<1>0. H(b) \in Nat /\ Window \in Nat \ {0} /\ H(b) >= 2 * Window /\ Prev[b] \in Block /\ b # Genesis
      /\ Height[b] = H(b) + 1
  BY TreeIs
<1> DEFINE q == H(b) \div Window
<1>1. q \in Nat /\ Window * q <= H(b) /\ H(b) < Window * q + Window
  <2>1. \A x \in Nat, w \in Nat \ {0} : x \div w \in Nat /\ w * (x \div w) <= x /\ x < w * (x \div w) + w
    OBVIOUS
  <2> QED BY <1>0, <2>1
<1>2. q >= 2
  <2>1. \A x \in Nat, y \in Nat, w \in Nat \ {0} : y < 2 /\ x < w * y + w => x < 2 * w
    <3>1. SUFFICES ASSUME NEW x \in Nat, NEW y \in Nat, NEW w \in Nat \ {0}, y < 2, x < w * y + w
          PROVE x < 2 * w OBVIOUS
    <3>2. CASE y = 0 BY <3>1, <3>2
    <3>3. CASE y = 1 BY <3>1, <3>3
    <3> QED BY <3>1, <3>2, <3>3
  <2> QED BY <1>0, <1>1, <2>1
<1>3. BaseHeight(b) = Window * q BY DEF BaseHeight, H
<1>4. Window * q \in Nat /\ Window * q >= 2 * Window
  <2>1. \A y \in Nat, w \in Nat \ {0} : y >= 2 => w * y \in Nat /\ w * y >= 2 * w
    <3>1. SUFFICES ASSUME NEW y \in Nat, NEW w \in Nat \ {0}, y >= 2
          PROVE w * y \in Nat /\ w * y >= 2 * w OBVIOUS
    <3>2. PICK z \in Nat : y = z + 2 BY <3>1, y - 2 \in Nat
    <3>3. w * y = w * z + 2 * w /\ w * z \in Nat BY <3>2
    <3> QED BY <3>3
  <2> QED BY <1>0, <1>1, <1>2, <2>1
<1>5. BaseWindow(Prev[b], BaseHeight(b)) = OwnWindow(b, BaseHeight(b))
  <2>1. Chain[b] = Chain[Prev[b]] \cup {b} BY <1>0 DEF TrustTreeAssumption
  <2>2. ~(Height[b] <= BaseHeight(b) - Window) BY <1>0, <1>1, <1>3, <1>4
  <2> QED BY <2>1, <2>2 DEF BaseWindow, OwnWindow
<1>6. OwnBase(b, BaseHeight(b)) \in Nat \ {0}
  <2> DEFINE h == BaseHeight(b)
  <2>1. h - Window \in 0 .. Height[b] BY <1>0, <1>1, <1>3, <1>4
  <2>2. PICK a \in Chain[b] : Height[a] = h - Window BY <2>1, BranchComplete
  <2>3. a \in OwnWindow(b, h) BY <2>2, <1>0, <1>3, <1>4 DEF OwnWindow
  <2>4. OwnWindow(b, h) \in SUBSET Block BY BranchIs DEF OwnWindow
  <2> HIDE DEF h
  <2> QED BY <2>3, <2>4, HardestIs DEF OwnBase, h
<1> QED BY <1>1, <1>3, <1>4, <1>5, <1>6

(* Where two branches have not parted long ago both read the same base. *)
LEMMA SameBase ==
  ASSUME TrustTreeAssumption, NEW b \in Block, b \in Staking, Shallow(b),
         NEW c \in Stakes, c \in Block, c \in Staking, NEW h \in Nat, h <= H(b), h <= H(c)
  PROVE  OwnBase(b, h) = OwnBase(c, h)
<1>0. /\ Height[b] \in Nat /\ Height[c] \in Nat /\ h < Height[b] /\ h < Height[c] /\ Window \in Nat
  BY TreeIs
<1> DEFINE Far(x) == x \in Block /\ Height[x] \in Nat /\ Height[x] <= h - Window
<1>1. ASSUME NEW x, Far(x) PROVE x \in Chain[b] <=> x \in Chain[c]
  <2>1. Height[x] + Window < Height[b] /\ Height[x] + Window < Height[c] /\ Height[x] \in Nat
    BY <1>0, <1>1
  <2>2. /\ ~(Height[x] + Window >= Height[b]) /\ ~(Height[x] + Window >= Height[c]) BY <1>0, <2>1
  <2> QED BY <2>2 DEF Shallow
<1>2. ASSUME NEW x PROVE x \in OwnWindow(b, h) <=> x \in OwnWindow(c, h)
  <2>1. ASSUME NEW d \in {b, c}, x \in OwnWindow(d, h) PROVE Far(x)
    BY <2>1, BranchIs, TreeIs DEF OwnWindow
  <2>2. x \in OwnWindow(b, h) => x \in OwnWindow(c, h) BY <1>1, <2>1 DEF OwnWindow
  <2>3. x \in OwnWindow(c, h) => x \in OwnWindow(b, h) BY <1>1, <2>1 DEF OwnWindow
  <2> QED BY <2>2, <2>3
<1>3. OwnWindow(b, h) = OwnWindow(c, h) BY <1>2
<1> QED BY <1>3 DEF OwnBase

(* The blocks below a steady block are steady. *)
LEMMA SteadyPrev ==
  ASSUME TrustTreeAssumption, TrustTypeOK, NEW b \in Block \ {Genesis}, Steady(b)
  PROVE  Steady(Prev[b])
<1>1. /\ Prev[b] \in Block /\ Height[b] = Height[Prev[b]] + 1 /\ Height[Prev[b]] \in Nat
      /\ Chain[b] = Chain[Prev[b]] \cup {b} /\ Window \in Nat /\ Height[b] \in Nat
  BY TreeIs DEF TrustTreeAssumption, H
<1>2. Chain[Prev[b]] \cap late = {} BY <1>1 DEF Steady
<1>3. ASSUME NEW a \in gaps PROVE Height[Prev[b]] < Height[a]
  <2>1. a \in Block /\ Height[b] < Height[a] BY <1>3 DEF Steady, TrustTypeOK
  <2> QED BY <1>1, <2>1, TreeIs
<1>4. ASSUME NEW a \in Stakes, NEW c \in (Chain[a] \ Chain[Prev[b]]) \cup (Chain[Prev[b]] \ Chain[a])
      PROVE  Height[c] + Window >= Height[a] \/ Height[c] + Window >= Height[Prev[b]]
  <2>1. CASE c = b BY <1>1, <2>1
  <2>2. CASE c # b
    <3>1. c \in (Chain[a] \ Chain[b]) \cup (Chain[b] \ Chain[a]) BY <1>1, <1>4, <2>2
    <3>2. Height[c] + Window >= Height[a] \/ Height[c] + Window >= Height[b]
      BY <3>1 DEF Steady, Shallow
    <3>3. a \in Block BY DEF Stakes, TrustTypeOK
    <3>4. c \in Block /\ Height[c] \in Nat BY <1>1, <1>4, <3>3, BranchIs, TreeIs
    <3> QED BY <1>1, <3>2, <3>4
  <2> QED BY <2>1, <2>2
<1> QED BY <1>2, <1>3, <1>4 DEF Steady, Shallow

(* What is steady was so before. *)
LEMMA SteadyBefore ==
  ASSUME Stakes \subseteq Stakes', late \subseteq late', gaps \subseteq gaps', NEW b, Steady(b)'
  PROVE  Steady(b)
<1>1. Shallow(b)' => Shallow(b) BY DEF Shallow
<1> QED BY <1>1 DEF Steady

---------------------------------------------------------------------------
(* The trust of the old chain *)

(* OldTrust is well defined: Iterated gives the trust of the blocks below  *)
(* any height, and no old block is higher than the best one.               *)
LEMMA OldTrustIs ==
  ASSUME TrustTreeAssumption, NEW top \in Old, \A a \in Old : Height[a] <= Height[top]
  PROVE  /\ OldTrust \in [Old -> Nat]
         /\ \A b \in Old : OldTrust[b] =
              TrustBase \div (Bits[b] + 1) + IF b = Genesis THEN 0 ELSE OldTrust[Prev[b]]
<1> DEFINE part(b) == TrustBase \div (Bits[b] + 1)
           E(w) == [b \in Old |-> part(b) + IF b = Genesis THEN 0 ELSE w[Prev[b]]]
           W == [Old -> Nat]
           zero == [b \in Old |-> 0]
           N == Height[top] + 2
           G == [p \in (1 .. N) \X W |-> E(p[2])]
<1>0. /\ N \in Nat /\ N - 1 \in 1 .. N /\ N - 2 \in 0 .. N
      /\ \A b \in Old : part(b) \in Nat /\ Height[b] \in 0 .. (N - 2) /\ (Height[b] = 0 => b = Genesis)
      /\ \A b \in Old \ {Genesis} : Prev[b] \in Old /\ Height[b] = Height[Prev[b]] + 1
  <2>1. Old \subseteq Block BY DEF TrustTreeAssumption
  <2>2. Height[top] \in Nat BY <2>1, TreeIs
  <2>3. ASSUME NEW b \in Old PROVE part(b) \in Nat
    <3>1. \A x \in Nat, y \in Nat \ {0} : x \div (y + 1) \in Nat OBVIOUS
    <3> QED BY <2>1, <3>1, TreeIs
  <2>4. ASSUME NEW b \in Old PROVE Height[b] \in 0 .. (N - 2) /\ (Height[b] = 0 => b = Genesis)
    <3>1. Height[b] \in Nat /\ Height[b] <= Height[top] BY <2>1, TreeIs
    <3>2. Height[b] = 0 => b = Genesis BY <2>1, TreeIs
    <3> QED BY <2>2, <3>1, <3>2
  <2>5. \A b \in Old \ {Genesis} : Prev[b] \in Old /\ Height[b] = Height[Prev[b]] + 1
    BY <2>1 DEF TrustTreeAssumption
  <2> HIDE DEF part
  <2> QED BY <2>2, <2>3, <2>4, <2>5
<1> HIDE DEF part, N
<1>h. N \in Nat /\ \A b \in Old : Height[b] \in Nat /\ Height[b] <= N BY <1>0
<1>p. /\ \A b \in Old : part(b) \in Nat
      /\ \A b \in Old \ {Genesis} : Prev[b] \in Old /\ Height[b] = Height[Prev[b]] + 1
  BY <1>0
<1>1. \A w \in W : E(w) \in W BY <1>0
<1>2. zero \in W /\ G \in [(1 .. N) \X W -> W] BY <1>1
<1>3. PICK f \in [0 .. N -> W] : f[0] = zero /\ \A n \in 1 .. N : f[n] = G[<<n, f[n - 1]>>]
  <2> HIDE DEF G, W, zero
  <2>1. N \in Nat BY <1>0
  <2>2. HasCourse(N, W, zero, G) BY <2>1, <1>2, Iterated
  <2> QED BY <2>2 DEF HasCourse
<1>4. \A n \in 1 .. N : f[n] = E(f[n - 1])
  <2>1. \A n \in 1 .. N : n - 1 \in 0 .. N BY <1>0
  <2> HIDE DEF E
  <2> QED BY <1>3, <2>1
<1> DEFINE S == {n \in 0 .. N : n >= 1 => \A b \in Old : Height[b] <= n - 2 => f[n][b] = f[n - 1][b]}
<1>5. 0 \in S BY <1>0
<1>6. ASSUME NEW n \in 1 .. N, n - 1 \in S PROVE n \in S
  <2>1. ASSUME NEW b \in Old, Height[b] <= n - 2 PROVE f[n][b] = f[n - 1][b]
    <3>0. n \in Nat /\ N \in Nat /\ 1 <= n /\ n <= N /\ Height[b] \in Nat /\ Height[b] <= n - 2 BY <2>1, <1>h
    <3>1. n - 1 \in 1 .. N /\ n - 2 \in 0 .. N /\ n \in Nat /\ Height[b] \in Nat BY <3>0
    <3>2. f[n] = E(f[n - 1]) /\ f[n - 1] = E(f[n - 2])
      <4>1. n - 1 - 1 = n - 2 BY <3>1
      <4> HIDE DEF E
      <4> QED BY <1>4, <3>1, <4>1
    <3>3. /\ f[n][b] = part(b) + IF b = Genesis THEN 0 ELSE f[n - 1][Prev[b]]
          /\ f[n - 1][b] = part(b) + IF b = Genesis THEN 0 ELSE f[n - 2][Prev[b]]
      BY <3>2
    <3>4. b # Genesis => f[n - 1][Prev[b]] = f[n - 2][Prev[b]]
      <4>1. SUFFICES ASSUME b # Genesis PROVE f[n - 1][Prev[b]] = f[n - 2][Prev[b]] OBVIOUS
      <4>2. Prev[b] \in Old /\ Height[b] = Height[Prev[b]] + 1 /\ Height[Prev[b]] \in Nat BY <1>0, <4>1
      <4>3. Height[Prev[b]] <= (n - 1) - 2 BY <2>1, <3>1, <4>2
      <4>4. f[n - 1][Prev[b]] = f[(n - 1) - 1][Prev[b]] BY <1>6, <3>1, <4>2, <4>3
      <4>5. (n - 1) - 1 = n - 2 BY <3>1
      <4> QED BY <4>4, <4>5
    <3> QED BY <3>3, <3>4
  <2> QED BY <2>1, <1>0
<1>7. N \in S
  <2> HIDE DEF S
  <2>1. \A n \in 0 .. N : n \in S BY <1>0, <1>5, <1>6, CountUp
  <2> QED BY <2>1, <1>0
<1>8. f[N] = E(f[N]) /\ f[N] \in W
  <2>1. f[N] \in W /\ f[N - 1] \in W /\ N >= 1 /\ N \in 1 .. N BY <1>0, <1>3
  <2>2. \A b \in Old : f[N][b] = f[N - 1][b] BY <1>7, <1>0, <2>1
  <2>3. f[N] = f[N - 1] BY <2>1, <2>2
  <2>4. f[N] = E(f[N - 1]) BY <1>4, <2>1
  <2> HIDE DEF E, W
  <2> QED BY <2>1, <2>3, <2>4
<1>9. OldTrust = [b \in Old |-> part(b) + IF b = Genesis THEN 0 ELSE OldTrust[Prev[b]]]
  <2>1. \E w : w = [b \in Old |-> TrustBase \div (Bits[b] + 1) + IF b = Genesis THEN 0 ELSE w[Prev[b]]]
    BY <1>8 DEF part
  <2> QED BY <2>1 DEF OldTrust, part
<1>10. OldTrust \in [Old -> Nat] 
  <2> DEFINE Q == {n \in 0 .. N : \A b \in Old : Height[b] <= n => OldTrust[b] \in Nat}
  <2>1. \A b \in Old : OldTrust[b] = part(b) + IF b = Genesis THEN 0 ELSE OldTrust[Prev[b]] BY <1>9
  <2>2. 0 \in Q
    <3>1. \A b \in Old : Height[b] <= 0 => b = Genesis BY <1>0
    <3> QED BY <2>1, <3>1, <1>0
  <2>3. ASSUME NEW n \in 1 .. N, n - 1 \in Q PROVE n \in Q
    <3>1. ASSUME NEW b \in Old, Height[b] <= n PROVE OldTrust[b] \in Nat
      <4>1. CASE b = Genesis BY <2>1, <4>1, <1>0
      <4>2. CASE b # Genesis
        <5>0. Prev[b] \in Old /\ Height[b] = Height[Prev[b]] + 1 /\ Height[Prev[b]] \in Nat /\ n \in Nat
          BY <1>h, <1>p, <4>2
        <5>1. Prev[b] \in Old /\ Height[Prev[b]] <= n - 1 BY <5>0, <3>1
        <5>2. OldTrust[Prev[b]] \in Nat BY <2>3, <5>1
        <5> QED BY <2>1, <4>2, <5>2, <1>p
      <4> QED BY <4>1, <4>2
    <3> QED BY <3>1
  <2>4. N \in Q
    <3> HIDE DEF Q
    <3>1. \A n \in 0 .. N : n \in Q BY <1>0, <2>2, <2>3, CountUp
    <3> QED BY <3>1, <1>0
  <2>5. \A b \in Old : OldTrust[b] \in Nat BY <2>4, <1>h
  <2> QED BY <1>9, <2>5
<1> QED BY <1>9, <1>10 DEF part

---------------------------------------------------------------------------
(* The base *)

LEMMA StakesAre ==
  ASSUME TrustTypeOK, TrustTreeAssumption
  PROVE  /\ \A b \in Stakes : b \in Block /\ b \in Staking /\ b \in mapBlockIndex /\ H(b) \in Nat /\ b # Genesis
         /\ mapBlockIndex \subseteq Block
BY TreeIs DEF Stakes, Staking, TrustTypeOK

(* The base a stake block gets. *)
LEMMA ModTrustIs ==
  ASSUME TrustTreeAssumption, TrustTypeOK, Kept, NEW b \in Block, b \in Staking
  PROVE  /\ ModTrust(b) = <<ModTrust(b)[1], ModTrust(b)[2]>>
         /\ ModTrust(b)[1] \in Nat /\ ModTrust(b)[2] \in Nat \ {0}
         /\ ModTrust(b)[1] + Window >= H(b)
         /\ \E c \in Stakes \cup {b} : /\ ModTrust(b)[1] = BaseHeight(c)
                                       /\ ModTrust(b)[2] = OwnBase(c, BaseHeight(c))
<1>0. H(b) \in Nat /\ Window \in Nat \ {0} BY TreeIs
<1>1. CASE Refreshes(b)
  <2>1. ModTrust(b) = <<BaseHeight(b), Hardest(BaseWindow(Prev[b], BaseHeight(b)))>>
    BY <1>1 DEF ModTrust, Staking
  <2>2. ModTrust(b) = <<BaseHeight(b), OwnBase(b, BaseHeight(b))>>
    BY <2>1, BaseHeightIs DEF OwnBase
  <2>3. ModTrust(b)[1] = BaseHeight(b) /\ ModTrust(b)[2] = OwnBase(b, BaseHeight(b)) BY <2>2
  <2> HIDE DEF ModTrust
  <2> QED BY <2>2, <2>3, <1>0, BaseHeightIs
<1>2. CASE ~Refreshes(b)
  <2>1. ModTrust(b) = <<nBaseStakeTrustHeight, nBaseStakeTrust>> BY <1>2 DEF ModTrust
  <2>2. nBaseStakeTrust # 0 /\ H(b) <= nBaseStakeTrustHeight + Window
        /\ nBaseStakeTrust \in Nat /\ nBaseStakeTrustHeight \in Nat
    BY <1>0, <1>2 DEF Refreshes, H, TrustTypeOK
  <2>3. PICK c \in Stakes : /\ nBaseStakeTrustHeight = BaseHeight(c)
                            /\ nBaseStakeTrust = OwnBase(c, BaseHeight(c))
    BY <2>2 DEF Kept
  <2>4. ModTrust(b)[1] = nBaseStakeTrustHeight /\ ModTrust(b)[2] = nBaseStakeTrust BY <2>1
  <2> QED BY <2>1, <2>2, <2>3, <2>4
<1> QED BY <1>1, <1>2

(* Its height follows from that of the base before. *)
LEMMA ModTrustHeight ==
  ASSUME NEW b \in Staking
  PROVE  /\ nBaseStakeTrust = 0 => ModTrust(b)[1] = Multiple(H(b))
         /\ nBaseStakeTrust # 0 => ModTrust(b)[1] = NextHeight(H(b), nBaseStakeTrustHeight)
BY DEF ModTrust, Staking, Refreshes, BaseHeight, Multiple, NextHeight, H

(* What a block weighs. *)
LEMMA BlockTrustIs ==
  ASSUME TrustTreeAssumption, TrustTypeOK, Kept, NEW b \in Block, NEW isNew \in BOOLEAN
  PROVE  /\ GetBlockTrust(b, isNew) \in Nat
         /\ ~(isNew /\ IsLate(b)) =>
              GetBlockTrust(b, isNew) = TrustBase \div (Bits[b] + 1)
                + IF b \in Staking THEN TrustBase \div ModTrust(b)[2] ELSE 0
<1>1. \A x \in Nat, y \in Nat \ {0} : x \div (y + 1) \in Nat /\ x \div y \in Nat /\ 10 * y \in Nat \ {0} OBVIOUS
<1>2. TrustBase \in Nat /\ Bits[b] \in Nat \ {0} BY TreeIs
<1>3. b \in Staking => ModTrust(b)[2] \in Nat \ {0} BY ModTrustIs
<1> DEFINE target == IF b \notin Old /\ isNew /\ IsLate(b) THEN 10 * Bits[b] ELSE Bits[b]
           stake  == IF b \in Stake \ Old THEN TrustBase \div ModTrust(b)[2] ELSE 0
<1>4. GetBlockTrust(b, isNew) = TrustBase \div (target + 1) + stake BY DEF GetBlockTrust
<1>5. target \in Nat \ {0} BY <1>1, <1>2
<1>6. stake \in Nat BY <1>1, <1>2, <1>3 DEF Staking
<1>7. TrustBase \div (target + 1) \in Nat
  <2> HIDE DEF target
  <2> QED BY <1>1, <1>2, <1>5
<1>8. GetBlockTrust(b, isNew) \in Nat
  <2> HIDE DEF target, stake
  <2> QED BY <1>4, <1>6, <1>7
<1>9. ~(isNew /\ IsLate(b)) => target = Bits[b] OBVIOUS
<1>10. stake = IF b \in Staking THEN TrustBase \div ModTrust(b)[2] ELSE 0 BY DEF Staking
<1> QED
  <2> HIDE DEF target, stake
  <2> QED BY <1>4, <1>8, <1>9, <1>10

(* Weighing a block: the base stays one of a branch, in whatever order the *)
(* blocks come.                                                            *)
LEMMA WeighKeeps ==
  ASSUME TrustTreeAssumption, TrustTypeOK, Kept, Own,
         NEW b \in Block, NEW isNew \in BOOLEAN, Weigh(b, isNew),
         mapBlockIndex' = mapBlockIndex \cup {b}
  PROVE  /\ nChainTrust' \in [Block -> Nat]
         /\ nBaseStakeTrust' \in Nat /\ nBaseStakeTrustHeight' \in Nat
         /\ baseOf' \in [Block -> (Nat \X Nat) \cup {NoBase}]
         /\ Kept' /\ Own'
<1>0. /\ nChainTrust \in [Block -> Nat] /\ nBaseStakeTrust \in Nat /\ nBaseStakeTrustHeight \in Nat
      /\ baseOf \in [Block -> (Nat \X Nat) \cup {NoBase}]
  BY DEF TrustTypeOK
<1>1. nChainTrust' \in [Block -> Nat]
  <2>1. (IF b = Genesis THEN 0 ELSE nChainTrust[Prev[b]]) \in Nat BY <1>0, TreeIs
  <2>2. GetBlockTrust(b, isNew) \in Nat BY BlockTrustIs
  <2> QED BY <1>0, <2>1, <2>2 DEF Weigh
<1>2. CASE b \in Staking
  <2> DEFINE m == ModTrust(b)
  <2>1. /\ nBaseStakeTrustHeight' = m[1] /\ nBaseStakeTrust' = m[2] /\ baseOf' = [baseOf EXCEPT ![b] = m]
    BY <1>2 DEF Weigh, Staking
  <2>2. /\ m = <<m[1], m[2]>> /\ m[1] \in Nat /\ m[2] \in Nat \ {0} /\ m[1] + Window >= H(b)
    BY <1>2, ModTrustIs
  <2>3. PICK c \in Stakes \cup {b} : m[1] = BaseHeight(c) /\ m[2] = OwnBase(c, BaseHeight(c))
    BY <1>2, ModTrustIs
  <2> HIDE DEF m
  <2>4. m \in Nat \X (Nat \ {0}) /\ m \in Nat \X Nat BY <2>2
  <2>5. Stakes' = Stakes \cup {b} BY <1>2 DEF Stakes, Staking
  <2>6. Kept' BY <2>1, <2>3, <2>5 DEF Kept, BaseHeight, OwnBase, OwnWindow
  <2>7. Own'
    <3>1. /\ \A x \in Block : x # b => baseOf'[x] = baseOf[x]
          /\ baseOf'[b] = m
      BY <1>0, <2>1
    <3>2. \A x \in Block \ Stakes' : baseOf'[x] = NoBase BY <2>5, <3>1 DEF Own
    <3>3. ASSUME NEW x \in Stakes'
          PROVE  /\ baseOf'[x] \in Nat \X (Nat \ {0}) /\ baseOf'[x][1] + Window >= H(x)
                 /\ \E d \in Stakes' : /\ baseOf'[x][1] = BaseHeight(d)
                                        /\ baseOf'[x][2] = OwnBase(d, BaseHeight(d))
      <4>1. CASE x = b BY <2>2, <2>3, <2>4, <2>5, <3>1, <4>1
      <4>2. CASE x # b
        <5>1. x \in Stakes /\ x \in Block /\ baseOf'[x] = baseOf[x] BY <2>5, <3>1, <4>2, StakesAre
        <5>2. PICK d \in Stakes : /\ baseOf[x][1] = BaseHeight(d)
                                  /\ baseOf[x][2] = OwnBase(d, BaseHeight(d))
          BY <5>1 DEF Own
        <5> QED BY <2>5, <5>1, <5>2 DEF Own
      <4> QED BY <4>1, <4>2
    <3> QED BY <3>2, <3>3 DEF Own, H, BaseHeight, OwnBase, OwnWindow
  <2> QED BY <1>0, <1>1, <2>1, <2>2, <2>4, <2>6, <2>7
<1>3. CASE b \notin Staking
  <2>1. ModTrust(b) = <<nBaseStakeTrustHeight, nBaseStakeTrust>> BY <1>3 DEF ModTrust, Staking
  <2>2. nBaseStakeTrustHeight' = nBaseStakeTrustHeight /\ nBaseStakeTrust' = nBaseStakeTrust /\ baseOf' = baseOf
    BY <1>3, <2>1 DEF Weigh, Staking
  <2>3. Stakes' = Stakes BY <1>3 DEF Stakes, Staking
  <2>4. Kept' BY <2>2, <2>3 DEF Kept, BaseHeight, OwnBase, OwnWindow
  <2>5. Own' BY <2>2, <2>3 DEF Own, H, BaseHeight, OwnBase, OwnWindow
  <2> QED BY <1>0, <1>1, <2>2, <2>4, <2>5
<1> QED BY <1>2, <1>3

---------------------------------------------------------------------------
(* The blocks in order *)

(* A block that is not ahead of its base was weighed with the base of its  *)
(* own branch.                                                             *)
LEMMA OwnShallow ==
  ASSUME TrustTreeAssumption, TrustTypeOK, Own, NEW b \in Stakes, Shallow(b), baseOf[b][1] <= H(b)
  PROVE  baseOf[b][2] = OwnBase(b, baseOf[b][1])
<1>1. PICK c \in Stakes : baseOf[b][1] = BaseHeight(c) /\ baseOf[b][2] = OwnBase(c, BaseHeight(c))
  BY DEF Own
<1>2. BaseHeight(c) \in Nat /\ BaseHeight(c) <= H(c) BY StakesAre, BaseHeightIs
<1> QED BY <1>1, <1>2, StakesAre, SameBase

(* A pass by height gives a block the base of its height. *)
LEMMA PassHeight ==
  ASSUME TrustTreeAssumption, TrustTypeOK, Indexed, NEW e, Steps(e, Low), Current(e),
         NEW b \in toLoad, b \in Staking, \A a \in toLoad : Height[b] <= Height[a], H(b) \in Low
  PROVE  ModTrust(b)[1] = e[H(b)]
<1>0. b \in Stakes /\ b \in Block /\ H(b) \in Nat /\ Height[b] = H(b) + 1
  <2>1. b \in Stakes BY DEF Stakes, Staking, TrustTypeOK
  <2> QED BY <2>1, StakesAre, TreeIs
<1>1. ASSUME NEW d \in Stakes, H(d) < H(b) PROVE d \in Weighed
  <2>1. Height[d] < Height[b] /\ Height[d] \in Nat BY <1>0, <1>1, StakesAre, TreeIs
  <2>2. d \notin toLoad BY <2>1, <1>0
  <2> QED BY <1>1, <2>2, StakesAre DEF Weighed
<1>2. ASSUME NEW d \in Stakes, d \in Weighed PROVE H(d) <= H(b) /\ H(d) \in Nat
  <2>1. Height[d] <= Height[b] BY <1>2 DEF Indexed
  <2> QED BY <2>1, <1>0, <1>2, StakesAre, TreeIs
<1>3. CASE Stakes \cap Weighed = {} /\ nBaseStakeTrust = 0
  <2>1. ASSUME NEW l \in Low PROVE ~(l < H(b)) BY <1>1, <1>3 DEF Low
  <2>2. e[H(b)] = Multiple(H(b)) BY <2>1 DEF Steps
  <2> QED BY <1>3, <2>2, ModTrustHeight
<1>4. ASSUME NEW c \in Stakes \cap Weighed, \A d \in Stakes \cap Weighed : H(d) <= H(c),
             H(c) \in Low => nBaseStakeTrust # 0 /\ nBaseStakeTrustHeight = e[H(c)]
      PROVE  ModTrust(b)[1] = e[H(b)]
  <2>0. H(c) \in Nat /\ H(c) <= H(b) BY <1>2
  <2>1. H(c) \in Low
    <3>1. \A y \in gaps : H(b) < H(y) /\ H(y) \in Nat
      <4>1. PICK x \in Stakes : H(x) = H(b) /\ \A y \in gaps : H(x) < H(y) BY DEF Low
      <4> QED BY <4>1, StakesAre DEF Indexed
    <3>2. \A y \in gaps : H(c) < H(y) BY <1>0, <2>0, <3>1
    <3> QED BY <3>2 DEF Low
  <2>2. ModTrust(b)[1] = NextHeight(H(b), e[H(c)]) BY <1>4, <2>1, ModTrustHeight
  <2>3. e[H(c)] \in Nat /\ H(c) <= e[H(c)] + Window /\ Window \in Nat BY <2>1, TreeIs, <1>0 DEF Steps
  <2>4. CASE H(b) = H(c) BY <2>0, <2>2, <2>3, <2>4 DEF NextHeight
  <2>5. CASE H(b) # H(c)
    <3>1. H(c) < H(b) BY <1>0, <2>0, <2>5
    <3>2. ASSUME NEW l \in Low, l < H(b) PROVE l <= H(c) BY <1>1, <1>4, <3>2 DEF Low
    <3>3. NextBelow(H(c), H(b), Low) BY <2>1, <3>1, <3>2 DEF NextBelow
    <3>4. e[H(b)] = NextHeight(H(b), e[H(c)]) BY <2>1, <3>3 DEF Steps
    <3> QED BY <2>2, <3>4
  <2> QED BY <2>4, <2>5
<1> QED BY <1>3, <1>4 DEF Current

(* A steady stake block is below the gaps. *)
LEMMA SteadyLow ==
  ASSUME TrustTreeAssumption, TrustTypeOK, Indexed, NEW b \in Stakes, Steady(b)
  PROVE  H(b) \in Low /\ b \notin late
<1>1. b \in Block /\ b # Genesis /\ H(b) \in Nat /\ Height[b] = H(b) + 1 BY StakesAre, TreeIs
<1>2. ASSUME NEW y \in gaps PROVE H(b) < H(y)
  <2>1. y \in Stakes /\ Height[b] < Height[y] BY <1>2 DEF Indexed, Steady
  <2>2. H(y) \in Nat /\ Height[y] = H(y) + 1 BY <2>1, StakesAre, TreeIs
  <2> QED BY <1>1, <2>1, <2>2
<1>3. b \in Chain[b] BY <1>1 DEF TrustTreeAssumption
<1> QED BY <1>2, <1>3 DEF Low, Steady

(* A start weighs a steady block with the base it had. *)
LEMMA LoadedAgain ==
  ASSUME TrustTreeAssumption, TrustInv, NEW b \in toLoad, b \in Staking, Steady(b),
         \A a \in toLoad : Height[b] <= Height[a]
  PROVE  ModTrust(b) = baseOf[b]
<1> USE DEF TrustInv
<1>0. b \in Stakes /\ b \in Block /\ H(b) \in Nat /\ baseOf[b] \in Nat \X (Nat \ {0}) /\ Shallow(b)
  <2>1. b \in Stakes BY DEF Stakes, Staking, TrustTypeOK
  <2> QED BY <2>1, StakesAre DEF Own, Steady
<1>1. H(b) \in Low /\ b \notin late BY <1>0, SteadyLow
<1>2. PICK e : Steps(e, Low) /\ InStep(e) /\ Current(e) BY DEF Ordered
<1>3. ModTrust(b)[1] = e[H(b)] BY <1>0, <1>1, <1>2, PassHeight
<1>4. baseOf[b][1] = e[H(b)] BY <1>0, <1>1, <1>2 DEF InStep
<1>5. e[H(b)] <= H(b) /\ e[H(b)] \in Nat BY <1>1, <1>2 DEF Steps
<1>6. baseOf[b][2] = OwnBase(b, e[H(b)]) BY <1>0, <1>4, <1>5, OwnShallow
<1>7. ModTrust(b)[2] = OwnBase(b, e[H(b)])
  <2>1. PICK c \in Stakes : ModTrust(b)[1] = BaseHeight(c) /\ ModTrust(b)[2] = OwnBase(c, BaseHeight(c))
    BY <1>0, ModTrustIs
  <2>2. BaseHeight(c) \in Nat /\ BaseHeight(c) <= H(c) BY StakesAre, BaseHeightIs
  <2> QED BY <1>0, <1>3, <1>5, <2>1, <2>2, StakesAre, SameBase
<1>8. ModTrust(b) = <<ModTrust(b)[1], ModTrust(b)[2]>> BY <1>0, ModTrustIs
<1> QED BY <1>0, <1>3, <1>4, <1>6, <1>7, <1>8

(* The lower ones of some heights take the same steps, ... *)
LEMMA StepsBelow ==
  ASSUME NEW S, NEW T, T \subseteq S, \A t \in T, s \in S : s < t => s \in T, NEW e, Steps(e, S)
  PROVE  Steps(e, T)
BY DEF Steps, NextBelow

(* ... and a height above all takes the next one. *)
LEMMA StepsNext ==
  ASSUME NEW S \in SUBSET Nat, NEW h \in Nat, \A l \in S : l < h, NEW e, Steps(e, S),
         NEW f, \A l \in S : f[l] = e[l],
         f[h] \in Nat, f[h] <= h, h <= f[h] + Window,
         S = {} => f[h] = Multiple(h),
         \A m \in S : (\A l \in S : l <= m) => f[h] = NextHeight(h, e[m])
  PROVE  Steps(f, S \cup {h})
<1> DEFINE T == S \cup {h}
<1>1. h \notin S /\ \A x \in S : f[x] = e[x] OBVIOUS
<1>2. \A x \in S : ~(h < x) /\ x # h OBVIOUS
<1>3. ASSUME NEW x \in S
      PROVE  /\ f[x] \in Nat /\ f[x] <= x /\ x <= f[x] + Window
             /\ (\A l \in T : ~(l < x)) => f[x] = Multiple(x)
             /\ \A m \in T : NextBelow(m, x, T) => f[x] = NextHeight(x, f[m])
  <2>1. /\ e[x] \in Nat /\ e[x] <= x /\ x <= e[x] + Window
        /\ (\A l \in S : ~(l < x)) => e[x] = Multiple(x)
        /\ \A m \in S : NextBelow(m, x, S) => e[x] = NextHeight(x, e[m])
    BY DEF Steps
  <2>2. ASSUME NEW m \in T, NextBelow(m, x, T) PROVE m \in S /\ NextBelow(m, x, S)
    BY <1>2, <2>2 DEF NextBelow
  <2>3. \A m \in T : NextBelow(m, x, T) => f[x] = NextHeight(x, f[m]) BY <1>1, <2>1, <2>2
  <2>4. (\A l \in T : ~(l < x)) => f[x] = Multiple(x) BY <1>1, <2>1
  <2> QED BY <1>1, <2>1, <2>3, <2>4
<1>4. /\ f[h] \in Nat /\ f[h] <= h /\ h <= f[h] + Window
      /\ (\A l \in T : ~(l < h)) => f[h] = Multiple(h)
      /\ \A m \in T : NextBelow(m, h, T) => f[h] = NextHeight(h, f[m])
  <2>1. (\A l \in T : ~(l < h)) => S = {} OBVIOUS
  <2>2. ASSUME NEW m \in T, NextBelow(m, h, T) PROVE m \in S /\ \A l \in S : l <= m
    BY <2>2 DEF NextBelow
  <2> QED BY <1>1, <2>1, <2>2
<1> QED BY <1>3, <1>4 DEF Steps

(* A new stake block, early or late, leaves the blocks in order. *)
LEMMA NewOrdered ==
  ASSUME TrustTreeAssumption, TrustTypeOK, Indexed, Kept, Ordered, toLoad = {},
         NEW b \in Block, b \in Staking, b \notin mapBlockIndex,
         Stakes' = Stakes \cup {b}, Stakes' \subseteq Weighed',
         late' = late \cup {x \in {b} : \E a \in mapBlockIndex : Height[a] > Height[b]},
         gaps' = gaps \cup {x \in ({b} \cap Stake) \ Old :
                              /\ \E a \in Stakes : Height[a] > Height[b]
                              /\ \A a \in Stakes : Height[a] # Height[b]},
         \A x \in Stakes : baseOf'[x] = baseOf[x], baseOf'[b] = ModTrust(b),
         nBaseStakeTrustHeight' = ModTrust(b)[1], nBaseStakeTrust' = ModTrust(b)[2]
  PROVE  Ordered'
<1> DEFINE k == ModTrust(b)[1]
<1>1. /\ b \in Block /\ b # Genesis /\ H(b) \in Nat /\ Height[b] = H(b) + 1 /\ Window \in Nat \ {0}
      /\ k \in Nat /\ ModTrust(b)[2] # 0 /\ k + Window >= H(b)
      /\ Multiple(H(b)) \in Nat /\ Multiple(H(b)) <= H(b) /\ H(b) < Multiple(H(b)) + Window
  <2>1. BaseHeight(b) = Multiple(H(b)) BY DEF BaseHeight, Multiple, H
  <2> QED BY <2>1, TreeIs, ModTrustIs, BaseHeightIs
<1>2. /\ nBaseStakeTrust = 0 => k = Multiple(H(b))
      /\ nBaseStakeTrust # 0 => k = NextHeight(H(b), nBaseStakeTrustHeight)
  BY ModTrustHeight
<1>3. /\ \A x \in Stakes : /\ x \in mapBlockIndex /\ x # b /\ x \in Block /\ x \in Weighed
                           /\ H(x) \in Nat /\ Height[x] = H(x) + 1
      /\ \A y \in gaps : y \in Stakes
      /\ b \notin late
      /\ Stakes \cap Weighed = Stakes /\ Stakes' \cap Weighed' = Stakes'
  BY StakesAre, TreeIs DEF Weighed, Indexed, TrustTypeOK
<1>4. PICK e : Steps(e, Low) /\ InStep(e) /\ Current(e) BY DEF Ordered
<1>5. Low \in SUBSET Nat /\ \A h \in Low : e[h] \in Nat /\ e[h] <= h /\ h <= e[h] + Window
  BY <1>3, <1>4 DEF Low, Steps
<1>6. Low' = {H(c) : c \in {x \in Stakes' : \A y \in gaps' : H(x) < H(y)}} BY DEF Low, H
<1>7. ASSUME NEW f, Steps(f, Low'), \A h \in Low' \cap Low : f[h] = e[h],
             H(b) \in Low' /\ b \notin late' => f[H(b)] = k,
             \E c \in Stakes' : /\ \A d \in Stakes' : H(d) <= H(c)
                                /\ H(c) \in Low' => nBaseStakeTrust' # 0 /\ nBaseStakeTrustHeight' = f[H(c)]
      PROVE  Ordered'
  <2>1. Steps(f, Low)' BY <1>7 DEF Steps, NextBelow, NextHeight, Multiple
  <2>2. InStep(f)'
    <3>1. SUFFICES ASSUME NEW x \in Stakes', x \notin late', H(x) \in Low' PROVE baseOf'[x][1] = f[H(x)]
      BY DEF InStep, H
    <3>2. CASE x = b BY <1>7, <3>1, <3>2
    <3>3. CASE x # b
      <4>1. x \in Stakes /\ x \notin late BY <3>1, <3>3
      <4>2. H(x) \in Low
        <5>1. \A y \in gaps : H(x) < H(y)
          <6>1. PICK z \in Stakes' : H(z) = H(x) /\ \A y \in gaps' : H(z) < H(y) BY <1>6, <3>1
          <6>2. gaps \subseteq gaps' OBVIOUS
          <6> QED BY <6>1, <6>2
        <5> QED BY <4>1, <5>1 DEF Low
      <4> QED BY <1>4, <1>7, <3>1, <4>1, <4>2 DEF InStep
    <3> QED BY <3>2, <3>3
  <2>3. Current(f)' BY <1>3, <1>7 DEF Current, H
  <2> QED BY <2>1, <2>2, <2>3 DEF Ordered
<1> HIDE DEF k
<1>8. CASE Stakes = {}
  <2>1. gaps = {} /\ gaps' = {} BY <1>3, <1>8
  <2>2. Low = {} /\ Low' = Low \cup {H(b)} BY <1>6, <1>8, <2>1 DEF Low
  <2>3. k = Multiple(H(b)) BY <1>2, <1>4, <1>8 DEF Current
  <2> DEFINE f == [x \in Low \cup {H(b)} |-> IF x \in Low THEN e[x] ELSE k]
  <2>4. f[H(b)] = k BY <2>2
  <2> HIDE DEF f
  <2>5. Steps(f, Low') BY <1>1, <1>4, <1>5, <2>2, <2>3, <2>4, StepsNext
  <2>6. /\ \A d \in Stakes' : H(d) <= H(b)
        /\ nBaseStakeTrust' # 0 /\ nBaseStakeTrustHeight' = f[H(b)]
    BY <1>1, <1>8, <2>4 DEF k
  <2> QED BY <1>7, <2>2, <2>4, <2>5, <2>6
<1>9. ASSUME NEW c \in Stakes, \A d \in Stakes : H(d) <= H(c),
             H(c) \in Low => nBaseStakeTrust # 0 /\ nBaseStakeTrustHeight = e[H(c)]
      PROVE  Ordered'
  <2>0. /\ H(c) \in Nat /\ nBaseStakeTrust' # 0 /\ nBaseStakeTrustHeight' = k
        /\ \A y \in gaps : H(y) <= H(c) /\ H(y) \in Nat
    BY <1>1, <1>3, <1>9 DEF k
  <2>1. H(c) \in Low => k = NextHeight(H(b), e[H(c)]) BY <1>2, <1>9
  <2>2. H(c) \in Low => gaps = {}
    <3>1. SUFFICES ASSUME NEW y \in gaps, H(c) \in Low PROVE FALSE OBVIOUS
    <3>2. PICK x \in Stakes : H(x) = H(c) /\ H(x) < H(y) BY <3>1 DEF Low
    <3> QED BY <2>0, <3>1, <3>2
  <2>3. CASE H(b) > H(c)
    <3>1. gaps' = gaps
      <4>1. \A a \in Stakes : ~(Height[a] > Height[b]) BY <1>1, <1>3, <1>9, <2>0, <2>3
      <4> QED BY <4>1
    <3>2. \A l \in Low : l <= H(c) /\ l < H(b)
      BY <1>1, <1>3, <1>9, <2>0, <2>3 DEF Low
    <3>3. \A d \in Stakes' : H(d) <= H(b) BY <1>1, <1>3, <1>9, <2>0, <2>3
    <3>4. CASE gaps = {}
      <4>1. H(c) \in Low /\ Low' = Low \cup {H(b)} BY <1>6, <3>1, <3>4 DEF Low
      <4> DEFINE f == [x \in Low \cup {H(b)} |-> IF x \in Low THEN e[x] ELSE k]
      <4>2. ASSUME NEW m \in Low, \A l \in Low : l <= m PROVE k = NextHeight(H(b), e[m])
        <5>1. m = H(c) BY <1>5, <2>0, <3>2, <4>1, <4>2
        <5> QED BY <2>1, <4>1, <5>1
      <4>3. k <= H(b)
        <5>1. e[H(c)] \in Nat /\ e[H(c)] <= H(c) BY <1>5, <4>1
        <5> QED BY <1>1, <2>0, <2>1, <2>3, <4>1, <5>1 DEF NextHeight
      <4>4. H(b) \notin Low BY <1>1, <3>2
      <4>5. f[H(b)] = k /\ \A l \in Low : f[l] = e[l] BY <4>1, <4>4
      <4> HIDE DEF f
      <4>6. Steps(f, Low')
        <5>1. f[H(b)] \in Nat /\ f[H(b)] <= H(b) /\ H(b) <= f[H(b)] + Window
          BY <1>1, <4>3, <4>5
        <5>2. Low # {} /\ (\A l \in Low : l < H(b)) BY <3>2, <4>1
        <5>3. \A m \in Low : (\A l \in Low : l <= m) => f[H(b)] = NextHeight(H(b), e[m])
          BY <4>2, <4>5
        <5>4. Steps(f, Low \cup {H(b)})
          <6>1. PICK S : S = Low OBVIOUS
          <6> QED BY <1>1, <1>4, <1>5, <4>5, <5>1, <5>2, <5>3, <6>1, StepsNext
        <5> QED BY <4>1, <5>4
      <4> QED BY <1>7, <2>0, <3>3, <4>5, <4>6
    <3>5. CASE gaps # {}
      <4>1. PICK y \in gaps : TRUE BY <3>5
      <4>2. ~(H(b) < H(y)) BY <1>1, <2>0, <2>3, <4>1
      <4>3. Low' = Low BY <1>6, <3>1, <4>1, <4>2 DEF Low
      <4>4. H(b) \notin Low BY <1>1, <3>2
      <4> QED BY <1>4, <1>7, <3>3, <4>3, <4>4
    <3> QED BY <3>4, <3>5
  <2>4. CASE H(b) <= H(c)
    <3>1. H(c) \in Low => k = e[H(c)] BY <1>1, <1>5, <2>0, <2>1, <2>4 DEF NextHeight
    <3>2. \A d \in Stakes' : H(d) <= H(c) BY <1>9, <2>4
    <3>3. H(b) # H(c) => b \in late'
      <4>1. H(b) # H(c) => Height[c] > Height[b] BY <1>1, <1>3, <2>0, <2>4
      <4> QED BY <1>3, <4>1
    <3>4. CASE \E a \in Stakes : Height[a] = Height[b]
      <4>1. PICK a \in Stakes : H(a) = H(b) BY <1>1, <1>3, <3>4
      <4>2. gaps' = gaps BY <3>4
      <4>3. Low' = Low BY <1>6, <4>1, <4>2 DEF Low
      <4>4. H(b) \in Low' /\ b \notin late' => e[H(b)] = k BY <3>1, <3>3, <4>3
      <4> QED BY <1>4, <1>7, <2>0, <3>1, <3>2, <4>3, <4>4
    <3>5. CASE \A a \in Stakes : Height[a] # Height[b]
      <4>1. H(b) < H(c) /\ Height[c] > Height[b] BY <1>1, <1>3, <2>0, <2>4, <3>5
      <4>2. b \in gaps' /\ gaps' = gaps \cup {b} BY <3>5, <4>1 DEF Staking
      <4>3. Low' \subseteq Low /\ (\A h \in Low' : h < H(b)) /\ \A l \in Low : l < H(b) => l \in Low'
        <5>1. \A x \in Stakes' : (\A y \in gaps' : H(x) < H(y)) => x \in Stakes /\ H(x) < H(b)
          BY <1>1, <4>2
        <5>2. Low' \subseteq Low /\ \A h \in Low' : h < H(b) BY <1>6, <4>2, <5>1 DEF Low
        <5>3. ASSUME NEW l \in Low, l < H(b) PROVE l \in Low'
          <6>1. PICK x \in Stakes : H(x) = l /\ \A y \in gaps : H(x) < H(y) BY <5>3 DEF Low
          <6>2. \A y \in gaps' : H(x) < H(y) BY <4>2, <5>3, <6>1
          <6> QED BY <1>6, <6>1, <6>2
        <5> QED BY <5>2, <5>3
      <4>4. \A t \in Low', s \in Low : s < t => s \in Low' BY <1>1, <1>5, <4>3
      <4>5. Steps(e, Low')
        <5>1. PICK T : T = Low' OBVIOUS
        <5> QED BY <1>4, <4>3, <4>4, <5>1, StepsBelow
      <4>6. H(c) \notin Low' /\ H(b) \notin Low' BY <1>1, <2>0, <4>1, <4>3
      <4> QED BY <1>7, <3>2, <4>5, <4>6
    <3> QED BY <3>4, <3>5
  <2> QED BY <1>1, <2>0, <2>3, <2>4
<1> QED BY <1>3, <1>4, <1>8, <1>9 DEF Current

---------------------------------------------------------------------------
(* The invariant *)

LEMMA TrustInvInit ==
  ASSUME TrustTreeAssumption, TrustInit
  PROVE  TrustInv
<1>1. PICK top \in Old : \A a \in Old : Height[a] <= Height[top] BY DEF TrustInit
<1>2. /\ OldTrust \in [Old -> Nat]
      /\ \A b \in Old : OldTrust[b] =
           TrustBase \div (Bits[b] + 1) + IF b = Genesis THEN 0 ELSE OldTrust[Prev[b]]
  BY <1>1, OldTrustIs
<1> HIDE DEF OldTrust
<1>3. /\ mapBlockIndex = Old /\ toLoad = {} /\ nBaseStakeTrust = 0 /\ nBaseStakeTrustHeight = 0
      /\ baseOf = [b \in Block |-> NoBase] /\ before = nChainTrust /\ pindexBest \in Old
      /\ nChainTrust = [b \in Block |-> IF b \in Old THEN OldTrust[b] ELSE 0]
      /\ late = {} /\ gaps = {} /\ restarts = 0
  BY DEF TrustInit
<1>4. Genesis \in Old /\ Old \subseteq Block /\ MaxRestarts \in Nat
      /\ \A b \in Old \ {Genesis} : Prev[b] \in Old
  BY DEF TrustTreeAssumption
<1>5. TrustTypeOK
  <2>1. nChainTrust \in [Block -> Nat] BY <1>2, <1>3
  <2>2. baseOf \in [Block -> (Nat \X Nat) \cup {NoBase}] BY <1>3
  <2>3. restarts \in 0 .. MaxRestarts
    <3>1. 0 \in 0 .. MaxRestarts BY <1>4
    <3> QED BY <1>3, <3>1
  <2> QED BY <1>3, <1>4, <2>1, <2>2, <2>3 DEF TrustTypeOK
<1>6. Stakes = {} BY <1>3 DEF Stakes
<1>7. Indexed BY <1>3, <1>4 DEF Indexed
<1>8. Kept /\ Own BY <1>3, <1>6 DEF Kept, Own
<1>9. Ordered
  <2>1. Low = {} BY <1>6 DEF Low
  <2> QED BY <1>3, <1>6, <2>1 DEF Ordered, Steps, InStep, Current
<1>10. Weights
  <2>1. ASSUME NEW b \in Old
        PROVE  before[b] = (IF b = Genesis THEN 0 ELSE before[Prev[b]]) + Weight(b)
    <3>1. Weight(b) = TrustBase \div (Bits[b] + 1) + 0 /\ TrustBase \div (Bits[b] + 1) \in Nat
      <4>1. \A x \in Nat, y \in Nat \ {0} : x \div (y + 1) \in Nat OBVIOUS
      <4> QED BY <1>4, <4>1, TreeIs DEF Weight, Staking
    <3>2. before[b] = OldTrust[b] /\ (b # Genesis => before[Prev[b]] = OldTrust[Prev[b]]) BY <1>3, <1>4
    <3>3. b # Genesis => OldTrust[Prev[b]] \in Nat BY <1>2, <1>4
    <3> QED BY <1>2, <3>1, <3>2, <3>3
  <2>2. \A b \in Weighed : nChainTrust[b] = before[b] BY <1>3
  <2> QED BY <1>3, <2>1, <2>2 DEF Weights
<1> QED BY <1>5, <1>7, <1>8, <1>9, <1>10 DEF TrustInv

LEMMA AddStep ==
  ASSUME TrustTreeAssumption, TrustInv, NEW b \in Block, AddToBlockIndex(b)
  PROVE  TrustInv'
<1> USE DEF TrustInv
<1>0. /\ toLoad = {} /\ toLoad' = {} /\ b \notin mapBlockIndex /\ Prev[b] \in mapBlockIndex
      /\ mapBlockIndex' = mapBlockIndex \cup {b} /\ Weigh(b, TRUE) /\ restarts' = restarts
      /\ Weighed = mapBlockIndex /\ Weighed' = mapBlockIndex'
      /\ before' = [before EXCEPT ![b] = nChainTrust'[b]]
      /\ late' = late \cup {x \in {b} : \E a \in mapBlockIndex : Height[a] > Height[b]}
      /\ gaps' = gaps \cup {x \in ({b} \cap Stake) \ Old :
                              /\ \E a \in Stakes : Height[a] > Height[b]
                              /\ \A a \in Stakes : Height[a] # Height[b]}
      /\ pindexBest' \in mapBlockIndex'
  BY DEF AddToBlockIndex, Weighed, TrustTypeOK
<1>1. Genesis \in mapBlockIndex /\ b # Genesis /\ mapBlockIndex \subseteq Block
      /\ \A a \in mapBlockIndex : a \in Block /\ Height[a] \in Nat
  BY <1>0, TreeIs DEF TrustTypeOK, TrustTreeAssumption
<1>2. /\ nChainTrust' \in [Block -> Nat] /\ nBaseStakeTrust' \in Nat /\ nBaseStakeTrustHeight' \in Nat
      /\ baseOf' \in [Block -> (Nat \X Nat) \cup {NoBase}] /\ Kept' /\ Own'
  BY <1>0, WeighKeeps
<1>3. before' \in [Block -> Nat] /\ \A x \in Block : before'[x] = IF x = b THEN nChainTrust'[b] ELSE before[x]
  BY <1>0, <1>2 DEF TrustTypeOK
<1>4. Stakes' = IF b \in Staking THEN Stakes \cup {b} ELSE Stakes BY <1>0 DEF Stakes, Staking
<1>5. late' \subseteq mapBlockIndex' /\ gaps' \subseteq late' /\ gaps' \subseteq Stakes'
  <2>1. late' \subseteq mapBlockIndex' BY <1>0 DEF TrustTypeOK
  <2>2. ASSUME NEW y \in gaps', y \notin gaps PROVE y \in late' /\ y \in Stakes'
    <3>1. y = b /\ b \in Staking /\ \E a \in Stakes : Height[a] > Height[b] BY <1>0, <2>2 DEF Staking
    <3> QED BY <1>0, <1>4, <3>1, StakesAre
  <2> QED BY <1>0, <1>4, <2>1, <2>2 DEF TrustTypeOK, Indexed
<1>6. TrustTypeOK' BY <1>0, <1>1, <1>2, <1>3, <1>5 DEF TrustTypeOK
<1>7. Indexed' BY <1>0, <1>1, <1>5 DEF Indexed
<1>8. \A x \in Block : x # b => baseOf'[x] = baseOf[x] BY <1>0 DEF Weigh, TrustTypeOK
<1>9. b \in Staking => /\ baseOf'[b] = ModTrust(b) /\ nBaseStakeTrustHeight' = ModTrust(b)[1]
                       /\ nBaseStakeTrust' = ModTrust(b)[2]
  <2>1. SUFFICES ASSUME b \in Staking
        PROVE /\ baseOf'[b] = ModTrust(b) /\ nBaseStakeTrustHeight' = ModTrust(b)[1]
              /\ nBaseStakeTrust' = ModTrust(b)[2]
    OBVIOUS
  <2>2. baseOf' = [baseOf EXCEPT ![b] = ModTrust(b)] BY <1>0, <2>1 DEF Weigh, Staking
  <2>3. baseOf'[b] = ModTrust(b) BY <2>2 DEF TrustTypeOK
  <2> QED BY <1>0, <2>1, <2>3 DEF Weigh
<1>10. \A x \in Stakes : x # b /\ x \in Block /\ baseOf'[x] = baseOf[x] BY <1>0, <1>8, StakesAre
<1>11. Ordered'
  <2>1. CASE b \in Staking
    <3>1. Stakes' = Stakes \cup {b} /\ Stakes' \subseteq Weighed'
      <4>1. Stakes' \subseteq mapBlockIndex' BY DEF Stakes
      <4> QED BY <1>0, <1>4, <2>1, <4>1
    <3> QED BY <1>0, <1>9, <1>10, <2>1, <3>1, NewOrdered
  <2>2. CASE b \notin Staking
    <3>1. PICK e : Steps(e, Low) /\ InStep(e) /\ Current(e) BY DEF Ordered
    <3>2. /\ Stakes' = Stakes /\ gaps' = gaps /\ late \subseteq late'
          /\ nBaseStakeTrustHeight' = nBaseStakeTrustHeight /\ nBaseStakeTrust' = nBaseStakeTrust
      BY <1>0, <1>4, <2>2 DEF Weigh, ModTrust, Staking
    <3>3. Low' = Low BY <3>2 DEF Low, H
    <3>4. Stakes' \cap Weighed' = Stakes /\ Stakes \cap Weighed = Stakes BY <1>0, <3>2 DEF Stakes
    <3>5. Steps(e, Low)' BY <3>1, <3>3 DEF Steps, NextBelow, NextHeight, Multiple
    <3>6. InStep(e)' BY <1>10, <3>1, <3>2, <3>3 DEF InStep, H
    <3>7. Current(e)' BY <3>1, <3>2, <3>3, <3>4 DEF Current, H
    <3> QED BY <3>5, <3>6, <3>7 DEF Ordered
  <2> QED BY <2>1, <2>2
<1>12. \A x : Steady(x)' => Steady(x)
  <2>1. Stakes \subseteq Stakes' /\ late \subseteq late' /\ gaps \subseteq gaps' BY <1>0, <1>4
  <2> QED BY <2>1, SteadyBefore
<1>13. Weights'
  <2>1. ASSUME NEW x \in mapBlockIndex, Steady(x)'
        PROVE  before'[x] = (IF x = Genesis THEN 0 ELSE before'[Prev[x]]) + Weight(x)'
    <3>1. x # b /\ x \in Block /\ baseOf'[x] = baseOf[x] /\ before'[x] = before[x] BY <1>0, <1>1, <1>3, <1>8
    <3>2. x # Genesis => before'[Prev[x]] = before[Prev[x]]
      <4>1. x # Genesis => Prev[x] \in mapBlockIndex BY DEF Indexed
      <4> QED BY <1>0, <1>1, <1>3, <4>1
    <3>3. Weight(x)' = Weight(x) BY <3>1 DEF Weight
    <3> QED BY <1>12, <2>1, <3>1, <3>2, <3>3 DEF Weights
  <2>2. ASSUME Steady(b)' PROVE before'[b] = before'[Prev[b]] + Weight(b)'
    <3>1. b \in Chain[b] /\ b \notin late'
      <4>1. b \in Chain[b] BY <1>1 DEF TrustTreeAssumption
      <4> QED BY <2>2, <4>1 DEF Steady
    <3>2. ~IsLate(b)
      <4>1. SUFFICES ASSUME pindexBest # Genesis PROVE ~(Height[Prev[b]] < Height[Prev[pindexBest]])
        BY DEF IsLate
      <4>2. pindexBest \in mapBlockIndex BY DEF TrustTypeOK
      <4>3. /\ Height[b] = Height[Prev[b]] + 1 /\ Height[Prev[b]] \in Nat
            /\ Height[pindexBest] = Height[Prev[pindexBest]] + 1 /\ Height[Prev[pindexBest]] \in Nat
        BY <1>1, <4>1, <4>2, TreeIs DEF H
      <4>4. ~(Height[pindexBest] > Height[b]) BY <1>0, <3>1, <4>2
      <4> QED BY <4>3, <4>4
    <3>3. GetBlockTrust(b, TRUE) = Weight(b)'
      <4>1. GetBlockTrust(b, TRUE) = TrustBase \div (Bits[b] + 1)
              + IF b \in Staking THEN TrustBase \div ModTrust(b)[2] ELSE 0
        BY <3>2, BlockTrustIs
      <4>2. b \in Staking => baseOf'[b][2] = ModTrust(b)[2] BY <1>9
      <4> QED BY <4>1, <4>2 DEF Weight
    <3>4. nChainTrust'[b] = nChainTrust[Prev[b]] + GetBlockTrust(b, TRUE)
      BY <1>0, <1>1 DEF Weigh, TrustTypeOK
    <3>5. nChainTrust[Prev[b]] = before[Prev[b]]
      <4>1. Steady(Prev[b]) BY <1>1, <1>12, <2>2, SteadyPrev
      <4> QED BY <1>0, <4>1 DEF Weights
    <3>6. before'[Prev[b]] = before[Prev[b]] /\ before'[b] = nChainTrust'[b] BY <1>0, <1>1, <1>3
    <3> QED BY <3>3, <3>4, <3>5, <3>6
  <2>3. ASSUME NEW x \in Weighed', Steady(x)' PROVE nChainTrust'[x] = before'[x]
    <3>1. CASE x = b BY <1>3, <3>1
    <3>2. CASE x # b
      <4>1. x \in mapBlockIndex /\ x \in Block BY <1>0, <1>1, <3>2
      <4>2. nChainTrust'[x] = nChainTrust[x] BY <1>0, <3>2, <4>1 DEF Weigh, TrustTypeOK
      <4>3. nChainTrust[x] = before[x] BY <1>0, <1>12, <2>3, <4>1 DEF Weights
      <4> QED BY <1>3, <3>2, <4>1, <4>2, <4>3
    <3> QED BY <3>1, <3>2
  <2> QED BY <1>0, <1>1, <2>1, <2>2, <2>3 DEF Weights
<1> QED BY <1>2, <1>6, <1>7, <1>11, <1>13

LEMMA LoadStep ==
  ASSUME TrustTreeAssumption, TrustInv, NEW b \in Block, LoadBlock(b)
  PROVE  TrustInv'
<1> USE DEF TrustInv
<1>0. /\ b \in toLoad /\ \A a \in toLoad : Height[b] <= Height[a]
      /\ toLoad' = toLoad \ {b} /\ Weigh(b, FALSE) /\ mapBlockIndex' = mapBlockIndex
      /\ UNCHANGED <<pindexBest, before, late, gaps, restarts>>
  BY DEF LoadBlock
<1>1. b \in mapBlockIndex /\ mapBlockIndex' = mapBlockIndex \cup {b} /\ mapBlockIndex \subseteq Block
      /\ Weighed' = Weighed \cup {b} /\ b \notin Weighed
  BY <1>0 DEF TrustTypeOK, Weighed
<1>2. /\ nChainTrust' \in [Block -> Nat] /\ nBaseStakeTrust' \in Nat /\ nBaseStakeTrustHeight' \in Nat
      /\ baseOf' \in [Block -> (Nat \X Nat) \cup {NoBase}] /\ Kept' /\ Own'
  BY <1>0, <1>1, WeighKeeps
<1>3. TrustTypeOK' BY <1>0, <1>1, <1>2 DEF TrustTypeOK
<1>4. Stakes' = Stakes /\ (b \in Staking <=> b \in Stakes) BY <1>0, <1>1 DEF Stakes, Staking
<1>5. Low' = Low BY <1>0, <1>4 DEF Low, H
<1>6. \A x : Steady(x)' = Steady(x) BY <1>0, <1>4 DEF Steady, Shallow
<1>7. Indexed' BY <1>0, <1>1, <1>4 DEF Indexed
<1>8. /\ b \in Staking => /\ baseOf' = [baseOf EXCEPT ![b] = ModTrust(b)]
                          /\ baseOf'[b] = ModTrust(b) /\ ModTrust(b)[2] # 0
                          /\ nBaseStakeTrustHeight' = ModTrust(b)[1] /\ nBaseStakeTrust' = ModTrust(b)[2]
      /\ b \notin Staking => /\ baseOf' = baseOf /\ nBaseStakeTrustHeight' = nBaseStakeTrustHeight
                             /\ nBaseStakeTrust' = nBaseStakeTrust
  <2>1. CASE b \in Staking
    <3>1. baseOf' = [baseOf EXCEPT ![b] = ModTrust(b)] BY <1>0, <2>1 DEF Weigh, Staking
    <3>2. baseOf'[b] = ModTrust(b) BY <3>1 DEF TrustTypeOK
    <3>3. ModTrust(b)[2] # 0 BY <2>1, ModTrustIs
    <3> QED BY <1>0, <2>1, <3>1, <3>2, <3>3 DEF Weigh
  <2>2. CASE b \notin Staking BY <1>0, <2>2 DEF Weigh, ModTrust, Staking
  <2> QED BY <2>1, <2>2
<1>9. \A x \in Block : x # b => baseOf'[x] = baseOf[x]
  <2>1. baseOf' = baseOf \/ baseOf' = [baseOf EXCEPT ![b] = ModTrust(b)] BY <1>8
  <2> QED BY <2>1 DEF TrustTypeOK
<1>10. Ordered'
  <2>1. PICK e : Steps(e, Low) /\ InStep(e) /\ Current(e) BY DEF Ordered
  <2>2. Steps(e, Low)' BY <1>5, <2>1 DEF Steps, NextBelow, NextHeight, Multiple
  <2>3. b \in Staking /\ H(b) \in Low => ModTrust(b)[1] = e[H(b)] BY <1>0, <2>1, PassHeight
  <2>4. InStep(e)'
    <3>1. SUFFICES ASSUME NEW x \in Stakes, x \notin late, H(x) \in Low PROVE baseOf'[x][1] = e[H(x)]
      BY <1>0, <1>4, <1>5 DEF InStep, H
    <3>2. CASE x = b BY <1>4, <1>8, <2>3, <3>1, <3>2
    <3>3. CASE x # b BY <1>9, <2>1, <3>1, <3>3, StakesAre DEF InStep
    <3> QED BY <3>2, <3>3
  <2>5. Current(e)'
    <3>1. CASE b \in Staking
      <4>1. b \in Stakes /\ b \in Weighed' /\ H(b) \in Nat BY <1>1, <1>4, <3>1, StakesAre
      <4>2. ASSUME NEW d \in Stakes \cap Weighed' PROVE H(d) <= H(b)
        <5>1. d = b \/ d \in Weighed BY <1>1, <4>2
        <5>2. /\ H(b) \in Nat /\ Height[b] = H(b) + 1 /\ H(d) \in Nat /\ Height[d] = H(d) + 1
          BY <4>1, <4>2, StakesAre, TreeIs
        <5>3. d \in Weighed => Height[d] <= Height[b] BY <1>0 DEF Indexed
        <5> QED BY <5>1, <5>2, <5>3
      <4> QED BY <1>4, <1>5, <1>8, <2>3, <3>1, <4>1, <4>2 DEF Current, H
    <3>2. CASE b \notin Staking
      <4>1. Stakes' \cap Weighed' = Stakes \cap Weighed BY <1>1, <1>4, <3>2
      <4> QED BY <1>5, <1>8, <2>1, <3>2, <4>1 DEF Current, H
    <3> QED BY <3>1, <3>2
  <2> QED BY <2>2, <2>4, <2>5 DEF Ordered
<1>11. Weights'
  <2>1. ASSUME NEW x \in mapBlockIndex, Steady(x) PROVE Weight(x)' = Weight(x)
    <3>1. x \in Staking => baseOf'[x] = baseOf[x]
      <4>1. CASE x = b BY <1>0, <1>8, <2>1, <4>1, LoadedAgain
      <4>2. CASE x # b BY <1>1, <1>9, <2>1, <4>2
      <4> QED BY <4>1, <4>2
    <3> QED BY <3>1 DEF Weight
  <2>2. ASSUME Steady(b) PROVE nChainTrust'[b] = before[b]
    <3>1. GetBlockTrust(b, FALSE) = Weight(b)
      <4>1. GetBlockTrust(b, FALSE) = TrustBase \div (Bits[b] + 1)
              + IF b \in Staking THEN TrustBase \div ModTrust(b)[2] ELSE 0
        BY <1>1, BlockTrustIs
      <4>2. b \in Staking => baseOf[b][2] = ModTrust(b)[2] BY <1>0, <2>2, LoadedAgain
      <4> QED BY <4>1, <4>2 DEF Weight
    <3>2. nChainTrust'[b] = (IF b = Genesis THEN 0 ELSE nChainTrust[Prev[b]]) + GetBlockTrust(b, FALSE)
      BY <1>0, <1>1 DEF Weigh, TrustTypeOK
    <3>3. b # Genesis => nChainTrust[Prev[b]] = before[Prev[b]]
      <4>1. SUFFICES ASSUME b # Genesis PROVE nChainTrust[Prev[b]] = before[Prev[b]] OBVIOUS
      <4>2. Prev[b] \in mapBlockIndex /\ b \in Block BY <1>1, <4>1 DEF Indexed
      <4>3. Height[b] = Height[Prev[b]] + 1 /\ Height[Prev[b]] \in Nat BY <4>1, <4>2, TreeIs DEF H
      <4>4. Prev[b] \notin toLoad BY <1>0, <4>3
      <4>5. Steady(Prev[b]) BY <2>2, <4>1, <4>2, SteadyPrev
      <4> QED BY <4>2, <4>4, <4>5 DEF Weights, Weighed
    <3>4. before[b] = (IF b = Genesis THEN 0 ELSE before[Prev[b]]) + Weight(b)
      BY <1>1, <2>2 DEF Weights
    <3> QED BY <3>1, <3>2, <3>3, <3>4
  <2>3. ASSUME NEW x \in Weighed', Steady(x) PROVE nChainTrust'[x] = before[x]
    <3>1. CASE x = b BY <2>2, <2>3, <3>1
    <3>2. CASE x # b
      <4>1. x \in Weighed /\ x \in Block BY <1>1, <2>3, <3>2 DEF Weighed
      <4>2. nChainTrust'[x] = nChainTrust[x] BY <1>0, <3>2, <4>1 DEF Weigh, TrustTypeOK
      <4> QED BY <2>3, <4>1, <4>2 DEF Weights
    <3> QED BY <3>1, <3>2
  <2> QED BY <1>0, <1>6, <2>1, <2>3 DEF Weights
<1> QED BY <1>2, <1>3, <1>7, <1>10, <1>11

LEMMA RestartStep ==
  ASSUME TrustTreeAssumption, TrustInv, Restart
  PROVE  TrustInv'
<1> USE DEF TrustInv
<1>0. /\ toLoad = {} /\ toLoad' = mapBlockIndex /\ nBaseStakeTrust' = 0 /\ nBaseStakeTrustHeight' = 0
      /\ before' = nChainTrust /\ nChainTrust' = [b \in Block |-> 0]
      /\ UNCHANGED <<mapBlockIndex, pindexBest, baseOf, late, gaps>>
      /\ restarts < MaxRestarts /\ restarts' = restarts + 1
  BY DEF Restart
<1>1. Weighed = mapBlockIndex /\ Weighed' = {} /\ Stakes' = Stakes BY <1>0 DEF Weighed, Stakes
<1>2. restarts' \in 0 .. MaxRestarts
  <2>1. restarts \in 0 .. MaxRestarts BY DEF TrustTypeOK
  <2>2. MaxRestarts \in Nat BY DEF TrustTreeAssumption
  <2> QED BY <1>0, <2>1, <2>2
<1>3. TrustTypeOK'
  <2>1. nChainTrust' \in [Block -> Nat] BY <1>0
  <2> QED BY <1>0, <1>2, <2>1 DEF TrustTypeOK
<1>4. Indexed' BY <1>0, <1>1 DEF Indexed
<1>5. Kept' BY <1>0 DEF Kept
<1>6. Own' BY <1>0, <1>1 DEF Own, H, BaseHeight, OwnBase, OwnWindow
<1>7. Ordered'
  <2>1. PICK e : Steps(e, Low) /\ InStep(e) BY DEF Ordered
  <2>2. Low' = Low BY <1>0, <1>1 DEF Low, H
  <2>3. Steps(e, Low)' /\ InStep(e)'
    BY <1>0, <1>1, <2>1, <2>2 DEF Steps, InStep, NextBelow, NextHeight, Multiple, H
  <2>4. Current(e)' BY <1>0, <1>1 DEF Current
  <2> QED BY <2>3, <2>4 DEF Ordered
<1>8. Weights'
  <2>1. \A x : Weight(x)' = Weight(x) BY <1>0 DEF Weight
  <2>2. \A x : Steady(x)' = Steady(x) BY <1>0, <1>1 DEF Steady, Shallow
  <2>3. ASSUME NEW x \in mapBlockIndex, Steady(x)
        PROVE  before'[x] = (IF x = Genesis THEN 0 ELSE before'[Prev[x]]) + Weight(x)
    <3>1. before'[x] = before[x] BY <1>0, <1>1, <2>3 DEF Weights
    <3>2. x # Genesis => before'[Prev[x]] = before[Prev[x]]
      <4>1. SUFFICES ASSUME x # Genesis PROVE before'[Prev[x]] = before[Prev[x]] OBVIOUS
      <4>2. Prev[x] \in mapBlockIndex /\ x \in Block BY <4>1 DEF Indexed, TrustTypeOK
      <4>3. Steady(Prev[x]) BY <2>3, <4>1, <4>2, SteadyPrev
      <4> QED BY <1>0, <1>1, <4>2, <4>3 DEF Weights
    <3> QED BY <2>3, <3>1, <3>2 DEF Weights
  <2> QED BY <1>0, <1>1, <2>1, <2>2, <2>3 DEF Weights
<1> QED BY <1>3, <1>4, <1>5, <1>6, <1>7, <1>8

LEMMA TrustInvStep ==
  ASSUME TrustTreeAssumption, TrustInv, [TrustNext]_trustVars
  PROVE  TrustInv'
<1>1. CASE UNCHANGED trustVars
  <2>1. UNCHANGED <<mapBlockIndex, nChainTrust, pindexBest, nBaseStakeTrust, nBaseStakeTrustHeight,
                    toLoad, baseOf, before, late, gaps, restarts>>
    BY <1>1 DEF trustVars
  <2>2. Stakes' = Stakes /\ Weighed' = Weighed /\ (\A b : Weight(b)' = Weight(b))
    BY <2>1 DEF Stakes, Weighed, Weight
  <2>3. TrustTypeOK' /\ Indexed' BY <2>1, <2>2 DEF TrustInv, TrustTypeOK, Indexed
  <2>4. Kept' /\ Own' BY <2>1, <2>2 DEF TrustInv, Kept, Own, BaseHeight, OwnBase, OwnWindow, H
  <2>5. Ordered'
    <3>1. Low' = Low BY <2>1, <2>2 DEF Low, H
    <3>2. PICK e : Steps(e, Low) /\ InStep(e) /\ Current(e) BY DEF TrustInv, Ordered
    <3>3. Steps(e, Low)' BY <3>1, <3>2 DEF Steps, NextBelow, NextHeight, Multiple
    <3>4. InStep(e)' BY <2>1, <2>2, <3>1, <3>2 DEF InStep, H
    <3>5. Current(e)' BY <2>1, <2>2, <3>1, <3>2 DEF Current, H
    <3> QED BY <3>3, <3>4, <3>5 DEF Ordered
  <2>6. Weights'
    <3>1. \A x : Steady(x)' = Steady(x) BY <2>1, <2>2 DEF Steady, Shallow
    <3> QED BY <2>1, <2>2, <3>1 DEF TrustInv, Weights
  <2> QED BY <2>3, <2>4, <2>5, <2>6 DEF TrustInv
<1>2. CASE Restart BY <1>2, RestartStep
<1>3. ASSUME NEW b \in Block, AddToBlockIndex(b) PROVE TrustInv' BY <1>3, AddStep
<1>4. ASSUME NEW b \in Block, LoadBlock(b) PROVE TrustInv' BY <1>4, LoadStep
<1> QED BY <1>1, <1>2, <1>3, <1>4 DEF TrustNext

---------------------------------------------------------------------------
(* The theorems. *)

(* Type correctness, with where the base comes from. *)
THEOREM TrustTyping ==
  ASSUME TrustTreeAssumption
  PROVE  TrustSpec => []TrustInv
<1>1. TrustInit => TrustInv BY TrustInvInit
<1>2. TrustInv /\ [TrustNext]_trustVars => TrustInv' BY TrustInvStep
<1> QED BY <1>1, <1>2, PTL DEF TrustSpec

(* GetModTrust reads a base that is not ahead of the block from the        *)
(* block's own branch, whichever branch refreshed it and in whatever order *)
(* the blocks came, unless a stake branch has parted from it long ago; and *)
(* LoadBlockIndex gives every steady block the nChainTrust it had, in any  *)
(* tree of blocks, with late and long branches beside it.                  *)
THEOREM TrustIsReproducible ==
  ASSUME TrustTreeAssumption
  PROVE  TrustSpec => []TrustReproducible
<1>1. ASSUME TrustInv PROVE TrustReproducible
  <2>1. RestartKeepsTrust BY <1>1 DEF TrustInv, RestartKeepsTrust, Weights, Weighed
  <2>2. BaseFromOwnBranch
    <3>1. SUFFICES ASSUME NEW b \in mapBlockIndex, baseOf[b] # NoBase
          PROVE  /\ baseOf[b][1] + Window >= Height[Prev[b]]
                 /\ baseOf[b][1] <= Height[Prev[b]] /\ Shallow(b) =>
                      baseOf[b][2] = OwnBase(b, baseOf[b][1])
      BY DEF BaseFromOwnBranch, OwnBase, OwnWindow
    <3>2. b \in Block BY <1>1 DEF TrustInv, TrustTypeOK
    <3>3. b \in Stakes BY <1>1, <3>1, <3>2 DEF TrustInv, Own
    <3>4. baseOf[b][1] + Window >= Height[Prev[b]] BY <1>1, <3>3 DEF TrustInv, Own, H
    <3>5. baseOf[b][1] <= Height[Prev[b]] /\ Shallow(b) => baseOf[b][2] = OwnBase(b, baseOf[b][1])
      BY <1>1, <3>3, OwnShallow DEF TrustInv, H
    <3> QED BY <3>4, <3>5
  <2> QED BY <2>1, <2>2 DEF TrustReproducible
<1> QED BY <1>1, TrustTyping, PTL
=============================================================================
