--------------------------- MODULE AddrManProofs ---------------------------
(***************************************************************************)
(* Proofs about AddrMan, for any addresses, sources, hashes into buckets,  *)
(* sizes of the tables and orders of calls: all views of the tables tell   *)
(* the same of every entry, no bucket outgrows its size, and a restart     *)
(* brings back every entry in the bucket it was in.                        *)
(*                                                                         *)
(* The inductive invariant, Sound, has one conjunct for each view; it says *)
(* more than Check_ tests: no name in mapAddr is without its entry, an     *)
(* entry of the tried table is in the bucket it hashes to, and nothing has *)
(* an id beyond nIdCount.                                                  *)
(* Within one call an entry is in transit: its references are ahead of or  *)
(* behind the buckets (X), or it is counted in neither table (Y), and each *)
(* step on the tables is proved with these exceptions.                     *)
(*                                                                         *)
(* MakeTried on a full bucket: SelectTried, for any draw, only exchanges   *)
(* places in the bucket and returns one of them.  The entry there goes to  *)
(* its new bucket, or to the one the good entry was found in, and that one *)
(* has place since the good entry has left it.                             *)
(*                                                                         *)
(* peers.dat: what is read back is a copy of every entry under another id, *)
(* one to one, by its rank among the new entries or among the tried ones.  *)
(* None is lost, as no bucket was over its size when it was written.       *)
(***************************************************************************)
EXTENDS AddrMan, FiniteSetTheorems, SequenceTheorems, NaturalsInduction,
        WellFoundedInduction, TLAPS

---------------------------------------------------------------------------
(* The views of the tables, each of which has to tell the same.            *)

(* vRandom and nRandomPos. *)
Listed(am) ==
  /\ \A i \in Ids(am) : /\ am.mapInfo[i].nRandomPos \in DOMAIN am.vRandom
                         /\ am.vRandom[am.mapInfo[i].nRandomPos] = i
  /\ \A p \in DOMAIN am.vRandom : /\ am.vRandom[p] \in Ids(am)
                                   /\ am.mapInfo[am.vRandom[p]].nRandomPos = p

(* mapAddr and mapInfo. *)
Named(am) ==
  /\ \A i \in Ids(am) : /\ i <= am.nIdCount
                         /\ am.mapInfo[i].addr \in DOMAIN am.mapAddr
                         /\ am.mapAddr[am.mapInfo[i].addr] = i
  /\ \A a \in DOMAIN am.mapAddr : /\ am.mapAddr[a] \in Ids(am)
                                   /\ am.mapInfo[am.mapAddr[a]].addr = a

(* The counters; the entries of Y are not counted. *)
Counted(am, Y) ==
  /\ am.nTried = Cardinality(Tried(am))
  /\ am.nNew = Cardinality(Ids(am) \ (Tried(am) \cup Y))

(* The new buckets. *)
InNew(am) ==
  \A b \in NewBucket : /\ am.vvNew[b] \subseteq Ids(am) \ Tried(am)
                       /\ Cardinality(am.vvNew[b]) <= NewBucketSize

(* The reference counts, but for the entries of X. *)
Referred(am, X) ==
  \A i \in Ids(am) \ (Tried(am) \cup X) :
    /\ am.mapInfo[i].nRefCount = Cardinality(References(am, i))
    /\ am.mapInfo[i].nRefCount \in 1..PerAddress

(* The tried buckets. *)
InTried(am) ==
  /\ \A i \in Tried(am) :
       /\ am.mapInfo[i].nLastSuccess > 0 /\ am.mapInfo[i].nRefCount = 0
       /\ \E p \in DOMAIN am.vvTried[GetTriedBucket[am.mapInfo[i].addr]] :
            am.vvTried[GetTriedBucket[am.mapInfo[i].addr]][p] = i
  /\ \A b \in TriedBucket :
       /\ Len(am.vvTried[b]) <= TriedBucketSize
       /\ \A p \in DOMAIN am.vvTried[b] :
            /\ am.vvTried[b][p] \in Tried(am)
            /\ GetTriedBucket[am.mapInfo[am.vvTried[b][p]].addr] = b
       /\ \A p, q \in DOMAIN am.vvTried[b] : am.vvTried[b][p] = am.vvTried[b][q] => p = q

(* All of it, but for the references of X and the count of Y. *)
Sound(am, X, Y) ==
  /\ IsCAddrMan(am) /\ Listed(am) /\ Named(am) /\ Counted(am, Y)
  /\ InNew(am) /\ Referred(am, X) /\ InTried(am)

AddrInv == Sound(addrman, {}, {})

---------------------------------------------------------------------------
(* Two tables of entries that agree on everything but what is in F. *)
Agree(f, g, F) ==
  /\ DOMAIN g = DOMAIN f
  /\ \A i \in DOMAIN f :
       /\ g[i].addr = f[i].addr /\ g[i].source = f[i].source
       /\ "nRefCount" \notin F => g[i].nRefCount = f[i].nRefCount
       /\ "fInTried" \notin F => g[i].fInTried = f[i].fInTried
       /\ "nLastSuccess" \notin F => g[i].nLastSuccess = f[i].nLastSuccess
       /\ "nRandomPos" \notin F => g[i].nRandomPos = f[i].nRandomPos

(* What an assignment to a member of an entry does to the table. *)
SetRefCount(f, n, v) == [f EXCEPT ![n].nRefCount = v]
SetInTried(f, n, v) == [f EXCEPT ![n].fInTried = v]
SetSuccess(f, n, v) == [f EXCEPT ![n].nLastSuccess = v]
SetPos(f, n, v) == [f EXCEPT ![n].nRandomPos = v]

LEMMA SetRefCountIs ==
  ASSUME NEW D, NEW f \in [D -> CAddrInfo], NEW n \in D, NEW v \in Nat,
         NEW g, g = SetRefCount(f, n, v)
  PROVE  /\ g \in [D -> CAddrInfo] /\ Agree(f, g, {"nRefCount"})
         /\ \A i \in D : g[i].nRefCount = IF i = n THEN v ELSE f[i].nRefCount
<1> DEFINE r == [f[n] EXCEPT !.nRefCount = v]
<1>1. g = [f EXCEPT ![n] = r] BY DEF SetRefCount
<1>2. f[n] \in CAddrInfo OBVIOUS
<1>3. r \in CAddrInfo /\ r.nRefCount = v
      /\ r.addr = f[n].addr
      /\ r.source = f[n].source
      /\ r.fInTried = f[n].fInTried
      /\ r.nLastSuccess = f[n].nLastSuccess
      /\ r.nRandomPos = f[n].nRandomPos
  BY <1>2 DEF CAddrInfo
<1> HIDE DEF r
<1>4. g \in [D -> CAddrInfo] /\ DOMAIN f = D BY <1>1, <1>3
<1>5. \A i \in D : g[i] = IF i = n THEN r ELSE f[i] BY <1>1
<1> QED BY <1>3, <1>4, <1>5 DEF Agree

LEMMA SetInTriedIs ==
  ASSUME NEW D, NEW f \in [D -> CAddrInfo], NEW n \in D, NEW v \in BOOLEAN,
         NEW g, g = SetInTried(f, n, v)
  PROVE  /\ g \in [D -> CAddrInfo] /\ Agree(f, g, {"fInTried"})
         /\ \A i \in D : g[i].fInTried = IF i = n THEN v ELSE f[i].fInTried
<1> DEFINE r == [f[n] EXCEPT !.fInTried = v]
<1>1. g = [f EXCEPT ![n] = r] BY DEF SetInTried
<1>2. f[n] \in CAddrInfo OBVIOUS
<1>3. r \in CAddrInfo /\ r.fInTried = v
      /\ r.addr = f[n].addr
      /\ r.source = f[n].source
      /\ r.nRefCount = f[n].nRefCount
      /\ r.nLastSuccess = f[n].nLastSuccess
      /\ r.nRandomPos = f[n].nRandomPos
  BY <1>2 DEF CAddrInfo
<1> HIDE DEF r
<1>4. g \in [D -> CAddrInfo] /\ DOMAIN f = D BY <1>1, <1>3
<1>5. \A i \in D : g[i] = IF i = n THEN r ELSE f[i] BY <1>1
<1> QED BY <1>3, <1>4, <1>5 DEF Agree

LEMMA SetSuccessIs ==
  ASSUME NEW D, NEW f \in [D -> CAddrInfo], NEW n \in D, NEW v \in Nat,
         NEW g, g = SetSuccess(f, n, v)
  PROVE  /\ g \in [D -> CAddrInfo] /\ Agree(f, g, {"nLastSuccess"})
         /\ \A i \in D : g[i].nLastSuccess = IF i = n THEN v ELSE f[i].nLastSuccess
<1> DEFINE r == [f[n] EXCEPT !.nLastSuccess = v]
<1>1. g = [f EXCEPT ![n] = r] BY DEF SetSuccess
<1>2. f[n] \in CAddrInfo OBVIOUS
<1>3. r \in CAddrInfo /\ r.nLastSuccess = v
      /\ r.addr = f[n].addr
      /\ r.source = f[n].source
      /\ r.nRefCount = f[n].nRefCount
      /\ r.fInTried = f[n].fInTried
      /\ r.nRandomPos = f[n].nRandomPos
  BY <1>2 DEF CAddrInfo
<1> HIDE DEF r
<1>4. g \in [D -> CAddrInfo] /\ DOMAIN f = D BY <1>1, <1>3
<1>5. \A i \in D : g[i] = IF i = n THEN r ELSE f[i] BY <1>1
<1> QED BY <1>3, <1>4, <1>5 DEF Agree

LEMMA SetPosIs ==
  ASSUME NEW D, NEW f \in [D -> CAddrInfo], NEW n \in D, NEW v \in Nat,
         NEW g, g = SetPos(f, n, v)
  PROVE  /\ g \in [D -> CAddrInfo] /\ Agree(f, g, {"nRandomPos"})
         /\ \A i \in D : g[i].nRandomPos = IF i = n THEN v ELSE f[i].nRandomPos
<1> DEFINE r == [f[n] EXCEPT !.nRandomPos = v]
<1>1. g = [f EXCEPT ![n] = r] BY DEF SetPos
<1>2. f[n] \in CAddrInfo OBVIOUS
<1>3. r \in CAddrInfo /\ r.nRandomPos = v
      /\ r.addr = f[n].addr
      /\ r.source = f[n].source
      /\ r.nRefCount = f[n].nRefCount
      /\ r.fInTried = f[n].fInTried
      /\ r.nLastSuccess = f[n].nLastSuccess
  BY <1>2 DEF CAddrInfo
<1> HIDE DEF r
<1>4. g \in [D -> CAddrInfo] /\ DOMAIN f = D BY <1>1, <1>3
<1>5. \A i \in D : g[i] = IF i = n THEN r ELSE f[i] BY <1>1
<1> QED BY <1>3, <1>4, <1>5 DEF Agree


---------------------------------------------------------------------------
(* SwapRandom *)

(* What it changes: the list and the places the two entries have in it. *)
LEMMA SwapIs ==
  ASSUME NEW am, IsCAddrMan(am), Listed(am),
         NEW p \in DOMAIN am.vRandom, NEW q \in DOMAIN am.vRandom
  PROVE  LET to == SwapRandom(am, p, q)
         IN  /\ IsCAddrMan(to) /\ Listed(to)
             /\ Ids(to) = Ids(am) /\ DOMAIN to.vRandom = DOMAIN am.vRandom
             /\ to.vRandom[q] = am.vRandom[p]
             /\ Agree(am.mapInfo, to.mapInfo, {"nRandomPos"})
             /\ to.mapAddr = am.mapAddr /\ to.vvTried = am.vvTried /\ to.vvNew = am.vvNew
             /\ to.nNew = am.nNew /\ to.nTried = am.nTried /\ to.nIdCount = am.nIdCount
<1> DEFINE to == SwapRandom(am, p, q)
           id1 == am.vRandom[p]
           id2 == am.vRandom[q]
<1>1. CASE p = q
  BY <1>1 DEF SwapRandom, Agree
<1>2. CASE p # q
  <2>1. id1 \in Ids(am) /\ id2 \in Ids(am) /\ id1 # id2
    BY <1>2 DEF Listed
  <2>2. to = [am EXCEPT !.mapInfo[id1].nRandomPos = q, !.mapInfo[id2].nRandomPos = p,
                        !.vRandom[p] = id2, !.vRandom[q] = id1]
    BY <1>2 DEF SwapRandom
  <2>3. /\ to.mapInfo = [am.mapInfo EXCEPT ![id1].nRandomPos = q, ![id2].nRandomPos = p]
        /\ to.vRandom = [am.vRandom EXCEPT ![p] = id2, ![q] = id1]
        /\ to.mapAddr = am.mapAddr /\ to.vvTried = am.vvTried /\ to.vvNew = am.vvNew
        /\ to.nNew = am.nNew /\ to.nTried = am.nTried /\ to.nIdCount = am.nIdCount
        /\ HasMembers(to)
    BY <2>2 DEF IsCAddrMan, HasMembers
  <2> HIDE DEF to
  <2> DEFINE f1 == SetPos(am.mapInfo, id1, q)
  <2>4. /\ am.mapInfo \in [Ids(am) -> CAddrInfo] /\ am.vRandom \in Seq(Ids(am))
        /\ p \in Nat /\ q \in Nat /\ to.mapInfo = SetPos(f1, id2, p)
    BY <2>3 DEF IsCAddrMan, SetPos
  <2>5. /\ f1 \in [Ids(am) -> CAddrInfo] /\ Agree(am.mapInfo, f1, {"nRandomPos"})
        /\ \A i \in Ids(am) : f1[i].nRandomPos = IF i = id1 THEN q ELSE am.mapInfo[i].nRandomPos
    <3>1. f1 = SetPos(am.mapInfo, id1, q) OBVIOUS
    <3> HIDE DEF f1, id1
    <3> QED BY <2>1, <2>4, <3>1, SetPosIs
  <2> HIDE DEF f1
  <2>6. /\ to.mapInfo \in [Ids(am) -> CAddrInfo] /\ Agree(f1, to.mapInfo, {"nRandomPos"})
        /\ \A i \in Ids(am) : to.mapInfo[i].nRandomPos = IF i = id2 THEN p ELSE f1[i].nRandomPos
    <3> HIDE DEF id2
    <3> QED BY <2>1, <2>4, <2>5, SetPosIs
  <2>7. Ids(to) = Ids(am) /\ Agree(am.mapInfo, to.mapInfo, {"nRandomPos"})
    BY <2>5, <2>6 DEF Agree, Ids
  <2>8. /\ DOMAIN to.vRandom = DOMAIN am.vRandom /\ to.vRandom \in Seq(Ids(am))
        /\ \A j \in DOMAIN am.vRandom :
             to.vRandom[j] = IF j = q THEN id1 ELSE IF j = p THEN id2 ELSE am.vRandom[j]
    <3> DEFINE v == am.vRandom
    <3>1. v \in Seq(Ids(am)) /\ to.vRandom = [v EXCEPT ![p] = id2, ![q] = id1]
          /\ p \in DOMAIN v /\ q \in DOMAIN v
      BY <2>3, <2>4
    <3> HIDE DEF v, id1, id2
    <3>2. to.vRandom \in Seq(Ids(am)) BY <2>1, <3>1
    <3>3. DOMAIN to.vRandom = DOMAIN v BY <3>1
    <3>4. \A j \in DOMAIN v : to.vRandom[j] = IF j = q THEN id1 ELSE IF j = p THEN id2 ELSE v[j]
      BY <3>1
    <3> QED BY <3>2, <3>3, <3>4 DEF v
  <2>9. Listed(to)
    <3>1. \A i \in Ids(am) : to.mapInfo[i].nRandomPos
                                = IF i = id2 THEN p ELSE IF i = id1 THEN q ELSE am.mapInfo[i].nRandomPos
      BY <2>5, <2>6
    <3> DEFINE v == am.vRandom
               f == am.mapInfo
    <3>2. /\ \A i \in Ids(am) : f[i].nRandomPos \in DOMAIN v /\ v[f[i].nRandomPos] = i
          /\ \A j \in DOMAIN v : v[j] \in Ids(am) /\ f[v[j]].nRandomPos = j
      BY DEF Listed
    <3>3. id1 = v[p] /\ id2 = v[q] OBVIOUS
    <3> HIDE DEF v, f, id1, id2
    <3>4. /\ \A i \in Ids(am) : to.mapInfo[i].nRandomPos
                                  = IF i = id2 THEN p ELSE IF i = id1 THEN q ELSE f[i].nRandomPos
          /\ DOMAIN to.vRandom = DOMAIN v
          /\ \A j \in DOMAIN v : to.vRandom[j] = IF j = q THEN id1 ELSE IF j = p THEN id2 ELSE v[j]
          /\ p \in DOMAIN v /\ q \in DOMAIN v
      BY <2>8, <3>1 DEF v, f
    <3>5. ASSUME NEW i \in Ids(am)
          PROVE  /\ to.mapInfo[i].nRandomPos \in DOMAIN to.vRandom
                 /\ to.vRandom[to.mapInfo[i].nRandomPos] = i
      BY <1>2, <2>1, <3>2, <3>3, <3>4
    <3>6. ASSUME NEW j \in DOMAIN to.vRandom
          PROVE  to.vRandom[j] \in Ids(am) /\ to.mapInfo[to.vRandom[j]].nRandomPos = j
      BY <1>2, <2>1, <3>2, <3>3, <3>4
    <3> QED BY <2>7, <3>5, <3>6 DEF Listed
  <2>10. IsCAddrMan(to)
    <3>1. to.mapAddr = am.mapAddr /\ to.vvTried = am.vvTried /\ to.vvNew = am.vvNew
          /\ to.nNew = am.nNew /\ to.nTried = am.nTried /\ to.nIdCount = am.nIdCount
      BY <2>3
    <3>2. /\ to.mapInfo \in [Ids(to) -> CAddrInfo] /\ to.vRandom \in Seq(Ids(to))
          /\ Ids(to) = Ids(am)
      BY <2>6, <2>7, <2>8
    <3> QED BY <2>3, <3>1, <3>2 DEF IsCAddrMan
  <2>11. to.vRandom[q] = am.vRandom[p] BY <2>8
  <2> QED BY <2>3, <2>7, <2>8, <2>9, <2>10, <2>11 DEF to
<1> QED BY <1>1, <1>2

---------------------------------------------------------------------------
(* Reference counts and new buckets *)

(* A change of them, or of the times of success, leaves the other views as *)
(* they were.                                                              *)
LEMMA Transfer ==
  ASSUME NEW am, NEW to, NEW X, NEW Y, Sound(am, X, Y), HasMembers(to),
         to.mapInfo \in [Ids(am) -> CAddrInfo],
         Agree(am.mapInfo, to.mapInfo, {"nRefCount", "nLastSuccess"}),
         \A i \in Tried(am) : /\ to.mapInfo[i].nRefCount = am.mapInfo[i].nRefCount
                              /\ to.mapInfo[i].nLastSuccess > 0,
         to.mapAddr = am.mapAddr, to.vRandom = am.vRandom, to.vvTried = am.vvTried,
         to.vvNew \in [NewBucket -> SUBSET Ids(am)],
         to.nNew = am.nNew, to.nTried = am.nTried, to.nIdCount = am.nIdCount
  PROVE  /\ IsCAddrMan(to) /\ Listed(to) /\ Named(to) /\ Counted(to, Y) /\ InTried(to)
         /\ Ids(to) = Ids(am) /\ Tried(to) = Tried(am)
<1>1. Ids(to) = Ids(am) /\ Ids(am) = DOMAIN am.mapInfo BY DEF Agree, Ids
<1>2. \A i \in Ids(am) : /\ to.mapInfo[i].addr = am.mapInfo[i].addr
                         /\ to.mapInfo[i].fInTried = am.mapInfo[i].fInTried
                         /\ to.mapInfo[i].nRandomPos = am.mapInfo[i].nRandomPos
  BY <1>1 DEF Agree
<1>3. Tried(to) = Tried(am) BY <1>1, <1>2 DEF Tried
<1>4. Listed(to) BY <1>1, <1>2 DEF Listed, Sound
<1>5. Named(to) BY <1>1, <1>2 DEF Named, Sound
<1>6. Counted(to, Y) BY <1>1, <1>3 DEF Counted, Sound
<1>7. InTried(to)
  <2>1. \A i \in Tried(am) : i \in Ids(am) BY DEF Tried
  <2>2. InTried(am) BY DEF Sound
  <2>3. ASSUME NEW i \in Tried(to)
        PROVE  /\ to.mapInfo[i].nLastSuccess > 0 /\ to.mapInfo[i].nRefCount = 0
               /\ \E p \in DOMAIN to.vvTried[GetTriedBucket[to.mapInfo[i].addr]] :
                    to.vvTried[GetTriedBucket[to.mapInfo[i].addr]][p] = i
    <3>1. /\ am.mapInfo[i].nRefCount = 0
          /\ \E p \in DOMAIN am.vvTried[GetTriedBucket[am.mapInfo[i].addr]] :
               am.vvTried[GetTriedBucket[am.mapInfo[i].addr]][p] = i
      BY <1>3, <2>2 DEF InTried
    <3>2. i \in Ids(am) /\ i \in Tried(am) BY <1>3, <2>1
    <3> QED BY <1>2, <3>1, <3>2
  <2>4. ASSUME NEW b \in TriedBucket
        PROVE  /\ Len(to.vvTried[b]) <= TriedBucketSize
               /\ \A p \in DOMAIN to.vvTried[b] :
                    /\ to.vvTried[b][p] \in Tried(to)
                    /\ GetTriedBucket[to.mapInfo[to.vvTried[b][p]].addr] = b
               /\ \A p, q \in DOMAIN to.vvTried[b] : to.vvTried[b][p] = to.vvTried[b][q] => p = q
    <3>1. /\ Len(am.vvTried[b]) <= TriedBucketSize
          /\ \A p \in DOMAIN am.vvTried[b] :
               /\ am.vvTried[b][p] \in Tried(am)
               /\ GetTriedBucket[am.mapInfo[am.vvTried[b][p]].addr] = b
          /\ \A p, q \in DOMAIN am.vvTried[b] : am.vvTried[b][p] = am.vvTried[b][q] => p = q
      BY <2>2 DEF InTried
    <3> QED BY <1>2, <1>3, <2>1, <3>1
  <2> QED BY <2>3, <2>4 DEF InTried
<1>8. IsCAddrMan(to)
  <2>1. IsCAddrMan(am) BY DEF Sound
  <2> QED BY <1>1, <2>1 DEF IsCAddrMan
<1> QED BY <1>1, <1>3, <1>4, <1>5, <1>6, <1>7, <1>8

Recounted(am, n, v) == [am EXCEPT !.mapInfo[n].nRefCount = v]
Succeeded(am, n, v) == [am EXCEPT !.mapInfo[n].nLastSuccess = v]
Put(am, b, x) == [am EXCEPT !.vvNew[b] = @ \cup {x}]

(* nRefCount of an entry that is not tried. *)
LEMMA CountIs ==
  ASSUME NEW am, NEW X, NEW Y, Sound(am, X, Y),
         NEW n \in Ids(am) \ Tried(am), NEW v \in Nat
  PROVE  LET to == Recounted(am, n, v)
         IN  /\ Sound(to, X \cup {n}, Y) /\ Ids(to) = Ids(am) /\ Tried(to) = Tried(am)
             /\ to.mapInfo[n].nRefCount = v /\ to.vvNew = am.vvNew
             /\ Agree(am.mapInfo, to.mapInfo, {"nRefCount"}) /\ to.nIdCount = am.nIdCount
             /\ \A i \in Ids(am) \ {n} : to.mapInfo[i].nRefCount = am.mapInfo[i].nRefCount
<1> DEFINE to == Recounted(am, n, v)
<1>1. IsCAddrMan(am) BY DEF Sound
<1>2. /\ to.mapInfo = SetRefCount(am.mapInfo, n, v) /\ HasMembers(to)
      /\ to.mapAddr = am.mapAddr /\ to.vRandom = am.vRandom /\ to.vvTried = am.vvTried
      /\ to.vvNew = am.vvNew
      /\ to.nNew = am.nNew /\ to.nTried = am.nTried /\ to.nIdCount = am.nIdCount
  <2> DEFINE f1 == SetRefCount(am.mapInfo, n, v)
  <2>1. HasMembers(am) BY <1>1 DEF IsCAddrMan
  <2>2. to = [am EXCEPT !.mapInfo = f1] BY <2>1 DEF HasMembers, SetRefCount, Recounted
  <2> HIDE DEF to, f1
  <2>3. HasMembers(to) /\ to.mapInfo = f1 BY <2>1, <2>2 DEF HasMembers
  <2>4. /\ to.mapAddr = am.mapAddr /\ to.vRandom = am.vRandom /\ to.vvTried = am.vvTried
        /\ to.vvNew = am.vvNew
        /\ to.nNew = am.nNew /\ to.nTried = am.nTried /\ to.nIdCount = am.nIdCount
    BY <2>1, <2>2 DEF HasMembers
  <2> QED BY <2>3, <2>4 DEF f1
<1> HIDE DEF to
<1>3. am.mapInfo \in [Ids(am) -> CAddrInfo] /\ am.vvNew \in [NewBucket -> SUBSET Ids(am)]
  BY <1>1 DEF IsCAddrMan
<1>4. /\ to.mapInfo \in [Ids(am) -> CAddrInfo] /\ Agree(am.mapInfo, to.mapInfo, {"nRefCount"})
      /\ \A i \in Ids(am) : to.mapInfo[i].nRefCount = IF i = n THEN v ELSE am.mapInfo[i].nRefCount
  BY <1>2, <1>3, SetRefCountIs
<1>5. Agree(am.mapInfo, to.mapInfo, {"nRefCount", "nLastSuccess"}) BY <1>4 DEF Agree
<1>6. \A i \in Tried(am) : /\ to.mapInfo[i].nRefCount = am.mapInfo[i].nRefCount
                           /\ to.mapInfo[i].nLastSuccess > 0
  <2>1. \A i \in Tried(am) : i \in Ids(am) /\ i # n BY DEF Tried
  <2>2. \A i \in Ids(am) : to.mapInfo[i].nLastSuccess = am.mapInfo[i].nLastSuccess
    BY <1>4 DEF Agree, Ids
  <2> QED BY <1>4, <2>1, <2>2 DEF Sound, InTried
<1>7. /\ IsCAddrMan(to) /\ Listed(to) /\ Named(to) /\ Counted(to, Y) /\ InTried(to)
      /\ Ids(to) = Ids(am) /\ Tried(to) = Tried(am)
  BY <1>2, <1>3, <1>4, <1>5, <1>6, Transfer
<1>8. InNew(to) BY <1>2, <1>7 DEF InNew, Sound
<1>9. Referred(to, X \cup {n})
  <2>1. \A i \in Ids(am) : References(to, i) = References(am, i) BY <1>2 DEF References
  <2> QED BY <1>4, <1>7, <2>1 DEF Referred, Sound
<1> QED BY <1>2, <1>4, <1>7, <1>8, <1>9 DEF Sound, to


(* nLastSuccess. *)
LEMMA SuccessIs ==
  ASSUME NEW am, NEW X, NEW Y, Sound(am, X, Y),
         NEW n \in Ids(am), NEW v \in Nat \ {0}
  PROVE  LET to == Succeeded(am, n, v)
         IN  /\ Sound(to, X, Y) /\ Ids(to) = Ids(am) /\ Tried(to) = Tried(am)
             /\ to.vvNew = am.vvNew /\ to.mapInfo[n].nLastSuccess = v
<1> DEFINE to == Succeeded(am, n, v)
<1>1. IsCAddrMan(am) BY DEF Sound
<1>2. /\ to.mapInfo = SetSuccess(am.mapInfo, n, v) /\ HasMembers(to)
      /\ to.mapAddr = am.mapAddr /\ to.vRandom = am.vRandom /\ to.vvTried = am.vvTried
      /\ to.vvNew = am.vvNew
      /\ to.nNew = am.nNew /\ to.nTried = am.nTried /\ to.nIdCount = am.nIdCount
  <2> DEFINE f1 == SetSuccess(am.mapInfo, n, v)
  <2>1. HasMembers(am) BY <1>1 DEF IsCAddrMan
  <2>2. to = [am EXCEPT !.mapInfo = f1] BY <2>1 DEF HasMembers, SetSuccess, Succeeded
  <2> HIDE DEF to, f1
  <2>3. HasMembers(to) /\ to.mapInfo = f1 BY <2>1, <2>2 DEF HasMembers
  <2>4. /\ to.mapAddr = am.mapAddr /\ to.vRandom = am.vRandom /\ to.vvTried = am.vvTried
        /\ to.vvNew = am.vvNew
        /\ to.nNew = am.nNew /\ to.nTried = am.nTried /\ to.nIdCount = am.nIdCount
    BY <2>1, <2>2 DEF HasMembers
  <2> QED BY <2>3, <2>4 DEF f1
<1> HIDE DEF to
<1>3. am.mapInfo \in [Ids(am) -> CAddrInfo] /\ am.vvNew \in [NewBucket -> SUBSET Ids(am)]
  BY <1>1 DEF IsCAddrMan
<1>4. /\ to.mapInfo \in [Ids(am) -> CAddrInfo] /\ Agree(am.mapInfo, to.mapInfo, {"nLastSuccess"})
      /\ \A i \in Ids(am) : to.mapInfo[i].nLastSuccess = IF i = n THEN v ELSE am.mapInfo[i].nLastSuccess
  BY <1>2, <1>3, SetSuccessIs
<1>5. Agree(am.mapInfo, to.mapInfo, {"nRefCount", "nLastSuccess"}) BY <1>4 DEF Agree
<1>6. \A i \in Ids(am) : to.mapInfo[i].nRefCount = am.mapInfo[i].nRefCount
  BY <1>4 DEF Agree, Ids
<1>7. \A i \in Tried(am) : /\ to.mapInfo[i].nRefCount = am.mapInfo[i].nRefCount
                           /\ to.mapInfo[i].nLastSuccess > 0
  <2>1. \A i \in Tried(am) : i \in Ids(am) BY DEF Tried
  <2> QED BY <1>4, <1>6, <2>1 DEF Sound, InTried
<1>8. /\ IsCAddrMan(to) /\ Listed(to) /\ Named(to) /\ Counted(to, Y) /\ InTried(to)
      /\ Ids(to) = Ids(am) /\ Tried(to) = Tried(am)
  BY <1>2, <1>3, <1>4, <1>5, <1>7, Transfer
<1>9. InNew(to) BY <1>2, <1>8 DEF InNew, Sound
<1>10. Referred(to, X)
  <2>1. \A i \in Ids(am) : References(to, i) = References(am, i) BY <1>2 DEF References
  <2> QED BY <1>6, <1>8, <2>1 DEF Referred, Sound
<1> QED BY <1>2, <1>4, <1>8, <1>9, <1>10 DEF Sound, to

(* The sizes and bounds are numbers. *)
LEMMA Sizes ==
  ASSUME AddrManAssumption
  PROVE  /\ NewBuckets \in Nat \ {0} /\ TriedBuckets \in Nat \ {0}
         /\ NewBucketSize \in Nat \ {0} /\ TriedBucketSize \in Nat \ {0}
         /\ PerAddress \in Nat \ {0} /\ Inspect \in Nat \ {0}
         /\ MaxId \in Nat /\ MaxTime \in Nat
BY DEF AddrManAssumption

(* What is in a bucket, and in how many an entry is, is finite. *)
LEMMA BucketsFinite ==
  ASSUME AddrManAssumption, NEW am, IsCAddrMan(am)
  PROVE  /\ IsFiniteSet(Ids(am)) /\ IsFiniteSet(Tried(am))
         /\ \A b \in NewBucket : IsFiniteSet(am.vvNew[b])
         /\ \A i : IsFiniteSet(References(am, i))
<1>1. IsFiniteSet(EntryId) /\ IsFiniteSet(NewBucket)
  <2>1. MaxId \in Nat /\ NewBuckets \in Nat /\ 1 \in Int BY DEF AddrManAssumption
  <2>2. IsFiniteSet(1..MaxId) BY <2>1, FS_Interval
  <2>3. IsFiniteSet(1..NewBuckets) BY <2>1, FS_Interval
  <2> QED BY <2>2, <2>3 DEF EntryId, NewBucket
<1>2. Ids(am) \in SUBSET EntryId /\ Tried(am) \in SUBSET EntryId
  BY DEF IsCAddrMan, Tried
<1>3. \A b \in NewBucket : am.vvNew[b] \in SUBSET EntryId
  BY <1>2 DEF IsCAddrMan
<1>4. IsFiniteSet(Ids(am)) /\ IsFiniteSet(Tried(am)) BY <1>1, <1>2, FS_Subset
<1>5. \A b \in NewBucket : IsFiniteSet(am.vvNew[b]) BY <1>1, <1>3, FS_Subset
<1>6. ASSUME NEW i PROVE IsFiniteSet(References(am, i))
  <2>1. References(am, i) \in SUBSET NewBucket BY DEF References
  <2> QED BY <1>1, <2>1, FS_Subset
<1> QED BY <1>4, <1>5, <1>6

(* An entry gets into a bucket with room, where its count is ahead of its  *)
(* references.                                                             *)
LEMMA PutIs ==
  ASSUME AddrManAssumption, NEW am, NEW x \in Ids(am) \ Tried(am), NEW Y, Sound(am, {x}, Y),
         NEW b \in NewBucket, x \notin am.vvNew[b], Cardinality(am.vvNew[b]) < NewBucketSize,
         am.mapInfo[x].nRefCount = Cardinality(References(am, x)) + 1,
         am.mapInfo[x].nRefCount \in 1..PerAddress
  PROVE  LET to == Put(am, b, x)
         IN  /\ Sound(to, {}, Y)
             /\ to.mapInfo = am.mapInfo /\ to.vvTried = am.vvTried
<1> DEFINE to == Put(am, b, x)
           to2 == [am.vvNew EXCEPT ![b] = @ \cup {x}]
<1>1. IsCAddrMan(am) /\ HasMembers(am) BY DEF Sound, IsCAddrMan
<1>2. to = [am EXCEPT !.vvNew = to2] BY <1>1 DEF HasMembers, Put
<1>3. am.vvNew \in [NewBucket -> SUBSET Ids(am)] /\ am.mapInfo \in [Ids(am) -> CAddrInfo]
  BY <1>1 DEF IsCAddrMan
<1>4. /\ to2 \in [NewBucket -> SUBSET Ids(am)]
      /\ \A c \in NewBucket : to2[c] = IF c = b THEN am.vvNew[b] \cup {x} ELSE am.vvNew[c]
  BY <1>3
<1> HIDE DEF to, to2
<1>5. /\ HasMembers(to) /\ to.mapInfo = am.mapInfo /\ to.vvNew = to2
      /\ to.mapAddr = am.mapAddr /\ to.vRandom = am.vRandom /\ to.vvTried = am.vvTried
      /\ to.nNew = am.nNew /\ to.nTried = am.nTried /\ to.nIdCount = am.nIdCount
  BY <1>1, <1>2 DEF HasMembers
<1>6. /\ IsCAddrMan(to) /\ Listed(to) /\ Named(to) /\ Counted(to, Y) /\ InTried(to)
      /\ Ids(to) = Ids(am) /\ Tried(to) = Tried(am)
  <2>1. Agree(am.mapInfo, to.mapInfo, {"nRefCount", "nLastSuccess"}) BY <1>5 DEF Agree
  <2>2. \A i \in Tried(am) : /\ to.mapInfo[i].nRefCount = am.mapInfo[i].nRefCount
                             /\ to.mapInfo[i].nLastSuccess > 0
    BY <1>5 DEF Sound, InTried
  <2> QED BY <1>3, <1>4, <1>5, <2>1, <2>2, Transfer
<1>7. InNew(to)
  <2>1. /\ Cardinality(am.vvNew[b] \cup {x}) = Cardinality(am.vvNew[b]) + 1
        /\ Cardinality(am.vvNew[b]) \in Nat
    BY <1>1, BucketsFinite, FS_AddElement, FS_CardinalityType
  <2>2. Cardinality(to2[b]) <= NewBucketSize BY <1>4, <2>1, Sizes
  <2>3. ASSUME NEW c \in NewBucket
        PROVE  to2[c] \subseteq Ids(am) \ Tried(am) /\ Cardinality(to2[c]) <= NewBucketSize
    BY <1>4, <2>2 DEF Sound, InNew
  <2> QED BY <1>5, <1>6, <2>3 DEF InNew
<1>8. References(to, x) = References(am, x) \cup {b} /\ b \notin References(am, x)
  BY <1>4, <1>5 DEF References
<1>9. Cardinality(References(to, x)) = Cardinality(References(am, x)) + 1
  BY <1>1, <1>8, BucketsFinite, FS_AddElement
<1>10. \A i \in Ids(am) \ {x} : References(to, i) = References(am, i)
  BY <1>4, <1>5 DEF References
<1>11. Referred(to, {})
  BY <1>5, <1>6, <1>9, <1>10 DEF Referred, Sound
<1> QED BY <1>5, <1>6, <1>7, <1>11 DEF Sound, to

(* A new entry is counted, listed and named, and in no bucket yet. *)
LEMMA CreateIs ==
  ASSUME AddrManAssumption, NEW am, Sound(am, {}, {}), am.nIdCount < MaxId,
         NEW a \in Address, a \notin DOMAIN am.mapAddr, NEW s \in Source
  PROVE  LET created == Create(am, a, s)
             to == [created EXCEPT !.nNew = @ + 1]
             id == created.nIdCount
         IN  /\ Sound(to, {id}, {}) /\ id \in Ids(to) \ Tried(to)
             /\ to.mapInfo[id].nRefCount = 0 /\ References(to, id) = {}
<1> DEFINE created == Create(am, a, s)
           to == [created EXCEPT !.nNew = @ + 1]
           id == am.nIdCount + 1
           r == [addr |-> a, source |-> s, nRefCount |-> 0, fInTried |-> FALSE,
                 nLastSuccess |-> 0, nRandomPos |-> Len(am.vRandom) + 1]
           info == MapPut(am.mapInfo, id, r)
           names == MapPut(am.mapAddr, a, id)
           list == Append(am.vRandom, id)
<1>1. IsCAddrMan(am) /\ HasMembers(am) BY DEF Sound, IsCAddrMan
<1>2. /\ am.mapInfo \in [Ids(am) -> CAddrInfo] /\ am.mapAddr \in [DOMAIN am.mapAddr -> Ids(am)]
      /\ am.vRandom \in Seq(Ids(am)) /\ am.nIdCount \in Nat /\ am.nNew \in Nat
      /\ Ids(am) \subseteq EntryId /\ DOMAIN am.mapAddr \subseteq Address
      /\ am.vvTried \in [TriedBucket -> Seq(Ids(am))] /\ am.vvNew \in [NewBucket -> SUBSET Ids(am)]
      /\ am.nTried \in Nat
  BY <1>1 DEF IsCAddrMan
<1>3. created = [am EXCEPT !.nIdCount = id, !.mapInfo = info, !.mapAddr = names, !.vRandom = list]
  BY <1>1 DEF Create, HasMembers
<1>4. /\ id \in EntryId /\ id \notin Ids(am) /\ id \in Nat /\ id <= MaxId
  <2>1. id \in 1..MaxId
    <3>1. am.nIdCount \in Nat /\ MaxId \in Nat BY <1>2, Sizes
    <3> QED BY <3>1
  <2>2. \A i \in Ids(am) : i <= am.nIdCount BY DEF Sound, Named
  <2> QED BY <1>2, <2>1, <2>2 DEF EntryId
<1>5. /\ r \in CAddrInfo /\ r.addr = a /\ r.nRefCount = 0 /\ r.fInTried = FALSE
      /\ r.nRandomPos = Len(am.vRandom) + 1
  BY <1>2 DEF CAddrInfo
<1>6. /\ info \in [Ids(am) \cup {id} -> CAddrInfo]
      /\ info[id] = r /\ \A i \in Ids(am) : info[i] = am.mapInfo[i]
  BY <1>2, <1>4, <1>5 DEF MapPut
<1>7. /\ names \in [DOMAIN am.mapAddr \cup {a} -> Ids(am) \cup {id}]
      /\ names[a] = id /\ \A n \in DOMAIN am.mapAddr : names[n] = am.mapAddr[n]
  BY <1>2 DEF MapPut
<1>8. /\ list \in Seq(Ids(am) \cup {id}) /\ Len(list) = Len(am.vRandom) + 1
      /\ DOMAIN list = DOMAIN am.vRandom \cup {Len(am.vRandom) + 1}
      /\ list[Len(am.vRandom) + 1] = id
      /\ \A p \in DOMAIN am.vRandom : list[p] = am.vRandom[p]
  BY <1>2
<1> HIDE DEF r, info, names, list
<1>9. /\ created.nNew = am.nNew /\ HasMembers(created) /\ created.nIdCount = id
      /\ created.mapInfo = info /\ created.mapAddr = names /\ created.vRandom = list
      /\ created.vvTried = am.vvTried /\ created.vvNew = am.vvNew /\ created.nTried = am.nTried
  BY <1>1, <1>3 DEF HasMembers
<1> HIDE DEF created
<1>10. /\ to.nNew = am.nNew + 1 /\ HasMembers(to)
       /\ to.mapInfo = info /\ to.mapAddr = names /\ to.vRandom = list
       /\ to.vvTried = am.vvTried /\ to.vvNew = am.vvNew /\ to.nTried = am.nTried
       /\ to.nIdCount = id
  BY <1>9 DEF HasMembers
<1> HIDE DEF to
<1>11. Ids(to) = Ids(am) \cup {id} /\ DOMAIN info = Ids(to) BY <1>6, <1>10 DEF Ids
<1>12. Tried(to) = Tried(am) BY <1>5, <1>6, <1>10, <1>11 DEF Tried
<1>13. IsCAddrMan(to)
  <2>1. /\ to.mapInfo \in [Ids(to) -> CAddrInfo] /\ Ids(to) \subseteq EntryId
        /\ DOMAIN to.mapAddr = DOMAIN am.mapAddr \cup {a} /\ DOMAIN to.mapAddr \subseteq Address
        /\ to.mapAddr \in [DOMAIN to.mapAddr -> Ids(to)]
    BY <1>2, <1>4, <1>6, <1>7, <1>10, <1>11
  <2>2. to.vRandom \in Seq(Ids(to)) BY <1>8, <1>10, <1>11
  <2>3. to.vvTried \in [TriedBucket -> Seq(Ids(to))]
    <3>1. ASSUME NEW b \in TriedBucket PROVE am.vvTried[b] \in Seq(Ids(to))
      <4>1. am.vvTried[b] \in Seq(Ids(am)) /\ Ids(am) \subseteq Ids(to) BY <1>2, <1>11
      <4> QED BY <4>1
    <3> QED BY <1>2, <1>10, <3>1
  <2>4. to.vvNew \in [NewBucket -> SUBSET Ids(to)] BY <1>2, <1>10, <1>11
  <2>5. {to.nNew, to.nTried} \subseteq Nat /\ to.nIdCount \in 0..MaxId
    <3>1. to.nNew = am.nNew + 1 /\ to.nTried = am.nTried /\ to.nIdCount = id BY <1>10
    <3>2. am.nNew \in Nat /\ am.nTried \in Nat /\ MaxId \in Nat BY <1>2, Sizes
    <3> QED BY <1>4, <3>1, <3>2
  <2> QED BY <1>10, <2>1, <2>2, <2>3, <2>4, <2>5 DEF IsCAddrMan
<1>14. Listed(to)
  <2>1. \A i \in Ids(am) : am.mapInfo[i].nRandomPos \in DOMAIN am.vRandom
                             /\ am.vRandom[am.mapInfo[i].nRandomPos] = i
    BY DEF Sound, Listed
  <2>2. \A p \in DOMAIN am.vRandom : am.vRandom[p] \in Ids(am)
                                       /\ am.mapInfo[am.vRandom[p]].nRandomPos = p
    BY DEF Sound, Listed
  <2>3. ASSUME NEW i \in Ids(to)
        PROVE  to.mapInfo[i].nRandomPos \in DOMAIN list /\ list[to.mapInfo[i].nRandomPos] = i
    BY <1>4, <1>5, <1>6, <1>8, <1>10, <1>11, <2>1
  <2>4. ASSUME NEW p \in DOMAIN list
        PROVE  list[p] \in Ids(to) /\ to.mapInfo[list[p]].nRandomPos = p
    BY <1>4, <1>5, <1>6, <1>8, <1>10, <1>11, <2>2
  <2> QED BY <1>10, <2>3, <2>4 DEF Listed
<1>15. Named(to)
  <2>1. \A i \in Ids(am) : /\ i <= am.nIdCount
                           /\ am.mapInfo[i].addr \in DOMAIN am.mapAddr
                           /\ am.mapAddr[am.mapInfo[i].addr] = i
    BY DEF Sound, Named
  <2>2. \A n \in DOMAIN am.mapAddr : /\ am.mapAddr[n] \in Ids(am)
                                     /\ am.mapInfo[am.mapAddr[n]].addr = n
    BY DEF Sound, Named
  <2>3. \A i \in Ids(am) : i \in Nat BY <1>2 DEF EntryId
  <2>4. ASSUME NEW i \in Ids(to)
        PROVE  i <= id /\ to.mapInfo[i].addr \in DOMAIN names /\ names[to.mapInfo[i].addr] = i
    BY <1>2, <1>4, <1>5, <1>6, <1>7, <1>10, <1>11, <2>1, <2>3
  <2>5. ASSUME NEW n \in DOMAIN names
        PROVE  names[n] \in Ids(to) /\ to.mapInfo[names[n]].addr = n
    BY <1>4, <1>5, <1>6, <1>7, <1>10, <1>11, <2>2
  <2> QED BY <1>10, <2>4, <2>5 DEF Named
<1>16. Counted(to, {})
  <2>1. Ids(to) \ (Tried(to) \cup {}) = (Ids(am) \ (Tried(am) \cup {})) \cup {id}
    BY <1>4, <1>11, <1>12 DEF Tried
  <2>2. IsFiniteSet(Ids(am) \ (Tried(am) \cup {})) BY <1>1, BucketsFinite, FS_Difference
  <2>3. Cardinality(Ids(to) \ (Tried(to) \cup {})) = Cardinality(Ids(am) \ (Tried(am) \cup {})) + 1
    <3> DEFINE N == Ids(am) \ (Tried(am) \cup {})
    <3>1. id \notin N BY <1>4
    <3> HIDE DEF N, id
    <3>2. Cardinality(N \cup {id}) = Cardinality(N) + 1 BY <2>2, <3>1, FS_AddElement DEF N
    <3> QED BY <2>1, <3>2 DEF N
  <2> QED BY <1>10, <1>12, <2>3 DEF Counted, Sound
<1>17. InNew(to) BY <1>10, <1>11, <1>12 DEF InNew, Sound
<1>18. \A i \in Ids(am) : References(to, i) = References(am, i) BY <1>10 DEF References
<1>19. Referred(to, {id}) BY <1>6, <1>10, <1>11, <1>12, <1>18 DEF Referred, Sound
<1>20. InTried(to)
  <2>1. InTried(am) /\ \A i \in Tried(am) : i \in Ids(am) BY DEF Sound, Tried
  <2>2. \A i \in Tried(am) : to.mapInfo[i] = am.mapInfo[i] BY <1>6, <1>10, <2>1
  <2>3. to.vvTried = am.vvTried /\ Tried(to) = Tried(am) BY <1>10, <1>12
  <2>4. \A i \in Tried(to) :
          /\ to.mapInfo[i].nLastSuccess > 0 /\ to.mapInfo[i].nRefCount = 0
          /\ \E p \in DOMAIN to.vvTried[GetTriedBucket[to.mapInfo[i].addr]] :
               to.vvTried[GetTriedBucket[to.mapInfo[i].addr]][p] = i
    BY <2>1, <2>2, <2>3 DEF InTried
  <2>5. \A b \in TriedBucket :
          /\ Len(to.vvTried[b]) <= TriedBucketSize
          /\ \A p, q \in DOMAIN to.vvTried[b] : to.vvTried[b][p] = to.vvTried[b][q] => p = q
    BY <2>1, <2>3 DEF InTried
  <2>6. ASSUME NEW b \in TriedBucket, NEW p \in DOMAIN to.vvTried[b]
        PROVE  /\ to.vvTried[b][p] \in Tried(to)
               /\ GetTriedBucket[to.mapInfo[to.vvTried[b][p]].addr] = b
    <3>1. /\ am.vvTried[b][p] \in Tried(am)
          /\ GetTriedBucket[am.mapInfo[am.vvTried[b][p]].addr] = b
      BY <2>1, <2>3, <2>6 DEF InTried
    <3> QED BY <2>2, <2>3, <3>1
  <2> QED BY <2>4, <2>5, <2>6 DEF InTried
<1>21. References(to, id) = {} BY <1>2, <1>4, <1>10 DEF References
<1>22. to.mapInfo[id].nRefCount = 0 /\ id \in Ids(to) \ Tried(to)
  BY <1>4, <1>5, <1>6, <1>10, <1>11, <1>12 DEF Tried
<1> QED BY <1>9, <1>13, <1>14, <1>15, <1>16, <1>17, <1>19, <1>20, <1>21, <1>22 DEF Sound, to, created

(* All but the last of a list. *)
LEMMA FrontIs ==
  ASSUME NEW S, NEW q \in Seq(S), Len(q) > 0
  PROVE  /\ Front(q) \in Seq(S) /\ DOMAIN Front(q) = DOMAIN q \ {Len(q)}
         /\ \A p \in DOMAIN Front(q) : Front(q)[p] = q[p]
<1>1. Len(q) \in Nat /\ Len(q) - 1 \in Nat OBVIOUS
<1> DEFINE n == Len(q) - 1
<1>2. \A i \in 1..n : q[i] \in S BY <1>1
<1>3. /\ SubSeq(q, 1, n) \in Seq(S) /\ Len(SubSeq(q, 1, n)) = IF 1 <= n THEN n - 1 + 1 ELSE 0
      /\ \A i \in 1..(n - 1 + 1) : SubSeq(q, 1, n)[i] = q[1 + i - 1]
  <2>1. 1 \in Int /\ n \in Int BY <1>1
  <2> HIDE DEF n
  <2> QED BY <1>2, <2>1, SubSeqProperties
<1>4. Front(q) = SubSeq(q, 1, n) BY DEF Front
<1>5. Front(q) \in Seq(S) /\ Len(Front(q)) = Len(q) - 1
  <2>1. n \in Nat /\ n = Len(q) - 1 BY <1>1
  <2> HIDE DEF n
  <2>2. n - 1 + 1 = n /\ (~(1 <= n) => n = 0) BY <2>1
  <2> DEFINE sub == SubSeq(q, 1, n)
  <2>3. sub \in Seq(S) /\ Len(sub) = IF 1 <= n THEN n - 1 + 1 ELSE 0 BY <1>3
  <2>4. Front(q) = sub BY <1>4
  <2> HIDE DEF sub
  <2> QED BY <2>1, <2>2, <2>3, <2>4
<1>6. \A p \in 1..(Len(q) - 1) : Front(q)[p] = q[p]
  <2> TAKE p \in 1..(Len(q) - 1)
  <2>1. p \in 1..(n - 1 + 1) /\ 1 + p - 1 = p BY <1>1
  <2> QED BY <1>3, <1>4, <2>1
<1>7. DOMAIN Front(q) = 1..(Len(q) - 1) BY <1>5
<1> QED BY <1>1, <1>5, <1>6, <1>7

(* A list whose elements are in T is a list over T. *)
LEMMA InSeq ==
  ASSUME NEW S, NEW T, NEW q \in Seq(S), \A p \in DOMAIN q : q[p] \in T
  PROVE  q \in Seq(T)
OBVIOUS

(* A reference goes, and it is not the last one. *)
LEMMA UnreferenceOne ==
  ASSUME AddrManAssumption, NEW am, NEW x \in Ids(am) \ Tried(am), Sound(am, {x}, {}),
         NEW b \in NewBucket, NEW k \in am.vvNew[b], k # x, am.mapInfo[k].nRefCount # 1
  PROVE  LET to == [Unreference(am, k) EXCEPT !.vvNew[b] = @ \ {k}]
         IN  /\ Sound(to, {x}, {}) /\ x \in Ids(to) \ Tried(to)
             /\ to.mapInfo[x].nRefCount = am.mapInfo[x].nRefCount
             /\ to.vvNew = [am.vvNew EXCEPT ![b] = @ \ {k}]
<1> DEFINE less == Recounted(am, k, am.mapInfo[k].nRefCount - 1)
           to2 == [am.vvNew EXCEPT ![b] = @ \ {k}]
           to == [Unreference(am, k) EXCEPT !.vvNew[b] = @ \ {k}]
<1>1. IsCAddrMan(am) /\ HasMembers(am) BY DEF Sound, IsCAddrMan
<1>2. k \in Ids(am) \ Tried(am) BY DEF Sound, InNew
<1>3. /\ am.mapInfo[k].nRefCount = Cardinality(References(am, k))
      /\ am.mapInfo[k].nRefCount \in 1..PerAddress /\ am.mapInfo[k].nRefCount - 1 \in 1..PerAddress
  <2>1. /\ am.mapInfo[k].nRefCount = Cardinality(References(am, k))
        /\ am.mapInfo[k].nRefCount \in 1..PerAddress
    BY <1>2 DEF Sound, Referred
  <2> QED BY <2>1, Sizes
<1>4. Unreference(am, k) = less BY DEF Unreference, Recounted
<1>5. /\ Sound(less, {x} \cup {k}, {}) /\ Ids(less) = Ids(am) /\ Tried(less) = Tried(am)
      /\ less.mapInfo[k].nRefCount = am.mapInfo[k].nRefCount - 1 /\ less.vvNew = am.vvNew
      /\ \A i \in Ids(am) \ {k} : less.mapInfo[i].nRefCount = am.mapInfo[i].nRefCount
  <2>1. PICK v \in Nat : v = am.mapInfo[k].nRefCount - 1 BY <1>3
  <2>2. less = Recounted(am, k, v) BY <2>1
  <2>3. PICK X : X = {x} OBVIOUS
  <2>4. PICK Y : Y = {} OBVIOUS
  <2>5. Sound(am, X, Y) BY <2>3, <2>4
  <2> HIDE DEF less
  <2>6. /\ Sound(less, X \cup {k}, Y) /\ Ids(less) = Ids(am) /\ Tried(less) = Tried(am)
        /\ less.mapInfo[k].nRefCount = v /\ less.vvNew = am.vvNew
        /\ \A i \in Ids(am) \ {k} : less.mapInfo[i].nRefCount = am.mapInfo[i].nRefCount
    BY <1>2, <2>2, <2>5, CountIs
  <2> QED BY <2>1, <2>3, <2>4, <2>6
<1> HIDE DEF less
<1>6. IsCAddrMan(less) /\ HasMembers(less) BY <1>5 DEF Sound, IsCAddrMan
<1>7. to = [less EXCEPT !.vvNew = to2] BY <1>4, <1>5, <1>6 DEF HasMembers
<1>8. /\ am.vvNew \in [NewBucket -> SUBSET Ids(am)] /\ less.mapInfo \in [Ids(am) -> CAddrInfo]
      /\ to2 \in [NewBucket -> SUBSET Ids(am)]
      /\ \A c \in NewBucket : to2[c] = IF c = b THEN am.vvNew[b] \ {k} ELSE am.vvNew[c]
  BY <1>1, <1>5, <1>6 DEF IsCAddrMan
<1> HIDE DEF to, to2
<1>9. /\ HasMembers(to) /\ to.mapInfo = less.mapInfo /\ to.vvNew = to2
      /\ to.mapAddr = less.mapAddr /\ to.vRandom = less.vRandom /\ to.vvTried = less.vvTried
      /\ to.nNew = less.nNew /\ to.nTried = less.nTried /\ to.nIdCount = less.nIdCount
  BY <1>6, <1>7 DEF HasMembers
<1>10. /\ IsCAddrMan(to) /\ Listed(to) /\ Named(to) /\ Counted(to, {}) /\ InTried(to)
       /\ Ids(to) = Ids(am) /\ Tried(to) = Tried(am)
  <2>1. Agree(less.mapInfo, to.mapInfo, {"nRefCount", "nLastSuccess"}) BY <1>9 DEF Agree
  <2>2. \A i \in Tried(less) : /\ to.mapInfo[i].nRefCount = less.mapInfo[i].nRefCount
                               /\ to.mapInfo[i].nLastSuccess > 0
    BY <1>5, <1>9 DEF Sound, InTried
  <2>3. less.mapInfo \in [Ids(less) -> CAddrInfo] /\ to2 \in [NewBucket -> SUBSET Ids(less)]
    BY <1>5, <1>8
  <2> HIDE DEF less
  <2> QED BY <1>5, <1>9, <2>1, <2>2, <2>3, Transfer
<1>11. InNew(to)
  <2>1. ASSUME NEW c \in NewBucket
        PROVE  to2[c] \subseteq Ids(am) \ Tried(am) /\ Cardinality(to2[c]) <= NewBucketSize
    <3>1. /\ am.vvNew[c] \subseteq Ids(am) \ Tried(am) /\ Cardinality(am.vvNew[c]) <= NewBucketSize
          /\ IsFiniteSet(am.vvNew[c]) /\ to2[c] \in SUBSET am.vvNew[c]
      BY <1>1, <1>8, BucketsFinite DEF Sound, InNew
    <3>2. /\ Cardinality(to2[c]) <= Cardinality(am.vvNew[c])
          /\ Cardinality(to2[c]) \in Nat /\ Cardinality(am.vvNew[c]) \in Nat
      BY <3>1, FS_Subset, FS_CardinalityType
    <3> QED BY <3>1, <3>2, Sizes
  <2> QED BY <1>9, <1>10, <2>1 DEF InNew
<1>12. Referred(to, {x})
  <2>1. \A i \in Ids(am) \ {k} : References(to, i) = References(am, i)
    BY <1>8, <1>9 DEF References
  <2>2. References(to, k) = References(am, k) \ {b} /\ b \in References(am, k)
    BY <1>8, <1>9 DEF References
  <2>3. Cardinality(References(to, k)) = Cardinality(References(am, k)) - 1
    BY <1>1, <2>2, BucketsFinite, FS_RemoveElement
  <2>4. ASSUME NEW i \in Ids(to) \ (Tried(to) \cup {x})
        PROVE  /\ to.mapInfo[i].nRefCount = Cardinality(References(to, i))
               /\ to.mapInfo[i].nRefCount \in 1..PerAddress
    <3>1. CASE i = k BY <1>3, <1>5, <1>9, <2>3, <3>1
    <3>2. CASE i # k
      <4>1. /\ am.mapInfo[i].nRefCount = Cardinality(References(am, i))
            /\ am.mapInfo[i].nRefCount \in 1..PerAddress
        BY <1>10, <3>2 DEF Sound, Referred
      <4> QED BY <1>5, <1>9, <1>10, <2>1, <3>2, <4>1
    <3> QED BY <3>1, <3>2
  <2> QED BY <2>4 DEF Referred
<1>13. x \in Ids(to) \ Tried(to) /\ to.mapInfo[x].nRefCount = am.mapInfo[x].nRefCount
  BY <1>5, <1>9, <1>10
<1> QED BY <1>9, <1>10, <1>11, <1>12, <1>13 DEF Sound, to, to2

HasOne(am, k) == am.mapInfo[k].nRefCount = 1

(* The last reference of an entry goes, and the entry with it. *)
LEMMA UnreferenceLast ==
  ASSUME AddrManAssumption, NEW am, NEW x \in Ids(am) \ Tried(am), Sound(am, {x}, {}),
         NEW b \in NewBucket, NEW k \in am.vvNew[b], k # x, HasOne(am, k)
  PROVE  LET to == [Unreference(am, k) EXCEPT !.vvNew[b] = @ \ {k}]
         IN  /\ Sound(to, {x}, {}) /\ x \in Ids(to) \ Tried(to)
             /\ to.mapInfo[x].nRefCount = am.mapInfo[x].nRefCount
             /\ to.vvNew = [am.vvNew EXCEPT ![b] = @ \ {k}]
<1> DEFINE pos == am.mapInfo[k].nRandomPos
           last == Len(am.vRandom)
           swapped == SwapRandom(am, pos, last)
           addr == am.mapInfo[k].addr
           list == Front(swapped.vRandom)
           names == [n \in DOMAIN am.mapAddr \ {addr} |-> am.mapAddr[n]]
           info == [i \in Ids(am) \ {k} |-> swapped.mapInfo[i]]
           buckets == [am.vvNew EXCEPT ![b] = @ \ {k}]
           to == [Unreference(am, k) EXCEPT !.vvNew[b] = @ \ {k}]
<1>0. am.mapInfo[k].nRefCount = 1 BY DEF HasOne
<1>1. IsCAddrMan(am) /\ HasMembers(am) /\ Listed(am) BY DEF Sound, IsCAddrMan
<1>2. /\ am.mapInfo \in [Ids(am) -> CAddrInfo] /\ am.mapAddr \in [DOMAIN am.mapAddr -> Ids(am)]
      /\ am.vRandom \in Seq(Ids(am)) /\ am.nIdCount \in 0..MaxId
      /\ Ids(am) \subseteq EntryId /\ DOMAIN am.mapAddr \subseteq Address
      /\ am.vvTried \in [TriedBucket -> Seq(Ids(am))] /\ am.vvNew \in [NewBucket -> SUBSET Ids(am)]
      /\ am.nTried \in Nat /\ am.nNew \in Nat
  BY <1>1 DEF IsCAddrMan
<1>3. k \in Ids(am) \ Tried(am) /\ b \in References(am, k) BY DEF Sound, InNew, References
<1>4. pos \in DOMAIN am.vRandom /\ am.vRandom[pos] = k BY <1>1, <1>3 DEF Listed
<1>5. last \in DOMAIN am.vRandom /\ last \in Nat /\ last > 0 BY <1>2, <1>4
<1>6. /\ IsCAddrMan(swapped) /\ Listed(swapped)
      /\ Ids(swapped) = Ids(am) /\ DOMAIN swapped.vRandom = DOMAIN am.vRandom
      /\ swapped.vRandom[last] = k
      /\ Agree(am.mapInfo, swapped.mapInfo, {"nRandomPos"})
      /\ swapped.mapAddr = am.mapAddr /\ swapped.vvTried = am.vvTried /\ swapped.vvNew = am.vvNew
      /\ swapped.nNew = am.nNew /\ swapped.nTried = am.nTried /\ swapped.nIdCount = am.nIdCount
  BY <1>1, <1>4, <1>5, SwapIs
<1>7. /\ HasMembers(swapped) /\ swapped.mapInfo \in [Ids(am) -> CAddrInfo]
      /\ swapped.vRandom \in Seq(Ids(am))
  BY <1>6 DEF IsCAddrMan
<1>8. /\ Unreference(am, k) = [swapped EXCEPT !.vRandom = list, !.mapAddr = names,
                                              !.mapInfo = info, !.nNew = @ - 1]
  BY <1>0, <1>6, <1>7 DEF Unreference, HasMembers
<1>9. /\ list \in Seq(Ids(am)) /\ DOMAIN list = DOMAIN am.vRandom \ {last}
      /\ \A p \in DOMAIN list : list[p] = swapped.vRandom[p]
  <2>1. Len(swapped.vRandom) = last BY <1>2, <1>6, <1>7
  <2> HIDE DEF swapped, last
  <2> QED BY <1>5, <1>6, <1>7, <2>1, FrontIs
<1>10. /\ DOMAIN info = Ids(am) \ {k} /\ \A i \in Ids(am) \ {k} : info[i] = swapped.mapInfo[i]
       /\ DOMAIN names = DOMAIN am.mapAddr \ {addr}
       /\ \A n \in DOMAIN names : names[n] = am.mapAddr[n]
       /\ buckets \in [NewBucket -> SUBSET Ids(am)]
       /\ \A c \in NewBucket : buckets[c] = IF c = b THEN am.vvNew[b] \ {k} ELSE am.vvNew[c]
  BY <1>2
<1> HIDE DEF list, names, info, buckets
<1>11. /\ HasMembers(to) /\ to.vRandom = list /\ to.mapAddr = names /\ to.mapInfo = info
       /\ to.nNew = am.nNew - 1 /\ to.vvNew = buckets
       /\ to.vvTried = am.vvTried /\ to.nTried = am.nTried /\ to.nIdCount = am.nIdCount
  <2> DEFINE less == Unreference(am, k)
  <2> HIDE DEF swapped
  <2>1. /\ HasMembers(less) /\ less.vRandom = list /\ less.mapAddr = names /\ less.mapInfo = info
        /\ less.nNew = am.nNew - 1 /\ less.vvNew = am.vvNew
        /\ less.vvTried = am.vvTried /\ less.nTried = am.nTried /\ less.nIdCount = am.nIdCount
    BY <1>6, <1>7, <1>8, ZenonT(40) DEF HasMembers
  <2> HIDE DEF less
  <2>2. to = [less EXCEPT !.vvNew = buckets] BY <2>1 DEF HasMembers, buckets, less
  <2> HIDE DEF to
  <2> QED BY <2>1, <2>2 DEF HasMembers
<1> HIDE DEF to, swapped, pos, last
<1>12. Ids(to) = Ids(am) \ {k} BY <1>10, <1>11 DEF Ids
<1>13. \A i \in Ids(to) : /\ to.mapInfo[i] \in CAddrInfo
                          /\ to.mapInfo[i].nRandomPos = swapped.mapInfo[i].nRandomPos
                          /\ to.mapInfo[i].addr = am.mapInfo[i].addr
                          /\ to.mapInfo[i].nRefCount = am.mapInfo[i].nRefCount
                          /\ to.mapInfo[i].fInTried = am.mapInfo[i].fInTried
                          /\ to.mapInfo[i].nLastSuccess = am.mapInfo[i].nLastSuccess
  BY <1>6, <1>7, <1>10, <1>11, <1>12 DEF Agree, Ids
<1>14. Tried(to) = Tried(am) BY <1>3, <1>12, <1>13 DEF Tried
<1>15. Listed(to)
  <2>1. ASSUME NEW i \in Ids(to)
        PROVE  /\ swapped.mapInfo[i].nRandomPos \in DOMAIN list
               /\ list[swapped.mapInfo[i].nRandomPos] = i
    <3>1. /\ swapped.mapInfo[i].nRandomPos \in DOMAIN swapped.vRandom
          /\ swapped.vRandom[swapped.mapInfo[i].nRandomPos] = i
      BY <1>6, <1>12 DEF Listed
    <3>2. i # k BY <1>12
    <3> QED BY <1>6, <1>9, <3>1, <3>2
  <2>2. ASSUME NEW p \in DOMAIN list
        PROVE  list[p] \in Ids(to) /\ swapped.mapInfo[list[p]].nRandomPos = p
    <3>1. swapped.vRandom[p] \in Ids(am) /\ swapped.mapInfo[swapped.vRandom[p]].nRandomPos = p
      BY <1>6, <1>9 DEF Listed
    <3>2. swapped.mapInfo[k].nRandomPos = last BY <1>5, <1>6 DEF Listed
    <3>3. p # last BY <1>9
    <3> QED BY <1>9, <1>12, <3>1, <3>2, <3>3
  <2> QED BY <1>11, <1>13, <2>1, <2>2 DEF Listed
<1>16. Named(to)
  <2>1. \A i \in Ids(am) : /\ i <= am.nIdCount
                           /\ am.mapInfo[i].addr \in DOMAIN am.mapAddr
                           /\ am.mapAddr[am.mapInfo[i].addr] = i
    BY DEF Sound, Named
  <2>2. \A n \in DOMAIN am.mapAddr : /\ am.mapAddr[n] \in Ids(am)
                                     /\ am.mapInfo[am.mapAddr[n]].addr = n
    BY DEF Sound, Named
  <2>3. ASSUME NEW i \in Ids(to)
        PROVE  i <= to.nIdCount /\ to.mapInfo[i].addr \in DOMAIN names /\ names[to.mapInfo[i].addr] = i
    <3>1. i \in Ids(am) /\ i # k BY <1>12
    <3>2. am.mapInfo[i].addr # addr BY <1>3, <2>1, <3>1
    <3> QED BY <1>10, <1>11, <1>13, <2>1, <3>1, <3>2
  <2>4. ASSUME NEW n \in DOMAIN names
        PROVE  names[n] \in Ids(to) /\ to.mapInfo[names[n]].addr = n
    <3>1. am.mapAddr[n] \in Ids(am) /\ am.mapInfo[am.mapAddr[n]].addr = n /\ n # addr
      BY <1>10, <2>2
    <3>2. am.mapAddr[n] # k BY <3>1
    <3> QED BY <1>10, <1>12, <1>13, <3>1, <3>2
  <2> QED BY <1>11, <2>3, <2>4 DEF Named
<1>17. Counted(to, {}) /\ to.nNew \in Nat
  <2> DEFINE N == Ids(am) \ (Tried(am) \cup {})
  <2>1. Ids(to) \ (Tried(to) \cup {}) = N \ {k} /\ k \in N BY <1>3, <1>12, <1>14
  <2>2. IsFiniteSet(N) BY <1>1, BucketsFinite, FS_Difference
  <2>3. am.nNew = Cardinality(N) /\ am.nTried = Cardinality(Tried(am)) BY DEF Sound, Counted
  <2> HIDE DEF N
  <2>4. Cardinality(N \ {k}) = Cardinality(N) - 1 /\ Cardinality(N \ {k}) \in Nat
    BY <2>1, <2>2, FS_RemoveElement, FS_CardinalityType
  <2> QED BY <1>11, <1>14, <2>1, <2>3, <2>4 DEF Counted
<1>18. References(am, k) = {b}
  <2>1. Cardinality(References(am, k)) = 1 BY <1>0, <1>3 DEF Sound, Referred
  <2>2. IsFiniteSet(References(am, k)) BY <1>1, BucketsFinite
  <2> QED BY <1>3, <2>1, <2>2, FS_Singleton
<1>19. \A c \in NewBucket : buckets[c] = am.vvNew[c] \ {k}
  BY <1>10, <1>18 DEF References
<1>20. InNew(to)
  <2>1. ASSUME NEW c \in NewBucket
        PROVE  buckets[c] \subseteq Ids(to) \ Tried(to) /\ Cardinality(buckets[c]) <= NewBucketSize
    <3>1. /\ am.vvNew[c] \subseteq Ids(am) \ Tried(am) /\ Cardinality(am.vvNew[c]) <= NewBucketSize
          /\ IsFiniteSet(am.vvNew[c]) /\ buckets[c] \in SUBSET am.vvNew[c]
      BY <1>1, <1>19, BucketsFinite DEF Sound, InNew
    <3>2. /\ Cardinality(buckets[c]) <= Cardinality(am.vvNew[c])
          /\ Cardinality(buckets[c]) \in Nat /\ Cardinality(am.vvNew[c]) \in Nat
      BY <3>1, FS_Subset, FS_CardinalityType
    <3>3. Cardinality(buckets[c]) <= NewBucketSize BY <3>1, <3>2, Sizes
    <3> QED BY <1>12, <1>14, <1>19, <3>1, <3>3
  <2> QED BY <1>11, <2>1 DEF InNew
<1>21. \A i \in Ids(to) : References(to, i) = References(am, i)
  BY <1>11, <1>12, <1>19 DEF References
<1>22. Referred(to, {x})
  <2>1. ASSUME NEW i \in Ids(to) \ (Tried(to) \cup {x})
        PROVE  /\ to.mapInfo[i].nRefCount = Cardinality(References(to, i))
               /\ to.mapInfo[i].nRefCount \in 1..PerAddress
    <3>1. /\ am.mapInfo[i].nRefCount = Cardinality(References(am, i))
          /\ am.mapInfo[i].nRefCount \in 1..PerAddress
      BY <1>12, <1>14 DEF Sound, Referred
    <3> QED BY <1>13, <1>21, <3>1
  <2> QED BY <2>1 DEF Referred
<1>23. InTried(to)
  <2>1. InTried(am) /\ \A i \in Tried(am) : i \in Ids(to) BY <1>12, <1>14 DEF Sound, Tried
  <2>2. \A i \in Tried(am) : /\ to.mapInfo[i].addr = am.mapInfo[i].addr
                             /\ to.mapInfo[i].nRefCount = am.mapInfo[i].nRefCount
                             /\ to.mapInfo[i].nLastSuccess = am.mapInfo[i].nLastSuccess
    BY <1>13, <2>1
  <2>3. ASSUME NEW i \in Tried(to)
        PROVE  /\ to.mapInfo[i].nLastSuccess > 0 /\ to.mapInfo[i].nRefCount = 0
               /\ \E p \in DOMAIN to.vvTried[GetTriedBucket[to.mapInfo[i].addr]] :
                    to.vvTried[GetTriedBucket[to.mapInfo[i].addr]][p] = i
    <3>1. /\ am.mapInfo[i].nLastSuccess > 0 /\ am.mapInfo[i].nRefCount = 0
          /\ \E p \in DOMAIN am.vvTried[GetTriedBucket[am.mapInfo[i].addr]] :
               am.vvTried[GetTriedBucket[am.mapInfo[i].addr]][p] = i
      BY <1>14, <2>1 DEF InTried
    <3> QED BY <1>11, <1>14, <2>2, <3>1
  <2>4. ASSUME NEW c \in TriedBucket
        PROVE  /\ Len(to.vvTried[c]) <= TriedBucketSize
               /\ \A p \in DOMAIN to.vvTried[c] :
                    /\ to.vvTried[c][p] \in Tried(to)
                    /\ GetTriedBucket[to.mapInfo[to.vvTried[c][p]].addr] = c
               /\ \A p, q \in DOMAIN to.vvTried[c] : to.vvTried[c][p] = to.vvTried[c][q] => p = q
    <3>1. /\ Len(am.vvTried[c]) <= TriedBucketSize
          /\ \A p \in DOMAIN am.vvTried[c] :
               /\ am.vvTried[c][p] \in Tried(am)
               /\ GetTriedBucket[am.mapInfo[am.vvTried[c][p]].addr] = c
          /\ \A p, q \in DOMAIN am.vvTried[c] : am.vvTried[c][p] = am.vvTried[c][q] => p = q
      BY <2>1 DEF InTried
    <3> QED BY <1>11, <1>14, <2>2, <3>1
  <2> QED BY <2>3, <2>4 DEF InTried
<1>24. IsCAddrMan(to)
  <2>1. /\ to.mapInfo \in [Ids(to) -> CAddrInfo] /\ Ids(to) \subseteq EntryId
        /\ DOMAIN to.mapAddr \subseteq Address
    <3>1. info \in [Ids(to) -> CAddrInfo] BY <1>7, <1>12 DEF info
    <3> QED BY <1>2, <1>10, <1>11, <1>12, <3>1
  <2>2. to.mapAddr \in [DOMAIN to.mapAddr -> Ids(to)]
    <3>1. \A n \in DOMAIN names : names[n] \in Ids(to) BY <1>11, <1>16 DEF Named
    <3>2. names = [n \in DOMAIN names |-> names[n]] BY DEF names
    <3> QED BY <1>11, <3>1, <3>2
  <2>3. to.vRandom \in Seq(Ids(to))
    <3>1. \A p \in DOMAIN list : list[p] \in Ids(to) BY <1>11, <1>15 DEF Listed
    <3> QED BY <1>9, <1>11, <3>1, InSeq
  <2>4. to.vvTried \in [TriedBucket -> Seq(Ids(to))]
    <3>1. ASSUME NEW c \in TriedBucket PROVE am.vvTried[c] \in Seq(Ids(to))
      <4>1. am.vvTried[c] \in Seq(Ids(am)) BY <1>2
      <4>2. \A p \in DOMAIN am.vvTried[c] : am.vvTried[c][p] \in Ids(to)
        BY <1>12, <1>14 DEF Sound, InTried, Tried
      <4> QED BY <4>1, <4>2
    <3> QED BY <1>2, <1>11, <3>1
  <2>5. to.vvNew \in [NewBucket -> SUBSET Ids(to)]
    <3>1. \A c \in NewBucket : buckets[c] \subseteq Ids(to) BY <1>11, <1>20 DEF InNew
    <3> QED BY <1>10, <1>11, <3>1
  <2>6. {to.nNew, to.nTried} \subseteq Nat /\ to.nIdCount \in 0..MaxId BY <1>2, <1>11, <1>17
  <2> QED BY <1>11, <2>1, <2>2, <2>3, <2>4, <2>5, <2>6 DEF IsCAddrMan
<1>25. x \in Ids(to) \ Tried(to) /\ to.mapInfo[x].nRefCount = am.mapInfo[x].nRefCount
  BY <1>12, <1>13, <1>14
<1> QED BY <1>11, <1>15, <1>16, <1>17, <1>20, <1>22, <1>23, <1>24, <1>25 DEF Sound, to, buckets


---------------------------------------------------------------------------
(* Add_ *)

(* An exception that is not needed does no harm. *)
LEMMA Weaken ==
  ASSUME NEW am, NEW x, Sound(am, {}, {})
  PROVE  Sound(am, {x}, {})
BY DEF Sound, Referred

(* A reference of another entry than x goes, the last one or not. *)
LEMMA UnreferenceIs ==
  ASSUME AddrManAssumption, NEW am, NEW x \in Ids(am) \ Tried(am), Sound(am, {x}, {}),
         NEW b \in NewBucket, NEW k \in am.vvNew[b], k # x
  PROVE  LET to == [Unreference(am, k) EXCEPT !.vvNew[b] = @ \ {k}]
         IN  /\ Sound(to, {x}, {}) /\ x \in Ids(to) \ Tried(to)
             /\ to.mapInfo[x].nRefCount = am.mapInfo[x].nRefCount
             /\ to.vvNew = [am.vvNew EXCEPT ![b] = @ \ {k}]
<1>1. CASE am.mapInfo[k].nRefCount # 1 BY <1>1, UnreferenceOne
<1>2. CASE HasOne(am, k) BY <1>2, UnreferenceLast, Z3
<1> QED BY <1>1, <1>2 DEF HasOne

(* ShrinkNew makes room in a full bucket, and leaves an entry alone that   *)
(* is not in it.                                                           *)
LEMMA ShrinkIs ==
  ASSUME AddrManAssumption, NEW am, NEW x \in Ids(am) \ Tried(am), Sound(am, {x}, {}),
         NEW b \in NewBucket, x \notin am.vvNew[b], Cardinality(am.vvNew[b]) = NewBucketSize,
         NEW to \in ShrinkNew(am, b)
  PROVE  /\ Sound(to, {x}, {}) /\ x \in Ids(to) \ Tried(to)
         /\ to.mapInfo[x].nRefCount = am.mapInfo[x].nRefCount
         /\ References(to, x) = References(am, x)
         /\ x \notin to.vvNew[b] /\ Cardinality(to.vvNew[b]) < NewBucketSize
<1>1. PICK k \in am.vvNew[b] : to = [Unreference(am, k) EXCEPT !.vvNew[b] = @ \ {k}]
  BY DEF ShrinkNew
<1>2. k # x OBVIOUS
<1>3. /\ Sound(to, {x}, {}) /\ x \in Ids(to) \ Tried(to)
      /\ to.mapInfo[x].nRefCount = am.mapInfo[x].nRefCount
      /\ to.vvNew = [am.vvNew EXCEPT ![b] = @ \ {k}]
  <2> DEFINE t == [Unreference(am, k) EXCEPT !.vvNew[b] = @ \ {k}]
  <2>1. /\ Sound(t, {x}, {}) /\ x \in Ids(t) \ Tried(t)
        /\ t.mapInfo[x].nRefCount = am.mapInfo[x].nRefCount
        /\ t.vvNew = [am.vvNew EXCEPT ![b] = @ \ {k}]
    BY <1>2, UnreferenceIs, Z3
  <2>2. to = t BY <1>1
  <2> HIDE DEF t
  <2> QED BY <2>1, <2>2
<1>4. IsCAddrMan(am) BY DEF Sound
<1>5. /\ am.vvNew \in [NewBucket -> SUBSET Ids(am)]
      /\ \A c \in NewBucket : to.vvNew[c] = IF c = b THEN am.vvNew[b] \ {k} ELSE am.vvNew[c]
  BY <1>3, <1>4 DEF IsCAddrMan
<1>6. References(to, x) = References(am, x) /\ x \notin to.vvNew[b]
  BY <1>2, <1>5 DEF References
<1>7. Cardinality(am.vvNew[b] \ {k}) = Cardinality(am.vvNew[b]) - 1
  BY <1>4, BucketsFinite, FS_RemoveElement
<1>8. Cardinality(to.vvNew[b]) < NewBucketSize BY <1>5, <1>7, Sizes
<1> QED BY <1>3, <1>6, <1>8

(* One reference more. *)
LEMMA InsertIs ==
  ASSUME AddrManAssumption, NEW am, NEW x \in Ids(am) \ Tried(am), Sound(am, {x}, {}),
         am.mapInfo[x].nRefCount = Cardinality(References(am, x)),
         am.mapInfo[x].nRefCount < PerAddress,
         NEW b \in NewBucket, x \in am.vvNew[b] => Sound(am, {}, {}),
         NEW to \in Insert(am, x, b)
  PROVE  Sound(to, {}, {})
<1> DEFINE n == am.mapInfo[x].nRefCount + 1
           counted == Recounted(am, x, n)
<1>1. CASE x \in am.vvNew[b] BY <1>1 DEF Insert
<1>2. CASE x \notin am.vvNew[b]
  <2>1. IsCAddrMan(am) BY DEF Sound
  <2>2. am.mapInfo[x].nRefCount \in Nat BY <2>1 DEF IsCAddrMan, CAddrInfo
  <2>3. PICK v \in 1..PerAddress : v = n BY <2>2, Sizes
  <2>4. [am EXCEPT !.mapInfo[x].nRefCount = @ + 1] = counted BY DEF Recounted
  <2>5. PICK X : X = {x} OBVIOUS
  <2>6. PICK Y : Y = {} OBVIOUS
  <2>7. Sound(am, X, Y) BY <2>5, <2>6
  <2>8. v \in Nat /\ counted = Recounted(am, x, v) BY <2>3, Sizes
  <2> HIDE DEF counted
  <2>9. /\ Sound(counted, X \cup {x}, Y) /\ Ids(counted) = Ids(am) /\ Tried(counted) = Tried(am)
        /\ counted.mapInfo[x].nRefCount = v /\ counted.vvNew = am.vvNew
    BY <2>7, <2>8, CountIs, Z3
  <2>10. Sound(counted, {x}, {}) BY <2>5, <2>6, <2>9
  <2>11. References(counted, x) = References(am, x) BY <2>9 DEF References
  <2>12. PICK y : /\ y \in IF Cardinality(am.vvNew[b]) = NewBucketSize
                           THEN ShrinkNew(counted, b) ELSE {counted}
                  /\ to = Put(y, b, x)
    BY <1>2, <2>4 DEF Insert, Put
  <2>13. /\ Sound(y, {x}, {}) /\ x \in Ids(y) \ Tried(y)
         /\ y.mapInfo[x].nRefCount = v /\ References(y, x) = References(am, x)
         /\ x \notin y.vvNew[b] /\ Cardinality(y.vvNew[b]) < NewBucketSize
    <3>1. CASE Cardinality(am.vvNew[b]) = NewBucketSize
      <4>1. y \in ShrinkNew(counted, b) BY <2>12, <3>1
      <4>2. /\ x \in Ids(counted) \ Tried(counted) /\ x \notin counted.vvNew[b]
            /\ Cardinality(counted.vvNew[b]) = NewBucketSize
        BY <1>2, <2>9, <3>1
      <4> HIDE DEF counted
      <4>3. /\ Sound(y, {x}, {}) /\ x \in Ids(y) \ Tried(y)
            /\ y.mapInfo[x].nRefCount = counted.mapInfo[x].nRefCount
            /\ References(y, x) = References(counted, x)
            /\ x \notin y.vvNew[b] /\ Cardinality(y.vvNew[b]) < NewBucketSize
        BY <2>10, <4>1, <4>2, ShrinkIs, Z3
      <4> QED BY <2>9, <2>11, <4>3
    <3>2. CASE Cardinality(am.vvNew[b]) # NewBucketSize
      <4>1. Cardinality(am.vvNew[b]) <= NewBucketSize /\ Cardinality(am.vvNew[b]) \in Nat
        BY <2>1, BucketsFinite, FS_CardinalityType DEF Sound, InNew
      <4>2. Cardinality(am.vvNew[b]) < NewBucketSize BY <3>2, <4>1, Sizes
      <4>3. y = counted BY <2>12, <3>2
      <4> QED BY <1>2, <2>9, <2>10, <2>11, <4>2, <4>3
    <3> QED BY <3>1, <3>2
  <2>14. y.mapInfo[x].nRefCount = Cardinality(References(y, x)) + 1 BY <2>3, <2>13
  <2>15. y.mapInfo[x].nRefCount \in 1..PerAddress BY <2>13
  <2>16. PICK z \in Ids(y) \ Tried(y) : z = x BY <2>13
  <2>17. Sound(y, {z}, Y) BY <2>6, <2>13, <2>16
  <2>18. Sound(Put(y, b, z), {}, Y)
    BY <2>13, <2>14, <2>15, <2>16, <2>17, PutIs
  <2> QED BY <2>6, <2>12, <2>16, <2>18
<1> QED BY <1>1, <1>2

(* Add_ keeps the tables sound. *)
LEMMA AddStep ==
  ASSUME AddrManAssumption, AddrInv, NEW a \in Address, NEW s \in Source, Add(a, s)
  PROVE  AddrInv'
<1> DEFINE am == addrman
           b == GetNewBucket[<<a, s>>]
<1>1. IsCAddrMan(am) /\ Sound(am, {}, {}) BY DEF AddrInv, Sound
<1>2. b \in NewBucket BY DEF AddrManAssumption
<1>3. CASE a \in DOMAIN am.mapAddr
  <2> DEFINE id == am.mapAddr[a]
  <2>1. /\ ~am.mapInfo[id].fInTried /\ am.mapInfo[id].nRefCount # PerAddress
        /\ addrman' \in Insert(am, id, b)
    BY <1>3 DEF Add
  <2>2. id \in Ids(am) \ Tried(am) BY <1>1, <1>3, <2>1 DEF Sound, Named, Tried
  <2>3. /\ am.mapInfo[id].nRefCount = Cardinality(References(am, id))
        /\ am.mapInfo[id].nRefCount \in 1..PerAddress
    BY <1>1, <2>2 DEF Sound, Referred
  <2>4. am.mapInfo[id].nRefCount < PerAddress BY <2>1, <2>3, Sizes
  <2>5. PICK x : x = id OBVIOUS
  <2>6. Sound(am, {x}, {}) BY <1>1, Weaken
  <2> HIDE DEF b
  <2>7. Sound(addrman', {}, {}) BY <1>1, <1>2, <2>1, <2>2, <2>3, <2>4, <2>5, <2>6, InsertIs
  <2> QED BY <2>7 DEF AddrInv
<1>4. CASE a \notin DOMAIN am.mapAddr
  <2> DEFINE created == Create(am, a, s)
             new == [created EXCEPT !.nNew = @ + 1]
             id == created.nIdCount
  <2>1. am.nIdCount < MaxId /\ addrman' \in Insert(new, id, b) BY <1>4 DEF Add
  <2>2. /\ Sound(new, {id}, {}) /\ id \in Ids(new) \ Tried(new)
        /\ new.mapInfo[id].nRefCount = 0 /\ References(new, id) = {}
    BY <1>1, <1>4, <2>1, CreateIs
  <2> HIDE DEF b, new, id
  <2>3. new.mapInfo[id].nRefCount = Cardinality(References(new, id)) BY <2>2, FS_EmptySet
  <2>4. id \notin new.vvNew[b] BY <1>2, <2>2 DEF References
  <2>5. new.mapInfo[id].nRefCount < PerAddress BY <2>2, Sizes
  <2>6. PICK x : x = id OBVIOUS
  <2>7. Sound(addrman', {}, {}) BY <1>2, <2>1, <2>2, <2>3, <2>4, <2>5, <2>6, InsertIs
  <2> QED BY <2>7 DEF AddrInv
<1> QED BY <1>3, <1>4


---------------------------------------------------------------------------
(* MakeTried *)

(* The entry out of the new buckets. *)
Aside(am, x) ==
  [am EXCEPT !.vvNew = [b \in NewBucket |-> am.vvNew[b] \ {x}],
             !.mapInfo[x].nRefCount = @ - Cardinality(References(am, x)),
             !.nNew = @ - 1]

LEMMA AsideIs ==
  ASSUME AddrManAssumption, NEW am, Sound(am, {}, {}), NEW x \in Ids(am) \ Tried(am)
  PROVE  LET to == Aside(am, x)
         IN  /\ Sound(to, {x}, {x}) /\ x \in Ids(to) \ Tried(to)
             /\ to.mapInfo[x].nRefCount = 0
             /\ to.mapInfo[x].nLastSuccess = am.mapInfo[x].nLastSuccess
             /\ to.mapInfo[x].addr = am.mapInfo[x].addr
             /\ \A b \in NewBucket : to.vvNew[b] = am.vvNew[b] \ {x}
<1> DEFINE less == Recounted(am, x, 0)
           buckets == [b \in NewBucket |-> am.vvNew[b] \ {x}]
           to == Aside(am, x)
           mid == [to EXCEPT !.nNew = am.nNew]
<1>1. IsCAddrMan(am) /\ HasMembers(am) BY DEF Sound, IsCAddrMan
<1>2. /\ am.mapInfo[x].nRefCount = Cardinality(References(am, x))
      /\ am.mapInfo[x].nRefCount \in Nat
  BY <1>1 DEF Sound, Referred, IsCAddrMan, CAddrInfo
<1>3. am.mapInfo[x].nRefCount - Cardinality(References(am, x)) = 0 BY <1>2
<1>4. /\ Sound(less, {x}, {}) /\ Ids(less) = Ids(am) /\ Tried(less) = Tried(am)
      /\ less.mapInfo[x].nRefCount = 0 /\ less.vvNew = am.vvNew
      /\ Agree(am.mapInfo, less.mapInfo, {"nRefCount"}) /\ less.nIdCount = am.nIdCount
      /\ \A i \in Ids(am) \ {x} : less.mapInfo[i].nRefCount = am.mapInfo[i].nRefCount
  <2>1. PICK X : X = {} OBVIOUS
  <2>2. Sound(am, X, X) BY <2>1
  <2>3. PICK v \in Nat : v = 0 OBVIOUS
  <2>4. less = Recounted(am, x, v) BY <2>3
  <2> HIDE DEF less
  <2>5. /\ Sound(less, X \cup {x}, X) /\ Ids(less) = Ids(am) /\ Tried(less) = Tried(am)
        /\ less.mapInfo[x].nRefCount = v /\ less.vvNew = am.vvNew
        /\ Agree(am.mapInfo, less.mapInfo, {"nRefCount"}) /\ less.nIdCount = am.nIdCount
        /\ \A i \in Ids(am) \ {x} : less.mapInfo[i].nRefCount = am.mapInfo[i].nRefCount
    BY <2>2, <2>4, CountIs, Z3
  <2> QED BY <2>1, <2>3, <2>5
<1>5. /\ less.mapInfo = SetRefCount(am.mapInfo, x, 0)
      /\ less.mapAddr = am.mapAddr /\ less.vRandom = am.vRandom /\ less.vvTried = am.vvTried
      /\ less.nNew = am.nNew /\ less.nTried = am.nTried
  <2> DEFINE f1 == SetRefCount(am.mapInfo, x, 0)
  <2>1. less = [am EXCEPT !.mapInfo = f1] BY <1>1 DEF HasMembers, SetRefCount, Recounted
  <2> HIDE DEF less, f1
  <2>2. /\ less.mapInfo = f1 /\ less.mapAddr = am.mapAddr /\ less.vRandom = am.vRandom
        /\ less.vvTried = am.vvTried /\ less.nNew = am.nNew /\ less.nTried = am.nTried
    BY <1>1, <2>1 DEF HasMembers
  <2> QED BY <2>2 DEF f1
<1>6. /\ HasMembers(to) /\ to.mapInfo = less.mapInfo /\ to.vvNew = buckets
      /\ to.mapAddr = am.mapAddr /\ to.vRandom = am.vRandom /\ to.vvTried = am.vvTried
      /\ to.nNew = am.nNew - 1 /\ to.nTried = am.nTried /\ to.nIdCount = am.nIdCount
  <2> DEFINE f1 == SetRefCount(am.mapInfo, x, 0)
  <2>1. to = [am EXCEPT !.vvNew = buckets, !.mapInfo = f1, !.nNew = @ - 1]
    BY <1>1, <1>3 DEF HasMembers, SetRefCount, Aside
  <2>2. less.mapInfo = f1 BY <1>5
  <2> HIDE DEF to, f1, buckets, less
  <2>3. /\ HasMembers(to) /\ to.mapInfo = f1 /\ to.vvNew = buckets
        /\ to.mapAddr = am.mapAddr /\ to.vRandom = am.vRandom /\ to.vvTried = am.vvTried
        /\ to.nNew = am.nNew - 1 /\ to.nTried = am.nTried /\ to.nIdCount = am.nIdCount
    BY <1>1, <2>1 DEF HasMembers
  <2> QED BY <2>2, <2>3
<1>7. /\ am.vvNew \in [NewBucket -> SUBSET Ids(am)]
      /\ buckets \in [NewBucket -> SUBSET Ids(am)]
      /\ \A b \in NewBucket : buckets[b] = am.vvNew[b] \ {x}
  BY <1>1 DEF IsCAddrMan
<1> HIDE DEF to, less, buckets
<1>8. /\ HasMembers(mid) /\ mid.mapInfo = less.mapInfo /\ mid.vvNew = buckets
      /\ mid.mapAddr = am.mapAddr /\ mid.vRandom = am.vRandom /\ mid.vvTried = am.vvTried
      /\ mid.nNew = am.nNew /\ mid.nTried = am.nTried /\ mid.nIdCount = am.nIdCount
  BY <1>6 DEF HasMembers
<1> HIDE DEF mid
<1>9. /\ IsCAddrMan(mid) /\ Listed(mid) /\ Named(mid) /\ Counted(mid, {}) /\ InTried(mid)
      /\ Ids(mid) = Ids(am) /\ Tried(mid) = Tried(am)
  <2>1. IsCAddrMan(less) /\ less.mapInfo \in [Ids(less) -> CAddrInfo]
    BY <1>4 DEF Sound, IsCAddrMan
  <2>2. Agree(less.mapInfo, mid.mapInfo, {"nRefCount", "nLastSuccess"}) BY <1>8 DEF Agree
  <2>3. \A i \in Tried(less) : /\ mid.mapInfo[i].nRefCount = less.mapInfo[i].nRefCount
                               /\ mid.mapInfo[i].nLastSuccess > 0
    BY <1>4, <1>8 DEF Sound, InTried
  <2>4. mid.mapInfo \in [Ids(less) -> CAddrInfo] /\ mid.vvNew \in [NewBucket -> SUBSET Ids(less)]
    BY <1>4, <1>7, <1>8, <2>1
  <2>5. /\ mid.mapAddr = less.mapAddr /\ mid.vRandom = less.vRandom /\ mid.vvTried = less.vvTried
        /\ mid.nNew = less.nNew /\ mid.nTried = less.nTried /\ mid.nIdCount = less.nIdCount
    BY <1>4, <1>5, <1>8
  <2>6. PICK X : X = {x} OBVIOUS
  <2>7. PICK Y : Y = {} OBVIOUS
  <2>8. Sound(less, X, Y) BY <1>4, <2>6, <2>7
  <2>9. /\ IsCAddrMan(mid) /\ Listed(mid) /\ Named(mid) /\ Counted(mid, Y) /\ InTried(mid)
        /\ Ids(mid) = Ids(less) /\ Tried(mid) = Tried(less)
    BY <1>8, <2>2, <2>3, <2>4, <2>5, <2>8, Transfer
  <2> QED BY <1>4, <2>7, <2>9
<1>10. Ids(to) = Ids(am) /\ Tried(to) = Tried(am)
  BY <1>6, <1>8, <1>9 DEF Ids, Tried
<1>11. Listed(to) BY <1>6, <1>8, <1>9, <1>10 DEF Listed
<1>12. Named(to) BY <1>6, <1>8, <1>9, <1>10 DEF Named
<1>13. InTried(to)
  <2>1. InTried(mid) /\ Tried(to) = Tried(mid) BY <1>9, <1>10
  <2>2. to.mapInfo = mid.mapInfo /\ to.vvTried = mid.vvTried BY <1>6, <1>8
  <2> QED BY <2>1, <2>2 DEF InTried
<1>14. Counted(to, {x}) /\ to.nNew \in Nat
  <2> DEFINE N == Ids(am) \ (Tried(am) \cup {})
  <2>1. Ids(to) \ (Tried(to) \cup {x}) = N \ {x} /\ x \in N BY <1>10
  <2>2. IsFiniteSet(N) BY <1>1, BucketsFinite, FS_Difference
  <2>3. am.nNew = Cardinality(N) /\ am.nTried = Cardinality(Tried(am)) BY DEF Sound, Counted
  <2> HIDE DEF N
  <2>4. Cardinality(N \ {x}) = Cardinality(N) - 1 /\ Cardinality(N \ {x}) \in Nat
    BY <2>1, <2>2, FS_RemoveElement, FS_CardinalityType
  <2> QED BY <1>6, <1>10, <2>1, <2>3, <2>4 DEF Counted
<1>15. IsCAddrMan(to)
  <2>1. am.nTried \in Nat BY <1>1 DEF IsCAddrMan
  <2> QED BY <1>6, <1>8, <1>9, <1>10, <1>14, <2>1 DEF IsCAddrMan
<1>16. InNew(to)
  <2>1. ASSUME NEW c \in NewBucket
        PROVE  buckets[c] \subseteq Ids(to) \ Tried(to) /\ Cardinality(buckets[c]) <= NewBucketSize
    <3>1. /\ am.vvNew[c] \subseteq Ids(am) \ Tried(am) /\ Cardinality(am.vvNew[c]) <= NewBucketSize
          /\ IsFiniteSet(am.vvNew[c]) /\ buckets[c] \in SUBSET am.vvNew[c]
      BY <1>1, <1>7, BucketsFinite DEF Sound, InNew
    <3>2. /\ Cardinality(buckets[c]) <= Cardinality(am.vvNew[c])
          /\ Cardinality(buckets[c]) \in Nat /\ Cardinality(am.vvNew[c]) \in Nat
      BY <3>1, FS_Subset, FS_CardinalityType
    <3>3. Cardinality(buckets[c]) <= NewBucketSize BY <3>1, <3>2, Sizes
    <3> QED BY <1>10, <3>1, <3>3
  <2> QED BY <1>6, <2>1 DEF InNew
<1>17. Referred(to, {x})
  <2>1. \A i \in Ids(am) \ {x} : References(to, i) = References(am, i)
    BY <1>6, <1>7 DEF References
  <2>2. ASSUME NEW i \in Ids(to) \ (Tried(to) \cup {x})
        PROVE  /\ to.mapInfo[i].nRefCount = Cardinality(References(to, i))
               /\ to.mapInfo[i].nRefCount \in 1..PerAddress
    <3>1. /\ am.mapInfo[i].nRefCount = Cardinality(References(am, i))
          /\ am.mapInfo[i].nRefCount \in 1..PerAddress
      BY <1>10 DEF Sound, Referred
    <3> QED BY <1>4, <1>6, <1>10, <2>1, <3>1
  <2> QED BY <2>2 DEF Referred
<1>18. /\ to.mapInfo[x].nLastSuccess = am.mapInfo[x].nLastSuccess
       /\ to.mapInfo[x].addr = am.mapInfo[x].addr
  BY <1>4, <1>6 DEF Agree, Ids
<1>19. Sound(to, {x}, {x}) BY <1>11, <1>12, <1>13, <1>14, <1>15, <1>16, <1>17 DEF Sound
<1>20. \A b \in NewBucket : to.vvNew[b] = am.vvNew[b] \ {x} BY <1>6, <1>7
<1>21. x \in Ids(to) \ Tried(to) /\ to.mapInfo[x].nRefCount = 0 BY <1>4, <1>6, <1>10
<1> QED BY <1>18, <1>19, <1>20, <1>21 DEF to


(* A tried bucket w in place of that of x: x has come, those of R have     *)
(* gone, the others are somewhere in it.                                   *)
Exchanged(am, to, x, R, w, b) ==
  /\ x \in Ids(am) /\ b \in TriedBucket /\ b = GetTriedBucket[am.mapInfo[x].addr]
  /\ \A i \in Ids(am) : /\ to.mapInfo[i].addr = am.mapInfo[i].addr
                         /\ GetTriedBucket[am.mapInfo[i].addr] \in TriedBucket
  /\ Tried(to) = (Tried(am) \ R) \cup {x}
  /\ \A i \in Tried(to) : to.mapInfo[i].nLastSuccess > 0 /\ to.mapInfo[i].nRefCount = 0
  /\ \A c \in TriedBucket : to.vvTried[c] = IF c = b THEN w ELSE am.vvTried[c]
  /\ Len(w) <= TriedBucketSize
  /\ \A p \in DOMAIN w :
       w[p] = x \/ \E o \in DOMAIN am.vvTried[b] : w[p] = am.vvTried[b][o] /\ w[p] \notin R
  /\ \A p, q \in DOMAIN w : w[p] = w[q] => p = q
  /\ \E p \in DOMAIN w : w[p] = x
  /\ \A o \in DOMAIN am.vvTried[b] :
       am.vvTried[b][o] \in R \/ \E p \in DOMAIN w : w[p] = am.vvTried[b][o]
  /\ \A i \in R : \E o \in DOMAIN am.vvTried[b] : am.vvTried[b][o] = i

LEMMA TriedIs ==
  ASSUME NEW am, NEW to, NEW x, NEW R, NEW w, NEW b, InTried(am), Exchanged(am, to, x, R, w, b)
  PROVE  InTried(to)
<1> DEFINE q == am.vvTried[b]
<1>1. /\ x \in Ids(am) /\ b \in TriedBucket /\ b = GetTriedBucket[am.mapInfo[x].addr]
      /\ Tried(to) = (Tried(am) \ R) \cup {x}
      /\ \A i \in Tried(am) : i \in Ids(am)
  BY DEF Exchanged, Tried
<1>2. \A i \in Ids(am) : /\ to.mapInfo[i].addr = am.mapInfo[i].addr
                         /\ GetTriedBucket[am.mapInfo[i].addr] \in TriedBucket
  BY DEF Exchanged
<1>3. \A i \in Tried(to) : to.mapInfo[i].nLastSuccess > 0 /\ to.mapInfo[i].nRefCount = 0
  BY DEF Exchanged
<1>4. /\ to.vvTried[b] = w
      /\ \A c \in TriedBucket : c # b => to.vvTried[c] = am.vvTried[c]
  BY DEF Exchanged
<1>5. \A i \in Tried(am) : \E p \in DOMAIN am.vvTried[GetTriedBucket[am.mapInfo[i].addr]] :
        am.vvTried[GetTriedBucket[am.mapInfo[i].addr]][p] = i
  BY DEF InTried
<1>6. \A c \in TriedBucket :
        /\ Len(am.vvTried[c]) <= TriedBucketSize
        /\ \A p \in DOMAIN am.vvTried[c] :
             /\ am.vvTried[c][p] \in Tried(am)
             /\ GetTriedBucket[am.mapInfo[am.vvTried[c][p]].addr] = c
        /\ \A p, o \in DOMAIN am.vvTried[c] : am.vvTried[c][p] = am.vvTried[c][o] => p = o
  BY DEF InTried
<1>7. /\ \A p \in DOMAIN w : w[p] = x \/ \E o \in DOMAIN q : w[p] = q[o] /\ w[p] \notin R
      /\ \E p \in DOMAIN w : w[p] = x
      /\ \A o \in DOMAIN q : q[o] \in R \/ \E p \in DOMAIN w : w[p] = q[o]
  BY DEF Exchanged
<1>8. \A i \in R : GetTriedBucket[am.mapInfo[i].addr] = b
  <2>1. \A i \in R : \E o \in DOMAIN am.vvTried[b] : am.vvTried[b][o] = i BY DEF Exchanged
  <2> QED BY <1>1, <1>6, <2>1
<1>9. ASSUME NEW i \in Tried(to)
      PROVE  \E p \in DOMAIN to.vvTried[GetTriedBucket[to.mapInfo[i].addr]] :
               to.vvTried[GetTriedBucket[to.mapInfo[i].addr]][p] = i
  <2> DEFINE c == GetTriedBucket[am.mapInfo[i].addr]
  <2>1. i \in Ids(am) /\ (i = x \/ i \in Tried(am) \ R) BY <1>1
  <2>2. c = GetTriedBucket[to.mapInfo[i].addr] /\ c \in TriedBucket BY <1>2, <2>1
  <2>3. \E p \in DOMAIN to.vvTried[c] : to.vvTried[c][p] = i
    <3>1. CASE i = x BY <1>1, <1>4, <1>7, <3>1
    <3>2. CASE i # x
      <4>1. i \in Tried(am) /\ i \notin R BY <2>1, <3>2
      <4>2. \E p \in DOMAIN am.vvTried[c] : am.vvTried[c][p] = i BY <1>5, <4>1
      <4> HIDE DEF c
      <4>3. CASE c = b BY <1>4, <1>7, <4>1, <4>2, <4>3
      <4>4. CASE c # b BY <1>4, <2>2, <4>2, <4>4
      <4> QED BY <4>3, <4>4
    <3> QED BY <3>1, <3>2
  <2> HIDE DEF c
  <2> QED BY <2>2, <2>3
<1>10. ASSUME NEW c \in TriedBucket
      PROVE  /\ Len(to.vvTried[c]) <= TriedBucketSize
             /\ \A p \in DOMAIN to.vvTried[c] :
                  /\ to.vvTried[c][p] \in Tried(to)
                  /\ GetTriedBucket[to.mapInfo[to.vvTried[c][p]].addr] = c
             /\ \A p, o \in DOMAIN to.vvTried[c] : to.vvTried[c][p] = to.vvTried[c][o] => p = o
  <2>1. CASE c = b
    <3>1. Len(w) <= TriedBucketSize /\ \A p, o \in DOMAIN w : w[p] = w[o] => p = o
      BY DEF Exchanged
    <3>2. ASSUME NEW p \in DOMAIN w
          PROVE  w[p] \in Tried(to) /\ GetTriedBucket[to.mapInfo[w[p]].addr] = b
      <4>1. CASE w[p] = x BY <1>1, <1>2, <4>1
      <4>2. CASE w[p] # x
        <5>1. PICK o \in DOMAIN q : w[p] = q[o] /\ w[p] \notin R BY <1>7, <4>2
        <5>2. q[o] \in Tried(am) /\ GetTriedBucket[am.mapInfo[q[o]].addr] = b BY <1>1, <1>6, ZenonT(40)
        <5> HIDE DEF q
        <5> QED BY <1>1, <1>2, <5>1, <5>2
      <4> QED BY <4>1, <4>2
    <3> QED BY <1>4, <2>1, <3>1, <3>2
  <2>2. CASE c # b
    <3>1. to.vvTried[c] = am.vvTried[c] BY <1>4, <2>2
    <3>2. ASSUME NEW p \in DOMAIN am.vvTried[c]
          PROVE  /\ am.vvTried[c][p] \in Tried(to)
                 /\ GetTriedBucket[to.mapInfo[am.vvTried[c][p]].addr] = c
      <4>1. am.vvTried[c][p] \in Tried(am) /\ GetTriedBucket[am.mapInfo[am.vvTried[c][p]].addr] = c
        BY <1>6
      <4>2. am.vvTried[c][p] \notin R BY <1>8, <2>2, <4>1
      <4> QED BY <1>1, <1>2, <4>1, <4>2
    <3> QED BY <1>6, <3>1, <3>2
  <2> QED BY <2>1, <2>2
<1> QED BY <1>3, <1>9, <1>10 DEF InTried

(* There is place in the tried bucket. *)
Placed(am, x, b) ==
  [am EXCEPT !.vvTried[b] = Append(@, x), !.nTried = @ + 1, !.mapInfo[x].fInTried = TRUE]

LEMMA PlacedIs ==
  ASSUME AddrManAssumption, NEW am, NEW x \in Ids(am) \ Tried(am), NEW X, X = {x}, Sound(am, X, X),
         am.mapInfo[x].nRefCount = 0, am.mapInfo[x].nLastSuccess > 0,
         \A c \in NewBucket : x \notin am.vvNew[c],
         Len(am.vvTried[GetTriedBucket[am.mapInfo[x].addr]]) < TriedBucketSize
  PROVE  Sound(Placed(am, x, GetTriedBucket[am.mapInfo[x].addr]), {}, {})
<1> DEFINE b == GetTriedBucket[am.mapInfo[x].addr]
           q == am.vvTried[b]
           w == Append(q, x)
           f1 == SetInTried(am.mapInfo, x, TRUE)
           buckets == [am.vvTried EXCEPT ![b] = w]
           to == Placed(am, x, b)
<1>1. IsCAddrMan(am) /\ HasMembers(am) BY DEF Sound, IsCAddrMan
<1>2. /\ am.mapInfo \in [Ids(am) -> CAddrInfo] /\ am.nTried \in Nat /\ am.nNew \in Nat
      /\ am.vvTried \in [TriedBucket -> Seq(Ids(am))]
  BY <1>1 DEF IsCAddrMan
<1>3. b \in TriedBucket /\ q \in Seq(Ids(am))
  <2>1. am.mapInfo[x].addr \in Address BY <1>2 DEF CAddrInfo
  <2>2. b \in TriedBucket BY <2>1 DEF AddrManAssumption
  <2> QED BY <1>2, <2>2
<1>4. /\ HasMembers(to) /\ to.mapInfo = f1 /\ to.vvTried = buckets /\ to.nTried = am.nTried + 1
      /\ to.mapAddr = am.mapAddr /\ to.vRandom = am.vRandom /\ to.vvNew = am.vvNew
      /\ to.nNew = am.nNew /\ to.nIdCount = am.nIdCount
  <2>1. to = [am EXCEPT !.vvTried = buckets, !.nTried = @ + 1, !.mapInfo = f1]
    BY <1>1 DEF HasMembers, SetInTried, Placed
  <2> HIDE DEF to, f1, buckets
  <2> QED BY <1>1, <2>1 DEF HasMembers
<1>5. /\ f1 \in [Ids(am) -> CAddrInfo] /\ Agree(am.mapInfo, f1, {"fInTried"})
      /\ \A i \in Ids(am) : f1[i].fInTried = IF i = x THEN TRUE ELSE am.mapInfo[i].fInTried
  <2>1. f1 = SetInTried(am.mapInfo, x, TRUE) OBVIOUS
  <2>2. PICK v \in BOOLEAN : v = TRUE OBVIOUS
  <2> HIDE DEF f1
  <2>3. f1 = SetInTried(am.mapInfo, x, v) BY <2>1, <2>2
  <2>4. /\ f1 \in [Ids(am) -> CAddrInfo] /\ Agree(am.mapInfo, f1, {"fInTried"})
        /\ \A i \in Ids(am) : f1[i].fInTried = IF i = x THEN v ELSE am.mapInfo[i].fInTried
    BY <1>2, <2>3, SetInTriedIs
  <2> QED BY <2>2, <2>4
<1>6. /\ w \in Seq(Ids(am)) /\ Len(w) = Len(q) + 1 /\ Len(q) \in Nat
      /\ DOMAIN w = DOMAIN q \cup {Len(q) + 1} /\ w[Len(q) + 1] = x
      /\ \A p \in DOMAIN q : w[p] = q[p]
      /\ Len(w) <= TriedBucketSize
  <2>1. x \in Ids(am) /\ w = Append(q, x) /\ Len(q) < TriedBucketSize OBVIOUS
  <2> HIDE DEF q, w, b
  <2> QED BY <1>3, <2>1, Sizes
<1>7. /\ buckets \in [TriedBucket -> Seq(Ids(am))]
      /\ \A c \in TriedBucket : buckets[c] = IF c = b THEN w ELSE am.vvTried[c]
  BY <1>2, <1>3, <1>6
<1> HIDE DEF to, f1, w, buckets
<1>8. /\ Ids(to) = Ids(am)
      /\ \A i \in Ids(am) : /\ to.mapInfo[i].addr = am.mapInfo[i].addr
                            /\ to.mapInfo[i].nRandomPos = am.mapInfo[i].nRandomPos
                            /\ to.mapInfo[i].nRefCount = am.mapInfo[i].nRefCount
                            /\ to.mapInfo[i].nLastSuccess = am.mapInfo[i].nLastSuccess
  BY <1>4, <1>5 DEF Agree, Ids
<1>9. Tried(to) = Tried(am) \cup {x} BY <1>4, <1>5, <1>8 DEF Tried
<1>10. Listed(to) BY <1>4, <1>8 DEF Sound, Listed
<1>11. Named(to) BY <1>4, <1>8 DEF Sound, Named
<1>12. Counted(to, {})
  <2>1. /\ Cardinality(Tried(am) \cup {x}) = Cardinality(Tried(am)) + 1
    BY <1>1, BucketsFinite, FS_AddElement
  <2>2. Ids(to) \ (Tried(to) \cup {}) = Ids(am) \ (Tried(am) \cup X) BY <1>8, <1>9
  <2> QED BY <1>4, <1>9, <2>1, <2>2 DEF Sound, Counted
<1>13. InNew(to) BY <1>4, <1>8, <1>9 DEF Sound, InNew
<1>14. Referred(to, {})
  <2>1. \A i : References(to, i) = References(am, i) BY <1>4 DEF References
  <2> QED BY <1>8, <1>9, <2>1 DEF Sound, Referred
<1>15. IsCAddrMan(to)
  BY <1>1, <1>2, <1>4, <1>5, <1>7, <1>8 DEF IsCAddrMan
<1>16. InTried(to)
  <2>1. InTried(am) BY DEF Sound
  <2>2. \A o \in DOMAIN q : q[o] \in Tried(am) BY <1>3, <2>1 DEF InTried
  <2>3. \A o, p \in DOMAIN q : q[o] = q[p] => o = p BY <1>3, <2>1 DEF InTried
  <2>4. x \notin Tried(am) OBVIOUS
  <2>5. Tried(to) = (Tried(am) \ {}) \cup {x} BY <1>9
  <2>6. \A i \in Tried(to) : to.mapInfo[i].nLastSuccess > 0 /\ to.mapInfo[i].nRefCount = 0
    <3>1. \A i \in Tried(am) : i \in Ids(am) BY DEF Tried
    <3> QED BY <1>8, <1>9, <2>1, <3>1 DEF InTried
  <2>7. \A c \in TriedBucket : to.vvTried[c] = IF c = b THEN w ELSE am.vvTried[c] BY <1>4, <1>7
  <2>8. Len(w) <= TriedBucketSize BY <1>6
  <2>9. \A p \in DOMAIN w : w[p] = x \/ \E o \in DOMAIN am.vvTried[b] : w[p] = am.vvTried[b][o] /\ w[p] \notin {}
    BY <1>6
  <2>10. \A o, p \in DOMAIN w : w[o] = w[p] => o = p
    <3> TAKE o, p \in DOMAIN w
    <3> HIDE DEF q, b
    <3>1. CASE o \in DOMAIN q /\ p \in DOMAIN q BY <1>6, <2>3, <3>1
    <3>2. CASE o \in DOMAIN q /\ p \notin DOMAIN q BY <1>6, <2>2, <2>4, <3>2
    <3>3. CASE o \notin DOMAIN q /\ p \in DOMAIN q BY <1>6, <2>2, <2>4, <3>3
    <3>4. CASE o \notin DOMAIN q /\ p \notin DOMAIN q BY <1>6, <3>4
    <3> QED BY <3>1, <3>2, <3>3, <3>4
  <2>11. \E p \in DOMAIN w : w[p] = x BY <1>6
  <2>12. \A o \in DOMAIN am.vvTried[b] :
           am.vvTried[b][o] \in {} \/ \E p \in DOMAIN w : w[p] = am.vvTried[b][o]
    BY <1>6
  <2>13. \A i \in Ids(am) : /\ to.mapInfo[i].addr = am.mapInfo[i].addr
                            /\ GetTriedBucket[am.mapInfo[i].addr] \in TriedBucket
    <3>1. \A i \in Ids(am) : am.mapInfo[i].addr \in Address BY <1>2 DEF CAddrInfo
    <3> QED BY <1>8, <3>1 DEF AddrManAssumption
  <2>14. x \in Ids(am) OBVIOUS
  <2>15. \A i \in {} : \E o \in DOMAIN am.vvTried[b] : am.vvTried[b][o] = i OBVIOUS
  <2>16. Exchanged(am, to, x, {}, w, b)
    <3>1. b = GetTriedBucket[am.mapInfo[x].addr] OBVIOUS
    <3> HIDE DEF q, b
    <3> QED BY <1>3, <2>5, <2>6, <2>7, <2>8, <2>9, <2>10, <2>11, <2>12, <2>13, <2>14, <2>15, <3>1
            DEF Exchanged
  <2> QED BY <2>1, <2>16, TriedIs
<1> QED BY <1>10, <1>11, <1>12, <1>13, <1>14, <1>15, <1>16 DEF Sound, to


---------------------------------------------------------------------------
(* Numbers and repetition *)

(* Every set of naturals has a least element. *)
LEMMA Least ==
  ASSUME NEW S \in SUBSET Nat, S # {}
  PROVE  \E m \in S : \A n \in S : m <= n
<1> DEFINE R == {ss \in Nat \X Nat : ss[1] < ss[2]}
<1>1. IsWellFoundedOn(R, Nat) BY NatLessThanWellFounded DEF OpToRel
<1>2. PICK x \in S : \A y \in S : ~(<<y, x>> \in R) BY <1>1, WFMin
<1>3. \A y \in S : ~(y < x) BY <1>2
<1> QED BY <1>3

(* What holds at 0 and is handed on holds up to N. *)
LEMMA CountUp ==
  ASSUME NEW N \in Nat, NEW S, 0 \in S, \A n \in 1 .. N : n - 1 \in S => n \in S
  PROVE  \A n \in 0 .. N : n \in S
<1> DEFINE Bad == (0 .. N) \ S
<1> SUFFICES ASSUME Bad # {} PROVE FALSE OBVIOUS
<1>1. PICK m \in Bad : \A k \in Bad : m <= k
  <2>1. Bad \in SUBSET Nat OBVIOUS
  <2> HIDE DEF Bad
  <2> QED BY <2>1, Least
<1>2. m \in 1 .. N /\ m - 1 \in 0 .. N /\ m - 1 \notin Bad BY <1>1
<1> QED BY <1>1, <1>2

(* A loop over N steps has a course. *)
HasCourse(N, W, w, G) ==
  \E f \in [0 .. N -> W] : f[0] = w /\ \A n \in 1 .. N : f[n] = G[<<n, f[n - 1]>>]
LEMMA Iterated ==
  ASSUME NEW N \in Nat, NEW W, NEW w \in W, NEW G \in [(1 .. N) \X W -> W]
  PROVE  HasCourse(N, W, w, G)
<1> DEFINE P(f, m) == f[0] = w /\ \A n \in 1 .. m : f[n] = G[<<n, f[n - 1]>>]
           S == {m \in 0 .. N : \E f \in [0 .. m -> W] : P(f, m)}
<1>1. 0 \in S
  <2> DEFINE e == [n \in 0 .. 0 |-> w]
  <2>1. e \in [0 .. 0 -> W] /\ e[0] = w /\ (\A n \in 1 .. 0 : FALSE) /\ 0 \in 0 .. N OBVIOUS
  <2> HIDE DEF e
  <2>2. P(e, 0) BY <2>1
  <2> QED BY <2>1, <2>2
<1>2. ASSUME NEW m \in 1 .. N, m - 1 \in S PROVE m \in S
  <2>1. PICK f \in [0 .. (m - 1) -> W] : P(f, m - 1) BY <1>2
  <2> DEFINE g == [n \in 0 .. m |-> IF n = m THEN G[<<m, f[m - 1]>>] ELSE f[n]]
  <2>2. m - 1 \in 0 .. (m - 1) /\ f[m - 1] \in W /\ m \in 0 .. N OBVIOUS
  <2>3. g \in [0 .. m -> W]
    <3>1. G[<<m, f[m - 1]>>] \in W BY <2>2
    <3>2. \A n \in 0 .. m : n # m => n \in 0 .. (m - 1) OBVIOUS
    <3> QED BY <3>1, <3>2
  <2>4. g[0] = w BY <2>1
  <2>5. ASSUME NEW n \in 1 .. m PROVE g[n] = G[<<n, g[n - 1]>>]
    <3>1. n - 1 \in 0 .. m /\ n - 1 # m /\ g[n - 1] = f[n - 1] OBVIOUS
    <3>2. CASE n = m BY <3>1, <3>2
    <3>3. CASE n # m
      <4>1. n \in 1 .. (m - 1) /\ g[n] = f[n] BY <3>3
      <4> QED BY <2>1, <3>1, <4>1
    <3> QED BY <3>2, <3>3
  <2> HIDE DEF g
  <2> QED BY <2>2, <2>3, <2>4, <2>5
<1>3. N \in S
  <2> HIDE DEF S
  <2> QED BY <1>1, <1>2, CountUp
<1> QED BY <1>3 DEF HasCourse

---------------------------------------------------------------------------
(* SelectTried *)

(* The same entries at other places, each of them once. *)
Rearranged(q, v) ==
  /\ DOMAIN v = DOMAIN q
  /\ \A p \in DOMAIN v : \E o \in DOMAIN q : v[p] = q[o]
  /\ \A o \in DOMAIN q : \E p \in DOMAIN v : v[p] = q[o]
  /\ \A p, o \in DOMAIN v : v[p] = v[o] => p = o

LEMMA ExchangeIs ==
  ASSUME NEW S, NEW q \in Seq(S), NEW v \in Seq(S), Rearranged(q, v),
         NEW i \in DOMAIN q, NEW j \in DOMAIN q
  PROVE  LET to == [v EXCEPT ![j] = v[i], ![i] = v[j]]
         IN  to \in Seq(S) /\ Rearranged(q, to)
<1> DEFINE to == [v EXCEPT ![j] = v[i], ![i] = v[j]]
<1>1. /\ DOMAIN v = DOMAIN q /\ i \in DOMAIN v /\ j \in DOMAIN v
      /\ \A p \in DOMAIN v : \E o \in DOMAIN q : v[p] = q[o]
      /\ \A o \in DOMAIN q : \E p \in DOMAIN v : v[p] = q[o]
      /\ \A p, o \in DOMAIN v : v[p] = v[o] => p = o
  BY DEF Rearranged
<1>2. DOMAIN to = DOMAIN v BY <1>1
<1>3. \A p \in DOMAIN v : to[p] = IF p = i THEN v[j] ELSE IF p = j THEN v[i] ELSE v[p]
  BY <1>1
<1>4. to \in Seq(S)
  <2>1. v[i] \in S /\ v[j] \in S BY <1>1
  <2>2. PICK s \in S, t \in S : s = v[i] /\ t = v[j] BY <2>1
  <2>3. to = [v EXCEPT ![j] = s, ![i] = t] BY <2>2
  <2>4. i \in DOMAIN v /\ j \in DOMAIN v BY <1>1
  <2> HIDE DEF to
  <2> QED BY <2>3, <2>4
<1> HIDE DEF to
<1>5. ASSUME NEW p \in DOMAIN v PROVE \E o \in DOMAIN q : to[p] = q[o]
  <2>1. to[p] = v[j] \/ to[p] = v[i] \/ to[p] = v[p] BY <1>3
  <2>2. \E m \in DOMAIN v : to[p] = v[m] BY <1>1, <2>1
  <2> QED BY <1>1, <2>2
<1>6. ASSUME NEW o \in DOMAIN q PROVE \E p \in DOMAIN v : to[p] = q[o]
  <2>1. PICK p \in DOMAIN v : v[p] = q[o] BY <1>1
  <2>2. CASE p = i BY <1>1, <1>3, <2>1, <2>2
  <2>3. CASE p = j BY <1>1, <1>3, <2>1, <2>3
  <2>4. CASE p # i /\ p # j BY <1>1, <1>3, <2>1, <2>4
  <2> QED BY <2>2, <2>3, <2>4
<1>7. ASSUME NEW p \in DOMAIN v, NEW o \in DOMAIN v, to[p] = to[o] PROVE p = o
  BY <1>1, <1>3, <1>7
<1> QED
  <2>1. Rearranged(q, to) BY <1>1, <1>2, <1>5, <1>6, <1>7 DEF Rearranged
  <2> QED BY <1>4, <2>1 DEF to

(* One round of the loop. *)
Look(am, rnd, acc, i) ==
  LET nPos == rnd[i]
      nTemp == acc.vTried[nPos]
      v == [acc.vTried EXCEPT ![nPos] = acc.vTried[i], ![i] = nTemp]
  IN  IF \/ acc.nOldest = 0
         \/ am.mapInfo[nTemp].nLastSuccess < am.mapInfo[acc.nOldest].nLastSuccess
      THEN [vTried |-> v, nOldest |-> nTemp, nOldestPos |-> nPos]
      ELSE [acc EXCEPT !.vTried = v]

Looks(am, q) ==
  {s \in [vTried : Seq(Ids(am)), nOldest : Nat, nOldestPos : Nat] :
     Rearranged(q, s.vTried) /\ (s.nOldest # 0 => s.nOldestPos \in DOMAIN q)}

LEMMA LookIs ==
  ASSUME NEW am, IsCAddrMan(am), NEW q \in Seq(Ids(am)), NEW rnd, NEW acc \in Looks(am, q),
         NEW i \in DOMAIN q, rnd[i] \in DOMAIN q
  PROVE  Look(am, rnd, acc, i) \in Looks(am, q) /\ Look(am, rnd, acc, i).nOldest # 0
<1> DEFINE nPos == rnd[i]
           nTemp == acc.vTried[nPos]
           v == [acc.vTried EXCEPT ![nPos] = acc.vTried[i], ![i] = acc.vTried[nPos]]
           younger == am.mapInfo[nTemp].nLastSuccess < am.mapInfo[acc.nOldest].nLastSuccess
           to == Look(am, rnd, acc, i)
<1>1. /\ acc = [vTried |-> acc.vTried, nOldest |-> acc.nOldest, nOldestPos |-> acc.nOldestPos]
      /\ acc.vTried \in Seq(Ids(am)) /\ acc.nOldest \in Nat /\ acc.nOldestPos \in Nat
      /\ Rearranged(q, acc.vTried) /\ (acc.nOldest # 0 => acc.nOldestPos \in DOMAIN q)
  BY DEF Looks
<1>2. nPos \in DOMAIN q /\ nPos \in Nat /\ DOMAIN acc.vTried = DOMAIN q
  <2>1. DOMAIN acc.vTried = DOMAIN q BY <1>1 DEF Rearranged
  <2>2. nPos \in DOMAIN q OBVIOUS
  <2> HIDE DEF nPos
  <2>3. nPos \in Nat BY <2>2
  <2> QED BY <2>1, <2>2, <2>3
<1>3. nTemp \in Ids(am) /\ nTemp \in Nat /\ nTemp # 0
  <2>1. nTemp \in Ids(am) BY <1>1, <1>2
  <2>2. Ids(am) \subseteq EntryId BY DEF IsCAddrMan
  <2> HIDE DEF nTemp
  <2> QED BY <2>1, <2>2 DEF EntryId
<1>4. v \in Seq(Ids(am)) /\ Rearranged(q, v)
  <2> DEFINE u == acc.vTried
  <2>1. u \in Seq(Ids(am)) /\ Rearranged(q, u) BY <1>1
  <2> HIDE DEF u, nPos
  <2>2. LET t == [u EXCEPT ![nPos] = u[i], ![i] = u[nPos]] IN t \in Seq(Ids(am)) /\ Rearranged(q, t)
    BY <1>2, <2>1, ExchangeIs
  <2> QED BY <2>2 DEF u, nPos
<1>5. to = IF acc.nOldest = 0 \/ younger
           THEN [vTried |-> v, nOldest |-> nTemp, nOldestPos |-> nPos]
           ELSE [acc EXCEPT !.vTried = v]
  BY DEF Look
<1> HIDE DEF v, nTemp, nPos, younger, to
<1>6. CASE acc.nOldest = 0 \/ younger
  <2>1. to = [vTried |-> v, nOldest |-> nTemp, nOldestPos |-> nPos] BY <1>5, <1>6
  <2> QED BY <1>2, <1>3, <1>4, <2>1 DEF Looks, to
<1>7. CASE ~(acc.nOldest = 0 \/ younger)
  <2>1. to = [acc EXCEPT !.vTried = v] BY <1>5, <1>7
  <2>2. to = [vTried |-> v, nOldest |-> acc.nOldest, nOldestPos |-> acc.nOldestPos]
    BY <1>1, <2>1
  <2> QED BY <1>1, <1>4, <1>7, <2>2 DEF Looks, to
<1> QED BY <1>6, <1>7

LEMMA SelectIs ==
  ASSUME AddrManAssumption, NEW am, IsCAddrMan(am), NEW b \in TriedBucket,
         NEW rnd \in Picks(am.vvTried[b]), Len(am.vvTried[b]) > 0,
         \A p, o \in DOMAIN am.vvTried[b] : am.vvTried[b][p] = am.vvTried[b][o] => p = o
  PROVE  LET chosen == SelectTried(am, b, rnd)
         IN  /\ chosen.vTried \in Seq(Ids(am)) /\ Rearranged(am.vvTried[b], chosen.vTried)
             /\ chosen.nOldestPos \in DOMAIN am.vvTried[b]
<1> DEFINE q == am.vvTried[b]
           N == Len(rnd)
           W == Looks(am, q)
           w == [vTried |-> q, nOldest |-> 0, nOldestPos |-> 0]
           Next1(x, n) == Look(am, rnd, x, n)
           IsCourse(F) == F = [n \in 0 .. N |-> IF n = 0 THEN w ELSE Next1(F[n - 1], n)]
           F == CHOOSE F : IsCourse(F)
           G == [x \in (1 .. N) \X W |-> Next1(x[2], x[1])]
<1>1. q \in Seq(Ids(am)) /\ Len(q) \in Nat /\ DOMAIN q = 1..Len(q)
  <2>1. am.vvTried \in [TriedBucket -> Seq(Ids(am))] BY DEF IsCAddrMan
  <2> HIDE DEF q
  <2>2. q \in Seq(Ids(am)) BY <2>1 DEF q
  <2> QED BY <2>2
<1>2. /\ N \in Nat /\ N >= 1 /\ DOMAIN rnd = 1..N
      /\ \A n \in 1..N : n \in DOMAIN q /\ rnd[n] \in DOMAIN q
  <2> DEFINE m == IF Inspect < Len(q) THEN Inspect ELSE Len(q)
  <2>1. Inspect \in Nat \ {0} BY Sizes
  <2>2. m \in Nat /\ m >= 1 /\ m <= Len(q) BY <1>1, <2>1
  <2>3. rnd \in [1..m -> 1..Len(q)] BY DEF Picks
  <2> HIDE DEF m, q
  <2>4. DOMAIN rnd = 1..m /\ Len(rnd) = m BY <2>2, <2>3
  <2> QED BY <1>1, <2>2, <2>3, <2>4
<1>3. w \in W
  <2>1. Rearranged(q, q)
    <3>1. \A p, o \in DOMAIN q : q[p] = q[o] => p = o OBVIOUS
    <3> HIDE DEF q
    <3> QED BY <3>1 DEF Rearranged
  <2> HIDE DEF q
  <2> QED BY <1>1, <2>1 DEF Looks
<1>4. ASSUME NEW x \in W, NEW n \in 1 .. N PROVE Next1(x, n) \in W /\ Next1(x, n).nOldest # 0
  <2> HIDE DEF q
  <2> QED BY <1>1, <1>2, LookIs
<1> HIDE DEF q, w, W
<1>5. \E F_1 : IsCourse(F_1)
  <2>1. G \in [(1 .. N) \X W -> W]
    <3> HIDE DEF Next1
    <3> QED BY <1>4
  <2>2. \A n \in 1 .. N, x \in W : G[<<n, x>>] = Next1(x, n)
    <3> HIDE DEF Next1
    <3> QED OBVIOUS
  <2> HIDE DEF G, Next1
  <2>3. PICK g \in [0 .. N -> W] : g[0] = w /\ \A n \in 1 .. N : g[n] = G[<<n, g[n - 1]>>]
    <3> HIDE DEF N, F, IsCourse
    <3>1. HasCourse(N, W, w, G) BY <1>2, <1>3, <2>1, Iterated, Zenon
    <3> QED BY <3>1 DEF HasCourse
  <2>4. ASSUME NEW n \in 0 .. N PROVE g[n] = IF n = 0 THEN w ELSE Next1(g[n - 1], n)
    <3>1. CASE n = 0 BY <2>3, <3>1
    <3>2. CASE n # 0
      <4>1. n \in 1 .. N /\ n - 1 \in 0 .. N BY <1>2, <3>2
      <4>2. g[n - 1] \in W BY <4>1
      <4> QED BY <2>2, <2>3, <3>2, <4>1, <4>2
    <3> QED BY <3>1, <3>2
  <2>5. IsCourse(g) BY <2>4
  <2> QED BY <2>5
<1>6. IsCourse(F)
  <2> HIDE DEF IsCourse
  <2> QED BY <1>5
<1>7. F[0] = w /\ \A n \in 1 .. N : F[n] = Next1(F[n - 1], n)
  <2> HIDE DEF F, Next1
  <2> QED BY <1>2, <1>6
<1>8. \A n \in 0 .. N : F[n] \in W
  <2> DEFINE S == {n \in 0 .. N : F[n] \in W}
  <2> HIDE DEF F
  <2>1. 0 \in S BY <1>2, <1>3, <1>7
  <2>2. \A n \in 1 .. N : n - 1 \in S => n \in S
    <3> HIDE DEF Next1
    <3> QED BY <1>2, <1>4, <1>7
  <2>3. \A n \in 0 .. N : n \in S
    <3> HIDE DEF S
    <3> QED BY <1>2, <2>1, <2>2, CountUp
  <2> QED BY <2>3
<1>9. SelectTried(am, b, rnd) = F[N] BY DEF SelectTried, Look, q, w
<1>10. F[N] \in W /\ F[N].nOldest # 0
  <2> HIDE DEF F, Next1
  <2>1. N - 1 \in 0..N /\ N \in 1..N BY <1>2
  <2> QED BY <1>4, <1>7, <1>8, <2>1, ZenonT(40)
<1> HIDE DEF F
<1> QED BY <1>9, <1>10 DEF W, Looks, q

---------------------------------------------------------------------------
(* MakeTried *)

(* The tried bucket is full: old, at pos of its new order v, goes back to  *)
(* the new bucket dest.                                                    *)
Replaced(am, x, b, v, pos, old, dest) ==
  [am EXCEPT !.mapInfo[old].fInTried = FALSE, !.mapInfo[old].nRefCount = 1,
             !.vvNew[dest] = @ \cup {old}, !.nNew = @ + 1,
             !.vvTried[b] = [v EXCEPT ![pos] = x], !.mapInfo[x].fInTried = TRUE]

LEMMA ReplacedIs ==
  ASSUME AddrManAssumption, NEW am, NEW x \in Ids(am) \ Tried(am), NEW X, X = {x}, Sound(am, X, X),
         am.mapInfo[x].nRefCount = 0, am.mapInfo[x].nLastSuccess > 0,
         \A c \in NewBucket : x \notin am.vvNew[c],
         NEW b, b = GetTriedBucket[am.mapInfo[x].addr],
         NEW v \in Seq(Ids(am)), Rearranged(am.vvTried[b], v),
         NEW pos \in DOMAIN v, NEW old, old = v[pos],
         NEW dest \in NewBucket, Cardinality(am.vvNew[dest]) < NewBucketSize
  PROVE  Sound(Replaced(am, x, b, v, pos, old, dest), {}, {})
<1> DEFINE q == am.vvTried[b]
           w == [v EXCEPT ![pos] = x]
           f1 == SetInTried(am.mapInfo, old, FALSE)
           f2 == SetRefCount(f1, old, 1)
           f3 == SetInTried(f2, x, TRUE)
           buckets == [am.vvTried EXCEPT ![b] = w]
           news == [am.vvNew EXCEPT ![dest] = @ \cup {old}]
           to == Replaced(am, x, b, v, pos, old, dest)
<1>1. IsCAddrMan(am) /\ HasMembers(am) BY DEF Sound, IsCAddrMan
<1>2. /\ am.mapInfo \in [Ids(am) -> CAddrInfo] /\ am.nTried \in Nat /\ am.nNew \in Nat
      /\ am.vvTried \in [TriedBucket -> Seq(Ids(am))]
      /\ am.vvNew \in [NewBucket -> SUBSET Ids(am)]
  BY <1>1 DEF IsCAddrMan
<1>3. b \in TriedBucket /\ q \in Seq(Ids(am))
  <2>1. am.mapInfo[x].addr \in Address BY <1>2 DEF CAddrInfo
  <2>2. b \in TriedBucket BY <2>1 DEF AddrManAssumption
  <2> QED BY <1>2, <2>2
<1>4. /\ HasMembers(to) /\ to.mapInfo = f3 /\ to.vvTried = buckets /\ to.nTried = am.nTried
      /\ to.mapAddr = am.mapAddr /\ to.vRandom = am.vRandom /\ to.vvNew = news
      /\ to.nNew = am.nNew + 1 /\ to.nIdCount = am.nIdCount
  <2> DEFINE u1 == [am EXCEPT !.mapInfo[old].fInTried = FALSE, !.mapInfo[old].nRefCount = 1]
             u2 == [u1 EXCEPT !.vvNew[dest] = @ \cup {old}, !.nNew = @ + 1, !.vvTried[b] = w]
  <2>2. u1 = [am EXCEPT !.mapInfo = f2] BY <1>1 DEF HasMembers, SetInTried, SetRefCount
  <2>3. to = [u2 EXCEPT !.mapInfo[x].fInTried = TRUE] BY DEF Replaced
  <2> HIDE DEF u1, f1, f2
  <2>4. u2 = [u1 EXCEPT !.vvNew = news, !.nNew = @ + 1, !.vvTried = buckets]
    BY <1>1, <2>2 DEF HasMembers
  <2> HIDE DEF u2, news, buckets
  <2>5. to = [u2 EXCEPT !.mapInfo = f3] 
    BY <1>1, <2>2, <2>3, <2>4 DEF HasMembers, SetInTried
  <2>1. to = [am EXCEPT !.mapInfo = f3, !.vvNew = news, !.nNew = @ + 1, !.vvTried = buckets]
    BY <1>1, <2>2, <2>4, <2>5 DEF HasMembers
  <2> HIDE DEF to, f3, buckets, news
  <2> QED BY <1>1, <2>1 DEF HasMembers
<1>5. /\ old \in Tried(am) /\ old \in Ids(am) /\ old # x
      /\ \A o \in DOMAIN q : q[o] \in Tried(am)
      /\ Len(q) <= TriedBucketSize
  <2>1. InTried(am) BY DEF Sound
  <2>2. /\ \A o \in DOMAIN q : q[o] \in Tried(am)
        /\ Len(q) <= TriedBucketSize
    BY <1>3, <2>1 DEF InTried
  <2>3. PICK o \in DOMAIN q : old = q[o] BY DEF Rearranged
  <2> HIDE DEF q
  <2> QED BY <2>2, <2>3 DEF Tried
<1>6. /\ f3 \in [Ids(am) -> CAddrInfo] /\ Agree(am.mapInfo, f3, {"fInTried", "nRefCount"})
      /\ \A i \in Ids(am) : f3[i].fInTried = IF i = x THEN TRUE ELSE IF i = old THEN FALSE
                                             ELSE am.mapInfo[i].fInTried
      /\ \A i \in Ids(am) : f3[i].nRefCount = IF i = old THEN 1 ELSE am.mapInfo[i].nRefCount
  <2>1. PICK yes \in BOOLEAN, no \in BOOLEAN : yes = TRUE /\ no = FALSE OBVIOUS
  <2>2. f1 = SetInTried(am.mapInfo, old, no) /\ f3 = SetInTried(f2, x, yes)
        /\ f2 = SetRefCount(f1, old, 1)
    BY <2>1
  <2> HIDE DEF f1, f2, f3
  <2>3. /\ f1 \in [Ids(am) -> CAddrInfo] /\ Agree(am.mapInfo, f1, {"fInTried"})
        /\ \A i \in Ids(am) : f1[i].fInTried = IF i = old THEN no ELSE am.mapInfo[i].fInTried
    <3>1. am.mapInfo \in [Ids(am) -> CAddrInfo] /\ old \in Ids(am) /\ no \in BOOLEAN
      BY <1>2, <1>5
    <3> QED BY <2>2, <3>1, SetInTriedIs, Z3
  <2>4. /\ f2 \in [Ids(am) -> CAddrInfo] /\ Agree(f1, f2, {"nRefCount"})
        /\ \A i \in Ids(am) : f2[i].nRefCount = IF i = old THEN 1 ELSE f1[i].nRefCount
    <3>1. f1 \in [Ids(am) -> CAddrInfo] /\ old \in Ids(am) /\ 1 \in Nat BY <1>5, <2>3
    <3> QED BY <2>2, <3>1, SetRefCountIs, Z3
  <2>5. /\ f3 \in [Ids(am) -> CAddrInfo] /\ Agree(f2, f3, {"fInTried"})
        /\ \A i \in Ids(am) : f3[i].fInTried = IF i = x THEN yes ELSE f2[i].fInTried
    <3>1. f2 \in [Ids(am) -> CAddrInfo] /\ yes \in BOOLEAN BY <2>4
    <3> QED BY <2>2, <3>1, SetInTriedIs, Z3
  <2>6. Agree(am.mapInfo, f3, {"fInTried", "nRefCount"})
    <3>1. Agree(am.mapInfo, f2, {"fInTried", "nRefCount"}) BY <2>3, <2>4 DEF Agree
    <3> QED BY <2>5, <3>1 DEF Agree
  <2>7. \A i \in Ids(am) : f2[i].fInTried = f1[i].fInTried BY <2>3, <2>4 DEF Agree
  <2>8. \A i \in Ids(am) : f3[i].nRefCount = f2[i].nRefCount BY <2>4, <2>5 DEF Agree
  <2>9. \A i \in Ids(am) : f1[i].nRefCount = am.mapInfo[i].nRefCount BY <1>2, <2>3 DEF Agree
  <2> QED BY <2>1, <2>3, <2>4, <2>5, <2>6, <2>7, <2>8, <2>9, ZenonT(40)
<1>7. /\ w \in Seq(Ids(am)) /\ DOMAIN w = DOMAIN v /\ Len(w) = Len(v)
      /\ \A p \in DOMAIN v : w[p] = IF p = pos THEN x ELSE v[p]
  <2>1. w = [v EXCEPT ![pos] = x] OBVIOUS
  <2> HIDE DEF w
  <2>2. w \in Seq(Ids(am)) BY <2>1
  <2>3. DOMAIN w = DOMAIN v BY <2>1
  <2>4. \A p \in DOMAIN v : w[p] = IF p = pos THEN x ELSE v[p] BY <2>1
  <2>5. Len(w) = Len(v) BY <2>2, <2>3
  <2> QED BY <2>2, <2>3, <2>4, <2>5
<1>8. /\ buckets \in [TriedBucket -> Seq(Ids(am))]
      /\ \A c \in TriedBucket : buckets[c] = IF c = b THEN w ELSE am.vvTried[c]
  BY <1>2, <1>3, <1>7
<1>9. /\ news \in [NewBucket -> SUBSET Ids(am)]
      /\ \A c \in NewBucket : news[c] = IF c = dest THEN am.vvNew[c] \cup {old} ELSE am.vvNew[c]
  BY <1>2, <1>5
<1> HIDE DEF to, f1, f2, f3, w, buckets, news
<1>10. /\ Ids(to) = Ids(am)
       /\ \A i \in Ids(am) : /\ to.mapInfo[i].addr = am.mapInfo[i].addr
                             /\ to.mapInfo[i].nRandomPos = am.mapInfo[i].nRandomPos
                             /\ to.mapInfo[i].nLastSuccess = am.mapInfo[i].nLastSuccess
                             /\ to.mapInfo[i].nRefCount = IF i = old THEN 1 ELSE am.mapInfo[i].nRefCount
                             /\ to.mapInfo[i].fInTried = IF i = x THEN TRUE ELSE IF i = old THEN FALSE
                                                         ELSE am.mapInfo[i].fInTried
  BY <1>4, <1>6 DEF Agree, Ids
<1>15. \A i \in Ids(am) : /\ to.mapInfo[i].addr = am.mapInfo[i].addr
                           /\ to.mapInfo[i].nRandomPos = am.mapInfo[i].nRandomPos
  BY <1>10
<1>11. Tried(to) = (Tried(am) \ {old}) \cup {x} BY <1>10 DEF Tried
<1>12. Listed(to)
  <2>1. Listed(am) BY DEF Sound
  <2>2. Ids(to) = Ids(am) /\ to.vRandom = am.vRandom BY <1>4, <1>10
  <2> QED BY <1>15, <2>1, <2>2 DEF Listed
<1>13. Named(to)
  <2>1. Named(am) BY DEF Sound
  <2>2. Ids(to) = Ids(am) /\ to.mapAddr = am.mapAddr /\ to.nIdCount = am.nIdCount BY <1>4, <1>10
  <2> QED BY <1>15, <2>1, <2>2, ZenonT(40) DEF Named
<1>14. IsCAddrMan(to)
  <2>1. /\ HasMembers(to) /\ to.mapInfo \in [Ids(to) -> CAddrInfo]
        /\ to.vvTried \in [TriedBucket -> Seq(Ids(to))]
        /\ to.vvNew \in [NewBucket -> SUBSET Ids(to)]
    <3>1. Ids(to) = Ids(am) BY <1>10
    <3> QED BY <1>4, <1>6, <1>8, <1>9, <3>1
  <2>2. /\ Ids(to) = Ids(am) /\ to.mapAddr = am.mapAddr /\ to.vRandom = am.vRandom
        /\ to.nIdCount = am.nIdCount
    BY <1>4, <1>10
  <2>3. {to.nNew, to.nTried} \subseteq Nat
    <3>1. to.nNew = am.nNew + 1 /\ to.nTried = am.nTried BY <1>4
    <3> QED BY <1>2, <3>1
  <2> QED BY <1>1, <2>1, <2>2, <2>3 DEF IsCAddrMan
<1>16. Counted(to, {})
  <2>1. /\ am.nTried = Cardinality(Tried(am))
        /\ am.nNew = Cardinality(Ids(am) \ (Tried(am) \cup X))
    BY DEF Sound, Counted
  <2>2. IsFiniteSet(Ids(am)) /\ IsFiniteSet(Tried(am)) BY <1>1, BucketsFinite
  <2>3. Cardinality(Tried(to)) = Cardinality(Tried(am))
    <3> DEFINE T == Tried(am)
               less == T \ {old}
    <3>1. IsFiniteSet(less) /\ Cardinality(less) = Cardinality(T) - 1
      BY <1>5, <2>2, FS_RemoveElement
    <3>2. x \notin less /\ Tried(to) = less \cup {x} BY <1>11
    <3>3. Cardinality(T) \in Nat BY <2>2, FS_CardinalityType
    <3> HIDE DEF less, T
    <3>4. Cardinality(less \cup {x}) = Cardinality(less) + 1 BY <3>1, <3>2, FS_AddElement
    <3> QED BY <3>1, <3>2, <3>3, <3>4 DEF T
  <2>4. Cardinality(Ids(to) \ (Tried(to) \cup {})) = am.nNew + 1
    <3> DEFINE R == Ids(am) \ (Tried(am) \cup X)
    <3>4. Ids(to) = Ids(am) BY <1>10
    <3>1. Ids(to) \ (Tried(to) \cup {}) = R \cup {old} /\ old \notin R
      <4>1. PICK S, T : S = Ids(am) /\ T = Tried(am) OBVIOUS
      <4>2. S \ (((T \ {old}) \cup {x}) \cup {}) = (S \ (T \cup {x})) \cup {old}
        BY <1>5, <4>1
      <4> QED BY <1>5, <1>11, <3>4, <4>1, <4>2
    <3>2. IsFiniteSet(R) BY <2>2, FS_Subset
    <3> HIDE DEF R
    <3>3. Cardinality(R \cup {old}) = Cardinality(R) + 1 BY <3>1, <3>2, FS_AddElement
    <3> QED BY <2>1, <3>1, <3>3 DEF R
  <2> QED BY <1>4, <2>1, <2>3, <2>4 DEF Counted
<1>17. References(am, old) = {} /\ \A c \in NewBucket : old \notin am.vvNew[c]
  BY <1>5 DEF Sound, InNew, References
<1>18. InNew(to)
  <2> SUFFICES ASSUME NEW c \in NewBucket
               PROVE  /\ to.vvNew[c] \subseteq Ids(to) \ Tried(to)
                      /\ Cardinality(to.vvNew[c]) <= NewBucketSize
    BY DEF InNew
  <2>1. am.vvNew[c] \subseteq Ids(am) \ Tried(am) /\ Cardinality(am.vvNew[c]) <= NewBucketSize
    BY DEF Sound, InNew
  <2>2. x \notin am.vvNew[c] OBVIOUS
  <2>3. CASE c = dest
    <3>1. to.vvNew[c] = am.vvNew[c] \cup {old} BY <1>4, <1>9, <2>3
    <3>2. IsFiniteSet(am.vvNew[c]) BY <1>1, BucketsFinite
    <3>3. Cardinality(am.vvNew[c] \cup {old}) = Cardinality(am.vvNew[c]) + 1
      BY <1>17, <3>2, FS_AddElement
    <3>4. Cardinality(am.vvNew[c]) \in Nat BY <3>2, FS_CardinalityType
    <3>5. Cardinality(am.vvNew[c]) < NewBucketSize /\ NewBucketSize \in Nat BY <2>3, Sizes
    <3>6. Cardinality(to.vvNew[c]) <= NewBucketSize BY <3>1, <3>3, <3>4, <3>5
    <3>7. to.vvNew[c] \subseteq Ids(to) \ Tried(to)
      <4>1. Ids(to) = Ids(am) BY <1>10
      <4> QED BY <1>5, <1>11, <2>1, <2>2, <3>1, <4>1
    <3> QED BY <3>6, <3>7
  <2>4. CASE c # dest
    <3>1. to.vvNew[c] = am.vvNew[c] BY <1>4, <1>9, <2>4
    <3> QED BY <1>10, <1>11, <2>1, <2>2, <3>1
  <2> QED BY <2>3, <2>4
<1>19. Referred(to, {})
  <2> SUFFICES ASSUME NEW i \in Ids(am), i \notin Tried(to)
               PROVE  /\ to.mapInfo[i].nRefCount = Cardinality(References(to, i))
                      /\ to.mapInfo[i].nRefCount \in 1..PerAddress
    BY <1>10 DEF Referred
  <2>1. CASE i = old
    <3>1. References(to, i) = {dest} BY <1>4, <1>9, <1>17, <2>1 DEF References
    <3>2. to.mapInfo[i].nRefCount = 1 BY <1>10, <2>1
    <3>3. 1 \in 1..PerAddress BY Sizes
    <3> QED BY <3>1, <3>2, <3>3, FS_Singleton
  <2>2. CASE i # old
    <3>1. i \in Ids(am) \ (Tried(am) \cup X) BY <1>11, <2>2
    <3>2. References(to, i) = References(am, i) BY <1>4, <1>9, <2>2 DEF References
    <3>3. to.mapInfo[i].nRefCount = am.mapInfo[i].nRefCount BY <1>10, <2>2
    <3>4. /\ am.mapInfo[i].nRefCount = Cardinality(References(am, i))
          /\ am.mapInfo[i].nRefCount \in 1..PerAddress
      BY <3>1 DEF Sound, Referred
    <3> QED BY <3>2, <3>3, <3>4
  <2> QED BY <2>1, <2>2
<1>21. InTried(to)
  <2>1. InTried(am) BY DEF Sound
  <2>2. /\ DOMAIN v = DOMAIN q
        /\ \A p \in DOMAIN v : \E o \in DOMAIN q : v[p] = q[o]
        /\ \A o \in DOMAIN q : \E p \in DOMAIN v : v[p] = q[o]
        /\ \A p, o \in DOMAIN v : v[p] = v[o] => p = o
    BY DEF Rearranged
  <2>3. \A i \in Tried(to) : to.mapInfo[i].nLastSuccess > 0 /\ to.mapInfo[i].nRefCount = 0
    <3> TAKE i \in Tried(to)
    <3>1. i \in Ids(am) /\ i # old /\ (i = x \/ i \in Tried(am)) BY <1>5, <1>11 DEF Tried
    <3>2. am.mapInfo[i].nLastSuccess > 0 /\ am.mapInfo[i].nRefCount = 0 BY <2>1, <3>1 DEF InTried
    <3> QED BY <1>10, <3>1, <3>2
  <2>4. \A c \in TriedBucket : to.vvTried[c] = IF c = b THEN w ELSE am.vvTried[c] BY <1>4, <1>8
  <2>5. Len(w) <= TriedBucketSize
    <3>1. Len(v) = Len(q)
      <4>1. v \in Seq(Ids(am)) /\ q \in Seq(Ids(am)) BY <1>3
      <4> HIDE DEF q
      <4> QED BY <2>2, <4>1
    <3> QED BY <1>5, <1>7, <3>1
  <2>6. \A p \in DOMAIN w : w[p] = x \/ \E o \in DOMAIN q : w[p] = q[o] /\ w[p] \notin {old}
    <3> TAKE p \in DOMAIN w
    <3>1. CASE p = pos BY <1>7, <3>1
    <3>2. CASE p # pos
      <4>1. p \in DOMAIN v /\ w[p] = v[p] /\ v[p] # old BY <1>7, <2>2, <3>2
      <4>2. PICK o \in DOMAIN q : v[p] = q[o] BY <2>2, <4>1
      <4> HIDE DEF q
      <4>3. w[p] = q[o] /\ w[p] \notin {old} BY <4>1, <4>2
      <4> QED BY <4>3
    <3> QED BY <3>1, <3>2
  <2>7. \A p \in DOMAIN v : v[p] # x
    <3>1. x \notin Tried(am) OBVIOUS
    <3> HIDE DEF q
    <3> QED BY <1>5, <2>2, <3>1
  <2>8. \A p, o \in DOMAIN w : w[p] = w[o] => p = o BY <1>7, <2>2, <2>7
  <2>9. \E p \in DOMAIN w : w[p] = x BY <1>7
  <2>10. \A o \in DOMAIN q : q[o] \in {old} \/ \E p \in DOMAIN w : w[p] = q[o]
    <3> TAKE o \in DOMAIN q
    <3>1. PICK p \in DOMAIN v : v[p] = q[o] BY <2>2
    <3> HIDE DEF q
    <3> QED BY <1>7, <3>1
  <2>11. \A i \in {old} : \E o \in DOMAIN q : q[o] = i
    <3>1. \E o \in DOMAIN q : old = q[o] BY <2>2
    <3> QED BY <3>1
  <2>12. \A i \in Ids(am) : /\ to.mapInfo[i].addr = am.mapInfo[i].addr
                            /\ GetTriedBucket[am.mapInfo[i].addr] \in TriedBucket
    <3>1. \A i \in Ids(am) : am.mapInfo[i].addr \in Address BY <1>2 DEF CAddrInfo
    <3> QED BY <1>15, <3>1 DEF AddrManAssumption
  <2>13. Exchanged(am, to, x, {old}, w, b)
    <3>1. b = GetTriedBucket[am.mapInfo[x].addr] /\ x \in Ids(am) OBVIOUS
    <3> QED BY <1>3, <1>11, <2>3, <2>4, <2>5, <2>6, <2>8, <2>9, <2>10, <2>11, <2>12, <3>1
            DEF Exchanged
  <2> QED BY <2>1, <2>13, TriedIs
<1> QED BY <1>12, <1>13, <1>14, <1>16, <1>18, <1>19, <1>21 DEF Sound, to

(* The entry out of the new buckets comes into its tried bucket, whether   *)
(* there is place or another entry has to leave.                           *)
LEMMA PlaceIs ==
  ASSUME AddrManAssumption, NEW am, NEW x \in Ids(am) \ Tried(am), NEW X, X = {x}, Sound(am, X, X),
         am.mapInfo[x].nRefCount = 0, am.mapInfo[x].nLastSuccess > 0,
         \A c \in NewBucket : x \notin am.vvNew[c],
         NEW nOrigin \in NewBucket, Cardinality(am.vvNew[nOrigin]) < NewBucketSize,
         NEW to \in Place(am, x, nOrigin)
  PROVE  Sound(to, {}, {})
<1> DEFINE b == GetTriedBucket[am.mapInfo[x].addr]
           q == am.vvTried[b]
<1>1. CASE Len(q) < TriedBucketSize
  <2>1. to = Placed(am, x, b) BY <1>1 DEF Place, Placed
  <2>2. Sound(Placed(am, x, GetTriedBucket[am.mapInfo[x].addr]), {}, {})
    BY <1>1, PlacedIs
  <2> QED BY <2>1, <2>2
<1>2. CASE ~(Len(q) < TriedBucketSize)
  <2>1. PICK rnd \in Picks(q) :
          LET chosen == SelectTried(am, b, rnd)
              old == chosen.vTried[chosen.nOldestPos]
              nUBucket == GetNewBucket[<<am.mapInfo[old].addr, am.mapInfo[old].source>>]
              dest == IF Cardinality(am.vvNew[nUBucket]) < NewBucketSize
                      THEN nUBucket ELSE nOrigin
          IN  to = [am EXCEPT
                      !.mapInfo[old].fInTried = FALSE, !.mapInfo[old].nRefCount = 1,
                      !.vvNew[dest] = @ \cup {old},
                      !.nNew = @ + 1,
                      !.vvTried[b] = [chosen.vTried EXCEPT ![chosen.nOldestPos] = x],
                      !.mapInfo[x].fInTried = TRUE]
    BY <1>2 DEF Place
  <2> DEFINE chosen == SelectTried(am, b, rnd)
             v == chosen.vTried
             pos == chosen.nOldestPos
             old == v[pos]
             nUBucket == GetNewBucket[<<am.mapInfo[old].addr, am.mapInfo[old].source>>]
             dest == IF Cardinality(am.vvNew[nUBucket]) < NewBucketSize THEN nUBucket ELSE nOrigin
  <2>2. to = Replaced(am, x, b, v, pos, old, dest) BY <2>1 DEF Replaced
  <2>3. IsCAddrMan(am) /\ InTried(am) /\ InNew(am) BY DEF Sound
  <2>4. /\ am.mapInfo \in [Ids(am) -> CAddrInfo] /\ am.vvTried \in [TriedBucket -> Seq(Ids(am))]
    BY <2>3 DEF IsCAddrMan
  <2>5. b \in TriedBucket /\ q \in Seq(Ids(am))
    <3>1. am.mapInfo[x].addr \in Address BY <2>4 DEF CAddrInfo
    <3>2. b \in TriedBucket BY <3>1 DEF AddrManAssumption
    <3> QED BY <2>4, <3>2
  <2>6. Len(q) > 0
    <3>1. TriedBucketSize \in Nat \ {0} BY Sizes
    <3>2. Len(q) \in Nat BY <2>5
    <3> QED BY <1>2, <3>1, <3>2
  <2>7. \A p, o \in DOMAIN q : q[p] = q[o] => p = o BY <2>3, <2>5 DEF InTried
  <2>8. v \in Seq(Ids(am)) /\ Rearranged(q, v) /\ pos \in DOMAIN q
    <3> HIDE DEF b
    <3> QED BY <2>3, <2>5, <2>6, <2>7, SelectIs
  <2>9. pos \in DOMAIN v /\ old \in Ids(am)
    <3> HIDE DEF v, pos, q
    <3> QED BY <2>8 DEF Rearranged
  <2>10. dest \in NewBucket /\ Cardinality(am.vvNew[dest]) < NewBucketSize
    <3> HIDE DEF old
    <3>1. am.mapInfo[old].addr \in Address /\ am.mapInfo[old].source \in Source
      BY <2>4, <2>9 DEF CAddrInfo
    <3>2. nUBucket \in NewBucket BY <3>1 DEF AddrManAssumption
    <3> HIDE DEF nUBucket
    <3> QED BY <3>2
  <2>11. b = GetTriedBucket[am.mapInfo[x].addr] /\ old = v[pos] OBVIOUS
  <2> HIDE DEF v, pos, old, dest, chosen, nUBucket
  <2>12. Rearranged(am.vvTried[b], v) BY <2>8
  <2> HIDE DEF q, b
  <2> QED BY <2>2, <2>8, <2>9, <2>10, <2>11, <2>12, ReplacedIs
<1> QED BY <1>1, <1>2

(* Good_ keeps the tables sound. *)
LEMMA GoodStep ==
  ASSUME AddrManAssumption, AddrInv, NEW a \in Address, NEW nTime \in 1..MaxTime, Good(a, nTime)
  PROVE  AddrInv'
<1> DEFINE x == addrman.mapAddr[a]
           am == Succeeded(addrman, x, nTime)
           in == {b \in NewBucket : x \in am.vvNew[b]}
<1>1. /\ a \in DOMAIN addrman.mapAddr
      /\ IF am.mapInfo[x].fInTried \/ in = {} THEN addrman' = am
         ELSE \E nOrigin \in in : addrman' \in MakeTried(am, x, nOrigin)
  BY DEF Good, Succeeded
<1>2. x \in Ids(addrman) BY <1>1 DEF AddrInv, Sound, Named
<1>3. nTime \in Nat \ {0} BY Sizes
<1>4. /\ Sound(am, {}, {}) /\ Ids(am) = Ids(addrman)
      /\ am.mapInfo[x].nLastSuccess = nTime
  <2> HIDE DEF x
  <2> QED BY <1>2, <1>3, SuccessIs DEF AddrInv
<1> HIDE DEF x, am
<1>5. CASE am.mapInfo[x].fInTried \/ in = {}
  BY <1>1, <1>4, <1>5 DEF AddrInv
<1>6. CASE ~(am.mapInfo[x].fInTried \/ in = {})
  <2>1. PICK nOrigin \in in : addrman' \in MakeTried(am, x, nOrigin) BY <1>1, <1>6
  <2>2. x \in Ids(am) \ Tried(am) BY <1>2, <1>4, <1>6 DEF Tried
  <2>3. PICK X : X = {x} OBVIOUS
  <2> DEFINE to == Aside(am, x)
  <2>4. /\ Sound(to, X, X) /\ x \in Ids(to) \ Tried(to)
        /\ to.mapInfo[x].nRefCount = 0
        /\ to.mapInfo[x].nLastSuccess = nTime
        /\ \A b \in NewBucket : to.vvNew[b] = am.vvNew[b] \ {x}
    BY <1>4, <2>2, <2>3, AsideIs
  <2>5. addrman' \in Place(to, x, nOrigin) BY <2>1 DEF MakeTried, Aside, References
  <2> HIDE DEF to
  <2>6. \A c \in NewBucket : x \notin to.vvNew[c] BY <2>4
  <2>7. nOrigin \in NewBucket /\ Cardinality(to.vvNew[nOrigin]) < NewBucketSize
    <3>1. nOrigin \in NewBucket /\ x \in am.vvNew[nOrigin] OBVIOUS
    <3>2. Cardinality(am.vvNew[nOrigin]) <= NewBucketSize /\ IsFiniteSet(am.vvNew[nOrigin])
      BY <1>4, <3>1, BucketsFinite DEF Sound, InNew
    <3>3. Cardinality(am.vvNew[nOrigin] \ {x}) = Cardinality(am.vvNew[nOrigin]) - 1
      BY <3>1, <3>2, FS_RemoveElement
    <3>4. Cardinality(am.vvNew[nOrigin]) \in Nat /\ NewBucketSize \in Nat
      BY <3>2, FS_CardinalityType, Sizes
    <3>5. to.vvNew[nOrigin] = am.vvNew[nOrigin] \ {x} BY <2>4, <3>1
    <3>6. Cardinality(to.vvNew[nOrigin]) = Cardinality(am.vvNew[nOrigin]) - 1 BY <3>3, <3>5
    <3> HIDE DEF in
    <3> QED BY <3>1, <3>2, <3>4, <3>6
  <2>8. to.mapInfo[x].nLastSuccess > 0 BY <1>3, <2>4
  <2>9. Sound(addrman', {}, {}) BY <2>3, <2>4, <2>5, <2>6, <2>7, <2>8, PlaceIs
  <2> QED BY <2>9 DEF AddrInv
<1> QED BY <1>5, <1>6

(* GetAddr_ only changes the order of the list. *)
LEMMA GetAddrStep ==
  ASSUME AddrManAssumption, AddrInv, GetAddr
  PROVE  AddrInv'
<1>1. PICK p \in DOMAIN addrman.vRandom, q \in DOMAIN addrman.vRandom :
        addrman' = SwapRandom(addrman, p, q)
  BY DEF GetAddr
<1> DEFINE am == addrman
           to == SwapRandom(am, p, q)
<1>2. Sound(am, {}, {}) BY DEF AddrInv
<1>3. /\ IsCAddrMan(to) /\ Listed(to)
      /\ Ids(to) = Ids(am) 
      /\ Agree(am.mapInfo, to.mapInfo, {"nRandomPos"})
      /\ to.mapAddr = am.mapAddr /\ to.vvTried = am.vvTried /\ to.vvNew = am.vvNew
      /\ to.nNew = am.nNew /\ to.nTried = am.nTried /\ to.nIdCount = am.nIdCount
  BY <1>2, SwapIs DEF Sound
<1> HIDE DEF to, am
<1>4. \A i \in Ids(am) : /\ to.mapInfo[i].addr = am.mapInfo[i].addr
                         /\ to.mapInfo[i].nRefCount = am.mapInfo[i].nRefCount
                         /\ to.mapInfo[i].fInTried = am.mapInfo[i].fInTried
                         /\ to.mapInfo[i].nLastSuccess = am.mapInfo[i].nLastSuccess
  BY <1>3 DEF Agree, Ids
<1>5. Tried(to) = Tried(am) /\ Tried(am) \subseteq Ids(am) BY <1>3, <1>4 DEF Tried
<1>6. Named(to)
  <2>1. Named(am) BY <1>2 DEF Sound
  <2> QED BY <1>3, <1>4, <2>1 DEF Named
<1>7. Counted(to, {}) BY <1>2, <1>3, <1>5 DEF Sound, Counted
<1>8. InNew(to) BY <1>2, <1>3, <1>5 DEF Sound, InNew
<1>9. Referred(to, {})
  <2>1. Referred(am, {}) BY <1>2 DEF Sound
  <2>2. \A i : References(to, i) = References(am, i) BY <1>3 DEF References
  <2> QED BY <1>3, <1>4, <1>5, <2>1, <2>2 DEF Referred
<1>10. InTried(to)
  <2>1. InTried(am) BY <1>2 DEF Sound
  <2>2. \A i \in Tried(to) : /\ to.mapInfo[i].nLastSuccess > 0 /\ to.mapInfo[i].nRefCount = 0
                             /\ \E o \in DOMAIN to.vvTried[GetTriedBucket[to.mapInfo[i].addr]] :
                                  to.vvTried[GetTriedBucket[to.mapInfo[i].addr]][o] = i
    <3> TAKE i \in Tried(to)
    <3>1. i \in Tried(am) /\ i \in Ids(am) BY <1>5
    <3>2. /\ am.mapInfo[i].nLastSuccess > 0 /\ am.mapInfo[i].nRefCount = 0
          /\ \E o \in DOMAIN am.vvTried[GetTriedBucket[am.mapInfo[i].addr]] :
               am.vvTried[GetTriedBucket[am.mapInfo[i].addr]][o] = i
      BY <2>1, <3>1 DEF InTried
    <3> QED BY <1>3, <1>4, <3>1, <3>2
  <2>3. ASSUME NEW b \in TriedBucket
        PROVE  /\ Len(to.vvTried[b]) <= TriedBucketSize
               /\ \A o \in DOMAIN to.vvTried[b] :
                    /\ to.vvTried[b][o] \in Tried(to)
                    /\ GetTriedBucket[to.mapInfo[to.vvTried[b][o]].addr] = b
               /\ \A o, n \in DOMAIN to.vvTried[b] : to.vvTried[b][o] = to.vvTried[b][n] => o = n
    <3>1. /\ Len(am.vvTried[b]) <= TriedBucketSize
          /\ \A o \in DOMAIN am.vvTried[b] :
               /\ am.vvTried[b][o] \in Tried(am)
               /\ GetTriedBucket[am.mapInfo[am.vvTried[b][o]].addr] = b
          /\ \A o, n \in DOMAIN am.vvTried[b] : am.vvTried[b][o] = am.vvTried[b][n] => o = n
      BY <2>1 DEF InTried
    <3> QED BY <1>3, <1>4, <1>5, <3>1
  <2> QED BY <2>2, <2>3 DEF InTried
<1>11. Sound(to, {}, {}) BY <1>3, <1>6, <1>7, <1>8, <1>9, <1>10 DEF Sound
<1> QED BY <1>1, <1>11 DEF AddrInv, to, am

---------------------------------------------------------------------------
(* Numbering *)

(* What is matched, one to one, to part of a finite set or all of it.      *)
OneToOne(f, S, T) == f \in [S -> T] /\ \A s, t \in S : f[s] = f[t] => s = t
Onto(f, S, T) == \A t \in T : \E s \in S : f[s] = t

LEMMA Matched ==
  ASSUME NEW S, NEW T, IsFiniteSet(T), NEW f, OneToOne(f, S, T)
  PROVE  /\ IsFiniteSet(S) /\ Cardinality(S) \in Nat /\ Cardinality(S) <= Cardinality(T)
         /\ (Cardinality(S) = Cardinality(T)) <=> Onto(f, S, T)
<1>1. f \in Injection(S, T) BY DEF Injection, IsInjective, OneToOne
<1>2. /\ IsFiniteSet(S) /\ Cardinality(S) <= Cardinality(T)
      /\ (Cardinality(S) = Cardinality(T)) <=> f \in Surjection(S, T)
  BY <1>1, FS_Injection
<1>3. f \in Surjection(S, T) <=> Onto(f, S, T) BY DEF Surjection, OneToOne, Onto
<1> QED BY <1>2, <1>3, FS_CardinalityType

(* There are n numbers from 1 to n. *)
LEMMA Interval ==
  ASSUME NEW n \in Nat
  PROVE  IsFiniteSet(1..n) /\ Cardinality(1..n) = n
<1>1. IsFiniteSet(1..n) /\ Cardinality(1..n) = IF 1 > n THEN 0 ELSE n - 1 + 1 BY FS_Interval
<1> QED BY <1>1

(* The place of i in S. *)
Below(S, i) == {j \in S : j < i}
Rank(S, i) == 1 + Cardinality(Below(S, i))

LEMMA BelowIs ==
  ASSUME NEW m \in Nat, NEW S \in SUBSET (1..m)
  PROVE  /\ IsFiniteSet(S) /\ Cardinality(S) \in 0..m
         /\ \A i \in S : Cardinality(Below(S, i)) \in Nat /\ Cardinality(Below(S, i)) < Cardinality(S)
         /\ \A i, k \in S : i < k => Cardinality(Below(S, i)) < Cardinality(Below(S, k))
<1>1. IsFiniteSet(S) /\ Cardinality(S) \in 0..m
  <2>1. IsFiniteSet(1..m) /\ Cardinality(1..m) = m BY Interval
  <2>2. IsFiniteSet(S) /\ Cardinality(S) <= Cardinality(1..m) BY <2>1, FS_Subset
  <2>3. Cardinality(S) \in Nat BY <2>2, FS_CardinalityType
  <2> QED BY <2>1, <2>2, <2>3
<1>2. ASSUME NEW i \in S, NEW T \in SUBSET S, \A j \in S : j <= i => j \in T
      PROVE  Cardinality(Below(S, i)) \in Nat /\ Cardinality(Below(S, i)) < Cardinality(T)
  <2> DEFINE B == Below(S, i)
  <2>1. \A j \in B : j \in S /\ j < i /\ j \in Nat /\ i \in Nat BY DEF Below
  <2>2. i \notin B BY <2>1
  <2>3. \A j \in B : j \in T BY <1>2, <2>1
  <2>4. i \in T BY <1>2
  <2> HIDE DEF B
  <2>5. IsFiniteSet(T) BY <1>1, FS_Subset
  <2>6. B \in SUBSET T /\ B \cup {i} \in SUBSET T BY <2>3, <2>4
  <2>7. IsFiniteSet(B) BY <2>5, <2>6, FS_Subset
  <2>8. Cardinality(B \cup {i}) = Cardinality(B) + 1 BY <2>2, <2>7, FS_AddElement
  <2>9. Cardinality(B \cup {i}) <= Cardinality(T) BY <2>5, <2>6, FS_Subset
  <2>10. Cardinality(B) \in Nat /\ Cardinality(T) \in Nat BY <2>5, <2>7, FS_CardinalityType
  <2> QED BY <2>8, <2>9, <2>10 DEF B
<1>3. ASSUME NEW i \in S
      PROVE  Cardinality(Below(S, i)) \in Nat /\ Cardinality(Below(S, i)) < Cardinality(S)
  <2>1. PICK T \in SUBSET S : T = S OBVIOUS
  <2> QED BY <1>2, <2>1
<1>4. ASSUME NEW i \in S, NEW k \in S, i < k
      PROVE  Cardinality(Below(S, i)) < Cardinality(Below(S, k))
  <2>1. \A j \in S : j <= i => j \in Below(S, k) BY <1>4 DEF Below
  <2>2. Below(S, k) \in SUBSET S BY DEF Below
  <2> QED BY <1>2, <2>1, <2>2
<1> QED BY <1>1, <1>3, <1>4

(* Every element has a place of its own, and every place is taken. *)
LEMMA RankIs ==
  ASSUME NEW m \in Nat, NEW S \in SUBSET (1..m)
  PROVE  /\ Cardinality(S) \in Nat
         /\ \A i \in S : Rank(S, i) \in 1..Cardinality(S)
         /\ \A i, k \in S : Rank(S, i) = Rank(S, k) => i = k
         /\ \A n \in 1..Cardinality(S) : \E i \in S : Rank(S, i) = n
<1> DEFINE N == Cardinality(S)
<1>1. IsFiniteSet(S) /\ N \in Nat BY BelowIs
<1>2. ASSUME NEW i \in S PROVE Rank(S, i) \in 1..N
  <2> DEFINE c == Cardinality(Below(S, i))
  <2>1. c \in Nat /\ c < N /\ Rank(S, i) = 1 + c BY BelowIs DEF Rank
  <2> HIDE DEF c, N
  <2> QED BY <1>1, <2>1
<1>3. ASSUME NEW i \in S, NEW k \in S, i < k PROVE Rank(S, i) # Rank(S, k)
  <2> DEFINE c == Cardinality(Below(S, i))
             d == Cardinality(Below(S, k))
  <2>1. c \in Nat /\ d \in Nat /\ c < d /\ Rank(S, i) = 1 + c /\ Rank(S, k) = 1 + d
    BY <1>3, BelowIs DEF Rank
  <2> HIDE DEF c, d
  <2> QED BY <2>1
<1>4. ASSUME NEW i \in S, NEW k \in S, Rank(S, i) = Rank(S, k) PROVE i = k
  <2>1. i \in Nat /\ k \in Nat OBVIOUS
  <2>2. i < k \/ k < i \/ i = k BY <2>1
  <2> QED BY <1>3, <1>4, <2>2
<1>5. \A n \in 1..N : \E i \in S : Rank(S, i) = n
  <2> DEFINE f == [i \in S |-> Rank(S, i)]
             T == 1..N
  <2>1. IsFiniteSet(T) /\ Cardinality(T) = N
    <3> HIDE DEF N
    <3> QED BY <1>1, Interval
  <2>2. OneToOne(f, S, T)
    <3>1. \A s, t \in S : f[s] = f[t] => s = t BY <1>4
    <3>2. f \in [S -> T] BY <1>2
    <3> QED BY <3>1, <3>2 DEF OneToOne
  <2>3. \A i \in S : f[i] = Rank(S, i) OBVIOUS
  <2> HIDE DEF f, T
  <2>4. Cardinality(S) = Cardinality(T) BY <2>1
  <2>5. Onto(f, S, T) BY <2>1, <2>2, <2>4, Matched
  <2> QED BY <2>3, <2>5 DEF T, Onto
<1> QED BY <1>1, <1>2, <1>4, <1>5

(* InOrder lists every element of a set, and each of them once.            *)
LEMMA OrderIs ==
  ASSUME NEW m \in Nat, NEW S \in SUBSET (1..m)
  PROVE  /\ InOrder(S) \in Seq(S) /\ Len(InOrder(S)) = Cardinality(S)
         /\ InOrder(S) \in [1..Cardinality(S) -> S]
         /\ \A p, q \in 1..Cardinality(S) : InOrder(S)[p] = InOrder(S)[q] => p = q
         /\ \A i \in S : Rank(S, i) \in 1..Cardinality(S) /\ InOrder(S)[Rank(S, i)] = i
         /\ \A p \in 1..Cardinality(S) : Rank(S, InOrder(S)[p]) = p
<1> DEFINE N == Cardinality(S)
           f == InOrder(S)
<1>1. /\ N \in Nat
      /\ \A i \in S : Rank(S, i) \in 1..N
      /\ \A i, k \in S : Rank(S, i) = Rank(S, k) => i = k
      /\ \A n \in 1..N : \E i \in S : Rank(S, i) = n
  BY RankIs
<1>2. ASSUME NEW n \in 1..N PROVE f[n] = CHOOSE i \in S : Rank(S, i) = n
  <2>1. f[n] = CHOOSE i \in S : Cardinality(Below(S, i)) = n - 1 BY DEF InOrder, Below
  <2>2. ASSUME NEW i \in S PROVE Cardinality(Below(S, i)) = n - 1 <=> Rank(S, i) = n
    <3> DEFINE c == Cardinality(Below(S, i))
    <3>1. c \in Nat /\ Rank(S, i) = 1 + c BY BelowIs DEF Rank
    <3>2. n \in Nat BY <1>1
    <3> HIDE DEF c
    <3>3. c = n - 1 <=> Rank(S, i) = n BY <3>1, <3>2
    <3> QED BY <3>3 DEF c
  <2> QED BY <2>1, <2>2
<1>3. f = [n \in 1..N |-> f[n]]
  <2> DEFINE e(n) == CHOOSE i \in S : Cardinality({j \in S : j < i}) = n - 1
  <2>1. f = [n \in 1..N |-> e(n)] BY DEF InOrder
  <2> HIDE DEF f, e, N
  <2> QED BY <2>1
<1> HIDE DEF f, N
<1>4. ASSUME NEW n \in 1..N PROVE f[n] \in S /\ Rank(S, f[n]) = n
  <2>1. \E i \in S : Rank(S, i) = n BY <1>1
  <2>2. f[n] = CHOOSE i \in S : Rank(S, i) = n BY <1>2
  <2> QED BY <2>1, <2>2
<1>5. f \in [1..N -> S] BY <1>3, <1>4
<1>6. f \in Seq(S) /\ Len(f) = N
  <2>1. N \in Nat BY <1>1
  <2>2. DOMAIN f = 1..N /\ \A n \in 1..N : f[n] \in S BY <1>5
  <2> QED BY <1>5, <2>1, <2>2
<1>7. ASSUME NEW i \in S PROVE f[Rank(S, i)] = i
  <2>1. PICK n \in 1..N : n = Rank(S, i) BY <1>1
  <2>2. f[n] \in S /\ Rank(S, f[n]) = n BY <1>4
  <2> QED BY <1>1, <2>1, <2>2
<1>8. \A p, q \in 1..N : f[p] = f[q] => p = q BY <1>4
<1> QED BY <1>1, <1>4, <1>5, <1>6, <1>7, <1>8 DEF f, N

---------------------------------------------------------------------------
(* peers.dat *)

(* Tried entries of one bucket are no more than it can hold. *)
LEMMA BucketHolds ==
  ASSUME AddrManAssumption, NEW am, IsCAddrMan(am), InTried(am), NEW b \in TriedBucket, NEW S, NEW g,
         \A i \in S : g[i] \in Tried(am) /\ GetTriedBucket[am.mapInfo[g[i]].addr] = b,
         \A i, k \in S : g[i] = g[k] => i = k
  PROVE  IsFiniteSet(S) /\ Cardinality(S) \in Nat /\ Cardinality(S) <= TriedBucketSize
<1> DEFINE q == am.vvTried[b]
           f == [i \in S |-> CHOOSE p \in DOMAIN q : q[p] = g[i]]
           T == 1..Len(q)
<1>1. Len(q) \in Nat /\ DOMAIN q = T /\ Len(q) <= TriedBucketSize
  <2>1. q \in Seq(Ids(am)) BY DEF IsCAddrMan
  <2>2. Len(q) <= TriedBucketSize BY DEF InTried
  <2> HIDE DEF q
  <2> QED BY <2>1, <2>2
<1>2. ASSUME NEW i \in S PROVE f[i] \in T /\ q[f[i]] = g[i]
  <2>1. \E p \in DOMAIN q : q[p] = g[i] BY DEF InTried
  <2>2. f[i] = CHOOSE p \in DOMAIN q : q[p] = g[i] OBVIOUS
  <2> HIDE DEF f, q, T
  <2> QED BY <1>1, <2>1, <2>2
<1>3. OneToOne(f, S, T)
  <2>1. f \in [S -> T]
    <3> HIDE DEF q, T
    <3> QED BY <1>2
  <2> HIDE DEF f, q, T
  <2>2. \A i, k \in S : f[i] = f[k] => i = k BY <1>2
  <2> QED BY <2>1, <2>2 DEF OneToOne
<1>4. IsFiniteSet(T) /\ Cardinality(T) = Len(q)
  <2> HIDE DEF q
  <2> QED BY <1>1, Interval
<1> HIDE DEF f, T
<1>5. IsFiniteSet(S) /\ Cardinality(S) \in Nat /\ Cardinality(S) <= Cardinality(T)
  BY <1>3, <1>4, Matched
<1>6. TriedBucketSize \in Nat BY Sizes
<1> HIDE DEF q
<1> QED BY <1>1, <1>4, <1>5, <1>6

(* The tables as they are rebuilt: entry i is a copy of entry src[i], the  *)
(* ids are those up to the number of the entries, and the new entries come *)
(* first.                                                                  *)
Copied(am, to, src) ==
  LET N == am.nNew + am.nTried
  IN  /\ OneToOne(src, 1..N, Ids(am)) /\ Onto(src, 1..N, Ids(am))
      /\ \A i \in 1..N : src[i] \in Tried(am) <=> i > am.nNew
      /\ HasMembers(to)
      /\ to.mapInfo = [i \in 1..N |->
           [addr |-> am.mapInfo[src[i]].addr, source |-> am.mapInfo[src[i]].source,
            nRefCount |-> am.mapInfo[src[i]].nRefCount, fInTried |-> i > am.nNew,
            nLastSuccess |-> am.mapInfo[src[i]].nLastSuccess, nRandomPos |-> i]]
      /\ to.mapAddr = [a \in {am.mapInfo[src[i]].addr : i \in 1..N} |->
                         CHOOSE i \in 1..N : am.mapInfo[src[i]].addr = a]
      /\ to.vRandom = [i \in 1..N |-> i]
      /\ to.vvTried = [b \in TriedBucket |->
           InOrder({i \in (am.nNew + 1)..N : GetTriedBucket[am.mapInfo[src[i]].addr] = b})]
      /\ to.vvNew = [b \in NewBucket |-> {i \in 1..N : src[i] \in am.vvNew[b]}]
      /\ to.nNew = am.nNew /\ to.nTried = am.nTried /\ to.nIdCount = N

LEMMA CopiedIs ==
  ASSUME AddrManAssumption, NEW am, Sound(am, {}, {}), NEW to, NEW src, Copied(am, to, src)
  PROVE  Sound(to, {}, {}) /\ Known(to) = Known(am)
<1> DEFINE N == am.nNew + am.nTried
           D == 1..N
           addr(i) == am.mapInfo[src[i]].addr
           TB(b) == {i \in (am.nNew + 1)..N : GetTriedBucket[am.mapInfo[src[i]].addr] = b}
<1>1. /\ IsCAddrMan(am) /\ Named(am) /\ Counted(am, {}) /\ InNew(am) /\ Referred(am, {}) /\ InTried(am)
  BY DEF Sound
<1>2. /\ Ids(am) \subseteq EntryId /\ am.mapInfo \in [Ids(am) -> CAddrInfo]
      /\ am.nNew \in Nat /\ am.nTried \in Nat /\ N \in Nat
      /\ am.vvTried \in [TriedBucket -> Seq(Ids(am))]
      /\ am.vvNew \in [NewBucket -> SUBSET Ids(am)]
  BY <1>1 DEF IsCAddrMan
<1>3. /\ OneToOne(src, D, Ids(am)) /\ Onto(src, D, Ids(am))
      /\ \A i \in D : src[i] \in Ids(am) /\ (src[i] \in Tried(am) <=> i > am.nNew)
      /\ \A i, k \in D : src[i] = src[k] => i = k
      /\ \A j \in Ids(am) : \E i \in D : src[i] = j
  BY DEF Copied, OneToOne, Onto
<1>4. /\ HasMembers(to)
      /\ to.vRandom = [i \in D |-> i]
      /\ to.vvNew = [b \in NewBucket |-> {i \in D : src[i] \in am.vvNew[b]}]
      /\ to.vvTried = [b \in TriedBucket |-> InOrder(TB(b))]
      /\ to.nNew = am.nNew /\ to.nTried = am.nTried /\ to.nIdCount = N
  BY DEF Copied
<1>5. /\ DOMAIN to.mapInfo = D
      /\ \A i \in D : to.mapInfo[i] =
           [addr |-> addr(i), source |-> am.mapInfo[src[i]].source,
            nRefCount |-> am.mapInfo[src[i]].nRefCount, fInTried |-> i > am.nNew,
            nLastSuccess |-> am.mapInfo[src[i]].nLastSuccess, nRandomPos |-> i]
      /\ to.mapInfo = [i \in D |-> to.mapInfo[i]]
  <2>1. to.mapInfo = [i \in D |->
           [addr |-> am.mapInfo[src[i]].addr, source |-> am.mapInfo[src[i]].source,
            nRefCount |-> am.mapInfo[src[i]].nRefCount, fInTried |-> i > am.nNew,
            nLastSuccess |-> am.mapInfo[src[i]].nLastSuccess, nRandomPos |-> i]]
    BY DEF Copied
  <2> HIDE DEF D
  <2> QED BY <2>1
<1>6. /\ DOMAIN to.mapAddr = {addr(i) : i \in D}
      /\ to.mapAddr = [a \in {addr(i) : i \in D} |-> CHOOSE i \in D : addr(i) = a]
  BY DEF Copied
<1> HIDE DEF D, TB
<1>7. \A i \in D : /\ to.mapInfo[i].addr = addr(i)
                   /\ to.mapInfo[i].source = am.mapInfo[src[i]].source
                   /\ to.mapInfo[i].nRefCount = am.mapInfo[src[i]].nRefCount
                   /\ (to.mapInfo[i].fInTried <=> i > am.nNew)
                   /\ to.mapInfo[i].nLastSuccess = am.mapInfo[src[i]].nLastSuccess
                   /\ to.mapInfo[i].nRandomPos = i
  <2> TAKE i \in D
  <2>5. i \in Nat BY <1>2 DEF D
  <2>1. PICK c \in BOOLEAN : c <=> i > am.nNew BY <1>2, <2>5
  <2> DEFINE r == to.mapInfo[i]
  <2>2. r = [addr |-> addr(i), source |-> am.mapInfo[src[i]].source,
             nRefCount |-> am.mapInfo[src[i]].nRefCount, fInTried |-> c,
             nLastSuccess |-> am.mapInfo[src[i]].nLastSuccess, nRandomPos |-> i]
    BY <1>2, <1>5, <2>1, <2>5
  <2> HIDE DEF r
  <2>3. /\ r.addr = addr(i) /\ r.source = am.mapInfo[src[i]].source
        /\ r.nRefCount = am.mapInfo[src[i]].nRefCount /\ r.fInTried = c
        /\ r.nLastSuccess = am.mapInfo[src[i]].nLastSuccess /\ r.nRandomPos = i
    BY <2>2
  <2>4. r.fInTried <=> i > am.nNew BY <2>1, <2>3
  <2> QED BY <2>3, <2>4 DEF r
<1>8. Ids(to) = D /\ \A i \in D : i \in 1..N BY <1>5 DEF Ids, D
<1>9. IsFiniteSet(D) /\ Cardinality(D) = N BY <1>2, Interval DEF D
<1>10. N <= MaxId
  <2>1. IsFiniteSet(EntryId) /\ Cardinality(EntryId) = MaxId BY Sizes, Interval DEF EntryId
  <2>2. IsFiniteSet(Ids(am)) /\ Cardinality(Ids(am)) <= MaxId BY <1>2, <2>1, FS_Subset
  <2>3. Cardinality(D) <= Cardinality(Ids(am)) BY <1>3, <2>2, Matched
  <2>4. Cardinality(Ids(am)) \in Nat /\ MaxId \in Nat BY <2>2, FS_CardinalityType, Sizes
  <2> QED BY <1>2, <1>9, <2>2, <2>3, <2>4
<1>11. \A i \in D : addr(i) \in Address /\ am.mapInfo[src[i]] \in CAddrInfo
  BY <1>2, <1>3 DEF CAddrInfo
<1>12. \A i, k \in D : addr(i) = addr(k) => i = k
  <2>1. \A j \in Ids(am) : am.mapAddr[am.mapInfo[j].addr] = j BY <1>1 DEF Named
  <2> QED BY <1>3, <2>1
<1>13. Tried(to) = {i \in D : i > am.nNew} BY <1>7, <1>8 DEF Tried
<1>14. \A i \in D : src[i] \in Tried(am) <=> i \in Tried(to) BY <1>3, <1>13
<1> HIDE DEF addr
<1>15. /\ DOMAIN to.mapAddr \subseteq Address
       /\ \A i \in D : addr(i) \in DOMAIN to.mapAddr /\ to.mapAddr[addr(i)] = i
       /\ \A a \in DOMAIN to.mapAddr : to.mapAddr[a] \in D /\ addr(to.mapAddr[a]) = a
       /\ to.mapAddr \in [DOMAIN to.mapAddr -> D]
  <2>1. ASSUME NEW a \in DOMAIN to.mapAddr PROVE to.mapAddr[a] \in D /\ addr(to.mapAddr[a]) = a
    <3>1. \E i \in D : addr(i) = a BY <1>6
    <3>2. to.mapAddr[a] = CHOOSE i \in D : addr(i) = a BY <1>6
    <3> QED BY <3>1, <3>2
  <2>2. \A i \in D : addr(i) \in DOMAIN to.mapAddr BY <1>6
  <2>3. \A i \in D : to.mapAddr[addr(i)] = i BY <1>12, <2>1, <2>2
  <2>4. DOMAIN to.mapAddr \subseteq Address BY <1>6, <1>11
  <2>5. to.mapAddr \in [DOMAIN to.mapAddr -> D] BY <1>6, <2>1
  <2> QED BY <2>1, <2>2, <2>3, <2>4, <2>5
<1>16. Named(to) BY <1>4, <1>7, <1>8, <1>15 DEF Named
<1>17. Listed(to)
  <2>1. DOMAIN to.vRandom = D /\ \A i \in D : to.vRandom[i] = i BY <1>4
  <2> QED BY <1>7, <1>8, <2>1 DEF Listed
<1>18. IsCAddrMan(to)
  <2>1. to.mapInfo \in [D -> CAddrInfo]
    <3> SUFFICES ASSUME NEW i \in D PROVE to.mapInfo[i] \in CAddrInfo BY <1>5
    <3>1. am.mapInfo[src[i]] \in CAddrInfo /\ addr(i) \in Address BY <1>11
    <3>2. am.mapInfo[src[i]].source \in Source /\ am.mapInfo[src[i]].nRefCount \in Nat
          /\ am.mapInfo[src[i]].nLastSuccess \in Nat
      BY <3>1 DEF CAddrInfo
    <3>5. i \in Nat BY <1>8
    <3>3. PICK c \in BOOLEAN : c <=> i > am.nNew BY <1>2, <3>5
    <3>4. to.mapInfo[i] =
             [addr |-> addr(i), source |-> am.mapInfo[src[i]].source,
              nRefCount |-> am.mapInfo[src[i]].nRefCount, fInTried |-> c,
              nLastSuccess |-> am.mapInfo[src[i]].nLastSuccess, nRandomPos |-> i]
      BY <1>2, <1>5, <3>3, <3>5
    <3> QED BY <3>1, <3>2, <3>4, <3>5 DEF CAddrInfo
  <2>2. to.vRandom \in Seq(D) BY <1>2, <1>4 DEF D
  <2>3. D \subseteq EntryId BY <1>2, <1>10, Sizes DEF D, EntryId
  <2>4. to.vvTried \in [TriedBucket -> Seq(D)]
    <3> SUFFICES ASSUME NEW b \in TriedBucket PROVE InOrder(TB(b)) \in Seq(D) BY <1>4
    <3>1. TB(b) \in SUBSET (1..N) /\ TB(b) \in SUBSET D BY <1>2 DEF TB, D
    <3>2. InOrder(TB(b)) \in Seq(TB(b)) BY <1>2, <3>1, OrderIs
    <3> QED BY <3>1, <3>2
  <2>5. to.vvNew \in [NewBucket -> SUBSET D] BY <1>4
  <2>6. N \in 0..MaxId BY <1>2, <1>10, Sizes
  <2>7. {to.nNew, to.nTried} \subseteq Nat BY <1>2, <1>4
  <2> QED BY <1>4, <1>8, <1>15, <2>1, <2>2, <2>3, <2>4, <2>5, <2>6, <2>7 DEF IsCAddrMan
<1>19. Counted(to, {})
  <2>1. Tried(to) = (am.nNew + 1)..N BY <1>2, <1>13 DEF D
  <2>2. Cardinality((am.nNew + 1)..N) = am.nTried
    <3>2. PICK a \in Int, b \in Int : a = am.nNew + 1 /\ b = N BY <1>2
    <3>3. Cardinality(a..b) = IF a > b THEN 0 ELSE b - a + 1 BY FS_Interval
    <3>1. Cardinality((am.nNew + 1)..N) = IF am.nNew + 1 > N THEN 0 ELSE N - (am.nNew + 1) + 1
      BY <3>2, <3>3
    <3> QED BY <1>2, <3>1
  <2>3. Ids(to) \ (Tried(to) \cup {}) = 1..am.nNew BY <1>2, <1>8, <1>13 DEF D
  <2>4. Cardinality(1..am.nNew) = am.nNew BY <1>2, Interval
  <2> QED BY <1>4, <2>1, <2>2, <2>3, <2>4 DEF Counted
<1>20. InNew(to)
  <2> SUFFICES ASSUME NEW b \in NewBucket
               PROVE  /\ to.vvNew[b] \subseteq Ids(to) \ Tried(to)
                      /\ Cardinality(to.vvNew[b]) <= NewBucketSize
    BY DEF InNew
  <2> DEFINE B == to.vvNew[b]
             A == am.vvNew[b]
             f == [i \in B |-> src[i]]
  <2>1. A \subseteq Ids(am) \ Tried(am) /\ Cardinality(A) <= NewBucketSize /\ IsFiniteSet(A)
    BY <1>1, BucketsFinite DEF InNew
  <2>2. B = {i \in D : src[i] \in A} BY <1>4
  <2> HIDE DEF A, B
  <2>3. B \subseteq Ids(to) \ Tried(to) BY <1>8, <1>14, <2>1, <2>2
  <2>4. OneToOne(f, B, A) BY <1>3, <2>2 DEF OneToOne
  <2> HIDE DEF f
  <2>5. Cardinality(B) \in Nat /\ Cardinality(B) <= Cardinality(A) BY <2>1, <2>4, Matched
  <2>6. Cardinality(A) \in Nat /\ NewBucketSize \in Nat BY <2>1, FS_CardinalityType, Sizes
  <2>7. Cardinality(B) <= NewBucketSize BY <2>1, <2>5, <2>6
  <2> QED BY <2>3, <2>7 DEF B
<1>21. Referred(to, {})
  <2> SUFFICES ASSUME NEW i \in D, i \notin Tried(to)
               PROVE  /\ to.mapInfo[i].nRefCount = Cardinality(References(to, i))
                      /\ to.mapInfo[i].nRefCount \in 1..PerAddress
    BY <1>8 DEF Referred
  <2>1. src[i] \in Ids(am) \ Tried(am) BY <1>3, <1>14
  <2>2. References(to, i) = References(am, src[i]) BY <1>4 DEF References
  <2>3. /\ am.mapInfo[src[i]].nRefCount = Cardinality(References(am, src[i]))
        /\ am.mapInfo[src[i]].nRefCount \in 1..PerAddress
    BY <1>1, <2>1 DEF Referred
  <2> QED BY <1>7, <2>2, <2>3
<1>22. ASSUME NEW b \in TriedBucket
       PROVE  /\ to.vvTried[b] \in [1..Cardinality(TB(b)) -> TB(b)] /\ to.vvTried[b] \in Seq(TB(b))
              /\ Len(to.vvTried[b]) = Cardinality(TB(b)) /\ Len(to.vvTried[b]) <= TriedBucketSize
              /\ \A p, o \in DOMAIN to.vvTried[b] : to.vvTried[b][p] = to.vvTried[b][o] => p = o
              /\ \A i \in TB(b) : \E p \in DOMAIN to.vvTried[b] : to.vvTried[b][p] = i
  <2> DEFINE S == TB(b)
             f == InOrder(S)
  <2>1. S \in SUBSET (1..N) BY <1>2 DEF TB
  <2>2. /\ f \in Seq(S) /\ Len(f) = Cardinality(S) /\ f \in [1..Cardinality(S) -> S]
        /\ \A p, q \in 1..Cardinality(S) : f[p] = f[q] => p = q
        /\ \A i \in S : Rank(S, i) \in 1..Cardinality(S) /\ f[Rank(S, i)] = i
    <3> HIDE DEF S
    <3> QED BY <1>2, <2>1, OrderIs
  <2>3. /\ \A i \in S : src[i] \in Tried(am) /\ GetTriedBucket[am.mapInfo[src[i]].addr] = b
        /\ \A i, k \in S : src[i] = src[k] => i = k
    <3>1. \A i \in S : i \in D /\ i > am.nNew BY <1>2 DEF TB, D
    <3>2. \A i \in S : GetTriedBucket[am.mapInfo[src[i]].addr] = b BY DEF TB
    <3> HIDE DEF S
    <3> QED BY <1>3, <3>1, <3>2
  <2>4. to.vvTried[b] = f BY <1>4
  <2> HIDE DEF S, f
  <2>5. Cardinality(S) <= TriedBucketSize BY <1>1, <2>3, BucketHolds
  <2>6. DOMAIN f = 1..Cardinality(S) BY <2>2
  <2> QED BY <2>2, <2>4, <2>5, <2>6 DEF S
<1>23. \A b \in TriedBucket : TB(b) = {i \in Tried(to) : GetTriedBucket[addr(i)] = b}
  BY <1>2, <1>13 DEF TB, D, addr
<1>24. InTried(to)
  <2>1. ASSUME NEW i \in Tried(to)
        PROVE  /\ to.mapInfo[i].nLastSuccess > 0 /\ to.mapInfo[i].nRefCount = 0
               /\ \E p \in DOMAIN to.vvTried[GetTriedBucket[to.mapInfo[i].addr]] :
                    to.vvTried[GetTriedBucket[to.mapInfo[i].addr]][p] = i
    <3>1. i \in D /\ src[i] \in Tried(am) BY <1>13, <1>14
    <3>2. am.mapInfo[src[i]].nLastSuccess > 0 /\ am.mapInfo[src[i]].nRefCount = 0
      BY <1>1, <3>1 DEF InTried
    <3> DEFINE b == GetTriedBucket[addr(i)]
    <3>3. b \in TriedBucket BY <1>11, <3>1 DEF AddrManAssumption
    <3>4. i \in TB(b) BY <1>23, <3>3
    <3>5. b = GetTriedBucket[to.mapInfo[i].addr] BY <1>7, <3>1
    <3> HIDE DEF b
    <3>6. \E p \in DOMAIN to.vvTried[b] : to.vvTried[b][p] = i BY <1>22, <3>3, <3>4
    <3> QED BY <1>7, <3>1, <3>2, <3>5, <3>6
  <2>2. ASSUME NEW b \in TriedBucket
        PROVE  /\ Len(to.vvTried[b]) <= TriedBucketSize
               /\ \A p \in DOMAIN to.vvTried[b] :
                    /\ to.vvTried[b][p] \in Tried(to)
                    /\ GetTriedBucket[to.mapInfo[to.vvTried[b][p]].addr] = b
               /\ \A p, o \in DOMAIN to.vvTried[b] : to.vvTried[b][p] = to.vvTried[b][o] => p = o
    <3>1. ASSUME NEW p \in DOMAIN to.vvTried[b]
          PROVE  /\ to.vvTried[b][p] \in Tried(to)
                 /\ GetTriedBucket[to.mapInfo[to.vvTried[b][p]].addr] = b
      <4>1. to.vvTried[b][p] \in TB(b) BY <1>22
      <4>2. to.vvTried[b][p] \in Tried(to) /\ GetTriedBucket[addr(to.vvTried[b][p])] = b
        BY <1>23, <4>1
      <4> QED BY <1>7, <1>13, <4>2
    <3> QED BY <1>22, <3>1
  <2> QED BY <2>1, <2>2 DEF InTried
<1>25. Sound(to, {}, {}) BY <1>16, <1>17, <1>18, <1>19, <1>20, <1>21, <1>24 DEF Sound
<1>26. \A i \in D : Written(to.mapInfo[i]) = Written(am.mapInfo[src[i]])
  BY <1>7 DEF Written, addr
<1>27. ASSUME NEW b \in NewBucket
       PROVE  {Written(to.mapInfo[i]) : i \in to.vvNew[b]} = {Written(am.mapInfo[i]) : i \in am.vvNew[b]}
  <2>1. to.vvNew[b] = {i \in D : src[i] \in am.vvNew[b]} /\ am.vvNew[b] \subseteq Ids(am)
    BY <1>2, <1>4
  <2>2. \A i \in to.vvNew[b] : \E j \in am.vvNew[b] : Written(to.mapInfo[i]) = Written(am.mapInfo[j])
    BY <1>26, <2>1
  <2>3. ASSUME NEW j \in am.vvNew[b]
        PROVE  \E i \in to.vvNew[b] : Written(to.mapInfo[i]) = Written(am.mapInfo[j])
    <3>1. PICK i \in D : src[i] = j BY <1>3, <2>1
    <3> QED BY <1>26, <2>1, <3>1
  <2> QED BY <2>2, <2>3
<1>28. ASSUME NEW b \in TriedBucket
       PROVE  {Written(to.mapInfo[i]) : i \in ToSet(to.vvTried[b])}
                = {Written(am.mapInfo[i]) : i \in ToSet(am.vvTried[b])}
  <2> DEFINE S == ToSet(to.vvTried[b])
             T == ToSet(am.vvTried[b])
  <2>1. S = TB(b)
    <3>1. S = {to.vvTried[b][p] : p \in DOMAIN to.vvTried[b]} BY DEF ToSet
    <3>2. \A p \in DOMAIN to.vvTried[b] : to.vvTried[b][p] \in TB(b) BY <1>22
    <3>3. \A i \in TB(b) : \E p \in DOMAIN to.vvTried[b] : to.vvTried[b][p] = i BY <1>22
    <3> HIDE DEF S
    <3> QED BY <3>1, <3>2, <3>3
  <2>2. T = {j \in Tried(am) : GetTriedBucket[am.mapInfo[j].addr] = b}
    <3>1. T = {am.vvTried[b][p] : p \in DOMAIN am.vvTried[b]} BY DEF ToSet
    <3>2. \A p \in DOMAIN am.vvTried[b] : /\ am.vvTried[b][p] \in Tried(am)
                                          /\ GetTriedBucket[am.mapInfo[am.vvTried[b][p]].addr] = b
      BY <1>1 DEF InTried
    <3>3. \A j \in Tried(am) : GetTriedBucket[am.mapInfo[j].addr] = b
            => \E p \in DOMAIN am.vvTried[b] : am.vvTried[b][p] = j
      BY <1>1 DEF InTried
    <3> HIDE DEF T
    <3> QED BY <3>1, <3>2, <3>3
  <2> HIDE DEF S, T
  <2>3. \A i \in S : i \in D /\ src[i] \in T
    <3>1. \A i \in S : i \in Tried(to) /\ GetTriedBucket[addr(i)] = b BY <1>23, <2>1
    <3>2. \A i \in S : i \in D /\ src[i] \in Tried(am) BY <1>13, <1>14, <3>1
    <3> QED BY <2>2, <3>1, <3>2 DEF addr
  <2>4. \A j \in T : \E i \in S : src[i] = j
    <3> TAKE j \in T
    <3>1. j \in Tried(am) /\ j \in Ids(am) /\ GetTriedBucket[am.mapInfo[j].addr] = b
      BY <2>2 DEF Tried
    <3>2. PICK i \in D : src[i] = j BY <1>3, <3>1
    <3>3. i \in Tried(to) /\ GetTriedBucket[addr(i)] = b BY <1>14, <3>1, <3>2 DEF addr
    <3> QED BY <1>23, <2>1, <3>2, <3>3
  <2>5. {Written(to.mapInfo[i]) : i \in S} = {Written(am.mapInfo[i]) : i \in T}
    <3>1. \A i \in S : \E j \in T : Written(to.mapInfo[i]) = Written(am.mapInfo[j])
      BY <1>26, <2>3
    <3>2. \A j \in T : \E i \in S : Written(to.mapInfo[i]) = Written(am.mapInfo[j])
      <4> TAKE j \in T
      <4>1. PICK i \in S : src[i] = j BY <2>4
      <4> QED BY <1>26, <2>3, <4>1
    <3> QED BY <3>1, <3>2
  <2> QED BY <2>5 DEF S, T
<1>29. Known(to) = Known(am) BY <1>27, <1>28 DEF Known
<1> QED BY <1>25, <1>29

(* What peers.dat holds: every entry of either table once, and every       *)
(* reference of the new one.                                               *)
LEMMA FileIs ==
  ASSUME AddrManAssumption, NEW am, Sound(am, {}, {})
  PROVE  LET file == Serialize(am)
             new == InOrder(Ids(am) \ Tried(am))
             tried == InOrder(Tried(am))
         IN  /\ am.nNew \in Nat /\ am.nTried \in Nat
             /\ OneToOne(new, 1..am.nNew, Ids(am) \ Tried(am))
             /\ Onto(new, 1..am.nNew, Ids(am) \ Tried(am))
             /\ OneToOne(tried, 1..am.nTried, Tried(am)) /\ Onto(tried, 1..am.nTried, Tried(am))
             /\ file.new = [n \in 1..am.nNew |-> Written(am.mapInfo[new[n]])]
             /\ file.tried = [n \in 1..am.nTried |-> Written(am.mapInfo[tried[n]])]
             /\ \A b \in NewBucket : file.buckets[b] = {n \in 1..am.nNew : new[n] \in am.vvNew[b]}
<1> DEFINE file == Serialize(am)
           A == Ids(am) \ Tried(am)
           B == Tried(am)
           new == InOrder(A)
           tried == InOrder(B)
<1>1. /\ IsCAddrMan(am) /\ Counted(am, {}) /\ InNew(am) /\ Referred(am, {}) /\ InTried(am)
  BY DEF Sound
<1>2. A \in SUBSET (1..MaxId) /\ B \in SUBSET (1..MaxId) /\ MaxId \in Nat
  BY <1>1, Sizes DEF IsCAddrMan, Tried, EntryId
<1>3. am.nNew = Cardinality(A) /\ am.nTried = Cardinality(B)
  <2>1. A = Ids(am) \ (Tried(am) \cup {}) OBVIOUS
  <2> QED BY <1>1, <2>1 DEF Counted
<1>4. am.nNew \in Nat /\ am.nTried \in Nat BY <1>1 DEF IsCAddrMan
<1>5. {i \in Ids(am) : am.mapInfo[i].nRefCount # 0} = A
  <2>1. \A i \in B : am.mapInfo[i].nRefCount = 0 BY <1>1 DEF InTried
  <2>2. ASSUME NEW i \in A PROVE am.mapInfo[i].nRefCount # 0
    <3>1. i \in Ids(am) \ (Tried(am) \cup {}) OBVIOUS
    <3>2. am.mapInfo[i].nRefCount \in 1..PerAddress BY <1>1, <3>1 DEF Referred
    <3> QED BY <3>2, Sizes
  <2> QED BY <2>1, <2>2
<1>6. {i \in Ids(am) : am.mapInfo[i].fInTried} = B BY DEF Tried
<1>7. \A id : {i \in Ids(am) : am.mapInfo[i].nRefCount # 0 /\ i < id} = Below(A, id)
  BY <1>5 DEF Below
<1>8. /\ file.new = [n \in 1..am.nNew |-> Written(am.mapInfo[new[n]])]
      /\ file.tried = [n \in 1..am.nTried |-> Written(am.mapInfo[tried[n]])]
      /\ file.buckets = [b \in NewBucket |-> {Rank(A, id) : id \in am.vvNew[b]}]
  <2> DEFINE A2 == {i \in Ids(am) : am.mapInfo[i].nRefCount # 0}
             B2 == {i \in Ids(am) : am.mapInfo[i].fInTried}
             C2(id) == {i \in Ids(am) : am.mapInfo[i].nRefCount # 0 /\ i < id}
  <2>1. /\ file.new = [n \in 1..am.nNew |-> Written(am.mapInfo[InOrder(A2)[n]])]
        /\ file.tried = [n \in 1..am.nTried |-> Written(am.mapInfo[InOrder(B2)[n]])]
        /\ file.buckets = [b \in NewBucket |-> {1 + Cardinality(C2(id)) : id \in am.vvNew[b]}]
    BY DEF Serialize
  <2>2. A2 = A /\ B2 = B /\ \A id : C2(id) = Below(A, id) BY <1>5, <1>6, <1>7
  <2> HIDE DEF A2, B2, C2, file, A, B
  <2> QED BY <2>1, <2>2 DEF Rank
<1> HIDE DEF A, B, file
<1>9. /\ OneToOne(new, 1..am.nNew, A) /\ Onto(new, 1..am.nNew, A)
      /\ \A i \in A : Rank(A, i) \in 1..am.nNew /\ new[Rank(A, i)] = i
      /\ \A p \in 1..am.nNew : Rank(A, new[p]) = p /\ new[p] \in A
  <2>1. /\ new \in [1..Cardinality(A) -> A]
        /\ \A p, q \in 1..Cardinality(A) : new[p] = new[q] => p = q
        /\ \A i \in A : Rank(A, i) \in 1..Cardinality(A) /\ new[Rank(A, i)] = i
        /\ \A p \in 1..Cardinality(A) : Rank(A, new[p]) = p
    BY <1>2, OrderIs
  <2> HIDE DEF new
  <2> QED BY <1>3, <2>1 DEF OneToOne, Onto
<1>10. OneToOne(tried, 1..am.nTried, B) /\ Onto(tried, 1..am.nTried, B)
  <2>1. /\ tried \in [1..Cardinality(B) -> B]
        /\ \A p, q \in 1..Cardinality(B) : tried[p] = tried[q] => p = q
        /\ \A i \in B : Rank(B, i) \in 1..Cardinality(B) /\ tried[Rank(B, i)] = i
    BY <1>2, OrderIs
  <2> HIDE DEF tried
  <2> QED BY <1>3, <2>1 DEF OneToOne, Onto
<1>11. ASSUME NEW b \in NewBucket
       PROVE  file.buckets[b] = {n \in 1..am.nNew : new[n] \in am.vvNew[b]}
  <2>1. file.buckets[b] = {Rank(A, id) : id \in am.vvNew[b]} BY <1>8
  <2>2. am.vvNew[b] \subseteq A BY <1>1 DEF InNew, A
  <2> HIDE DEF new
  <2>3. \A id \in am.vvNew[b] : Rank(A, id) \in 1..am.nNew /\ new[Rank(A, id)] \in am.vvNew[b]
    BY <1>9, <2>2
  <2>4. \A n \in 1..am.nNew : new[n] \in am.vvNew[b] => \E id \in am.vvNew[b] : Rank(A, id) = n
    BY <1>9
  <2> QED BY <2>1, <2>3, <2>4
<1> QED BY <1>4, <1>8, <1>9, <1>10, <1>11 DEF A, B, file

(* Reading back what was written makes such a copy. *)
LEMMA ReloadIs ==
  ASSUME AddrManAssumption, NEW am, Sound(am, {}, {})
  PROVE  \E src : Copied(am, Unserialize(Serialize(am)), src)
<1> DEFINE file == Serialize(am)
           new == InOrder(Ids(am) \ Tried(am))
           tried == InOrder(Tried(am))
           N == am.nNew + am.nTried
           D == 1..N
           Before(n) == {m \in 1..(n - 1) : GetTriedBucket[file.tried[m].addr]
                                              = GetTriedBucket[file.tried[n].addr]}
           K == {n \in DOMAIN file.tried : Cardinality(Before(n)) < TriedBucketSize}
           kept == InOrder(K)
           src == [i \in D |-> IF i <= am.nNew THEN new[i] ELSE tried[kept[i - am.nNew]]]
           V(b) == {i \in file.buckets[b] :
                      Cardinality({c \in 1..(b - 1) : i \in file.buckets[c]}) < PerAddress}
           to == Unserialize(file)
<1>1. /\ IsCAddrMan(am) /\ InNew(am) /\ Referred(am, {}) /\ InTried(am)
  BY DEF Sound
<1>2. /\ am.nNew \in Nat /\ am.nTried \in Nat /\ N \in Nat
      /\ OneToOne(new, 1..am.nNew, Ids(am) \ Tried(am))
      /\ Onto(new, 1..am.nNew, Ids(am) \ Tried(am))
      /\ OneToOne(tried, 1..am.nTried, Tried(am)) /\ Onto(tried, 1..am.nTried, Tried(am))
      /\ file.new = [n \in 1..am.nNew |-> Written(am.mapInfo[new[n]])]
      /\ file.tried = [n \in 1..am.nTried |-> Written(am.mapInfo[tried[n]])]
      /\ \A b \in NewBucket : file.buckets[b] = {n \in 1..am.nNew : new[n] \in am.vvNew[b]}
  <2> HIDE DEF file, new, tried
  <2>1. /\ am.nNew \in Nat /\ am.nTried \in Nat
        /\ OneToOne(new, 1..am.nNew, Ids(am) \ Tried(am))
        /\ Onto(new, 1..am.nNew, Ids(am) \ Tried(am))
        /\ OneToOne(tried, 1..am.nTried, Tried(am)) /\ Onto(tried, 1..am.nTried, Tried(am))
        /\ file.new = [n \in 1..am.nNew |-> Written(am.mapInfo[new[n]])]
        /\ file.tried = [n \in 1..am.nTried |-> Written(am.mapInfo[tried[n]])]
        /\ \A b \in NewBucket : file.buckets[b] = {n \in 1..am.nNew : new[n] \in am.vvNew[b]}
    BY FileIs DEF file, new, tried
  <2> QED BY <2>1
<1> HIDE DEF file, new, tried
<1>3. Len(file.new) = am.nNew /\ DOMAIN file.tried = 1..am.nTried BY <1>2
<1>4. K = 1..am.nTried
  <2> SUFFICES ASSUME NEW n \in 1..am.nTried
               PROVE  Cardinality(Before(n)) < TriedBucketSize
    BY <1>3
  <2> DEFINE b == GetTriedBucket[am.mapInfo[tried[n]].addr]
             B == Before(n)
  <2>1. /\ \A m \in 1..am.nTried : tried[m] \in Tried(am) /\ file.tried[m].addr = am.mapInfo[tried[m]].addr
        /\ \A m, k \in 1..am.nTried : tried[m] = tried[k] => m = k
    <3>1. /\ \A m \in 1..am.nTried : tried[m] \in Tried(am)
          /\ \A m, k \in 1..am.nTried : tried[m] = tried[k] => m = k
      BY <1>2 DEF OneToOne
    <3>2. \A m \in 1..am.nTried : file.tried[m] = Written(am.mapInfo[tried[m]])
      BY <1>2
    <3>3. \A info : Written(info).addr = info.addr BY DEF Written
    <3> QED BY <3>1, <3>2, <3>3
  <2>2. b \in TriedBucket
    <3>1. tried[n] \in Ids(am) BY <2>1 DEF Tried
    <3>2. am.mapInfo[tried[n]].addr \in Address BY <1>1, <3>1 DEF IsCAddrMan, CAddrInfo
    <3> QED BY <3>2 DEF AddrManAssumption
  <2>3. n \notin B /\ \A m \in B : m \in 1..am.nTried BY <1>2
  <2>4. \A m \in B : GetTriedBucket[am.mapInfo[tried[m]].addr] = b BY <2>1, <2>3
  <2> HIDE DEF b, B
  <2>5. /\ \A m \in B \cup {n} : tried[m] \in Tried(am) /\ GetTriedBucket[am.mapInfo[tried[m]].addr] = b
        /\ \A m, k \in B \cup {n} : tried[m] = tried[k] => m = k
    BY <2>1, <2>3, <2>4 DEF b
  <2>6. PICK S : S = B \cup {n} OBVIOUS
  <2>7. IsFiniteSet(S) /\ Cardinality(S) \in Nat /\ Cardinality(S) <= TriedBucketSize
    BY <1>1, <2>2, <2>5, <2>6, BucketHolds
  <2>8. IsFiniteSet(B)
    <3>1. B \in SUBSET S BY <2>6
    <3> QED BY <2>7, <3>1, FS_Subset
  <2>9. Cardinality(S) = Cardinality(B) + 1 BY <2>3, <2>6, <2>8, FS_AddElement
  <2>10. Cardinality(B) \in Nat /\ TriedBucketSize \in Nat BY <2>8, FS_CardinalityType, Sizes
  <2>11. Cardinality(B) < TriedBucketSize BY <2>7, <2>9, <2>10
  <2> QED BY <2>11 DEF B
<1> HIDE DEF K, Before
<1>5. /\ Len(kept) = am.nTried
      /\ \A n \in 1..am.nTried : kept[n] \in 1..am.nTried
      /\ \A n, m \in 1..am.nTried : kept[n] = kept[m] => n = m
      /\ \A m \in 1..am.nTried : \E n \in 1..am.nTried : kept[n] = m
  <2>1. K \in SUBSET (1..am.nTried) /\ Cardinality(K) = am.nTried BY <1>2, <1>4, Interval
  <2>2. /\ Len(kept) = Cardinality(K) /\ kept \in [1..Cardinality(K) -> K]
        /\ \A p, q \in 1..Cardinality(K) : kept[p] = kept[q] => p = q
        /\ \A i \in K : Rank(K, i) \in 1..Cardinality(K) /\ kept[Rank(K, i)] = i
    BY <1>2, <2>1, OrderIs
  <2> HIDE DEF kept
  <2> QED BY <1>4, <2>1, <2>2
<1> HIDE DEF kept
<1>6. ASSUME NEW i \in D, i > am.nNew PROVE i - am.nNew \in 1..am.nTried
  BY <1>2, <1>6
<1>7. ASSUME NEW i \in D
      PROVE  /\ src[i] = IF i > am.nNew THEN tried[kept[i - am.nNew]] ELSE new[i]
             /\ i > am.nNew => src[i] \in Tried(am)
             /\ ~(i > am.nNew) => i \in 1..am.nNew /\ src[i] \in Ids(am) \ Tried(am)
  <2>1. i \in Nat /\ i >= 1 BY <1>2
  <2>2. CASE i > am.nNew
    <3>1. src[i] = tried[kept[i - am.nNew]] BY <1>2, <2>1, <2>2
    <3>2. kept[i - am.nNew] \in 1..am.nTried BY <1>5, <1>6, <2>2
    <3> HIDE DEF src, D
    <3> QED BY <1>2, <2>2, <3>1, <3>2 DEF OneToOne
  <2>3. CASE ~(i > am.nNew)
    <3>1. src[i] = new[i] /\ i \in 1..am.nNew BY <1>2, <2>1, <2>3
    <3> HIDE DEF src, D
    <3> QED BY <1>2, <2>3, <3>1 DEF OneToOne
  <2> QED BY <2>2, <2>3
<1>8. ASSUME NEW i \in D, NEW k \in D, src[i] = src[k] PROVE i = k
  <2>1. i \in Nat /\ k \in Nat BY <1>2
  <2>2. (i > am.nNew) <=> (k > am.nNew)
    <3> HIDE DEF src, D
    <3> QED BY <1>7, <1>8
  <2>3. CASE i > am.nNew
    <3>1. tried[kept[i - am.nNew]] = tried[kept[k - am.nNew]] BY <1>7, <1>8, <2>2, <2>3
    <3>2. PICK n \in 1..am.nTried, m \in 1..am.nTried : n = i - am.nNew /\ m = k - am.nNew
      BY <1>6, <2>2, <2>3
    <3> HIDE DEF src, D
    <3>3. kept[n] \in 1..am.nTried /\ kept[m] \in 1..am.nTried BY <1>5
    <3>4. kept[n] = kept[m] BY <1>2, <3>1, <3>2, <3>3 DEF OneToOne
    <3>5. n = m BY <1>5, <3>4
    <3> QED BY <1>2, <2>1, <3>2, <3>5
  <2>4. CASE ~(i > am.nNew)
    <3>1. new[i] = new[k] /\ i \in 1..am.nNew /\ k \in 1..am.nNew BY <1>7, <1>8, <2>2, <2>4
    <3> HIDE DEF src, D
    <3> QED BY <1>2, <3>1 DEF OneToOne
  <2> QED BY <2>3, <2>4
<1>9. ASSUME NEW j \in Ids(am) PROVE \E i \in D : src[i] = j
  <2>1. CASE j \in Tried(am)
    <3>1. PICK m \in 1..am.nTried : tried[m] = j BY <1>2, <2>1 DEF Onto
    <3>2. PICK n \in 1..am.nTried : kept[n] = m BY <1>5
    <3>3. PICK i \in D : i = n + am.nNew BY <1>2
    <3>4. i > am.nNew /\ i - am.nNew = n BY <1>2, <3>3
    <3>5. src[i] = tried[kept[i - am.nNew]] BY <1>7, <3>4
    <3> HIDE DEF src, D
    <3> QED BY <3>1, <3>2, <3>4, <3>5
  <2>2. CASE j \notin Tried(am)
    <3>1. PICK n \in 1..am.nNew : new[n] = j BY <1>2, <2>2 DEF Onto
    <3>2. n \in D /\ ~(n > am.nNew) BY <1>2
    <3>3. src[n] = new[n] BY <1>7, <3>2
    <3> HIDE DEF src, D
    <3> QED BY <3>1, <3>2, <3>3
  <2> QED BY <2>1, <2>2
<1>10. OneToOne(src, D, Ids(am)) /\ Onto(src, D, Ids(am))
  <2>1. \A i \in D : src[i] \in Ids(am)
    <3>1. Tried(am) \subseteq Ids(am) BY DEF Tried
    <3> HIDE DEF src, D
    <3> QED BY <1>7, <3>1
  <2>2. src = [i \in D |-> src[i]] OBVIOUS
  <2> HIDE DEF src, D
  <2>3. src \in [D -> Ids(am)] BY <2>1, <2>2
  <2> QED BY <1>8, <1>9, <2>3 DEF OneToOne, Onto
<1> HIDE DEF src
(* The entry in place i of the file's two lists. *)
<1> DEFINE rec(i) == IF i <= am.nNew THEN file.new[i] ELSE file.tried[kept[i - am.nNew]]
<1>11. ASSUME NEW i \in D PROVE rec(i) = Written(am.mapInfo[src[i]])
  <2>1. CASE i > am.nNew
    <3>1. rec(i) = file.tried[kept[i - am.nNew]] BY <1>2, <2>1
    <3>2. kept[i - am.nNew] \in 1..am.nTried BY <1>5, <1>6, <2>1
    <3>3. src[i] = tried[kept[i - am.nNew]] BY <1>7, <2>1
    <3> HIDE DEF D, rec
    <3> QED BY <1>2, <3>1, <3>2, <3>3
  <2>2. CASE ~(i > am.nNew)
    <3>1. rec(i) = file.new[i] /\ i \in 1..am.nNew BY <1>2, <1>7, <2>2
    <3>2. src[i] = new[i] BY <1>7, <2>2
    <3> HIDE DEF D, rec
    <3> QED BY <1>2, <3>1, <3>2
  <2> QED BY <2>1, <2>2
<1>12. ASSUME NEW b \in NewBucket PROVE V(b) = {i \in D : src[i] \in am.vvNew[b]}
  <2>1. \A c \in NewBucket, i \in D : i \in file.buckets[c] <=> src[i] \in am.vvNew[c]
    <3> TAKE c \in NewBucket, i \in D
    <3>1. file.buckets[c] = {n \in 1..am.nNew : new[n] \in am.vvNew[c]} BY <1>2
    <3>2. am.vvNew[c] \subseteq Ids(am) \ Tried(am) BY <1>1 DEF InNew
    <3>3. CASE i > am.nNew
      <4>1. src[i] \in Tried(am) /\ i \notin 1..am.nNew BY <1>2, <1>7, <3>3
      <4> QED BY <3>1, <3>2, <4>1
    <3>4. CASE ~(i > am.nNew)
      <4>1. src[i] = new[i] /\ i \in 1..am.nNew BY <1>7, <3>4
      <4> QED BY <3>1, <4>1
    <3> QED BY <3>3, <3>4
  <2>2. \A i \in file.buckets[b] : i \in D BY <1>2
  <2>3. ASSUME NEW i \in D, src[i] \in am.vvNew[b]
        PROVE  Cardinality({c \in 1..(b - 1) : i \in file.buckets[c]}) < PerAddress
    <3> DEFINE C == {c \in 1..(b - 1) : i \in file.buckets[c]}
               R == References(am, src[i])
    <3>0. b \in 1..NewBuckets /\ NewBuckets \in Nat BY Sizes DEF NewBucket
    <3>1. \A c \in 1..(b - 1) : c \in NewBucket /\ c # b BY <3>0 DEF NewBucket
    <3>2. C \cup {b} \in SUBSET R /\ b \notin C BY <2>1, <2>3, <3>1 DEF References
    <3>3. IsFiniteSet(R) BY <1>1, BucketsFinite
    <3>4. Cardinality(R) <= PerAddress
      <4>1. src[i] \in Ids(am) \ (Tried(am) \cup {}) BY <1>1, <2>3 DEF InNew
      <4>2. Cardinality(R) \in 1..PerAddress BY <1>1, <4>1 DEF Referred
      <4> HIDE DEF R
      <4> QED BY <4>2, Sizes
    <3> HIDE DEF C, R
    <3>5. C \in SUBSET R BY <3>2
    <3>6. IsFiniteSet(C) BY <3>3, <3>5, FS_Subset
    <3>7. Cardinality(C \cup {b}) = Cardinality(C) + 1 BY <3>2, <3>6, FS_AddElement
    <3>8. Cardinality(C \cup {b}) <= Cardinality(R) BY <3>2, <3>3, FS_Subset
    <3>9. Cardinality(C) \in Nat /\ Cardinality(R) \in Nat /\ PerAddress \in Nat
      BY <3>3, <3>6, FS_CardinalityType, Sizes
    <3>10. Cardinality(C) < PerAddress BY <3>4, <3>7, <3>8, <3>9
    <3> QED BY <3>10 DEF C
  <2> DEFINE ok(i) == Cardinality({c \in 1..(b - 1) : i \in file.buckets[c]}) < PerAddress
  <2>4. V(b) = {i \in file.buckets[b] : ok(i)} OBVIOUS
  <2>5. \A i \in D : src[i] \in am.vvNew[b] => ok(i) BY <2>3
  <2> HIDE DEF V, ok, D
  <2> QED BY <2>1, <2>2, <2>4, <2>5
<1> DEFINE ids == 1..(Len(file.new) + Len(kept))
           recs == [i \in ids |-> IF i <= Len(file.new) THEN file.new[i]
                                  ELSE file.tried[kept[i - Len(file.new)]]]
           vv == [b \in NewBucket |-> V(b)]
<1>13. to = [mapInfo |-> [i \in ids |->
                [addr |-> recs[i].addr, source |-> recs[i].source,
                 nRefCount |-> Cardinality({b \in NewBucket : i \in vv[b]}),
                 fInTried |-> i > Len(file.new), nLastSuccess |-> recs[i].nLastSuccess,
                 nRandomPos |-> i]],
             mapAddr |-> [a \in {recs[i].addr : i \in ids} |-> CHOOSE i \in ids : recs[i].addr = a],
             vRandom |-> [i \in ids |-> i],
             vvTried |-> [b \in TriedBucket |->
                InOrder({i \in (Len(file.new) + 1)..(Len(file.new) + Len(kept)) :
                           GetTriedBucket[recs[i].addr] = b})],
             vvNew |-> vv,
             nNew |-> Len(file.new), nTried |-> Len(kept), nIdCount |-> Len(file.new) + Len(kept)]
  BY DEF Unserialize, kept, K, Before
<1>14. ids = D /\ Len(file.new) = am.nNew /\ Len(kept) = am.nTried BY <1>3, <1>5
<1>15. ASSUME NEW i \in D
       PROVE  /\ recs[i] = Written(am.mapInfo[src[i]])
              /\ recs[i].addr = am.mapInfo[src[i]].addr /\ recs[i].source = am.mapInfo[src[i]].source
              /\ recs[i].nLastSuccess = am.mapInfo[src[i]].nLastSuccess
  <2>1. recs[i] = rec(i) BY <1>14
  <2> HIDE DEF recs, rec, D
  <2>2. recs[i] = Written(am.mapInfo[src[i]]) BY <1>11, <2>1
  <2> QED BY <2>2 DEF Written
<1>16. vv = [b \in NewBucket |-> {i \in D : src[i] \in am.vvNew[b]}]
  <2> HIDE DEF V, D
  <2> QED BY <1>12
<1> HIDE DEF V, to, recs, rec, vv, ids
<1>17. ASSUME NEW i \in D
       PROVE  Cardinality({b \in NewBucket : i \in vv[b]}) = am.mapInfo[src[i]].nRefCount
  <2>1. {b \in NewBucket : i \in vv[b]} = References(am, src[i])
    <3> HIDE DEF D
    <3> QED BY <1>16 DEF References
  <2>2. CASE i > am.nNew
    <3>1. src[i] \in Tried(am) BY <1>7, <2>2
    <3>2. References(am, src[i]) = {} BY <1>1, <3>1 DEF References, InNew
    <3>3. am.mapInfo[src[i]].nRefCount = 0 BY <1>1, <3>1 DEF InTried
    <3> QED BY <2>1, <3>2, <3>3, FS_EmptySet
  <2>3. CASE ~(i > am.nNew)
    <3>1. src[i] \in Ids(am) \ (Tried(am) \cup {}) BY <1>7, <2>3
    <3> QED BY <1>1, <2>1, <3>1 DEF Referred
  <2> QED BY <2>2, <2>3
<1>18. /\ HasMembers(to)
       /\ to.vRandom = [i \in D |-> i] /\ to.vvNew = vv
       /\ to.nNew = am.nNew /\ to.nTried = am.nTried /\ to.nIdCount = N
  <2> HIDE DEF D, N
  <2>1. N = am.nNew + am.nTried BY DEF N
  <2> QED BY <1>13, <1>14, <2>1 DEF HasMembers
<1>19. to.mapInfo = [i \in D |->
           [addr |-> am.mapInfo[src[i]].addr, source |-> am.mapInfo[src[i]].source,
            nRefCount |-> am.mapInfo[src[i]].nRefCount, fInTried |-> i > am.nNew,
            nLastSuccess |-> am.mapInfo[src[i]].nLastSuccess, nRandomPos |-> i]]
  <2>1. to.mapInfo = [i \in D |->
           [addr |-> recs[i].addr, source |-> recs[i].source,
            nRefCount |-> Cardinality({b \in NewBucket : i \in vv[b]}),
            fInTried |-> i > am.nNew, nLastSuccess |-> recs[i].nLastSuccess, nRandomPos |-> i]]
    <3> HIDE DEF D
    <3> QED BY <1>13, <1>14
  <2> HIDE DEF D
  <2> QED BY <1>15, <1>17, <2>1
<1>20. to.mapAddr = [a \in {am.mapInfo[src[i]].addr : i \in D} |->
                       CHOOSE i \in D : am.mapInfo[src[i]].addr = a]
  <2> DEFINE S1 == {recs[i].addr : i \in D}
             S2 == {am.mapInfo[src[i]].addr : i \in D}
             c1(a) == CHOOSE i \in D : recs[i].addr = a
             c2(a) == CHOOSE i \in D : am.mapInfo[src[i]].addr = a
  <2>1. to.mapAddr = [a \in S1 |-> c1(a)]
    <3> HIDE DEF D
    <3> QED BY <1>13, <1>14
  <2> HIDE DEF D
  <2>2. S1 = S2 BY <1>15
  <2>3. \A a : c1(a) = c2(a) BY <1>15
  <2> HIDE DEF S1, S2, c1, c2
  <2>4. to.mapAddr = [a \in S2 |-> c2(a)] BY <2>1, <2>2, <2>3
  <2> QED BY <2>4 DEF S2, c2
<1>21. to.vvTried = [b \in TriedBucket |->
           InOrder({i \in (am.nNew + 1)..N : GetTriedBucket[am.mapInfo[src[i]].addr] = b})]
  <2> DEFINE E == (am.nNew + 1)..N
  <2>1. to.vvTried = [b \in TriedBucket |-> InOrder({i \in E : GetTriedBucket[recs[i].addr] = b})]
    BY <1>13, <1>14
  <2>2. \A i \in E : i \in D BY <1>2
  <2> HIDE DEF E, D, N
  <2>3. \A b : {i \in E : GetTriedBucket[recs[i].addr] = b}
                 = {i \in E : GetTriedBucket[am.mapInfo[src[i]].addr] = b}
    BY <1>15, <2>2
  <2>4. to.vvTried = [b \in TriedBucket |->
           InOrder({i \in E : GetTriedBucket[am.mapInfo[src[i]].addr] = b})]
    BY <2>1, <2>3
  <2> QED BY <2>4 DEF E
<1>22. \A i \in 1..N : src[i] \in Tried(am) <=> i > am.nNew BY <1>7
<1>23. Copied(am, to, src)
  BY <1>10, <1>16, <1>18, <1>19, <1>20, <1>21, <1>22 DEF Copied
<1> QED BY <1>23 DEF to, file

(* A restart keeps the tables sound and every entry in its bucket. *)
LEMMA ReloadStep ==
  ASSUME AddrManAssumption, AddrInv, Reload
  PROVE  AddrInv' /\ Known(addrman)' = Known(addrman)
<1>1. Sound(addrman, {}, {}) BY DEF AddrInv
<1>2. PICK src : Copied(addrman, Unserialize(Serialize(addrman)), src) BY <1>1, ReloadIs
<1>3. addrman' = Unserialize(Serialize(addrman)) BY DEF Reload
<1>4. PICK to : to = addrman' OBVIOUS
<1>5. Copied(addrman, to, src) BY <1>2, <1>3, <1>4
<1>6. Sound(to, {}, {}) /\ Known(to) = Known(addrman) BY <1>1, <1>5, CopiedIs
<1> QED BY <1>4, <1>6 DEF AddrInv

---------------------------------------------------------------------------
(* The theorems *)

(* The tables of a node that starts for the first time. *)
LEMMA EmptyIs ==
  ASSUME AddrManAssumption
  PROVE  Sound(Empty, {}, {})
<1> DEFINE am == Empty
<1>1. /\ am.mapInfo = <<>> /\ am.mapAddr = <<>> /\ am.vRandom = <<>>
      /\ am.vvTried = [b \in TriedBucket |-> <<>>] /\ am.vvNew = [b \in NewBucket |-> {}]
      /\ am.nNew = 0 /\ am.nTried = 0 /\ am.nIdCount = 0 /\ HasMembers(am)
  BY DEF Empty, HasMembers
<1> HIDE DEF am
<1>2. Ids(am) = {} /\ Tried(am) = {} BY <1>1 DEF Ids, Tried
<1>3. IsCAddrMan(am)
  <2>1. am.mapInfo \in [Ids(am) -> CAddrInfo] BY <1>1, <1>2
  <2>2. DOMAIN am.mapAddr \subseteq Address /\ am.mapAddr \in [DOMAIN am.mapAddr -> Ids(am)]
    BY <1>1, <1>2
  <2>3. am.vRandom \in Seq(Ids(am)) /\ am.vvTried \in [TriedBucket -> Seq(Ids(am))] BY <1>1
  <2>4. am.vvNew \in [NewBucket -> SUBSET Ids(am)] BY <1>1
  <2>5. {am.nNew, am.nTried} \subseteq Nat /\ am.nIdCount \in 0..MaxId BY <1>1, Sizes
  <2>6. HasMembers(am) /\ Ids(am) \subseteq EntryId BY <1>1, <1>2
  <2> QED BY <2>1, <2>2, <2>3, <2>4, <2>5, <2>6 DEF IsCAddrMan
<1>4. Listed(am) /\ Named(am) BY <1>1, <1>2 DEF Listed, Named
<1>5. Counted(am, {})
  <2>1. Ids(am) \ (Tried(am) \cup {}) = {} BY <1>2
  <2> QED BY <1>1, <1>2, <2>1, FS_EmptySet DEF Counted
<1>6. InNew(am)
  <2>1. Cardinality({}) = 0 BY FS_EmptySet
  <2>2. 0 <= NewBucketSize BY Sizes
  <2> QED BY <1>1, <2>1, <2>2 DEF InNew
<1>7. Referred(am, {}) BY <1>2 DEF Referred
<1>8. InTried(am)
  <2>1. \A b \in TriedBucket : am.vvTried[b] = <<>> BY <1>1
  <2>2. Len(<<>>) = 0 /\ DOMAIN <<>> = {} OBVIOUS
  <2>3. 0 <= TriedBucketSize BY Sizes
  <2> QED BY <1>2, <2>1, <2>2, <2>3 DEF InTried
<1> QED BY <1>3, <1>4, <1>5, <1>6, <1>7, <1>8 DEF Sound, am

(* Every call keeps the tables sound. *)
LEMMA StepIs ==
  ASSUME AddrManAssumption, AddrInv, [AddrNext]_addrman
  PROVE  AddrInv'
<1>1. CASE UNCHANGED addrman BY <1>1 DEF AddrInv
<1>2. CASE AddrNext
  <2>1. ASSUME NEW a \in Address, NEW s \in Source, Add(a, s) PROVE AddrInv' BY <2>1, AddStep
  <2>2. ASSUME NEW a \in Address, NEW nTime \in 1..MaxTime, Good(a, nTime) PROVE AddrInv'
    BY <2>2, GoodStep
  <2>3. CASE GetAddr BY <2>3, GetAddrStep
  <2>4. CASE Reload BY <2>4, ReloadStep
  <2> QED BY <1>2, <2>1, <2>2, <2>3, <2>4 DEF AddrNext
<1> QED BY <1>1, <1>2

(* The tables of the addresses keep their types through every call, and no *)
(* id is used beyond nIdCount.                                             *)
THEOREM AddrTyping == ASSUME AddrManAssumption PROVE AddrSpec => []AddrTypeOK
<1>1. AddrInit => AddrInv BY EmptyIs DEF AddrInit, AddrInv
<1>2. AddrInv /\ [AddrNext]_addrman => AddrInv' BY StepIs
<1>3. AddrInv => AddrTypeOK BY DEF AddrInv, Sound, AddrTypeOK
<1> QED BY <1>1, <1>2, <1>3, PTL DEF AddrSpec

(* Sound tables pass Check_ and are within their sizes. *)
LEMMA SoundChecks ==
  ASSUME AddrManAssumption, AddrInv
  PROVE  Check /\ BucketsBounded
<1> DEFINE am == addrman
<1>1. /\ IsCAddrMan(am) /\ Listed(am) /\ Named(am) /\ Counted(am, {})
      /\ InNew(am) /\ Referred(am, {}) /\ InTried(am)
  BY DEF AddrInv, Sound
<1>2. am.nTried = Cardinality(Tried(am)) /\ am.nNew = Cardinality(Ids(am) \ Tried(am))
  <2>1. Ids(am) \ Tried(am) = Ids(am) \ (Tried(am) \cup {}) OBVIOUS
  <2> HIDE DEF am
  <2> QED BY <1>1, <2>1 DEF Counted
<1>3. Len(am.vRandom) = am.nTried + am.nNew
  <2> DEFINE v == am.vRandom
             T == 1..Len(v)
             I == Ids(am)
  <2>1. v \in Seq(I) BY <1>1 DEF IsCAddrMan
  <2>2. /\ \A i \in I : am.mapInfo[i].nRandomPos \in DOMAIN v /\ v[am.mapInfo[i].nRandomPos] = i
        /\ \A p \in DOMAIN v : v[p] \in I /\ am.mapInfo[v[p]].nRandomPos = p
    BY <1>1 DEF Listed
  <2>3. IsFiniteSet(I) BY <1>1, BucketsFinite
  <2>4. Tried(am) \in SUBSET I BY DEF Tried
  <2> HIDE DEF v, I, am
  <2>5. Len(v) \in Nat /\ DOMAIN v = T /\ v \in [T -> I] BY <2>1
  <2>6. OneToOne(v, T, I) /\ Onto(v, T, I)
    <3> HIDE DEF T
    <3>1. \A p, q \in T : v[p] = v[q] => p = q BY <2>2, <2>5
    <3>2. \A i \in I : \E p \in T : v[p] = i BY <2>2, <2>5
    <3> QED BY <2>5, <3>1, <3>2 DEF OneToOne, Onto
  <2>7. Cardinality(T) = Len(v) BY <2>5, Interval
  <2>8. Cardinality(T) = Cardinality(I)
    <3> HIDE DEF T
    <3> QED BY <2>3, <2>6, Matched
  <2>9. Cardinality(I \ Tried(am)) = Cardinality(I) - Cardinality(Tried(am))
    <3>1. I \cap Tried(am) = Tried(am) BY <2>4
    <3>2. IsFiniteSet(Tried(am)) BY <2>3, <2>4, FS_Subset
    <3> QED BY <2>3, <3>1, <3>2, FS_Difference
  <2>10. Cardinality(I) \in Nat /\ Cardinality(Tried(am)) \in Nat
    <3>1. IsFiniteSet(Tried(am)) BY <2>3, <2>4, FS_Subset
    <3> QED BY <2>3, <3>1, FS_CardinalityType
  <2> QED BY <1>2, <2>7, <2>8, <2>9, <2>10 DEF v, I
<1>4. ASSUME NEW i \in Ids(am)
      PROVE  /\ am.mapAddr[am.mapInfo[i].addr] = i
             /\ am.mapInfo[i].nRandomPos \in DOMAIN am.vRandom
             /\ am.vRandom[am.mapInfo[i].nRandomPos] = i
  BY <1>1 DEF Named, Listed
<1>5. /\ am.vvTried \in [TriedBucket -> Seq(Ids(am))] /\ TriedBucketSize \in Nat
      /\ \A b \in TriedBucket :
           /\ DOMAIN am.vvTried[b] = 1..Len(am.vvTried[b]) /\ Len(am.vvTried[b]) \in Nat
           /\ Len(am.vvTried[b]) <= TriedBucketSize
  <2>1. am.vvTried \in [TriedBucket -> Seq(Ids(am))] BY <1>1 DEF IsCAddrMan
  <2>2. ASSUME NEW b \in TriedBucket
        PROVE  DOMAIN am.vvTried[b] = 1..Len(am.vvTried[b]) /\ Len(am.vvTried[b]) \in Nat
    <3>1. PICK q \in Seq(Ids(am)) : q = am.vvTried[b] BY <2>1
    <3> QED BY <3>1
  <2> QED BY <1>1, <2>1, <2>2, Sizes DEF InTried
<1>6. ASSUME NEW i \in Tried(am)
      PROVE  /\ am.mapInfo[i].nLastSuccess > 0
             /\ am.mapInfo[i].nRefCount = 0 /\ Cardinality(References(am, i)) = 0
             /\ Cardinality(Places(am, i)) = 1
  <2>1. i \in Ids(am) BY DEF Tried
  <2>2. am.mapInfo[i].nLastSuccess > 0 /\ am.mapInfo[i].nRefCount = 0 BY <1>1 DEF InTried
  <2>3. References(am, i) = {} BY <1>1 DEF InNew, References
  <2> DEFINE b == GetTriedBucket[am.mapInfo[i].addr]
  <2>4. b \in TriedBucket
    <3>1. am.mapInfo[i].addr \in Address BY <1>1, <2>1 DEF IsCAddrMan, CAddrInfo
    <3> QED BY <3>1 DEF AddrManAssumption
  <2>5. PICK p \in DOMAIN am.vvTried[b] : am.vvTried[b][p] = i BY <1>1 DEF InTried
  <2>6. ASSUME NEW c \in TriedBucket, NEW o \in DOMAIN am.vvTried[c], am.vvTried[c][o] = i
        PROVE  c = b /\ o = p
    <3>1. c = b BY <1>1, <2>6 DEF InTried
    <3>2. \A m, n \in DOMAIN am.vvTried[b] : am.vvTried[b][m] = am.vvTried[b][n] => m = n
      BY <1>1, <2>4 DEF InTried
    <3> HIDE DEF b
    <3> QED BY <2>5, <2>6, <3>1, <3>2
  <2> HIDE DEF b, am
  <2>7. p \in 1..TriedBucketSize BY <1>5, <2>4
  <2>8. Places(am, i) = {<<b, p>>} BY <2>4, <2>5, <2>6, <2>7 DEF Places
  <2> QED BY <2>2, <2>3, <2>8, FS_EmptySet, FS_Singleton
<1>7. ASSUME NEW i \in Ids(am), i \notin Tried(am)
      PROVE  /\ am.mapInfo[i].nRefCount = Cardinality(References(am, i))
             /\ am.mapInfo[i].nRefCount \in 1..PerAddress
             /\ Places(am, i) = {}
  <2>1. i \in Ids(am) \ (Tried(am) \cup {}) BY <1>7
  <2>2. Places(am, i) = {}
    <3>1. \A b \in TriedBucket : \A p \in DOMAIN am.vvTried[b] : am.vvTried[b][p] # i
      BY <1>1, <1>7 DEF InTried
    <3> HIDE DEF am
    <3> QED BY <3>1 DEF Places
  <2> QED BY <1>1, <2>1, <2>2 DEF Referred
<1>8. ASSUME NEW i \in Ids(am)
      PROVE  LET info == am.mapInfo[i]
             IN  /\ am.mapAddr[info.addr] = i
                 /\ info.nRandomPos \in DOMAIN am.vRandom
                 /\ am.vRandom[info.nRandomPos] = i
                 /\ info.nRefCount = Cardinality(References(am, i))
                 /\ IF info.fInTried
                    THEN info.nLastSuccess > 0 /\ info.nRefCount = 0
                         /\ Cardinality(Places(am, i)) = 1
                    ELSE info.nRefCount \in 1..PerAddress /\ Places(am, i) = {}
  <2>1. am.mapInfo[i].fInTried <=> i \in Tried(am) BY DEF Tried
  <2> HIDE DEF am
  <2>2. CASE i \in Tried(am) BY <1>4, <1>6, <2>1, <2>2
  <2>3. CASE i \notin Tried(am) BY <1>4, <1>7, <2>1, <2>3
  <2> QED BY <2>2, <2>3
<1>9. \A b \in NewBucket : am.vvNew[b] \subseteq Ids(am) BY <1>1 DEF InNew
<1>10. \A b \in TriedBucket : \A p \in DOMAIN am.vvTried[b] : am.vvTried[b][p] \in Ids(am)
  BY <1>1 DEF InTried, Tried
<1>11. Check BY <1>2, <1>3, <1>8, <1>9, <1>10 DEF Check
<1>12. BucketsBounded BY <1>1 DEF BucketsBounded, InNew, InTried
<1> QED BY <1>11, <1>12

(* After any calls, evictions and restarts the counters, the reference     *)
(* counts, both tables, the list and the two maps tell the same of every   *)
(* entry (what CAddrMan::Check_ tests), and no bucket outgrows its size.   *)
THEOREM TablesAgree == ASSUME AddrManAssumption PROVE AddrSpec => []TablesConsistent
<1>1. AddrInit => AddrInv BY EmptyIs DEF AddrInit, AddrInv
<1>2. AddrInv /\ [AddrNext]_addrman => AddrInv' BY StepIs
<1>3. AddrInv => TablesConsistent BY SoundChecks DEF TablesConsistent
<1> QED BY <1>1, <1>2, <1>3, PTL DEF AddrSpec

(* A restart brings back every entry in the bucket it was in, although     *)
(* peers.dat holds no ids and not the tried table.                         *)
THEOREM RestartIsFaithful == ASSUME AddrManAssumption PROVE AddrSpec => RestartKeepsTables
<1>1. AddrInit => AddrInv BY EmptyIs DEF AddrInit, AddrInv
<1>2. AddrInv /\ [AddrNext]_addrman => AddrInv' BY StepIs
<1>3. AddrInv => [Reload => Known(addrman)' = Known(addrman)]_addrman BY ReloadStep
<1> QED BY <1>1, <1>2, <1>3, PTL DEF AddrSpec, RestartKeepsTables
============================================================================
