------------------------------ MODULE AddrMan ------------------------------
(***************************************************************************)
(* CAddrMan of addrman.h and addrman.cpp: the addresses of other nodes, in *)
(* a table of "new" buckets, where an address may be several times, and a  *)
(* table of "tried" ones, where it is once; the list vRandom of all of     *)
(* them; the counters nNew and nTried; and peers.dat, from which the       *)
(* tables are rebuilt.  Every public method holds the lock cs throughout,  *)
(* so that one call is one step.                                           *)
(*                                                                         *)
(* Ids and positions count from 1.  The times nTime and nLastTry, the      *)
(* number of attempts and the services of an entry only weigh random       *)
(* choices, which are left open here; nLastSuccess is kept.  Entries that  *)
(* differ only in the port are one entry: Good_ leaves a different port    *)
(* alone.                                                                  *)
(***************************************************************************)
EXTENDS Integers, FiniteSets, SequencesExt

CONSTANTS
  Address, Source,
  NewBuckets, TriedBuckets,   \* ADDRMAN_NEW_BUCKET_COUNT, ADDRMAN_TRIED_BUCKET_COUNT
  NewBucketSize,              \* ADDRMAN_NEW_BUCKET_SIZE
  TriedBucketSize,            \* ADDRMAN_TRIED_BUCKET_SIZE
  PerAddress,                 \* ADDRMAN_NEW_BUCKETS_PER_ADDRESS
  Inspect,                    \* ADDRMAN_TRIED_ENTRIES_INSPECT_ON_EVICT
  GetNewBucket,               \* the bucket an address from a source hashes to
  GetTriedBucket,
  MaxId, MaxTime              \* bounds on nIdCount and on the clock

NewBucket == 1..NewBuckets
TriedBucket == 1..TriedBuckets

(* What is assumed of the constants. *)
AddrManAssumption ==
  /\ {NewBuckets, TriedBuckets, NewBucketSize, TriedBucketSize, PerAddress, Inspect}
       \subseteq Nat \ {0}
  /\ GetNewBucket \in [Address \X Source -> NewBucket]
  /\ GetTriedBucket \in [Address -> TriedBucket]
  /\ MaxId \in Nat /\ MaxTime \in Nat

VARIABLE addrman   \* the global object of net.cpp

EntryId == 1..MaxId
CAddrInfo == [addr : Address, source : Source, nRefCount : Nat, fInTried : BOOLEAN,
              nLastSuccess : Nat, nRandomPos : Nat]

Ids(am) == DOMAIN am.mapInfo
Tried(am) == {i \in Ids(am) : am.mapInfo[i].fInTried}

(* am has the members of a CAddrMan, and each of them has its type. *)
HasMembers(am) ==
  am = [mapInfo |-> am.mapInfo, mapAddr |-> am.mapAddr, vRandom |-> am.vRandom,
        vvTried |-> am.vvTried, vvNew |-> am.vvNew,
        nNew |-> am.nNew, nTried |-> am.nTried, nIdCount |-> am.nIdCount]
IsCAddrMan(am) ==
  /\ HasMembers(am)
  /\ Ids(am) \subseteq EntryId /\ am.mapInfo \in [Ids(am) -> CAddrInfo]
  /\ DOMAIN am.mapAddr \subseteq Address /\ am.mapAddr \in [DOMAIN am.mapAddr -> Ids(am)]
  /\ am.vRandom \in Seq(Ids(am))
  /\ am.vvTried \in [TriedBucket -> Seq(Ids(am))]
  /\ am.vvNew \in [NewBucket -> SUBSET Ids(am)]
  /\ {am.nNew, am.nTried} \subseteq Nat /\ am.nIdCount \in 0..MaxId

AddrTypeOK == IsCAddrMan(addrman)

Empty ==
  [mapInfo |-> <<>>, mapAddr |-> <<>>, vRandom |-> <<>>,
   vvTried |-> [b \in TriedBucket |-> <<>>], vvNew |-> [b \in NewBucket |-> {}],
   nNew |-> 0, nTried |-> 0, nIdCount |-> 0]

---------------------------------------------------------------------------
(* Steps on the tables. *)

(* f[x] = v for a std::map f. *)
MapPut(f, x, v) == [y \in DOMAIN f \cup {x} |-> IF y = x THEN v ELSE f[y]]

Create(am, a, s) ==
  LET nId == am.nIdCount + 1
  IN  [am EXCEPT
         !.nIdCount = nId,
         !.mapInfo = MapPut(@, nId, [addr |-> a, source |-> s, nRefCount |-> 0,
                                     fInTried |-> FALSE, nLastSuccess |-> 0,
                                     nRandomPos |-> Len(am.vRandom) + 1]),
         !.mapAddr = MapPut(@, a, nId),
         !.vRandom = Append(@, nId)]

SwapRandom(am, p, q) ==
  LET id1 == am.vRandom[p]
      id2 == am.vRandom[q]
  IN  IF p = q THEN am
      ELSE [am EXCEPT !.mapInfo[id1].nRandomPos = q, !.mapInfo[id2].nRandomPos = p,
                      !.vRandom[p] = id2, !.vRandom[q] = id1]

(* One reference to an entry goes and, with the last one, the entry. *)
Unreference(am, nId) ==
  IF am.mapInfo[nId].nRefCount # 1
  THEN [am EXCEPT !.mapInfo[nId].nRefCount = @ - 1]
  ELSE LET swapped == SwapRandom(am, am.mapInfo[nId].nRandomPos, Len(am.vRandom))
       IN  [swapped EXCEPT
              !.vRandom = Front(@),
              !.mapAddr = [x \in DOMAIN am.mapAddr \ {am.mapInfo[nId].addr} |-> am.mapAddr[x]],
              !.mapInfo = [i \in Ids(am) \ {nId} |-> swapped.mapInfo[i]],
              !.nNew = @ - 1]

(* ShrinkNew removes the first terrible entry of the bucket or the oldest  *)
(* of four random ones: any of them, the times being left open.            *)
ShrinkNew(am, b) == {[Unreference(am, nId) EXCEPT !.vvNew[b] = @ \ {nId}] : nId \in am.vvNew[b]}

(* SelectTried: rnd[i] is the position it exchanges position i with.  The  *)
(* bucket afterwards, and the position it returns.                         *)
Picks(vTried) ==
  LET n == IF Inspect < Len(vTried) THEN Inspect ELSE Len(vTried)
  IN  {rnd \in [1..n -> 1..Len(vTried)] : \A i \in 1..n : i <= rnd[i]}

SelectTried(am, b, rnd) ==
  LET Look(acc, i) ==
        LET nPos == rnd[i]
            nTemp == acc.vTried[nPos]
            v == [acc.vTried EXCEPT ![nPos] = acc.vTried[i], ![i] = nTemp]
        IN  IF \/ acc.nOldest = 0
               \/ am.mapInfo[nTemp].nLastSuccess < am.mapInfo[acc.nOldest].nLastSuccess
            THEN [vTried |-> v, nOldest |-> nTemp, nOldestPos |-> nPos]
            ELSE [acc EXCEPT !.vTried = v]
      After[n \in 0..Len(rnd)] ==
        IF n = 0 THEN [vTried |-> am.vvTried[b], nOldest |-> 0, nOldestPos |-> 0]
        ELSE Look(After[n - 1], n)
  IN  After[Len(rnd)]

(* MakeTried once the entry is out of the new buckets: into its tried      *)
(* bucket, from which another one may have to go back to a new bucket.     *)
Place(am, nId, nOrigin) ==
  LET b == GetTriedBucket[am.mapInfo[nId].addr]
  IN  IF Len(am.vvTried[b]) < TriedBucketSize
      THEN {[am EXCEPT !.vvTried[b] = Append(@, nId), !.nTried = @ + 1,
                       !.mapInfo[nId].fInTried = TRUE]}
      ELSE {LET chosen == SelectTried(am, b, rnd)
                old == chosen.vTried[chosen.nOldestPos]
                nUBucket == GetNewBucket[<<am.mapInfo[old].addr, am.mapInfo[old].source>>]
                dest == IF Cardinality(am.vvNew[nUBucket]) < NewBucketSize
                        THEN nUBucket ELSE nOrigin
            IN  [am EXCEPT
                   !.mapInfo[old].fInTried = FALSE, !.mapInfo[old].nRefCount = 1,
                   !.vvNew[dest] = @ \cup {old},
                   !.nNew = @ + 1,
                   !.vvTried[b] = [chosen.vTried EXCEPT ![chosen.nOldestPos] = nId],
                   !.mapInfo[nId].fInTried = TRUE] : rnd \in Picks(am.vvTried[b])}

(* Mutant: it leaves only the bucket it was found in. *)
MakeTriedFrom(am, nId, nOrigin) ==
  Place([am EXCEPT !.vvNew[nOrigin] = @ \ {nId}, !.mapInfo[nId].nRefCount = 0,
                   !.nNew = @ - 1], nId, nOrigin)
MakeTried(am, nId, nOrigin) ==
  LET in == {b \in NewBucket : nId \in am.vvNew[b]}
  IN  Place([am EXCEPT !.vvNew = [b \in NewBucket |-> am.vvNew[b] \ {nId}],
                       !.mapInfo[nId].nRefCount = @ - Cardinality(in),
                       !.nNew = @ - 1], nId, nOrigin)

---------------------------------------------------------------------------
(* The public methods.  Attempt, Connected and Select change no table. *)

Insert(am, nId, b) ==
  LET counted == [am EXCEPT !.mapInfo[nId].nRefCount = @ + 1]
      room == IF Cardinality(am.vvNew[b]) = NewBucketSize
              THEN ShrinkNew(counted, b) ELSE {counted}
  IN  IF nId \in am.vvNew[b] THEN {am}
      ELSE {[x EXCEPT !.vvNew[b] = @ \cup {nId}] : x \in room}

(* Add_ of a routable address.  For a known one, the times and a random    *)
(* number decide whether the tests before the insertion are passed.        *)
Add(a, s) ==
  LET b == GetNewBucket[<<a, s>>]
  IN  IF a \in DOMAIN addrman.mapAddr
      THEN LET nId == addrman.mapAddr[a]
           IN  /\ ~addrman.mapInfo[nId].fInTried
               /\ addrman.mapInfo[nId].nRefCount # PerAddress
               /\ addrman' \in Insert(addrman, nId, b)
      ELSE /\ addrman.nIdCount < MaxId
           /\ LET created == Create(addrman, a, s)
              IN  addrman' \in Insert([created EXCEPT !.nNew = @ + 1], created.nIdCount, b)

Good(a, nTime) ==
  /\ a \in DOMAIN addrman.mapAddr
  /\ LET nId == addrman.mapAddr[a]
         am == [addrman EXCEPT !.mapInfo[nId].nLastSuccess = nTime]
         in == {b \in NewBucket : nId \in am.vvNew[b]}
     IN  IF am.mapInfo[nId].fInTried \/ in = {}
         THEN addrman' = am
         ELSE \E nOrigin \in in : addrman' \in MakeTried(am, nId, nOrigin)

(* GetAddr brings addresses to the front of vRandom; one exchange of its   *)
(* loop, which it may leave after any.                                     *)
GetAddr ==
  \E p, q \in DOMAIN addrman.vRandom : p < q /\ addrman' = SwapRandom(addrman, p, q)

---------------------------------------------------------------------------
(* peers.dat *)

(* A set of numbers in ascending order. *)
InOrder(ids) ==
  [n \in 1..Cardinality(ids) |-> CHOOSE i \in ids : Cardinality({j \in ids : j < i}) = n - 1]
Written(info) == [addr |-> info.addr, source |-> info.source, nLastSuccess |-> info.nLastSuccess]

(* Mutant: the new table is rebuilt from the entries' own buckets. *)
SerializeOwnBucket(am) ==
  LET new == InOrder({i \in Ids(am) : am.mapInfo[i].nRefCount # 0})
      tried == InOrder({i \in Ids(am) : am.mapInfo[i].fInTried})
  IN  [new |-> [n \in 1..am.nNew |-> Written(am.mapInfo[new[n]])],
       tried |-> [n \in 1..am.nTried |-> Written(am.mapInfo[tried[n]])],
       buckets |-> [b \in NewBucket |->
          {n \in 1..am.nNew : GetNewBucket[<<am.mapInfo[new[n]].addr,
                                             am.mapInfo[new[n]].source>>] = b}]]

(* The entries of the new table and of the tried one in the order of their *)
(* ids, and the new buckets, by the places of their entries in the first   *)
(* list: mapUnkIds counts the new entries before an id.                    *)
Serialize(am) ==
  LET new == InOrder({i \in Ids(am) : am.mapInfo[i].nRefCount # 0})
      tried == InOrder({i \in Ids(am) : am.mapInfo[i].fInTried})
      UnkId(id) == 1 + Cardinality({i \in Ids(am) : am.mapInfo[i].nRefCount # 0 /\ i < id})
  IN  [new |-> [n \in 1..am.nNew |-> Written(am.mapInfo[new[n]])],
       tried |-> [n \in 1..am.nTried |-> Written(am.mapInfo[tried[n]])],
       buckets |-> [b \in NewBucket |-> {UnkId(id) : id \in am.vvNew[b]}]]

(* The entries get the ids they have places for in the file.  A tried one  *)
(* whose bucket is full by then is lost, and a reference beyond the limit. *)
Unserialize(file) ==
  LET nNew == Len(file.new)
      Before(n) == {m \in 1..(n - 1) : GetTriedBucket[file.tried[m].addr]
                                         = GetTriedBucket[file.tried[n].addr]}
      kept == InOrder({n \in DOMAIN file.tried : Cardinality(Before(n)) < TriedBucketSize})
      ids == 1..(nNew + Len(kept))
      rec == [i \in ids |-> IF i <= nNew THEN file.new[i] ELSE file.tried[kept[i - nNew]]]
      vvNew == [b \in NewBucket |->
                  {i \in file.buckets[b] :
                     Cardinality({c \in 1..(b - 1) : i \in file.buckets[c]}) < PerAddress}]
  IN  [mapInfo |-> [i \in ids |->
          [addr |-> rec[i].addr, source |-> rec[i].source,
           nRefCount |-> Cardinality({b \in NewBucket : i \in vvNew[b]}),
           fInTried |-> i > nNew, nLastSuccess |-> rec[i].nLastSuccess, nRandomPos |-> i]],
       mapAddr |-> [a \in {rec[i].addr : i \in ids} |-> CHOOSE i \in ids : rec[i].addr = a],
       vRandom |-> [i \in ids |-> i],
       vvTried |-> [b \in TriedBucket |->
          InOrder({i \in (nNew + 1)..(nNew + Len(kept)) : GetTriedBucket[rec[i].addr] = b})],
       vvNew |-> vvNew,
       nNew |-> nNew, nTried |-> Len(kept), nIdCount |-> nNew + Len(kept)]

(* The node is stopped, or dies after a save, and starts from peers.dat.   *)
(* (What it loads after a crash is what an earlier state would load: every *)
(* state that leads to is one that follows a restart of that state.)       *)
Reload == addrman' = Unserialize(Serialize(addrman))

AddrInit == addrman = Empty

AddrNext ==
  \/ \E a \in Address, s \in Source : Add(a, s)
  \/ \E a \in Address, nTime \in 1..MaxTime : Good(a, nTime)
  \/ GetAddr
  \/ Reload

AddrSpec == AddrInit /\ [][AddrNext]_addrman

---------------------------------------------------------------------------
(* Properties *)

References(am, i) == {b \in NewBucket : i \in am.vvNew[b]}
Places(am, i) == {p \in TriedBucket \X (1..TriedBucketSize) :
                    p[2] \in DOMAIN am.vvTried[p[1]] /\ am.vvTried[p[1]][p[2]] = i}

(* What Check_ tests, in builds with DEBUG_ADDRMAN only: the counters, the *)
(* reference counts, both tables, the list and the two maps tell the same  *)
(* of every entry, after any calls, evictions and restarts.                *)
Check ==
  /\ Len(addrman.vRandom) = addrman.nTried + addrman.nNew
  /\ addrman.nTried = Cardinality(Tried(addrman))
  /\ addrman.nNew = Cardinality(Ids(addrman) \ Tried(addrman))
  /\ \A i \in Ids(addrman) :
       LET info == addrman.mapInfo[i]
       IN  /\ addrman.mapAddr[info.addr] = i
           /\ info.nRandomPos \in DOMAIN addrman.vRandom
           /\ addrman.vRandom[info.nRandomPos] = i
           /\ info.nRefCount = Cardinality(References(addrman, i))
           /\ IF info.fInTried
              THEN info.nLastSuccess > 0 /\ info.nRefCount = 0
                   /\ Cardinality(Places(addrman, i)) = 1
              ELSE info.nRefCount \in 1..PerAddress /\ Places(addrman, i) = {}
  /\ \A b \in NewBucket : addrman.vvNew[b] \subseteq Ids(addrman)
  /\ \A b \in TriedBucket : \A p \in DOMAIN addrman.vvTried[b] :
       addrman.vvTried[b][p] \in Ids(addrman)

(* No bucket outgrows its size, also where MakeTried sends an evicted      *)
(* entry to the bucket the new one came from ("there is certainly place    *)
(* there").                                                                *)
BucketsBounded ==
  /\ \A b \in NewBucket : Cardinality(addrman.vvNew[b]) <= NewBucketSize
  /\ \A b \in TriedBucket : Len(addrman.vvTried[b]) <= TriedBucketSize

(* Both together: every view of the tables tells the same of every entry,  *)
(* and no bucket outgrows its size, whatever calls, evictions and restarts *)
(* led there.                                                              *)
TablesConsistent == Check /\ BucketsBounded

Known(am) ==
  [new |-> [b \in NewBucket |-> {Written(am.mapInfo[i]) : i \in am.vvNew[b]}],
   tried |-> [b \in TriedBucket |-> {Written(am.mapInfo[i]) : i \in ToSet(am.vvTried[b])}]]

(* A restart brings back every entry in the bucket it was in, although     *)
(* peers.dat holds no ids and not the tried table.                         *)
RestartKeepsTables == [][Reload => Known(addrman)' = Known(addrman)]_addrman

(* The comment in SelectTried: "random shuffle the first few elements",    *)
(* "find the least recently tried among them".                             *)
EvictsOldest ==
  \A b \in TriedBucket : Len(addrman.vvTried[b]) = TriedBucketSize =>
    \A rnd \in Picks(addrman.vvTried[b]) :
      LET chosen == SelectTried(addrman, b, rnd)
      IN  \A i \in DOMAIN rnd :
            addrman.mapInfo[chosen.vTried[chosen.nOldestPos]].nLastSuccess
              <= addrman.mapInfo[chosen.vTried[i]].nLastSuccess
============================================================================
