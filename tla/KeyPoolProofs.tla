--------------------------- MODULE KeyPoolProofs ---------------------------
(***************************************************************************)
(* Theorems about KeyPool, for any number of keys, reservations, sizes of  *)
(* the pool and crashes: no key that may be in use is lost, and none is    *)
(* handed out twice.                                                       *)
(*                                                                         *)
(* KeysSurvive is about the file only.  It is inductive together with what *)
(* memory takes from the file (HeldKeysSaved) and with how the stages of   *)
(* EncryptWallet show in the file (StageInFile): while the batch is open   *)
(* memory is encrypted and the file is not, and at every other time they   *)
(* agree.                                                                  *)
(*                                                                         *)
(* HandedOutOnce is inductive together with what the pool has on record    *)
(* (Recorded) and, while no index has been given out twice, with what      *)
(* keeps two reservations apart (HoldersApart).                            *)
(***************************************************************************)
EXTENDS KeyPool, Integers, FiniteSetTheorems, WellFoundedInduction, TLAPS

Saved == dbKey \cup dbCKey

(* Every key on record, reserved, in the template or given away is saved. *)
PoolKeysSaved == \A i \in Index : dbPool[i] \in Saved \cup {None}
HeldKeysSaved ==
  /\ \A h \in Holder : reserved[h] # None => reserved[h].key \in Saved
  /\ template \in Saved \cup {None}
  /\ used \cup mined \subseteq Saved

(* EncryptWallet, as the file shows it. *)
StageInFile ==
  /\ ~fUseCrypto => pc = "idle"
  /\ ~fUseCrypto \/ pc = "txn" => dbCKey = {} /\ dbMaster = FALSE
  /\ fUseCrypto /\ pc # "txn" => dbMaster = TRUE /\ dbKey = {}

KeyInv == KeyTypeOK /\ PoolKeysSaved /\ HeldKeysSaved /\ StageInFile

---------------------------------------------------------------------------
(* The indices TopUpKeyPool adds. *)

(* A non-empty set of indices has a highest and a lowest member: of the    *)
(* sets of the members above (below) one of them, some are minimal.        *)
LEMMA Extremes ==
  ASSUME MaxKeys \in Nat, NEW S \in SUBSET Index, S # {}
  PROVE  HighestOf(S) \in S /\ LowestOf(S) \in S
<1>1. IsFiniteSet(S) /\ S \subseteq Int
  <2>1. IsFiniteSet(Index) /\ Index \subseteq Int
    BY FS_Interval DEF Index
  <2>. QED
    BY <2>1, FS_Subset
<1>2. IsWellFoundedOn(StrictSubsetOrdering(S), SUBSET S)
  BY <1>1, FS_StrictSubsetOrderingWellFounded, FS_FiniteSubsetsOfFinite, Zenon
<1>3. \E i \in S : \A j \in S : j <= i
  <2>. DEFINE Above(i) == {j \in S : j > i}
              T == {Above(i) : i \in S}
  <2>1. PICK x \in T : \A y \in T : <<y, x>> \notin StrictSubsetOrdering(S)
    <3>1. T \subseteq SUBSET S /\ T # {}
      OBVIOUS
    <3>. HIDE DEF T
    <3>. QED
      BY <1>2, <3>1, WFMin, Zenon
  <2>2. PICK i \in S : x = Above(i)
    OBVIOUS
  <2>3. ASSUME NEW j \in S, j > i  PROVE FALSE
    <3>1. Above(j) \subseteq Above(i) /\ j \in Above(i) /\ j \notin Above(j)
      <4>1. i \in Int /\ j \in Int /\ \A k \in S : k \in Int
        BY <1>1
      <4>2. ~ (j > j) /\ \A k \in S : k > j => k > i
        BY <2>3, <4>1
      <4>. QED
        BY <2>3, <4>2, Zenon
    <3>2. <<Above(j), Above(i)>> \in StrictSubsetOrdering(S)
      BY <3>1 DEF StrictSubsetOrdering
    <3>. QED
      BY <2>1, <2>2, <3>2
  <2>. QED
    BY <2>3 DEF Index
<1>4. \E i \in S : \A j \in S : i <= j
  <2>. DEFINE Below(i) == {j \in S : j < i}
              T == {Below(i) : i \in S}
  <2>1. PICK x \in T : \A y \in T : <<y, x>> \notin StrictSubsetOrdering(S)
    <3>1. T \subseteq SUBSET S /\ T # {}
      OBVIOUS
    <3>. HIDE DEF T
    <3>. QED
      BY <1>2, <3>1, WFMin, Zenon
  <2>2. PICK i \in S : x = Below(i)
    OBVIOUS
  <2>3. ASSUME NEW j \in S, j < i  PROVE FALSE
    <3>1. Below(j) \subseteq Below(i) /\ j \in Below(i) /\ j \notin Below(j)
      <4>1. i \in Int /\ j \in Int /\ \A k \in S : k \in Int
        BY <1>1
      <4>2. ~ (j < j) /\ \A k \in S : k < j => k < i
        BY <2>3, <4>1
      <4>. QED
        BY <2>3, <4>2, Zenon
    <3>2. <<Below(j), Below(i)>> \in StrictSubsetOrdering(S)
      BY <3>1 DEF StrictSubsetOrdering
    <3>. QED
      BY <2>1, <2>2, <3>2
  <2>. QED
    BY <2>3 DEF Index
<1>. QED
  BY <1>3, <1>4 DEF HighestOf, LowestOf

LEMMA ToppingUp ==
  ASSUME KeyPoolAssumption, KeyTypeOK
  PROVE  Missing \in Nat /\ NextIndex \in Nat \ {0}
<1>1. IsFiniteSet(setKeyPool)
  <2>1. IsFiniteSet(Index)
    BY FS_Interval DEF Index, KeyPoolAssumption
  <2>. QED
    BY <2>1, FS_Subset DEF KeyTypeOK
<1>2. Cardinality(setKeyPool) \in Nat
  BY <1>1, FS_CardinalityType
<1>3. Missing \in Nat
  <2>1. CASE Cardinality(setKeyPool) > KeyPoolSize
    BY <2>1 DEF Missing
  <2>2. CASE ~ (Cardinality(setKeyPool) > KeyPoolSize)
    <3>1. KeyPoolSize + 1 - Cardinality(setKeyPool) \in Nat
      BY <1>2, <2>2 DEF KeyPoolAssumption
    <3>. QED
      BY <3>1 DEF Missing
  <2>. QED
    BY <2>1, <2>2
<1>4. NextIndex \in Nat \ {0}
  <2>1. CASE setKeyPool = {}
    BY <2>1 DEF NextIndex
  <2>2. CASE setKeyPool # {}
    <3>1. HighestOf(setKeyPool) \in setKeyPool
      BY <2>2, Extremes DEF KeyTypeOK, KeyPoolAssumption
    <3>2. HighestOf(setKeyPool) \in 1 .. MaxKeys
      BY <3>1 DEF KeyTypeOK, Index
    <3>. QED
      BY <2>2, <3>2 DEF NextIndex, KeyPoolAssumption
  <2>. QED
    BY <2>1, <2>2
<1>. QED
  BY <1>3, <1>4

(* GenerateNewKey saves what it generates, in the form the store is in,    *)
(* and takes nothing from the file.                                        *)
LEMMA Generating ==
  ASSUME KeyPoolAssumption, KeyInv, pc # "txn", NEW n \in Nat, GenerateNewKeys(n)
  PROVE  /\ nextKey' \in 1 .. MaxKeys + 1 /\ nextKey' = nextKey + n
         /\ dbKey' \subseteq KeyNo /\ dbCKey' \subseteq KeyNo
         /\ Saved \subseteq Saved'
         /\ \A j \in 0 .. n - 1 : nextKey + j \in Saved'
         /\ fUseCrypto => dbKey' = {}
         /\ ~fUseCrypto => dbCKey' = {}
<1>. DEFINE new == nextKey .. nextKey + n - 1
<1>1. nextKey' = nextKey + n /\ nextKey' \in 1 .. MaxKeys + 1 /\ new \subseteq KeyNo
  BY DEF GenerateNewKeys, KeyInv, KeyTypeOK, KeyPoolAssumption, KeyNo
<1>2. dbKey' \subseteq dbKey \cup new /\ dbCKey' \subseteq dbCKey \cup new
  BY DEF GenerateNewKeys
<1>3. Saved' = Saved \cup new
  BY DEF GenerateNewKeys, Saved
<1>4. /\ fUseCrypto => dbKey' = {}
      /\ ~fUseCrypto => dbCKey' = {}
  BY DEF GenerateNewKeys, KeyInv, StageInFile
<1>5. \A j \in 0 .. n - 1 : nextKey + j \in new
  BY DEF KeyInv, KeyTypeOK
<1>. QED
  BY <1>1, <1>2, <1>3, <1>4, <1>5 DEF KeyInv, KeyTypeOK

(* What ReserveKeyFromKeyPool finds, and leaves in the file. *)
LEMMA Reserving ==
  ASSUME KeyPoolAssumption, KeyInv, NEW i \in Index, NEW k, Reserves(i, k)
  PROVE  /\ nextKey' \in 1 .. MaxKeys + 1
         /\ dbKey' \subseteq KeyNo /\ dbCKey' \subseteq KeyNo
         /\ Saved \subseteq Saved' /\ Saved' \subseteq KeyNo
         /\ fUseCrypto => dbKey' = {}
         /\ ~fUseCrypto => dbCKey' = {}
         /\ ToppedUp \subseteq Index
         /\ ToppedUpDb \in [Index -> Saved' \cup {None}]
         /\ k \in Saved' \cup {None}
         /\ fReindexed' \in BOOLEAN
         /\ pc = "idle"
<1>1. Missing \in Nat /\ NextIndex \in Nat \ {0}
  BY ToppingUp DEF KeyInv
<1>2. GenerateNewKeys(Missing) /\ pc = "idle"
  BY DEF Reserves
<1>3. /\ nextKey' \in 1 .. MaxKeys + 1
      /\ dbKey' \subseteq KeyNo /\ dbCKey' \subseteq KeyNo
      /\ Saved \subseteq Saved'
      /\ \A j \in 0 .. Missing - 1 : nextKey + j \in Saved'
      /\ fUseCrypto => dbKey' = {}
      /\ ~fUseCrypto => dbCKey' = {}
  BY <1>1, <1>2, Generating
<1>4. ToppedUpDb \in [Index -> Saved' \cup {None}]
  <2>. SUFFICES ASSUME NEW j \in Index
               PROVE  ToppedUpDb[j] \in Saved' \cup {None}
    BY DEF ToppedUpDb
  <2>1. CASE j \in NextIndex .. NextIndex + Missing - 1
    <3>1. j - NextIndex \in 0 .. Missing - 1
      BY <1>1, <2>1
    <3>. QED
      BY <1>3, <2>1, <3>1 DEF ToppedUpDb
  <2>2. CASE j \notin NextIndex .. NextIndex + Missing - 1
    BY <1>3, <2>2 DEF ToppedUpDb, KeyInv, PoolKeysSaved
  <2>. QED
    BY <2>1, <2>2
<1>5. ToppedUp \subseteq Index /\ k = ToppedUpDb[i] /\ fReindexed' \in BOOLEAN
  BY DEF Reserves, KeyInv, KeyTypeOK, ReservedIn
<1>6. Saved' \subseteq KeyNo
  BY <1>3 DEF Saved
<1>. QED
  BY <1>2, <1>3, <1>4, <1>5, <1>6

---------------------------------------------------------------------------
(* The steps. *)

LEMMA Start ==
  ASSUME KeyPoolAssumption, KeyInit
  PROVE  KeyInv
<1>1. KeyTypeOK
  <2>1. nextKey \in 1 .. MaxKeys + 1 /\ crashes \in 0 .. MaxCrashes
    BY DEF KeyPoolAssumption, KeyInit
  <2>2. {fUseCrypto, fUnlocked, dbMaster, fReindexed} \subseteq BOOLEAN
    BY DEF KeyInit
  <2>. QED
    BY <2>1, <2>2, Zenon DEF KeyInit, KeyTypeOK
<1>2. PoolKeysSaved /\ HeldKeysSaved /\ StageInFile
  BY DEF KeyInit, PoolKeysSaved, HeldKeysSaved, StageInFile
<1>. QED
  BY <1>1, <1>2 DEF KeyInv

(* A reservation takes from the file what it saved there. *)
LEMMA Reservations ==
  ASSUME KeyPoolAssumption, KeyInv, NEW h \in Holder, GetReservedKey(h)
  PROVE  KeyInv'
<1>1. PICK i \in Index, k \in KeyNo \cup {None} :
         /\ Reserves(i, k)
         /\ dbPool' = ToppedUpDb
         /\ IF k = None
            THEN setKeyPool' = ToppedUp /\ UNCHANGED reserved
            ELSE /\ setKeyPool' = ToppedUp \ {i}
                 /\ reserved' = [reserved EXCEPT ![h] = [nIndex |-> i, key |-> k, kept |-> FALSE]]
  BY DEF GetReservedKey
<1>2. UNCHANGED <<template, fUseCrypto, fUnlocked, pc, dbMaster, used, mined, crashes>>
  BY DEF GetReservedKey
<1>3. /\ nextKey' \in 1 .. MaxKeys + 1
      /\ dbKey' \subseteq KeyNo /\ dbCKey' \subseteq KeyNo
      /\ Saved \subseteq Saved' /\ Saved' \subseteq KeyNo
      /\ fUseCrypto => dbKey' = {}
      /\ ~fUseCrypto => dbCKey' = {}
      /\ ToppedUp \subseteq Index
      /\ ToppedUpDb \in [Index -> Saved' \cup {None}]
      /\ k \in Saved' \cup {None}
      /\ fReindexed' \in BOOLEAN
      /\ pc = "idle"
  BY <1>1, Reserving
<1>4. reserved' \in [Holder -> Reservation \cup {None}]
  <2>1. k # None => [nIndex |-> i, key |-> k, kept |-> FALSE] \in Reservation
    BY DEF Reservation
  <2>. QED
    BY <1>1, <2>1 DEF KeyInv, KeyTypeOK
<1>5. \A g \in Holder : reserved'[g] # None => reserved'[g].key \in Saved'
  <2>1. CASE k = None
    BY <1>1, <1>3, <2>1 DEF KeyInv, HeldKeysSaved
  <2>2. CASE k # None
    <3>. TAKE g \in Holder
    <3>1. CASE g = h
      BY <1>1, <1>3, <2>2, <3>1 DEF KeyInv, KeyTypeOK
    <3>2. CASE g # h
      BY <1>1, <1>3, <2>2, <3>2 DEF KeyInv, KeyTypeOK, HeldKeysSaved
    <3>. QED
      BY <3>1, <3>2
  <2>. QED
    BY <2>1, <2>2
<1>6. KeyTypeOK'
  <2>1. setKeyPool' \subseteq Index
    BY <1>1, <1>3
  <2>2. dbPool' \in [Index -> KeyNo \cup {None}]
    BY <1>1, <1>3
  <2>. QED
    BY <1>2, <1>3, <1>4, <2>1, <2>2 DEF KeyInv, KeyTypeOK
<1>7. PoolKeysSaved'
  BY <1>1, <1>3 DEF PoolKeysSaved
<1>8. HeldKeysSaved'
  BY <1>2, <1>3, <1>5 DEF KeyInv, HeldKeysSaved
<1>9. StageInFile'
  BY <1>2, <1>3 DEF KeyInv, StageInFile
<1>. QED
  BY <1>6, <1>7, <1>8, <1>9 DEF KeyInv

LEMMA Addresses ==
  ASSUME KeyPoolAssumption, KeyInv, GetKeyFromPool
  PROVE  KeyInv'
<1>1. PICK i \in Index, k \in KeyNo :
         /\ Reserves(i, k)
         /\ setKeyPool' = ToppedUp \ {i}
         /\ dbPool' = [ToppedUpDb EXCEPT ![i] = None]
         /\ used' = used \cup {k}
  BY DEF GetKeyFromPool
<1>2. UNCHANGED <<reserved, template, fUseCrypto, fUnlocked, pc, dbMaster, mined, crashes>>
  BY DEF GetKeyFromPool
<1>3. /\ nextKey' \in 1 .. MaxKeys + 1
      /\ dbKey' \subseteq KeyNo /\ dbCKey' \subseteq KeyNo
      /\ Saved \subseteq Saved' /\ Saved' \subseteq KeyNo
      /\ fUseCrypto => dbKey' = {}
      /\ ~fUseCrypto => dbCKey' = {}
      /\ ToppedUp \subseteq Index
      /\ ToppedUpDb \in [Index -> Saved' \cup {None}]
      /\ k \in Saved' \cup {None}
      /\ fReindexed' \in BOOLEAN
      /\ pc = "idle"
  BY <1>1, Reserving
<1>4. k \in Saved'
  BY <1>3 DEF KeyPoolAssumption, KeyNo
<1>5. dbPool' \in [Index -> Saved' \cup {None}]
  BY <1>1, <1>3
<1>6. KeyTypeOK'
  <2>1. dbPool' \in [Index -> KeyNo \cup {None}]
    BY <1>3, <1>5
  <2>2. setKeyPool' \subseteq Index /\ used' \subseteq KeyNo
    BY <1>1, <1>3 DEF KeyInv, KeyTypeOK
  <2>. QED
    BY <1>2, <1>3, <2>1, <2>2 DEF KeyInv, KeyTypeOK
<1>7. PoolKeysSaved'
  BY <1>5 DEF PoolKeysSaved
<1>8. HeldKeysSaved'
  BY <1>1, <1>2, <1>3, <1>4 DEF KeyInv, HeldKeysSaved
<1>9. StageInFile'
  BY <1>2, <1>3 DEF KeyInv, StageInFile
<1>. QED
  BY <1>6, <1>7, <1>8, <1>9 DEF KeyInv

(* The steps of a holder that generate nothing leave the saved keys alone. *)
LEMMA HoldersMove ==
  ASSUME KeyPoolAssumption, KeyInv, NEW h \in Holder,
         KeepKey(h) \/ Publish(h) \/ ReturnKey(h) \/ CreateNewBlock(h)
  PROVE  KeyInv'
<1>1. reserved[h] # None /\ reserved[h] \in Reservation /\ reserved[h].key \in Saved
  BY DEF KeyInv, KeyTypeOK, HeldKeysSaved, KeepKey, Publish, ReturnKey, CreateNewBlock
<1>2. reserved[h].nIndex \in Index /\ reserved[h].key \in KeyNo
  BY <1>1 DEF Reservation
<1>3. Saved' = Saved
  BY DEF KeepKey, Publish, ReturnKey, CreateNewBlock, fileVars, Saved
<1>4. CASE KeepKey(h)
  <2>1. [reserved[h] EXCEPT !.kept = TRUE] \in Reservation
    BY <1>1 DEF Reservation
  <2>2. [reserved[h] EXCEPT !.kept = TRUE].key = reserved[h].key
    BY <1>1 DEF Reservation
  <2>3. reserved' = [reserved EXCEPT ![h] = [reserved[h] EXCEPT !.kept = TRUE]]
    BY <1>4 DEF KeepKey
  <2>. HIDE <1>1
  <2>4. KeyTypeOK'
    BY <1>2, <1>4, <2>1, <2>3 DEF KeepKey, KeyInv, KeyTypeOK, histVars
  <2>5. PoolKeysSaved'
    BY <1>2, <1>3, <1>4 DEF KeepKey, KeyInv, KeyTypeOK, PoolKeysSaved
  <2>6. HeldKeysSaved'
    <3>1. \A g \in Holder : reserved'[g] # None => reserved'[g].key \in Saved'
      BY <1>1, <1>3, <2>2, <2>3 DEF KeyInv, KeyTypeOK, HeldKeysSaved
    <3>. QED
      BY <1>3, <1>4, <3>1 DEF KeepKey, KeyInv, HeldKeysSaved, histVars
  <2>7. StageInFile'
    BY <1>4 DEF KeepKey, KeyInv, StageInFile
  <2>. QED
    BY <2>4, <2>5, <2>6, <2>7 DEF KeyInv
<1>5. CASE Publish(h)
  <2>1. KeyTypeOK'
    BY <1>2, <1>5 DEF Publish, KeyInv, KeyTypeOK, fileVars
  <2>2. PoolKeysSaved' /\ HeldKeysSaved'
    BY <1>1, <1>3, <1>5 DEF Publish, KeyInv, KeyTypeOK, PoolKeysSaved, HeldKeysSaved, fileVars
  <2>3. StageInFile'
    BY <1>5 DEF Publish, KeyInv, StageInFile, fileVars
  <2>. QED
    BY <2>1, <2>2, <2>3 DEF KeyInv
<1>6. CASE ReturnKey(h)
  <2>1. KeyTypeOK'
    BY <1>2, <1>6 DEF ReturnKey, KeyInv, KeyTypeOK, fileVars, histVars
  <2>2. PoolKeysSaved' /\ HeldKeysSaved'
    BY <1>3, <1>6 DEF ReturnKey, KeyInv, KeyTypeOK, PoolKeysSaved, HeldKeysSaved, fileVars, histVars
  <2>3. StageInFile'
    BY <1>6 DEF ReturnKey, KeyInv, StageInFile, fileVars
  <2>. QED
    BY <2>1, <2>2, <2>3 DEF KeyInv
<1>7. CASE CreateNewBlock(h)
  <2>1. KeyTypeOK'
    BY <1>2, <1>7 DEF CreateNewBlock, KeyInv, KeyTypeOK, fileVars, histVars
  <2>2. PoolKeysSaved' /\ HeldKeysSaved'
    BY <1>1, <1>3, <1>7
    DEF CreateNewBlock, KeyInv, KeyTypeOK, PoolKeysSaved, HeldKeysSaved, fileVars, histVars
  <2>3. StageInFile'
    BY <1>7 DEF CreateNewBlock, KeyInv, StageInFile, fileVars
  <2>. QED
    BY <2>1, <2>2, <2>3 DEF KeyInv
<1>. QED
  BY <1>4, <1>5, <1>6, <1>7

LEMMA Mining ==
  ASSUME KeyPoolAssumption, KeyInv, CheckWork
  PROVE  KeyInv'
<1>1. KeyTypeOK'
  BY DEF CheckWork, KeyInv, KeyTypeOK, fileVars
<1>2. Saved' = Saved
  BY DEF CheckWork, fileVars, Saved
<1>3. PoolKeysSaved' /\ HeldKeysSaved'
  BY <1>2 DEF CheckWork, KeyInv, PoolKeysSaved, HeldKeysSaved, fileVars
<1>4. StageInFile'
  BY DEF CheckWork, KeyInv, StageInFile, fileVars
<1>. QED
  BY <1>1, <1>3, <1>4 DEF KeyInv

(* Locking, and EncryptWallet until its batch is committed. *)
LEMMA Encrypting ==
  ASSUME KeyPoolAssumption, KeyInv, Lock \/ Unlock \/ EncryptKeys \/ EncryptCommit
  PROVE  KeyInv'
<1>1. KeyTypeOK'
  <2>1. CASE Lock
    BY <2>1 DEF Lock, KeyInv, KeyTypeOK, fileVars, histVars
  <2>2. CASE Unlock
    BY <2>2 DEF Unlock, IsLocked, KeyInv, KeyTypeOK, fileVars, histVars
  <2>3. CASE EncryptKeys
    BY <2>3 DEF EncryptKeys, KeyInv, KeyTypeOK, fileVars, histVars
  <2>4. CASE EncryptCommit
    BY <2>4 DEF EncryptCommit, KeyInv, KeyTypeOK, memVars, histVars
  <2>. QED
    BY <2>1, <2>2, <2>3, <2>4
<1>2. Saved' = Saved
  BY DEF Lock, Unlock, EncryptKeys, EncryptCommit, fileVars, Saved
<1>3. PoolKeysSaved' /\ HeldKeysSaved'
  BY <1>2 DEF Lock, Unlock, EncryptKeys, EncryptCommit, KeyInv, PoolKeysSaved, HeldKeysSaved,
              fileVars, memVars, histVars
<1>4. StageInFile'
  <2>1. CASE Lock \/ Unlock
    BY <2>1 DEF Lock, Unlock, KeyInv, StageInFile, fileVars
  <2>2. CASE EncryptKeys
    BY <2>2 DEF EncryptKeys, KeyInv, StageInFile, fileVars
  <2>3. CASE EncryptCommit
    BY <2>3 DEF EncryptCommit, KeyInv, StageInFile, memVars
  <2>. QED
    BY <2>1, <2>2, <2>3
<1>. QED
  BY <1>1, <1>3, <1>4 DEF KeyInv

(* NewKeyPool, once the batch is committed. *)
LEMMA Renewing ==
  ASSUME KeyPoolAssumption, KeyInv, NewKeyPoolErase \/ NewKeyPoolFill
  PROVE  KeyInv'
<1>1. CASE NewKeyPoolErase
  <2>1. fReindexed' \in BOOLEAN
    BY <1>1 DEF NewKeyPoolErase, ReservedIn, KeyInv, KeyTypeOK
  <2>2. fUseCrypto = TRUE
    BY <1>1 DEF NewKeyPoolErase, KeyInv, KeyTypeOK, StageInFile
  <2>3. KeyTypeOK'
    BY <1>1, <2>1, <2>2 DEF NewKeyPoolErase, KeyInv, KeyTypeOK
  <2>4. PoolKeysSaved' /\ HeldKeysSaved'
    BY <1>1 DEF NewKeyPoolErase, KeyInv, PoolKeysSaved, HeldKeysSaved, Saved
  <2>5. StageInFile'
    BY <1>1 DEF NewKeyPoolErase, KeyInv, StageInFile
  <2>. QED
    BY <2>3, <2>4, <2>5 DEF KeyInv
<1>2. CASE NewKeyPoolFill
  <2>1. GenerateNewKeys(KeyPoolSize) /\ pc = "erased" /\ KeyPoolSize \in Nat
    BY <1>2 DEF NewKeyPoolFill, KeyPoolAssumption
  <2>2. /\ nextKey' \in 1 .. MaxKeys + 1 /\ nextKey' = nextKey + KeyPoolSize
        /\ dbKey' \subseteq KeyNo /\ dbCKey' \subseteq KeyNo
        /\ Saved \subseteq Saved'
        /\ \A j \in 0 .. KeyPoolSize - 1 : nextKey + j \in Saved'
        /\ fUseCrypto => dbKey' = {}
        /\ ~fUseCrypto => dbCKey' = {}
    BY <2>1, Generating
  <2>3. \A i \in Index : dbPool'[i] \in Saved' \cup {None}
    <3>. TAKE i \in Index
    <3>1. CASE i <= KeyPoolSize
      <4>1. i - 1 \in 0 .. KeyPoolSize - 1
        BY <2>1, <3>1 DEF Index
      <4>. QED
        BY <1>2, <2>2, <3>1, <4>1 DEF NewKeyPoolFill
    <3>2. CASE ~ (i <= KeyPoolSize)
      BY <1>2, <2>2, <3>2 DEF NewKeyPoolFill, KeyInv, PoolKeysSaved
    <3>. QED
      BY <3>1, <3>2
  <2>4. KeyTypeOK'
    <3>1. Saved' \subseteq KeyNo
      BY <2>2 DEF Saved
    <3>2. dbPool' \in [Index -> KeyNo \cup {None}]
      BY <1>2, <2>3, <3>1 DEF NewKeyPoolFill
    <3>3. setKeyPool' \subseteq Index
      BY <1>2, <2>2 DEF NewKeyPoolFill, KeyInv, KeyTypeOK, KeyPoolAssumption, Index
    <3>. QED
      BY <1>2, <2>2, <3>2, <3>3 DEF NewKeyPoolFill, KeyInv, KeyTypeOK
  <2>5. PoolKeysSaved' /\ HeldKeysSaved'
    BY <1>2, <2>2, <2>3 DEF NewKeyPoolFill, KeyInv, PoolKeysSaved, HeldKeysSaved
  <2>6. StageInFile'
    BY <1>2, <2>2 DEF NewKeyPoolFill, KeyInv, KeyTypeOK, StageInFile
  <2>. QED
    BY <2>4, <2>5, <2>6 DEF KeyInv
<1>. QED
  BY <1>1, <1>2

(* A restart takes the form of the store from the file. *)
LEMMA Restarting ==
  ASSUME KeyPoolAssumption, KeyInv, CrashAndLoad
  PROVE  KeyInv'
<1>1. fUseCrypto' \in BOOLEAN /\ fUnlocked' = FALSE
  BY DEF CrashAndLoad
<1>2. KeyTypeOK'
  <2>1. crashes' \in 0 .. MaxCrashes
    BY DEF CrashAndLoad, KeyInv, KeyTypeOK, KeyPoolAssumption
  <2>2. {fUseCrypto, fUnlocked, dbMaster, fReindexed}' \subseteq BOOLEAN
    BY <1>1 DEF CrashAndLoad, KeyInv, KeyTypeOK, fileVars
  <2>3. /\ setKeyPool' \subseteq Index
        /\ reserved' \in [Holder -> Reservation \cup {None}]
        /\ template' \in KeyNo \cup {None}
        /\ pc' \in {"idle", "txn", "committed", "erased"}
    BY DEF CrashAndLoad
  <2>4. UNCHANGED <<dbPool, dbKey, dbCKey, nextKey, used, mined>>
    BY DEF CrashAndLoad, fileVars
  <2>. QED
    BY <1>1, <2>1, <2>2, <2>3, <2>4 DEF KeyInv, KeyTypeOK
<1>3. PoolKeysSaved' /\ HeldKeysSaved'
  BY DEF CrashAndLoad, KeyInv, PoolKeysSaved, HeldKeysSaved, Saved, fileVars
<1>4. StageInFile'
  BY DEF CrashAndLoad, KeyInv, KeyTypeOK, StageInFile, fileVars
<1>. QED
  BY <1>2, <1>3, <1>4 DEF KeyInv

LEMMA Stuttering ==
  ASSUME KeyInv, UNCHANGED keyVars
  PROVE  KeyInv'
<1>1. KeyTypeOK'
  BY DEF KeyInv, KeyTypeOK, keyVars, memVars, fileVars, histVars
<1>2. PoolKeysSaved' /\ HeldKeysSaved'
  BY DEF KeyInv, PoolKeysSaved, HeldKeysSaved, Saved, keyVars, memVars, fileVars, histVars
<1>3. StageInFile'
  BY DEF KeyInv, StageInFile, keyVars, memVars, fileVars
<1>. QED
  BY <1>1, <1>2, <1>3 DEF KeyInv

---------------------------------------------------------------------------
(* Types hold, every key on record, reserved or given away is in the file, *)
(* and the file shows the stage EncryptWallet has reached: before the      *)
(* commit of its batch no encrypted key, after it no plain one.            *)
THEOREM KeyTyping ==
  ASSUME KeyPoolAssumption
  PROVE  KeySpec => []KeyInv
<1>1. KeyInit => KeyInv
  BY Start
<1>2. KeyInv /\ [KeyNext]_keyVars => KeyInv'
  <2>. SUFFICES ASSUME KeyInv, [KeyNext]_keyVars  PROVE KeyInv'
    OBVIOUS
  <2>1. ASSUME NEW h \in Holder, GetReservedKey(h)  PROVE KeyInv'
    BY <2>1, Reservations
  <2>2. ASSUME NEW h \in Holder, KeepKey(h) \/ Publish(h) \/ ReturnKey(h) \/ CreateNewBlock(h)
        PROVE  KeyInv'
    BY <2>2, HoldersMove
  <2>3. CASE GetKeyFromPool
    BY <2>3, Addresses
  <2>4. CASE CheckWork
    BY <2>4, Mining
  <2>5. CASE Lock \/ Unlock \/ EncryptKeys \/ EncryptCommit
    BY <2>5, Encrypting
  <2>6. CASE NewKeyPoolErase \/ NewKeyPoolFill
    BY <2>6, Renewing
  <2>7. CASE CrashAndLoad
    BY <2>7, Restarting
  <2>8. CASE UNCHANGED keyVars
    BY <2>8, Stuttering
  <2>. QED
    BY <2>1, <2>2, <2>3, <2>4, <2>5, <2>6, <2>7, <2>8 DEF KeyNext
<1>. QED
  BY <1>1, <1>2, PTL DEF KeySpec

(* No key in use is ever lost, whatever the wallet was doing when the      *)
(* process died: it is in wallet.dat, and if any key there is encrypted    *)
(* all are, with the master key beside them.                               *)
THEOREM InUseSurvives ==
  ASSUME KeyPoolAssumption
  PROVE  KeySpec => []KeysSurvive
<1>1. KeyInv => KeysSurvive
  <2>. SUFFICES ASSUME KeyInv  PROVE KeysSurvive
    OBVIOUS
  <2>1. (used \cup mined \cup {dbPool[i] : i \in Index}) \ {None} \subseteq dbKey \cup dbCKey
    BY DEF KeyInv, PoolKeysSaved, HeldKeysSaved, Saved
  <2>2. dbCKey # {} => dbMaster /\ dbKey = {}
    BY DEF KeyInv, StageInFile
  <2>. QED
    BY <2>1, <2>2 DEF KeysSurvive
<1>. QED
  BY <1>1, KeyTyping, PTL

---------------------------------------------------------------------------
(* A key is handed out once.  A record D of the pool has every key at one  *)
(* index, a reserved key only where its reservation can erase it, and      *)
(* there only until it is kept, and no key that was given away.  Nothing   *)
(* disturbs that, because new records are of keys just generated.          *)

FreshKeys == \A k \in Saved : k < nextKey

OneIndex(D) == \A i, j \in Index : D[i] # None /\ D[i] = D[j] => i = j
HeldAtIndex(D) ==
  \A h \in Holder, i \in Index :
    reserved[h] # None /\ D[i] = reserved[h].key
      => i = reserved[h].nIndex /\ ~reserved[h].kept
UsedOff(D) == \A i \in Index : D[i] \notin used
Recorded(D) == OneIndex(D) /\ HeldAtIndex(D) /\ UsedOff(D)

(* The rest needs that no index was given out again: the index of a        *)
(* reservation is not in the pool, its key not in use, and no two          *)
(* reservations have an index or a key in common.                          *)
HoldersApart ==
  \A h \in Holder : reserved[h] # None =>
    /\ pc # "erased"
    /\ reserved[h].nIndex \notin setKeyPool
    /\ reserved[h].key \notin used
    /\ \A o \in Holder \ {h} : reserved[o] # None =>
         reserved[o].nIndex # reserved[h].nIndex /\ reserved[o].key # reserved[h].key

OnceInv == FreshKeys /\ Recorded(dbPool) /\ (~fReindexed => HoldersApart)

(* Every key there is has a number below the next. *)
LEMMA KeysBelow ==
  ASSUME KeyPoolAssumption, KeyInv, FreshKeys
  PROVE  /\ nextKey \in Nat
         /\ \A i \in Index : dbPool[i] # None => dbPool[i] \in Nat /\ dbPool[i] < nextKey
         /\ \A h \in Holder : reserved[h] # None =>
              /\ reserved[h] \in Reservation
              /\ reserved[h].key \in Nat /\ reserved[h].key < nextKey
         /\ \A k \in used : k \in Nat /\ k < nextKey
<1>1. nextKey \in Nat /\ \A k \in Saved : k \in Nat /\ k < nextKey
  BY DEF KeyInv, KeyTypeOK, FreshKeys, KeyPoolAssumption, Saved, KeyNo
<1>2. \A h \in Holder : reserved[h] # None => reserved[h] \in Reservation
  BY DEF KeyInv, KeyTypeOK
<1>. QED
  BY <1>1, <1>2 DEF KeyInv, PoolKeysSaved, HeldKeysSaved

(* Records of n keys just generated, at the indices from f on. *)
LEMMA FreshRecords ==
  ASSUME KeyPoolAssumption, KeyInv, FreshKeys, Recorded(dbPool),
         NEW f \in Nat, NEW n \in Nat, NEW D,
         \A i \in Index : D[i] = IF i \in f .. f + n - 1 THEN nextKey + (i - f) ELSE dbPool[i]
  PROVE  /\ Recorded(D)
         /\ \A i \in Index : i \in f .. f + n - 1 \/ D[i] = dbPool[i]
<1>1. /\ nextKey \in Nat
      /\ \A i \in Index : dbPool[i] # None => dbPool[i] \in Nat /\ dbPool[i] < nextKey
      /\ \A h \in Holder : reserved[h] # None =>
           /\ reserved[h] \in Reservation
           /\ reserved[h].key \in Nat /\ reserved[h].key < nextKey
      /\ \A k \in used : k \in Nat /\ k < nextKey
  BY KeysBelow
<1>2. \A i \in Index : i \in Nat
  BY DEF Index
<1>3. \A i \in Index : i \in f .. f + n - 1 => D[i] = nextKey + (i - f) /\ i - f \in Nat
  BY <1>2
<1>4. \A i \in Index : i \notin f .. f + n - 1 => D[i] = dbPool[i]
  OBVIOUS
<1>5. OneIndex(D)
  <2>. SUFFICES ASSUME NEW i \in Index, NEW j \in Index, D[i] # None, D[i] = D[j]
               PROVE  i = j
    BY DEF OneIndex
  <2>1. CASE i \in f .. f + n - 1 /\ j \in f .. f + n - 1
    BY <1>1, <1>2, <1>3, <2>1
  <2>2. CASE i \in f .. f + n - 1 /\ j \notin f .. f + n - 1
    <3>1. D[j] # None /\ D[j] = dbPool[j] /\ D[j] >= nextKey
      BY <1>1, <1>3, <1>4, <2>2
    <3>. QED
      BY <1>1, <3>1
  <2>3. CASE i \notin f .. f + n - 1 /\ j \in f .. f + n - 1
    <3>1. D[i] # None /\ D[i] = dbPool[i] /\ D[i] >= nextKey
      BY <1>1, <1>3, <1>4, <2>3
    <3>. QED
      BY <1>1, <3>1
  <2>4. CASE i \notin f .. f + n - 1 /\ j \notin f .. f + n - 1
    BY <1>4, <2>4 DEF Recorded, OneIndex
  <2>. QED
    BY <2>1, <2>2, <2>3, <2>4
<1>6. HeldAtIndex(D)
  <2>. SUFFICES ASSUME NEW h \in Holder, NEW i \in Index,
                      reserved[h] # None, D[i] = reserved[h].key
               PROVE  i = reserved[h].nIndex /\ ~reserved[h].kept
    BY DEF HeldAtIndex
  <2>1. i \notin f .. f + n - 1
    BY <1>1, <1>3
  <2>. QED
    BY <1>4, <2>1 DEF Recorded, HeldAtIndex
<1>7. UsedOff(D)
  <2>. SUFFICES ASSUME NEW i \in Index, D[i] \in used  PROVE FALSE
    BY DEF UsedOff
  <2>1. i \notin f .. f + n - 1
    BY <1>1, <1>3
  <2>. QED
    BY <1>4, <2>1 DEF Recorded, UsedOff
<1>. QED
  BY <1>4, <1>5, <1>6, <1>7 DEF Recorded

(* Erasing records disturbs nothing. *)
LEMMA FewerRecords ==
  ASSUME KeyPoolAssumption, KeyInv, FreshKeys, NEW C, NEW D, Recorded(C),
         \A i \in Index : D[i] \in {C[i], None}
  PROVE  Recorded(D)
<1>1. None \notin used /\ \A h \in Holder : reserved[h] # None => reserved[h].key # None
  BY KeysBelow DEF KeyPoolAssumption
<1>. QED
  BY <1>1 DEF Recorded, OneIndex, HeldAtIndex, UsedOff

LEMMA GeneratingFresh ==
  ASSUME KeyPoolAssumption, KeyInv, FreshKeys, NEW n \in Nat, GenerateNewKeys(n)
  PROVE  FreshKeys'
<1>1. nextKey \in Nat /\ nextKey' = nextKey + n
  BY KeysBelow DEF GenerateNewKeys
<1>2. Saved' = Saved \cup nextKey .. nextKey + n - 1
  BY DEF GenerateNewKeys, Saved
<1>3. \A k \in Saved : k \in Nat /\ k < nextKey
  BY DEF FreshKeys, KeyInv, KeyTypeOK, Saved, KeyNo
<1>. QED
  BY <1>1, <1>2, <1>3 DEF FreshKeys

(* What a reservation takes: a key on record, held by nobody and not in    *)
(* use, unless an index was given out again.                               *)
LEMMA ReservingOnce ==
  ASSUME KeyPoolAssumption, KeyInv, OnceInv, NEW i \in Index, NEW k, Reserves(i, k)
  PROVE  /\ FreshKeys' /\ Recorded(ToppedUpDb)
         /\ i \in ToppedUp /\ k = ToppedUpDb[i]
         /\ ~fReindexed' => /\ ~fReindexed
                            /\ \A h \in Holder : reserved[h] # None =>
                                 reserved[h].nIndex \notin ToppedUp /\ reserved[h].key # k
<1>1. Missing \in Nat /\ NextIndex \in Nat \ {0}
  BY ToppingUp DEF KeyInv
<1>2. FreshKeys'
  BY <1>1, GeneratingFresh DEF Reserves, OnceInv
<1>3. Recorded(ToppedUpDb)
  <2>1. \A j \in Index :
          ToppedUpDb[j] = IF j \in NextIndex .. NextIndex + Missing - 1
                          THEN nextKey + (j - NextIndex) ELSE dbPool[j]
    BY DEF ToppedUpDb
  <2>. QED
    BY <1>1, <2>1, FreshRecords DEF OnceInv
<1>4. i \in ToppedUp /\ k = ToppedUpDb[i]
  <2>1. ToppedUp # {} /\ ToppedUp \subseteq Index /\ i = LowestOf(ToppedUp)
    BY DEF Reserves
  <2>. QED
    BY <2>1, Extremes DEF Reserves, KeyPoolAssumption
<1>5. ASSUME ~fReindexed', NEW h \in Holder, reserved[h] # None
      PROVE  reserved[h].nIndex \notin ToppedUp /\ reserved[h].key # k
  <2>1. ~fReindexed /\ ~ReservedIn(NextIndex .. NextIndex + Missing - 1)
    BY <1>5 DEF Reserves, KeyInv, KeyTypeOK
  <2>2. reserved[h].nIndex \notin ToppedUp
    BY <1>5, <2>1 DEF ReservedIn, ToppedUp, OnceInv, HoldersApart
  <2>3. ToppedUpDb[i] = reserved[h].key => i = reserved[h].nIndex
    BY <1>3, <1>5 DEF Recorded, HeldAtIndex
  <2>. QED
    BY <1>4, <2>2, <2>3
<1>6. ~fReindexed' => ~fReindexed
  BY DEF Reserves, KeyInv, KeyTypeOK
<1>. QED
  BY <1>2, <1>3, <1>4, <1>5, <1>6

LEMMA ReserveOnce ==
  ASSUME KeyPoolAssumption, KeyInv, OnceInv, NEW h \in Holder, GetReservedKey(h)
  PROVE  OnceInv'
<1>1. PICK i \in Index, k \in KeyNo \cup {None} :
         /\ Reserves(i, k)
         /\ dbPool' = ToppedUpDb
         /\ IF k = None
            THEN setKeyPool' = ToppedUp /\ UNCHANGED reserved
            ELSE /\ setKeyPool' = ToppedUp \ {i}
                 /\ reserved' = [reserved EXCEPT ![h] = [nIndex |-> i, key |-> k, kept |-> FALSE]]
  BY DEF GetReservedKey
<1>2. reserved[h] = None /\ used' = used /\ pc' = pc /\ pc = "idle"
  BY <1>1 DEF GetReservedKey, Reserves
<1>3. /\ FreshKeys' /\ Recorded(ToppedUpDb)
      /\ i \in ToppedUp /\ k = ToppedUpDb[i]
      /\ ~fReindexed' => /\ ~fReindexed
                         /\ \A o \in Holder : reserved[o] # None =>
                              reserved[o].nIndex \notin ToppedUp /\ reserved[o].key # k
  BY <1>1, ReservingOnce
<1>4. CASE k = None
  <2>1. Recorded(dbPool)'
    BY <1>1, <1>2, <1>3, <1>4 DEF Recorded, OneIndex, HeldAtIndex, UsedOff
  <2>2. ~fReindexed' => HoldersApart'
    BY <1>1, <1>2, <1>3, <1>4 DEF OnceInv, HoldersApart
  <2>. QED
    BY <1>3, <2>1, <2>2 DEF OnceInv
<1>5. CASE k # None
  <2>1. reserved \in [Holder -> Reservation \cup {None}]
    BY DEF KeyInv, KeyTypeOK
  <2>. DEFINE new == [nIndex |-> i, key |-> k, kept |-> FALSE]
  <2>2. /\ reserved'[h] = new
        /\ \A o \in Holder \ {h} : reserved'[o] = reserved[o]
        /\ setKeyPool' = ToppedUp \ {i}
    BY <1>1, <1>5, <2>1
  <2>3. new.nIndex = i /\ new.key = k /\ new.kept = FALSE
    OBVIOUS
  <2>. HIDE DEF new
  <2>4. Recorded(dbPool)'
    <3>1. OneIndex(dbPool)' /\ UsedOff(dbPool)'
      BY <1>1, <1>2, <1>3 DEF Recorded, OneIndex, UsedOff
    <3>2. HeldAtIndex(dbPool)'
      <4>. SUFFICES ASSUME NEW o \in Holder, NEW j \in Index,
                          reserved'[o] # None, ToppedUpDb[j] = reserved'[o].key
                   PROVE  j = reserved'[o].nIndex /\ ~reserved'[o].kept
        BY <1>1 DEF HeldAtIndex
      <4>1. CASE o = h
        BY <1>3, <1>5, <2>2, <2>3, <4>1 DEF Recorded, OneIndex
      <4>2. CASE o # h
        BY <1>3, <2>2, <4>2 DEF Recorded, HeldAtIndex
      <4>. QED
        BY <4>1, <4>2
    <3>. QED
      BY <3>1, <3>2 DEF Recorded
  <2>5. ASSUME ~fReindexed'  PROVE HoldersApart'
    <3>1. /\ HoldersApart
          /\ \A o \in Holder : reserved[o] # None =>
               reserved[o].nIndex \notin ToppedUp /\ reserved[o].key # k
      BY <1>3, <2>5 DEF OnceInv
    <3>2. k \notin used
      BY <1>3 DEF Recorded, UsedOff
    <3>3. ASSUME NEW o \in Holder, reserved'[o] # None
          PROVE  /\ pc' # "erased"
                 /\ reserved'[o].nIndex \notin setKeyPool'
                 /\ reserved'[o].key \notin used'
                 /\ \A q \in Holder \ {o} : reserved'[q] # None =>
                      /\ reserved'[q].nIndex # reserved'[o].nIndex
                      /\ reserved'[q].key # reserved'[o].key
      <4>1. CASE o = h
        BY <1>2, <1>3, <2>2, <2>3, <3>1, <3>2, <4>1
      <4>2. CASE o # h
        BY <1>2, <1>3, <2>2, <2>3, <3>1, <3>3, <4>2 DEF HoldersApart
      <4>. QED
        BY <4>1, <4>2
    <3>. QED
      BY <3>3 DEF HoldersApart
  <2>. QED
    BY <1>3, <2>4, <2>5 DEF OnceInv
<1>. QED
  BY <1>4, <1>5

LEMMA AddressOnce ==
  ASSUME KeyPoolAssumption, KeyInv, OnceInv, GetKeyFromPool
  PROVE  OnceInv'
<1>1. PICK i \in Index, k \in KeyNo :
         /\ Reserves(i, k)
         /\ setKeyPool' = ToppedUp \ {i}
         /\ dbPool' = [ToppedUpDb EXCEPT ![i] = None]
         /\ used' = used \cup {k}
  BY DEF GetKeyFromPool
<1>2. reserved' = reserved /\ pc' = pc /\ k # None
  BY <1>1 DEF GetKeyFromPool, KeyPoolAssumption, KeyNo
<1>3. /\ FreshKeys' /\ Recorded(ToppedUpDb)
      /\ i \in ToppedUp /\ k = ToppedUpDb[i]
      /\ ~fReindexed' => /\ ~fReindexed
                         /\ \A o \in Holder : reserved[o] # None =>
                              reserved[o].nIndex \notin ToppedUp /\ reserved[o].key # k
  BY <1>1, ReservingOnce
<1>4. \A j \in Index : dbPool'[j] = IF j = i THEN None ELSE ToppedUpDb[j]
  BY <1>1 DEF ToppedUpDb
<1>5. Recorded(dbPool')
  <2>1. \A j \in Index : dbPool'[j] \in {ToppedUpDb[j], None}
    BY <1>4
  <2>. QED
    BY <1>3, <2>1, FewerRecords DEF OnceInv
<1>6. Recorded(dbPool)'
  <2>1. \A j \in Index : dbPool'[j] # k
    BY <1>2, <1>3, <1>4 DEF Recorded, OneIndex
  <2>. QED
    BY <1>1, <1>2, <1>5, <2>1 DEF Recorded, OneIndex, HeldAtIndex, UsedOff
<1>7. ~fReindexed' => HoldersApart'
  BY <1>1, <1>2, <1>3 DEF OnceInv, HoldersApart
<1>. QED
  BY <1>3, <1>6, <1>7 DEF OnceInv

(* To keep a key erases its record, and no key leaves for use before. *)
LEMMA HolderOnce ==
  ASSUME KeyPoolAssumption, KeyInv, OnceInv, NEW h \in Holder,
         KeepKey(h) \/ Publish(h) \/ ReturnKey(h) \/ CreateNewBlock(h)
  PROVE  OnceInv'
<1>1. /\ reserved[h] # None /\ reserved[h] \in Reservation
      /\ reserved \in [Holder -> Reservation \cup {None}]
      /\ dbPool \in [Index -> KeyNo \cup {None}]
  BY DEF KeyInv, KeyTypeOK, KeepKey, Publish, ReturnKey, CreateNewBlock
<1>2. FreshKeys' /\ fReindexed' = fReindexed /\ pc' = pc
  BY DEF OnceInv, FreshKeys, Saved, KeepKey, Publish, ReturnKey, CreateNewBlock,
         fileVars, histVars
<1>3. CASE KeepKey(h)
  <2>1. /\ \A i \in Index : dbPool'[i] = IF i = reserved[h].nIndex THEN None ELSE dbPool[i]
        /\ used' = used /\ setKeyPool' = setKeyPool
    BY <1>1, <1>3 DEF KeepKey, histVars
  <2>2. /\ \A o \in Holder \ {h} : reserved'[o] = reserved[o]
        /\ reserved'[h] # None
        /\ reserved'[h].nIndex = reserved[h].nIndex /\ reserved'[h].key = reserved[h].key
    <3>1. reserved'[h] = [reserved[h] EXCEPT !.kept = TRUE]
      BY <1>1, <1>3 DEF KeepKey
    <3>2. reserved'[h] \in Reservation
      BY <1>1, <3>1 DEF Reservation
    <3>3. reserved'[h].nIndex = reserved[h].nIndex /\ reserved'[h].key = reserved[h].key
      BY <1>1, <3>1 DEF Reservation
    <3>4. reserved'[h] # None
      BY <3>2 DEF KeyPoolAssumption
    <3>. QED
      BY <1>1, <1>3, <3>3, <3>4 DEF KeepKey
  <2>3. Recorded(dbPool')
    <3>1. \A i \in Index : dbPool'[i] \in {dbPool[i], None}
      BY <2>1
    <3>. QED
      BY <3>1, FewerRecords DEF OnceInv
  <2>4. \A i \in Index : dbPool'[i] # reserved[h].key
    <3>1. reserved[h].key # None
      BY <1>1, KeysBelow DEF KeyPoolAssumption, OnceInv
    <3>. QED
      BY <1>1, <2>1, <3>1 DEF OnceInv, Recorded, HeldAtIndex
  <2>5. HeldAtIndex(dbPool)'
    BY <2>2, <2>3, <2>4 DEF Recorded, HeldAtIndex
  <2>6. OneIndex(dbPool)' /\ UsedOff(dbPool)'
    BY <2>1, <2>3 DEF Recorded, OneIndex, UsedOff
  <2>7. HoldersApart => HoldersApart'
    BY <1>1, <1>2, <2>1, <2>2 DEF HoldersApart
  <2>. QED
    BY <1>2, <2>5, <2>6, <2>7 DEF OnceInv, Recorded
<1>4. CASE Publish(h)
  <2>1. /\ dbPool' = dbPool /\ setKeyPool' = setKeyPool
        /\ used' = used \cup {reserved[h].key} /\ reserved[h].kept
        /\ reserved'[h] = None /\ \A o \in Holder \ {h} : reserved'[o] = reserved[o]
    BY <1>1, <1>4 DEF Publish, fileVars
  <2>2. Recorded(dbPool)'
    BY <1>1, <2>1 DEF OnceInv, Recorded, OneIndex, HeldAtIndex, UsedOff
  <2>3. HoldersApart => HoldersApart'
    BY <1>1, <1>2, <2>1 DEF HoldersApart
  <2>. QED
    BY <1>2, <2>2, <2>3 DEF OnceInv
<1>5. CASE ReturnKey(h) \/ CreateNewBlock(h)
  <2>1. /\ dbPool' = dbPool /\ used' = used
        /\ setKeyPool' = setKeyPool \cup {reserved[h].nIndex}
        /\ reserved'[h] = None /\ \A o \in Holder \ {h} : reserved'[o] = reserved[o]
    BY <1>1, <1>5 DEF ReturnKey, CreateNewBlock, fileVars, histVars
  <2>2. Recorded(dbPool)'
    BY <2>1 DEF OnceInv, Recorded, OneIndex, HeldAtIndex, UsedOff
  <2>3. HoldersApart => HoldersApart'
    BY <1>1, <1>2, <2>1 DEF HoldersApart
  <2>. QED
    BY <1>2, <2>2, <2>3 DEF OnceInv
<1>. QED
  BY <1>3, <1>4, <1>5

(* NewKeyPool starts from index 1 again, which is safe if nothing is       *)
(* reserved: nothing can be between its erasing and its filling.           *)
LEMMA RenewOnce ==
  ASSUME KeyPoolAssumption, KeyInv, OnceInv, NewKeyPoolErase \/ NewKeyPoolFill
  PROVE  OnceInv'
<1>1. reserved' = reserved /\ used' = used
  BY DEF NewKeyPoolErase, NewKeyPoolFill
<1>2. CASE NewKeyPoolErase
  <2>1. FreshKeys'
    BY <1>2 DEF NewKeyPoolErase, OnceInv, FreshKeys, Saved
  <2>2. Recorded(dbPool')
    <3>1. \A i \in Index : dbPool'[i] \in {dbPool[i], None}
      BY <1>2 DEF NewKeyPoolErase
    <3>. QED
      BY <3>1, FewerRecords DEF OnceInv
  <2>3. ASSUME ~fReindexed'  PROVE HoldersApart'
    <3>1. \A h \in Holder : reserved[h] = None
      BY <1>2, <2>3 DEF NewKeyPoolErase, ReservedIn, KeyInv, KeyTypeOK, Reservation
    <3>. QED
      BY <1>1, <3>1 DEF HoldersApart
  <2>. QED
    BY <1>1, <2>1, <2>2, <2>3 DEF OnceInv, Recorded, OneIndex, HeldAtIndex, UsedOff
<1>3. CASE NewKeyPoolFill
  <2>1. KeyPoolSize \in Nat /\ GenerateNewKeys(KeyPoolSize)
    BY <1>3 DEF NewKeyPoolFill, KeyPoolAssumption
  <2>2. FreshKeys'
    BY <2>1, GeneratingFresh DEF OnceInv
  <2>3. Recorded(dbPool')
    <3>1. \A i \in Index :
            dbPool'[i] = IF i \in 1 .. 1 + KeyPoolSize - 1 THEN nextKey + (i - 1) ELSE dbPool[i]
      BY <1>3, <2>1 DEF NewKeyPoolFill, Index
    <3>. QED
      BY <2>1, <3>1, FreshRecords DEF OnceInv
  <2>4. ~fReindexed' => HoldersApart'
    BY <1>1, <1>3 DEF NewKeyPoolFill, OnceInv, HoldersApart
  <2>. QED
    BY <1>1, <2>2, <2>3, <2>4 DEF OnceInv, Recorded, OneIndex, HeldAtIndex, UsedOff
<1>. QED
  BY <1>2, <1>3

(* The other steps touch neither the pool nor a reservation, or end every  *)
(* reservation there is.                                                   *)
LEMMA OthersOnce ==
  ASSUME KeyInv, OnceInv,
         \/ CheckWork \/ Lock \/ Unlock \/ EncryptKeys \/ EncryptCommit
         \/ CrashAndLoad \/ UNCHANGED keyVars
  PROVE  OnceInv'
<1>1. /\ dbPool' = dbPool /\ used' = used
      /\ nextKey' = nextKey /\ fReindexed' = fReindexed /\ Saved' = Saved
  <2>1. CASE EncryptCommit
    BY <2>1 DEF EncryptCommit, Saved, histVars
  <2>2. CASE CheckWork \/ Lock \/ Unlock \/ EncryptKeys \/ CrashAndLoad \/ UNCHANGED keyVars
    BY <2>2 DEF CheckWork, Lock, Unlock, EncryptKeys, CrashAndLoad, Saved,
                keyVars, fileVars, histVars
  <2>. QED
    BY <2>1, <2>2
<1>2. CASE CrashAndLoad
  <2>1. \A h \in Holder : reserved'[h] = None
    BY <1>2 DEF CrashAndLoad
  <2>. QED
    BY <1>1, <2>1 DEF OnceInv, FreshKeys, Recorded, OneIndex, HeldAtIndex, UsedOff, HoldersApart
<1>3. CASE CheckWork \/ Lock \/ Unlock \/ EncryptKeys \/ EncryptCommit \/ UNCHANGED keyVars
  <2>1. /\ reserved' = reserved /\ setKeyPool' = setKeyPool
        /\ pc' = "erased" => pc = "erased"
    BY <1>3 DEF CheckWork, Lock, Unlock, EncryptKeys, EncryptCommit, keyVars, memVars
  <2>. QED
    BY <1>1, <2>1 DEF OnceInv, FreshKeys, Recorded, OneIndex, HeldAtIndex, UsedOff, HoldersApart
<1>. QED
  BY <1>2, <1>3

(* Whatever happens, no key is on record twice, and none that was given    *)
(* away is on record at all; and unless TopUpKeyPool or NewKeyPool gave an *)
(* index out again, no two reservations share an index or a key.           *)
THEOREM OnceInductive ==
  ASSUME KeyPoolAssumption
  PROVE  KeySpec => []OnceInv
<1>1. KeyInit => OnceInv
  BY DEF KeyInit, OnceInv, FreshKeys, Saved, Recorded, OneIndex, HeldAtIndex, UsedOff,
         HoldersApart
<1>2. KeyInv /\ OnceInv /\ [KeyNext]_keyVars => OnceInv'
  <2>. SUFFICES ASSUME KeyInv, OnceInv, [KeyNext]_keyVars  PROVE OnceInv'
    OBVIOUS
  <2>1. ASSUME NEW h \in Holder, GetReservedKey(h)  PROVE OnceInv'
    BY <2>1, ReserveOnce
  <2>2. ASSUME NEW h \in Holder, KeepKey(h) \/ Publish(h) \/ ReturnKey(h) \/ CreateNewBlock(h)
        PROVE  OnceInv'
    BY <2>2, HolderOnce
  <2>3. CASE GetKeyFromPool
    BY <2>3, AddressOnce
  <2>4. CASE NewKeyPoolErase \/ NewKeyPoolFill
    BY <2>4, RenewOnce
  <2>5. CASE \/ CheckWork \/ Lock \/ Unlock \/ EncryptKeys \/ EncryptCommit
             \/ CrashAndLoad \/ UNCHANGED keyVars
    BY <2>5, OthersOnce
  <2>. QED
    BY <2>1, <2>2, <2>3, <2>4, <2>5 DEF KeyNext
<1>. QED
  BY <1>1, <1>2, KeyTyping, PTL DEF KeySpec

(* "Take key pair from key pool so it won't be used again", says           *)
(* CommitTransaction, and so it is, through crashes, failed sends and the  *)
(* encryption of the wallet, as long as no index was given out again while *)
(* its key was reserved.                                                   *)
THEOREM GivenAwayOnce ==
  ASSUME KeyPoolAssumption
  PROVE  KeySpec => []HandedOutOnce
<1>1. KeyInv /\ OnceInv => HandedOutOnce
  <2>. SUFFICES ASSUME KeyInv, OnceInv, ~fReindexed, NEW k \in KeyNo
               PROVE  /\ Cardinality(HeldBy(k)) <= 1
                      /\ k \in used => HeldBy(k) = {} /\ k \notin {dbPool[i] : i \in setKeyPool}
    BY DEF HandedOutOnce, NotUsedAgain
  <2>1. HoldersApart
    BY DEF OnceInv
  <2>2. Cardinality(HeldBy(k)) <= 1
    <3>1. CASE HeldBy(k) = {}
      BY <3>1, FS_EmptySet
    <3>2. CASE HeldBy(k) # {}
      <4>1. PICK h \in HeldBy(k) : TRUE
        BY <3>2
      <4>2. HeldBy(k) = {h}
        BY <2>1, <4>1 DEF HeldBy, HoldersApart
      <4>. QED
        BY <4>2, FS_Singleton
    <3>. QED
      BY <3>1, <3>2
  <2>3. k \in used => HeldBy(k) = {}
    BY <2>1 DEF HeldBy, HoldersApart
  <2>4. k \in used => k \notin {dbPool[i] : i \in setKeyPool}
    BY DEF KeyInv, KeyTypeOK, OnceInv, Recorded, UsedOff
  <2>. QED
    BY <2>2, <2>3, <2>4
<1>. QED
  BY <1>1, KeyTyping, OnceInductive, PTL
============================================================================
