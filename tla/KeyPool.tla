------------------------------ MODULE KeyPool ------------------------------
(***************************************************************************)
(* The wallet's keys: the key store (keystore.cpp), the key pool and its   *)
(* reservations (wallet.cpp: CWallet::TopUpKeyPool to GetKeyFromPool,      *)
(* CReserveKey) and CWallet::EncryptWallet, over wallet.dat, with crashes. *)
(*                                                                         *)
(* A key is the number of its generation.  cs_wallet makes every operation *)
(* atomic but two: CReserveKey::KeepKey takes no lock, and EncryptWallet   *)
(* is in steps because a crash may come between them.                      *)
(***************************************************************************)
EXTENDS Naturals, FiniteSets

CONSTANTS
  None,
  Holder,       \* the CReserveKey objects: one for each send, and the miner's
  KeyPoolSize,  \* -keypool
  MaxKeys,      \* bound on generated keys
  MaxCrashes    \* bound on restarts

KeyNo == 1 .. MaxKeys
Index == 1 .. MaxKeys
Reservation == [nIndex : Index, key : KeyNo, kept : BOOLEAN]

(* What is assumed of the constants. *)
KeyPoolAssumption ==
  /\ KeyPoolSize \in Nat \ {0} /\ MaxKeys \in Nat /\ MaxCrashes \in Nat
  /\ None \notin Nat \cup Reservation

VARIABLES
  (* memory *)
  setKeyPool,   \* the indices of the pool
  reserved,     \* for each holder None, or the reservation it holds
  template,     \* the key of the block being mined, None if there is none
  fUseCrypto,   \* the key store is encrypted
  fUnlocked,    \* it has vMasterKey
  pc,           \* EncryptWallet: "idle", "txn", "committed", "erased"
  (* wallet.dat *)
  dbPool,       \* the "pool" records: a key for each index, None if none
  dbKey,        \* the "key" records
  dbCKey,       \* the "ckey" records
  dbMaster,     \* there is an "mkey" record
  (* history *)
  nextKey,      \* the next key to be generated
  used,         \* keys given away with a transaction or as an address
  mined,        \* keys given away with a mined block
  fReindexed,   \* indices were given out again while a key was reserved
  crashes

fileVars == <<dbPool, dbKey, dbCKey, dbMaster>>
memVars  == <<setKeyPool, reserved, template, fUseCrypto, fUnlocked>>
histVars == <<nextKey, used, mined, fReindexed, crashes>>
keyVars  == <<memVars, pc, fileVars, histVars>>

KeyTypeOK ==
  /\ setKeyPool \subseteq Index
  /\ reserved \in [Holder -> Reservation \cup {None}]
  /\ template \in KeyNo \cup {None}
  /\ {fUseCrypto, fUnlocked, dbMaster, fReindexed} \subseteq BOOLEAN
  /\ fUnlocked => fUseCrypto
  /\ pc \in {"idle", "txn", "committed", "erased"}
  /\ dbPool \in [Index -> KeyNo \cup {None}]
  /\ dbKey \subseteq KeyNo /\ dbCKey \subseteq KeyNo
  /\ nextKey \in 1 .. MaxKeys + 1
  /\ used \subseteq KeyNo /\ mined \subseteq KeyNo
  /\ crashes \in 0 .. MaxCrashes

KeyInit ==
  /\ setKeyPool = {} /\ reserved = [h \in Holder |-> None] /\ template = None
  /\ fUseCrypto = FALSE /\ fUnlocked = FALSE /\ pc = "idle"
  /\ dbPool = [i \in Index |-> None] /\ dbKey = {} /\ dbCKey = {} /\ dbMaster = FALSE
  /\ nextKey = 1 /\ used = {} /\ mined = {} /\ fReindexed = FALSE /\ crashes = 0

---------------------------------------------------------------------------
IsLocked == fUseCrypto /\ ~fUnlocked
ReservedIn(I) == \E h \in Holder : reserved[h] # None /\ reserved[h].nIndex \in I
HighestOf(S) == CHOOSE i \in S : \A j \in S : j <= i
LowestOf(S) == CHOOSE i \in S : \A j \in S : i <= j

(* GenerateNewKey, n times: the key records are written first. *)
GenerateNewKeys(n) ==
  LET new == nextKey .. nextKey + n - 1 IN
  /\ nextKey + n <= MaxKeys + 1
  /\ nextKey' = nextKey + n
  /\ IF fUseCrypto THEN dbCKey' = dbCKey \cup new /\ UNCHANGED dbKey
                   ELSE dbKey' = dbKey \cup new /\ UNCHANGED dbCKey

(* nEnd of TopUpKeyPool. *)
NextIndex == IF setKeyPool = {} THEN 1 ELSE HighestOf(setKeyPool) + 1

(* How many keys TopUpKeyPool adds, and the pool once it has. *)
Missing == IF IsLocked \/ Cardinality(setKeyPool) > KeyPoolSize THEN 0
           ELSE KeyPoolSize + 1 - Cardinality(setKeyPool)
ToppedUp == setKeyPool \cup NextIndex .. NextIndex + Missing - 1
ToppedUpDb ==
  [i \in Index |-> IF i \in NextIndex .. NextIndex + Missing - 1
                   THEN nextKey + (i - NextIndex) ELSE dbPool[i]]

(* ReserveKeyFromKeyPool with the lowest index i and its record k. *)
Reserves(i, k) ==
  /\ pc = "idle"
  /\ GenerateNewKeys(Missing)
  /\ ToppedUp # {} /\ ToppedUp \subseteq Index
  /\ i = LowestOf(ToppedUp) /\ k = ToppedUpDb[i]
  /\ fReindexed' = (fReindexed \/ ReservedIn(NextIndex .. NextIndex + Missing - 1))

(* CReserveKey::GetReservedKey.  A missing record throws, and the          *)
(* destructor of the CReserveKey puts the index back.                      *)
GetReservedKey(h) ==
  /\ reserved[h] = None
  /\ \E i \in Index, k \in KeyNo \cup {None} :
       /\ Reserves(i, k)
       /\ dbPool' = ToppedUpDb
       /\ IF k = None
          THEN setKeyPool' = ToppedUp /\ UNCHANGED reserved
          ELSE /\ setKeyPool' = ToppedUp \ {i}
               /\ reserved' = [reserved EXCEPT ![h] = [nIndex |-> i, key |-> k, kept |-> FALSE]]
  /\ UNCHANGED <<template, fUseCrypto, fUnlocked, pc, dbMaster, used, mined, crashes>>

(* GetKeyFromPool for a new address: reserved and kept at once. *)
GetKeyFromPool ==
  /\ \E i \in Index, k \in KeyNo :
       /\ Reserves(i, k)
       /\ setKeyPool' = ToppedUp \ {i}
       /\ dbPool' = [ToppedUpDb EXCEPT ![i] = None]
       /\ used' = used \cup {k}
  /\ UNCHANGED <<reserved, template, fUseCrypto, fUnlocked, pc, dbMaster, mined, crashes>>

(* CReserveKey::KeepKey, the first thing CommitTransaction does.  No lock. *)
KeepKey(h) ==
  /\ reserved[h] # None /\ ~reserved[h].kept
  /\ dbPool' = [dbPool EXCEPT ![reserved[h].nIndex] = None]
  /\ reserved' = [reserved EXCEPT ![h].kept = TRUE]
  /\ UNCHANGED <<setKeyPool, template, fUseCrypto, fUnlocked, pc, dbKey, dbCKey, dbMaster, histVars>>

(* Mutant: the transaction goes out before the key is kept. *)
PublishFirst(h) ==
  /\ reserved[h] # None
  /\ used' = used \cup {reserved[h].key}
  /\ UNCHANGED <<memVars, pc, fileVars, nextKey, mined, fReindexed, crashes>>

(* The transaction with the change to this key is recorded and relayed. *)
Publish(h) ==
  /\ reserved[h] # None /\ reserved[h].kept
  /\ used' = used \cup {reserved[h].key}
  /\ reserved' = [reserved EXCEPT ![h] = None]
  /\ UNCHANGED <<setKeyPool, template, fUseCrypto, fUnlocked, pc, fileVars>>
  /\ UNCHANGED <<nextKey, mined, fReindexed, crashes>>

(* CReserveKey::ReturnKey: the transaction was not made after all. *)
ReturnKey(h) ==
  /\ pc = "idle"
  /\ reserved[h] # None /\ ~reserved[h].kept
  /\ setKeyPool' = setKeyPool \cup {reserved[h].nIndex}
  /\ reserved' = [reserved EXCEPT ![h] = None]
  /\ UNCHANGED <<template, fUseCrypto, fUnlocked, pc, fileVars, histVars>>

(* CreateNewBlock pays to a key it reserves itself, and its CReserveKey    *)
(* returns the key when it goes out of scope.                              *)
CreateNewBlock(h) ==
  /\ pc = "idle"
  /\ reserved[h] # None /\ ~reserved[h].kept
  /\ template = None /\ template' = reserved[h].key
  /\ setKeyPool' = setKeyPool \cup {reserved[h].nIndex}
  /\ reserved' = [reserved EXCEPT ![h] = None]
  /\ UNCHANGED <<fUseCrypto, fUnlocked, pc, fileVars, histVars>>

(* CheckWork keeps the key of another CReserveKey, which has none. *)
CheckWork ==
  /\ template # None
  /\ mined' = mined \cup {template} /\ template' = None
  /\ UNCHANGED <<setKeyPool, reserved, fUseCrypto, fUnlocked, pc, fileVars>>
  /\ UNCHANGED <<nextKey, used, fReindexed, crashes>>

---------------------------------------------------------------------------
Lock ==
  /\ pc = "idle" /\ fUnlocked /\ fUnlocked' = FALSE
  /\ UNCHANGED <<setKeyPool, reserved, template, fUseCrypto, pc, fileVars, histVars>>

Unlock ==
  /\ pc = "idle" /\ IsLocked /\ fUnlocked' = TRUE
  /\ UNCHANGED <<setKeyPool, reserved, template, fUseCrypto, pc, fileVars, histVars>>

(* Mutant: the keys are encrypted in the file one by one, outside of a     *)
(* transaction, and the master key is written last.                        *)
EncryptUnsafely ==
  /\ pc = "idle" /\ ~fUseCrypto
  /\ fUseCrypto' = TRUE /\ fUnlocked' = FALSE
  /\ dbCKey' = dbKey /\ dbKey' = {}
  /\ pc' = "txn"
  /\ UNCHANGED <<setKeyPool, reserved, template, dbPool, dbMaster, histVars>>

(* EncryptWallet up to the commit: memory is encrypted, wallet.dat is not. *)
EncryptKeys ==
  /\ pc = "idle" /\ ~fUseCrypto
  /\ fUseCrypto' = TRUE /\ fUnlocked' = FALSE
  /\ pc' = "txn"
  /\ UNCHANGED <<setKeyPool, reserved, template, fileVars, histVars>>

EncryptCommit ==
  /\ pc = "txn"
  /\ dbMaster' = TRUE /\ dbCKey' = dbCKey \cup dbKey /\ dbKey' = {}
  /\ pc' = "committed"
  /\ UNCHANGED <<memVars, dbPool, histVars>>

(* NewKeyPool, between Unlock and Lock: the old records go, then the       *)
(* indices start from 1 again.                                             *)
NewKeyPoolErase ==
  /\ pc = "committed"
  /\ dbPool' = [i \in Index |-> IF i \in setKeyPool THEN None ELSE dbPool[i]]
  /\ setKeyPool' = {} /\ fUnlocked' = TRUE
  /\ pc' = "erased"
  /\ fReindexed' = (fReindexed \/ ReservedIn(Index))
  /\ UNCHANGED <<reserved, template, fUseCrypto, dbKey, dbCKey, dbMaster, nextKey, used, mined, crashes>>

NewKeyPoolFill ==
  /\ pc = "erased"
  /\ GenerateNewKeys(KeyPoolSize)
  /\ dbPool' = [i \in Index |-> IF i <= KeyPoolSize THEN nextKey + (i - 1) ELSE dbPool[i]]
  /\ setKeyPool' = 1 .. KeyPoolSize /\ fUnlocked' = FALSE
  /\ pc' = "idle"
  /\ UNCHANGED <<reserved, template, fUseCrypto, dbMaster, used, mined, fReindexed, crashes>>

(* A crash, and LoadWallet: an index is in the pool if it has a record. *)
CrashAndLoad ==
  /\ crashes < MaxCrashes /\ crashes' = crashes + 1
  /\ setKeyPool' = {i \in Index : dbPool[i] # None}
  /\ reserved' = [h \in Holder |-> None] /\ template' = None
  /\ fUseCrypto' = (dbMaster \/ dbCKey # {}) /\ fUnlocked' = FALSE
  /\ pc' = "idle"
  /\ UNCHANGED <<fileVars, nextKey, used, mined, fReindexed>>

KeyNext ==
  \/ \E h \in Holder : GetReservedKey(h) \/ KeepKey(h) \/ Publish(h)
                         \/ ReturnKey(h) \/ CreateNewBlock(h)
  \/ GetKeyFromPool \/ CheckWork
  \/ Lock \/ Unlock
  \/ EncryptKeys \/ EncryptCommit \/ NewKeyPoolErase \/ NewKeyPoolFill
  \/ CrashAndLoad

KeySpec == KeyInit /\ [][KeyNext]_keyVars

---------------------------------------------------------------------------
(* Properties *)

HeldBy(k) == {h \in Holder : reserved[h] # None /\ reserved[h].key = k}

(* "Take key pair from key pool so it won't be used again", says           *)
(* CommitTransaction: no key is reserved twice at a time, and none that    *)
(* has been given away is reserved or in the pool again.                   *)
NotUsedAgain ==
  \A k \in KeyNo :
    /\ Cardinality(HeldBy(k)) <= 1
    /\ k \in used => HeldBy(k) = {} /\ k \notin {dbPool[i] : i \in setKeyPool}

(* That holds as long as indices are not given out again while a key is    *)
(* reserved, whatever crashes come between a reservation and its use.      *)
HandedOutOnce == ~fReindexed => NotUsedAgain

(* "Remove key from key pool", says CheckWork of the key of a mined block. *)
MinedKeyRemoved ==
  \A k \in mined : HeldBy(k) = {} /\ k \notin {dbPool[i] : i \in setKeyPool}

(* No key that may be in use is ever lost, not even by a crash half-way    *)
(* through the encryption: it is in the file, and the file either has no   *)
(* encrypted key or the master key that opens them all.                    *)
KeysSurvive ==
  /\ (used \cup mined \cup {dbPool[i] : i \in Index}) \ {None} \subseteq dbKey \cup dbCKey
  /\ dbCKey # {} => dbMaster /\ dbKey = {}
============================================================================
