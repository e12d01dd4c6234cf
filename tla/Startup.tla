------------------------------ MODULE Startup ------------------------------
(***************************************************************************)
(* How the node comes up: CTxDB::CTxDB, CTxDB::LoadBlockIndex and          *)
(* LoadBlockIndex of main.cpp as AppInit2 calls them, over the objects of  *)
(* TxDB, with a crash or a SIGTERM at any point.                           *)
(*                                                                         *)
(* One key stands for all "blockindex" records.  What the records of a     *)
(* long chain hold is the subject of Chain and Intake; here they are the   *)
(* genesis block or a later tip.                                           *)
(***************************************************************************)
EXTENDS TxDB

CONSTANTS
  boot,        \* the CTxDB of LoadBlockIndex of main.cpp
  call,        \* the CTxDB of AddToBlockIndex or WriteSyncCheckpoint
  MasterKey    \* the keys that builds of the node have for strMasterPubKey

StartKey == {"version", "blockindex", "hashBestChain", "hashSyncCheckpoint",
             "strCheckpointPubKey"}
StartValue == {"old", "current", "genesis", "tip"} \cup MasterKey

(* What is assumed of the constants. *)
StartAssumption ==
  /\ StartKey = Key /\ StartValue \subseteq Value
  /\ {boot, call} \subseteq Handle \ ReadOnly /\ boot # call

VARIABLES
  pc,                \* where AppInit2 is
  n,                 \* how far the transaction of that place is
  fRequestShutdown,
  strMasterPubKey,   \* of the build that is running
  fLoaded,           \* pindexBest, hashSyncCheckpoint are set
  fWasUp             \* a start has completed since the database was created

startVars == <<pc, n, fRequestShutdown, strMasterPubKey, fLoaded, fWasUp>>
bootVars == <<dbVars, startVars>>

PC == {"down", "open", "wiped", "load", "loading", "fresh", "best", "sync",
       "key", "newkey", "reset", "loaded", "up", "failed"}

StartTypeOK ==
  /\ DBTypeOK
  /\ pc \in PC /\ n \in 0 .. 2
  /\ fRequestShutdown \in BOOLEAN /\ fLoaded \in BOOLEAN /\ fWasUp \in BOOLEAN
  /\ strMasterPubKey \in MasterKey

Empty == [k \in Key |-> NULL]

(* The database of a node that ran an older version, up to some key. *)
OldDisk(key) ==
  [k \in Key |-> CASE k = "version" -> "old"
                   [] k = "hashBestChain" -> "tip"
                   [] k = "strCheckpointPubKey" -> key
                   [] OTHER -> "genesis"]

StartInit ==
  /\ DBInit
  /\ disk \in {Empty} \cup {OldDisk(key) : key \in MasterKey}
  /\ fWasUp = (disk # Empty)
  /\ pc = "down" /\ n = 0
  /\ fRequestShutdown = FALSE /\ fLoaded = FALSE
  /\ strMasterPubKey \in MasterKey

Goto(to) == pc' = to /\ n' = 0
Keep == UNCHANGED <<fRequestShutdown, strMasterPubKey, fLoaded, fWasUp>>

(* TxnBegin, Write, TxnCommit of one record. *)
Transaction(h, k, v, to) ==
  /\ \/ n = 0 /\ TxnBegin(h) /\ n' = 1 /\ pc' = pc
     \/ n = 1 /\ Put(h, k, v) /\ n' = 2 /\ pc' = pc
     \/ n = 2 /\ TxnCommit(h) /\ Goto(to)
  /\ Keep

---------------------------------------------------------------------------
(* A process starts: a new build may have another master key. *)
Start ==
  /\ pc = "down"
  /\ Goto("open")
  /\ strMasterPubKey' \in MasterKey
  /\ UNCHANGED <<dbVars, fRequestShutdown, fLoaded, fWasUp>>

(* CTxDB("cr+"): the database of an older version is removed. *)
Open ==
  /\ pc = "open"
  /\ CASE disk["version"] = NULL ->
            Put(boot, "version", "current") /\ Goto("load") /\ UNCHANGED fWasUp
       [] disk["version"] = "old" ->
            disk' = Empty /\ fWasUp' = FALSE /\ Goto("wiped") /\ UNCHANGED activeBatch
       [] OTHER ->
            Goto("load") /\ UNCHANGED <<dbVars, fWasUp>>
  /\ UNCHANGED <<fRequestShutdown, strMasterPubKey, fLoaded>>

WriteVersion ==
  /\ pc = "wiped"
  /\ Put(boot, "version", "current") /\ Goto("load")
  /\ Keep

(* CTxDB::LoadBlockIndex enters its loop: with a shutdown requested, or    *)
(* without a record, mapBlockIndex stays empty.                            *)
EnterLoop ==
  /\ pc = "load"
  /\ CASE fRequestShutdown \/ (disk["blockindex"] = NULL /\ disk["hashBestChain"] = NULL) ->
            Goto("fresh")
       [] ~fRequestShutdown /\ disk["blockindex"] = NULL /\ disk["hashBestChain"] # NULL ->
            Goto("failed")
       [] OTHER -> Goto("loading")
  /\ UNCHANGED dbVars /\ Keep

(* The rest of it: a shutdown requested in the middle of the loop returns  *)
(* true with what is loaded so far; otherwise both hashes have to be there. *)
FinishLoad ==
  /\ pc = "loading"
  /\ CASE fRequestShutdown -> Goto("key") /\ UNCHANGED fLoaded
       [] ~fRequestShutdown /\ NULL \in {Read(boot, "hashBestChain"), Read(boot, "hashSyncCheckpoint")} ->
            Goto("failed") /\ UNCHANGED fLoaded
       [] OTHER -> Goto("key") /\ fLoaded' = TRUE
  /\ UNCHANGED <<dbVars, fRequestShutdown, strMasterPubKey, fWasUp>>

(* mapBlockIndex is empty: the genesis block is added to the index ...     *)
AddGenesis == pc = "fresh" /\ Transaction(call, "blockindex", "genesis", "best")
(* ... and, pindexGenesisBlock being null, made the best block, ...        *)
GenesisIsBest == pc = "best" /\ Transaction(call, "hashBestChain", "genesis", "sync")
(* ... and the sync-checkpoint.                                            *)
InitSyncCheckpoint ==
  /\ pc = "sync"
  /\ \/ n = 0 /\ TxnBegin(call) /\ n' = 1 /\ pc' = pc /\ UNCHANGED fLoaded
     \/ /\ n = 1 /\ Put(call, "hashSyncCheckpoint", "genesis") /\ n' = 2 /\ pc' = pc
        /\ UNCHANGED fLoaded
     \/ n = 2 /\ TxnCommit(call) /\ Goto("key") /\ fLoaded' = TRUE
  /\ UNCHANGED <<fRequestShutdown, strMasterPubKey, fWasUp>>

CompareKey ==
  /\ pc = "key"
  /\ IF Read(boot, "strCheckpointPubKey") = strMasterPubKey THEN Goto("loaded") ELSE Goto("newkey")
  /\ UNCHANGED dbVars /\ Keep
WriteKey ==
  pc = "newkey" /\ Transaction(boot, "strCheckpointPubKey", strMasterPubKey, "reset")

(* ResetSyncCheckpoint goes back to a hardened checkpoint. *)
ResetSync == pc = "reset" /\ Transaction(call, "hashSyncCheckpoint", "genesis", "loaded")

(* Mutant: the request is not looked at again. *)
GoUpAnyway ==
  /\ pc = "loaded"
  /\ Goto("up") /\ fWasUp' = TRUE /\ UNCHANGED fLoaded
  /\ UNCHANGED <<dbVars, fRequestShutdown, strMasterPubKey>>

(* Back in AppInit2. *)
GoUp ==
  /\ pc = "loaded"
  /\ IF fRequestShutdown
     THEN Goto("down") /\ fRequestShutdown' = FALSE /\ fLoaded' = FALSE /\ UNCHANGED fWasUp
     ELSE Goto("up") /\ fWasUp' = TRUE /\ UNCHANGED <<fRequestShutdown, fLoaded>>
  /\ UNCHANGED <<dbVars, strMasterPubKey>>

(* The node connects a block. *)
Advance == pc = "up" /\ Transaction(call, "hashBestChain", "tip", "up")

(* HandleSIGTERM: the handler is installed before the database is opened.  *)
Signal ==
  /\ pc \notin {"down", "up", "failed"} /\ ~fRequestShutdown
  /\ fRequestShutdown' = TRUE
  /\ UNCHANGED <<dbVars, pc, n, strMasterPubKey, fLoaded, fWasUp>>

(* A crash, an orderly stop, or the exit after an error: LevelDB refuses a *)
(* batch, or ResetSyncCheckpoint finds no checkpoint in what a signal let  *)
(* LoadBlockIndex load.                                                    *)
Stop ==
  /\ pc # "down"
  /\ DBCrash
  /\ Goto("down") /\ fRequestShutdown' = FALSE /\ fLoaded' = FALSE
  /\ UNCHANGED <<strMasterPubKey, fWasUp>>

Step == \/ Open \/ WriteVersion \/ EnterLoop \/ FinishLoad
        \/ AddGenesis \/ GenesisIsBest \/ InitSyncCheckpoint
        \/ CompareKey \/ WriteKey \/ ResetSync \/ GoUp

StartNext == Start \/ Step \/ Advance \/ Signal \/ Stop

(* AppInit2 runs until it returns. *)
StartSpec == StartInit /\ [][StartNext]_bootVars /\ WF_bootVars(Step)

---------------------------------------------------------------------------
(* Properties *)

(* The node is up only with its best block and its sync-checkpoint in      *)
(* memory and on disk, and with the key of the build that runs: whatever   *)
(* earlier starts were cut short by a crash or a signal, and although a    *)
(* load that is cut short reports success.                                 *)
UpIsComplete ==
  pc = "up" => /\ fLoaded
               /\ NULL \notin {disk["hashBestChain"], disk["hashSyncCheckpoint"], disk["blockindex"]}
               /\ disk["strCheckpointPubKey"] = strMasterPubKey

(* Only the first start of a database can be spoiled: once a start has     *)
(* completed, no crash, signal or change of key makes LoadBlockIndex fail. *)
OnceUpAlwaysUp == fWasUp => pc # "failed"

(* Both together: what a start leaves is complete, and stays so. *)
StartsSound == UpIsComplete /\ OnceUpAlwaysUp

(* Every start ends: up, refused, or down again. *)
StartEnds == (pc = "open") ~> (pc \in {"up", "failed", "down"})

(* "Clean shutdown on SIGTERM" (AppInit2): while the database stays, the   *)
(* best chain it names is not forgotten.                                   *)
CleanShutdown ==
  [][disk["hashBestChain"] = "tip" /\ disk'["hashBestChain"] = "genesis" => FALSE]_bootVars
============================================================================
