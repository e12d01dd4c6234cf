------------------------------- MODULE Intake -------------------------------
(***************************************************************************)
(* How blocks and checkpoints reach the chain: ProcessBlock of main.cpp    *)
(* with its orphan blocks and its limit on repeated proofs of stake, the   *)
(* tests of AcceptBlock, CheckProofOfStake of kernel.cpp, and the          *)
(* synchronized checkpoints of Checkpoints.tla.  Everything here holds     *)
(* cs_main.                                                                *)
(*                                                                         *)
(* A block is one that passes CheckBlock.  The time rules that ended with  *)
(* the forks of 2018 (nTimeV221) are left out.                             *)
(***************************************************************************)
EXTENDS Checkpoints

CONSTANTS
  Kernel,      \* Kernel[b]: vtx[1].vin[0].prevout of a proof-of-stake block
  Modifier,    \* Modifier[b]: the block whose stake modifier the kernel of b
               \* was hashed with
  BadAccept,   \* blocks that fail a test of AcceptBlock for good: version,
               \* target, timestamps, finality, signature, coinbase height
  TooLittle,   \* TooLittle[b]: the checkpoints that b has too little proof for
  TimeV231,    \* nTimeV231: end of proof of work
  Announced,   \* what the holder of the master key signs
  fMaster      \* this node has the master key

ASSUME IntakeAssumption ==
  /\ Kernel \in [Block -> (Tx \X Nat) \cup {NULL}]
  /\ Kernel[Genesis] = NULL
  /\ \A b \in Block : Kernel[b] # NULL => Kernel[b] \in Vin[Vtx[b][2]]
  /\ Modifier \in [Block -> Block]
  /\ BadAccept \subseteq Block
  /\ TooLittle \in [Block -> SUBSET Block]
  /\ TimeV231 \in Nat
  /\ Announced \subseteq Block
  /\ fMaster \in BOOLEAN

VARIABLES
  mapOrphanBlocks,
  mapOrphanBlocksByPrev,  \* for each hash, the orphans on it as they came
  setStakeSeen,
  setStakeSeenOrphan,
  task,        \* what called SetBestChain, or is to be done when it returns
  cand,        \* the block it was called for
  vWorkQueue,  \* ProcessBlock: accepted, orphans not yet tried
  vTry,        \* ProcessBlock: orphans of the first of them not yet tried
  fNewKey,     \* the master key compiled in has changed
  resetDue     \* history: it has, and the checkpoint has not been reset

orphanVars == <<mapOrphanBlocks, mapOrphanBlocksByPrev, setStakeSeenOrphan>>
loopVars   == <<vWorkQueue, vTry>>
keyVars    == <<fNewKey, resetDue>>
intakeVars == <<orphanVars, setStakeSeen, task, cand, loopVars, keyVars>>
allVars    == <<vars, checkpointVars, intakeVars>>

Proofs == {<<Kernel[b], Time[b]>> : b \in Block}

IntakeTypeOK ==
  /\ CheckpointTypeOK
  /\ mapOrphanBlocks \subseteq Block
  /\ mapOrphanBlocksByPrev \in [Block -> Seq(Block)]
  /\ setStakeSeen \subseteq Proofs /\ setStakeSeenOrphan \subseteq Proofs
  /\ task \in {"none", "accept", "pending", "accepted", "loop", "send", "message", "reset", "resetting", "down"}
  /\ cand \in Block
  /\ vWorkQueue \in Seq(Block) /\ vTry \in Seq(Block)
  /\ fNewKey \in BOOLEAN /\ resetDue \in BOOLEAN

IntakeInit ==
  /\ Init /\ CheckpointInit
  /\ mapOrphanBlocks = {} /\ mapOrphanBlocksByPrev = [b \in Block |-> <<>>]
  /\ setStakeSeen = {} /\ setStakeSeenOrphan = {}
  /\ task = "none" /\ cand = Genesis
  /\ vWorkQueue = <<>> /\ vTry = <<>>
  /\ fNewKey = FALSE /\ resetDue = FALSE

---------------------------------------------------------------------------
IsProofOfStake(b) == Kernel[b] # NULL
GetProofOfStake(b) == <<Kernel[b], Time[b]>>

(* The block at the bottom of a chain of orphans waits for this one. *)
RootOf(b) ==
  CHOOSE r \in Chain[b] : /\ r \notin mapOrphanBlocks
                          /\ \A a \in Chain[b] : Height[r] < Height[a] => a \in mapOrphanBlocks
WantedByOrphan(b) == RootOf(b)

WantedByPendingSyncCheckpoint(b) ==
  /\ hashPendingCheckpoint # NULL
  /\ \/ b = hashPendingCheckpoint
     \/ /\ hashPendingCheckpoint \in mapOrphanBlocks
        /\ b = WantedByOrphan(hashPendingCheckpoint)

(* A proof of stake may be repeated for the sake of an orphan. *)
MayRepeatStake(b) == mapOrphanBlocksByPrev[b] # <<>> \/ WantedByPendingSyncCheckpoint(b)

(* The tests of ProcessBlock before it looks for the previous block. *)
PassesProcessBlock(b) ==
  /\ b \notin mapBlockIndex \cup mapOrphanBlocks
  /\ ~(Time[pindexBest] > TimeV231 /\ ~IsProofOfStake(b))
  /\ IsProofOfStake(b) /\ GetProofOfStake(b) \in setStakeSeen => MayRepeatStake(b)
  /\ \/ Prev[b] = pindexBest
     \/ WantedByPendingSyncCheckpoint(b)
     \/ hashSyncCheckpoint \notin TooLittle[b]

(* CheckProofOfStake: the kernel must be in the main chain, and so must    *)
(* the block that the walk along pnext takes the stake modifier from.      *)
CheckProofOfStake(b) ==
  LET index == dbTx[Kernel[b][1]] IN
  /\ index # NULL
  /\ index.pos \in Chain[Modifier[b]]
  /\ IsInMainChain(Modifier[b])

(* The tests of AcceptBlock. *)
PassesAcceptBlock(b) ==
  /\ b \notin BadAccept
  /\ b \notin mapBlockIndex
  /\ CheckHardened(b)
  /\ IsProofOfStake(b) => CheckProofOfStake(b)
  /\ CheckpointsMode = "STRICT" => CheckSync(b)

(* AcceptBlock up to the point where AddToBlockIndex returns. *)
BeginAccept(b) ==
  /\ PassesAcceptBlock(b)
  /\ AcceptBlock(b)
  /\ setStakeSeen' = setStakeSeen \cup IF IsProofOfStake(b) THEN {GetProofOfStake(b)} ELSE {}
  /\ task' = "accept" /\ cand' = b

---------------------------------------------------------------------------
Ready == pc = "idle" /\ task = "none"

ProcessBlock(b) ==
  /\ Ready
  /\ PassesProcessBlock(b)
  /\ Prev[b] \in mapBlockIndex
  /\ BeginAccept(b)
  /\ UNCHANGED <<checkpointVars, orphanVars, loopVars, keyVars>>

ProcessOrphanBlock(b) ==
  /\ Ready
  /\ PassesProcessBlock(b)
  /\ Prev[b] \notin mapBlockIndex
  /\ IsProofOfStake(b) /\ GetProofOfStake(b) \in setStakeSeenOrphan => MayRepeatStake(b)
  /\ setStakeSeenOrphan' =
       setStakeSeenOrphan \cup IF IsProofOfStake(b) THEN {GetProofOfStake(b)} ELSE {}
  /\ mapOrphanBlocks' = mapOrphanBlocks \cup {b}
  /\ mapOrphanBlocksByPrev' = [mapOrphanBlocksByPrev EXCEPT ![Prev[b]] = Append(@, b)]
  /\ UNCHANGED <<vars, checkpointVars, setStakeSeen, task, cand, loopVars, keyVars>>

(* Mutant: its proof of stake stays. *)
DropKeepsStake(o) ==
  /\ mapOrphanBlocks' = mapOrphanBlocks \ {o}
  /\ vTry' = Tail(vTry)
  /\ UNCHANGED <<mapOrphanBlocksByPrev, setStakeSeenOrphan, vWorkQueue>>

(* The orphan leaves the maps, except the one it was found through. *)
DropOrphan(o) ==
  /\ mapOrphanBlocks' = mapOrphanBlocks \ {o}
  /\ setStakeSeenOrphan' = setStakeSeenOrphan \ {GetProofOfStake(o)}
  /\ vTry' = Tail(vTry)
  /\ UNCHANGED <<mapOrphanBlocksByPrev, vWorkQueue>>

(* SetBestChain for the accepted block has returned false, and so does     *)
(* AcceptBlock: ProcessBlock gives up, or goes on to the next orphan.      *)
AcceptFailed == nChainTrust[cand] > nChainTrust[pindexBest]

AcceptFails ==
  /\ pc = "idle" /\ task = "accept" /\ AcceptFailed
  /\ cand' = Genesis
  /\ \/ /\ vWorkQueue # <<>>
        /\ DropOrphan(cand)
        /\ task' = "loop"
     \/ /\ vWorkQueue = <<>>
        /\ task' = "none"
        /\ UNCHANGED <<orphanVars, loopVars>>
  /\ UNCHANGED <<vars, checkpointVars, setStakeSeen, keyVars>>

(* Mutant: a pending checkpoint is taken only if it is the new best block. *)
AcceptedIfBest ==
  LET p == hashPendingCheckpoint IN
  /\ pc = "idle" /\ task = "accept" /\ ~AcceptFailed
  /\ \/ p # pindexBest /\ UNCHANGED checkpointVars
     \/ p = pindexBest /\ TakeSyncCheckpoint(p, checkpointMessagePending)
  /\ task' = "accepted"
  /\ UNCHANGED <<vars, orphanVars, setStakeSeen, cand, loopVars, keyVars>>

(* The end of AcceptBlock: AcceptPendingSyncCheckpoint. *)
Accepted ==
  /\ pc = "idle" /\ task = "accept" /\ ~AcceptFailed
  /\ LET p == hashPendingCheckpoint IN
     \/ /\ p \notin mapBlockIndex
        /\ task' = "accepted"
        /\ UNCHANGED <<vars, checkpointVars>>
     \/ /\ p \in mapBlockIndex /\ ~ValidateSyncCheckpoint(p)
        /\ DropPending
        /\ task' = "accepted"
        /\ UNCHANGED vars
     \/ /\ p \in mapBlockIndex /\ ValidateSyncCheckpoint(p) /\ IsInMainChain(p)
        /\ TakeSyncCheckpoint(p, checkpointMessagePending)
        /\ task' = "accepted"
        /\ UNCHANGED vars
     \/ /\ p \in mapBlockIndex /\ ValidateSyncCheckpoint(p) /\ ~IsInMainChain(p)
        /\ UNCHANGED <<memVars, dbVars, restarts, fTorn>> /\ CallSetBestChain(p)
        /\ task' = "pending"
        /\ UNCHANGED checkpointVars
  /\ UNCHANGED <<orphanVars, setStakeSeen, cand, loopVars, keyVars>>

PendingDone ==
  /\ pc = "idle" /\ task = "pending"
  /\ \/ /\ pindexBest = hashPendingCheckpoint
        /\ TakeSyncCheckpoint(hashPendingCheckpoint, checkpointMessagePending)
     \/ /\ pindexBest # hashPendingCheckpoint
        /\ SyncCheckpointFails(hashPendingCheckpoint)
  /\ task' = "accepted"
  /\ UNCHANGED <<vars, orphanVars, setStakeSeen, cand, loopVars, keyVars>>

(* Mutant: an orphan is not queued for its own orphans. *)
PushWorkOnce ==
  /\ pc = "idle" /\ task = "accepted"
  /\ vWorkQueue' = IF vWorkQueue = <<>> THEN <<cand>> ELSE vWorkQueue
  /\ mapOrphanBlocks' = mapOrphanBlocks \ {cand}
  /\ setStakeSeenOrphan' =
       setStakeSeenOrphan \ IF vWorkQueue # <<>> THEN {GetProofOfStake(cand)} ELSE {}
  /\ vTry' = IF vWorkQueue = <<>> THEN mapOrphanBlocksByPrev[cand] ELSE Tail(vTry)
  /\ task' = "loop" /\ cand' = Genesis
  /\ UNCHANGED <<vars, checkpointVars, mapOrphanBlocksByPrev, setStakeSeen, keyVars>>

(* AcceptBlock has returned true: the block is queued for its orphans, and *)
(* is no longer one itself.                                                *)
PushWork ==
  /\ pc = "idle" /\ task = "accepted"
  /\ vWorkQueue' = Append(vWorkQueue, cand)
  /\ mapOrphanBlocks' = mapOrphanBlocks \ {cand}
  /\ setStakeSeenOrphan' =
       setStakeSeenOrphan \ IF vWorkQueue # <<>> THEN {GetProofOfStake(cand)} ELSE {}
  /\ vTry' = IF vWorkQueue = <<>> THEN mapOrphanBlocksByPrev[cand] ELSE Tail(vTry)
  /\ task' = "loop" /\ cand' = Genesis
  /\ UNCHANGED <<vars, checkpointVars, mapOrphanBlocksByPrev, setStakeSeen, keyVars>>

TryOrphan ==
  /\ pc = "idle" /\ task = "loop" /\ vTry # <<>>
  /\ BeginAccept(Head(vTry))
  /\ UNCHANGED <<checkpointVars, orphanVars, loopVars, keyVars>>

(* Mutant: the loop does not move on. *)
RefuseStays ==
  /\ pc = "idle" /\ task = "loop" /\ vTry # <<>>
  /\ ~PassesAcceptBlock(Head(vTry))
  /\ UNCHANGED allVars

RefuseOrphan ==
  /\ pc = "idle" /\ task = "loop" /\ vTry # <<>>
  /\ ~PassesAcceptBlock(Head(vTry))
  /\ DropOrphan(Head(vTry))
  /\ UNCHANGED <<vars, checkpointVars, setStakeSeen, task, cand, keyVars>>

(* The orphans of one block are done.  After the last, the holder of the   *)
(* master key sends a checkpoint, unless the block was its own.            *)
NextWork ==
  LET rest == Tail(vWorkQueue) IN
  /\ pc = "idle" /\ task = "loop" /\ vTry = <<>>
  /\ mapOrphanBlocksByPrev' = [mapOrphanBlocksByPrev EXCEPT ![Head(vWorkQueue)] = <<>>]
  /\ vWorkQueue' = rest
  /\ \/ /\ rest # <<>>
        /\ vTry' = mapOrphanBlocksByPrev[Head(rest)]
        /\ task' = "loop"
     \/ /\ rest = <<>>
        /\ vTry' = <<>>
        /\ task' \in {"none"} \cup IF fMaster THEN {"send"} ELSE {}
  /\ UNCHANGED <<vars, checkpointVars, mapOrphanBlocks, setStakeSeen, setStakeSeenOrphan, cand, keyVars>>

---------------------------------------------------------------------------
ProcessSyncCheckpoint(c) ==
  /\ \/ /\ KeepPending(c) \/ RejectSyncCheckpoint(c)
        /\ task' = "none"
        /\ UNCHANGED <<vars, cand>>
     \/ /\ ValidateSyncCheckpoint(c) /\ IsInMainChain(c)
        /\ TakeSyncCheckpoint(c, c)
        /\ task' = "none"
        /\ UNCHANGED <<vars, cand>>
     \/ /\ ValidateSyncCheckpoint(c) /\ ~IsInMainChain(c)
        /\ UNCHANGED <<memVars, dbVars, restarts, fTorn>> /\ CallSetBestChain(c)
        /\ task' = "message" /\ cand' = c
        /\ UNCHANGED checkpointVars
  /\ UNCHANGED <<orphanVars, setStakeSeen, loopVars, keyVars>>

(* A "checkpoint" message. *)
ReceiveCheckpoint(c) == Ready /\ ProcessSyncCheckpoint(c)

SendSyncCheckpoint ==
  /\ pc = "idle" /\ task = "send"
  /\ \E c \in Block : AutoSelectSyncCheckpoint(c) /\ ProcessSyncCheckpoint(c)

MessageDone ==
  /\ pc = "idle" /\ task = "message"
  /\ \/ pindexBest = cand /\ TakeSyncCheckpoint(cand, cand)
     \/ pindexBest # cand /\ SyncCheckpointFails(cand)
  /\ task' = "none" /\ cand' = Genesis
  /\ UNCHANGED <<vars, orphanVars, setStakeSeen, loopVars, keyVars>>

---------------------------------------------------------------------------
(* What a start finds: the orphans are gone, and setStakeSeen is built     *)
(* from the index.                                                         *)
IntakeRestart ==
  /\ CheckpointRestart
  /\ mapOrphanBlocks' = {} /\ mapOrphanBlocksByPrev' = [b \in Block |-> <<>>]
  /\ setStakeSeenOrphan' = {}
  /\ setStakeSeen' = {GetProofOfStake(b) : b \in {b \in dbIndex : IsProofOfStake(b)}}
  /\ cand' = Genesis /\ vWorkQueue' = <<>> /\ vTry' = <<>>

Restarted ==
  /\ Restart \/ \E h \in StartFrom : RestartFrom(h)
  /\ IntakeRestart
  /\ task' = "none"
  /\ UNCHANGED keyVars

(* The first start of a version with another master key: the new key has   *)
(* been committed, and the checkpoint is to be reset.                      *)
RestartNewKey ==
  /\ ~fNewKey
  /\ Restart
  /\ IntakeRestart
  /\ task' = "reset"
  /\ fNewKey' = TRUE /\ resetDue' = TRUE

Reset ==
  /\ ResetSyncCheckpoint
  /\ task' = "none"
  /\ resetDue' = FALSE /\ UNCHANGED fNewKey

BeginReset ==
  /\ pc = "idle" /\ task = "reset"
  /\ \/ /\ LastHardened \in mapBlockIndex /\ ~IsInMainChain(LastHardened)
        /\ UNCHANGED <<memVars, dbVars, restarts, fTorn>> /\ CallSetBestChain(LastHardened)
        /\ task' = "resetting"
        /\ UNCHANGED <<checkpointVars, keyVars>>
     \/ /\ LastHardened \notin mapBlockIndex \/ IsInMainChain(LastHardened)
        /\ Reset
        /\ UNCHANGED vars
  /\ UNCHANGED <<orphanVars, setStakeSeen, cand, loopVars>>

(* If the hardened checkpoint cannot be reached the node does not start. *)
ResetDone ==
  /\ pc = "idle" /\ task = "resetting"
  /\ \/ pindexBest = LastHardened /\ Reset
     \/ /\ pindexBest # LastHardened
        /\ task' = "down"
        /\ UNCHANGED <<checkpointVars, keyVars>>
  /\ UNCHANGED <<vars, orphanVars, setStakeSeen, cand, loopVars>>

IntakeStep ==
  \/ Step /\ UNCHANGED <<checkpointVars, intakeVars>>
  \/ AcceptFails \/ Accepted \/ PendingDone
  \/ PushWork \/ TryOrphan \/ RefuseOrphan \/ NextWork
  \/ SendSyncCheckpoint \/ MessageDone
  \/ BeginReset \/ ResetDone

IntakeNext ==
  \/ IntakeStep
  \/ \E b \in Block : ProcessBlock(b) \/ ProcessOrphanBlock(b)
  \/ \E c \in Announced : ReceiveCheckpoint(c)
  \/ Restarted \/ RestartNewKey

(* Whoever holds cs_main gets on with it. *)
IntakeSpec == IntakeInit /\ [][IntakeNext]_allVars /\ WF_allVars(IntakeStep)

---------------------------------------------------------------------------
(* Properties *)

(* CheckSync and IsMatureSyncCheckpoint assert that the checkpoint is an   *)
(* accepted block: across crashes, resets and failed reorganisations, the  *)
(* record never names a block whose index record is not on disk.           *)
SyncCheckpointIndexed == hashSyncCheckpoint \in mapBlockIndex \cap dbIndex

(* In strict mode the committed chain never leaves the synchronized        *)
(* checkpoint: not when a heavier branch arrives, not in the middle of a   *)
(* reorganisation, and not after a crash between moving the chain and      *)
(* writing the checkpoint.  (A reset that is due may have moved the chain  *)
(* already.)                                                               *)
BestHonoursCheckpoint == resetDue \/ fTorn \/ hashSyncCheckpoint \in Chain[dbBest]

(* "only descendant of current sync-checkpoint is allowed": the checkpoint *)
(* moves to descendants only, unless a new master key resets it.           *)
CheckpointAdvances ==
  [][resetDue \/ hashSyncCheckpoint \in Chain[hashSyncCheckpoint']]_allVars

(* A pending checkpoint is taken as soon as its block is there, through    *)
(* whatever orphans it came: one that is still pending with its block      *)
(* accepted could not be connected.                                        *)
PendingTaken ==
  Ready /\ ~fTorn /\ hashPendingCheckpoint \in mapBlockIndex => ~Valid(hashPendingCheckpoint)

(* What the holder of the master key selects from its own chain never      *)
(* conflicts with what it selected before, so it does not bring itself     *)
(* into safe mode.                                                         *)
OwnCheckpointsAgree == fMaster /\ ~resetDue => hashInvalidCheckpoint = NULL

(* Between two calls of ProcessBlock mapOrphanBlocksByPrev names exactly   *)
(* the orphans there are, each once: no pointer to a deleted block stays,  *)
(* and no orphan is lost to the index.                                     *)
OrphanBlocksIndexed ==
  Ready =>
    /\ \A p \in Block : \A i \in DOMAIN mapOrphanBlocksByPrev[p] :
         LET o == mapOrphanBlocksByPrev[p][i] IN
         /\ o \in mapOrphanBlocks /\ Prev[o] = p
         /\ \A j \in DOMAIN mapOrphanBlocksByPrev[p] : mapOrphanBlocksByPrev[p][j] = o => i = j
    /\ \A o \in mapOrphanBlocks :
         \E i \in DOMAIN mapOrphanBlocksByPrev[Prev[o]] : mapOrphanBlocksByPrev[Prev[o]][i] = o

(* No orphan waits for a valid block that has been accepted. *)
NoOrphanStranded ==
  Ready /\ ~fTorn =>
    \A o \in mapOrphanBlocks : Prev[o] \in mapBlockIndex => ~Valid(Prev[o])

(* The two maps of orphan blocks agree, and what they keep waits for       *)
(* something: ProcessBlock neither forgets an orphan nor leaves one behind *)
(* whose parent has been accepted.                                         *)
OrphanBlocksAccounted == OrphanBlocksIndexed /\ NoOrphanStranded

(* No proof of stake is held against a block because of an orphan that is  *)
(* gone, or of a block the node does not have.                             *)
StakesSeenExist ==
  /\ setStakeSeenOrphan \subseteq {GetProofOfStake(o) : o \in mapOrphanBlocks}
  /\ setStakeSeen = {GetProofOfStake(b) : b \in {b \in mapBlockIndex : IsProofOfStake(b)}}

(* ProcessBlock, ProcessSyncCheckpoint and LoadBlockIndex return. *)
IntakeReturns == []<>(Ready \/ task = "down")

(* "if checkpoint master key changed must reset sync-checkpoint", says     *)
(* LoadBlockIndex.                                                         *)
NewKeyResets == Ready => ~resetDue
============================================================================
