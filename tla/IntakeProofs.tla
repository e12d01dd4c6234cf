---------------------------- MODULE IntakeProofs ----------------------------
(***************************************************************************)
(* What the synchronized checkpoint can be, for every block tree, every    *)
(* set of announced checkpoints and every number of crashes.               *)
(***************************************************************************)
EXTENDS Intake, ChainProofs

---------------------------------------------------------------------------
(* Type correctness *)

(* The loop of ProcessBlock over the orphans: inside it the queue is not   *)
(* empty, and the orphan being accepted is the next one to be dropped.     *)
LoopInv ==
  /\ task = "loop" => vWorkQueue # <<>>
  /\ task \in {"accept", "pending", "accepted"} /\ vWorkQueue # <<>> => vTry # <<>>
  /\ task \notin {"loop", "accept", "pending", "accepted"} => vWorkQueue = <<>>

IntakeInv == TypeOK /\ Positions /\ IntakeTypeOK /\ LoopInv

(* mapCheckpoints has a last entry. *)
LEMMA LastHardenedIs == LastHardened \in Hardened /\ LastHardened \in Block
BY CheckpointAssumption DEF LastHardened

(* GetProofOfStake of a block is a proof of stake there is. *)
LEMMA ProofsHas == ASSUME NEW b \in Block PROVE GetProofOfStake(b) \in Proofs
BY DEF Proofs, GetProofOfStake

(* SetBestChain is called for a block the node has (a checkpoint). *)
LEMMA CallStep ==
  ASSUME TypeOK, NEW b \in Block, UNCHANGED <<memVars, dbVars, restarts, fTorn>>, CallSetBestChain(b)
  PROVE  TypeOK' /\ Positions'
<1>1. dbNext' \in NextLinks /\ TxIndexType(dbTx') BY DEF TypeOK, dbVars
<1>2. TypeOK' BY <1>1, CallTypes DEF TypeOK, memVars, dbVars
<1>3. Prev[b] = pindexBest => b # Genesis BY TreeAssumption, NullAssumption DEF TypeOK
<1>4. b \in Chain[b] BY ParentInBranch
<1> QED BY <1>2, <1>3, <1>4 DEF CallSetBestChain, Positions, memVars

(* What is left of Chain's variables when an action does not call it. *)
LEMMA ChainKept ==
  ASSUME TypeOK, Positions, [Next]_vars
  PROVE  TypeOK' /\ Positions'
BY TypeStep, PositionsStep

(* AcceptBlock up to SetBestChain keeps the types. *)
LEMMA BeginAcceptStep ==
  ASSUME IntakeInv, NEW b \in Block, BeginAccept(b)
  PROVE  /\ TypeOK' /\ Positions'
         /\ setStakeSeen' \subseteq Proofs /\ task' = "accept" /\ cand' = b
<1>1. AcceptBlock(b) /\ Next BY DEF BeginAccept, Next
<1>2. TypeOK' /\ Positions' BY <1>1, ChainKept DEF IntakeInv
<1> QED BY <1>2, ProofsHas DEF BeginAccept, IntakeInv, IntakeTypeOK

(* Dropping an orphan of a list that is not empty keeps the types. *)
LEMMA DropTypes ==
  ASSUME IntakeTypeOK, NEW o \in Block, DropOrphan(o), vTry # <<>>
  PROVE  /\ mapOrphanBlocks' \subseteq Block /\ setStakeSeenOrphan' \subseteq Proofs
         /\ mapOrphanBlocksByPrev' \in [Block -> Seq(Block)]
         /\ vTry' \in Seq(Block) /\ vWorkQueue' = vWorkQueue
BY DEF IntakeTypeOK, DropOrphan

(* Each operation on the checkpoints leaves blocks or NULL behind. *)
LEMMA CheckpointTypes ==
  ASSUME IntakeTypeOK, TypeOK, NEW c \in Block, NEW message \in Block \cup {NULL},
         \/ KeepPending(c) \/ RejectSyncCheckpoint(c) \/ TakeSyncCheckpoint(c, message)
         \/ SyncCheckpointFails(c) \/ (DropPending /\ hashPendingCheckpoint = c)
         \/ ResetSyncCheckpoint \/ CheckpointRestart \/ UNCHANGED checkpointVars
  PROVE  CheckpointTypeOK'
<1> USE DEF IntakeTypeOK, CheckpointTypeOK, pendingVars
<1>1. CASE KeepPending(c) BY <1>1 DEF KeepPending
<1>2. CASE RejectSyncCheckpoint(c) BY <1>2 DEF RejectSyncCheckpoint, Warn
<1>3. CASE TakeSyncCheckpoint(c, message) BY <1>3 DEF TakeSyncCheckpoint
<1>4. CASE SyncCheckpointFails(c) BY <1>4 DEF SyncCheckpointFails
<1>5. CASE DropPending /\ hashPendingCheckpoint = c BY <1>5 DEF DropPending, Warn
<1>6. CASE ResetSyncCheckpoint BY <1>6, LastHardenedIs, CheckpointAssumption DEF ResetSyncCheckpoint
<1>7. CASE CheckpointRestart BY <1>7 DEF CheckpointRestart
<1>8. CASE UNCHANGED checkpointVars BY <1>8 DEF checkpointVars
<1> QED BY <1>1, <1>2, <1>3, <1>4, <1>5, <1>6, <1>7, <1>8

(* ProcessSyncCheckpoint, received or sent, keeps the types. *)
LEMMA ProcessCheckpointTypes ==
  ASSUME IntakeInv, NEW c \in Block, ProcessSyncCheckpoint(c),
         task \notin {"loop", "accept", "pending", "accepted"}
  PROVE  IntakeInv'
<1> USE DEF IntakeInv
<1>1. /\ UNCHANGED <<orphanVars, setStakeSeen, loopVars, keyVars>>
      /\ task' \in {"none", "message"} /\ cand' \in Block
  BY DEF ProcessSyncCheckpoint, IntakeTypeOK
<1>2. CheckpointTypeOK'
  <2>1. KeepPending(c) \/ RejectSyncCheckpoint(c) \/ TakeSyncCheckpoint(c, c) \/ UNCHANGED checkpointVars
    BY DEF ProcessSyncCheckpoint
  <2> QED BY <2>1, CheckpointTypes
<1>3. TypeOK' /\ Positions'
  <2>1. CASE UNCHANGED vars BY <2>1, ChainKept
  <2>2. CASE UNCHANGED <<memVars, dbVars, restarts, fTorn>> /\ CallSetBestChain(c)
    BY <2>2, CallStep
  <2> QED BY <2>1, <2>2 DEF ProcessSyncCheckpoint
<1> QED BY <1>1, <1>2, <1>3 DEF IntakeTypeOK, LoopInv, orphanVars, loopVars, keyVars

(* A start brings a well-typed memory back. *)
LEMMA RestartTypes ==
  ASSUME IntakeInv, IntakeRestart, TypeOK', Positions',
         task' \in {"none", "reset"}, fNewKey' \in BOOLEAN, resetDue' \in BOOLEAN
  PROVE  IntakeInv'
<1>1. CheckpointTypeOK'
  BY CheckpointTypes, TreeAssumption DEF IntakeRestart, IntakeInv
<1>2. setStakeSeen' \subseteq Proofs
  BY ProofsHas DEF IntakeRestart, IntakeInv, TypeOK
<1>3. mapOrphanBlocksByPrev' \in [Block -> Seq(Block)]
  BY DEF IntakeRestart
<1> QED BY <1>1, <1>2, <1>3, TreeAssumption DEF IntakeRestart, IntakeInv, IntakeTypeOK, LoopInv

(* Every action keeps the types and the loop invariant. *)
LEMMA IntakeTypeStep ==
  ASSUME IntakeInv, [IntakeNext]_allVars
  PROVE  IntakeInv'
<1> USE DEF IntakeInv
<1>a. ASSUME UNCHANGED vars PROVE TypeOK' /\ Positions'
  BY <1>a, ChainKept
<1>b. ASSUME UNCHANGED checkpointVars PROVE CheckpointTypeOK'
  BY <1>b, CheckpointTypes, TreeAssumption
<1>c. ASSUME NEW b \in Block, BeginAccept(b), UNCHANGED <<checkpointVars, orphanVars, loopVars, keyVars>>,
             vWorkQueue # <<>> => vTry # <<>>
      PROVE  IntakeInv'
  BY <1>b, <1>c, BeginAcceptStep DEF IntakeTypeOK, LoopInv, orphanVars, loopVars, keyVars
<1>1. CASE Step /\ UNCHANGED <<checkpointVars, intakeVars>>
  <2>1. TypeOK' /\ Positions' BY <1>1, ChainKept DEF Next
  <2> QED BY <1>1, <1>b, <2>1 DEF IntakeTypeOK, LoopInv, intakeVars, orphanVars, loopVars, keyVars
<1>2. CASE AcceptFails
  <2>1. TypeOK' /\ Positions' /\ CheckpointTypeOK' BY <1>2, <1>a, <1>b DEF AcceptFails
  <2>2. CASE vWorkQueue # <<>> /\ DropOrphan(cand) /\ task' = "loop"
    <3>1. vTry # <<>> BY <1>2, <2>2 DEF AcceptFails, LoopInv
    <3>2. cand \in Block BY DEF IntakeTypeOK
    <3> QED BY <1>2, <2>1, <2>2, <3>1, <3>2, DropTypes, TreeAssumption
            DEF AcceptFails, IntakeTypeOK, LoopInv, keyVars
  <2>3. CASE vWorkQueue = <<>> /\ task' = "none" /\ UNCHANGED <<orphanVars, loopVars>>
    BY <1>2, <2>1, <2>3, TreeAssumption
       DEF AcceptFails, IntakeTypeOK, LoopInv, orphanVars, loopVars, keyVars
  <2> QED BY <1>2, <2>2, <2>3 DEF AcceptFails
<1>3. CASE Accepted
  <2> DEFINE p == hashPendingCheckpoint
  <2>1. /\ task = "accept" /\ task' \in {"accepted", "pending"}
        /\ UNCHANGED <<orphanVars, setStakeSeen, cand, loopVars, keyVars>>
    BY <1>3 DEF Accepted
  <2>2. CASE UNCHANGED <<vars, checkpointVars>>
    BY <2>1, <2>2, <1>a, <1>b DEF IntakeTypeOK, LoopInv, orphanVars, loopVars, keyVars
  <2>3. CASE p \in mapBlockIndex
    <3>1. p \in Block /\ checkpointMessagePending \in Block \cup {NULL}
      BY <2>3 DEF IntakeTypeOK, CheckpointTypeOK, TypeOK
    <3>2. CheckpointTypeOK'
      BY <1>3, <2>3, <3>1, CheckpointTypes DEF Accepted
    <3>3. TypeOK' /\ Positions'
      BY <1>3, <1>a, <3>1, CallStep DEF Accepted
    <3> QED BY <2>1, <3>2, <3>3 DEF IntakeTypeOK, LoopInv, orphanVars, loopVars, keyVars
  <2> QED BY <1>3, <2>2, <2>3 DEF Accepted
<1>4. CASE PendingDone
  <2> DEFINE p == hashPendingCheckpoint
  <2>1. TypeOK' /\ Positions' BY <1>4, <1>a DEF PendingDone
  <2>2. p \in Block \cup {NULL} /\ checkpointMessagePending \in Block \cup {NULL}
    BY DEF IntakeTypeOK, CheckpointTypeOK
  <2>3. CheckpointTypeOK'
    <3>1. CASE pindexBest = p /\ TakeSyncCheckpoint(p, checkpointMessagePending)
      BY <2>2, <3>1, CheckpointTypes DEF TypeOK
    <3>2. CASE SyncCheckpointFails(p)
      BY <2>2, <3>2 DEF SyncCheckpointFails, IntakeTypeOK, CheckpointTypeOK, pendingVars
    <3> QED BY <1>4, <3>1, <3>2 DEF PendingDone
  <2> QED BY <1>4, <2>1, <2>3 DEF PendingDone, IntakeTypeOK, LoopInv, orphanVars, loopVars, keyVars
<1>5. CASE PushWork
  <2>1. TypeOK' /\ Positions' /\ CheckpointTypeOK' BY <1>5, <1>a, <1>b DEF PushWork
  <2>2. vWorkQueue' \in Seq(Block) /\ vWorkQueue' # <<>>
    <3>1. vWorkQueue \in Seq(Block) /\ cand \in Block BY DEF IntakeTypeOK
    <3>2. Append(vWorkQueue, cand) \in Seq(Block) /\ Len(Append(vWorkQueue, cand)) # 0 BY <3>1
    <3>3. vWorkQueue' = Append(vWorkQueue, cand) BY <1>5 DEF PushWork
    <3> QED BY <3>2, <3>3
  <2>3. vTry' \in Seq(Block)
    <3>1. CASE vWorkQueue = <<>> BY <1>5, <3>1 DEF PushWork, IntakeTypeOK
    <3>2. CASE vWorkQueue # <<>>
      <4>1. vTry # <<>> BY <1>5, <3>2 DEF PushWork, LoopInv
      <4> QED BY <1>5, <3>2, <4>1 DEF PushWork, IntakeTypeOK
    <3> QED BY <3>1, <3>2
  <2> QED BY <1>5, <2>1, <2>2, <2>3, TreeAssumption DEF PushWork, IntakeTypeOK, LoopInv, keyVars
<1>6. CASE TryOrphan
  <2>1. Head(vTry) \in Block BY <1>6 DEF TryOrphan, IntakeTypeOK
  <2> QED BY <1>6, <2>1, <1>c DEF TryOrphan
<1>7. CASE RefuseOrphan
  <2>1. TypeOK' /\ Positions' /\ CheckpointTypeOK' BY <1>7, <1>a, <1>b DEF RefuseOrphan
  <2>2. Head(vTry) \in Block BY <1>7 DEF RefuseOrphan, IntakeTypeOK
  <2> QED BY <1>7, <2>1, <2>2, DropTypes DEF RefuseOrphan, IntakeTypeOK, LoopInv, keyVars
<1>8. CASE NextWork
  <2> DEFINE rest == Tail(vWorkQueue)
  <2>1. TypeOK' /\ Positions' /\ CheckpointTypeOK' BY <1>8, <1>a, <1>b DEF NextWork
  <2>2. vWorkQueue # <<>> /\ vWorkQueue \in Seq(Block) BY <1>8 DEF NextWork, LoopInv, IntakeTypeOK
  <2>3. Head(vWorkQueue) \in Block /\ rest \in Seq(Block) BY <2>2
  <2>4. mapOrphanBlocksByPrev' \in [Block -> Seq(Block)]
    BY <1>8, <2>3 DEF NextWork, IntakeTypeOK
  <2>5. CASE rest # <<>> /\ vTry' = mapOrphanBlocksByPrev[Head(rest)] /\ task' = "loop"
    <3>1. Head(rest) \in Block BY <2>3, <2>5
    <3>2. vTry' \in Seq(Block) BY <2>5, <3>1 DEF IntakeTypeOK
    <3> QED BY <1>8, <2>1, <2>3, <2>4, <2>5, <3>2 DEF NextWork, IntakeTypeOK, LoopInv, keyVars
  <2>6. CASE rest = <<>> /\ vTry' = <<>> /\ task' \in {"none", "send"}
    BY <1>8, <2>1, <2>3, <2>4, <2>6 DEF NextWork, IntakeTypeOK, LoopInv, keyVars
  <2> QED BY <1>8, <2>5, <2>6 DEF NextWork
<1>9. CASE SendSyncCheckpoint
  BY <1>9, ProcessCheckpointTypes DEF SendSyncCheckpoint
<1>10. CASE MessageDone
  <2>1. TypeOK' /\ Positions' BY <1>10, <1>a DEF MessageDone
  <2>2. CheckpointTypeOK'
    <3>1. cand \in Block BY DEF IntakeTypeOK
    <3>2. TakeSyncCheckpoint(cand, cand) \/ SyncCheckpointFails(cand) BY <1>10 DEF MessageDone
    <3>3. CASE TakeSyncCheckpoint(cand, cand) BY <3>1, <3>3, CheckpointTypes
    <3>4. CASE SyncCheckpointFails(cand)
      BY <3>1, <3>4 DEF SyncCheckpointFails, IntakeTypeOK, CheckpointTypeOK, pendingVars
    <3> QED BY <3>2, <3>3, <3>4
  <2> QED BY <1>10, <2>1, <2>2, TreeAssumption
          DEF MessageDone, IntakeTypeOK, LoopInv, orphanVars, loopVars, keyVars
<1>11. CASE BeginReset
  <2>1. /\ task' \in {"none", "resetting"} /\ task = "reset"
        /\ resetDue' \in BOOLEAN /\ fNewKey' \in BOOLEAN
        /\ UNCHANGED <<orphanVars, setStakeSeen, cand, loopVars>>
    BY <1>11 DEF BeginReset, Reset, IntakeTypeOK, keyVars
  <2>2. CheckpointTypeOK'
    BY <1>11, CheckpointTypes, TreeAssumption DEF BeginReset, Reset
  <2>3. TypeOK' /\ Positions'
    BY <1>11, <1>a, CallStep, LastHardenedIs DEF BeginReset
  <2> QED BY <2>1, <2>2, <2>3 DEF IntakeTypeOK, LoopInv, orphanVars, loopVars
<1>12. CASE ResetDone
  <2>1. /\ task' \in {"none", "down"} /\ task = "resetting"
        /\ resetDue' \in BOOLEAN /\ fNewKey' \in BOOLEAN
        /\ UNCHANGED <<orphanVars, setStakeSeen, cand, loopVars>>
    BY <1>12 DEF ResetDone, Reset, IntakeTypeOK, keyVars
  <2>2. CheckpointTypeOK'
    BY <1>12, CheckpointTypes, TreeAssumption DEF ResetDone, Reset
  <2>3. TypeOK' /\ Positions' BY <1>12, <1>a DEF ResetDone
  <2> QED BY <2>1, <2>2, <2>3 DEF IntakeTypeOK, LoopInv, orphanVars, loopVars
<1>13. ASSUME NEW b \in Block, ProcessBlock(b) PROVE IntakeInv'
  BY <1>13, <1>c DEF ProcessBlock, Ready, LoopInv
<1>14. ASSUME NEW b \in Block, ProcessOrphanBlock(b) PROVE IntakeInv'
  <2>1. TypeOK' /\ Positions' /\ CheckpointTypeOK' BY <1>14, <1>a, <1>b DEF ProcessOrphanBlock
  <2>2. Prev[b] \in Block \cup {NULL} BY TreeAssumption
  <2>3. mapOrphanBlocksByPrev' \in [Block -> Seq(Block)]
    <3> DEFINE m == mapOrphanBlocksByPrev
    <3>1. m \in [Block -> Seq(Block)] BY DEF IntakeTypeOK
    <3>2. Prev[b] \in Block => Append(m[Prev[b]], b) \in Seq(Block) BY <3>1
    <3>3. m' = [m EXCEPT ![Prev[b]] = Append(m[Prev[b]], b)] BY <1>14 DEF ProcessOrphanBlock
    <3> QED BY <3>1, <3>2, <3>3
  <2>4. setStakeSeenOrphan' \subseteq Proofs
    BY <1>14, ProofsHas DEF ProcessOrphanBlock, IntakeTypeOK
  <2> QED BY <1>14, <2>1, <2>3, <2>4 DEF ProcessOrphanBlock, IntakeTypeOK, LoopInv, loopVars, keyVars
<1>15. ASSUME NEW c \in Announced, ReceiveCheckpoint(c) PROVE IntakeInv'
  BY <1>15, ProcessCheckpointTypes, IntakeAssumption DEF ReceiveCheckpoint, Ready
<1>16. CASE Restarted
  <2>1. TypeOK' /\ Positions' BY <1>16, ChainKept DEF Restarted, Next
  <2> QED BY <1>16, <2>1, RestartTypes DEF Restarted, IntakeTypeOK, keyVars
<1>17. CASE RestartNewKey
  <2>1. TypeOK' /\ Positions' BY <1>17, ChainKept DEF RestartNewKey, Next
  <2> QED BY <1>17, <2>1, RestartTypes DEF RestartNewKey
<1>18. CASE UNCHANGED allVars
  BY <1>18, <1>a, <1>b DEF allVars, IntakeTypeOK, LoopInv, intakeVars, orphanVars, loopVars, keyVars
<1> QED BY <1>1, <1>2, <1>3, <1>4, <1>5, <1>6, <1>7, <1>8, <1>9, <1>10, <1>11, <1>12,
           <1>13, <1>14, <1>15, <1>16, <1>17, <1>18 DEF IntakeNext, IntakeStep

(* The types after the first start. *)
LEMMA IntakeTypeInit == ASSUME IntakeInit PROVE IntakeInv
<1>1. TypeOK /\ Positions BY TypeInit DEF IntakeInit
<1>2. CheckpointTypeOK BY LastHardenedIs, TreeAssumption DEF IntakeInit, CheckpointInit, CheckpointTypeOK
<1>3. mapOrphanBlocksByPrev \in [Block -> Seq(Block)] BY DEF IntakeInit
<1> QED BY <1>1, <1>2, <1>3, TreeAssumption DEF IntakeInit, IntakeInv, IntakeTypeOK, LoopInv

(* Every variable keeps its type: the loop over the orphans never takes    *)
(* the head of an empty list, and every checkpoint is a block.             *)
THEOREM IntakeTyping == IntakeSpec => []IntakeTypeOK
<1>1. IntakeInit => IntakeInv BY IntakeTypeInit
<1>2. IntakeInv /\ [IntakeNext]_allVars => IntakeInv' BY IntakeTypeStep
<1>3. IntakeInv => IntakeTypeOK BY DEF IntakeInv
<1> QED BY <1>1, <1>2, <1>3, PTL DEF IntakeSpec

---------------------------------------------------------------------------
(* The synchronized checkpoint *)

(* The invariant.  A checkpoint is validated before SetBestChain runs and  *)
(* written after it returns: in between, neither the checkpoint in force   *)
(* nor the one to come may change.                                         *)
Validated(c) == c \in mapBlockIndex /\ hashSyncCheckpoint \in Chain[c]

CheckpointInv ==
  /\ mapBlockIndex \subseteq Block /\ mapBlockIndex = dbIndex
  /\ hashSyncCheckpoint \in mapBlockIndex
  /\ task = "message" => Validated(cand)
  /\ task = "pending" => Validated(hashPendingCheckpoint)
  /\ task \in {"reset", "resetting"} => resetDue

(* What a step does to the checkpoint. *)
Forward == resetDue \/ hashSyncCheckpoint \in Chain[hashSyncCheckpoint']

(* No step of SetBestChain touches the set of known blocks. *)
LEMMA StepKeepsIndex ==
  ASSUME Step
  PROVE  UNCHANGED <<mapBlockIndex, dbIndex>>
<1> USE DEF memVars, dbVars, CommitInner
<1>1. CASE ConnectTip         BY <1>1 DEF ConnectTip
<1>2. CASE ConnectTipFails    BY <1>2 DEF ConnectTipFails
<1>3. CASE Postpone           BY <1>3 DEF Postpone
<1>4. CASE Reorganize         BY <1>4 DEF Reorganize
<1>5. CASE ReorgDisconnect    BY <1>5 DEF ReorgDisconnect
<1>6. CASE ReorgConnect       BY <1>6 DEF ReorgConnect
<1>7. CASE ReorgFails         BY <1>7 DEF ReorgFails
<1>8. CASE ReorgCommit        BY <1>8 DEF ReorgCommit
<1>9. CASE ConnectSecondary   BY <1>9 DEF ConnectSecondary
<1>10. CASE SecondaryFails    BY <1>10 DEF SecondaryFails
<1>11. CASE NewBest           BY <1>11 DEF NewBest
<1> QED BY <1>1, <1>2, <1>3, <1>4, <1>5, <1>6, <1>7, <1>8, <1>9, <1>10, <1>11 DEF Step

(* The steps that leave the checkpoint alone and lose no block. *)
LEMMA QuietIntake ==
  ASSUME CheckpointInv,
         mapBlockIndex \subseteq mapBlockIndex', mapBlockIndex' \subseteq Block,
         mapBlockIndex' = dbIndex',
         hashSyncCheckpoint' = hashSyncCheckpoint,
         task' \notin {"message", "pending", "reset", "resetting"}
  PROVE  CheckpointInv' /\ Forward
  BY ParentInBranch DEF CheckpointInv, Validated, Forward

(* The checkpoint moves to a validated one. *)
LEMMA TakeStep ==
  ASSUME CheckpointInv, NEW c, Validated(c), NEW message,
         TakeSyncCheckpoint(c, message),
         UNCHANGED <<mapBlockIndex, dbIndex>>,
         task' \notin {"message", "pending", "reset", "resetting"}
  PROVE  CheckpointInv' /\ Forward
  BY DEF CheckpointInv, Validated, Forward, TakeSyncCheckpoint

(* BeginAccept puts the block into mapBlockIndex and the database. *)
LEMMA AcceptIndexes ==
  ASSUME NEW b \in Block, CheckpointInv, BeginAccept(b),
         UNCHANGED checkpointVars
  PROVE  CheckpointInv' /\ Forward
<1>1. /\ mapBlockIndex' = mapBlockIndex \cup {b} /\ dbIndex' = dbIndex \cup {b}
      /\ task' = "accept" /\ hashSyncCheckpoint' = hashSyncCheckpoint
  BY DEF BeginAccept, AcceptBlock, checkpointVars
<1> QED BY <1>1, QuietIntake DEF CheckpointInv

(* ProcessSyncCheckpoint takes, or goes on with, validated checkpoints only. *)
LEMMA ProcessCheckpointStep ==
  ASSUME CheckpointInv, NEW c, c \in mapBlockIndex => c \in Block,
         ProcessSyncCheckpoint(c)
  PROVE  CheckpointInv' /\ Forward
<1> USE DEF vars, memVars, dbVars
<1>1. CASE /\ KeepPending(c) \/ RejectSyncCheckpoint(c)
           /\ task' = "none" /\ UNCHANGED <<vars, cand>>
  BY <1>1, QuietIntake DEF CheckpointInv, KeepPending, RejectSyncCheckpoint
<1>2. CASE /\ ValidateSyncCheckpoint(c) /\ TakeSyncCheckpoint(c, c)
           /\ task' = "none" /\ UNCHANGED <<vars, cand>>
  BY <1>2, TakeStep DEF ValidateSyncCheckpoint, Validated
<1>3. CASE /\ ValidateSyncCheckpoint(c)
           /\ UNCHANGED <<memVars, dbVars>>
           /\ task' = "message" /\ cand' = c
           /\ UNCHANGED checkpointVars
  BY <1>3, ParentInBranch DEF ValidateSyncCheckpoint, Validated, CheckpointInv, Forward, checkpointVars
<1> QED BY <1>1, <1>2, <1>3 DEF ProcessSyncCheckpoint

(* So does AcceptPendingSyncCheckpoint. *)
LEMMA AcceptedStep ==
  ASSUME CheckpointInv, Accepted
  PROVE  CheckpointInv' /\ Forward
<1> DEFINE p == hashPendingCheckpoint
<1> USE DEF vars, memVars, dbVars
<1>1. CASE task' = "accepted" /\ UNCHANGED <<vars, checkpointVars>>
  BY <1>1, QuietIntake DEF CheckpointInv, checkpointVars
<1>2. CASE DropPending /\ task' = "accepted" /\ UNCHANGED vars
  BY <1>2, QuietIntake DEF CheckpointInv, DropPending
<1>3. CASE /\ ValidateSyncCheckpoint(p) /\ TakeSyncCheckpoint(p, checkpointMessagePending)
           /\ task' = "accepted" /\ UNCHANGED vars
  BY <1>3, TakeStep DEF ValidateSyncCheckpoint, Validated
<1>4. CASE /\ ValidateSyncCheckpoint(p)
           /\ UNCHANGED <<memVars, dbVars>>
           /\ task' = "pending"
           /\ UNCHANGED checkpointVars
  BY <1>4, ParentInBranch DEF ValidateSyncCheckpoint, Validated, CheckpointInv, Forward, checkpointVars, pendingVars
<1> QED BY <1>1, <1>2, <1>3, <1>4 DEF Accepted

(* A reset is always due when it happens. *)
LEMMA ResetStep ==
  ASSUME CheckpointInv, Reset, resetDue, UNCHANGED <<mapBlockIndex, dbIndex>>
  PROVE  CheckpointInv' /\ Forward
  BY DEF CheckpointInv, Forward, Reset, ResetSyncCheckpoint, Validated

(* A start finds the block of the record it reads back. *)
LEMMA RestartStep ==
  ASSUME CheckpointInv, LoadBlockIndex, IntakeRestart,
         task' \in {"none", "reset"}, task' = "reset" => resetDue'
  PROVE  CheckpointInv' /\ Forward
<1>1. mapBlockIndex' = dbIndex /\ dbIndex' = dbIndex /\ hashSyncCheckpoint' = hashSyncCheckpoint
  BY DEF LoadBlockIndex, dbVars, IntakeRestart, CheckpointRestart
<1> QED BY <1>1, ParentInBranch DEF CheckpointInv, Forward, Validated

(* Every action keeps CheckpointInv and moves the checkpoint forward. *)
LEMMA CheckpointStep ==
  ASSUME IntakeTypeOK, CheckpointInv, [IntakeNext]_allVars
  PROVE  CheckpointInv' /\ (Forward \/ UNCHANGED allVars)
<1> USE DEF vars, memVars, dbVars
<1>1. CASE Step /\ UNCHANGED <<checkpointVars, intakeVars>>
  BY <1>1, StepKeepsIndex, ParentInBranch
     DEF CheckpointInv, Forward, Validated, checkpointVars, pendingVars, intakeVars, keyVars
<1>2. CASE AcceptFails
  BY <1>2, QuietIntake DEF AcceptFails, CheckpointInv, checkpointVars
<1>3. CASE Accepted
  BY <1>3, AcceptedStep
<1>4. CASE PendingDone
  <2>1. Validated(hashPendingCheckpoint) /\ task' = "accepted" /\ UNCHANGED <<mapBlockIndex, dbIndex>>
    BY <1>4 DEF PendingDone, CheckpointInv
  <2>2. CASE TakeSyncCheckpoint(hashPendingCheckpoint, checkpointMessagePending)
    BY <2>1, <2>2, TakeStep
  <2>3. CASE SyncCheckpointFails(hashPendingCheckpoint)
    BY <2>1, <2>3, QuietIntake DEF SyncCheckpointFails, CheckpointInv
  <2> QED BY <1>4, <2>2, <2>3 DEF PendingDone
<1>5. CASE PushWork
  BY <1>5, QuietIntake DEF PushWork, CheckpointInv, checkpointVars
<1>6. CASE TryOrphan
  <2>1. Head(vTry) \in Block BY <1>6 DEF TryOrphan, IntakeTypeOK
  <2> QED BY <1>6, <2>1, AcceptIndexes DEF TryOrphan
<1>7. CASE RefuseOrphan
  BY <1>7, QuietIntake DEF RefuseOrphan, CheckpointInv, checkpointVars
<1>8. CASE NextWork
  BY <1>8, QuietIntake DEF NextWork, CheckpointInv, checkpointVars
<1>9. CASE SendSyncCheckpoint
  BY <1>9, ProcessCheckpointStep DEF SendSyncCheckpoint
<1>10. CASE MessageDone
  <2>1. Validated(cand) /\ task' = "none" /\ UNCHANGED <<mapBlockIndex, dbIndex>>
    BY <1>10 DEF MessageDone, CheckpointInv
  <2>2. CASE TakeSyncCheckpoint(cand, cand)
    BY <2>1, <2>2, TakeStep
  <2>3. CASE SyncCheckpointFails(cand)
    BY <2>1, <2>3, QuietIntake DEF SyncCheckpointFails, CheckpointInv
  <2> QED BY <1>10, <2>2, <2>3 DEF MessageDone
<1>11. CASE BeginReset
  <2>1. CASE Reset /\ UNCHANGED vars
    BY <1>11, <2>1, ResetStep DEF BeginReset, CheckpointInv
  <2>2. CASE /\ UNCHANGED <<memVars, dbVars>> /\ task' = "resetting"
             /\ UNCHANGED <<checkpointVars, keyVars>>
    BY <1>11, <2>2, ParentInBranch DEF BeginReset, CheckpointInv, Forward, Validated, checkpointVars, keyVars
  <2> QED BY <1>11, <2>1, <2>2 DEF BeginReset
<1>12. CASE ResetDone
  <2>1. CASE Reset
    BY <1>12, <2>1, ResetStep DEF ResetDone, CheckpointInv
  <2>2. CASE task' = "down" /\ UNCHANGED checkpointVars
    BY <1>12, <2>2, QuietIntake DEF ResetDone, CheckpointInv, checkpointVars
  <2> QED BY <1>12, <2>1, <2>2 DEF ResetDone
<1>13. ASSUME NEW b \in Block, ProcessBlock(b)
       PROVE  CheckpointInv' /\ Forward
  BY <1>13, AcceptIndexes DEF ProcessBlock
<1>14. ASSUME NEW b \in Block, ProcessOrphanBlock(b)
       PROVE  CheckpointInv' /\ Forward
  BY <1>14, QuietIntake DEF ProcessOrphanBlock, Ready, CheckpointInv, checkpointVars
<1>15. ASSUME NEW c \in Announced, ReceiveCheckpoint(c)
       PROVE  CheckpointInv' /\ Forward
  BY <1>15, ProcessCheckpointStep DEF ReceiveCheckpoint, CheckpointInv
<1>16. CASE Restarted
  BY <1>16, RestartStep DEF Restarted, Restart, RestartFrom
<1>17. CASE RestartNewKey
  BY <1>17, RestartStep DEF RestartNewKey, Restart
<1>18. CASE UNCHANGED allVars
  BY <1>18 DEF allVars, CheckpointInv, Validated, checkpointVars, pendingVars, intakeVars, keyVars
<1> QED BY <1>1, <1>2, <1>3, <1>4, <1>5, <1>6, <1>7, <1>8, <1>9, <1>10, <1>11, <1>12,
           <1>13, <1>14, <1>15, <1>16, <1>17, <1>18 DEF IntakeNext, IntakeStep

(* The genesis block is the first checkpoint. *)
LEMMA CheckpointInvInit == ASSUME IntakeInit PROVE CheckpointInv
BY TreeAssumption DEF IntakeInit, Init, CheckpointInit, CheckpointInv

(* The assertions of CheckSync and IsMatureSyncCheckpoint hold: whatever   *)
(* is announced, whenever the process dies, the checkpoint in force is a   *)
(* block the node has in memory and on disk.                               *)
THEOREM CheckpointIndexed == IntakeSpec => []SyncCheckpointIndexed
<1>1. IntakeInit => IntakeInv /\ CheckpointInv BY IntakeTypeInit, CheckpointInvInit
<1>2. IntakeInv /\ CheckpointInv /\ [IntakeNext]_allVars => (IntakeInv /\ CheckpointInv)'
  BY IntakeTypeStep, CheckpointStep DEF IntakeInv
<1>3. CheckpointInv => SyncCheckpointIndexed BY DEF CheckpointInv, SyncCheckpointIndexed
<1> QED BY <1>1, <1>2, <1>3, PTL DEF IntakeSpec

(* The checkpoint only moves to descendants, unless a reset is due: what   *)
(* was validated before SetBestChain ran is still a descendant of the      *)
(* checkpoint in force when it is written.                                 *)
THEOREM CheckpointMovesForward == IntakeSpec => CheckpointAdvances
<1>1. IntakeInit => IntakeInv /\ CheckpointInv BY IntakeTypeInit, CheckpointInvInit
<1>2. IntakeInv /\ CheckpointInv /\ [IntakeNext]_allVars => (IntakeInv /\ CheckpointInv)'
  BY IntakeTypeStep, CheckpointStep DEF IntakeInv
<1>3. IntakeInv /\ CheckpointInv /\ [IntakeNext]_allVars
        => [resetDue \/ hashSyncCheckpoint \in Chain[hashSyncCheckpoint']]_allVars
  BY CheckpointStep DEF IntakeInv, Forward
<1> QED BY <1>1, <1>2, <1>3, PTL DEF IntakeSpec, CheckpointAdvances

---------------------------------------------------------------------------
(* The proofs of stake that are held against later blocks *)

(* The invariant.  The first block of a call of ProcessBlock is no orphan, *)
(* so that its proof of stake may stay when it leaves the maps.            *)
StakeInv ==
  /\ StakesSeenExist
  /\ task \in {"accept", "pending", "accepted"} /\ vWorkQueue = <<>> => cand \notin mapOrphanBlocks

(* The steps that change neither of the two sets, nor what is in them. *)
LEMMA QuietStakes ==
  ASSUME StakeInv,
         mapBlockIndex' = mapBlockIndex,
         UNCHANGED <<mapOrphanBlocks, setStakeSeen, setStakeSeenOrphan>>,
         \/ task' \notin {"accept", "pending", "accepted"}
         \/ /\ task \in {"accept", "pending", "accepted"}
            /\ UNCHANGED <<cand, vWorkQueue>>
  PROVE  StakeInv'
BY DEF StakeInv, StakesSeenExist

(* A block that goes into the index takes its proof of stake with it. *)
LEMMA AcceptStakes ==
  ASSUME StakeInv, NEW b, BeginAccept(b), UNCHANGED <<orphanVars, loopVars>>,
         vWorkQueue # <<>> \/ b \notin mapOrphanBlocks
  PROVE  StakeInv'
<1>1. /\ mapBlockIndex' = mapBlockIndex \cup {b} /\ cand' = b
      /\ setStakeSeen' = setStakeSeen \cup IF IsProofOfStake(b) THEN {GetProofOfStake(b)} ELSE {}
  BY DEF BeginAccept, AcceptBlock
<1>2. UNCHANGED <<mapOrphanBlocks, setStakeSeenOrphan, vWorkQueue>>
  BY DEF orphanVars, loopVars
<1>3. {x \in mapBlockIndex' : IsProofOfStake(x)}
        = {x \in mapBlockIndex : IsProofOfStake(x)} \cup IF IsProofOfStake(b) THEN {b} ELSE {}
  BY <1>1
<1>4. {GetProofOfStake(x) : x \in {y \in mapBlockIndex' : IsProofOfStake(y)}} = setStakeSeen'
  BY <1>1, <1>3 DEF StakeInv, StakesSeenExist
<1>5. StakesSeenExist'
  BY <1>2, <1>4 DEF StakeInv, StakesSeenExist, IsProofOfStake, GetProofOfStake
<1> QED BY <1>1, <1>2, <1>5 DEF StakeInv

(* An orphan leaves with its proof of stake. *)
LEMMA DropStakes ==
  ASSUME StakeInv, NEW o, UNCHANGED <<mapBlockIndex, setStakeSeen>>,
         mapOrphanBlocks' = mapOrphanBlocks \ {o},
         \/ setStakeSeenOrphan' = setStakeSeenOrphan \ {GetProofOfStake(o)}
         \/ setStakeSeenOrphan' = setStakeSeenOrphan /\ o \notin mapOrphanBlocks,
         task' = "loop"
  PROVE  StakeInv'
<1>1. setStakeSeenOrphan' \subseteq {GetProofOfStake(x) : x \in mapOrphanBlocks'}
  BY DEF StakeInv, StakesSeenExist
<1> QED BY <1>1 DEF StakeInv, StakesSeenExist, IsProofOfStake, GetProofOfStake

(* A start builds setStakeSeen from the index it reads. *)
LEMMA RestartStakes ==
  ASSUME LoadBlockIndex, IntakeRestart, task' \in {"none", "reset"}
  PROVE  StakeInv'
BY DEF LoadBlockIndex, IntakeRestart, StakeInv, StakesSeenExist, IsProofOfStake, GetProofOfStake

(* Every action keeps StakeInv. *)
LEMMA StakeStep ==
  ASSUME IntakeInv, StakeInv, [IntakeNext]_allVars
  PROVE  StakeInv'
<1> USE DEF orphanVars, loopVars, vars, memVars, dbVars
<1>1. CASE Step /\ UNCHANGED <<checkpointVars, intakeVars>>
  BY <1>1, StepKeepsIndex DEF intakeVars, StakeInv, StakesSeenExist
<1>2. CASE AcceptFails
  <2>1. CASE DropOrphan(cand) /\ task' = "loop"
    BY <1>2, <2>1, DropStakes DEF AcceptFails, DropOrphan
  <2>2. CASE task' = "none" /\ UNCHANGED orphanVars
    BY <1>2, <2>2, QuietStakes DEF AcceptFails
  <2> QED BY <1>2, <2>1, <2>2 DEF AcceptFails
<1>3. CASE Accepted
  <2>1. task = "accept" /\ mapBlockIndex' = mapBlockIndex
    BY <1>3 DEF Accepted
  <2>2. UNCHANGED <<orphanVars, setStakeSeen, cand, loopVars>>
    BY <1>3 DEF Accepted
  <2> QED BY <2>1, <2>2, QuietStakes
<1>4. CASE PendingDone
  BY <1>4, QuietStakes DEF PendingDone
<1>5. CASE PushWork
  <2>1. vWorkQueue = <<>> => cand \notin mapOrphanBlocks
    BY <1>5 DEF PushWork, StakeInv
  <2>2. \/ setStakeSeenOrphan' = setStakeSeenOrphan \ {GetProofOfStake(cand)}
        \/ setStakeSeenOrphan' = setStakeSeenOrphan /\ cand \notin mapOrphanBlocks
    BY <1>5, <2>1 DEF PushWork
  <2> QED BY <1>5, <2>2, DropStakes DEF PushWork
<1>6. CASE TryOrphan
  BY <1>6, AcceptStakes DEF TryOrphan, IntakeInv, LoopInv
<1>7. CASE RefuseOrphan
  BY <1>7, DropStakes DEF RefuseOrphan, DropOrphan
<1>8. CASE NextWork
  <2>1. task' \in {"loop", "none", "send"} BY <1>8 DEF NextWork
  <2> QED BY <1>8, <2>1, QuietStakes DEF NextWork
<1>9. ASSUME NEW c, ProcessSyncCheckpoint(c) PROVE StakeInv'
  <2>1. /\ mapBlockIndex' = mapBlockIndex /\ task' \in {"none", "message"}
        /\ UNCHANGED <<orphanVars, setStakeSeen>>
    BY <1>9 DEF ProcessSyncCheckpoint
  <2> QED BY <2>1, QuietStakes
<1>10. CASE SendSyncCheckpoint
  BY <1>9, <1>10 DEF SendSyncCheckpoint
<1>11. CASE MessageDone
  BY <1>11, QuietStakes DEF MessageDone
<1>12. CASE BeginReset
  <2>1. mapBlockIndex' = mapBlockIndex /\ task' \in {"none", "resetting"}
    BY <1>12 DEF BeginReset, Reset
  <2> QED BY <1>12, <2>1, QuietStakes DEF BeginReset
<1>13. CASE ResetDone
  <2>1. task' \in {"none", "down"} BY <1>13 DEF ResetDone, Reset
  <2> QED BY <1>13, <2>1, QuietStakes DEF ResetDone
<1>14. ASSUME NEW b \in Block, ProcessBlock(b) PROVE StakeInv'
  BY <1>14, AcceptStakes DEF ProcessBlock, PassesProcessBlock
<1>15. ASSUME NEW b \in Block, ProcessOrphanBlock(b) PROVE StakeInv'
  <2>1. setStakeSeenOrphan' \subseteq {GetProofOfStake(x) : x \in mapOrphanBlocks'}
    BY <1>15 DEF ProcessOrphanBlock, StakeInv, StakesSeenExist
  <2>2. task' = "none" /\ UNCHANGED <<mapBlockIndex, setStakeSeen>>
    BY <1>15 DEF ProcessOrphanBlock, Ready
  <2> QED BY <2>1, <2>2 DEF StakeInv, StakesSeenExist, IsProofOfStake, GetProofOfStake
<1>16. ASSUME NEW c \in Announced, ReceiveCheckpoint(c) PROVE StakeInv'
  BY <1>9, <1>16 DEF ReceiveCheckpoint
<1>17. CASE Restarted
  BY <1>17, RestartStakes DEF Restarted, Restart, RestartFrom
<1>18. CASE RestartNewKey
  BY <1>18, RestartStakes DEF RestartNewKey, Restart
<1>19. CASE UNCHANGED allVars
  BY <1>19 DEF allVars, intakeVars, StakeInv, StakesSeenExist
<1> QED BY <1>1, <1>2, <1>3, <1>4, <1>5, <1>6, <1>7, <1>8, <1>10, <1>11, <1>12, <1>13,
           <1>14, <1>15, <1>16, <1>17, <1>18, <1>19 DEF IntakeNext, IntakeStep

(* The genesis block has no proof of stake. *)
LEMMA StakeInit == ASSUME IntakeInit PROVE StakeInv
<1>1. {b \in mapBlockIndex : IsProofOfStake(b)} = {}
  BY IntakeAssumption DEF IntakeInit, Init, IsProofOfStake
<1> QED BY <1>1 DEF IntakeInit, StakeInv, StakesSeenExist

(* A proof of stake is held against later blocks only for the sake of a    *)
(* block the node has, in its index or among its orphans: dropping an      *)
(* orphan, a failed reorganisation and a crash leave nothing behind that   *)
(* would make ProcessBlock refuse a block it has never seen the like of.   *)
THEOREM StakesAreOfKnownBlocks == IntakeSpec => []StakesSeenExist
<1>1. IntakeInit => IntakeInv /\ StakeInv BY IntakeTypeInit, StakeInit
<1>2. IntakeInv /\ StakeInv /\ [IntakeNext]_allVars => (IntakeInv /\ StakeInv)'
  BY IntakeTypeStep, StakeStep
<1>3. StakeInv => StakesSeenExist BY DEF StakeInv
<1> QED BY <1>1, <1>2, <1>3, PTL DEF IntakeSpec

---------------------------------------------------------------------------
(* The best chain and the checkpoint *)

(* What an action does to the chain: a step of Chain, or a call of         *)
(* SetBestChain for a checkpoint.                                          *)
CallForCheckpoint ==
  /\ pc = "idle" /\ UNCHANGED <<memVars, dbVars, restarts, fTorn>>
  /\ \E c \in mapBlockIndex : CallSetBestChain(c)

LEMMA ChainOrCall ==
  ASSUME IntakeInv, [IntakeNext]_allVars
  PROVE  [Next]_vars \/ CallForCheckpoint
<1>1. CASE Step BY <1>1 DEF Next
<1>2. CASE UNCHANGED vars BY <1>2
<1>3. ASSUME NEW b \in Block, BeginAccept(b) PROVE Next BY <1>3 DEF BeginAccept, Next
<1>4. ASSUME NEW c, pc = "idle", ProcessSyncCheckpoint(c) PROVE UNCHANGED vars \/ CallForCheckpoint
  BY <1>4 DEF ProcessSyncCheckpoint, CallForCheckpoint, ValidateSyncCheckpoint
<1>5. CASE AcceptFails \/ PendingDone \/ PushWork \/ RefuseOrphan \/ NextWork \/ MessageDone \/ ResetDone
  BY <1>2, <1>5 DEF AcceptFails, PendingDone, PushWork, RefuseOrphan, NextWork, MessageDone, ResetDone
<1>6. CASE Accepted BY <1>2, <1>6 DEF Accepted, CallForCheckpoint
<1>7. CASE TryOrphan
  <2>1. Head(vTry) \in Block BY <1>7 DEF TryOrphan, IntakeInv, IntakeTypeOK
  <2> QED BY <1>3, <1>7, <2>1 DEF TryOrphan
<1>8. CASE SendSyncCheckpoint BY <1>4, <1>8 DEF SendSyncCheckpoint
<1>9. CASE BeginReset BY <1>2, <1>9 DEF BeginReset, CallForCheckpoint
<1>10. CASE \E b \in Block : ProcessBlock(b) \/ ProcessOrphanBlock(b)
  BY <1>2, <1>3, <1>10 DEF ProcessBlock, ProcessOrphanBlock
<1>11. CASE \E c \in Announced : ReceiveCheckpoint(c)
  BY <1>4, <1>11 DEF ReceiveCheckpoint, Ready
<1>12. CASE Restarted \/ RestartNewKey BY <1>12 DEF Restarted, RestartNewKey, Next
<1>13. CASE UNCHANGED allVars BY <1>2, <1>13 DEF allVars
<1> QED BY <1>1, <1>2, <1>5, <1>6, <1>7, <1>8, <1>9, <1>10, <1>11, <1>12, <1>13 DEF IntakeNext, IntakeStep

(* A call for a checkpoint keeps what holds of the chain. *)
LEMMA CallSafety ==
  ASSUME SafetyInv, CallForCheckpoint
  PROVE  SafetyInv'
<1> USE DEF SafetyInv
<1>1. PICK c \in mapBlockIndex : CallSetBestChain(c) BY DEF CallForCheckpoint
<1>2. /\ pc = "idle" /\ pc' \in {"tip", "walk"} /\ pindexNew' = c
      /\ batchTx' = dbTx /\ batchNext' = dbNext
      /\ UNCHANGED <<memVars, dbVars, restarts, fTorn>>
  BY <1>1 DEF CallForCheckpoint, CallSetBestChain, dbVars
<1>3. TypeOK' /\ Positions' BY <1>1, <1>2, CallStep DEF TypeOK
<1>4. LinksInv' BY <1>2 DEF LinksInv, memVars, dbVars
<1>5. Indexed' BY <1>1, <1>2 DEF Indexed, memVars, dbVars
<1>6. LedgerInv' BY <1>2 DEF LedgerInv, memVars, dbVars
<1> QED BY <1>3, <1>4, <1>5, <1>6

(* The invariant.  A block passes CheckSync, and a checkpoint is           *)
(* validated, before SetBestChain is called for it, so the whole call      *)
(* stays on the branch of the checkpoint in force: the committed chain,    *)
(* the branch it is to get, and the part of it that Reorganize connects in *)
(* one batch.                                                              *)
HonourInv ==
  resetDue \/ fTorn \/
    /\ hashSyncCheckpoint \in Chain[dbBest]
    /\ pc # "idle" => hashSyncCheckpoint \in Chain[pindexNew]
    /\ pc \in {"walk", "reorg"} => hashSyncCheckpoint \in Chain[pindexInter]

(* No block above the fork is postponed that the checkpoint stands on: it  *)
(* would have more trust than the best block, whose ancestor it is.        *)
LEMMA HonourChain ==
  ASSUME SafetyInv, TrustGrows, HonourInv, Step, UNCHANGED <<hashSyncCheckpoint, resetDue>>
  PROVE  HonourInv'
<1> DEFINE s == hashSyncCheckpoint
<1> USE DEF SafetyInv, memVars, dbVars
<1>1. CASE resetDue \/ fTorn
  BY <1>1 DEF HonourInv, Step, ConnectTip, ConnectTipFails, Postpone, Reorganize, ReorgDisconnect,
     ReorgConnect, ReorgFails, ReorgCommit, ConnectSecondary, SecondaryFails, NewBest
<1>2. SUFFICES ASSUME ~resetDue, ~fTorn PROVE HonourInv' BY <1>1
<1>3. /\ s \in Chain[dbBest]
      /\ pc # "idle" => s \in Chain[pindexNew]
      /\ pc \in {"walk", "reorg"} => s \in Chain[pindexInter]
  BY <1>2 DEF HonourInv
<1>4. ASSUME pc' = "idle", dbBest' \in {dbBest, pindexNew}, pc # "idle" PROVE HonourInv'
  BY <1>3, <1>4 DEF HonourInv
<1>5. CASE ConnectTip BY <1>4, <1>5 DEF ConnectTip, CommitInner, Return
<1>6. CASE ConnectTipFails \/ ReorgFails \/ NewBest
  BY <1>4, <1>6 DEF ConnectTipFails, ReorgFails, NewBest, Return
<1>7. CASE Postpone
  <2> DEFINE b == pindexInter
  <2>1. b \in Block /\ b # Genesis /\ nChainTrust[Prev[b]] > nChainTrust[pindexBest]
    BY <1>7 DEF Postpone, Outweighs, TypeOK
  <2>2. Chain[b] = Chain[Prev[b]] \cup {b} /\ Prev[b] \in Chain[b] /\ Prev[b] \in Block
    BY <2>1, ParentInBranch
  <2>3. pindexBest = dbBest /\ dbBest \in mapBlockIndex /\ dbBest \in Block
    BY <1>2, <1>7 DEF Postpone, LedgerInv, Indexed, TypeOK
  <2>4. s # b
    <3>1. SUFFICES ASSUME s = b PROVE FALSE OBVIOUS
    <3>2. Prev[b] \in Chain[dbBest] BY <1>3, <2>2, <2>3, <3>1, Branches DEF IsBranch
    <3>3. nChainTrust[Prev[b]] <= nChainTrust[dbBest] BY <2>3, <3>2 DEF TrustGrows
    <3>4. nChainTrust[Prev[b]] \in Nat /\ nChainTrust[dbBest] \in Nat BY <2>2, <2>3 DEF TypeOK
    <3> QED BY <2>1, <2>3, <3>3, <3>4
  <2>5. s \in Chain[Prev[b]] BY <1>3, <1>7, <2>2, <2>4 DEF Postpone
  <2> QED BY <1>3, <1>7, <2>5 DEF Postpone, HonourInv
<1>8. CASE Reorganize \/ ReorgDisconnect \/ ReorgConnect
  BY <1>3, <1>8 DEF Reorganize, ReorgDisconnect, ReorgConnect, HonourInv
<1>9. CASE ReorgCommit
  BY <1>3, <1>9 DEF ReorgCommit, HonourInv
<1>10. CASE ConnectSecondary
  <2> DEFINE b == NextOn(pindex, pindexNew)
  <2>1. b \in Block /\ b # Genesis /\ Prev[b] = dbBest
    BY <1>2, <1>10, NextOnIs DEF ConnectSecondary, Positions, TypeOK, LedgerInv
  <2>2. s \in Chain[b] BY <1>3, <2>1, ParentInBranch
  <2>3. dbBest' = b /\ pc' = "secondary" /\ pc = "secondary" /\ pindexNew' = pindexNew
    BY <1>10 DEF ConnectSecondary, CommitInner
  <2> QED BY <1>3, <2>2, <2>3 DEF HonourInv
<1>11. CASE SecondaryFails BY <1>11 DEF SecondaryFails, HonourInv
<1> QED BY <1>5, <1>6, <1>7, <1>8, <1>9, <1>10, <1>11 DEF Step

(* Between calls, until a postponed block fails, IsInMainChain is right. *)
LEMMA MainChainIs ==
  ASSUME SafetyInv, ~fTorn, pc = "idle", NEW c \in Block, IsInMainChain(c)
  PROVE  c \in Chain[dbBest]
<1>1. pindexBest = dbBest /\ pnext = Links(dbBest) /\ dbBest \in Block
  BY DEF SafetyInv, LedgerInv, LinksInv, TypeOK
<1> QED BY <1>1, ParentInBranch DEF IsInMainChain, Links

(* A new block, or a checkpoint to move to, is on the branch of the        *)
(* checkpoint in force when SetBestChain is called for it.                 *)
LEMMA HonourCall ==
  ASSUME HonourInv, NEW c, resetDue \/ hashSyncCheckpoint \in Chain[c], CallSetBestChain(c) \/ Return,
         UNCHANGED <<dbBest, fTorn, hashSyncCheckpoint, resetDue>>
  PROVE  HonourInv'
BY DEF HonourInv, CallSetBestChain, Return

(* The checkpoint moves within the best chain, between two calls. *)
LEMMA HonourTake ==
  ASSUME pc = "idle", UNCHANGED vars, resetDue' \/ fTorn \/ hashSyncCheckpoint' \in Chain[dbBest]
  PROVE  HonourInv'
BY DEF HonourInv, vars, dbVars, callVars

(* The steps that leave chain and checkpoint alone. *)
LEMMA HonourQuiet ==
  ASSUME HonourInv, UNCHANGED <<vars, hashSyncCheckpoint, resetDue>>
  PROVE  HonourInv'
BY DEF HonourInv, vars, dbVars, callVars

(* In strict mode AcceptBlock lets only descendants of the checkpoint in. *)
LEMMA AcceptDescends ==
  ASSUME CheckpointsMode = "STRICT", CheckpointInv, NEW b \in Block, BeginAccept(b)
  PROVE  hashSyncCheckpoint \in Chain[b]
<1>1. b \notin mapBlockIndex /\ CheckSync(b) /\ Prev[b] \in mapBlockIndex
  BY DEF BeginAccept, PassesAcceptBlock, AcceptBlock
<1>2. b # Genesis BY <1>1, TreeAssumption, NullAssumption DEF CheckpointInv
<1> QED BY <1>1, <1>2, ParentInBranch DEF CheckSync, CheckpointInv

(* So the call for a new block stays on the branch of the checkpoint. *)
LEMMA HonourAccept ==
  ASSUME CheckpointsMode = "STRICT", CheckpointInv, HonourInv, NEW b \in Block, BeginAccept(b),
         UNCHANGED <<checkpointVars, keyVars>>
  PROVE  HonourInv'
<1>1. /\ UNCHANGED <<dbBest, fTorn>>
      /\ CallSetBestChain(b) \/ Return
  BY DEF BeginAccept, AcceptBlock
<1> QED BY <1>1, AcceptDescends, HonourCall DEF checkpointVars, keyVars

(* So do the checkpoints: one is taken when it is in the main chain, or    *)
(* when SetBestChain has made it the best block.                           *)
LEMMA HonourCheckpoint ==
  ASSUME IntakeInv, SafetyInv, CheckpointInv, HonourInv, pc = "idle", NEW c \in Block \cup {NULL},
         ProcessSyncCheckpoint(c)
  PROVE  HonourInv'
<1>1. CASE KeepPending(c) \/ RejectSyncCheckpoint(c)
  BY <1>1, HonourQuiet DEF KeepPending, RejectSyncCheckpoint, ProcessSyncCheckpoint, keyVars,
     CheckpointInv, ValidateSyncCheckpoint
<1>2. CASE ValidateSyncCheckpoint(c) /\ IsInMainChain(c) /\ TakeSyncCheckpoint(c, c) /\ UNCHANGED vars
  <2>1. c \in Block BY <1>2 DEF ValidateSyncCheckpoint, CheckpointInv
  <2> QED BY <1>2, <2>1, MainChainIs, HonourTake DEF TakeSyncCheckpoint
<1>3. CASE /\ ValidateSyncCheckpoint(c) /\ CallSetBestChain(c) /\ UNCHANGED <<dbVars, fTorn, checkpointVars>>
  BY <1>3, HonourCall DEF ValidateSyncCheckpoint, ProcessSyncCheckpoint, keyVars, checkpointVars, dbVars
<1> QED BY <1>1, <1>2, <1>3 DEF ProcessSyncCheckpoint

(* A reset takes a checkpoint of the main chain. *)
LEMMA HonourReset ==
  ASSUME SafetyInv, CheckpointInv, pc = "idle", Reset, UNCHANGED vars
  PROVE  HonourInv'
<1>1. \E c \in mapBlockIndex : IsInMainChain(c) /\ hashSyncCheckpoint' = c
  BY DEF Reset, ResetSyncCheckpoint
<1>2. ~fTorn => hashSyncCheckpoint' \in Chain[dbBest]
  BY <1>1, MainChainIs DEF CheckpointInv
<1> QED BY <1>2, HonourTake

(* A start, without -startfrom, leaves the committed chain and the record  *)
(* of the checkpoint as they are.                                          *)
LEMMA HonourRestart ==
  ASSUME HonourInv, Restart, hashSyncCheckpoint' = hashSyncCheckpoint, resetDue => resetDue'
  PROVE  HonourInv'
BY DEF HonourInv, Restart, LoadBlockIndex, Return, dbVars

(* Every action keeps HonourInv. *)
LEMMA HonourStep ==
  ASSUME CheckpointsMode = "STRICT", StartFrom = {},
         IntakeInv, SafetyInv, TrustGrows, CheckpointInv, HonourInv, [IntakeNext]_allVars
  PROVE  HonourInv'
<1>1. CASE Step /\ UNCHANGED <<checkpointVars, intakeVars>>
  BY <1>1, HonourChain DEF checkpointVars, intakeVars, keyVars
<1>2. CASE AcceptFails \/ PushWork \/ RefuseOrphan \/ NextWork
  <2>1. UNCHANGED <<vars, checkpointVars, keyVars>>
    BY <1>2 DEF AcceptFails, PushWork, RefuseOrphan, NextWork
  <2> QED BY <2>1, HonourQuiet DEF checkpointVars, keyVars
<1>3. CASE Accepted
  <2> DEFINE p == hashPendingCheckpoint
  <2>1. pc = "idle" /\ UNCHANGED keyVars BY <1>3 DEF Accepted
  <2>2. CASE UNCHANGED <<vars, checkpointVars>>
    BY <2>1, <2>2, HonourQuiet DEF checkpointVars, keyVars
  <2>3. CASE DropPending /\ UNCHANGED vars
    BY <2>1, <2>3, HonourQuiet DEF DropPending, keyVars
  <2>4. CASE ValidateSyncCheckpoint(p) /\ IsInMainChain(p)
             /\ TakeSyncCheckpoint(p, checkpointMessagePending) /\ UNCHANGED vars
    <3>1. p \in Block BY <2>4 DEF ValidateSyncCheckpoint, CheckpointInv
    <3> QED BY <2>1, <2>4, <3>1, MainChainIs, HonourTake DEF TakeSyncCheckpoint
  <2>5. CASE ValidateSyncCheckpoint(p) /\ CallSetBestChain(p) /\ UNCHANGED <<dbVars, fTorn, checkpointVars>>
    BY <2>1, <2>5, HonourCall DEF ValidateSyncCheckpoint, keyVars, checkpointVars, dbVars
  <2> QED BY <1>3, <2>2, <2>3, <2>4, <2>5 DEF Accepted
<1>4. CASE PendingDone \/ MessageDone
  <2> DEFINE c == IF PendingDone THEN hashPendingCheckpoint ELSE cand
  <2>1. pc = "idle" /\ UNCHANGED vars /\ resetDue' = resetDue
    BY <1>4 DEF PendingDone, MessageDone, keyVars
  <2>2. hashSyncCheckpoint' = hashSyncCheckpoint \/ hashSyncCheckpoint' = pindexBest
    BY <1>4 DEF PendingDone, MessageDone, TakeSyncCheckpoint, SyncCheckpointFails
  <2>3. CASE hashSyncCheckpoint' = pindexBest
    <3>1. ~fTorn => pindexBest = dbBest BY <2>1 DEF SafetyInv, LedgerInv
    <3>2. dbBest \in Chain[dbBest] BY ParentInBranch DEF SafetyInv, TypeOK
    <3> QED BY <2>1, <2>3, <3>1, <3>2, HonourTake
  <2> QED BY <2>1, <2>2, <2>3, HonourQuiet
<1>5. CASE TryOrphan
  <2>1. Head(vTry) \in Block BY <1>5 DEF TryOrphan, IntakeInv, IntakeTypeOK
  <2> QED BY <1>5, <2>1, HonourAccept DEF TryOrphan
<1>6. CASE SendSyncCheckpoint
  BY <1>6, HonourCheckpoint DEF SendSyncCheckpoint
<1>7. CASE BeginReset
  <2>1. CASE Reset /\ UNCHANGED vars BY <1>7, <2>1, HonourReset DEF BeginReset
  <2>2. CASE CallSetBestChain(LastHardened) /\ UNCHANGED <<dbVars, fTorn, checkpointVars, keyVars>>
    BY <1>7, <2>2, HonourCall DEF BeginReset, CheckpointInv, checkpointVars, keyVars, dbVars
  <2> QED BY <1>7, <2>1, <2>2 DEF BeginReset
<1>8. CASE ResetDone
  <2>1. CASE Reset BY <1>8, <2>1, HonourReset DEF ResetDone
  <2>2. CASE UNCHANGED <<checkpointVars, keyVars>>
    BY <1>8, <2>2, HonourQuiet DEF ResetDone, checkpointVars, keyVars
  <2> QED BY <1>8, <2>1, <2>2 DEF ResetDone
<1>9. ASSUME NEW b \in Block, ProcessBlock(b) PROVE HonourInv'
  BY <1>9, HonourAccept DEF ProcessBlock
<1>10. ASSUME NEW b \in Block, ProcessOrphanBlock(b) PROVE HonourInv'
  BY <1>10, HonourQuiet DEF ProcessOrphanBlock, checkpointVars, keyVars
<1>11. ASSUME NEW c \in Announced, ReceiveCheckpoint(c) PROVE HonourInv'
  BY <1>11, HonourCheckpoint, IntakeAssumption DEF ReceiveCheckpoint, Ready
<1>12. CASE Restarted
  BY <1>12, HonourRestart DEF Restarted, IntakeRestart, CheckpointRestart, keyVars
<1>13. CASE RestartNewKey
  BY <1>13, HonourRestart DEF RestartNewKey, IntakeRestart, CheckpointRestart
<1>14. CASE UNCHANGED allVars
  BY <1>14, HonourQuiet DEF allVars, checkpointVars, intakeVars, keyVars
<1> QED BY <1>1, <1>2, <1>3, <1>4, <1>5, <1>6, <1>7, <1>8, <1>9, <1>10, <1>11, <1>12, <1>13,
           <1>14 DEF IntakeNext, IntakeStep

(* In strict mode, on a node that is not started with -startfrom, the      *)
(* committed chain never leaves the synchronized checkpoint, whatever      *)
(* blocks and checkpoints arrive, and wherever a reorganisation fails or   *)
(* the process dies: until a reset is due or a postponed block fails.      *)
THEOREM CheckpointHonoured ==
  CheckpointsMode = "STRICT" /\ StartFrom = {} => (IntakeSpec => []BestHonoursCheckpoint)
<1> SUFFICES ASSUME CheckpointsMode = "STRICT", StartFrom = {}
             PROVE  IntakeSpec => []BestHonoursCheckpoint
  OBVIOUS
<1> DEFINE I == IntakeInv /\ SafetyInv /\ TrustGrows /\ CheckpointInv /\ HonourInv
<1>1. IntakeInit => I
  <2>1. SUFFICES ASSUME IntakeInit PROVE I OBVIOUS
  <2>2. IntakeInv /\ CheckpointInv /\ SafetyInv
    BY <2>1, IntakeTypeInit, CheckpointInvInit, SafetyInductive DEF IntakeInit
  <2>3. TrustGrows
    BY <2>1, TreeAssumption, TrustAssumption DEF IntakeInit, Init, TrustGrows
  <2>4. HonourInv
    BY <2>1, TreeAssumption DEF IntakeInit, Init, CheckpointInit, HonourInv
  <2> QED BY <2>2, <2>3, <2>4
<1>2. I /\ [IntakeNext]_allVars => I'
  <2>1. SUFFICES ASSUME I, [IntakeNext]_allVars PROVE I' OBVIOUS
  <2>2. IntakeInv' /\ CheckpointInv' /\ HonourInv'
    BY <2>1, IntakeTypeStep, CheckpointStep, HonourStep DEF IntakeInv
  <2>3. SafetyInv' BY <2>1, ChainOrCall, SafetyInductive, CallSafety
  <2>4. TrustGrows'
    BY <2>1, ChainOrCall, GrowsStep DEF CallForCheckpoint, memVars, TrustGrows
  <2> QED BY <2>2, <2>3, <2>4
<1>3. I => BestHonoursCheckpoint BY DEF HonourInv, BestHonoursCheckpoint
<1> QED BY <1>1, <1>2, <1>3, PTL DEF IntakeSpec

---------------------------------------------------------------------------
(* The orphan blocks *)

Once(s) == \A i, j \in DOMAIN s : s[i] = s[j] => i = j
Entries(s) == {s[i] : i \in DOMAIN s}

(* Taking the first entry off a list without repetitions. *)
LEMMA TailEntries ==
  ASSUME NEW s \in Seq(Block), s # <<>>, Once(s)
  PROVE  /\ Once(Tail(s)) /\ Tail(s) \in Seq(Block)
         /\ Head(s) \in Block /\ Head(s) \in Entries(s)
         /\ Entries(Tail(s)) = Entries(s) \ {Head(s)}
<1>1. /\ Len(s) \in Nat \ {0} /\ DOMAIN s = 1 .. Len(s)
      /\ Tail(s) \in Seq(Block) /\ DOMAIN Tail(s) = 1 .. Len(s) - 1
      /\ \A i \in 1 .. Len(s) - 1 : Tail(s)[i] = s[i + 1]
      /\ Head(s) = s[1] /\ Head(s) \in Block
  OBVIOUS
<1>2. Once(Tail(s)) BY <1>1 DEF Once
<1>3. Head(s) \in Entries(s) BY <1>1 DEF Entries
<1>4. ASSUME NEW x \in Entries(Tail(s)) PROVE x \in Entries(s) \ {Head(s)}
  <2>1. PICK i \in 1 .. Len(s) - 1 : x = s[i + 1] BY <1>1, <1>4 DEF Entries
  <2>2. i + 1 \in DOMAIN s /\ 1 \in DOMAIN s /\ i + 1 # 1 BY <1>1, <2>1
  <2> QED BY <1>1, <2>1, <2>2 DEF Entries, Once
<1>5. ASSUME NEW x \in Entries(s), x # Head(s) PROVE x \in Entries(Tail(s))
  <2>1. PICK i \in 1 .. Len(s) : x = s[i] BY <1>1, <1>5 DEF Entries
  <2>2. i # 1 BY <1>1, <1>5, <2>1
  <2>3. i - 1 \in 1 .. Len(s) - 1 /\ Tail(s)[i - 1] = x BY <1>1, <2>1, <2>2
  <2> QED BY <1>1, <2>3 DEF Entries
<1> QED BY <1>1, <1>2, <1>3, <1>4, <1>5

(* Putting an entry at the end of a list. *)
LEMMA AppendEntries ==
  ASSUME NEW s \in Seq(Block), NEW b \in Block
  PROVE  /\ Append(s, b) \in Seq(Block) /\ Append(s, b) # <<>>
         /\ Entries(Append(s, b)) = Entries(s) \cup {b}
         /\ Once(s) /\ b \notin Entries(s) => Once(Append(s, b))
         /\ Head(Append(s, b)) = IF s = <<>> THEN b ELSE Head(s)
<1> DEFINE t == Append(s, b)
<1>1. /\ Len(s) \in Nat /\ DOMAIN s = 1 .. Len(s)
      /\ t \in Seq(Block) /\ DOMAIN t = 1 .. Len(s) + 1 /\ Len(t) = Len(s) + 1
      /\ \A i \in 1 .. Len(s) : t[i] = s[i]
      /\ t[Len(s) + 1] = b
  OBVIOUS
<1>2. t # <<>> BY <1>1
<1>3. ASSUME NEW x \in Entries(t) PROVE x \in Entries(s) \cup {b}
  <2>1. PICK i \in 1 .. Len(s) + 1 : x = t[i] BY <1>1, <1>3 DEF Entries
  <2>2. i \in 1 .. Len(s) \/ i = Len(s) + 1 BY <1>1, <2>1
  <2> QED BY <1>1, <2>1, <2>2 DEF Entries
<1>4. ASSUME NEW x \in Entries(s) \cup {b} PROVE x \in Entries(t)
  <2>1. CASE x = b
    <3>1. Len(s) + 1 \in DOMAIN t BY <1>1
    <3> QED BY <1>1, <2>1, <3>1 DEF Entries
  <2>2. CASE x \in Entries(s)
    <3>1. PICK i \in 1 .. Len(s) : x = s[i] BY <1>1, <2>2 DEF Entries
    <3>2. i \in DOMAIN t BY <1>1, <3>1
    <3> QED BY <1>1, <3>1, <3>2 DEF Entries
  <2> QED BY <1>4, <2>1, <2>2
<1>5. ASSUME Once(s), b \notin Entries(s) PROVE Once(t)
  <2>1. SUFFICES ASSUME NEW i \in DOMAIN t, NEW j \in DOMAIN t, t[i] = t[j] PROVE i = j
    BY DEF Once
  <2>2. \A k \in 1 .. Len(s) : s[k] # b BY <1>1, <1>5 DEF Entries
  <2>3. i \in 1 .. Len(s) \/ i = Len(s) + 1 BY <1>1
  <2>4. j \in 1 .. Len(s) \/ j = Len(s) + 1 BY <1>1
  <2> QED BY <1>1, <1>5, <2>1, <2>2, <2>3, <2>4 DEF Once
<1>6. Head(t) = IF s = <<>> THEN b ELSE Head(s)
  <2>1. CASE s = <<>> BY <1>1, <2>1
  <2>2. CASE s # <<>>
    <3>1. 1 \in 1 .. Len(s) BY <1>1, <2>2
    <3> QED BY <1>1, <2>2, <3>1
  <2> QED BY <2>1, <2>2
<1> QED BY <1>1, <1>2, <1>3, <1>4, <1>5, <1>6

(* The empty list has none. *)
LEMMA EmptyEntries == Once(<<>>) /\ Entries(<<>>) = {}
BY DEF Once, Entries

(* A call of ProcessBlock has accepted cand, and SetBestChain or what      *)
(* follows it is not done.                                                 *)
Accepting == task \in {"accept", "pending", "accepted"}

(* The invariant of the two maps.  The list of the block that the loop is  *)
(* at is the only one that may name orphans that are gone: it is cleared   *)
(* when vTry, what is left of it, is empty.  A block is queued once, and   *)
(* only when it has been accepted.                                         *)
ListsInv ==
  /\ \A p \in Block : Once(mapOrphanBlocksByPrev[p])
  /\ \A p \in Block : \A o \in Entries(mapOrphanBlocksByPrev[p]) :
       /\ Prev[o] = p
       /\ vWorkQueue = <<>> \/ p # Head(vWorkQueue) => o \in mapOrphanBlocks
  /\ \A o \in mapOrphanBlocks :
       Prev[o] \in Block /\ o \in Entries(mapOrphanBlocksByPrev[Prev[o]])

QueueInv ==
  /\ Once(vWorkQueue) /\ Once(vTry)
  /\ Entries(vWorkQueue) \subseteq mapBlockIndex
  /\ vWorkQueue # <<>> =>
       Entries(vTry) = {o \in mapOrphanBlocks : Prev[o] = Head(vWorkQueue)}
  /\ Accepting =>
       /\ cand \in mapBlockIndex \ Entries(vWorkQueue)
       /\ IF vWorkQueue = <<>> THEN cand \notin mapOrphanBlocks
          ELSE vTry # <<>> /\ cand = Head(vTry)

(* What SetBestChain has found about the block it was called for. *)
CallInv ==
  ~fTorn /\ task = "accept" =>
    /\ pc # "idle" => pindexNew = cand
    /\ pc = "idle" /\ AcceptFailed => ~Valid(cand)

(* An orphan waits for a block the node does not have, for one that cannot *)
(* be connected, or for one that ProcessBlock still has to come back to.   *)
WaitInv ==
  ~fTorn => \A o \in mapOrphanBlocks : Prev[o] \in mapBlockIndex =>
    \/ ~Valid(Prev[o])
    \/ Prev[o] \in Entries(vWorkQueue)
    \/ Accepting /\ Prev[o] = cand

(* So does a pending checkpoint. *)
PendingInv ==
  LET p == hashPendingCheckpoint IN
  ~fTorn /\ p \in mapBlockIndex =>
    \/ ~Valid(p)
    \/ task = "accept" /\ p = cand
    \/ /\ task = "pending"
       /\ pc # "idle" => pindexNew = p
       /\ pc = "idle" => pindexBest = p \/ ~Valid(p)

(* The steps that leave the orphans and the queue alone. *)
LEMMA QuietLists ==
  ASSUME ListsInv, QueueInv, mapBlockIndex \subseteq mapBlockIndex',
         UNCHANGED <<mapOrphanBlocks, mapOrphanBlocksByPrev, vWorkQueue, vTry>>,
         Accepting' => Accepting /\ cand' = cand
  PROVE  ListsInv' /\ QueueInv'
<1>1. ListsInv' BY DEF ListsInv
<1>2. QueueInv' BY DEF QueueInv
<1> QED BY <1>1, <1>2

(* A block is accepted: it is new, so it is not queued. *)
LEMMA AcceptLists ==
  ASSUME ListsInv, QueueInv, NEW b \in Block, BeginAccept(b), UNCHANGED <<orphanVars, loopVars>>,
         IF vWorkQueue = <<>> THEN b \notin mapOrphanBlocks ELSE vTry # <<>> /\ b = Head(vTry)
  PROVE  ListsInv' /\ QueueInv'
<1>1. /\ b \notin mapBlockIndex /\ mapBlockIndex' = mapBlockIndex \cup {b}
      /\ cand' = b /\ task' = "accept"
  BY DEF BeginAccept, PassesAcceptBlock, AcceptBlock
<1>2. UNCHANGED <<mapOrphanBlocks, mapOrphanBlocksByPrev, vWorkQueue, vTry>>
  BY DEF orphanVars, loopVars
<1>3. ListsInv' BY <1>2 DEF ListsInv
<1>4. QueueInv' BY <1>1, <1>2 DEF QueueInv
<1> QED BY <1>3, <1>4

(* The loop has done with the next orphan, which may have been queued. *)
LEMMA DropLists ==
  ASSUME IntakeTypeOK, ListsInv, QueueInv, vWorkQueue # <<>>, vTry # <<>>,
         mapOrphanBlocks' = mapOrphanBlocks \ {Head(vTry)}, vTry' = Tail(vTry),
         UNCHANGED <<mapOrphanBlocksByPrev, mapBlockIndex>>,
         \/ vWorkQueue' = vWorkQueue
         \/ /\ vWorkQueue' = Append(vWorkQueue, Head(vTry))
            /\ Head(vTry) \in mapBlockIndex \ Entries(vWorkQueue),
         ~Accepting'
  PROVE  ListsInv' /\ QueueInv'
<1> DEFINE o == Head(vTry)
<1>1. vWorkQueue \in Seq(Block) /\ vTry \in Seq(Block) BY DEF IntakeTypeOK
<1>2. Once(vTry) BY DEF QueueInv
<1>3. o \in Block /\ o \in Entries(vTry) /\ Once(Tail(vTry))
      /\ Entries(Tail(vTry)) = Entries(vTry) \ {o}
  BY <1>1, <1>2, TailEntries
<1>4. Prev[o] = Head(vWorkQueue) BY <1>3 DEF QueueInv
<1>5. /\ vWorkQueue' # <<>> /\ Head(vWorkQueue') = Head(vWorkQueue)
      /\ Once(vWorkQueue') /\ Entries(vWorkQueue') \subseteq mapBlockIndex
  <2>1. CASE vWorkQueue' = vWorkQueue BY <2>1 DEF QueueInv
  <2>2. CASE /\ vWorkQueue' = Append(vWorkQueue, o)
             /\ o \in mapBlockIndex \ Entries(vWorkQueue)
    BY <1>1, <1>3, <2>2, AppendEntries DEF QueueInv
  <2> QED BY <2>1, <2>2
<1>6. ListsInv'
  <2>1. \A p \in Block : Once(mapOrphanBlocksByPrev'[p]) BY DEF ListsInv
  <2>2. ASSUME NEW p \in Block, NEW x \in Entries(mapOrphanBlocksByPrev'[p])
        PROVE  Prev[x] = p /\ (vWorkQueue' = <<>> \/ p # Head(vWorkQueue') => x \in mapOrphanBlocks')
    <3>1. /\ Prev[x] = p
          /\ p # Head(vWorkQueue) => x \in mapOrphanBlocks
      BY <2>2 DEF ListsInv
    <3> QED BY <1>4, <1>5, <3>1
  <2>3. \A x \in mapOrphanBlocks' :
          Prev[x] \in Block /\ x \in Entries(mapOrphanBlocksByPrev'[Prev[x]])
    BY DEF ListsInv
  <2> QED BY <2>1, <2>2, <2>3 DEF ListsInv
<1>7. QueueInv'
  <2>1. Entries(vTry') = {x \in mapOrphanBlocks' : Prev[x] = Head(vWorkQueue')}
    BY <1>3, <1>5 DEF QueueInv
  <2> QED BY <1>3, <1>5, <2>1 DEF QueueInv
<1> QED BY <1>6, <1>7

(* The first block of the call is queued with the list of its orphans. *)
LEMMA FirstWorkLists ==
  ASSUME IntakeTypeOK, ListsInv, QueueInv, Accepting, vWorkQueue = <<>>, PushWork
  PROVE  ListsInv' /\ QueueInv'
<1>1. cand \in Block /\ cand \in mapBlockIndex /\ cand \notin mapOrphanBlocks
  BY DEF QueueInv, IntakeTypeOK
<1>2. /\ vWorkQueue' = Append(vWorkQueue, cand)
      /\ mapOrphanBlocks' = mapOrphanBlocks
      /\ vTry' = mapOrphanBlocksByPrev[cand] /\ ~Accepting'
      /\ UNCHANGED <<mapOrphanBlocksByPrev, mapBlockIndex>>
  BY <1>1 DEF PushWork, Accepting, vars, memVars
<1>3. vWorkQueue \in Seq(Block) BY DEF IntakeTypeOK
<1>4. /\ vWorkQueue' # <<>> /\ Head(vWorkQueue') = cand
      /\ Once(vWorkQueue') /\ Entries(vWorkQueue') = {cand}
  BY <1>1, <1>2, <1>3, AppendEntries, EmptyEntries
<1>5. ListsInv' BY <1>2, <1>4 DEF ListsInv
<1>6. Entries(vTry') = {x \in mapOrphanBlocks' : Prev[x] = cand} /\ Once(vTry')
  BY <1>1, <1>2 DEF ListsInv
<1> QED BY <1>1, <1>2, <1>4, <1>5, <1>6 DEF QueueInv

(* The list of a block goes when its orphans have been tried. *)
LEMMA NextWorkLists ==
  ASSUME IntakeInv, ListsInv, QueueInv, NextWork
  PROVE  /\ ListsInv' /\ QueueInv'
         /\ \A o \in mapOrphanBlocks : Prev[o] # Head(vWorkQueue)
         /\ Entries(vWorkQueue') = Entries(vWorkQueue) \ {Head(vWorkQueue)}
<1> USE DEF IntakeInv
<1> DEFINE h == Head(vWorkQueue)
           rest == Tail(vWorkQueue)
<1>1. /\ vTry = <<>> /\ vWorkQueue # <<>> /\ vWorkQueue \in Seq(Block)
      /\ mapOrphanBlocksByPrev' = [mapOrphanBlocksByPrev EXCEPT ![h] = <<>>]
      /\ vWorkQueue' = rest /\ UNCHANGED <<mapOrphanBlocks, mapBlockIndex>>
      /\ vTry' = IF rest = <<>> THEN <<>> ELSE mapOrphanBlocksByPrev[Head(rest)]
      /\ ~Accepting'
  BY DEF NextWork, LoopInv, IntakeTypeOK, Accepting, vars, memVars
<1>2. Once(vWorkQueue) BY DEF QueueInv
<1>3. /\ Once(rest) /\ rest \in Seq(Block) /\ h \in Block /\ h \in Entries(vWorkQueue)
      /\ Entries(rest) = Entries(vWorkQueue) \ {h}
  BY <1>1, <1>2, TailEntries
<1>4. \A o \in mapOrphanBlocks : Prev[o] # h BY <1>1, EmptyEntries DEF QueueInv
<1>5. rest # <<>> => Head(rest) \in Block /\ Head(rest) # h
  BY <1>3, TailEntries
<1>6. \A p \in Block : mapOrphanBlocksByPrev'[p] = IF p = h THEN <<>> ELSE mapOrphanBlocksByPrev[p]
  BY <1>1 DEF IntakeTypeOK
<1>7. ListsInv'
  <2>1. \A p \in Block : Once(mapOrphanBlocksByPrev'[p]) BY <1>6, EmptyEntries DEF ListsInv
  <2>2. ASSUME NEW p \in Block, NEW x \in Entries(mapOrphanBlocksByPrev'[p])
        PROVE  Prev[x] = p /\ x \in mapOrphanBlocks'
    <3>1. p # h /\ x \in Entries(mapOrphanBlocksByPrev[p]) BY <1>6, <2>2, EmptyEntries
    <3> QED BY <1>1, <3>1 DEF ListsInv
  <2>3. ASSUME NEW x \in mapOrphanBlocks'
        PROVE  Prev[x] \in Block /\ x \in Entries(mapOrphanBlocksByPrev'[Prev[x]])
    BY <1>1, <1>4, <1>6, <2>3 DEF ListsInv
  <2> QED BY <2>1, <2>2, <2>3 DEF ListsInv
<1>8. QueueInv'
  <2>1. CASE rest = <<>>
    BY <1>1, <1>3, <2>1, EmptyEntries DEF QueueInv
  <2>2. CASE rest # <<>>
    <3>1. Once(vTry') /\ Entries(vTry') = {x \in mapOrphanBlocks : Prev[x] = Head(rest)}
      BY <1>1, <1>5, <2>2 DEF ListsInv
    <3> QED BY <1>1, <1>3, <2>2, <3>1 DEF QueueInv
  <2> QED BY <2>1, <2>2
<1> QED BY <1>1, <1>3, <1>4, <1>7, <1>8

(* A new orphan goes into both maps. *)
LEMMA OrphanLists ==
  ASSUME IntakeInv, Genesis \in mapBlockIndex, ListsInv, QueueInv, NEW b \in Block, ProcessOrphanBlock(b)
  PROVE  ListsInv' /\ QueueInv'
<1> DEFINE m == mapOrphanBlocksByPrev
<1>1. /\ task = "none" /\ vWorkQueue = <<>> /\ b \notin mapBlockIndex /\ b \notin mapOrphanBlocks
      /\ mapOrphanBlocks' = mapOrphanBlocks \cup {b}
      /\ m' = [m EXCEPT ![Prev[b]] = Append(m[Prev[b]], b)]
      /\ UNCHANGED <<mapBlockIndex, task, cand, vWorkQueue, vTry>>
  BY DEF ProcessOrphanBlock, PassesProcessBlock, Ready, IntakeInv, LoopInv, loopVars, vars, memVars
<1>2. Prev[b] \in Block BY <1>1, ParentInBranch
<1>3. m \in [Block -> Seq(Block)] BY DEF IntakeInv, IntakeTypeOK
<1>4. b \notin Entries(m[Prev[b]]) BY <1>1, <1>2 DEF ListsInv
<1>5. /\ Once(Append(m[Prev[b]], b))
      /\ Entries(Append(m[Prev[b]], b)) = Entries(m[Prev[b]]) \cup {b}
  <2>1. m[Prev[b]] \in Seq(Block) /\ Once(m[Prev[b]]) BY <1>2, <1>3 DEF ListsInv
  <2> QED BY <1>4, <2>1, AppendEntries
<1>6. \A p \in Block : m'[p] = IF p = Prev[b] THEN Append(m[Prev[b]], b) ELSE m[p]
  BY <1>1, <1>3
<1>7. ListsInv'
  <2>1. \A p \in Block : Once(m'[p]) BY <1>5, <1>6 DEF ListsInv
  <2>2. ASSUME NEW p \in Block, NEW x \in Entries(m'[p])
        PROVE  Prev[x] = p /\ x \in mapOrphanBlocks'
    BY <1>1, <1>5, <1>6, <2>2 DEF ListsInv
  <2>3. ASSUME NEW x \in mapOrphanBlocks'
        PROVE  Prev[x] \in Block /\ x \in Entries(m'[Prev[x]])
    BY <1>1, <1>2, <1>5, <1>6, <2>3 DEF ListsInv
  <2> QED BY <2>1, <2>2, <2>3 DEF ListsInv
<1>8. QueueInv' BY <1>1 DEF QueueInv, Accepting
<1> QED BY <1>7, <1>8

(* A start begins with empty maps. *)
LEMMA RestartLists ==
  ASSUME IntakeRestart, task' \in {"none", "reset"}
  PROVE  ListsInv' /\ QueueInv'
<1>1. \A p \in Block : mapOrphanBlocksByPrev'[p] = <<>> BY DEF IntakeRestart
<1>2. ~Accepting' BY DEF Accepting
<1> QED BY <1>1, <1>2, EmptyEntries DEF IntakeRestart, ListsInv, QueueInv

(* Every action keeps the two maps and the queue in order. *)
LEMMA ListsStep ==
  ASSUME IntakeInv, Genesis \in mapBlockIndex, ListsInv, QueueInv, [IntakeNext]_allVars
  PROVE  ListsInv' /\ QueueInv'
<1> USE DEF IntakeInv
<1>a. ASSUME UNCHANGED mapBlockIndex, UNCHANGED <<orphanVars, loopVars>>, ~Accepting' PROVE ListsInv' /\ QueueInv'
  BY <1>a, QuietLists DEF orphanVars, loopVars
<1>b. ASSUME UNCHANGED mapBlockIndex, UNCHANGED <<orphanVars, loopVars, cand>>, Accepting PROVE ListsInv' /\ QueueInv'
  BY <1>b, QuietLists DEF orphanVars, loopVars
<1> USE DEF vars, memVars
<1>1. CASE Step /\ UNCHANGED <<checkpointVars, intakeVars>>
  BY <1>1, <1>a, <1>b, StepKeepsIndex DEF intakeVars, Accepting
<1>2. CASE AcceptFails
  <2>1. CASE vWorkQueue # <<>> /\ DropOrphan(cand) /\ task' = "loop"
    <3>1. vTry # <<>> /\ cand = Head(vTry) BY <1>2, <2>1 DEF AcceptFails, QueueInv, Accepting
    <3> QED BY <1>2, <2>1, <3>1, DropLists DEF AcceptFails, DropOrphan, Accepting
  <2>2. CASE task' = "none" /\ UNCHANGED <<orphanVars, loopVars>>
    BY <1>2, <1>a, <2>2 DEF AcceptFails, Accepting
  <2> QED BY <1>2, <2>1, <2>2 DEF AcceptFails
<1>3. CASE Accepted
  <2>1. task = "accept" /\ UNCHANGED mapBlockIndex BY <1>3 DEF Accepted
  <2>2. UNCHANGED <<orphanVars, loopVars, cand>> BY <1>3 DEF Accepted
  <2> QED BY <1>b, <2>1, <2>2 DEF Accepting
<1>4. CASE PendingDone
  <2>1. UNCHANGED <<orphanVars, loopVars, cand, mapBlockIndex>> /\ Accepting
    BY <1>4 DEF PendingDone, Accepting
  <2> QED BY <1>b, <2>1
<1>5. CASE PushWork
  <2>1. Accepting BY <1>5 DEF PushWork, Accepting
  <2>2. CASE vWorkQueue # <<>>
    <3>1. vTry # <<>> /\ cand = Head(vTry) /\ cand \in mapBlockIndex \ Entries(vWorkQueue)
      BY <2>1, <2>2 DEF QueueInv
    <3> QED BY <1>5, <2>2, <3>1, DropLists DEF PushWork, Accepting
  <2> QED BY <1>5, <2>1, <2>2, FirstWorkLists
<1>6. CASE TryOrphan
  <2>1. Head(vTry) \in Block /\ vWorkQueue # <<>> BY <1>6 DEF TryOrphan, IntakeTypeOK, LoopInv
  <2> QED BY <1>6, <2>1, AcceptLists DEF TryOrphan
<1>7. CASE RefuseOrphan
  <2>1. vWorkQueue # <<>> BY <1>7 DEF RefuseOrphan, LoopInv
  <2> QED BY <1>7, <2>1, DropLists DEF RefuseOrphan, DropOrphan, Accepting
<1>8. CASE NextWork BY <1>8, NextWorkLists
<1>9. ASSUME NEW c, ProcessSyncCheckpoint(c) PROVE ListsInv' /\ QueueInv'
  <2>1. UNCHANGED <<orphanVars, loopVars, mapBlockIndex>> /\ task' \in {"none", "message"}
    BY <1>9 DEF ProcessSyncCheckpoint
  <2> QED BY <1>a, <2>1 DEF Accepting
<1>10. CASE SendSyncCheckpoint BY <1>9, <1>10 DEF SendSyncCheckpoint
<1>11. CASE MessageDone BY <1>11, <1>a DEF MessageDone, Accepting
<1>12. CASE BeginReset
  <2>1. UNCHANGED mapBlockIndex /\ task' \in {"none", "resetting"}
    BY <1>12 DEF BeginReset, Reset
  <2> QED BY <1>12, <1>a, <2>1 DEF BeginReset, Accepting
<1>13. CASE ResetDone
  <2>1. task' \in {"none", "down"} BY <1>13 DEF ResetDone, Reset
  <2> QED BY <1>13, <1>a, <2>1 DEF ResetDone, Accepting
<1>14. ASSUME NEW b \in Block, ProcessBlock(b) PROVE ListsInv' /\ QueueInv'
  <2>1. vWorkQueue = <<>> /\ b \notin mapOrphanBlocks
    BY <1>14 DEF ProcessBlock, PassesProcessBlock, Ready, LoopInv
  <2> QED BY <1>14, <2>1, AcceptLists DEF ProcessBlock
<1>15. ASSUME NEW b \in Block, ProcessOrphanBlock(b) PROVE ListsInv' /\ QueueInv'
  BY <1>15, OrphanLists
<1>16. ASSUME NEW c \in Announced, ReceiveCheckpoint(c) PROVE ListsInv' /\ QueueInv'
  BY <1>9, <1>16 DEF ReceiveCheckpoint
<1>17. CASE Restarted BY <1>17, RestartLists DEF Restarted
<1>18. CASE RestartNewKey BY <1>18, RestartLists DEF RestartNewKey
<1>19. CASE UNCHANGED allVars
  BY <1>19, <1>a, <1>b DEF allVars, intakeVars, Accepting
<1> QED BY <1>1, <1>2, <1>3, <1>4, <1>5, <1>6, <1>7, <1>8, <1>10, <1>11, <1>12, <1>13, <1>14,
           <1>15, <1>16, <1>17, <1>18, <1>19 DEF IntakeNext, IntakeStep

(* SetBestChain is called for the block that AcceptBlock has indexed, or   *)
(* the block does not outweigh the best one.                               *)
LEMMA AcceptCalls ==
  ASSUME SafetyInv, NEW b \in Block, BeginAccept(b)
  PROVE  /\ CallInv'
         /\ mapBlockIndex' = mapBlockIndex \cup {b} /\ fTorn' = fTorn
         /\ task' = "accept" /\ cand' = b
<1>1. /\ b \notin mapBlockIndex /\ mapBlockIndex' = mapBlockIndex \cup {b}
      /\ task' = "accept" /\ cand' = b
      /\ pindexBest' = pindexBest /\ fTorn' = fTorn
      /\ nChainTrust' = [nChainTrust EXCEPT ![b] = nChainTrust[Prev[b]] + GetBlockTrust(b)]
      /\ IF nChainTrust'[b] > nChainTrust[pindexBest] THEN CallSetBestChain(b) ELSE Return
  BY DEF BeginAccept, PassesAcceptBlock, AcceptBlock
<1>2. nChainTrust'[pindexBest] = nChainTrust[pindexBest]
  BY <1>1 DEF SafetyInv, Indexed, TypeOK
<1> QED BY <1>1, <1>2 DEF CallInv, AcceptFailed, CallSetBestChain, Return

(* What has been found about a block stays so, and a torn chain torn.      *)
LEMMA CallStays ==
  ASSUME IntakeInv, SafetyInv, CallInv, [IntakeNext]_allVars
  PROVE  CallInv' /\ (fTorn => fTorn')
<1>1. fTorn => fTorn'
  <2>1. ASSUME Next PROVE fTorn => fTorn'
    BY <2>1 DEF Next, Step, AcceptBlock, ConnectTip, ConnectTipFails, Postpone, Reorganize,
       ReorgDisconnect, ReorgConnect, ReorgFails, ReorgCommit, ConnectSecondary, SecondaryFails,
       NewBest, Restart, RestartFrom, LoadBlockIndex
  <2> QED BY <2>1, ChainOrCall DEF CallForCheckpoint, vars
<1>2. CASE task' # "accept" BY <1>1, <1>2 DEF CallInv
<1>3. CASE Step /\ UNCHANGED <<checkpointVars, intakeVars>>
  <2>1. SUFFICES ASSUME ~fTorn', task = "accept" PROVE CallInv'
    BY <1>1, <1>3 DEF CallInv, intakeVars
  <2>2. /\ ~fTorn /\ pc # "idle" /\ UNCHANGED nChainTrust
        /\ pc' # "idle" => pindexNew' = pindexNew
        /\ pc' = "idle" => pindexBest' = pindexNew \/ ~Valid(pindexNew)
    BY <1>3, <2>1, StepGoesOn
  <2>3. pindexNew = cand /\ cand' = cand BY <1>3, <2>1, <2>2 DEF CallInv, intakeVars
  <2>4. cand \in Block /\ nChainTrust[cand] \in Nat BY DEF IntakeInv, IntakeTypeOK, TypeOK
  <2> QED BY <2>2, <2>3, <2>4 DEF CallInv, AcceptFailed
<1>4. CASE TryOrphan
  <2>1. Head(vTry) \in Block BY <1>4 DEF TryOrphan, IntakeInv, IntakeTypeOK
  <2> QED BY <1>1, <1>4, <2>1, AcceptCalls DEF TryOrphan
<1>5. ASSUME NEW b \in Block, ProcessBlock(b) PROVE CallInv'
  BY <1>5, AcceptCalls DEF ProcessBlock
<1>6. CASE UNCHANGED allVars
  BY <1>6 DEF allVars, vars, memVars, callVars, intakeVars, CallInv, AcceptFailed
<1>7. CASE AcceptFails \/ Accepted \/ PendingDone \/ PushWork \/ SendSyncCheckpoint \/ MessageDone
  BY <1>2, <1>7 DEF AcceptFails, Accepted, PendingDone, PushWork, SendSyncCheckpoint, MessageDone,
     ProcessSyncCheckpoint
<1>8. CASE RefuseOrphan \/ NextWork \/ BeginReset \/ ResetDone
  BY <1>2, <1>8 DEF RefuseOrphan, NextWork, BeginReset, ResetDone, Reset
<1>9. CASE \/ \E b \in Block : ProcessOrphanBlock(b)
           \/ \E c \in Announced : ReceiveCheckpoint(c)
           \/ Restarted \/ RestartNewKey
  BY <1>2, <1>9 DEF ProcessOrphanBlock, ReceiveCheckpoint, ProcessSyncCheckpoint, Ready, Restarted,
     RestartNewKey
<1> QED BY <1>1, <1>3, <1>4, <1>5, <1>6, <1>7, <1>8, <1>9 DEF IntakeNext, IntakeStep

(* Orphans never wait in vain. *)
LEMMA WaitStep ==
  ASSUME IntakeInv, SafetyInv, ListsInv, QueueInv, CallInv, WaitInv, [IntakeNext]_allVars
  PROVE  WaitInv'
<1> USE DEF IntakeInv
<1>0. fTorn => fTorn' BY CallStays
<1>1. SUFFICES ASSUME ~fTorn, ~fTorn' PROVE WaitInv' BY <1>0 DEF WaitInv
<1>a. ASSUME mapBlockIndex' = mapBlockIndex, mapOrphanBlocks' \subseteq mapOrphanBlocks,
             vWorkQueue' = vWorkQueue, ~Accepting \/ (Accepting' /\ cand' = cand)
      PROVE  WaitInv'
  BY <1>1, <1>a DEF WaitInv
<1>b. ASSUME NEW b \in Block, BeginAccept(b), UNCHANGED <<orphanVars, loopVars>>, ~Accepting
      PROVE  WaitInv'
  BY <1>1, <1>b, AcceptCalls DEF WaitInv, Accepting, orphanVars, loopVars
<1> USE DEF vars, memVars, orphanVars, loopVars
<1>2. CASE Step /\ UNCHANGED <<checkpointVars, intakeVars>>
  BY <1>2, <1>a, StepKeepsIndex DEF intakeVars, Accepting
<1>3. CASE AcceptFails
  <2>1. ~Valid(cand) BY <1>1, <1>3 DEF AcceptFails, CallInv
  <2>2. /\ UNCHANGED <<mapBlockIndex, vWorkQueue>>
        /\ mapOrphanBlocks' \subseteq mapOrphanBlocks /\ ~Accepting'
    BY <1>3 DEF AcceptFails, DropOrphan, Accepting
  <2> QED BY <1>1, <2>1, <2>2 DEF WaitInv
<1>4. CASE Accepted \/ PendingDone
  BY <1>4, <1>a DEF Accepted, PendingDone, Accepting
<1>5. CASE PushWork
  <2>1. Entries(vWorkQueue') = Entries(vWorkQueue) \cup {cand}
    BY <1>5, AppendEntries DEF PushWork, IntakeTypeOK
  <2>2. UNCHANGED mapBlockIndex /\ mapOrphanBlocks' \subseteq mapOrphanBlocks BY <1>5 DEF PushWork
  <2> QED BY <1>1, <2>1, <2>2 DEF WaitInv
<1>6. CASE TryOrphan
  <2>1. Head(vTry) \in Block BY <1>6 DEF TryOrphan, IntakeTypeOK
  <2> QED BY <1>6, <1>b, <2>1 DEF TryOrphan, Accepting
<1>7. CASE RefuseOrphan
  BY <1>7, <1>a DEF RefuseOrphan, DropOrphan, Accepting
<1>8. CASE NextWork
  <2>1. /\ \A o \in mapOrphanBlocks : Prev[o] # Head(vWorkQueue)
        /\ Entries(vWorkQueue') = Entries(vWorkQueue) \ {Head(vWorkQueue)}
    BY <1>8, NextWorkLists
  <2>2. ~Accepting /\ UNCHANGED <<mapBlockIndex, mapOrphanBlocks>> BY <1>8 DEF NextWork, Accepting
  <2> QED BY <1>1, <2>1, <2>2 DEF WaitInv
<1>9. ASSUME NEW c, ProcessSyncCheckpoint(c), ~Accepting PROVE WaitInv'
  BY <1>9, <1>a DEF ProcessSyncCheckpoint
<1>10. CASE SendSyncCheckpoint BY <1>9, <1>10 DEF SendSyncCheckpoint, Accepting
<1>11. CASE MessageDone BY <1>11, <1>a DEF MessageDone, Accepting
<1>12. CASE BeginReset \/ ResetDone
  BY <1>12, <1>a DEF BeginReset, ResetDone, Reset, Accepting
<1>13. ASSUME NEW b \in Block, ProcessBlock(b) PROVE WaitInv'
  BY <1>13, <1>b DEF ProcessBlock, Ready, Accepting
<1>14. ASSUME NEW b \in Block, ProcessOrphanBlock(b) PROVE WaitInv'
  <2>1. /\ Prev[b] \notin mapBlockIndex /\ mapOrphanBlocks' = mapOrphanBlocks \cup {b}
        /\ UNCHANGED <<mapBlockIndex, vWorkQueue>> /\ ~Accepting
    BY <1>14 DEF ProcessOrphanBlock, Ready, Accepting
  <2> QED BY <1>1, <2>1 DEF WaitInv
<1>15. ASSUME NEW c \in Announced, ReceiveCheckpoint(c) PROVE WaitInv'
  BY <1>9, <1>15 DEF ReceiveCheckpoint, Ready, Accepting
<1>16. CASE Restarted \/ RestartNewKey
  BY <1>16 DEF Restarted, RestartNewKey, IntakeRestart, WaitInv
<1>17. CASE UNCHANGED allVars
  BY <1>17, <1>a DEF allVars, intakeVars, Accepting
<1> QED BY <1>2, <1>3, <1>4, <1>5, <1>6, <1>7, <1>8, <1>10, <1>11, <1>12, <1>13, <1>14, <1>15,
           <1>16, <1>17 DEF IntakeNext, IntakeStep

(* Nor does a pending checkpoint. *)
LEMMA PendingStep ==
  ASSUME IntakeInv, SafetyInv, CallInv, PendingInv, [IntakeNext]_allVars
  PROVE  PendingInv'
<1> DEFINE p == hashPendingCheckpoint
<1> USE DEF IntakeInv
<1>0. fTorn => fTorn' BY CallStays
<1>1. SUFFICES ASSUME ~fTorn, ~fTorn' PROVE PendingInv' BY <1>0 DEF PendingInv
<1>2. NULL \notin mapBlockIndex /\ NULL \notin mapBlockIndex'
  BY IntakeTypeStep, NullAssumption DEF TypeOK
<1>a. ASSUME mapBlockIndex' = mapBlockIndex, p' = p, task \notin {"accept", "pending"}
      PROVE  PendingInv'
  BY <1>1, <1>a DEF PendingInv
<1>b. ASSUME NEW b \in Block, BeginAccept(b), UNCHANGED checkpointVars, task \notin {"accept", "pending"}
      PROVE  PendingInv'
  BY <1>1, <1>b, AcceptCalls DEF PendingInv, checkpointVars, pendingVars
<1>c. ASSUME p' = NULL PROVE PendingInv' BY <1>2, <1>c DEF PendingInv
<1> USE DEF vars, memVars, checkpointVars, pendingVars
<1>3. CASE Step /\ UNCHANGED <<checkpointVars, intakeVars>>
  BY <1>1, <1>3, StepGoesOn DEF intakeVars, PendingInv
<1>4. CASE AcceptFails
  <2>1. ~Valid(cand) BY <1>1, <1>4 DEF AcceptFails, CallInv
  <2> QED BY <1>1, <1>4, <2>1 DEF AcceptFails, PendingInv
<1>5. CASE Accepted
  <2>1. CASE p \notin mapBlockIndex /\ UNCHANGED <<vars, checkpointVars>>
    BY <1>1, <2>1 DEF PendingInv
  <2>2. CASE DropPending \/ TakeSyncCheckpoint(p, checkpointMessagePending)
    BY <1>c, <2>2 DEF DropPending, TakeSyncCheckpoint
  <2>3. CASE CallSetBestChain(p) /\ task' = "pending" /\ UNCHANGED checkpointVars
    BY <1>1, <2>3 DEF CallSetBestChain, PendingInv
  <2> QED BY <1>5, <2>1, <2>2, <2>3 DEF Accepted
<1>6. CASE PendingDone
  <2>1. CASE TakeSyncCheckpoint(p, checkpointMessagePending) BY <1>c, <2>1 DEF TakeSyncCheckpoint
  <2>2. CASE pindexBest # p /\ SyncCheckpointFails(p)
    BY <1>1, <1>6, <2>2 DEF PendingDone, SyncCheckpointFails, PendingInv
  <2> QED BY <1>6, <2>1, <2>2 DEF PendingDone
<1>7. CASE PushWork \/ RefuseOrphan \/ NextWork
  BY <1>7, <1>a DEF PushWork, RefuseOrphan, NextWork
<1>8. CASE TryOrphan
  <2>1. Head(vTry) \in Block BY <1>8 DEF TryOrphan, IntakeTypeOK
  <2> QED BY <1>8, <1>b, <2>1 DEF TryOrphan
<1>9. ASSUME NEW c, ProcessSyncCheckpoint(c), task \notin {"accept", "pending"} PROVE PendingInv'
  <2>1. CASE KeepPending(c) /\ UNCHANGED vars BY <2>1 DEF KeepPending, PendingInv
  <2>2. CASE TakeSyncCheckpoint(c, c) BY <1>c, <2>2 DEF TakeSyncCheckpoint
  <2>3. CASE UNCHANGED pendingVars /\ UNCHANGED mapBlockIndex BY <1>9, <1>a, <2>3
  <2> QED BY <1>9, <2>1, <2>2, <2>3 DEF ProcessSyncCheckpoint, RejectSyncCheckpoint
<1>10. CASE SendSyncCheckpoint BY <1>9, <1>10 DEF SendSyncCheckpoint
<1>11. CASE MessageDone
  BY <1>11, <1>a, <1>c DEF MessageDone, TakeSyncCheckpoint, SyncCheckpointFails
<1>12. ASSUME Reset, UNCHANGED vars, task \notin {"accept", "pending"} PROVE PendingInv'
  <2>1. CASE p' = p BY <1>12, <1>a, <2>1
  <2>2. CASE p' \notin mapBlockIndex BY <1>12, <2>2 DEF PendingInv
  <2> QED BY <1>12, <2>1, <2>2 DEF Reset, ResetSyncCheckpoint
<1>13. CASE BeginReset BY <1>12, <1>13, <1>a DEF BeginReset
<1>14. CASE ResetDone BY <1>12, <1>14, <1>a DEF ResetDone
<1>15. ASSUME NEW b \in Block, ProcessBlock(b) PROVE PendingInv'
  BY <1>15, <1>b DEF ProcessBlock, Ready
<1>16. ASSUME NEW b \in Block, ProcessOrphanBlock(b) PROVE PendingInv'
  BY <1>16, <1>a DEF ProcessOrphanBlock, Ready
<1>17. ASSUME NEW c \in Announced, ReceiveCheckpoint(c) PROVE PendingInv'
  BY <1>9, <1>17 DEF ReceiveCheckpoint, Ready
<1>18. CASE Restarted \/ RestartNewKey
  BY <1>18, <1>c DEF Restarted, RestartNewKey, IntakeRestart, CheckpointRestart
<1>19. CASE UNCHANGED allVars
  BY <1>1, <1>19 DEF allVars, intakeVars, callVars, PendingInv
<1> QED BY <1>3, <1>4, <1>5, <1>6, <1>7, <1>8, <1>10, <1>11, <1>13, <1>14, <1>15, <1>16, <1>17,
           <1>18, <1>19 DEF IntakeNext, IntakeStep

AccountsInv == IntakeInv /\ SafetyInv /\ ListsInv /\ QueueInv /\ CallInv /\ WaitInv /\ PendingInv

(* The conjunction is inductive. *)
LEMMA AccountsInductive ==
  /\ IntakeInit => AccountsInv
  /\ AccountsInv /\ [IntakeNext]_allVars => AccountsInv'
<1>1. ASSUME IntakeInit PROVE AccountsInv
  <2>1. IntakeInv /\ SafetyInv BY <1>1, IntakeTypeInit, SafetyInductive DEF IntakeInit
  <2>2. \A b \in Block : mapOrphanBlocksByPrev[b] = <<>> BY <1>1 DEF IntakeInit
  <2>3. ListsInv /\ QueueInv
    BY <1>1, <2>2, EmptyEntries DEF IntakeInit, ListsInv, QueueInv, Accepting
  <2>4. CallInv /\ WaitInv BY <1>1 DEF IntakeInit, CallInv, WaitInv
  <2>5. hashPendingCheckpoint \notin mapBlockIndex
    BY <1>1, NullAssumption, TreeAssumption DEF IntakeInit, Init, CheckpointInit
  <2>6. PendingInv BY <2>5 DEF PendingInv
  <2> QED BY <2>1, <2>3, <2>4, <2>6 DEF AccountsInv
<1>2. ASSUME AccountsInv, [IntakeNext]_allVars PROVE AccountsInv'
  <2>1. Genesis \in mapBlockIndex BY <1>2 DEF AccountsInv, SafetyInv, Indexed
  <2>2. IntakeInv' /\ ListsInv' /\ QueueInv' BY <1>2, <2>1, IntakeTypeStep, ListsStep DEF AccountsInv
  <2>3. SafetyInv' BY <1>2, ChainOrCall, SafetyInductive, CallSafety DEF AccountsInv
  <2>4. CallInv' /\ WaitInv' /\ PendingInv'
    BY <1>2, CallStays, WaitStep, PendingStep DEF AccountsInv
  <2> QED BY <2>2, <2>3, <2>4 DEF AccountsInv
<1> QED BY <1>1, <1>2

(* Between two calls the two maps name the same orphans, each once, and no *)
(* orphan waits for a valid block that the node has accepted: whatever     *)
(* order the blocks came in, through orphans that are dropped in the       *)
(* middle of the loop, checkpoints that are taken in it, and crashes.      *)
THEOREM OrphansAccounted == IntakeSpec => []OrphanBlocksAccounted
<1>1. ASSUME AccountsInv, Ready PROVE OrphanBlocksIndexed /\ NoOrphanStranded
  <2>1. vWorkQueue = <<>> /\ ~Accepting
    BY <1>1 DEF AccountsInv, IntakeInv, LoopInv, Ready, Accepting
  <2>2. OrphanBlocksIndexed
    BY <1>1, <2>1 DEF AccountsInv, ListsInv, Once, Entries, OrphanBlocksIndexed
  <2>3. NoOrphanStranded
    BY <1>1, <2>1, EmptyEntries DEF AccountsInv, WaitInv, NoOrphanStranded
  <2> QED BY <2>2, <2>3
<1>2. AccountsInv => OrphanBlocksAccounted
  BY <1>1 DEF OrphanBlocksAccounted, OrphanBlocksIndexed, NoOrphanStranded
<1> QED BY <1>2, AccountsInductive, PTL DEF IntakeSpec

(* A pending checkpoint is taken as soon as ProcessBlock has accepted its  *)
(* block, itself or as an orphan of another: if it is still pending then,  *)
(* its branch does not connect.                                            *)
THEOREM PendingIsTaken == IntakeSpec => []PendingTaken
<1>1. AccountsInv => PendingTaken BY DEF AccountsInv, PendingInv, PendingTaken, Ready
<1> QED BY <1>1, AccountsInductive, PTL DEF IntakeSpec

---------------------------------------------------------------------------
(* The checkpoints of the holder of the master key *)

(* Two blocks of one branch. *)
SameBranch(a, b) == a \in Chain[b] \/ b \in Chain[a]

(* Blocks with a common descendant are on one branch. *)
LEMMA BranchIsLine ==
  ASSUME NEW b \in Block, NEW a \in Chain[b], NEW c \in Chain[b]
  PROVE  SameBranch(a, c)
<1>1. a \in Block /\ c \in Block /\ Height[a] \in Nat /\ Height[c] \in Nat BY TreeAssumption
<1>2. ASSUME NEW x \in Chain[b], NEW y \in Chain[b], Height[x] <= Height[y], x \in Block, y \in Block
      PROVE  x \in Chain[y]
  <2>1. Height[x] \in 0 .. Height[y] BY <1>2, TreeAssumption
  <2>2. PICK z \in Chain[y] : Height[z] = Height[x] BY <1>2, <2>1, Branches DEF IsBranch
  <2>3. z \in Chain[b] BY <1>2, Branches DEF IsBranch
  <2> QED BY <1>2, <2>2, <2>3, Branches DEF IsBranch
<1>3. Height[a] <= Height[c] \/ Height[c] <= Height[a] BY <1>1
<1> QED BY <1>1, <1>2, <1>3 DEF SameBranch

(* What is on the branch of a block is so with all its ancestors. *)
LEMMA BranchGoesDown ==
  ASSUME NEW s \in Block, NEW b \in Block, SameBranch(s, b), NEW a \in Chain[b]
  PROVE  SameBranch(s, a)
<1>1. CASE s \in Chain[b] BY <1>1, BranchIsLine
<1>2. CASE b \in Chain[s] BY <1>2, Branches DEF IsBranch, SameBranch
<1> QED BY <1>1, <1>2 DEF SameBranch

(* The invariant.  With -startfrom the committed chain may fall back below *)
(* the checkpoint, but it stays on its branch.                              *)
BranchInv ==
  resetDue \/ fTorn \/
    /\ SameBranch(hashSyncCheckpoint, dbBest)
    /\ pc # "idle" => SameBranch(hashSyncCheckpoint, pindexNew)

(* Whatever part of the way to its block SetBestChain commits. *)
LEMMA BranchChain ==
  ASSUME SafetyInv, CheckpointInv, BranchInv, Step, UNCHANGED <<hashSyncCheckpoint, resetDue>>
  PROVE  BranchInv'
<1> DEFINE s == hashSyncCheckpoint
<1> USE DEF SafetyInv, memVars, dbVars
<1>1. CASE fTorn'
  BY <1>1 DEF BranchInv
<1>2. SUFFICES ASSUME ~fTorn', ~resetDue PROVE BranchInv' BY <1>1 DEF BranchInv
<1>3. ~fTorn /\ pc # "idle" /\ (pc' # "idle" => pindexNew' = pindexNew)
  BY <1>2, StepGoesOn
<1>4. s \in Block /\ dbBest \in Block /\ pindexNew \in Block
  BY DEF CheckpointInv, TypeOK
<1>5. SameBranch(s, dbBest) /\ SameBranch(s, pindexNew) BY <1>2, <1>3 DEF BranchInv
<1>6. dbBest' \in {dbBest} \cup Chain[pindexNew]
  <2>1. CASE ConnectTip
    BY <1>4, <2>1, ParentInBranch DEF ConnectTip, CommitInner
  <2>2. CASE ReorgCommit BY <2>2 DEF ReorgCommit, Positions
  <2>3. CASE ConnectSecondary
    <3>1. NextOn(pindex, pindexNew) \in Chain[pindexNew]
      BY <1>4, <2>3, NextOnIs DEF ConnectSecondary, Positions
    <3> QED BY <2>3, <3>1 DEF ConnectSecondary, CommitInner
  <2>4. CASE \/ ConnectTipFails \/ Postpone \/ Reorganize \/ ReorgDisconnect \/ ReorgConnect
             \/ ReorgFails \/ SecondaryFails \/ NewBest
    BY <2>4 DEF ConnectTipFails, Postpone, Reorganize, ReorgDisconnect, ReorgConnect, ReorgFails,
       SecondaryFails, NewBest
  <2> QED BY <2>1, <2>2, <2>3, <2>4 DEF Step
<1>7. SameBranch(s, dbBest') BY <1>4, <1>5, <1>6, BranchGoesDown
<1> QED BY <1>2, <1>3, <1>5, <1>7 DEF BranchInv, SameBranch

(* SetBestChain is called for a block of the branch. *)
LEMMA BranchCall ==
  ASSUME BranchInv, NEW c, resetDue \/ SameBranch(hashSyncCheckpoint, c), CallSetBestChain(c) \/ Return,
         UNCHANGED <<dbBest, fTorn, hashSyncCheckpoint, resetDue>>
  PROVE  BranchInv'
BY DEF BranchInv, CallSetBestChain, Return, SameBranch

(* The checkpoint moves within the best chain, between two calls. *)
LEMMA BranchTake ==
  ASSUME pc = "idle", UNCHANGED vars, resetDue' \/ fTorn \/ hashSyncCheckpoint' \in Chain[dbBest]
  PROVE  BranchInv'
BY DEF BranchInv, vars, dbVars, callVars, SameBranch

(* The steps that leave chain and checkpoint alone. *)
LEMMA BranchQuiet ==
  ASSUME BranchInv, UNCHANGED <<vars, hashSyncCheckpoint, resetDue>>
  PROVE  BranchInv'
BY DEF BranchInv, vars, dbVars, callVars, SameBranch

(* A start may go back on its own chain. *)
LEMMA BranchRestart ==
  ASSUME SafetyInv, CheckpointInv, BranchInv, Restart \/ \E h \in StartFrom : RestartFrom(h),
         hashSyncCheckpoint' = hashSyncCheckpoint, resetDue => resetDue'
  PROVE  BranchInv'
<1>1. CASE Restart
  BY <1>1 DEF BranchInv, Restart, LoadBlockIndex, Return, dbVars, SameBranch
<1>2. CASE \E h \in StartFrom : RestartFrom(h)
  <2>1. PICK h \in StartFrom : RestartFrom(h) BY <1>2
  <2>2. hashSyncCheckpoint \in Block /\ dbBest \in Block
    BY DEF SafetyInv, TypeOK, CheckpointInv
  <2>3. pindexNew' \in Chain[dbBest] /\ dbBest' = dbBest /\ fTorn' = fTorn
    BY <2>1, <2>2, ForkBackIs DEF RestartFrom, CallSetBestChain, LoadBlockIndex, dbVars
  <2>4. CASE resetDue' \/ fTorn BY <2>3, <2>4 DEF BranchInv
  <2>5. CASE ~resetDue /\ ~fTorn
    <3>1. SameBranch(hashSyncCheckpoint, dbBest) BY <2>5 DEF BranchInv
    <3>2. SameBranch(hashSyncCheckpoint, pindexNew') BY <2>2, <2>3, <3>1, BranchGoesDown
    <3> QED BY <2>3, <3>1, <3>2 DEF BranchInv, SameBranch
  <2> QED BY <2>4, <2>5
<1> QED BY <1>1, <1>2

(* Every action keeps BranchInv. *)
LEMMA BranchStep ==
  ASSUME CheckpointsMode = "STRICT", IntakeInv, SafetyInv, CheckpointInv, BranchInv, [IntakeNext]_allVars
  PROVE  BranchInv'
<1>a. ASSUME NEW b \in Block, BeginAccept(b), UNCHANGED <<checkpointVars, keyVars>> PROVE BranchInv'
  <2>1. /\ UNCHANGED <<dbBest, fTorn>>
        /\ CallSetBestChain(b) \/ Return
    BY <1>a DEF BeginAccept, AcceptBlock
  <2> QED BY <1>a, <2>1, AcceptDescends, BranchCall DEF SameBranch, checkpointVars, keyVars
<1>b. ASSUME pc = "idle", UNCHANGED <<vars, resetDue>>, NEW c \in Block, IsInMainChain(c),
             hashSyncCheckpoint' = c
      PROVE  BranchInv'
  BY <1>b, MainChainIs, BranchTake
<1>c. ASSUME NEW c, ValidateSyncCheckpoint(c), CallSetBestChain(c),
             UNCHANGED <<dbVars, fTorn, checkpointVars, keyVars>>
      PROVE  BranchInv'
  BY <1>c, BranchCall DEF ValidateSyncCheckpoint, SameBranch, keyVars, checkpointVars, dbVars
<1>d. ASSUME NEW c \in Block, pc = "idle", ProcessSyncCheckpoint(c) PROVE BranchInv'
  <2>1. CASE KeepPending(c) \/ RejectSyncCheckpoint(c)
    BY <1>d, <2>1, BranchQuiet DEF KeepPending, RejectSyncCheckpoint, ProcessSyncCheckpoint, keyVars,
       CheckpointInv, ValidateSyncCheckpoint
  <2>2. CASE IsInMainChain(c) /\ TakeSyncCheckpoint(c, c) /\ UNCHANGED vars
    BY <1>b, <1>d, <2>2 DEF TakeSyncCheckpoint, ProcessSyncCheckpoint, keyVars
  <2>3. CASE ValidateSyncCheckpoint(c) /\ CallSetBestChain(c) /\ UNCHANGED <<dbVars, fTorn, checkpointVars>>
    BY <1>c, <1>d, <2>3 DEF ProcessSyncCheckpoint
  <2> QED BY <1>d, <2>1, <2>2, <2>3 DEF ProcessSyncCheckpoint
<1>e. ASSUME pc = "idle", Reset, UNCHANGED vars PROVE BranchInv'
  <2>1. \E c \in mapBlockIndex : IsInMainChain(c) /\ hashSyncCheckpoint' = c
    BY <1>e DEF Reset, ResetSyncCheckpoint
  <2>2. ~fTorn => hashSyncCheckpoint' \in Chain[dbBest]
    BY <1>e, <2>1, MainChainIs DEF CheckpointInv
  <2> QED BY <1>e, <2>2, BranchTake
<1>1. CASE Step /\ UNCHANGED <<checkpointVars, intakeVars>>
  BY <1>1, BranchChain DEF checkpointVars, intakeVars, keyVars
<1>2. CASE AcceptFails \/ PushWork \/ RefuseOrphan \/ NextWork
  <2>1. UNCHANGED <<vars, checkpointVars, keyVars>>
    BY <1>2 DEF AcceptFails, PushWork, RefuseOrphan, NextWork
  <2> QED BY <2>1, BranchQuiet DEF checkpointVars, keyVars
<1>3. CASE Accepted
  <2> DEFINE p == hashPendingCheckpoint
  <2>1. pc = "idle" /\ UNCHANGED keyVars BY <1>3 DEF Accepted
  <2>2. CASE UNCHANGED vars /\ (UNCHANGED checkpointVars \/ DropPending)
    BY <2>1, <2>2, BranchQuiet DEF DropPending, checkpointVars, keyVars
  <2>3. CASE ValidateSyncCheckpoint(p) /\ IsInMainChain(p)
             /\ TakeSyncCheckpoint(p, checkpointMessagePending) /\ UNCHANGED vars
    <3>1. p \in Block BY <2>3 DEF ValidateSyncCheckpoint, CheckpointInv
    <3> QED BY <1>b, <2>1, <2>3, <3>1 DEF TakeSyncCheckpoint, keyVars
  <2>4. CASE ValidateSyncCheckpoint(p) /\ CallSetBestChain(p) /\ UNCHANGED <<dbVars, fTorn, checkpointVars>>
    BY <1>c, <2>1, <2>4
  <2> QED BY <1>3, <2>2, <2>3, <2>4 DEF Accepted
<1>4. CASE PendingDone \/ MessageDone
  <2>1. pc = "idle" /\ UNCHANGED vars /\ resetDue' = resetDue
    BY <1>4 DEF PendingDone, MessageDone, keyVars
  <2>2. hashSyncCheckpoint' = hashSyncCheckpoint \/ hashSyncCheckpoint' = pindexBest
    BY <1>4 DEF PendingDone, MessageDone, TakeSyncCheckpoint, SyncCheckpointFails
  <2>3. CASE hashSyncCheckpoint' = pindexBest
    <3>1. pindexBest \in Block /\ IsInMainChain(pindexBest) BY DEF SafetyInv, TypeOK, IsInMainChain
    <3> QED BY <1>b, <2>1, <2>3, <3>1
  <2> QED BY <2>1, <2>2, <2>3, BranchQuiet
<1>5. CASE TryOrphan
  <2>1. Head(vTry) \in Block BY <1>5 DEF TryOrphan, IntakeInv, IntakeTypeOK
  <2> QED BY <1>5, <1>a, <2>1 DEF TryOrphan
<1>6. CASE SendSyncCheckpoint BY <1>6, <1>d DEF SendSyncCheckpoint
<1>7. CASE BeginReset
  <2>1. CASE Reset /\ UNCHANGED vars BY <1>7, <1>e, <2>1 DEF BeginReset
  <2>2. CASE CallSetBestChain(LastHardened) /\ UNCHANGED <<dbVars, fTorn, checkpointVars, keyVars>>
    BY <1>7, <2>2, BranchCall DEF BeginReset, CheckpointInv, checkpointVars, keyVars, dbVars
  <2> QED BY <1>7, <2>1, <2>2 DEF BeginReset
<1>8. CASE ResetDone
  <2>1. CASE Reset BY <1>8, <1>e, <2>1 DEF ResetDone
  <2>2. CASE UNCHANGED <<checkpointVars, keyVars>>
    BY <1>8, <2>2, BranchQuiet DEF ResetDone, checkpointVars, keyVars
  <2> QED BY <1>8, <2>1, <2>2 DEF ResetDone
<1>9. ASSUME NEW b \in Block, ProcessBlock(b) PROVE BranchInv'
  BY <1>9, <1>a DEF ProcessBlock
<1>10. ASSUME NEW b \in Block, ProcessOrphanBlock(b) PROVE BranchInv'
  BY <1>10, BranchQuiet DEF ProcessOrphanBlock, checkpointVars, keyVars
<1>11. ASSUME NEW c \in Announced, ReceiveCheckpoint(c) PROVE BranchInv'
  BY <1>11, <1>d, IntakeAssumption DEF ReceiveCheckpoint, Ready
<1>12. CASE Restarted
  BY <1>12, BranchRestart DEF Restarted, IntakeRestart, CheckpointRestart, keyVars
<1>13. CASE RestartNewKey
  BY <1>13, BranchRestart DEF RestartNewKey, IntakeRestart, CheckpointRestart
<1>14. CASE UNCHANGED allVars
  BY <1>14, BranchQuiet DEF allVars, checkpointVars, intakeVars, keyVars
<1> QED BY <1>1, <1>2, <1>3, <1>4, <1>5, <1>6, <1>7, <1>8, <1>9, <1>10, <1>11, <1>12, <1>13,
           <1>14 DEF IntakeNext, IntakeStep

(* The invariant of a node that has the master key, of which nobody else   *)
(* makes checkpoints.  What it selects is in its own main chain, so that   *)
(* it never has to move the chain to it; and what it has pending, if       *)
(* anything, is the last hardened checkpoint, which a block of the branch  *)
(* of the checkpoint in force brings.                                      *)
OwnInv ==
  ~fTorn =>
    /\ task # "message"
    /\ hashPendingCheckpoint \in {NULL, LastHardened}
    /\ hashInvalidCheckpoint # NULL => resetDue /\ task \notin {"reset", "resetting"}
    /\ task = "accept" => resetDue \/ hashSyncCheckpoint \in Chain[cand]

(* AutoSelectSyncCheckpoint never selects against the checkpoint in force. *)
LEMMA SelectedIsOwn ==
  ASSUME SafetyInv, CheckpointInv, BranchInv, ~fTorn, pc = "idle", NEW c \in Block,
         AutoSelectSyncCheckpoint(c)
  PROVE  c \in mapBlockIndex /\ IsInMainChain(c) /\ (resetDue \/ ~Conflicting(c))
<1>1. pindexBest = dbBest /\ pnext = Links(dbBest) /\ dbBest \in Block /\ c \in Chain[dbBest]
  BY DEF SafetyInv, LedgerInv, LinksInv, TypeOK, AutoSelectSyncCheckpoint
<1>2. c \in mapBlockIndex BY <1>1 DEF SafetyInv, Indexed
<1>3. c # dbBest => NextOn(c, dbBest) \in Block BY <1>1, NextOnIs
<1>4. IsInMainChain(c) BY <1>1, <1>3, NullAssumption DEF IsInMainChain, Links
<1>5. ASSUME ~resetDue PROVE ~Conflicting(c)
  <2>1. SameBranch(hashSyncCheckpoint, dbBest) /\ hashSyncCheckpoint \in Block
    BY <1>5 DEF BranchInv, CheckpointInv
  <2> QED BY <1>1, <2>1, BranchGoesDown DEF SameBranch, Conflicting
<1> QED BY <1>2, <1>4, <1>5

(* Every action keeps OwnInv. *)
LEMMA OwnStep ==
  ASSUME CheckpointsMode = "STRICT", Announced = {}, Valid(LastHardened),
         AccountsInv, CheckpointInv, BranchInv, OwnInv, [IntakeNext]_allVars
  PROVE  OwnInv'
<1> DEFINE p == hashPendingCheckpoint
<1>0. fTorn => fTorn' BY CallStays DEF AccountsInv
<1>1. SUFFICES ASSUME ~fTorn, ~fTorn' PROVE OwnInv' BY <1>0 DEF OwnInv
<1>2. /\ task # "message" /\ p \in {NULL, LastHardened}
      /\ hashInvalidCheckpoint # NULL => resetDue /\ task \notin {"reset", "resetting"}
      /\ task = "accept" => resetDue \/ hashSyncCheckpoint \in Chain[cand]
  BY <1>1 DEF OwnInv
<1>3. p \in mapBlockIndex => p = LastHardened /\ Valid(p)
  BY <1>2, NullAssumption DEF CheckpointInv
<1>a. ASSUME p' \in {p, NULL, LastHardened}, UNCHANGED <<hashInvalidCheckpoint, resetDue>>,
             task' \notin {"message", "reset", "resetting", "accept"}
      PROVE  OwnInv'
  BY <1>2, <1>a DEF OwnInv
<1>b. ASSUME NEW b \in Block, BeginAccept(b), UNCHANGED <<checkpointVars, keyVars>>
      PROVE  OwnInv'
  <2>1. hashSyncCheckpoint \in Chain[b] BY <1>b, AcceptDescends
  <2>2. task' = "accept" /\ cand' = b BY <1>b DEF BeginAccept
  <2> QED BY <1>2, <1>b, <2>1, <2>2 DEF OwnInv, checkpointVars, pendingVars, keyVars
<1>c. ASSUME Reset, task \in {"reset", "resetting"} PROVE OwnInv'
  BY <1>2, <1>c DEF Reset, ResetSyncCheckpoint, OwnInv
<1> USE DEF checkpointVars, pendingVars, keyVars
<1>4. CASE Step /\ UNCHANGED <<checkpointVars, intakeVars>>
  BY <1>2, <1>4 DEF intakeVars, OwnInv
<1>5. CASE AcceptFails BY <1>5, <1>a DEF AcceptFails
<1>6. CASE Accepted
  <2>1. task = "accept" /\ UNCHANGED keyVars BY <1>6 DEF Accepted
  <2>2. CASE UNCHANGED checkpointVars
    BY <1>6, <1>a, <2>1, <2>2 DEF Accepted
  <2>3. CASE p \in mapBlockIndex /\ DropPending /\ task' = "accepted"
    <3>1. p = cand BY <1>1, <1>3, <2>1, <2>3 DEF AccountsInv, PendingInv
    <3>2. resetDue \/ ~Conflicting(p) BY <1>2, <2>1, <3>1 DEF Conflicting
    <3> QED BY <1>2, <2>1, <2>3, <3>2 DEF DropPending, Warn, OwnInv
  <2>4. CASE TakeSyncCheckpoint(p, checkpointMessagePending) /\ task' = "accepted"
    BY <1>a, <2>1, <2>4 DEF TakeSyncCheckpoint
  <2> QED BY <1>6, <2>2, <2>3, <2>4 DEF Accepted
<1>7. CASE PendingDone
  <2>1. p \in mapBlockIndex BY <1>7 DEF PendingDone, CheckpointInv, Validated
  <2>2. pindexBest = p BY <1>1, <1>3, <1>7, <2>1 DEF PendingDone, AccountsInv, PendingInv
  <2> QED BY <1>7, <1>a, <2>2 DEF PendingDone, TakeSyncCheckpoint
<1>8. CASE PushWork BY <1>8, <1>a DEF PushWork
<1>9. CASE TryOrphan
  <2>1. Head(vTry) \in Block BY <1>9 DEF TryOrphan, AccountsInv, IntakeInv, IntakeTypeOK
  <2> QED BY <1>9, <1>b, <2>1 DEF TryOrphan
<1>10. CASE RefuseOrphan BY <1>10, <1>a DEF RefuseOrphan
<1>11. CASE NextWork
  <2>1. task' \in {"loop", "none", "send"} BY <1>11 DEF NextWork
  <2> QED BY <1>11, <1>a, <2>1 DEF NextWork
<1>12. CASE SendSyncCheckpoint
  <2>1. PICK c \in Block : AutoSelectSyncCheckpoint(c) /\ ProcessSyncCheckpoint(c)
    BY <1>12 DEF SendSyncCheckpoint
  <2>2. pc = "idle" BY <1>12 DEF SendSyncCheckpoint
  <2>3. c \in mapBlockIndex /\ IsInMainChain(c) /\ (resetDue \/ ~Conflicting(c))
    BY <1>1, <2>1, <2>2, SelectedIsOwn DEF AccountsInv
  <2>4. UNCHANGED keyVars BY <2>1 DEF ProcessSyncCheckpoint
  <2>5. CASE RejectSyncCheckpoint(c) /\ task' = "none"
    BY <1>2, <2>3, <2>4, <2>5 DEF RejectSyncCheckpoint, Warn, OwnInv
  <2>6. CASE TakeSyncCheckpoint(c, c) /\ task' = "none"
    BY <1>a, <2>4, <2>6 DEF TakeSyncCheckpoint
  <2> QED BY <2>1, <2>3, <2>5, <2>6 DEF ProcessSyncCheckpoint, KeepPending
<1>13. CASE MessageDone BY <1>2, <1>13 DEF MessageDone
<1>14. CASE BeginReset
  <2>1. CASE Reset BY <1>14, <1>c, <2>1 DEF BeginReset
  <2>2. CASE task' = "resetting" /\ UNCHANGED <<checkpointVars, keyVars>>
    BY <1>2, <1>14, <2>2 DEF BeginReset, OwnInv
  <2> QED BY <1>14, <2>1, <2>2 DEF BeginReset
<1>15. CASE ResetDone
  <2>1. CASE Reset BY <1>15, <1>c, <2>1 DEF ResetDone
  <2>2. CASE task' = "down" /\ UNCHANGED <<checkpointVars, keyVars>> BY <1>a, <2>2
  <2> QED BY <1>15, <2>1, <2>2 DEF ResetDone
<1>16. ASSUME NEW b \in Block, ProcessBlock(b) PROVE OwnInv'
  BY <1>16, <1>b DEF ProcessBlock
<1>17. ASSUME NEW b \in Block, ProcessOrphanBlock(b) PROVE OwnInv'
  BY <1>17, <1>2, <1>a DEF ProcessOrphanBlock, Ready
<1>18. CASE Restarted \/ RestartNewKey
  BY <1>18 DEF Restarted, RestartNewKey, IntakeRestart, CheckpointRestart, OwnInv
<1>19. CASE UNCHANGED allVars
  BY <1>2, <1>19 DEF allVars, intakeVars, OwnInv
<1> QED BY <1>4, <1>5, <1>6, <1>7, <1>8, <1>9, <1>10, <1>11, <1>12, <1>13, <1>14, <1>15,
           <1>16, <1>17, <1>18, <1>19 DEF IntakeNext, IntakeStep

(* The holder of the master key, when nobody else makes checkpoints and    *)
(* the last hardened checkpoint is of a valid branch, never warns of a     *)
(* checkpoint of its own: through reorganisations, crashes, resets and     *)
(* starts with -startfrom, until a postponed block fails to connect.       *)
THEOREM MasterAgreesWithItself ==
  CheckpointsMode = "STRICT" /\ Announced = {} /\ Valid(LastHardened)
    => (IntakeSpec => [](fTorn \/ OwnCheckpointsAgree))
<1> SUFFICES ASSUME CheckpointsMode = "STRICT", Announced = {}, Valid(LastHardened)
             PROVE  IntakeSpec => [](fTorn \/ OwnCheckpointsAgree)
  OBVIOUS
<1> DEFINE I == AccountsInv /\ CheckpointInv /\ BranchInv /\ OwnInv
<1>1. IntakeInit => I
  <2>1. SUFFICES ASSUME IntakeInit PROVE I OBVIOUS
  <2>2. AccountsInv /\ CheckpointInv BY <2>1, AccountsInductive, CheckpointInvInit
  <2>3. BranchInv
    BY <2>1, TreeAssumption DEF IntakeInit, Init, CheckpointInit, BranchInv, SameBranch
  <2>4. OwnInv BY <2>1 DEF IntakeInit, CheckpointInit, OwnInv
  <2> QED BY <2>2, <2>3, <2>4
<1>2. I /\ [IntakeNext]_allVars => I'
  <2>1. SUFFICES ASSUME I, [IntakeNext]_allVars PROVE I' OBVIOUS
  <2>2. AccountsInv' /\ CheckpointInv' BY <2>1, AccountsInductive, CheckpointStep DEF AccountsInv, IntakeInv
  <2>3. BranchInv' /\ OwnInv' BY <2>1, BranchStep, OwnStep DEF AccountsInv
  <2> QED BY <2>2, <2>3
<1>3. I => fTorn \/ OwnCheckpointsAgree BY DEF OwnInv, OwnCheckpointsAgree
<1> QED BY <1>1, <1>2, <1>3, PTL DEF IntakeSpec
============================================================================
