---------------------------- MODULE Checkpoints ----------------------------
(***************************************************************************)
(* The hardened and the synchronized checkpoints of checkpoints.cpp.  The  *)
(* holder of the master key signs the hash of a block; a node that follows *)
(* it in strict mode moves its best chain to that block, whatever its      *)
(* trust, and then accepts only descendants of it.  Intake.tla runs these  *)
(* operations between the blocks.                                          *)
(***************************************************************************)
EXTENDS Chain

CONSTANTS
  Hardened,         \* mapCheckpoints
  CheckpointsMode,  \* "STRICT", "ADVISORY" or "PERMISSIVE"
  CheckpointSpan,   \* nCheckpointSpan
  TargetSpacing     \* nTargetSpacing

ASSUME CheckpointAssumption ==
  /\ Hardened \subseteq Block /\ Genesis \in Hardened
  /\ \A a, b \in Hardened : Height[a] = Height[b] => a = b
  /\ \E c \in Hardened : \A d \in Hardened : Height[d] <= Height[c]
  /\ CheckpointsMode \in {"STRICT", "ADVISORY", "PERMISSIVE"}
  /\ CheckpointSpan \in Nat /\ TargetSpacing \in Nat

VARIABLES
  hashSyncCheckpoint,       \* the record, and its copy in memory
  hashPendingCheckpoint,    \* announced, and its block not yet known
  hashInvalidCheckpoint,    \* the node warns of this one
  checkpointMessage,        \* the message passed on to new peers
  checkpointMessagePending  \* the message that announced the pending one

pendingVars    == <<hashPendingCheckpoint, checkpointMessagePending>>
checkpointVars == <<hashSyncCheckpoint, hashInvalidCheckpoint, checkpointMessage, pendingVars>>

CheckpointTypeOK ==
  /\ hashSyncCheckpoint \in Block
  /\ {hashPendingCheckpoint, hashInvalidCheckpoint, checkpointMessage, checkpointMessagePending}
       \subseteq Block \cup {NULL}

LastHardened == CHOOSE c \in Hardened : \A d \in Hardened : Height[d] <= Height[c]

(* After the first start: there was no master key in the database, so the  *)
(* checkpoint has been reset.                                              *)
CheckpointInit ==
  /\ hashSyncCheckpoint = Genesis
  /\ hashPendingCheckpoint = IF LastHardened = Genesis THEN NULL ELSE LastHardened
  /\ checkpointMessagePending = NULL
  /\ hashInvalidCheckpoint = NULL /\ checkpointMessage = NULL

(* A restart reads hashSyncCheckpoint back and forgets the rest. *)
CheckpointRestart ==
  /\ UNCHANGED hashSyncCheckpoint
  /\ hashPendingCheckpoint' = NULL /\ checkpointMessagePending' = NULL
  /\ hashInvalidCheckpoint' = NULL /\ checkpointMessage' = NULL

IsInMainChain(b) == pnext[b] # NULL \/ b = pindexBest

---------------------------------------------------------------------------
CheckHardened(b) == \A c \in Hardened : Height[c] = Height[b] => c = b

(* Mutant: only the height is looked at. *)
CheckSyncHeight(b) == Height[b] >= Height[hashSyncCheckpoint]

(* Only a descendant of the checkpoint passes, the checkpoint itself, and  *)
(* what is known already.                                                  *)
CheckSync(b) ==
  CASE Height[b] > Height[hashSyncCheckpoint] -> hashSyncCheckpoint \in Chain[Prev[b]]
    [] Height[b] = Height[hashSyncCheckpoint] -> b = hashSyncCheckpoint
    [] OTHER -> b \in mapBlockIndex

(* Mutant: an older checkpoint is taken again. *)
ValidatesOlder(c) ==
  /\ {c, hashSyncCheckpoint} \subseteq mapBlockIndex
  /\ c \in Chain[hashSyncCheckpoint] \/ hashSyncCheckpoint \in Chain[c]

(* ValidateSyncCheckpoint returns true. *)
ValidateSyncCheckpoint(c) ==
  /\ {c, hashSyncCheckpoint} \subseteq mapBlockIndex
  /\ Height[c] > Height[hashSyncCheckpoint]
  /\ hashSyncCheckpoint \in Chain[c]

(* ValidateSyncCheckpoint returns false, and warns if the received block   *)
(* and the current checkpoint are on different branches.                   *)
Conflicting(c) == c \notin Chain[hashSyncCheckpoint] /\ hashSyncCheckpoint \notin Chain[c]
Warn(c) == hashInvalidCheckpoint' = IF Conflicting(c) THEN c ELSE hashInvalidCheckpoint

(* AutoSelectSyncCheckpoint returns a: the highest block of the best chain *)
(* that is far enough back.                                                *)
FarBack(b) ==
  \/ b = Genesis
  \/ /\ Time[b] + CheckpointSpan * TargetSpacing <= Time[pindexBest]
     /\ Height[b] + CheckpointSpan <= Height[pindexBest]

AutoSelectSyncCheckpoint(a) ==
  /\ a \in Chain[pindexBest] /\ FarBack(a)
  /\ \A b \in Chain[pindexBest] : FarBack(b) => Height[b] <= Height[a]

---------------------------------------------------------------------------
(* ProcessSyncCheckpoint: the four ways it can go. *)

(* Mutant: the checkpoint is in force before its block is known. *)
TakeUnknown(c) ==
  /\ c \notin mapBlockIndex
  /\ hashSyncCheckpoint' = c /\ checkpointMessage' = c
  /\ UNCHANGED <<hashInvalidCheckpoint, pendingVars>>

KeepPending(c) ==
  /\ c \notin mapBlockIndex
  /\ hashPendingCheckpoint' = c /\ checkpointMessagePending' = c
  /\ UNCHANGED <<hashSyncCheckpoint, hashInvalidCheckpoint, checkpointMessage>>

RejectSyncCheckpoint(c) ==
  /\ c \in mapBlockIndex /\ ~ValidateSyncCheckpoint(c)
  /\ Warn(c)
  /\ UNCHANGED <<hashSyncCheckpoint, checkpointMessage, pendingVars>>

(* WriteSyncCheckpoint, and what follows it in ProcessSyncCheckpoint and   *)
(* AcceptPendingSyncCheckpoint.                                            *)
TakeSyncCheckpoint(c, message) ==
  /\ hashSyncCheckpoint' = c
  /\ checkpointMessage' = message
  /\ hashPendingCheckpoint' = NULL /\ checkpointMessagePending' = NULL
  /\ UNCHANGED hashInvalidCheckpoint

(* SetBestChain returned false. *)
SyncCheckpointFails(c) ==
  /\ hashInvalidCheckpoint' = c
  /\ UNCHANGED <<hashSyncCheckpoint, checkpointMessage, pendingVars>>

(* AcceptPendingSyncCheckpoint drops a pending checkpoint that does not    *)
(* validate.                                                               *)
DropPending ==
  /\ Warn(hashPendingCheckpoint)
  /\ hashPendingCheckpoint' = NULL /\ checkpointMessagePending' = NULL
  /\ UNCHANGED <<hashSyncCheckpoint, checkpointMessage>>

(* The last hardened checkpoint becomes pending, and the last of the main  *)
(* chain is in force.                                                      *)
ResetSyncCheckpoint ==
  /\ \E c \in Hardened :
       /\ c \in mapBlockIndex /\ IsInMainChain(c)
       /\ \A d \in Hardened : d \in mapBlockIndex /\ IsInMainChain(d) => Height[d] <= Height[c]
       /\ hashSyncCheckpoint' = c
  /\ hashPendingCheckpoint' =
       IF LastHardened \in mapBlockIndex THEN hashPendingCheckpoint ELSE LastHardened
  /\ UNCHANGED checkpointMessagePending  \* null since the start
  /\ UNCHANGED <<hashInvalidCheckpoint, checkpointMessage>>
============================================================================
