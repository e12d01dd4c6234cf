------------------------------- MODULE Trust -------------------------------
(***************************************************************************)
(* The weight of a block in the choice of the best chain: GetModTrust and  *)
(* CBlockIndex::GetBlockTrust of main.cpp, as AddToBlockIndex uses them    *)
(* when a block arrives and CTxDB::LoadBlockIndex for every block at a     *)
(* start.  The stake part of it comes from nBaseStakeTrust, a variable of  *)
(* the process that is refreshed now and then from the branch of whichever *)
(* block is being weighed.                                                 *)
(*                                                                         *)
(* Chain takes the weight of a block as given; this module asks when it is. *)
(***************************************************************************)
EXTENDS Integers

CONSTANTS
  NoBase,       \* no base yet
  Block, Genesis, Prev, Height, Chain,   \* the block tree, as in Ledger
  Time,         \* Time[b]: nTime
  Bits,         \* Bits[b]: the target of b
  Stake,        \* the blocks for which IsProofOfStake()
  Old,          \* the blocks up to nTimeV221
  Window,       \* 1024
  LateWindow,   \* 600
  TrustBase,    \* 2^256
  MaxRestarts   \* bound on restarts

(* What is assumed of the constants. *)
TrustTreeAssumption ==
  /\ Genesis \in Old /\ Old \subseteq Block /\ Stake \subseteq Block
  /\ Height \in [Block -> Nat]
  /\ Height[Genesis] = 0 /\ Chain[Genesis] = {Genesis}
  /\ \A b \in Block \ {Genesis} :
       /\ Prev[b] \in Block /\ Height[b] = Height[Prev[b]] + 1
       /\ Chain[b] = Chain[Prev[b]] \cup {b}
  /\ \A b \in Old \ {Genesis} : Prev[b] \in Old
  /\ \A b \in Block : Bits[b] \in Nat \ {0}
  /\ TrustBase \in Nat /\ Window \in Nat \ {0} /\ MaxRestarts \in Nat
  \* the chain was far longer than two windows at nTimeV221, so that the
  \* loops over pprev end before the genesis block
  /\ \A b \in Block \ Old : Prev[b] \in Block /\ Height[Prev[b]] >= 2 * Window

VARIABLES
  mapBlockIndex,           \* the blocks with a CBlockIndex
  nChainTrust,             \* CBlockIndex::nChainTrust
  pindexBest,
  nBaseStakeTrust,         \* 0 when there is none yet
  nBaseStakeTrustHeight,
  toLoad,                  \* the blocks LoadBlockIndex has yet to weigh
  (* history *)
  baseOf,                  \* baseOf[b]: <<height, trust>> of the base b was weighed with
  before,                  \* nChainTrust before the process was started again
  late,                    \* the blocks that came after a higher one
  gaps,                    \* the stake blocks that came below another one, the
                           \* first at their height
  restarts

trustVars == <<mapBlockIndex, nChainTrust, pindexBest, nBaseStakeTrust,
          nBaseStakeTrustHeight, toLoad, baseOf, before, late, gaps, restarts>>

TrustTypeOK ==
  /\ Old \subseteq mapBlockIndex /\ mapBlockIndex \subseteq Block
  /\ nChainTrust \in [Block -> Nat] /\ before \in [Block -> Nat]
  /\ pindexBest \in mapBlockIndex
  /\ nBaseStakeTrust \in Nat /\ nBaseStakeTrustHeight \in Nat
  /\ toLoad \subseteq mapBlockIndex
  /\ baseOf \in [Block -> (Nat \X Nat) \cup {NoBase}]
  /\ late \subseteq mapBlockIndex /\ gaps \subseteq late /\ restarts \in 0 .. MaxRestarts

---------------------------------------------------------------------------
(* The stake blocks that are weighed with the base. *)
Stakes == (mapBlockIndex \cap Stake) \ Old

(* The window that a refresh for a block on top of b reads, at height h. *)
BaseWindow(b, h) ==
  {a \in Chain[b] : h - 2 * Window < Height[a] /\ Height[a] <= h - Window}

Hardest(S) == CHOOSE x \in {Bits[a] : a \in S} : \A a \in S : x <= Bits[a]

(* GetModTrust: nBaseStakeTrust and its height after b has been weighed. *)
BaseHeight(b) == Window * (Height[Prev[b]] \div Window)
Refreshes(b) ==
  nBaseStakeTrust = 0 \/ Height[Prev[b]] > nBaseStakeTrustHeight + Window
ModTrust(b) ==
  IF b \in Stake \ Old /\ Refreshes(b)
  THEN <<BaseHeight(b), Hardest(BaseWindow(Prev[b], BaseHeight(b)))>>
  ELSE <<nBaseStakeTrustHeight, nBaseStakeTrust>>

(* A late block below the best block's parent counts as ten times easier. *)
IsLate(b) ==
  /\ pindexBest # Genesis
  /\ Height[Prev[b]] < Height[Prev[pindexBest]]
  /\ Time[b] < Time[pindexBest] - LateWindow

GetBlockTrust(b, isNew) ==
  LET target == IF b \notin Old /\ isNew /\ IsLate(b) THEN 10 * Bits[b] ELSE Bits[b]
      stake  == IF b \in Stake \ Old THEN TrustBase \div ModTrust(b)[2] ELSE 0
  IN  TrustBase \div (target + 1) + stake

Weigh(b, isNew) ==
  /\ nChainTrust' = [nChainTrust EXCEPT ![b] =
                       (IF b = Genesis THEN 0 ELSE nChainTrust[Prev[b]])
                         + GetBlockTrust(b, isNew)]
  /\ nBaseStakeTrustHeight' = ModTrust(b)[1]
  /\ nBaseStakeTrust' = ModTrust(b)[2]
  /\ baseOf' = IF b \in Stake \ Old THEN [baseOf EXCEPT ![b] = ModTrust(b)] ELSE baseOf

---------------------------------------------------------------------------
(* The node has the chain up to nTimeV221. *)
OldTrust[b \in Old] ==
  TrustBase \div (Bits[b] + 1) + IF b = Genesis THEN 0 ELSE OldTrust[Prev[b]]

TrustInit ==
  /\ mapBlockIndex = Old
  /\ nChainTrust = [b \in Block |-> IF b \in Old THEN OldTrust[b] ELSE 0]
  /\ pindexBest \in {b \in Old : \A a \in Old : Height[a] <= Height[b]}
  /\ nBaseStakeTrust = 0 /\ nBaseStakeTrustHeight = 0
  /\ toLoad = {}
  /\ baseOf = [b \in Block |-> NoBase]
  /\ before = nChainTrust
  /\ late = {} /\ gaps = {}
  /\ restarts = 0

(* AddToBlockIndex; SetBestChain succeeds. *)
AddToBlockIndex(b) ==
  /\ toLoad = {}
  /\ b \notin mapBlockIndex /\ Prev[b] \in mapBlockIndex
  /\ mapBlockIndex' = mapBlockIndex \cup {b}
  /\ Weigh(b, TRUE)
  /\ pindexBest' = IF nChainTrust'[b] > nChainTrust[pindexBest] THEN b ELSE pindexBest
  /\ before' = [before EXCEPT ![b] = nChainTrust'[b]]
  /\ late' = late \cup {x \in {b} : \E a \in mapBlockIndex : Height[a] > Height[b]}
  /\ gaps' = gaps \cup {x \in ({b} \cap Stake) \ Old :
                          /\ \E a \in Stakes : Height[a] > Height[b]
                          /\ \A a \in Stakes : Height[a] # Height[b]}
  /\ UNCHANGED <<toLoad, restarts>>

(* The process is started again. *)
Restart ==
  /\ restarts < MaxRestarts /\ toLoad = {}
  /\ restarts' = restarts + 1
  /\ nBaseStakeTrust' = 0 /\ nBaseStakeTrustHeight' = 0
  /\ toLoad' = mapBlockIndex
  /\ before' = nChainTrust
  /\ nChainTrust' = [b \in Block |-> 0]
  /\ UNCHANGED <<mapBlockIndex, pindexBest, baseOf, late, gaps>>

(* Mutant: the blocks are weighed in the order of the records. *)
LoadUnsorted(b) ==
  /\ b \in toLoad
  /\ Weigh(b, FALSE)
  /\ toLoad' = toLoad \ {b}
  /\ UNCHANGED <<mapBlockIndex, pindexBest, before, late, gaps, restarts>>

(* LoadBlockIndex weighs the blocks by height; blocks of one height come   *)
(* in the order of their addresses.                                        *)
LoadBlock(b) ==
  /\ b \in toLoad /\ \A a \in toLoad : Height[b] <= Height[a]
  /\ Weigh(b, FALSE)
  /\ toLoad' = toLoad \ {b}
  /\ UNCHANGED <<mapBlockIndex, pindexBest, before, late, gaps, restarts>>

TrustNext == Restart \/ \E b \in Block : AddToBlockIndex(b) \/ LoadBlock(b)

TrustSpec == TrustInit /\ [][TrustNext]_trustVars

---------------------------------------------------------------------------
(* Properties *)

(* No branch of a stake block has parted from that of b by more than the   *)
(* window and one block on both sides: what a refresh for the one reads is *)
(* a part of the other, too.                                               *)
Shallow(b) ==
  \A a \in Stakes : \A c \in (Chain[a] \ Chain[b]) \cup (Chain[b] \ Chain[a]) :
    Height[c] + Window >= Height[a] \/ Height[c] + Window >= Height[b]

(* The branch of b came in order, and nothing has come since that moves    *)
(* the heights at which the base is refreshed below b.                     *)
Steady(b) ==
  Chain[b] \cap late = {} /\ (\A a \in gaps : Height[b] < Height[a]) /\ Shallow(b)

(* A start changes the trust of no steady block, whatever late, long and   *)
(* competing branches there are beside it: the base is refreshed at the    *)
(* same heights in whatever order the branches came, also when earlier     *)
(* sessions began in the middle.                                           *)
RestartKeepsTrust ==
  \A b \in mapBlockIndex \ toLoad : nChainTrust[b] # before[b] => ~Steady(b)

(* No block is weighed with a base that is older than its window; and a    *)
(* base that is not ahead of the block was read from the block's own       *)
(* branch, whichever branch caused the refresh, unless a stake block of    *)
(* another branch has parted from it long ago.                             *)
BaseFromOwnBranch ==
  \A b \in mapBlockIndex :
    baseOf[b] # NoBase =>
      /\ baseOf[b][1] + Window >= Height[Prev[b]]
      /\ baseOf[b][1] <= Height[Prev[b]] /\ Shallow(b) =>
           baseOf[b][2] = Hardest({a \in Chain[b] : baseOf[b][1] - 2 * Window < Height[a]
                                                   /\ Height[a] <= baseOf[b][1] - Window})

(* Both together. *)
TrustReproducible == RestartKeepsTrust /\ BaseFromOwnBranch

(* "(which ends at least 1024 blocks in the past)" (GetModTrust). *)
WindowInThePast ==
  \A b \in mapBlockIndex :
    baseOf[b] # NoBase => baseOf[b][1] <= Height[Prev[b]]
============================================================================
