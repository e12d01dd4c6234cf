------------------------------ MODULE Targets ------------------------------
(***************************************************************************)
(* The rules of main.cpp that a block's time and place decide: the target  *)
(* it must meet (GetNextTargetRequired), when it may be dated (AcceptBlock) *)
(* and what it may mint (GetProofOfWorkReward, GetProofOfStakeReward).     *)
(*                                                                         *)
(* The state is one branch of the block tree.  pindexBest, which several   *)
(* of the rules look at, is the tip of the branch or that of a rival.      *)
(***************************************************************************)
EXTENDS Integers, Sequences, FiniteSets

CONSTANTS
  Trunk,           \* the branch so far: two blocks of each kind at least
  Steps,           \* how far from its parent a block may be dated
  RivalTime,       \* the time of a rival best block
  MaxLength,       \* bound on the length of the branch
  TimeV231,        \* nTimeV231: no proof of work, other spacing and rewards
  HeightV2,        \* 817990: GetNextTargetRequiredV2
  HeightIndex2,    \* 771000: GetLastBlockIndex2 looks for the kind
  HeightNegative,  \* 315065: a negative spacing is taken as it is
  WorkLimit, StakeLimit, FlashStakeLimit,
  CompactBase, CompactMantissa,   \* 256 and 2^23
  COIN, YearlyBlockCount          \* YEARLY_BLOCKCOUNT

(* What is assumed of the constants. *)
TargetsAssumption ==
  /\ Len(Trunk) > 3 /\ MaxLength \in Nat /\ Steps \subseteq Int
  /\ {WorkLimit, StakeLimit, FlashStakeLimit} \subseteq Nat \ {0}
  /\ CompactBase > 1 /\ CompactMantissa >= CompactBase

VARIABLES chain   \* a sequence of blocks [nTime, pos, nBits]

Drift == 600
TargetSpacing == 120
StakingSpacing == 360
FlashSpacing == 60

(* The hours 15, 20, 1 and 6 of the day. *)
IsFlashStake(t) == (t \div 3600) % 24 \in {1, 6, 15, 20}

nHeight(i) == i - 1

(* CBigNum::GetCompact and SetCompact: the leading digits survive. *)
Compact(x) ==
  LET cut == CHOOSE c \in {CompactBase ^ k : k \in 0 .. 8} :
               /\ x \div c < CompactMantissa
               /\ \A d \in {CompactBase ^ k : k \in 0 .. 8} :
                    x \div d < CompactMantissa => c <= d
  IN  (x \div cut) * cut

(* The last index at or below i with P, or the first block. *)
LastSuch(i, P(_)) ==
  IF \E j \in 1 .. i : P(j)
  THEN CHOOSE j \in 1 .. i : P(j) /\ \A k \in (j + 1) .. i : ~P(k)
  ELSE 1

GetLastBlockIndex(c, i, pos) == LastSuch(i, LAMBDA j : c[j].pos = pos)

GetLastBlockIndex2(c, i, flash) ==
  IF nHeight(i) >= HeightIndex2
  THEN LastSuch(i, LAMBDA j : c[j].pos /\ IsFlashStake(c[j].nTime) = flash)
  ELSE LastSuch(LastSuch(i, LAMBDA j : IsFlashStake(c[j].nTime) = flash),
                LAMBDA j : c[j].pos)

Limit(pos, t) ==
  CASE ~pos -> WorkLimit
    [] pos /\ IsFlashStake(t) -> FlashStakeLimit
    [] OTHER -> StakeLimit

Spacing(pos, t, bestTime) ==
  CASE pos /\ IsFlashStake(t) -> FlashSpacing
    [] pos /\ ~IsFlashStake(t) /\ bestTime <= TimeV231 -> StakingSpacing
    [] OTHER -> TargetSpacing

Timespan(pos, t) ==
  CASE ~pos -> 3600
    [] pos /\ IsFlashStake(t) -> 600
    [] OTHER -> 7200

(* Mutant: a product below zero is kept. *)
RetargetUnchecked(nBits, nActualSpacing, pos, t, bestTime) ==
  LET nTS       == Spacing(pos, t, bestTime)
      nInterval == Timespan(pos, t) \div nTS
      bnNew     == (nBits * ((nInterval - 1) * nTS + 2 * nActualSpacing))
                     \div ((nInterval + 1) * nTS)
  IN  IF bnNew > Limit(pos, t) THEN Compact(Limit(pos, t)) ELSE Compact(bnNew)

(* The common end of both versions. *)
Retarget(nBits, nActualSpacing, pos, t, bestTime) ==
  LET nTS       == Spacing(pos, t, bestTime)
      nInterval == Timespan(pos, t) \div nTS
      bnNew     == (nBits * ((nInterval - 1) * nTS + 2 * nActualSpacing))
                     \div ((nInterval + 1) * nTS)
  IN  Compact(IF bnNew <= 0 \/ bnNew > Limit(pos, t) THEN Limit(pos, t) ELSE bnNew)

GetNextTargetRequiredV1(c, last, pos, t, bestTime) ==
  LET prev  == GetLastBlockIndex(c, last, pos)
      prev2 == GetLastBlockIndex(c, prev - 1, pos)
      flip  == pos /\ IsFlashStake(t) # IsFlashStake(c[prev].nTime)
      apart == c[prev].nTime - c[prev2].nTime
  IN  IF prev = 1 \/ prev2 = 1 THEN Compact(Limit(pos, t))
      ELSE Retarget(
             IF flip THEN c[GetLastBlockIndex2(c, prev, IsFlashStake(t))].nBits
             ELSE c[prev].nBits,
             CASE flip -> 0
               [] ~flip /\ apart < 0 /\ nHeight(prev) < HeightNegative ->
                    Spacing(pos, t, bestTime)
               [] OTHER -> apart,
             pos, t, bestTime)

(* Remainder as in C: it has the sign of the dividend. *)
CRemainder(a, m) == IF a >= 0 THEN a % m ELSE -((-a) % m)

GetNextTargetRequiredV2(c, last, pos, t, bestTime) ==
  LET prev  == IF pos THEN GetLastBlockIndex2(c, GetLastBlockIndex(c, last, TRUE), IsFlashStake(t))
               ELSE GetLastBlockIndex(c, last, FALSE)
      prev2 == IF pos THEN GetLastBlockIndex2(c, prev - 1, IsFlashStake(t))
               ELSE GetLastBlockIndex(c, prev - 1, FALSE)
      apart == c[prev].nTime - c[prev2].nTime
  IN  Retarget(c[prev].nBits, IF pos THEN CRemainder(apart, 3600) ELSE apart,
               pos, t, bestTime)

GetNextTargetRequired(c, last, pos, t, bestTime) ==
  IF nHeight(last) < HeightV2
  THEN GetNextTargetRequiredV1(c, last, pos, t, bestTime)
  ELSE GetNextTargetRequiredV2(c, last, pos, t, bestTime)

(* The median of the last eleven times. *)
GetMedianTimePast ==
  LET I == {i \in DOMAIN chain : i > Len(chain) - 11}
      n == IF Len(chain) < 11 THEN Len(chain) ELSE 11
      Before(i) == {j \in I : chain[j].nTime < chain[i].nTime
                                \/ (chain[j].nTime = chain[i].nTime /\ j < i)}
  IN  chain[CHOOSE i \in I : Cardinality(Before(i)) = n \div 2].nTime

---------------------------------------------------------------------------
Tip == chain[Len(chain)]

Init == chain = Trunk

(* AcceptBlock of a block dated t, pindexBest being of bestTime. *)
AcceptBlock(pos, t, bestTime) ==
  /\ Len(chain) < MaxLength
  /\ ~pos => bestTime <= TimeV231
  /\ t > GetMedianTimePast /\ t + Drift >= Tip.nTime
  /\ chain' = Append(chain,
       [nTime |-> t, pos |-> pos,
        nBits |-> GetNextTargetRequired(chain, Len(chain), pos, t, bestTime)])

Next == \E pos \in BOOLEAN, d \in Steps, bestTime \in {Tip.nTime, RivalTime} :
          AcceptBlock(pos, Tip.nTime + d, bestTime)

Spec == Init /\ [][Next]_chain

---------------------------------------------------------------------------
(* What a block may mint. *)
Halving(height) == (height \div 2) \div YearlyBlockCount

GetProofOfWorkReward(height) ==
  CASE height = 1 -> 364800000 * COIN
    [] height >= 17000 -> (50 * COIN) \div 2 ^ Halving(height)
    [] OTHER -> 0

(* The factor of the code is 16 / 10 in whole numbers. *)
ShareOfWork == 16 \div 10

GetProofOfStakeReward(height, t, bestTime) ==
  LET full == (IF IsFlashStake(t) THEN 150 * COIN ELSE 100 * COIN) \div 2 ^ Halving(height)
      paid == IF bestTime > TimeV231 /\ ~IsFlashStake(t) THEN full \div 3 ELSE full
  IN  CASE height < 16240 -> 0
        [] height >= 16240 /\ bestTime > TimeV231 -> paid * ShareOfWork
        [] OTHER -> paid

---------------------------------------------------------------------------
(* Properties *)

(* No order of blocks and no dating that AcceptBlock lets through leads to *)
(* a target of zero or below, or above the limit of its kind, although a   *)
(* block may be dated ten minutes before its parent and the spacing enters *)
(* the product with its sign.                                              *)
TargetInRange ==
  \A i \in DOMAIN chain : chain[i].nBits \in 1 .. Limit(chain[i].pos, chain[i].nTime)

(* "makes PoS and FPoS next target calculations completelly independent"   *)
(* (GetNextTargetRequired): blocks of the other kinds between them change  *)
(* nothing of what the next block of a kind must meet.                     *)
OfKind(pos, flash) ==
  SelectSeq(chain, LAMBDA b : b.pos = pos /\ (pos => IsFlashStake(b.nTime) = flash))
AlgorithmsIndependent ==
  nHeight(Len(chain)) >= HeightV2 =>
    \A pos \in BOOLEAN, d \in Steps :
      LET t   == Tip.nTime + d
          own == OfKind(pos, IsFlashStake(t))
      IN  GetNextTargetRequired(chain, Len(chain), pos, t, t)
            = GetNextTargetRequiredV2(<<chain[1]>> \o own, Len(own) + 1, pos, t, t)

(* "retarget with exponential moving toward target spacing": blocks that   *)
(* came faster than the spacing make the next target no easier.            *)
FasterIsNoEasier ==
  \A d \in Steps :
    LET t   == Tip.nTime + d
        own == OfKind(TRUE, IsFlashStake(t))
        k   == Len(own)
    IN  nHeight(Len(chain)) >= HeightV2
          /\ own[k].nTime - own[k - 1].nTime < Spacing(TRUE, t, t)
        => GetNextTargetRequired(chain, Len(chain), TRUE, t, t) <= own[k].nBits

(* "Account for difference; (Daily Rewards / Daily Rewards - POW)": once   *)
(* proof of work is over, the stake reward is more than without the factor. *)
WorkMadeUp ==
  LET h == 16240 + Len(chain)
  IN  Tip.nTime > TimeV231 /\ IsFlashStake(Tip.nTime) =>
        GetProofOfStakeReward(h, Tip.nTime, Tip.nTime)
          > GetProofOfStakeReward(h, Tip.nTime, TimeV231)
============================================================================
