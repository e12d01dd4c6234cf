------------------------------ MODULE MCLocal ------------------------------
(***************************************************************************)
(* An instance of five parts of the node that share no state: the address  *)
(* manager, the key pool of the wallet, the trust of blocks, the target of *)
(* the next block and the batches of the block database.  A behaviour of   *)
(* the node interleaves theirs, so one behaviour here is that of one part, *)
(* and the others stay as they began.                                      *)
(***************************************************************************)
EXTENDS TxDB, KeyPool, Trust, AddrMan, TLC

CONSTANTS
  a1, a2, a3, s1, s2,                                          \* AddrMan
  h1, h2,                                                      \* KeyPool
  g, o1, o2, o3, o4, x5, x6, x7, x8, x9, xa, y6, y7, y8, y9, ya, z6        \* Trust

VARIABLES
  part,     \* the part that runs
  chain

---------------------------------------------------------------------------
(* Three addresses heard of from two sources, in buckets so small that     *)
(* every table overflows.  An address goes to bucket 1 or 2 by its source, *)
(* but a3 always to 2.                                                     *)
Addresses == {a1, a2, a3}
Sources == {s1, s2}
NewBucketOf == [p \in Addresses \X Sources |-> IF p[1] = a3 \/ p[2] = s2 THEN 2 ELSE 1]
TriedBucketOf == [a \in Addresses |-> IF a = a3 THEN 2 ELSE 1]

(* The constants of KeyPool are in the configuration: two reservations at  *)
(* a time, and room for the wallet to be encrypted and topped up again     *)
(* afterwards.                                                             *)

(* A trunk of two windows and three branches that cross the heights where  *)
(* the base is refreshed; two of them grow so long that what a refresh     *)
(* reads is beyond the fork.                                               *)
Blocks == {g, o1, o2, o3, o4, x5, x6, x7, x8, x9, xa, y6, y7, y8, y9, ya, z6}
Main == <<g, o1, o2, o3, o4, x5, x6, x7, x8, x9, xa>>
Side == <<g, o1, o2, o3, o4, x5, y6, y7, y8, y9, ya>>
Stub == <<g, o1, o2, o3, o4, x5, z6>>
Path(b) == CHOOSE p \in {Main, Side, Stub} :
             /\ \E i \in DOMAIN p : p[i] = b
             /\ b # z6 /\ b \notin {y6, y7, y8, y9, ya} => p = Main
At(b) == CHOOSE i \in DOMAIN Path(b) : Path(b)[i] = b
PrevOf == [b \in Blocks |-> IF b = g THEN NULL ELSE Path(b)[At(b) - 1]]
HeightOf == [b \in Blocks |-> At(b) - 1]
BranchOf == [b \in Blocks |-> {Path(b)[i] : i \in 1 .. At(b)}]
BitsOf == [b \in Blocks |-> CASE b \in {o1, o2} -> 20
                              [] b \in {o3, o4} -> 10
                              [] b \in {y6, x7, y8} -> 4
                              [] OTHER -> 8]
TimeOf == [b \in Blocks |-> 100 * HeightOf[b]]
(* The same, worked out once and not at every use. *)
PrevTable == PrevOf @@ <<>>
HeightTable == HeightOf @@ <<>>
BranchTable == BranchOf @@ <<>>
BitsTable == BitsOf @@ <<>>
TimeTable == TimeOf @@ <<>>
Staked == {x5, x6, x8, x9, xa, y6, y7, y9, ya, z6}
Trunk == {g, o1, o2, o3, o4}

(* A branch around the end of the flash-staking hour that begins at 3600.  *)
Entry(t, p, b) == [nTime |-> t, pos |-> p, nBits |-> b]
FirstBlocks ==
  << Entry(0, FALSE, 900), Entry(300, FALSE, 900), Entry(600, TRUE, 3000),
     Entry(1200, TRUE, 2800), Entry(2400, FALSE, 800), Entry(3610, TRUE, 3000),
     Entry(3700, TRUE, 2500) >>
R == INSTANCE Targets
  WITH Trunk <- FirstBlocks, Steps <- {-300, -60, 60, 300, 3300}, RivalTime <- 9000,
       MaxLength <- 11, TimeV231 <- 6000, HeightV2 <- 7, HeightIndex2 <- 6,
       HeightNegative <- 7, WorkLimit <- 1000, StakeLimit <- 4000, FlashStakeLimit <- 4000,
       CompactBase <- 4, CompactMantissa <- 256, COIN <- 100, YearlyBlockCount <- 423400

(* The handles, keys and values of TxDB are in the configuration: three    *)
(* CTxDB objects, one of them opened for reading, on a LevelDB of two      *)
(* keys, used in every way the class allows.                               *)

ASSUME LocalAssumption ==
  AddrManAssumption /\ KeyPoolAssumption /\ TrustTreeAssumption /\ R!TargetsAssumption
  /\ DBAssumption /\ BatchAssumption

---------------------------------------------------------------------------
vars == <<part, addrman, keyVars, trustVars, chain, dbVars>>

Init ==
  /\ part \in {"addresses", "keys", "trust", "targets", "batches"}
  /\ AddrInit /\ KeyInit /\ TrustInit /\ R!Init
  /\ DBInit /\ disk \in [Key -> Value \cup {NULL}]
  /\ part # "batches" => disk = [k \in Key |-> NULL]

Next ==
  \/ /\ part = "addresses" /\ AddrNext
     /\ UNCHANGED <<part, keyVars, trustVars, chain, dbVars>>
  \/ /\ part = "keys" /\ KeyNext
     /\ UNCHANGED <<part, addrman, trustVars, chain, dbVars>>
  \/ /\ part = "trust" /\ TrustNext
     /\ UNCHANGED <<part, addrman, keyVars, chain, dbVars>>
  \/ /\ part = "targets" /\ R!Next
     /\ UNCHANGED <<part, addrman, keyVars, trustVars, dbVars>>
  \/ /\ part = "batches" /\ DBNext
     /\ UNCHANGED <<part, addrman, keyVars, trustVars, chain>>

Spec == Init /\ [][Next]_vars

Symmetry == Permutations({a1, a2}) \cup Permutations({h1, h2})

---------------------------------------------------------------------------
(* Properties: those of the parts, where they run. *)

(* GetNextTargetRequired stays within 1 and the limit of the block's kind, *)
(* and blocks of one kind do not change the target of another.             *)
TargetsSound == part = "targets" => R!TargetInRange /\ R!AlgorithmsIndependent

(* TablesConsistent and RestartKeepsTables are AddrMan's, ReadsThroughBatch *)
(* and StoreImplemented TxDB's, HandedOutOnce and KeysSurvive KeyPool's,    *)
(* TrustReproducible Trust's.                                               *)
============================================================================
