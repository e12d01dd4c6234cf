----------------------------- MODULE MCIntake -----------------------------
(***************************************************************************)
(* An instance of Intake for TLC:                                          *)
(*                                                                         *)
(*   g -- p1 -- a2 -- a3       p1 is proof of work and has the coins that  *)
(*         |      \            the others stake; a2 and b2 carry the same  *)
(*         |       x3 -- x4    proof of stake; a3 outweighs b4, x3 fails   *)
(*         |                   to connect; the kernel of b4 was hashed     *)
(*         b2 -- b3 -- b4      with the modifier of b3                     *)
(*                                                                         *)
(* b4 is the last hardened checkpoint; b3 has too little proof for a node  *)
(* whose checkpoint is still the genesis block.  Blocks of one height have *)
(* the same coinbase, and blocks that stake the same coin at one height    *)
(* the same coinstake.                                                     *)
(***************************************************************************)
EXTENDS Intake, TLC

CONSTANTS g, p1, a2, a3, x3, x4, b2, b3, b4, cp, k2, k3, k4, s2, sa3, sx3, sb3, s4

MCBlock == {g, p1, a2, a3, x3, x4, b2, b3, b4}
MCPrev == g :> NULL @@ p1 :> g @@ a2 :> p1 @@ a3 :> a2 @@ x3 :> a2 @@ x4 :> x3
          @@ b2 :> p1 @@ b3 :> b2 @@ b4 :> b3
MCHeight[b \in MCBlock] == IF b = g THEN 0 ELSE MCHeight[MCPrev[b]] + 1
MCBranch[b \in MCBlock] == IF b = g THEN {g} ELSE MCBranch[MCPrev[b]] \cup {b}

MCTx == {cp, k2, k3, k4, s2, sa3, sx3, sb3, s4}
MCVtx == g :> <<>> @@ p1 :> <<cp>> @@ a2 :> <<k2, s2>> @@ b2 :> <<k2, s2>>
         @@ a3 :> <<k3, sa3>> @@ x3 :> <<k3, sx3>> @@ b3 :> <<k3, sb3>>
         @@ x4 :> <<k4, s4>> @@ b4 :> <<k4, s4>>
MCStaked == s2 :> <<cp, 0>> @@ sa3 :> <<cp, 1>> @@ sx3 :> <<cp, 2>> @@ sb3 :> <<cp, 3>> @@ s4 :> <<cp, 4>>
MCVin == [t \in MCTx |-> IF t \in DOMAIN MCStaked THEN {MCStaked[t]} ELSE {}]
MCNOut == [t \in MCTx |-> IF t = cp THEN 5 ELSE 0]
MCLedgerAt[b \in MCBlock] ==
  IF b = g THEN EmptyTxIndex ELSE ConnectBlock(MCLedgerAt[MCPrev[b]], b)

MCKernel == [b \in MCBlock |-> IF b \in {g, p1} THEN NULL ELSE MCStaked[MCVtx[b][2]]]
MCModifier == [b \in MCBlock |-> IF b = b4 THEN b3 ELSE p1]
MCTooLittle == [b \in MCBlock |-> IF b = b3 THEN {g} ELSE {}]

MCWork == [b \in MCBlock |-> IF b = a3 THEN 5 ELSE 2]
MCLateWork == [b \in MCBlock |-> 1]
MCChainWork[b \in MCBlock] == MCWork[b] + IF b = g THEN 0 ELSE MCChainWork[MCPrev[b]]
============================================================================
