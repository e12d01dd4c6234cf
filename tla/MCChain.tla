------------------------------ MODULE MCChain ------------------------------
(***************************************************************************)
(* An instance of Chain for TLC:                                           *)
(*                                                                         *)
(*   g -- a1 -- a2 -- a3        a2 spends the coinbase of a1 (t1), a3 the  *)
(*    \      \                  output of t1 (t2) and that of t2 (t3)      *)
(*     \      b2 -- b3 -- b4    b2 spends the same coinbase (u1), b3 has a *)
(*      \                       coinbase and spends u1 (u2), b4 spends     *)
(*       d1 -- d2               that coinbase (s) and holds t3, which its  *)
(*                              branch cannot connect                      *)
(*                                                                         *)
(* d1 holds the coinbase of a1 again and outweighs a2 alone, d2 outweighs  *)
(* every other block; the b blocks are stamped early, so they come late    *)
(* once a3 is the best block.  Coinbases that nothing spends are left out. *)
(***************************************************************************)
EXTENDS Chain, TLC

CONSTANTS g, a1, a2, a3, b2, b3, b4, d1, d2, c1, cb, t1, t2, t3, u1, u2, s

MCBlock == {g, a1, a2, a3, b2, b3, b4, d1, d2}
MCPrev == g :> NULL @@ a1 :> g @@ a2 :> a1 @@ a3 :> a2
          @@ b2 :> a1 @@ b3 :> b2 @@ b4 :> b3 @@ d1 :> g @@ d2 :> d1
MCHeight[b \in MCBlock] == IF b = g THEN 0 ELSE MCHeight[MCPrev[b]] + 1
MCBranch[b \in MCBlock] == IF b = g THEN {g} ELSE MCBranch[MCPrev[b]] \cup {b}

MCTx == {c1, cb, t1, t2, t3, u1, u2, s}
MCVtx == g :> <<>> @@ a1 :> <<c1>> @@ a2 :> <<t1>> @@ a3 :> <<t2, t3>>
         @@ b2 :> <<u1>> @@ b3 :> <<cb, u2>> @@ b4 :> <<s, t3>>
         @@ d1 :> <<c1>> @@ d2 :> <<>>
MCVin == c1 :> {} @@ cb :> {} @@ t1 :> {<<c1, 0>>} @@ t2 :> {<<t1, 0>>} @@ t3 :> {<<t2, 0>>}
         @@ u1 :> {<<c1, 0>>, <<c1, 1>>} @@ u2 :> {<<u1, 0>>} @@ s :> {<<cb, 0>>}
MCNOut == [t \in MCTx |-> IF t = c1 THEN 2 ELSE 1]
MCLedgerAt[b \in MCBlock] ==
  IF b = g THEN EmptyTxIndex ELSE ConnectBlock(MCLedgerAt[MCPrev[b]], b)

MCWork == [b \in MCBlock |-> IF b \in {d1, d2} THEN 5 ELSE 2]
MCLateWork == [b \in MCBlock |-> 1]
MCChainWork[b \in MCBlock] == MCWork[b] + IF b = g THEN 0 ELSE MCChainWork[MCPrev[b]]
MCTime == [b \in MCBlock |-> IF b \in {b2, b3, b4} THEN MCHeight[b] ELSE 3 * MCHeight[b]]
============================================================================
