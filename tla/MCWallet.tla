----------------------------- MODULE MCWallet -----------------------------
(***************************************************************************)
(* An instance of Wallet for TLC:                                          *)
(*                                                                         *)
(*   g -- a1 -- a2 -- a3     a1 has a coinbase cb of the wallet; a2 holds  *)
(*          \                tA, which spends one output of cb and leaves  *)
(*           b2 -- b3        change, a3 the coinstake st on the other;     *)
(*             \             b2 holds tA as well, b3 the child tB of tA;   *)
(*              e3           e3 fails to connect                           *)
(*                                                                         *)
(* The wallet can make tA, tC, tD and tE.  tB comes from another copy of   *)
(* it and is received, without copies of what it rests on.                 *)
(*                                                                         *)
(*   cb -- tA -- tB     tB and tC spend the change of tA, tD and tE that   *)
(*           \          of tC; tE spends the other output of tA as well,   *)
(*            tC -- tD  and names it first: the copies of tD are cb, tA,   *)
(*              \       tC, and those of tE cb, tC, tA                     *)
(*               tE                                                        *)
(***************************************************************************)
EXTENDS Wallet, TLC

CONSTANTS g, a1, a2, a3, b2, b3, e3, cb, tA, tB, tC, tD, tE, st

MCBlock == {g, a1, a2, a3, b2, b3, e3}
MCPrev == g :> NULL @@ a1 :> g @@ a2 :> a1 @@ a3 :> a2 @@ b2 :> a1 @@ b3 :> b2 @@ e3 :> b2
MCHeight[b \in MCBlock] == IF b = g THEN 0 ELSE MCHeight[MCPrev[b]] + 1
MCBranch[b \in MCBlock] == IF b = g THEN {g} ELSE MCBranch[MCPrev[b]] \cup {b}

MCTx == {cb, tA, tB, tC, tD, tE, st}
MCVtx == g :> <<>> @@ a1 :> <<cb>> @@ a2 :> <<tA>> @@ a3 :> <<st>>
         @@ b2 :> <<tA>> @@ b3 :> <<tB>> @@ e3 :> <<>>
MCVin == cb :> {} @@ tA :> {<<cb, 0>>} @@ tB :> {<<tA, 0>>} @@ tC :> {<<tA, 0>>}
         @@ tD :> {<<tC, 0>>} @@ tE :> {<<tA, 1>>, <<tC, 0>>} @@ st :> {<<cb, 1>>}
MCPrevOrder == cb :> <<>> @@ tA :> <<cb>> @@ tB :> <<tA>> @@ tC :> <<tA>>
               @@ tD :> <<tC>> @@ tE :> <<tA, tC>> @@ st :> <<cb>>
MCNOut == [t \in MCTx |-> IF t \in {cb, tA, st} THEN 2 ELSE 1]
MCMine == {<<cb, 0>>, <<cb, 1>>, <<tA, 0>>, <<tA, 1>>, <<tC, 0>>, <<st, 1>>}
MCLedgerAt[b \in MCBlock] ==
  IF b = g THEN EmptyTxIndex ELSE ConnectBlock(MCLedgerAt[MCPrev[b]], b)

MCWork == [b \in MCBlock |-> IF b \in {b3, e3} THEN 5 ELSE 2]
MCChainWork[b \in MCBlock] == MCWork[b] + IF b = g THEN 0 ELSE MCChainWork[MCPrev[b]]
MCTime == MCHeight
============================================================================
