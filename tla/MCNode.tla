------------------------------ MODULE MCNode ------------------------------
(***************************************************************************)
(* An instance of Node for TLC:                                            *)
(*                                                                         *)
(*   g -- a1 -- a2 -- a3        a2 has a coinbase cc and spends two of the *)
(*          \                   three outputs of the coinbase cb of a1,    *)
(*           \                  with tp and with w; a3 spends w with wc    *)
(*            b2 -- b3          b3 spends with y what tp spends, and the   *)
(*              \               third output                               *)
(*               e3             fails to connect; b3 outweighs a3, e3 a2   *)
(*                                                                         *)
(* Loose transactions: all of these, c, a child of tp and cc, and x, which *)
(* spends what y spends, with its child xc and grandchild xd.              *)
(*                                                                         *)
(* The miner runs while the node has few blocks and transactions.          *)
(***************************************************************************)
EXTENDS Miner, TLC

CONSTANTS g, a1, a2, a3, b2, b3, e3, cb, cc, tp, w, wc, y, c, x, xc, xd

MCBlock == {g, a1, a2, a3, b2, b3, e3}
MCPrev == g :> NULL @@ a1 :> g @@ a2 :> a1 @@ a3 :> a2 @@ b2 :> a1 @@ b3 :> b2 @@ e3 :> b2
MCHeight[b \in MCBlock] == IF b = g THEN 0 ELSE MCHeight[MCPrev[b]] + 1
MCBranch[b \in MCBlock] == IF b = g THEN {g} ELSE MCBranch[MCPrev[b]] \cup {b}

MCTx == {cb, cc, tp, w, wc, y, c, x, xc, xd}
MCVtx == g :> <<>> @@ a1 :> <<cb>> @@ a2 :> <<cc, tp, w>> @@ a3 :> <<wc>>
         @@ b2 :> <<>> @@ b3 :> <<y>> @@ e3 :> <<>>
MCVin == cb :> {} @@ cc :> {} @@ tp :> {<<cb, 0>>} @@ w :> {<<cb, 2>>} @@ wc :> {<<w, 0>>}
         @@ y :> {<<cb, 0>>, <<cb, 1>>} @@ x :> {<<cb, 1>>} @@ xc :> {<<x, 0>>} @@ xd :> {<<xc, 0>>}
         @@ c :> {<<tp, 0>>, <<cc, 0>>}
MCNOut == [tx \in MCTx |-> IF tx = cb THEN 3 ELSE 1]
MCLedgerAt[b \in MCBlock] ==
  IF b = g THEN EmptyTxIndex ELSE ConnectBlock(MCLedgerAt[MCPrev[b]], b)

MCWork == [b \in MCBlock |-> IF b = b3 THEN 5 ELSE 2]
MCChainWork[b \in MCBlock] == MCWork[b] + IF b = g THEN 0 ELSE MCChainWork[MCPrev[b]]
MCTime == MCHeight
MCTxTime == [t \in MCTx |-> IF t \in {cb, cc} THEN 1 ELSE IF t = c THEN 3 ELSE 2]

Few ==
  /\ mapBlockIndex \subseteq {g, a1, a2, b2, b3}
  /\ mapTx \cup mapOrphanTransactions \subseteq {tp, w, c, x}

MCNext ==
  \/ miner = "off" /\ NodeNext /\ UNCHANGED minerVars
  \/ Few /\ MinerNext /\ Few'

MCSpec == MinerInit /\ [][MCNext]_allVars /\ WF_nodeVars(NodeStep)
============================================================================
