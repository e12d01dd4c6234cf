---------------------------- MODULE MCSecureMsg ----------------------------
(***************************************************************************)
(* Two nodes; a posts three messages and b one, and a smsgMsg holds two.   *)
(* Up to two messages are under way between them before one of them sends  *)
(* another smsgInv, so that inventories, and the locks for them, cross; a  *)
(* lock lasts for one round, so that an answer may come after it has run   *)
(* out and the next one has been asked for.  Two beginnings:               *)
(*                                                                         *)
(*   Restarted: both nodes start with the buckets of an earlier session,   *)
(*     and one of them is disabled for a while, from the start or later.   *)
(*   Connected: the handshake is over, each node has messages the other    *)
(*     lacks, and a posts one more, which a smsgMsg lists between those    *)
(*     it had.                                                             *)
(***************************************************************************)
EXTENDS SecureMsg, TLC

CONSTANTS a, b

MCNode == {a, b}
MCOrigin == <<a, a, a, b>>

Restarted ==
  /\ Init
  /\ file = (a :> {1, 2, 3, 4} @@ b :> {2, 3, 4})
  /\ toggles = IF \E n \in Node : ~fSecMsgenabled[n] THEN MaxToggles ELSE 0

Connected ==
  /\ fSecMsgenabled = [n \in Node |-> TRUE]
  /\ file = (a :> {1, 3} @@ b :> {4}) /\ setTokens = file /\ posted = {1, 3, 4}
  /\ nLockCount = [n \in Node |-> 0] /\ nLockPeer = [n \in Node |-> NONE]
  /\ fMet = [n \in Node |-> [p \in Node |-> p # n]] /\ fEnabled = fMet
  /\ fQuiet = [n \in Node |-> [p \in Node |-> FALSE]] /\ fIgnored = fQuiet
  /\ wire = [n \in Node |-> [p \in Node |-> <<>>]]
  /\ fExpired = FALSE /\ toggles = MaxToggles

MCSpec == (Restarted \/ Connected) /\ [][Next]_vars /\ Fairness
============================================================================
