---------------------------- MODULE BestChain -----------------------------
(***************************************************************************)
(* What the block database promises: the confirmed ledger is, at every     *)
(* moment and across crashes, exactly the ledger of one valid branch made  *)
(* of known blocks, and moves from one such branch to another in a single  *)
(* step.  No promise is left once fTorn is raised (see Chain.tla).         *)
(***************************************************************************)
EXTENDS Ledger

VARIABLES
  known,    \* the accepted blocks
  best,     \* the tip of the confirmed branch
  ledger,   \* the confirmed transaction index
  fTorn     \* the promise is off

vars == <<known, best, ledger, fTorn>>

Init ==
  /\ known = {Genesis}
  /\ best = Genesis
  /\ ledger = LedgerAt[Genesis]
  /\ fTorn = FALSE

Learn(b) ==
  /\ ~fTorn
  /\ Prev[b] \in known
  /\ known' = known \cup {b}
  /\ UNCHANGED <<best, ledger, fTorn>>

Adopt(b) ==
  /\ ~fTorn
  /\ Valid(b)
  /\ Chain[b] \subseteq known
  /\ best' = b
  /\ ledger' = LedgerAt[b]
  /\ UNCHANGED <<known, fTorn>>

Tear == fTorn'

Next == (\E b \in Block : Learn(b) \/ Adopt(b)) \/ Tear

Spec == Init /\ [][Next]_vars
============================================================================
