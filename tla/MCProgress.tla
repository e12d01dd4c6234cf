---------------------------- MODULE MCProgress ----------------------------
(***************************************************************************)
(* An instance of three parts of the node that share no state and have to  *)
(* get somewhere: the start, the download of blocks and the alerts.  A     *)
(* behaviour of the node interleaves theirs, so one behaviour here is that *)
(* of one part, and the others stay as they began.                         *)
(***************************************************************************)
EXTENDS Startup

CONSTANTS
  n1, n2, n3, minor, major, final      \* the nodes and alerts of Alerts

VARIABLES
  part,     \* the part that runs
  have, mapOrphanBlocks, mapAskFor, retries, mapAlreadyAskedFor, lastGetBlocks,
  tip, setInventoryKnown, vInventoryToSend, hashContinue, toPeer, toNode, disconnects,
  now, mapAlerts, peers, setKnown, alerts, breaks

syncVars == <<have, mapOrphanBlocks, mapAskFor, retries, mapAlreadyAskedFor, lastGetBlocks,
              tip, setInventoryKnown, vInventoryToSend, hashContinue, toPeer, toNode,
              disconnects>>
alertVars == <<now, mapAlerts, peers, setKnown, alerts, breaks>>
vars == <<part, bootVars, syncVars, alertVars>>

---------------------------------------------------------------------------
(* The constants of Startup are in the configuration: starts of one        *)
(* database by builds with two master keys.                                *)

(* A chain that began with one block of proof of work, downloaded in       *)
(* batches of two blocks while it grows; the connection breaks twice.      *)
D == INSTANCE Sync
  WITH ProofOfWork <- {1}, FirstTip <- 4, LastTip <- 5, Batch <- 2, MaxKnown <- 4,
       StakeMinAge <- 3, DownloadUntil <- 3, MaxDisconnects <- 2

(* Three nodes in a line and three alerts: a minor one, one that cancels   *)
(* it and expires, and the last one.                                       *)
Nodes == {n1, n2, n3}
Of(x, y, z) == [e \in {minor, major, final} |->
                  CASE e = minor -> x [] e = major -> y [] e = final -> z]
A == INSTANCE Alerts
  WITH Node <- Nodes, Link <- {<<n1, n2>>, <<n2, n1>>, <<n2, n3>>, <<n3, n2>>},
       Alert <- {minor, major, final}, Source <- Of({n1}, {n3}, {n1, n2}),
       ID <- Of(1, 2, 9), CancelUpTo <- Of(0, 0, 8), CancelSet <- Of({}, {1}, {}),
       Expiration <- Of(2, 1, 9), RelayUntil <- Of(2, 0, 0), Applies <- Of({}, {n1}, Nodes),
       MaxID <- 9, Predefined <- {final}, MaxTime <- 2, MaxBreaks <- 1, wire <- alerts

ASSUME ProgressAssumption ==
  /\ DBAssumption /\ BatchAssumption /\ StartAssumption
  /\ D!SyncAssumption /\ A!AlertAssumption

---------------------------------------------------------------------------
Init ==
  /\ part \in {"start", "blocks", "alerts"}
  /\ StartInit /\ D!Init /\ A!Init
  /\ part # "start" => disk = Empty /\ strMasterPubKey = CHOOSE key \in MasterKey : TRUE

Next ==
  \/ part = "start" /\ StartNext /\ UNCHANGED <<part, syncVars, alertVars>>
  \/ part = "blocks" /\ D!Next /\ UNCHANGED <<part, bootVars, alertVars>>
  \/ part = "alerts" /\ A!Next /\ UNCHANGED <<part, bootVars, syncVars>>

(* The fairness of Startup, Sync and Alerts, each where it runs. *)
Fairness ==
  /\ WF_bootVars(part = "start" /\ Step)
  /\ WF_syncVars(part = "blocks" /\ D!NodeReceives)
  /\ WF_syncVars(part = "blocks" /\ D!SendGetData)
  /\ WF_syncVars(part = "blocks" /\ D!PeerReceives)
  /\ WF_syncVars(part = "blocks" /\ D!SendInventory)
  /\ \A h \in D!Height : WF_syncVars(part = "blocks" /\ D!RetryDue(h))
  /\ \A m \in A!Message : WF_alertVars(part = "alerts" /\ A!Receive(m))
  /\ \A a, b \in Nodes : WF_alertVars(part = "alerts" /\ A!Version(a, b))

Spec == Init /\ [][Next]_vars /\ Fairness

---------------------------------------------------------------------------
(* Properties: those of the parts. *)

(* StartsSound and StartEnds are Startup's. *)

(* A new connection to a peer that is ahead brings the node forward,       *)
(* whatever requests and orphans the connections before it left behind.    *)
ConnectionHelps ==
  \A h \in D!Height : (part = "blocks" /\ D!JustConnected /\ have = h /\ h < tip) ~> (have > h)

(* An alert that does not expire and that none cancels reaches every node, *)
(* although RelayTo sends it to a peer only once and connections break.    *)
Spreads == A!Spreads
============================================================================
