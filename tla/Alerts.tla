------------------------------- MODULE Alerts -------------------------------
(***************************************************************************)
(* Alerts, as they spread from node to node: CAlert::ProcessAlert, Cancels *)
(* and RelayTo of alert.cpp, the "alert" handler and the part of the       *)
(* "version" handler of main.cpp that relays them.  What an alert says is  *)
(* left out; every alert here has a valid signature.  The penalty of a     *)
(* peer whose alert is refused is left out too.                            *)
(***************************************************************************)
EXTENDS Naturals

CONSTANTS
  Node,
  Link,         \* the pairs of nodes that connect to each other
  Alert,
  Source,       \* Source[a]: the nodes that hear of a from outside
  ID,           \* ID[a]: nID
  CancelUpTo,   \* CancelUpTo[a]: nCancel
  CancelSet,    \* CancelSet[a]: setCancel
  Expiration,   \* Expiration[a]: nExpiration
  RelayUntil,   \* RelayUntil[a]: nRelayUntil
  Applies,      \* Applies[a]: the nodes whose version a is meant for
  MaxID,        \* the largest int
  Predefined,   \* the alerts that have the form reserved for MaxID
  MaxTime,      \* bound on the clock
  MaxBreaks     \* bound on broken connections

(* What is assumed of the constants. *)
AlertAssumption ==
  /\ Link \subseteq Node \X Node /\ \A l \in Link : l[1] # l[2] /\ <<l[2], l[1]>> \in Link
  /\ Predefined \subseteq Alert /\ MaxTime \in Nat /\ MaxBreaks \in Nat
  /\ \A a \in Alert :
       /\ ID[a] \in Nat /\ CancelUpTo[a] \in Nat /\ CancelSet[a] \subseteq Nat
       /\ Expiration[a] \in Nat /\ RelayUntil[a] \in Nat /\ Applies[a] \subseteq Node
  /\ \A a \in Predefined : CancelUpTo[a] = MaxID - 1 /\ Expiration[a] > MaxTime
                            /\ Applies[a] = Node

VARIABLES
  now,         \* GetAdjustedTime()
  mapAlerts,   \* mapAlerts[n]: the alerts n holds
  peers,       \* peers[n]: the nodes whose version n has
  setKnown,    \* setKnown[n][p]: CNode::setKnown of p at n
  wire,        \* the "alert" messages on their way
  breaks

vars == <<now, mapAlerts, peers, setKnown, wire, breaks>>

Message == [from : Node, to : Node, alert : Alert]

(* Types; an alert on its way is marked at its sender, so that it is not   *)
(* sent again on the same connection.                                      *)
AlertTypeOK ==
  /\ now \in 0 .. MaxTime
  /\ mapAlerts \in [Node -> SUBSET Alert]
  /\ peers \in [Node -> SUBSET Node]
  /\ setKnown \in [Node -> [Node -> SUBSET Alert]]
  /\ wire \subseteq Message /\ breaks \in 0 .. MaxBreaks
  /\ \A m \in wire : m.alert \in setKnown[m.from][m.to]

---------------------------------------------------------------------------
IsInEffect(a) == now < Expiration[a]

Cancels(a, b) == IsInEffect(a) /\ (ID[b] <= CancelUpTo[a] \/ ID[b] \in CancelSet[a])

AppliesTo(a, n) == IsInEffect(a) /\ n \in Applies[a]

(* ProcessAlert: whether a is looked at, *)
IsAlert(a) == IsInEffect(a) /\ (ID[a] = MaxID => a \in Predefined)
(* what it leaves of the alerts that n holds, *)
Remaining(n, a) == {b \in mapAlerts[n] : ~Cancels(a, b) /\ IsInEffect(b)}
(* and whether a is taken. *)
Accepted(n, a) == IsAlert(a) /\ \A b \in Remaining(n, a) : ~Cancels(b, a)

ProcessAlert(n, a) ==
  mapAlerts' = [mapAlerts EXCEPT ![n] =
                  IF ~IsAlert(a) THEN @
                  ELSE Remaining(n, a) \cup IF Accepted(n, a) THEN {a} ELSE {}]

(* RelayTo, for the peers ps and the alerts as: each is sent once, and is  *)
(* marked as known even if it is not sent.                                 *)
IsSent(n, a, p) == AppliesTo(a, p) \/ AppliesTo(a, n) \/ now < RelayUntil[a]
RelayTo(n, ps, as, known, onWire) ==
  LET new == {x \in ps \X as : IsInEffect(x[2]) /\ x[2] \notin known[x[1]]}
  IN  /\ setKnown' = [setKnown EXCEPT ![n] =
                        [p \in Node |-> known[p] \cup {a \in as : <<p, a>> \in new}]]
      /\ wire' = onWire \cup {[from |-> n, to |-> x[1], alert |-> x[2]] :
                                x \in {y \in new : IsSent(n, y[2], y[1])}}

(* An alert comes from the holder of the key, or from a node not shown. *)
Publish(n, a) ==
  /\ n \in Source[a]
  /\ ProcessAlert(n, a)
  /\ IF Accepted(n, a) THEN RelayTo(n, peers[n], {a}, setKnown[n], wire)
     ELSE UNCHANGED <<setKnown, wire>>
  /\ UNCHANGED <<now, peers, breaks>>

(* The "alert" handler, for a message of a peer that has sent its version. *)
Receive(m) ==
  /\ m \in wire /\ m.from \in peers[m.to]
  /\ IF m.alert \in setKnown[m.to][m.from]
     THEN wire' = wire \ {m} /\ UNCHANGED <<mapAlerts, setKnown>>
     ELSE /\ ProcessAlert(m.to, m.alert)
          /\ IF Accepted(m.to, m.alert)
             THEN RelayTo(m.to, peers[m.to], {m.alert},
                          [setKnown[m.to] EXCEPT ![m.from] = @ \cup {m.alert}], wire \ {m})
             ELSE wire' = wire \ {m} /\ UNCHANGED setKnown
  /\ UNCHANGED <<now, peers, breaks>>

(* Mutant: a new peer is told nothing. *)
VersionQuietly(n, p) ==
  /\ <<n, p>> \in Link /\ p \notin peers[n]
  /\ peers' = [peers EXCEPT ![n] = @ \cup {p}]
  /\ UNCHANGED <<now, mapAlerts, breaks, setKnown, wire>>
(* The "version" handler at n: p is told of all alerts. *)
Version(n, p) ==
  /\ <<n, p>> \in Link /\ p \notin peers[n]
  /\ peers' = [peers EXCEPT ![n] = @ \cup {p}]
  /\ RelayTo(n, {p}, mapAlerts[n], setKnown[n], wire)
  /\ UNCHANGED <<now, mapAlerts, breaks>>

(* The connection of n and p breaks; both forget its CNode. *)
Disconnect(n, p) ==
  /\ breaks < MaxBreaks /\ breaks' = breaks + 1
  /\ p \in peers[n] \/ n \in peers[p]
  /\ peers' = [peers EXCEPT ![n] = @ \ {p}, ![p] = @ \ {n}]
  /\ setKnown' = [setKnown EXCEPT ![n][p] = {}, ![p][n] = {}]
  /\ wire' = {m \in wire : {m.from, m.to} # {n, p}}
  /\ UNCHANGED <<now, mapAlerts>>

(* GetAdjustedTime follows the clocks of the peers, in both directions. *)
ClockChanges(t) == now' = t /\ UNCHANGED <<mapAlerts, peers, setKnown, wire, breaks>>

Init ==
  /\ now = 0
  /\ mapAlerts = [n \in Node |-> {}]
  /\ peers = [n \in Node |-> {}]
  /\ setKnown = [n \in Node |-> [p \in Node |-> {}]]
  /\ wire = {} /\ breaks = 0

Next ==
  \/ \E n \in Node, a \in Alert : Publish(n, a)
  \/ \E m \in wire : Receive(m)
  \/ \E n, p \in Node : Version(n, p) \/ Disconnect(n, p)
  \/ \E t \in 0 .. MaxTime : ClockChanges(t)

(* Versions and alerts that are sent arrive, unless the connection breaks. *)
Spec ==
  /\ Init /\ [][Next]_vars
  /\ \A m \in Message : WF_vars(Receive(m))
  /\ \A n, p \in Node : WF_vars(Version(n, p))

---------------------------------------------------------------------------
(* Properties *)

(* An alert that does not expire and that none cancels reaches every node  *)
(* of a connected network,                                                 *)
(* although an alert is sent to a peer only once, connections break, and   *)
(* nodes that hold it learn of each other later.                           *)
Lasting == {a \in Predefined : \A b \in Alert \ {a} :
              ID[a] > CancelUpTo[b] /\ ID[a] \notin CancelSet[b]}
Spreads ==
  \A a \in Lasting : (\E n \in Node : a \in mapAlerts[n]) ~> (\A n \in Node : a \in mapAlerts[n])
============================================================================
