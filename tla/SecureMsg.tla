----------------------------- MODULE SecureMsg -----------------------------
(***************************************************************************)
(* How nodes exchange secure messages: SecureMsgSendData,                  *)
(* SecureMsgReceiveData, SecureMsgReceive, SecureMsgStore, SecureMsgEnable *)
(* and SecureMsgDisable of smessage.cpp, with the threads ThreadSecureMsg  *)
(* and ThreadSecureMsgPow.  Every node keeps the messages of the last two  *)
(* days in buckets and pulls what it lacks from its peers: smsgInv,        *)
(* smsgShow, smsgHave, smsgWant and smsgMsg.                               *)
(*                                                                         *)
(* One bucket is shown, and a message is its token.  Times are left out    *)
(* where only their order counts: fQuiet stands for "the bucket changed    *)
(* before lastMatched", fIgnored for "now is before ignoreUntil".          *)
(***************************************************************************)
EXTENDS Naturals, FiniteSets, SequencesExt

CONSTANTS
  Node,
  NONE,         \* no peer
  Origin,       \* Origin[m]: the node that posts m; the messages are numbers
  Bunch,        \* 500, the messages in one smsgMsg
  LockTicks,    \* 3, the rounds of ThreadSecureMsg that a lock lasts
  MaxToggles,   \* bound on disabling and enabling
  MaxQueue      \* bound on the messages between two nodes before another smsgInv

Token == DOMAIN Origin

ASSUME SecureMsgAssumption ==
  /\ NONE \notin Node
  /\ Token \subseteq Nat /\ Origin \in [Token -> Node]
  /\ {Bunch, LockTicks} \subseteq Nat \ {0} /\ {MaxToggles, MaxQueue} \subseteq Nat

VARIABLES
  fSecMsgenabled,   \* fSecMsgenabled[n]
  setTokens,        \* setTokens[n]: the bucket in memory
  file,             \* file[n]: the bucket file
  nLockCount,       \* nLockCount[n]
  nLockPeer,        \* nLockPeer[n]: nLockPeerId
  fMet,             \* fMet[n][p]: lastSeen # 0, smsgPing has been sent
  fEnabled,         \* fEnabled[n][p]
  fQuiet,           \* fQuiet[n][p]
  fIgnored,         \* fIgnored[n][p]
  wire,             \* wire[n][p]: the messages from n to p
  posted,           \* the messages that have been sent by their authors
  fExpired,         \* the bucket is older than SMSG_RETENTION
  toggles

peerVars == <<fMet, fEnabled, fQuiet, fIgnored>>
bucketVars == <<setTokens, file, nLockCount, nLockPeer>>
worldVars == <<posted, fExpired, toggles>>
vars == <<fSecMsgenabled, bucketVars, peerVars, wire, worldVars>>

Link == [Node -> [Node -> BOOLEAN]]

(* Types; a bucket in memory is what its file holds. *)
SecureMsgTypeOK ==
  /\ fSecMsgenabled \in [Node -> BOOLEAN]
  /\ setTokens \in [Node -> SUBSET posted] /\ file \in [Node -> SUBSET posted]
  /\ nLockCount \in [Node -> 0 .. LockTicks] /\ nLockPeer \in [Node -> Node \cup {NONE}]
  /\ fMet \in Link /\ fEnabled \in Link /\ fQuiet \in Link /\ fIgnored \in Link
  /\ posted \subseteq Token /\ fExpired \in BOOLEAN /\ toggles \in 0 .. MaxToggles
  /\ \A n \in Node : /\ setTokens[n] = IF fSecMsgenabled[n] THEN file[n] ELSE {}
                     /\ nLockCount[n] > 0 <=> nLockPeer[n] # NONE

---------------------------------------------------------------------------
Others(n) == Node \ {n}

(* PushMessage *)
Push(w, n, p, ms) == [w EXCEPT ![n][p] = @ \o ms]
ToAll(w, n, ms) == [w EXCEPT ![n] = [p \in Node |-> IF p = n THEN @[p] ELSE @[p] \o ms]]

(* hashBucket sets timeChanged: the bucket is newer than every smsgMatch   *)
(* that n has or that is on its way to n.                                  *)
Outdate(ms) == [i \in DOMAIN ms |-> IF ms[i].type = "smsgMatch" THEN [ms[i] EXCEPT !.old = TRUE]
                                     ELSE ms[i]]
Outdated(w, n) == [q \in Node |-> [w[q] EXCEPT ![n] = Outdate(@)]]
Unquiet(n) == fQuiet' = [fQuiet EXCEPT ![n] = [p \in Node |-> FALSE]]

(* SecureMsgStore *)
Store(n, ts) ==
  /\ setTokens' = [setTokens EXCEPT ![n] = @ \cup ts]
  /\ file' = [file EXCEPT ![n] = @ \cup ts]

---------------------------------------------------------------------------
(* SecureMsgReceiveData at n, for a message from p; w is what is left.     *)

Stays == UNCHANGED <<bucketVars, peerVars>>

(* Mutant: a bucket of the same size is taken to be the same. *)
WantsMore(n, inv) == Cardinality(setTokens[n]) < Cardinality(inv)
(* The bucket of the peer has more messages, or as many and other ones. *)
Wants(n, inv) ==
  \/ Cardinality(setTokens[n]) < Cardinality(inv)
  \/ Cardinality(setTokens[n]) = Cardinality(inv) /\ setTokens[n] # inv

ReceiveInv(n, p, inv, w) ==
  /\ Stays
  /\ wire' = CASE fIgnored[n][p] -> w
               [] ~fIgnored[n][p] /\ ~fExpired /\ nLockCount[n] > 0 -> w
               [] ~fIgnored[n][p] /\ ~fExpired /\ nLockCount[n] = 0 /\ Wants(n, inv) ->
                    Push(w, n, p, << [type |-> "smsgShow"] >>)
               [] OTHER -> Push(w, n, p, << [type |-> "smsgMatch", old |-> FALSE] >>)

ReceiveShow(n, p, w) ==
  /\ Stays
  /\ wire' = IF setTokens[n] = {} THEN w
             ELSE Push(w, n, p, << [type |-> "smsgHave", tokens |-> setTokens[n]] >>)

(* The bucket is locked until the peer has sent what it has. *)
ReceiveHave(n, p, tokens, w) ==
  LET wanted == tokens \ setTokens[n]
  IN  /\ IF fExpired \/ nLockCount[n] > 0 \/ wanted = {}
         THEN wire' = w /\ UNCHANGED <<nLockCount, nLockPeer>>
         ELSE /\ wire' = Push(w, n, p, << [type |-> "smsgWant", tokens |-> wanted] >>)
              /\ nLockCount' = [nLockCount EXCEPT ![n] = LockTicks]
              /\ nLockPeer' = [nLockPeer EXCEPT ![n] = p]
      /\ UNCHANGED <<setTokens, file, peerVars>>

ReceiveWant(n, p, tokens, w) ==
  LET found == SetToSortSeq(tokens \cap setTokens[n], <)
  IN  /\ Stays
      /\ wire' = IF found = <<>> THEN w
                 ELSE Push(w, n, p, << [type |-> "smsgMsg",
                        tokens |-> SubSeq(found, 1, IF Len(found) < Bunch THEN Len(found) ELSE Bunch)] >>)

(* SecureMsgReceive: messages are stored up to the first one that is there *)
(* already.                                                                *)
ReceiveMsg(n, p, tokens, w) ==
  LET new == {i \in DOMAIN tokens : \A j \in 1 .. i : tokens[j] \notin setTokens[n]}
  IN  IF fExpired THEN wire' = w /\ Stays
      ELSE /\ Store(n, {tokens[i] : i \in new})
           /\ nLockCount' = [nLockCount EXCEPT ![n] = 0]
           /\ nLockPeer' = [nLockPeer EXCEPT ![n] = NONE]
           /\ Unquiet(n) /\ wire' = Outdated(w, n)
           /\ UNCHANGED <<fMet, fEnabled, fIgnored>>

Flag(f, n, p, b) == [f EXCEPT ![n][p] = b]

ReceiveMatch(n, p, old, w) ==
  fQuiet' = Flag(fQuiet, n, p, ~old) /\ wire' = w /\ UNCHANGED <<bucketVars, fMet, fEnabled, fIgnored>>
ReceivePing(n, p, w) == Stays /\ wire' = Push(w, n, p, << [type |-> "smsgPong"] >>)
ReceivePong(n, p, b, w) ==
  fEnabled' = Flag(fEnabled, n, p, b) /\ wire' = w /\ UNCHANGED <<bucketVars, fMet, fQuiet, fIgnored>>
ReceiveIgnore(n, p, w) ==
  fIgnored' = Flag(fIgnored, n, p, TRUE) /\ wire' = w /\ UNCHANGED <<bucketVars, fMet, fEnabled, fQuiet>>

Handle(n, p, m, w) ==
  \/ m.type = "smsgInv"      /\ ReceiveInv(n, p, m.tokens, w)
  \/ m.type = "smsgShow"     /\ ReceiveShow(n, p, w)
  \/ m.type = "smsgHave"     /\ ReceiveHave(n, p, m.tokens, w)
  \/ m.type = "smsgWant"     /\ ReceiveWant(n, p, m.tokens, w)
  \/ m.type = "smsgMsg"      /\ ReceiveMsg(n, p, m.tokens, w)
  \/ m.type = "smsgMatch"    /\ ReceiveMatch(n, p, m.old, w)
  \/ m.type = "smsgPing"     /\ ReceivePing(n, p, w)
  \/ m.type = "smsgPong"     /\ ReceivePong(n, p, TRUE, w)
  \/ m.type = "smsgDisabled" /\ ReceivePong(n, p, FALSE, w)
  \/ m.type = "smsgIgnore"   /\ ReceiveIgnore(n, p, w)

(* ProcessMessage: a node without secure messages drops them. *)
Receive(n, p) ==
  /\ wire[p][n] # <<>>
  /\ LET w == [wire EXCEPT ![p][n] = Tail(@)]
     IN  IF fSecMsgenabled[n] THEN Handle(n, p, Head(wire[p][n]), w)
         ELSE wire' = w /\ Stays
  /\ UNCHANGED <<fSecMsgenabled, worldVars>>

---------------------------------------------------------------------------
(* SecureMsgSendData: the first contact; *)
FirstContact(n, p) ==
  /\ fSecMsgenabled[n] /\ ~fMet[n][p] /\ n # p
  /\ fMet' = Flag(fMet, n, p, TRUE)
  /\ wire' = Push(wire, n, p, << [type |-> "smsgPing"] >>)
  /\ UNCHANGED <<fSecMsgenabled, bucketVars, fEnabled, fQuiet, fIgnored, worldVars>>

(* the inventory of a bucket the peer is not known to have (bounded:       *)
(* SMSG_SEND_DELAY is long);                                               *)
MaySend(n, p) == fSecMsgenabled[n] /\ fMet[n][p] /\ fEnabled[n][p] /\ ~fIgnored[n][p]
SendInv(n, p) ==
  /\ MaySend(n, p) /\ ~fQuiet[n][p] /\ setTokens[n] # {}
  /\ Len(wire[n][p]) + Len(wire[p][n]) < MaxQueue
  /\ wire' = Push(wire, n, p, << [type |-> "smsgInv", tokens |-> setTokens[n]] >>)
  /\ UNCHANGED <<fSecMsgenabled, bucketVars, peerVars, worldVars>>

(* nWakeCounter has run out: lastMatched is forgotten. *)
Wake(n, p) ==
  /\ MaySend(n, p) /\ fQuiet[n][p]
  /\ fQuiet' = Flag(fQuiet, n, p, FALSE)
  /\ UNCHANGED <<fSecMsgenabled, bucketVars, fMet, fEnabled, fIgnored, wire, worldVars>>

IgnoreEnds(n, p) ==
  /\ fIgnored[n][p]
  /\ fIgnored' = Flag(fIgnored, n, p, FALSE)
  /\ UNCHANGED <<fSecMsgenabled, bucketVars, fMet, fEnabled, fQuiet, wire, worldVars>>

(* A round of ThreadSecureMsg: a lock that runs out makes the peer ignored; *)
Tick(n) ==
  /\ fSecMsgenabled[n] /\ ~fExpired /\ nLockCount[n] > 0
  /\ nLockCount' = [nLockCount EXCEPT ![n] = @ - 1]
  /\ IF nLockCount[n] > 1 THEN UNCHANGED <<nLockPeer, fIgnored, wire>>
     ELSE /\ nLockPeer' = [nLockPeer EXCEPT ![n] = NONE]
          /\ fIgnored' = Flag(fIgnored, n, nLockPeer[n], TRUE)
          /\ wire' = Push(wire, n, nLockPeer[n], << [type |-> "smsgIgnore"] >>)
  /\ UNCHANGED <<fSecMsgenabled, setTokens, file, fMet, fEnabled, fQuiet, worldVars>>
(* an old bucket is removed. *)
Clear(n) ==
  /\ setTokens' = [setTokens EXCEPT ![n] = {}]
  /\ nLockCount' = [nLockCount EXCEPT ![n] = 0]
  /\ nLockPeer' = [nLockPeer EXCEPT ![n] = NONE]
RemoveBucket(n) ==
  /\ fSecMsgenabled[n] /\ fExpired /\ (setTokens[n] # {} \/ nLockCount[n] > 0)
  /\ Clear(n) /\ file' = [file EXCEPT ![n] = {}]
  /\ UNCHANGED <<fSecMsgenabled, peerVars, wire, worldVars>>
Expire == /\ ~fExpired /\ fExpired' = TRUE
          /\ UNCHANGED <<fSecMsgenabled, bucketVars, peerVars, wire, posted, toggles>>

(* ThreadSecureMsgPow has found the proof of work of m. *)
Post(n, m) ==
  /\ fSecMsgenabled[n] /\ ~fExpired /\ Origin[m] = n /\ m \notin posted
  /\ posted' = posted \cup {m}
  /\ Store(n, {m}) /\ Unquiet(n) /\ wire' = Outdated(wire, n)
  /\ UNCHANGED <<fSecMsgenabled, nLockCount, nLockPeer, fMet, fEnabled, fIgnored, fExpired, toggles>>

(* SecureMsgDisable and SecureMsgEnable, with SecureMsgBuildBucketSet. *)
SecureMsgDisable(n) ==
  /\ fSecMsgenabled[n] /\ toggles < MaxToggles /\ toggles' = toggles + 1
  /\ fSecMsgenabled' = [fSecMsgenabled EXCEPT ![n] = FALSE]
  /\ Clear(n)
  /\ wire' = [wire EXCEPT ![n] = [p \in Node |-> IF fEnabled[n][p]
                                                 THEN @[p] \o << [type |-> "smsgDisabled"] >> ELSE @[p]]]
  /\ fEnabled' = [fEnabled EXCEPT ![n] = [p \in Node |-> FALSE]]
  /\ UNCHANGED <<file, fMet, fQuiet, fIgnored, posted, fExpired>>

(* Mutant: peers that missed nothing of this are not told. *)
EnableSilently(n) ==
  /\ ~fSecMsgenabled[n]
  /\ fSecMsgenabled' = [fSecMsgenabled EXCEPT ![n] = TRUE]
  /\ file' = [file EXCEPT ![n] = IF fExpired THEN {} ELSE @]
  /\ setTokens' = [setTokens EXCEPT ![n] = file'[n]]
  /\ Unquiet(n)
  /\ wire' = ToAll(Outdated(wire, n), n, << [type |-> "smsgPing"] >>)
  /\ UNCHANGED <<nLockCount, nLockPeer, fMet, fEnabled, fIgnored, worldVars>>

SecureMsgEnable(n) ==
  /\ ~fSecMsgenabled[n]
  /\ fSecMsgenabled' = [fSecMsgenabled EXCEPT ![n] = TRUE]
  /\ file' = [file EXCEPT ![n] = IF fExpired THEN {} ELSE @]
  /\ setTokens' = [setTokens EXCEPT ![n] = file'[n]]
  /\ Unquiet(n)
  /\ wire' = ToAll(Outdated(wire, n), n, << [type |-> "smsgPing"], [type |-> "smsgPong"] >>)
  /\ UNCHANGED <<nLockCount, nLockPeer, fMet, fEnabled, fIgnored, worldVars>>

(* A start: SecureMsgBuildBucketSet reads what earlier sessions have left. *)
Init ==
  /\ fSecMsgenabled \in [Node -> BOOLEAN]
  /\ file \in [Node -> SUBSET Token] /\ posted = UNION {file[n] : n \in Node}
  /\ setTokens = [n \in Node |-> IF fSecMsgenabled[n] THEN file[n] ELSE {}]
  /\ nLockCount = [n \in Node |-> 0] /\ nLockPeer = [n \in Node |-> NONE]
  /\ fMet = [n \in Node |-> [p \in Node |-> FALSE]]
  /\ fEnabled = fMet /\ fQuiet = fMet /\ fIgnored = fMet
  /\ wire = [n \in Node |-> [p \in Node |-> <<>>]]
  /\ fExpired = FALSE /\ toggles \in 0 .. MaxToggles

Next ==
  \/ \E n, p \in Node : \/ Receive(n, p) \/ FirstContact(n, p) \/ SendInv(n, p)
                        \/ Wake(n, p) \/ IgnoreEnds(n, p)
  \/ \E n \in Node : \/ Tick(n) \/ RemoveBucket(n)
                     \/ SecureMsgDisable(n) \/ SecureMsgEnable(n)
  \/ \E n \in Node, m \in Token : Post(n, m)
  \/ Expire

(* Threads and time go on; nothing is assumed of the user.                 *)
(* SendMessages comes to every peer again and again: only the bound on the *)
(* queues, which the code does not have, can keep SendInv from being       *)
(* enabled, hence SF.                                                      *)
Fairness ==
  /\ \A n \in Node : \A p \in Others(n) :
       /\ WF_vars(Receive(n, p)) /\ WF_vars(FirstContact(n, p))
       /\ SF_vars(SendInv(n, p)) /\ WF_vars(Wake(n, p)) /\ WF_vars(IgnoreEnds(n, p))
  /\ \A n \in Node : WF_vars(Tick(n)) /\ WF_vars(RemoveBucket(n))
Spec == Init /\ [][Next]_vars /\ Fairness

---------------------------------------------------------------------------
(* Properties *)

StayEnabled == <>[](\A n \in Node : fSecMsgenabled[n])

(* A message that has been posted reaches every node, unless it expires    *)
(* first or a node ends with secure messages disabled: although nodes      *)
(* announce a bucket only to those not known to have it, take a bucket of  *)
(* the same size for the same only if the hash is, lock it for one peer,   *)
(* ignore peers that are slow, and drop what follows a message they have.  *)
Converges ==
  StayEnabled => \A m \in Token : (m \in posted) ~> (fExpired \/ \A n \in Node : m \in setTokens[n])

(* Two nodes that both have secure messages enabled learn it of each       *)
(* other, in whatever order they were enabled and disabled before.         *)
HandshakeCompletes ==
  StayEnabled => <>[](\A n \in Node : \A p \in Others(n) : fEnabled[n][p])

(* "peer has this bucket" (SecureMsgSendData): what is not announced to a  *)
(* peer is there already.                                                  *)
QuietMeansHas ==
  \A n, p \in Node : fQuiet[n][p] /\ fEnabled[n][p] /\ fSecMsgenabled[p] /\ ~fExpired =>
    setTokens[n] \subseteq setTokens[p]
============================================================================
