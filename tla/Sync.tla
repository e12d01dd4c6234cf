-------------------------------- MODULE Sync --------------------------------
(***************************************************************************)
(* How a node downloads the chain of a peer: "getblocks", "inv", "getdata" *)
(* and "block" of ProcessMessage and SendMessages (main.cpp), with         *)
(* CNode::PushGetBlocks, PushInventory and AskFor (net.cpp, net.h) and the *)
(* orphan blocks of ProcessBlock.  The peer announces a bounded batch at a *)
(* time; the node has to ask for the next one.                             *)
(*                                                                         *)
(* The peer's chain is the line of its heights, and a block is its height. *)
(* Every block is valid; forks are the subject of Chain and Intake.        *)
(***************************************************************************)
EXTENDS Naturals, SequencesExt

CONSTANTS
  ProofOfWork,     \* the heights of the proof-of-work blocks
  FirstTip,        \* the height of the peer at the start
  LastTip,         \* bound on that height
  Batch,           \* 500, the limit of "getblocks"
  MaxKnown,        \* SendBufferSize() / 1000, the size of setInventoryKnown
  StakeMinAge,     \* nStakeMinAge, in blocks
  DownloadUntil,   \* IsInitialBlockDownload() holds below this height
  MaxDisconnects   \* bound on disconnections

(* What is assumed of the constants. *)
SyncAssumption ==
  /\ {FirstTip, LastTip, StakeMinAge, DownloadUntil, MaxDisconnects} \subseteq Nat
  /\ {Batch, MaxKnown} \subseteq Nat \ {0}
  /\ FirstTip <= LastTip /\ ProofOfWork \subseteq 1 .. LastTip

NONE == 0   \* uint256(0); the genesis block is never asked for

VARIABLES
  (* the node *)
  have,                \* pindexBest: it has the blocks 0 .. have
  mapOrphanBlocks,
  mapAskFor,           \* the requests to be sent, oldest first
  retries,             \* the requests that wait for two minutes
  mapAlreadyAskedFor,
  lastGetBlocks,       \* <<pindexLastGetBlocksBegin, hashLastGetBlocksEnd>>
  (* the peer *)
  tip,
  setInventoryKnown,   \* of its CNode for the node, oldest first
  vInventoryToSend,
  hashContinue,
  (* the connection *)
  toPeer, toNode,
  disconnects

nodeVars == <<have, mapOrphanBlocks, mapAskFor, retries, mapAlreadyAskedFor, lastGetBlocks>>
peerVars == <<tip, setInventoryKnown, vInventoryToSend, hashContinue>>
vars == <<nodeVars, peerVars, toPeer, toNode, disconnects>>

Height == 0 .. LastTip

TypeOK ==
  /\ have \in 0 .. tip /\ tip \in FirstTip .. LastTip
  /\ mapOrphanBlocks \subseteq have + 2 .. tip
  /\ mapAskFor \in Seq(1 .. LastTip) /\ vInventoryToSend \in Seq(1 .. LastTip)
  /\ retries \subseteq Height /\ mapAlreadyAskedFor \subseteq Height
  /\ lastGetBlocks \in Height \X Height
  /\ setInventoryKnown \in Seq(Height) /\ Len(setInventoryKnown) <= MaxKnown
  /\ hashContinue \in Height
  /\ disconnects \in 0 .. MaxDisconnects

---------------------------------------------------------------------------
(* The node *)

AlreadyHave(h) == h <= have \/ h \in mapOrphanBlocks

(* GetOrphanRoot, with h among the orphans; WantedByOrphan is below it. *)
GetOrphanRoot(h, orphans) ==
  CHOOSE r \in orphans : r - 1 \notin orphans /\ r .. h \subseteq orphans

(* CNode::PushGetBlocks for each of reqs in turn: a request that repeats   *)
(* the last one is not sent.                                               *)
PushGetBlocks(reqs) ==
  LET Repeats(i) == reqs[i] = IF i = 1 THEN lastGetBlocks ELSE reqs[i - 1]
      sent == SelectSeq([i \in 1 .. Len(reqs) |-> i], LAMBDA i : ~Repeats(i))
  IN  /\ lastGetBlocks' = IF reqs = <<>> THEN lastGetBlocks ELSE Last(reqs)
      /\ toPeer' = toPeer \o [i \in 1 .. Len(sent) |->
                                [type |-> "getblocks", begin |-> reqs[sent[i]][1],
                                 end |-> reqs[sent[i]][2]]]

(* Mutant: a block is asked for only once. *)
AskForOnce(hs, already) ==
  /\ mapAskFor' = mapAskFor \o SelectSeq(hs, LAMBDA h : h \notin already)
  /\ mapAlreadyAskedFor' = already \cup ToSet(hs)
  /\ UNCHANGED retries

(* CNode::AskFor for each of hs: at once, or two minutes after the last    *)
(* request for the same block.                                             *)
AskFor(hs, already) ==
  /\ mapAskFor' = mapAskFor \o SelectSeq(hs, LAMBDA h : h \notin already)
  /\ retries' = retries \cup (ToSet(hs) \cap already)
  /\ mapAlreadyAskedFor' = already \cup ToSet(hs)

(* "inv": blocks the node lacks are asked for; for an orphan it asks for   *)
(* what is missing below; if it has the last one, for what comes after it. *)
ReceiveInv(vInv) ==
  LET asks == SelectSeq([i \in 1 .. Len(vInv) |-> i],
                        LAMBDA i : \/ vInv[i] \in mapOrphanBlocks
                                   \/ i = Len(vInv) /\ vInv[i] <= have)
  IN  /\ AskFor(SelectSeq(vInv, LAMBDA h : ~AlreadyHave(h)), mapAlreadyAskedFor)
      /\ PushGetBlocks([i \in 1 .. Len(asks) |->
                          LET h == vInv[asks[i]]
                          IN  IF h \in mapOrphanBlocks
                              THEN <<have, GetOrphanRoot(h, mapOrphanBlocks)>>
                              ELSE <<h, NONE>>])
      /\ UNCHANGED <<have, mapOrphanBlocks>>

(* "block", with ProcessBlock: a duplicate, ...                            *)
DuplicateBlock(h) ==
  AlreadyHave(h) /\ UNCHANGED <<nodeVars, toPeer>>
(* ... the next block, with the orphans that follow it, ...                *)
NextBlock(h) ==
  /\ h = have + 1
  /\ have' = CHOOSE t \in h .. LastTip :
               h + 1 .. t \subseteq mapOrphanBlocks /\ t + 1 \notin mapOrphanBlocks
  /\ mapOrphanBlocks' = {o \in mapOrphanBlocks : o > have'}
  /\ mapAlreadyAskedFor' = mapAlreadyAskedFor \ {h}
  /\ UNCHANGED <<mapAskFor, retries, lastGetBlocks, toPeer>>

(* ... or an orphan: the node asks for the blocks up to it and, when the   *)
(* first download is over, directly for the one it lacks.                  *)
OrphanBlock(h) ==
  /\ h > have + 1 /\ h \notin mapOrphanBlocks
  /\ mapOrphanBlocks' = mapOrphanBlocks \cup {h}
  /\ LET root == GetOrphanRoot(h, mapOrphanBlocks')
     IN  /\ PushGetBlocks(<< <<have, root>> >>)
         /\ AskFor(IF have < DownloadUntil THEN <<>> ELSE <<root - 1>>, mapAlreadyAskedFor \ {h})
  /\ UNCHANGED have

ReceiveBlock(h) == DuplicateBlock(h) \/ NextBlock(h) \/ OrphanBlock(h)

NodeReceives ==
  /\ toNode # <<>>
  /\ toNode' = Tail(toNode)
  /\ LET m == Head(toNode)
     IN  \/ m.type = "inv" /\ ReceiveInv(m.inv)
         \/ m.type = "block" /\ ReceiveBlock(m.block)
  /\ UNCHANGED <<peerVars, disconnects>>

(* SendMessages: the requests that are due, without the blocks that have   *)
(* come meanwhile.                                                         *)
GetData(hs) ==
  LET wanted == SelectSeq(hs, LAMBDA h : ~AlreadyHave(h))
  IN  /\ toPeer' = IF wanted = <<>> THEN toPeer
                   ELSE Append(toPeer, [type |-> "getdata", inv |-> wanted])
      /\ mapAlreadyAskedFor' = mapAlreadyAskedFor \cup ToSet(wanted)
      /\ UNCHANGED <<have, mapOrphanBlocks, lastGetBlocks, peerVars, toNode, disconnects>>

SendGetData == mapAskFor # <<>> /\ GetData(mapAskFor) /\ mapAskFor' = <<>> /\ UNCHANGED retries
RetryDue(h) == h \in retries /\ GetData(<<h>>) /\ retries' = retries \ {h} /\ UNCHANGED mapAskFor

---------------------------------------------------------------------------
(* The peer *)

(* mruset::insert *)
Insert(known, h) ==
  IF h \in ToSet(known) THEN known
  ELSE Append(IF Len(known) = MaxKnown THEN Tail(known) ELSE known, h)

Unknown(hs) == SelectSeq(hs, LAMBDA h : h \notin ToSet(setInventoryKnown))

(* "getblocks": the blocks after begin, up to end, or the first Batch. *)
ReceiveGetBlocks(begin, end) ==
  LET reached == end \in begin + 1 .. begin + Batch /\ end <= tip
      last == IF reached THEN end - 1 ELSE IF begin + Batch <= tip THEN begin + Batch ELSE tip
      news == IF reached /\ end # tip /\ end + StakeMinAge > tip THEN <<tip>> ELSE <<>>
  IN  /\ vInventoryToSend' = vInventoryToSend
           \o Unknown([i \in 1 .. last - begin |-> begin + i] \o news)
      /\ hashContinue' = IF ~reached /\ last = begin + Batch THEN last ELSE hashContinue
      /\ UNCHANGED <<tip, setInventoryKnown, toNode>>

(* GetLastBlockIndex(pindexBest, false) *)
LastProofOfWork ==
  CHOOSE h \in ProofOfWork \cup {0} : h <= tip /\ \A w \in ProofOfWork : w <= tip => w <= h

(* "getdata": the blocks; after the last one of a batch, an "inv" that is  *)
(* to make the node ask for the next batch.                                *)
ReceiveGetData(hs) ==
  LET Answer(h) == << [type |-> "block", block |-> h] >>
                   \o IF h = hashContinue
                      THEN << [type |-> "inv", inv |-> <<LastProofOfWork>>] >> ELSE <<>>
  IN  /\ toNode' = toNode \o FlattenSeq([i \in 1 .. Len(hs) |-> Answer(hs[i])])
      /\ hashContinue' = IF hashContinue \in ToSet(hs) THEN NONE ELSE hashContinue
      /\ UNCHANGED <<tip, setInventoryKnown, vInventoryToSend>>

PeerReceives ==
  /\ toPeer # <<>>
  /\ toPeer' = Tail(toPeer)
  /\ LET m == Head(toPeer)
     IN  \/ m.type = "getblocks" /\ ReceiveGetBlocks(m.begin, m.end)
         \/ m.type = "getdata" /\ ReceiveGetData(m.inv)
  /\ UNCHANGED <<nodeVars, disconnects>>

(* SendMessages: the inventory that the node is not known to know. *)
SendInventory ==
  /\ vInventoryToSend # <<>>
  /\ vInventoryToSend' = <<>>
  /\ LET all == FoldLeft(LAMBDA s, h : IF h \in ToSet(s.known) THEN s
                                       ELSE [known |-> Insert(s.known, h), inv |-> Append(s.inv, h)],
                         [known |-> setInventoryKnown, inv |-> <<>>], vInventoryToSend)
     IN  /\ setInventoryKnown' = all.known
         /\ toNode' = IF all.inv = <<>> THEN toNode
                      ELSE Append(toNode, [type |-> "inv", inv |-> all.inv])
  /\ UNCHANGED <<nodeVars, tip, hashContinue, toPeer, disconnects>>

(* The peer accepts a block: AcceptBlock relays its inventory. *)
NewBlock ==
  /\ tip < LastTip
  /\ tip' = tip + 1
  /\ vInventoryToSend' = vInventoryToSend \o Unknown(<<tip + 1>>)
  /\ UNCHANGED <<nodeVars, setInventoryKnown, hashContinue, toPeer, toNode, disconnects>>

---------------------------------------------------------------------------
(* The connection breaks and, both CNode objects being new, starts over    *)
(* with the "getblocks" that follows the version of the only peer.         *)
Disconnect ==
  /\ disconnects < MaxDisconnects
  /\ disconnects' = disconnects + 1
  /\ mapAskFor' = <<>> /\ retries' = {}
  /\ setInventoryKnown' = <<>> /\ vInventoryToSend' = <<>> /\ hashContinue' = NONE
  /\ lastGetBlocks' = <<have, NONE>>
  /\ toPeer' = << [type |-> "getblocks", begin |-> have, end |-> NONE] >> /\ toNode' = <<>>
  /\ UNCHANGED <<have, mapOrphanBlocks, mapAlreadyAskedFor, tip>>

Init ==
  /\ have = 0 /\ mapOrphanBlocks = {}
  /\ mapAskFor = <<>> /\ retries = {} /\ mapAlreadyAskedFor = {}
  /\ lastGetBlocks = <<0, NONE>>
  /\ tip = FirstTip
  /\ setInventoryKnown = <<>> /\ vInventoryToSend = <<>> /\ hashContinue = NONE
  /\ toPeer = << [type |-> "getblocks", begin |-> 0, end |-> NONE] >> /\ toNode = <<>>
  /\ disconnects = 0

Handler ==
  NodeReceives \/ SendGetData \/ (\E h \in retries : RetryDue(h)) \/ PeerReceives \/ SendInventory

Next == Handler \/ NewBlock \/ Disconnect

(* The message threads of both nodes go round; a retry is due some time.   *)
Spec ==
  /\ Init /\ [][Next]_vars
  /\ WF_vars(NodeReceives) /\ WF_vars(SendGetData)
  /\ WF_vars(PeerReceives) /\ WF_vars(SendInventory)
  /\ \A h \in Height : WF_vars(RetryDue(h))

---------------------------------------------------------------------------
(* Properties *)

(* "When this block is requested, we'll send an inv that'll make them      *)
(* getblocks the next batch of inventory." ("getblocks"): the download     *)
(* goes on after the last block of a batch.                                *)
BatchContinues ==
  \A h \in Height \ {0} : (hashContinue = h) ~> (have > h \/ (have = h /\ tip = h))

(* Whatever the chain looks like, and whatever requests and orphans the    *)
(* connections before it left behind, a connection to a peer that is ahead *)
(* brings the node forward.                                                *)
JustConnected ==
  /\ toPeer = << [type |-> "getblocks", begin |-> have, end |-> NONE] >>
  /\ toNode = <<>> /\ setInventoryKnown = <<>> /\ vInventoryToSend = <<>>
ConnectionHelps ==
  \A h \in Height : (JustConnected /\ have = h /\ h < tip) ~> (have > h)
============================================================================
