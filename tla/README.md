# Formal models of the Pink2 node

TLA+ models of Pink2, a proof-of-stake node of the Bitcoin / PPCoin / NovaCoin
family: the block database and the choice of the best chain, the memory pool,
the intake of blocks and the synchronized checkpoints; on top of them the miner
and the wallet; and beside them the parts that share no state with them - the
weight and the target of a block, the key pool, the database objects, the start
of the node, the download of blocks, the address manager, alerts and secure
messages. TLC checks them on small instances, and TLAPS proves, for every value
of the constants, the safety properties of the chain, the pool, the intake of
blocks and checkpoints, the miner, the wallet, the database objects, the start,
the trust of blocks and the key pool. Line numbers refer to the files under `src/`.

## 1. Inventory of the system

| Component | State | Operations | Hard because | Correct when |
|---|---|---|---|---|
| Transaction index, block connection (`main.cpp`) | `"tx"` records of the txdb: position and `vSpent` of every confirmed transaction | `ConnectBlock`, `DisconnectBlock`, `FetchInputs`, `ConnectInputs`, `DisconnectInputs` | disconnecting has to undo connecting exactly, over any number of reorganisations | the index is that of one valid branch |
| Choice of the best chain (`main.cpp`) | `mapBlockIndex`, `pnext`, `nChainTrust`, `pindexBest` | `AddToBlockIndex`, `SetBestChain`, `SetBestChainInner`, `Reorganize` | memory and database change at different moments; a call commits several batches; some failures are "not fatal" | memory is what the disk says, and no heavier valid branch is known |
| Block trust (`main.cpp`) | `nBaseStakeTrust`, `nBaseStakeTrustHeight` | `GetModTrust`, `GetBlockTrust` | a cache of the process, refreshed by whichever branch comes first | the trust of a block is that of its branch, in every session |
| Block database (`txdb-leveldb.cpp`) | the active batch of every `CTxDB` | `Read`, `Write`, `Erase`, `Exists`, `TxnBegin/Commit/Abort`, `ScanBatch` | reads have to find the last of several changes in a list | the objects behave as a store with private changes and atomic commits |
| Start-up (`txdb-leveldb.cpp`, `main.cpp`, `init.cpp`) | the records `version`, `hashBestChain`, `hashSyncCheckpoint`, `strCheckpointPubKey` | opening and wiping the database, `LoadBlockIndex`, the genesis block, `-startfrom` | commits in sequence, with crashes and signals between them | a node that is up has everything, and comes up again |
| Memory pool, orphan transactions (`main.cpp`) | `mapTx`, `mapNextTx`, `mapOrphanTransactions`, `mapOrphanTransactionsByPrev` | `accept`, `addUnchecked`, `remove`, `removeConflicts`, the `"tx"` handler, `LimitOrphanTxSize` | must follow every reorganisation; maps with pointers into each other; random eviction | no two pool transactions conflict, none is confirmed, all can be connected |
| Block intake (`main.cpp`) | `mapOrphanBlocks`, `mapOrphanBlocksByPrev`, `setStakeSeen`, `setStakeSeenOrphan` | `ProcessBlock`, `AcceptBlock` | blocks come in any order; several maps; nested calls of `SetBestChain` | every orphan and every stake seen is accounted for |
| Checkpoints (`checkpoints.cpp`) | `hashSyncCheckpoint`, `hashPendingCheckpoint`, `hashInvalidCheckpoint`, the two messages | `ProcessSyncCheckpoint`, `AcceptPendingSyncCheckpoint`, `CheckSync`, `ResetSyncCheckpoint`, `SendSyncCheckpoint` | messages before blocks, after blocks, twice, conflicting; chain and record written in different batches | the best chain honours the checkpoint, and the checkpoint only advances |
| Proof-of-stake kernel (`kernel.cpp`) | stake modifiers in the index | `CheckProofOfStake`, `ComputeNextStakeModifier` | depends on which branch is best when the block arrives | |
| Targets and rewards (`main.cpp`) | one branch of the tree | `GetNextTargetRequired` (two versions), `GetProofOfWorkReward`, `GetProofOfStakeReward` | three kinds of blocks, times that run backwards, integer division | a target stays in range and follows blocks of its own kind only |
| Block assembly, staking (`miner.cpp`) | `vOrphan`, `mapDependers`, the block under construction | `CreateNewBlock`, `CheckWork`, `CheckStake`, `SignBlock` | reads pool and chain under locks it does not keep | a block that is not stale connects |
| Wallet (`wallet.cpp`) | `mapWallet`, `vfSpent`, `vtxPrev`, the best block it wrote | `SyncWithWallets`, `CommitTransaction`, `ReacceptWalletTransactions`, `ScanForWalletTransactions`, `FixSpentCoins` | told of a block before its batch is committed, and never of an abort | it knows what the best chain holds and has spent |
| Keys (`wallet.cpp`, `keystore.cpp`) | the key pool, reservations, `"key"`, `"ckey"`, `"mkey"`, `"pool"` records | `TopUpKeyPool`, `ReserveKeyFromKeyPool`, `KeepKey`, `ReturnKey`, `EncryptWallet`, `NewKeyPool` | two maps and a file; a crash half-way through the encryption | no key is lost or given out twice |
| Addresses of peers (`addrman.cpp`) | `mapInfo`, `mapAddr`, `vRandom`, `vvNew`, `vvTried`, counters | `Add`, `Good`, `GetAddr`, `Serialize`, `Unserialize` | six views of the same entries, evictions, rebuilding from a file | the views agree |
| Download of blocks (`main.cpp`, `net.h`) | `mapAskFor`, `mapAlreadyAskedFor`, `hashContinue`, `setInventoryKnown`, orphan blocks | `getblocks`, `inv`, `getdata`, `block`, `AskFor`, `PushGetBlocks` | batches, retry times that outlive a connection, known-inventory filters | the node catches up |
| Alerts (`alert.cpp`, `main.cpp`) | `mapAlerts`, `setKnown` of a peer | `ProcessAlert`, `RelayTo`, the `version` handler | cancellation and expiry on clocks that differ; every alert sent once | an alert in force reaches every node |
| Secure messages (`smessage.cpp`) | buckets of tokens, locks, per-peer state | `SecureMsgSendData`, `SecureMsgReceiveData`, `SecureMsgEnable`, two threads | pull protocol over hashes of buckets, with locks, ignored peers and quiet times | what is posted reaches every node |
| Stealth addresses, stake database, script, cryptography, RPC, GUI, base library | | | | |

How they interact. A `"block"` message calls `ProcessBlock`, which keeps the
block as an orphan or calls `AcceptBlock`; that indexes the block
(`AddToBlockIndex`), may call `SetBestChain`, and ends with
`AcceptPendingSyncCheckpoint`, which may call `SetBestChain` a second time.
`SetBestChain` removes transactions from the pool and, in a reorganisation, puts
others back; `ConnectBlock` and `DisconnectBlock` tell the wallet from inside,
before the batch is committed. Then `ProcessBlock` tries the orphans of every
block it accepted, and the holder of the master key sends a checkpoint. A `"tx"`
message adds to the pool or to the orphan transactions; a `"checkpoint"` message
calls `ProcessSyncCheckpoint`. All of it holds `cs_main`, so these operations
never interleave with each other; what makes them hard is the order in which
inputs arrive, the failure of one step out of several, and a crash between two
commits. The models keep each loop and each commit as a separate step, so a
crash can fall between any two of them. The miner and the threads of the secure
messages do interleave: the miner reads `pindexBest` before it takes `cs_main`
and works on its block after it has let go.

`PROJECT.json` lists the hazards of this code line by line with the properties
that would catch them.

## 2. Modules

    Ledger ──┬── Chain ──┬── Checkpoints ── Intake ── MCIntake
             │     │     └── Node ──┬── Miner ── MCNode
             │     │                └── Wallet ── MCWallet
             │     └── MCChain
             ├── TxPool ──── Node
             └── BestChain (abstract; implemented by Chain)

    TxDB ──┬── KVStore (abstract; implemented by TxDB)
           ├── Startup ── MCProgress ── Sync, Alerts
           └── MCLocal ── KeyPool, Trust, AddrMan, Targets

    Sync ── MCSync                SecureMsg ── MCSecureMsg

    ChainProofs ──┬── NodeProofs ── WalletProofs      StartupProofs  KeyPoolProofs
                  └── IntakeProofs                    TrustProofs    AddrManProofs

The core:

* **Ledger** - the block tree (a parameter) and the transaction index that
  connecting a branch builds. `CanConnect(s, b)` and `ConnectBlock(s, b)` are
  `ConnectBlock` with the index `s`: duplicate transactions, missing, spent and
  immature inputs, transactions of the block spending each other. Tests that no
  other block can influence (signatures, values, sigops, fees, reward,
  timestamps) are the constant `BadBlock`. `LedgerAt[b]` is the index after
  connecting the branch of `b`; `Valid(b)` says that all of it connects.
* **BestChain** - the abstract specification: the confirmed ledger is that of
  one valid branch of known blocks and moves between branches in one step.
* **Chain** - memory (`mapBlockIndex`, `pnext`, `nChainTrust`, `pindexBest`),
  disk (`dbIndex`, `dbNext`, `dbTx`, `dbBest`), the active batch
  (`batchTx`, `batchNext`, the values read through it) and the call in progress
  (`pc`). `AcceptBlock` is `AddToBlockIndex`; `ConnectTip`, `Postpone`,
  `Reorganize`, `ReorgDisconnect`, `ReorgConnect`, `ReorgFails`, `ReorgCommit`,
  `ConnectSecondary`, `SecondaryFails`, `NewBest` are the parts of
  `SetBestChain`; `Restart` and `RestartFrom` are a crash at any point followed
  by `LoadBlockIndex`, without and with `-startfrom`. `fTorn` remembers that a
  postponed block failed (finding 1).
* **TxPool** - the pool and the orphan transactions, as operations on a given
  index and best block. The history variable `brought` holds what the message
  being handled has brought into the pool.
* **Node** - Chain and TxPool together: which steps of `SetBestChain` touch the
  pool, `vResurrect` and `vDelete` of `Reorganize`, and the `"tx"` handler. The
  history variable `lost` holds disconnected transactions that did not come back.
* **Miner** - on top of Node. `BeginBlock` reads `pindexBest`; `Collect`,
  `TakeAdded` and `TakePassed` are the loops of `CreateNewBlock` over the pool,
  the `COrphan`s and the queue of what can be taken next; `BlockMade` and
  `SignBlock` end it. `Others` is any step of the node while no lock is held.
* **Wallet** - on top of Node. Every step of Node that connects, disconnects or
  accepts something also tells the wallet; `Send` is `CommitTransaction` with
  `AddSupportingTransactions` (`Visit` is one turn of its loop, over `vin` in the
  order `PrevOrder`), `WalletRestart` and the steps after it are
  `LoadWallet`, the rescan from the locator and `ReacceptWalletTransactions`,
  `FixSpentCoins` is `repairwallet`, and `CrashInConnect` is a crash after the
  wallet was told and before the commit.
* **Checkpoints** - hardened and synchronized checkpoints, as operations.
* **Intake** - Chain and Checkpoints together: `ProcessBlock` and its orphan
  loop, the proof-of-stake tests, the `"checkpoint"` message, the master's own
  checkpoints, the reset after a change of the master key. `task` says what a
  running `SetBestChain` was called for or what is to be done when it returns.

The parts beside it:

* **KVStore** - the abstract store: a map, and for every handle its private
  changes.
* **TxDB** - `CTxDB`: the batch of a handle is the list of its operations,
  `LastMention` is what `ScanBatch` finds, `LevelDBWrite` what LevelDB makes of
  the list. It implements KVStore.
* **Startup** - `CTxDB::CTxDB`, both `LoadBlockIndex` and `AppInit2` over the
  handles of TxDB, one step for each commit and each test of
  `fRequestShutdown`; `Stop` and `Signal` come at any point.
* **Trust** - `GetModTrust` over a tree, with the cache as two variables and the
  order of arrivals and of `LoadBlockIndex` as steps. `baseOf` records which
  base a block was weighed with, `before` what it weighed in the last session,
  `late` which blocks came after a higher one, and `gaps` which stake blocks were
  then the first at their height.
  (In Chain the trust of a block is a constant.)
* **Targets** - the branch as the state, `AcceptBlock` with every dating the
  code lets through, and the arithmetic of targets and rewards.
* **KeyPool** - memory and file side by side; `EncryptKeys`, `EncryptCommit`,
  `NewKeyPoolErase` and `NewKeyPoolFill` are `EncryptWallet`, with a crash
  possible between any two.
* **AddrMan** - every method is one step, as the code holds one lock. The entry
  ids are bounded by `MaxId`, beyond which `Add` takes no unknown address.
* **Sync** - a node and one peer, the messages between them in two queues;
  `RetryDue` is a request in `mapAskFor` whose time has come.
* **Alerts** - nodes with clocks and links, and the alerts under way.
* **SecureMsg** - nodes, a bucket each, the messages between each two in a
  queue, and the two threads of every node. Times are kept where only their
  order matters (`fQuiet`, `fIgnored`).

The instances:

* **MCChain**, **MCNode**, **MCIntake**, **MCWallet**, **MCSync**,
  **MCSecureMsg** instantiate one specification each. MCNode extends Miner: the
  node runs in full, and the miner in the states `Few` describes.
* **MCLocal** joins five parts and **MCProgress** three that share no variable
  and no message in the code. A behaviour of the whole interleaves behaviours of
  the parts, and a property of one part is the same in all of them; so a
  behaviour of these instances chooses a part (`part`) and runs it alone, and
  nothing is lost. The fairness of a part applies where it runs.
  TxDB, KeyPool, Trust, AddrMan and Startup, about which there are theorems, are
  extended and have their constants in the configuration; the other parts are
  instantiated.
* **ChainProofs** (with Ledger), **NodeProofs** (with Miner), **IntakeProofs**,
  **WalletProofs**, **StartupProofs** (with TxDB), **TrustProofs**,
  **KeyPoolProofs**, **AddrManProofs** - theorems.

Definitions whose comment begins with "Mutant" are deliberately wrong versions
of the definition after them. They are used by no specification; substituting
one has to make TLC report the property it is listed with in `PROJECT.json`.

## 3. Runs

| Run | Result | States | Shows |
|---|---|---|---|
| `MCChain` | pass | 3 212 | one best branch in memory, database and index, through all orders of nine blocks and two crashes; a failed reorganisation ends heavier or back; the database implements `BestChain` |
| `MCChain_torn` | violation | | finding 1 |
| `MCNode` | pass | 131 865 | the pool's and the orphans' maps agree; the pool follows the chain; handlers end; a block the miner makes connects unless it is stale |
| `MCNode_miner` | violation | | finding 2 |
| `MCIntake` | pass | 121 404 | strict node: the chain honours the checkpoint, the checkpoint advances, orphans and stakes are accounted for, calls return |
| `MCIntake_master` | pass | 43 343 | the master never contradicts itself |
| `MCIntake_key` | violation | | finding 3 |
| `MCWallet` | pass | 1 022 965 | the wallet knows what the chain holds and has spent, gets stakes back, and is put right by a repair and by a restart |
| `MCSecureMsg` | pass | 125 650 | messages reach every node; nodes learn of each other |
| `MCProgress` | pass | 24 179 | starts end and leave everything there; a connection brings the node forward; alerts spread |
| `MCSync_stall` | violation | | finding 4 |
| `MCLocal` | pass | 529 639 | the address tables agree and survive a restart; keys survive and are given out once; a restart keeps the trust of every block on a steady branch; targets stay in range; database objects read through their batch and implement a store |

Properties, by module (each is stated in words next to its definition):

* Chain: `MemoryMatchesDisk`, `LedgerOfBest`, `MostTrusted`, `HeavierOrBack`,
  `Implements`.
* Node: `MapsAgree`, `NoneConfirmed`, `ConnectedOrLost`, `RefusedForCause`,
  `NoConflictAfterReorg`, `NoOrphanLeftBehind`, `Released`; Miner:
  `BlockConnects`.
* Intake: `SyncCheckpointIndexed`, `BestHonoursCheckpoint`,
  `CheckpointAdvances`, `PendingTaken`, `OrphanBlocksAccounted`,
  `StakesSeenExist`, `OwnCheckpointsAgree`, `IntakeReturns`.
* Wallet: `ConfirmedKnown`, `ChainSpendsKnown`, `StakeRefunded`,
  `RepairAgrees`, `ReacceptComplete`.
* SecureMsg: `Converges`, `HandshakeCompletes`. Startup: `StartsSound`,
  `StartEnds`. Sync: `ConnectionHelps`. Alerts: `Spreads`.
* AddrMan: `TablesConsistent`, `RestartKeepsTables`. KeyPool: `HandedOutOnce`,
  `KeysSurvive`. Trust: `TrustReproducible`. Targets: `TargetsSound`. TxDB:
  `ReadsThroughBatch`, `StoreImplemented`.

The type invariants of Chain, Node, Intake, Wallet, TxDB, Startup, Trust,
AddrMan and KeyPool are proved, as parts of the inductive invariants of section 5.

**Bounds.** The trees are chosen so that the interesting cases happen; the
diagrams are in the MC modules.

* MCChain: three branches that double-spend, spend within a block, spend a
  coinbase too early, repeat a coinbase and fail to connect, with trusts that
  make reorganisations of one to three blocks, ties, late blocks, postponed
  blocks that succeed and postponed blocks that fail.
* MCNode: a reorganisation that confirms a double-spend of a pool transaction
  with two generations of descendants, takes away a parent and a coinbase that
  the pool depends on, and one that fails half way; the orphan store
  (`MaxOrphans` = 2) overflows. The miner runs while at most five blocks and
  four transactions are about, which includes a reorganisation under it and a
  transaction that depends on two others.
* MCIntake: two blocks with one proof of stake, a chain of orphans leading to a
  pending checkpoint, a heavier branch that a checkpoint overrules, an invalid
  announced checkpoint, a kernel hashed with a modifier of its own branch, a
  block with too little proof.
* MCWallet: seven blocks and seven transactions, with a coinstake that is
  disconnected, a payment in two branches and conflicting ones, one of them
  received. A chain of four has copies that depend on each other, and `tE`
  spends a transaction and, after it, a child of the same, so that its copies are
  not in the order in which the pool could take them;
  `COPY_DEPTH` 3, `Maturity` 0, one restart and one repair.
* MCSecureMsg: two nodes, three messages of one and one of the other, two
  messages to a bunch (`Bunch`), locks of one tick, one change of mind
  (`MaxToggles`). An inventory is only sent while fewer than two messages
  (`MaxQueue`) are under way between the nodes, so inventories of both cross, and
  so do the exchanges they begin: both nodes are locked at once, each waiting for
  the other. What a node wants may be more than a bunch, and a bunch may hold a
  message that has come by another exchange before one that has not, so that the
  latter is dropped. `MCSpec` has two beginnings, which keep these cases within a
  run: a restart with the files of an earlier session and a disabled node, and a
  connection that is up, with messages still to be posted.
* MCProgress: Startup with two master keys. Sync with batches of two blocks, a
  chain of four that grows to five, a filter of four known blocks (smaller than
  the chain), two disconnections, a first block of proof of work. Alerts on
  three nodes in a line with a minor alert, one that cancels it and the final
  one; the clock goes to 2 and one connection breaks.
* MCSync_stall: a chain of five that grows to seven, batches of two.
* MCLocal: three addresses from two sources with buckets of one entry, so that
  every table overflows; two reservations, four keys and one crash; a trunk of
  two windows (`Window` = 2) and two branches of five blocks beside a short one, all
  around the heights where the base is refreshed, long enough for a base to be
  read from beyond the fork, arriving in any order, with two restarts; branches of up to eleven blocks around the end of an
  hour of flash staking, dated up to five minutes before their parent; three
  handles on two keys with batches of two operations.

`MaxRestarts` (one or two) bounds the crashes; two are needed for a crash during
the recovery from a crash and for the change of the key. A restart resets all
the memory, so a third one adds no new kind of state. Arrivals are not bounded:
every block, transaction and announcement may come at any time and again after
a restart. Sequences of identifiers (`MaxId`, `MaxKeys`) are as long as one
overflow, one restart and one further use of everything need.

Symmetry is used in MCLocal only, for two of the addresses and the two
reservations; its properties are safety properties. In the other instances
every model value has a role of its own.

**Deadlock** is not checked: a node that has received everything just waits, and
bounded counters run out.

**Fairness.** In the core only steps of the code that holds `cs_main` (`Step`,
`NodeStep`, `IntakeStep`, `WalletStep`, and `Step` of Startup) are weakly fair:
a thread that is inside a call and not blocked goes on. In Sync the message
threads of both nodes are (`NodeReceives`, `PeerReceives`, `SendGetData`,
`SendInventory`), and each retry that is due (`RetryDue(h)`), since
`SendMessages` looks at `mapAskFor` again and again. In Alerts a message under
way arrives or its connection breaks (`Receive(m)`), and a new connection
exchanges versions (`Version(n, p)`). In SecureMsg the threads and handlers are
weakly fair, and `SendInv` strongly: `SendMessages` visits every peer again and
again, and only `MaxQueue`, which the code does not have, can disable it.
`Converges` and `HandshakeCompletes` are about nodes that in the end stay
enabled (`StayEnabled`). Nothing is assumed about users, blocks, transactions,
checkpoints, connections or crashes.

## 4. Findings

1. **A failed postponed block tears memory from disk** (`MCChain_torn`,
   `main.cpp:1992`). `SetBestChain` splits a long reorganisation: `Reorganize`
   goes to the first block that outweighs the old tip, and the rest is connected
   afterwards. When one of the rest fails, the loop breaks, and
   `hashBestChain`, `pindexBest` and `nBestChainTrust` still become those of the
   last block, which is on an invalid branch. The comment says "errors now are
   not fatal, we still did a reorganisation to a new chain in a valid way". A
   restart repairs the memory as long as no block has been connected on top.
   The other properties of Chain, Intake and Wallet are therefore stated until
   `fTorn`.
2. **The pool can depend on transactions that are gone** (`MCNode_miner`,
   `main.cpp:1893`, `miner.cpp:201`). A disconnected transaction that cannot be
   resurrected, or a disconnected coinbase or coinstake, leaves its children in
   the pool. `ConnectedOrLost` shows that this is the only way it happens.
3. **A change of the master key can go without its reset** (`MCIntake_key`,
   `main.cpp:2864`). The new key is committed before the checkpoint is reset; a
   crash or a failed reset in between is never made up for.
4. **A download can stop after a batch** (`MCSync_stall`, `main.cpp:3424`). When
   the last block of a batch is requested, the peer announces its last
   proof-of-work block instead of its best one, which a node that is catching up
   has had for long; nothing asks for the next batch until another block
   arrives. `ConnectionHelps` shows that a new connection gets on.

### Further observations

Statements of comments, messages or names in the code which the models do not
satisfy. Each is a definition of the module named, in no run; adding it to the
module's configuration shows a counterexample.

* `ReadsConsistent` (TxDB): `ScanBatch` is to make reads within a transaction
  consistent (`txdb-leveldb.cpp:180`), but `Exists` (`txdb-leveldb.h:145`) falls
  through to the database for a key the batch erases.
* `CleanShutdown` (Startup): "Clean shutdown on SIGTERM" (`init.cpp:405`), but a
  signal before the first index record is read ends the load with success
  (`txdb-leveldb.cpp:336`); the start takes the database for an empty one and
  writes the genesis block as its best (`main.cpp:1939`).
* `FasterIsNoEasier` and `WorkMadeUp` (Targets): the product in the
  retarget (`main.cpp:1288`) falls to zero or below for a block dated long before
  the one of its kind before it, and the target jumps to the limit; and
  `nSubsidy *= 16 / 10` (`main.cpp:1042`) multiplies by one where the comment
  wants about 1.64.
* `WindowInThePast` (Trust): a block below the height of the cached base is
  weighed with a base of a window that need not be in its past
  (`main.cpp:2411`).
* `ReacceptsAny` (Wallet): "Re-accept any txes of ours that aren't already in a
  block" (`wallet.cpp:1011`), but the pass takes the transactions in the order of
  their hashes, and one that was received has no copies of what it depends on:
  it is refused if it comes before its parent, and not tried again.
* `ReacceptsCarried` (Wallet): "Add previous supporting transactions first"
  (`main.cpp:874`), but `vtxPrev` is the queue of `AddSupportingTransactions`
  turned round, and a transaction keeps its place in that queue when it is met
  again (`wallet.cpp:887`). If t spends A and then B, and B spends A, the queue is
  A, B and `vtxPrev` is B, A: B is refused before A is accepted, and then t. When
  the pass comes to B later as an entry of its own, the pool takes it, but t is
  not tried again. With `ReacceptsCarried` in place of `ReacceptComplete`, TLC
  finds this for `tE` of MCWallet.
* `KnownInBlock` and `MustNotFail` (Wallet): the wallet is told of blocks whose
  batch is aborted (`main.cpp:1652`), and `CommitTransaction` can be refused by
  the pool after it has recorded the transaction (`wallet.cpp:2827`).
* `NotUsedAgain` and `MinedKeyRemoved` (KeyPool): indices are given out again
  while a key is reserved, by `NewKeyPool` and after the highest one was taken
  (`wallet.cpp:3124`), and `CheckWork` keeps the key of a reservation that has
  none (`miner.cpp:468`), while that of the block went back to the pool.
* `EvictsOldest` (AddrMan): `SelectTried` returns the position its choice was
  drawn from (`addrman.cpp:144`), where another entry is after the swap.
* `DependersAlive` and `StakeTimeIsBlockTime` (Miner): a `COrphan` that
  `mapDependers` may point to is popped (`miner.cpp:210`), and `SignBlock` may
  leave the block with another time than its coinstake (`main.cpp:2651`).
* `QuietMeansHas` (SecureMsg): `smsgMatch` carries the time of the answer, so a
  message that came after the inventory was sent counts as matched too and is not
  announced (`smessage.cpp:1844`); `Converges` shows that it reaches the peer all
  the same, over the inventory of the peer.
* Not modelled: `ThreadSecureMsg` pushes messages with `cs_smsg` held
  (`smessage.cpp:671`), which takes `cs_vSend`, while `SendMessages` is called
  with `cs_vSend` held (`net.cpp:1784`) and `SecureMsgSendData` takes `cs_smsg`
  (`smessage.cpp:1824`); two locks in both orders.

## 5. Theorems

The constants are arbitrary: any set of blocks and transactions, any tree, any
contents, trusts and times, subject to the named assumptions of the modules,
which TLC evaluates on every instance. The runs show the same properties on the
small instances of section 3; the inductive invariants below were checked there
before they were proved.

### The tree and the index (ChainProofs)

* Induction over the branches. The library states that `<` on the naturals is
  well-founded; `Least` reads it as "a non-empty set of naturals has a least
  member", and `BlockInduction` as "a set of blocks that contains the genesis
  block, and each block whose parent it contains, contains all". Everything a
  branch is known for follows (`Branches`): ancestors, heights, the block of a
  given height, the successor towards a descendant; so do the index's type
  (`LedgerTyped`) and that a transaction is recorded in a block of the branch
  that contains it (`Recorded`).
* `DisconnectUndoes`: for a block that connects and repeats no transaction of
  its branch, `DisconnectBlock(ConnectBlock(s, b), b) = s`;
  `ConnectedCanDisconnect`: such a block can be disconnected. Both rest on
  `SpentWasUnspent`: the outputs a block spends were unspent before it or are
  its own.
* `NoRepeat`: a valid branch never contains a transaction twice. The code only
  refuses one whose outputs are not all spent (the test of `ConnectBlock` known
  from BIP30). A coinbase cannot come back, since its height is in it
  (`CoinBaseAssumption`). Any other transaction spends something, and what it
  spends stays spent (`InputsStaySpent`) unless the transaction it came from is
  recorded anew; that one would be a repeated transaction on a shorter branch.

### The best chain (ChainProofs)

* `Typing`; `MemoryAgrees`; `LedgerIsBestChain`; `BestIsMostTrusted`;
  `BestGrowsHeavier`; `ChainImplementsBestChain`. The invariant (`SafetyInv`)
  adds to the properties, for every value of `pc`, where `pindex`, `pindexInter`
  and `pindexNew` are in the tree (`Positions`), that the batch holds exactly
  the index and the links of `pindex` (the links being `Rewired` as if the call
  committed there), and that index sets are closed under ancestors. It is needed
  because the properties speak of the committed state only, which `ReorgCommit`
  overwrites with the batch.
* `BestIsMostTrusted` needs in addition that during a call every other known
  valid block is no heavier than the best one and that `pindexInter` is the
  first block of the branch that outweighs it.
* `BestGrowsHeavier` holds of every session, torn ones included: trust grows
  along each branch of the index (`TrustGrows`), the call commits nothing but
  blocks that outweigh the best one or the block it was called for, and what a
  start falls back to is on the branch of the best block (`HeavierInv`).

### The pool over the chain (NodeProofs)

* `NodeTyping`; `PoolMapsAgree`; `ConfirmedLeavesPool`; `CutOffOnlyByReorg`.
  Every step of Node is a step or a stutter of Chain (`ChainSteps`), so the
  invariants of Chain hold; the strengthening (`PoolInv`) follows `vResurrect`
  and `vDelete` through the batch: what the batch has lost against the database
  is queued or dropped for good, and what it has gained is in `vDelete`.
  `Descendants` is defined as the least closed set, and `DescendantsClosed`
  shows that recursive removal leaves no child behind.
* `SettledWithoutConflict`. `RedundantInv`: while blocks are connected, all
  their transactions are queued in `vDelete`; after the commit, those not queued
  any more conflict with nothing in the pool. What is put back meanwhile cannot
  spoil it: nothing is deleted before the last transaction is put back.
* `GivenUpForCause`. `OrderInv`: every input of a queued transaction is of one
  that is indexed, in the pool, given up, or queued before it. While the batch
  is built, "indexed" means in the batch or dropped by the reorganisation. The
  order comes from the code's building the queue from the front: blocks are
  disconnected from the top, and within a block a transaction comes after those
  it spends (`QueuedFirst`). `Kept` defines which transactions of a block are
  queued as a function over its list, and `QueuedIs` says what the result
  holds. The argument needs that no transaction spends itself (`NotOwnPrev`,
  from `HashAssumption`).
* `OrphansFollowed`. `TriedInv`: a stored orphan that waits for something the
  message brought in is still to be tried, is to be erased, or cannot be
  accepted. A transaction that enters the pool makes none but its own children
  acceptable (`OnlyChildrenGain`), so an orphan that failed has to be tried
  again only when one of its own parents comes, and the queue does so.

### Blocks and checkpoints (IntakeProofs)

* `IntakeTyping`; `CheckpointIndexed`; `CheckpointMovesForward`. `LoopInv` says
  which tasks run with which queue; `CheckpointInv` that a checkpoint validated
  before `SetBestChain` is still indexed and a descendant of the one in force
  when it is written.
* `CheckpointHonoured`, for strict mode and no `-startfrom` (which may go back
  below the checkpoint). Every step of Intake is a step of Chain or a call of
  `SetBestChain` for a known block (`ChainOrCall`), so the invariants of Chain
  hold; `HonourInv` adds that during a call the checkpoint is on the branch of
  `pindexNew` and of `pindexInter`, because the property speaks of what is
  committed and `ReorgCommit` commits `pindexInter`. That a block the checkpoint
  stands on is never postponed follows from `TrustGrows`.
* `StakesAreOfKnownBlocks`. `StakeInv` adds that the first block of a call of
  `ProcessBlock` is no orphan, so that its proof of stake may stay when it
  leaves the loop.
* `OrphansAccounted` and `PendingIsTaken`. `ListsInv` relates the two maps while
  the loop runs: the list of the block it is at is the only one that may name
  orphans that are gone. `QueueInv`: a block is queued once, and only when it
  has been accepted. `WaitInv`: an orphan waits for a block that is not there,
  for one that cannot be connected, or for one the loop has still to come back
  to; `PendingInv` says the same of the pending checkpoint. `CallInv` carries
  why a call of `SetBestChain` failed: the block it was called for cannot be
  connected. Both properties need it, as a failed accept ends the wait.
* `MasterAgreesWithItself`, for the node of the master key in strict mode when
  nobody else makes checkpoints (`Announced` is empty, as in `MCIntake_master`)
  and the last hardened checkpoint is of a valid branch, started from any
  height, until a postponed block fails. `BranchInv`: the committed chain may
  fall back below the checkpoint, but both stay on one branch. `OwnInv`: what the
  master selects is in its own main chain, and what it has pending can only be
  the last hardened checkpoint.

### The miner (NodeProofs)

`AssembledConnects`: a block that passes the test for staleness connects. The
best block is read without a lock and the transactions are collected later; if
the chain has moved in between and come back to where it was, the block would
pass the test with transactions chosen on another branch. `MinerInv` shows that
it cannot come back: `SetBestChain` is never called for the best block
(`Elsewhere`), nor for the block the assembly was begun on. `Placed` says of each
transaction of the block under construction that its inputs are unspent in the
index of the parent, or come before it in the block, and are wanted by no other.

### The wallet (WalletProofs)

* `WalletTyping`; `ConfirmedIsKnown`; `SpendsAreKnown`; `StakesComeBack`;
  `RepairLeavesAgreement`; `ReacceptsWhatItCan`.
* The wallet is told of a block before its batch is committed, so the invariant
  (`Knowledge`) compares it with the index as read through the batch: at every
  moment, until a reorganisation is cut short, the wallet has each transaction
  of its own recorded there, in its block, and has the coins those transactions
  spend marked.
* The property cannot be carried across a crash as it is: the wallet then knows
  of blocks the index has not. `ExtendsBelow` helps: since no transaction is
  repeated (`NoRepeat`), the index of a valid branch agrees with that of each
  block below it on all that is recorded there, and only spends more. So who
  knows of a branch knows of every part of it (`KnowsBelow`): losing a batch
  takes nothing away. Nor does a rescan, from whatever block of the branch
  (`ScanTold`), or over blocks that are known already (`ToldAgain`,
  `ScanAgain`): confirming a transaction again clears the flags of its outputs,
  but what spends them comes later in the same scan.
* The loops over the transactions of a block and the blocks of a scan are
  recursive functions. What they compute is shown by counting up from 0
  (`CountUp`, from `Least`), with `Iterated` for the existence of such a
  function: the lemmas `ConnectedCourse`, `DisconnectedCourse` and `ScanCourse`.
* `Session`: before the first restart a marked coin is spent by a transaction
  that is no coinstake, or by one recorded in the index as read (`Blamed`).
  After a restart this need not be so, which is why the property is about one
  session: a crash can lose the batch of a coinstake whose inputs the wallet has
  marked already, and nothing gives them back.
* `RepairLeavesAgreement` rests on `ConfirmedDepth`: with `Knowledge`, every
  transaction in the index has its block in the main chain, so that
  `FixSpentCoins` erases none of them.
* `PassInv` says that a pass of `ReacceptWalletTransactions` has `cs_main` to
  itself, which the types of what it has left to do need.
* `ReacceptsWhatItCan`: `ReacceptComplete`, for any order of the wallet's
  transactions, with their copies in the order the code leaves them in.
  `GoneThrough` splits what the pass went
  through: of a transaction that is done with, nothing it carries can be taken
  (`PassDone`); of the one under way, nothing that was tried can be taken or
  become so (`PassTrying`). Both survive what is tried next because a transaction
  that enters the pool makes only its own children acceptable
  (`OnlyChildrenGain`): for the one under way those come later in the list, and a
  done one had the parent among its copies, where it was refused too. Two
  conditions of the property are what this needs, and neither is always met:
  `CarriesParents`, that the copies reach down to the index (see `ReacceptsAny`
  above), and `CarriesChains`, that no copy that has to go back into the pool is
  spent by two of what the transaction carries (see `ReacceptsCarried`).
* Under `CarriesChains` the copies are in order, parents first (`Sorted`,
  `TryListIs`). That is a fact about the loop of `AddSupportingTransactions`:
  `FoundIs` carries through it, by `CountUp`, that what was found was found as an
  input of something found before it or of the transaction itself
  (`VisitKeeps`), and that no copy spends the transaction it belongs to. So a
  parent with one spender is found after it, and stands before it when the list
  is turned round (`SupportIs`). The mutant that leaves the list as it was found
  breaks the property.

### Database objects, the start and keys

* **StartupProofs**, database objects. `DBTyping`; `ReadsSeeBatch`; `DBImplementsStore`: any number of
  handles, keys and operations. All rest on what a scan of a list finds
  (`LastCounts`, `AppendedIsLast`). The invariant `HasLast` carries along the
  steps that a key which occurs in a batch has a last occurrence there.
* **StartupProofs**, the start. `StartTyping` and `StartIsSound`: `StartsSound`,
  for any sequence of crashes, signals and builds with different keys.
  `UpIsComplete` speaks of the end of a start and of a disk that several
  transactions of two objects have written, so the invariant (`StartInv`) says
  of every place of the start what is on disk by then (`Recorded`), what memory
  has and why the place was reached (`Reached`), and that a batch is open only
  for the transaction of that place, with at most its one operation
  (`Batched`): a read through the other object cannot see it, and a crash loses
  nothing else. Where a request to shut down lets `LoadBlockIndex` report
  success with half an index, `Reached` keeps that the request is still there
  when `AppInit2` looks at it. `OnceUpAlwaysUp` follows from records being
  overwritten and never removed (`Overwritten`), except by the removal of an
  older version's database, which is also when the database counts as new.
* **KeyPoolProofs.** `KeyTyping`; `InUseSurvives`: for every size of the pool and
  any number of reservations and crashes, `KeysSurvive`. The property is about
  the file; it is inductive together with `HeldKeysSaved` (what memory holds is
  saved) and `StageInFile` (how far `EncryptWallet` has got shows in the file:
  before the commit of its batch there is no encrypted key, after it no plain
  one). `Extremes` gets the highest and lowest index of the pool from the
  well-foundedness of strict inclusion among finite sets.
* `OnceInductive` and `GivenAwayOnce`: `HandedOutOnce`. Whatever happens, no key
  is on record at two indices and none that was given away is on record; as
  long as no index was given out again while its key was reserved
  (`fReindexed`, see `NotUsedAgain` below the findings), no two reservations
  share an index or a key, and no reserved key was given away.

### The trust of blocks (TrustProofs)

`TrustTyping` and `TrustIsReproducible`: `TrustReproducible`, for every tree,
every target, every order in which blocks come and every number of restarts.
`GetModTrust` keeps one base in the process, refreshed by whichever stake block
comes first after a window has gone by, and a restart begins without one. So the
trust of a block may depend on other branches, on the order of arrival and on
where the session began; the code has no test against it, and TLC shows each way
in which it happens. The theorem says that there are no others. A start changes
the trust of no block that is `Steady`:

* no block of its branch came after a higher one (a late block has a tenth of
  its trust until the next start, and is weighed with whatever base is there);
* it is below every stake block that came late to a height at which no stake
  block was yet (`gaps`: such a block may move the heights at which a start
  refreshes the base);
* its branch is `Shallow`: no stake branch has parted from it by more than a
  window and one block on both sides (what a refresh for that branch reads is then
  not a part of its own).

Other branches may be as late and as long as they like where they do not meet
these. The second part, `BaseFromOwnBranch`, needs no order of arrival: no block
is weighed with a base older than its window, and a base that is not ahead of a
`Shallow` block was read from the block's own branch. The proof:

* The base that is kept was read for some stake block (`Kept`), and so was every
  base a block was weighed with (`Own`). `SameBase` and `OwnShallow`: two
  branches that have not parted long ago read the same there.
* Below the gaps, the heights of the stake blocks alone decide where the base is
  refreshed: `Steps` says of a function on those heights that the lowest begins a
  base and each next one keeps it or, a window ahead, begins another. `Ordered`:
  there is such a function, the blocks that did not come late were weighed with a
  base of that height (`InStep`), and during a start the base that is kept is
  that of the highest one weighed (`Current`). A stake block of a new height is
  either the highest so far, where the function is extended (`StepsNext`), or a
  gap, below which it is as it was (`StepsBelow`, `NewOrdered`). A start meets
  the same heights in the same order and takes the same steps (`PassHeight`,
  `LoadedAgain`).
* `Weights`: what a steady block weighed before is the weight of its parent,
  which is steady as well (`SteadyPrev`), and its own, with the base it had.
* `OldTrustIs`: the trust of the blocks up to `nTimeV221`, a recursive function
  over the tree, exists (`Iterated`, as for the wallet's loops).

### The addresses of peers (AddrManProofs)

`AddrTyping`, `TablesAgree` and `RestartIsFaithful`: `TablesConsistent` and
`RestartKeepsTables`, for any addresses and sources, any hashes into buckets and
any sizes. The code has this test (`Check_`), but builds it only with
`DEBUG_ADDRMAN`, and looks at one state of one run.

* The invariant `Sound` has a conjunct for each view of the entries: the list
  (`Listed`), the maps (`Named`), the counters (`Counted`), the new buckets
  (`InNew`), the reference counts (`Referred`), the tried buckets (`InTried`) and
  the types. They say more than `Check_`, which does not see a name in `mapAddr`
  whose entry is gone, an id beyond `nIdCount`, or an entry in another tried
  bucket than the one it hashes to; without that a new entry, an eviction or a
  restart could not be followed.
* One call is several steps on the tables, and between them an entry is in
  transit: `Sound(am, X, Y)` leaves out the references of the entries of X and
  the count of those of Y. Every helper has a lemma that says which exceptions it
  needs and leaves (`CreateIs`, `UnreferenceIs`, `ShrinkIs`, `InsertIs`,
  `AsideIs`, `PlacedIs`, `ReplacedIs`); `Transfer` carries over the views that an
  assignment does not touch.
* The comment of `MakeTried` that "there is certainly place" in the bucket the
  good entry came from is `AsideIs`: the entry was in it, and has been taken out
  of every new bucket by then.
* `SelectIs`: whatever `SelectTried` draws, it leaves the same entries in the
  bucket, each once, and returns a position of it. That is all the tables need;
  that the entry there is the oldest is another matter (`EvictsOldest` in
  section 4). The loop is a recursive function that exists by `Iterated` and is
  followed by `CountUp`.
* `peers.dat` (`FileIs`, `ReloadIs`): the file has the new entries in the order
  of their ids and then the tried ones, and a place in it is the next id. `RankIs`
  and `OrderIs` show that an entry's rank is its place and that each place is
  taken once, so what is read back is a copy of the tables under another
  numbering (`Copied`), with every reference where it was; and a copy of sound
  tables is sound (`CopiedIs`). No reference is beyond `PerAddress` and no tried
  entry finds its bucket full, since that held when the file was written.

### Assumptions

What the theorems take from the named assumptions, and why the code justifies
it:

* `TreeAssumption`, `TxAssumption`, `TrustAssumption` and the types of the other
  parameters define the block tree and what transactions are. That only a
  coinbase has no inputs is a test of `CheckTransaction`.
* `CoinBaseAssumption`: a coinbase has its height in its script (the test in
  `AcceptBlock`), so it is in blocks of one height only.
* `HashAssumption`: no transactions spend each other in a circle, as the hash of
  each covers the hashes of those it spends.
* `CheckpointAssumption`: there is a highest hardened checkpoint; they are a
  table in the source.
* `LedgerAssumption` defines `LedgerAt` by recursion over the tree.
* `BatchAssumption`, `NullIndexAssumption`, `NullWalletAssumption`: the mark NULL
  is not itself a list or a record.
* `WalletAssumption`: among the types of the wallet's parameters, that there are
  finitely many transactions (they are named by hashes of 256 bits), so that the
  queue of `AddSupportingTransactions` ends; and `PrevOrder` lists what the `vin` of
  a transaction spends.
* `TrustTreeAssumption`: the tree of Trust, whose old part (up to `nTimeV221`)
  is a tree of its own and longer than two windows; the real one has hundreds of
  thousands of blocks, a window 1024.
* `StartAssumption`, `DBAssumption`: the objects and records of Startup are among
  those of TxDB. `KeyPoolAssumption`: the types of its parameters.
* `AddrManAssumption`: the sizes and numbers of buckets are positive, and every
  address hashes to one of the buckets (`GetNewBucket` takes the remainder by
  their number).

### Model-checked only

* Everything that needs fairness: `Released`, `IntakeReturns`, `Converges`,
  `HandshakeCompletes`, `StartEnds`, `ConnectionHelps`, `Spreads`. Liveness is
  out of the reach of the provers.
* `TargetsSound`. Its bounds rest on the rounding of `SetCompact`, which divides
  by the least power of 256 that will do, and on products and quotients of
  variables: the backends know neither exponentiation nor nonlinear arithmetic.

## 6. Abstractions, and what is not modelled

* Hashes are the objects themselves; the position of a transaction is its block.
* In Chain the trust of a block is a constant, except for the late-block rule.
  Trust shows for which blocks a restart keeps it (`Steady`); that a block is
  weighed once in a session holds by the code.
* A crash is the death of the process: a committed batch survives it. LevelDB is
  taken to apply a batch atomically and in order (`LevelDBWrite`), and Berkeley
  DB to commit the transaction of `EncryptWallet` as a whole.
* In the core reads and writes of the disk do not fail; in TxDB a refused
  commit is an abort.
* Blocks pass `CheckBlock`; rules for times before `nTimeV221` and the testnet,
  which has no checkpoints, are left out. The result of `CheckProofOfStake`
  depends on the index and the links; the hash itself is a constant.
* Misbehaviour scores, `nTransactionsUpdated` and the user interface do not
  influence the modelled state and are left out.
* Sync: the peer's chain is a line and the node has no other peer; forks are the
  subject of Chain and Intake. Alerts: signatures are valid.
* Miner: priorities, fees, sizes and signature operations only order or skip
  transactions; any order and any omission is possible.
* Wallet: coin selection, accounts and stealth outputs are left out; which coins
  a payment spends is a parameter of the payment.
* SecureMsg: one bucket, no encryption, no files and no proof of work.
* Not modelled: the script interpreter, cryptography and encodings (sequential
  computations over byte strings, with no state that survives a call); the stake
  database, RPC and the user interface (input, output and formatting over the
  modelled operations); the base library; sockets and message framing; and the
  lock order, see the last of the further observations.

## 7. Plan

Done: the modules above with their runs and theorems. What is left, in the order
of its use:

1. A proof of the bounds in `TargetsSound`, with lemmas about products and
   quotients that the backends can use.
2. `ComputeNextStakeModifier` and the selection of candidate blocks;
   `GetCoinAge`.
3. Coin selection and accounts of the wallet, as functions checked against a
   reference definition.
4. Chain with the trust of Trust in place of the constant.
5. The locks of the networking and secure-message threads, with their order.
