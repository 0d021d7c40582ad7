# A specification of go-multinode-blockchain

These TLA+ modules say what the nodes of the blockchain do: how a ledger moves
money, how a chain grows and reorganises while several goroutines work on it, how
handlers, syncs and the miner share chain and mempool, how the miner is started,
restarted and stopped, how the chain is saved, and how several nodes gossip, sync,
drop each other, crash and start again. TLC checks small instances of each; TLAPS
proves the most important results for every block tree, any number of nodes and
goroutines, and any bounds.

## The system

| Component | State | Operations | Who calls them |
|---|---|---|---|
| Ledger (`blockchain/ledger.go`) | balances, processed transactions | apply a block, rebuild from a chain, check one payment, filter a list | the chain; handlers and miner for the checks |
| Chain (`blockchain/chain.go`, `block.go`) | main chain, side chains, the ledger | `AddBlock`, `ReorganiseTo`, `TryAddOrReorg` | miner, sync, block handler |
| Persistence (`chain_persist.go`) | `chain.json`, `chain.json.tmp` | `SaveToFile`, `LoadFromFile` | handler and miner callbacks, periodic sync, shutdown |
| Mempool (`mempool/pool.go`) | pending payments | `Add`, `RemoveByBlock`, `ReturnOrphaned`, `GetPending` | handlers, syncs, miner |
| Miner (`miner/miner.go`) | contexts, `mining`, `done` | `Start`, `Stop`, `Restart`, the loop and an attempt | node, handler callback |
| Handlers (`network/handlers.go`) | locals of a request | submit a transaction, receive a block | HTTP |
| Sync (`network/sync.go`) | locals of a sync | sync with one peer, with all | timer, start-up, block handler |
| Gossip (`network/gossip.go`) | seen transactions and blocks | has seen, mark, broadcast, expire | handlers, miner callback |
| Peers (`network/peer.go`) | known peers | add, remove, exchange | handlers, health check |
| Node (`node/node.go`) | the wiring | start, periodic tasks, shutdown | `main` |

Each shared object has a lock of its own, and nothing holds two of them across
an operation except the chain, which calls its ledger while locked. So every
sequence "ask one object, then change another" is open to any other goroutine in
between. That is where the hard behaviour lies:

- **Chain.** `TryAddOrReorg` gives its lock up twice: after reading the tip, and
  between weighing a branch and reorganising to it. `ReorganiseTo` switches the
  blocks before it rebuilds the ledger. Blocks arrive out of order and the store
  of side blocks evicts. Right means: a valid chain whose ledger is its replay,
  that only gets heavier, and no heavier branch left behind.
- **Node.** A handler cleans the mempool and restarts the miner after the chain
  has changed; a sync does neither; the miner reads pool, ledger and tip one
  after the other. Right means: no payment lost or kept for ever, mined blocks
  that fit, and catching up with a taller peer.
- **Miner.** Contexts, a watcher goroutine per attempt and `Stop` waiting for the
  loop. Right means: one loop, no missed restart, everything ends.
- **Persistence.** Saves overlap, use one temporary file, and the process may die
  at any point.
- **Network.** A block is sent once and may be lost, come late, before its parent,
  or again after its seen entry has expired. Peers that miss a health check are
  gone for good. A node that crashes comes back with what its file holds. Right
  means: gossip that dies out, no block passed on twice, balances that fit the
  chain after every start, and catching up with every peer that is kept.

The hazards in the code, line by line with the properties that cover them, are
listed in `PROJECT.json`.

## The modules

- `LedgerRules`: the rules as operators on ledger values (`applyBlock`,
  `RebuildFromChain`, `CanApplyTransaction`, `FilterValidTransactions`), shared
  by all modules. A transaction is an ID; the fields of the Go struct are
  functions on IDs. Signatures and hashes are abstracted to a bit each (`Signed`,
  `Sealed`). Amounts are `uint64` modulo `Modulus`.
- `Ledger`: the ledger alone, applying bodies and rebuilding from forks.
- `HeaviestChain`: the abstract promise of a chain: it is valid, and it changes
  only by growing at the tip or by giving way to a valid chain with more work.
- `ChainRules`: `block.go` and the decisions of `chain.go`, as operators on chains
  and stores of competing blocks: validation, work, fork point, displaced
  payments, eviction, the walk back through the store, the connection test.
  `Chain` and `Network` both take their steps from them. A block is its hash, and
  a hash commits to its predecessors, so `PrevHash` is acyclic (`Depth`).
- `Chain`: one chain and the calls on it. `AddBlock` and `ReorganiseTo` hold the lock
  throughout and are one step each. `TryAddOrReorg` is `ReadTip`, then one of
  `TryAdd`, `SkipTooFar`, `StoreAside`, the last of which may be followed by
  `ReorgFromSide`; other workers' steps come between. `pc`, `block`, `latest` and
  `hypothetical` are a call's position and local variables. Nondeterminism: the
  evicted block (the order of a Go map).
- `Node`: extends `Chain` by mempool, seen trackers, handlers, syncs and the
  miner's attempt. One step per call on a shared object. Peers are external: each
  answers any request with one of a set of chains, or not at all.
- `Miner`: the miner's life cycle with the chain reduced to a tip that grows.
  `Miner.Restart` is the handler's callback, `Interrupt` the signal that ends the
  context given to `Start`, `Watch` the goroutine that closes `mineDone`.
- `Persistence`: files as inodes written chunk by chunk; `Restart` is the death of
  the process together with the next `LoadFromFile`.
- `Network`: several nodes. `store[n]` is main chain, side chains and ledger of a
  node, `disk[n]` its `chain.json` (`<<>>` for a torn or missing one), `messages` the
  `POST /block` requests under way. One step is a whole handler, a sync with one
  peer, or a search that succeeds with its callback: what comes between the calls
  inside them is the subject of `Chain` and `Node`. `AddBlock`, `ReorganiseTo`,
  `TryAddOrReorg` and `SyncWithPeer` are here functions from contents to contents.
  `saving` says that a call of `SaveToFile` is to come or under way, so a crash may
  come between gossip and save; a crash or a shutdown during a save may leave a
  torn file (more often here than in `Persistence`, which says when two saves
  overlap). `cut` are links that are down: requests over them fail and health
  checks do too; a spurious timeout is a link that is cut and heals. `messages` is
  a set, so identical requests of one node to another are merged. `sent` is a
  history variable.
- `MC...`: constants for TLC. Definitions marked *Slip* are deliberate mistakes no
  specification uses: put in the place of the definition that follows, each makes
  one property fail, which shows that the property sees the code.
- `LedgerRulesProofs`, `ChainRulesProofs` (lemmas), `LedgerProofs`, `ChainProofs`,
  `NodeProofs`, `NetworkProofs`, `MinerProofs`, `PersistenceProofs` (lemmas and
  theorems), see below.

## What TLC checks

| Run | Bounds | Shows |
|---|---|---|
| `MCLedger` | two accounts, six transactions, chains of five blocks | balances are net flow, supply is bounded by the rewards, no payment twice, rebuilding agrees with growing, the miner's filter agrees with `applyBlock` in every order of every pool |
| `MCChain` | two workers, seven blocks in three branches, three side blocks, distance 2 | `ChainValid`, `LedgerMatchesChain`, `SideChainsBounded`, `WorkGrows`, `NoHeavierForkLeft`, `DisplacedPaymentsReturned`, implements `HeaviestChain` |
| `MCPersistence` | two savers, two chunks, three inodes, four chains | overlapping saves write the same chain, the file is never older than the last reported save, torn only while a save runs |
| `MCMiner` | two runs, two attempts, two blocks, one sync | one loop, no stale attempt missed by Restart, `Stop`, searches and watchers end |
| `MCNodeGossip` | one handler and the miner, six blocks | mined blocks fit, implements `Chain` |
| `MCNodeSync` | one handler and the timer, a peer with a taller chain and a silent one | the node catches up and stays |
| `MCNetworkGossip` | three nodes in a ring, four blocks in two branches, seen entries of two of them expire | no block is gossiped twice by a node, gossip dies out |
| `MCNetworkFaults` | two nodes, the same blocks, two crashes, shutdowns or cuts, one peer per list, a client that posts two addresses | chains valid and balances right after every start, no node behind its file, lists of peers bounded, a node catches up with a peer it keeps |

Why these bounds are enough to be interesting: the tree of `MCChain` has a branch
that overtakes another by out-of-order arrival, an equally tall fork, a block that
claims too much difficulty, a payment and a second one that spends its proceeds;
three side blocks make the store full, so eviction happens, and distance 2 makes
`b3` too far ahead of genesis. Two workers are needed for every race listed here.
The width of integers is 2^8 or 2^10, so that no sum of the instance wraps around.
`MCMiner` has no deadlock check because the bounds end it, nor have the
`MCNode` runs, whose handlers run out of blocks that were not seen.
Symmetry is used only in runs without liveness, among workers (who do the same)
and inodes.

In `MCNetworkGossip` the ring makes a block come back to the node that first sent
it, by then perhaps without its seen entry; the run has no faults, which would
only end gossip sooner. `MCNetworkFaults` has two faults, so that a node may crash
while the link is down, or twice. Its blocks hold only rewards, and `MCNetwork`
assumes `NoBranchOverspends` and `NoWorkWraps`, which TLC evaluates. One side
block and distance 1 make the store overflow and `b2` too far ahead of genesis,
so background syncs happen.

`MCNodeSync` uses the block tree without its payment, since only the chain
matters there. `MinedBlockFits` and `StaleAttemptCancelled` speak of changes by
handlers: after a sync nobody calls `Restart`.

**Fairness.** Weak fairness of goroutines that can run (the Go scheduler runs
every runnable goroutine; the locks are held for finite sections), of the
handler's `Restart` once it is due, and of the periodic timer. Nothing is assumed
of luck with a hash (`Find`), of arriving blocks, or of calls of `Start` and `Stop`.
`CatchesUp` needs a peer that answers and keeps its chain. In `Network`,
`GossipSpec` says that some request ends (every request has a timeout), `SyncSpec`
that the periodic sync with a peer that stays in the list, can be reached and is
ahead happens. Nothing is assumed of delivery, healing, restarts or saves.

### Where the code does not do what the repository says

| Run | Property | What happens |
|---|---|---|
| `MCChainOrder` | `HeaviestHeldForkAdopted` | A child is kept before its parent arrives. The parent's arrival weighs the branch only up to the parent (README, "heaviest-chain consensus rules"). |
| `MCChainOverspend` | `LedgerMatchesChain` | The last block of a heavier branch overspends. Blocks are switched, the rebuild fails, the ledger stays half way (README, "Atomic Ledger Updates"). |
| `MCPersistenceRace` | `AtomicSave` | One saver truncates the temporary file, another renames it; the process dies (comment in `chain_persist.go`). |
| `MCNodeRace` | `NoPaymentLost` | A handler's `RemoveByBlock` comes after another goroutine reorganised the block away and returned its payment (REPORT, on lost transactions). |

Two more, not among the runs: a block that extends the tip a call has read, but
not the tip it finds, is dropped instead of kept as a competing block; and a sync
that appends blocks leaves their payments in the mempool. Nodes that have been
apart for longer than a health check have dropped each other and do not come
together by themselves, so no property promises that a healed network converges:
`Follows` speaks of peers that are kept.

## What is proved

`LedgerProofs` (any accounts, transactions, bodies and length of the chain, under
`LedgerAssumption` and `BodiesAssumption`). The inductive invariant is
`TypeOK /\ RebuildAgrees`: the ledger is what a rebuild from its chain gives
(`RebuildAppend`: rebuilding a chain and one more body is applying that body to the
rebuilt ledger). What a rebuild gives is then shown by induction on the length of
the chain and, inside a body, on the position of the payment, and so holds of
every reachable ledger.

- `TypeCorrect`, `GrownIsRebuilt` (`RebuildAgrees`) and `PaymentsOnce`
  (`NoPaymentTwice`): without hypothesis. For the last, `processedTxs` holds exactly
  the transactions of the chain, and a payment is taken only if it is not in it.
- `SupplyStaysBounded` (`SupplyBounded`): for finitely many accounts, if `SpendingFits`,
  that is amount plus fee of no payment exceeds a `uint64`. Additions to a balance
  may wrap around, which only loses money; a debit may not, since `applyBlock`
  compares the wrapped cost with the balance.
- `NothingLostOrInvented` (`BalancesAreNetFlow`): if moreover `RewardsFit`, all rewards
  of a chain of `MaxBlocks` blocks fit in a `uint64` (with a reward of 50 that is
  10^17 blocks). The supply bound is what keeps each sum from wrapping around.
- `MinedBodiesApply` (`MinerBodyApplies`): for finitely many transactions, with a
  coinbase of every amount (`AnyReward`: `NewCoinbaseTransaction` takes any). The
  filter of the miner works on a copy of the balances payment by payment; that
  `applyBlock` takes the same path behind a coinbase is `SpendAfterCoinbase`.

The code checks neither `SpendingFits` nor `RewardsFit`: they are what its arithmetic
relies on.

`ChainProofs` (for every block tree, any number of workers, any bounds that meet
`LedgerAssumption`, `BlockAssumption` and `ChainAssumption`):

- `TypeCorrect`: `Spec => []TypeOK`.
- `ChainAlwaysValid`: `Spec => []ChainValid`. `TypeOK /\ ChainValid` is inductive:
  `ChainStep` reduces every step to "nothing", "extend by an accepted block" or
  "switch to an acceptable chain"; `ReorganiseTo` validates beyond the fork
  point only, and the common prefix is valid because the old chain was.
- `Refinement`: `Spec => ImplementsHeaviestChain`, from the same reduction.
- `LedgerAlwaysMatches`: `Spec => []LedgerMatchesChain`, assuming
  `NoBranchOverspends` (every valid branch of the tree replays). The assumption
  is needed: `MCChainOverspend` is what happens without it. The argument:
  `LedgerRulesProofs` shows that replaying a chain and one more body is applying that
  body to the replay (`applyBlock`), so extending keeps the match; a switch
  installs a valid chain, which is the branch of its last block
  (`ChainRulesProofs`), and replays by assumption.
- `DisplacedAlwaysReturned`: under the same assumption, `DisplacedPaymentsReturned`.
  The code compares transactions beyond the fork only; the common prefix is the
  same on both sides.
- `SideChainsAlwaysBounded`: with the finiteness of the store as strengthening.
- `WorkAlwaysGrows`: `Spec => WorkGrows`, assuming `NoWorkWraps` (a block's branch has
  more work than its parent's: the sum of 2^difficulty stays below 2^64). Without it
  a longer branch could count as lighter.
- `NoHeavierForkIsLeft`: `Spec => NoHeavierForkLeft`, assuming `NoWorkWraps` and
  `NoBranchOverspends` (`AddBlock` refuses a block that overspends, however heavy).
  Valid blocks have one difficulty, so of two valid chains the longer is the heavier
  (`LongerIsHeavier`, `HeavierIsLonger`). A call decides with a tip that it read
  before it gave up the lock; the invariant `CallInv` says what that tip is still good
  for: it is the tip, or the chain has become longer than the branch that ends with it
  (`WasTip`), and the chain a call is about to switch to is the branch of its block
  (`HypotheticalIsBranch`). So a block that `AddBlock` refuses because another
  worker was first, or a switch that `ReorganiseTo` refuses, is on a branch that is
  no heavier by then; and a side branch all of whose blocks are held is found by
  `SidePath` down to the main chain (`HeldBranchConnects`).

`NodeProofs` (any number of handlers, syncs and peers, under `NodeAssumption`):

- `NodeImplementsChain`: `NodeSpec => Spec`. The inductive invariant `Wiring` says
  what a goroutine holds when it calls the chain: an announced block, a peer, a
  nonempty list of fetched blocks.
- `NodeChainAlwaysValid`, `NodeLedgerAlwaysMatches`: so the theorems about `Chain`
  hold of a node.
- `NodeTypeCorrect`: `NodeSpec => []NodeTypeOK`. Beside `Wiring`, the inductive
  invariant `NodeInv` has `Holdings` (pool, miner and handlers have finitely many
  payments, all signed except those on the way back from a reorganisation) and
  `CallsMatch` (a call is in progress for the block of the handler that waits for it).
- `MinedBlocksFit`: `NodeSpec /\ SyncsLeaveChain => []MinedBlockFits`, assuming
  `NoBranchOverspends`. `AttemptFits` follows an attempt through `mineBlock`: while no
  handler has cancelled it or owes it a Restart, what it kept was filtered with the
  present ledger and the tip it read is the tip. `ChangeIsOwed` shows that a handler
  that changes the chain owes the Restart from that very step until it notifies.
  Both hypotheses are needed. A sync restarts nobody, so it may leave an attempt with
  the filter of one ledger and the tip of another; and a reorganisation whose rebuild
  fails switches the blocks and ends in an error, after which nobody is notified
  either. The theorem says more than the property: under these hypotheses
  an undisturbed attempt has the present tip, which the property asks for.

`NetworkProofs` (any number of nodes, any peers and offers, any number of faults,
under `NetworkAssumption`):

- The argument: every call on a chain is `Progress`: it leaves the chain valid, its
  balances the replay's and its work no less (`AddBlockProgress`,
  `ReorganiseProgress`, `TryAddProgress`, `SyncProgress`), and a call that adds a
  block ends in a chain with that block as its tip (`Adds`). Every step leaves each
  node in one of three relations to itself, `Runs`, `Stops` or `Starts`
  (`StepKeeps`), and each invariant is shown to survive the three. The inductive
  invariant `IInv` adds to `TypeOK` that chains in memory and on disk are valid.
- `TypeCorrect` and `PeersBounded`: without further assumption.
- `ChainsConsistent`: `[]AllConsistent`, assuming `NoBranchOverspends`. A start
  replays a file that held a valid chain.
- `NodesKeepTheirWork`: `[]NeverBehindDisk`, assuming `NoWorkWraps`.
- `BlocksForwardedOnce`: `[]ForwardedOnce`, under the same assumption. The
  strengthening `SentOnce`: a node that has gossiped a block has had the work of
  that block's branch ever since, and only a block whose branch has more work than
  the node is added. So the seen tracker is not what keeps a node from passing a
  block on twice.

`MinerProofs` (any number of runs, attempts, blocks and syncs):

- `TypeCorrect`, `LoopsNeverOverlap` (`OneLoop`) and `StaleAttemptsCancelled`. The
  invariant `LoopInv` says which run the fields of the miner speak of: every other
  run has left its loop, since `Start` follows a `Stop` that waited for `done`.
  `AttemptInv` says that an attempt under way is the last one and belongs to the
  present run, so `Restart` cancels the right one.

`PersistenceProofs` (any number of savers, inodes, chunks and chains):

- `TypeCorrect`, `SavesAgree` (`OverlappingSavesAgree`), `NeverOlder`
  (`FileNeverOlder`), `TornFilesRepaired` (`TornOnlyWhileSaving`). `FilesInv` says what
  the two file names stand for while savers truncate, write and rename: the
  temporary file is never the inode of `chain.json`, who still writes to
  `chain.json` writes the present chain, and what may be renamed is that chain or
  will be completed to it.

The recursion in the modules is written as functions and folds; the facts about
them come from the defining equations of recursive functions on naturals
(`LedgerRulesProofs`, by induction over sets of naturals) and on blocks by depth (`ChainRulesProofs`).

Only model-checked: everything under fairness (`GossipDiesOut`, `Follows` of
`Network`, `CatchesUp` of `Node`, `CancelledSearchEnds`, `StopReturns` and
`WatchersEnd` of `Miner`), which is out of the prover's reach. Every other property
of the passing runs is stated by a theorem. `MCNodeGossip` checks `MinedBlockFits` on
a tree with a block that overspends, where the theorem does not apply: no block the
miner finds there fits badly, but its attempts need not satisfy `AttemptFits`.

## What is not modelled

Cryptography (two bits), HTTP, JSON and logging, the read-only handlers, the
dashboard, the scripts, and command-line flags. Timestamps play no part in
validation. Between nodes: payments and their gossip (a pattern like that of
blocks, with the pool of `Node` at each end), blocks that clients post without the
name of a node, and what an HTTP server still answers while its node shuts down.
A peer knows a node by its `ListenAddr`, which the code also sends as
`X-Source-Peer`; two names of one node are two peers.

## Plan

Done: all modules above and their theorems.

Left, in this order:

1. Proofs about several modules at a time: that `Network`'s calls on a chain are
   those of `Chain`, and that an attempt in `Node` is one of `Miner`.
2. Payments in `Network`, with a mempool for each node.
