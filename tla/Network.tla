------------------------------- MODULE Network -------------------------------
(***************************************************************************)
(* Several nodes (internal/node/node.go and internal/network: gossip.go,   *)
(* handlers.go, sync.go, peer.go).  Blocks are gossiped in requests that   *)
(* may be lost or overtake each other, nodes sync with the peers they know *)
(* and drop those that do not answer; nodes crash and start again from     *)
(* disk, links between them are cut and heal.                              *)
(*                                                                         *)
(* A handler's work on one block, a sync with one peer and a search that   *)
(* succeeds are one step each: what may come between the calls they make   *)
(* is the subject of modules Chain and Node.  A peer knows a node by its   *)
(* ListenAddr, which is the source its requests name.                      *)
(***************************************************************************)
EXTENDS ChainRules

CONSTANTS
  Node,         \* addresses of nodes
  Stranger,     \* addresses at which nothing listens
  Finder,       \* [Block -> Node]: whose search ends with each block
  Configured,   \* [Node -> Seq]: Config.Peers
  Offers,       \* lists of addresses that clients post to /peers
  MaxPeers,     \* 50
  Fleeting,     \* blocks whose seen entries may expire
  MaxFaults     \* bound on crashes, shutdowns and cuts together

ASSUME NetworkAssumption ==
  /\ IsFiniteSet(Node)
  /\ Finder \in [Block -> Node]
  /\ Configured \in [Node -> Seq(Node \cup Stranger)]
  /\ Offers \subseteq Seq(Node \cup Stranger)
  /\ MaxPeers \in Nat
  /\ Fleeting \subseteq Block
  /\ MaxFaults \in Nat

VARIABLES
  store,     \* main chain, side chains and ledger of each node
  disk,      \* the chain in chain.json of each node, <<>> if no whole one
  saving,    \* nodes with a call of SaveToFile to come or under way
  up,        \* nodes that run
  peers,     \* addresses each node knows
  seen,      \* seenBlocks of each node, as far as not expired
  messages,  \* POST /block requests under way
  syncing,   \* background syncs under way, <<node, source>>
  found,     \* blocks that some search has found
  cut,       \* links that are down, each a set of two nodes
  faults,    \* how many of MaxFaults have happened
  sent       \* history: how often each node gossiped each block since it started

chains == <<store, disk, saving>>
gossip == <<seen, messages, syncing, sent>>
world == <<up, peers, cut, faults>>
vars == <<chains, gossip, world, found>>

---------------------------------------------------------------------------
(* What a call on a chain with contents c comes to: contents and outcome   *)

Contents(blocks, sideChains, ledger) ==
  [blocks |-> blocks, sideChains |-> sideChains, ledger |-> ledger]

Fresh == Contents(<<Genesis>>, {}, NewLedger)

Outcome(c, outcome) == [store |-> c, outcome |-> outcome]

AddBlock(c, b) ==
  LET applied == applyBlock(c.ledger, Transactions[b])
  IN  IF Validate(b, TipOf(c.blocks)) /\ applied.ok
      THEN Outcome(Contents(Append(c.blocks, b), c.sideChains, applied.ledger), "added")
      ELSE Outcome(c, "failed")

\* The blocks stay switched when the ledger cannot be rebuilt.
ReorganiseTo(c, new) ==
  IF Acceptable(c.blocks, new)
  THEN Outcome(Contents(new, c.sideChains, LedgerOf(new).ledger),
               IF LedgerOf(new).ok THEN "added" ELSE "failed")
  ELSE Outcome(c, "failed")

StoreAside(c, b, side) ==
  LET kept == Contents(c.blocks, side, c.ledger)
      path == SidePath(side, b)
  IN  IF Heavier(c.blocks, path) THEN ReorganiseTo(kept, Hypothetical(c.blocks, path))
                                 ELSE Outcome(kept, Unadopted(b, TipOf(c.blocks)))

TryAddOrReorg(c, b) ==
  LET latest == TipOf(c.blocks)
  IN  IF DirectExtension(b, latest) THEN {AddBlock(c, b)}
      ELSE IF TooFarAhead(b, latest) THEN {Outcome(c, "needsSync")}
      ELSE {StoreAside(c, b, side) : side \in Stored(c.sideChains, b)}

\* One AddBlock after the other; after the first that fails none fits.
AppendAll(c, news) ==
  LET after[i \in 0 .. Len(news)] ==
        IF i = 0 THEN c ELSE AddBlock(after[i-1], news[i]).store
  IN  after[Len(news)]

\* Slip: one block ahead is not far enough ahead.
AheadByTwo(theirs, c) == Len(theirs) > Len(c.blocks) + 1

\* Only with a peer that is ahead is there anything to do.
Ahead(theirs, c) == Len(theirs) > Len(c.blocks)

\* With a peer whose chain is theirs: append what is more, or switch.
SyncWithPeer(c, theirs) ==
  LET more == SubSeq(theirs, Len(c.blocks) + 1, Len(theirs))
  IN  IF DirectExtension(more[1], TipOf(c.blocks)) THEN Outcome(AppendAll(c, more), "added")
                                                   ELSE ReorganiseTo(c, theirs)

\* Slip: the blocks are checked but not put in place.
LoadNothing(file) == Fresh

\* Slip: the blocks are not checked.
LoadUnchecked(file) == Contents(file, {}, LedgerOf(file).ledger)

\* Slip: the ledger is not rebuilt.
LoadBlocksOnly(file) ==
  IF file # <<>> /\ ValidChain(file) THEN Contents(file, {}, NewLedger) ELSE Fresh

\* On a new chain.  Blocks that do not replay stay installed, with the ledger
\* as far as the replay came.
LoadFromFile(file) ==
  IF file # <<>> /\ ValidChain(file)
  THEN Contents(file, {}, LedgerOf(file).ledger)
  ELSE Fresh

---------------------------------------------------------------------------
(* PeerManager                                                             *)

\* Slip: the limit is looked at before the list is merged, not on the way.
MergeWhole(known, addresses, skipped) ==
  IF Cardinality(known) >= MaxPeers THEN known ELSE known \cup (ToSet(addresses) \ skipped)

\* One address after the other, until the list is full.
Merge(known, addresses, skipped) ==
  LET list[i \in 0 .. Len(addresses)] ==
        IF i = 0 THEN known
        ELSE IF addresses[i] \in skipped \/ Cardinality(list[i-1]) >= MaxPeers THEN list[i-1]
        ELSE list[i-1] \cup {addresses[i]}
  IN  list[Len(addresses)]

\* AddPeer for each configured address.
InitialPeers(n) == Merge({}, Configured[n], {})

ExchangePeers(n, remotePeers) == Merge(peers[n], remotePeers, {n})

---------------------------------------------------------------------------
Install(n, c) == store' = [store EXCEPT ![n] = c]

Linked(n, p) == p \in up /\ {n, p} \notin cut

\* GossipBlock: to every known peer but the one the block came from.
Broadcast(n, b, source) ==
  {[from |-> n, to |-> p, block |-> b] : p \in peers[n] \ source}

\* The history tells none, one and more than one apart.
Count(n, b) == [sent EXCEPT ![n][b] = IF @ = 0 THEN 1 ELSE 2]

MarkBlock(n, b) == seen' = [seen EXCEPT ![n] = @ \cup {b}]

\* The search of n ends with b: AddBlock, then the callback, which saves last.
Mine(n, b) ==
  LET result == AddBlock(store[n], b)
  IN  /\ n \in up /\ Finder[b] = n /\ b \notin found
      /\ result.outcome = "added"
      /\ Install(n, result.store)
      /\ found' = found \cup {b}
      /\ MarkBlock(n, b)
      /\ messages' = messages \cup Broadcast(n, b, {})
      /\ sent' = Count(n, b)
      /\ saving' = saving \cup {n}
      /\ UNCHANGED <<disk, syncing, world>>

\* Slip: a block that was seen is passed on all the same.
SeenForwarded(m) ==
  /\ Linked(m.from, m.to)
  /\ m.block \in seen[m.to]
  /\ messages' = (messages \ {m}) \cup Broadcast(m.to, m.block, {m.from})
  /\ UNCHANGED <<chains, seen, syncing, sent, world, found>>

\* HandleReceiveBlock, for a block that was seen,
AlreadySeen(m) ==
  /\ Linked(m.from, m.to)
  /\ m.block \in seen[m.to]
  /\ messages' = messages \ {m}
  /\ UNCHANGED <<chains, seen, syncing, sent, world, found>>

\* Slip: a block that is only kept aside is gossiped too.
ForwardsKept(outcome) == outcome \in {"added", "kept"}

Forwards(outcome) == outcome = "added"

\* and for one that was not: added blocks are gossiped and at last saved; one
\* that is ahead starts a sync.
HandleReceiveBlock(m) ==
  LET n == m.to
      b == m.block
  IN  /\ Linked(m.from, n)
      /\ b \notin seen[n]
      /\ MarkBlock(n, b)
      /\ \E result \in TryAddOrReorg(store[n], b) :
            /\ Install(n, result.store)
            /\ \/ /\ Forwards(result.outcome)
                  /\ messages' = (messages \ {m}) \cup Broadcast(n, b, {m.from})
                  /\ sent' = Count(n, b)
                  /\ saving' = saving \cup {n}
                  /\ UNCHANGED syncing
               \/ /\ ~Forwards(result.outcome)
                  /\ messages' = messages \ {m}
                  /\ syncing' = IF result.outcome = "needsSync"
                                THEN syncing \cup {<<n, m.from>>} ELSE syncing
                  /\ UNCHANGED <<sent, saving>>
      /\ UNCHANGED <<disk, world, found>>

\* A request fails or times out, and nobody sends it again.
Lose(m) ==
  /\ messages' = messages \ {m}
  /\ UNCHANGED <<chains, seen, syncing, sent, world, found>>

\* The handler's sync, with the sender of a block: nothing is saved after it.
BackgroundSync(n, p) ==
  /\ syncing' = syncing \ {<<n, p>>}
  /\ \/ /\ Linked(n, p) /\ Ahead(store[p].blocks, store[n])
        /\ Install(n, SyncWithPeer(store[n], store[p].blocks).store)
     \/ /\ ~(Linked(n, p) /\ Ahead(store[p].blocks, store[n]))
        /\ UNCHANGED store
  /\ UNCHANGED <<disk, saving, seen, messages, sent, world, found>>

\* The sync at the start and by the timer, with one peer after the other.
Sync(n, p) ==
  /\ n \in up /\ p \in peers[n] /\ Linked(n, p)
  /\ Ahead(store[p].blocks, store[n])
  /\ \E result \in {SyncWithPeer(store[n], store[p].blocks)} :
        /\ result.store # store[n]
        /\ Install(n, result.store)
        /\ saving' = IF result.outcome = "added" THEN saving \cup {n} ELSE saving
  /\ UNCHANGED <<disk, gossip, world, found>>

\* SaveToFile writes the chain as it is by then.
Save(n) ==
  /\ disk' = [disk EXCEPT ![n] = store[n].blocks]
  /\ saving' = saving \ {n}
  /\ UNCHANGED <<store, gossip, world, found>>

\* After its TTL an entry no longer counts.
Expire(n, b) ==
  /\ b \in seen[n] \cap Fleeting
  /\ seen' = [seen EXCEPT ![n] = @ \ {b}]
  /\ UNCHANGED <<chains, messages, syncing, sent, world, found>>

\* A peer that does not answer is no longer a peer.
HealthCheck(n, p) ==
  /\ n \in up /\ ~Linked(n, p)
  /\ peers' = [peers EXCEPT ![n] = @ \ {p}]
  /\ UNCHANGED <<chains, gossip, up, cut, faults, found>>

\* POST /peers
Exchange(n, offer) ==
  /\ n \in up
  /\ peers' = [peers EXCEPT ![n] = ExchangePeers(n, offer)]
  /\ UNCHANGED <<chains, gossip, up, cut, faults, found>>

---------------------------------------------------------------------------
(* Faults                                                                  *)

Fault == faults < MaxFaults /\ faults' = faults + 1

\* Module Persistence shows that saves that overlap may leave a torn file;
\* any save here may overlap with another of the same node.
Torn(n) == IF n \in saving THEN {<<>>} ELSE {}

\* The process of n ends and leaves one of files.
Stop(n, files) ==
  /\ n \in up /\ Fault
  /\ \E file \in files : disk' = [disk EXCEPT ![n] = file]
  /\ up' = up \ {n}
  /\ store' = [store EXCEPT ![n] = Fresh]
  /\ saving' = saving \ {n}
  /\ peers' = [peers EXCEPT ![n] = {}]
  /\ seen' = [seen EXCEPT ![n] = {}]
  /\ sent' = [sent EXCEPT ![n] = [b \in Block |-> 0]]
  /\ syncing' = {s \in syncing : s[1] # n}
  /\ UNCHANGED <<messages, cut, found>>

Crash(n) == Stop(n, {disk[n]} \cup Torn(n))

\* Shutdown saves too, and waits for no goroutine that also does.
Shutdown(n) == Stop(n, {store[n].blocks} \cup Torn(n))

Start(n) ==
  /\ n \notin up
  /\ up' = up \cup {n}
  /\ store' = [store EXCEPT ![n] = LoadFromFile(disk[n])]
  /\ peers' = [peers EXCEPT ![n] = InitialPeers(n)]
  /\ UNCHANGED <<disk, saving, gossip, cut, faults, found>>

Cut(n, p) ==
  /\ n # p /\ {n, p} \notin cut /\ Fault
  /\ cut' = cut \cup {{n, p}}
  /\ UNCHANGED <<chains, gossip, up, peers, found>>

Heal(link) ==
  /\ cut' = cut \ {link}
  /\ UNCHANGED <<chains, gossip, up, peers, faults, found>>

---------------------------------------------------------------------------
Init ==
  /\ store = [n \in Node |-> Fresh]
  /\ disk = [n \in Node |-> <<>>]
  /\ up = Node
  /\ peers = [n \in Node |-> InitialPeers(n)]
  /\ seen = [n \in Node |-> {}]
  /\ sent = [n \in Node |-> [b \in Block |-> 0]]
  /\ faults = 0
  /\ saving = {} /\ messages = {} /\ syncing = {} /\ found = {} /\ cut = {}

Deliver(m) == AlreadySeen(m) \/ HandleReceiveBlock(m)

NodeStep(n) ==
  \/ \E b \in Block : Mine(n, b) \/ Expire(n, b)
  \/ \E p \in peers[n] : Sync(n, p) \/ HealthCheck(n, p)
  \/ \E offer \in Offers : Exchange(n, offer)
  \/ \E p \in Node : Cut(n, p)
  \/ Crash(n) \/ Shutdown(n) \/ Start(n)

Next ==
  \/ \E n \in Node : NodeStep(n)
  \/ \E m \in messages : Deliver(m) \/ Lose(m)
  \/ \E s \in syncing : BackgroundSync(s[1], s[2])
  \/ \E n \in saving : Save(n)
  \/ \E link \in cut : Heal(link)

Spec == Init /\ [][Next]_vars

Message == [from : Node, to : Node \cup Stranger, block : Announced]

\* Some request ends, by an answer or a timeout.
GossipSpec == Spec /\ WF_vars(\E m \in messages : Deliver(m) \/ Lose(m))

\* The sync timer keeps firing in nodes that run.
SyncSpec == Spec /\ \A n \in Node : \A p \in Node \ {n} : WF_vars(Sync(n, p))

---------------------------------------------------------------------------
TypeOK ==
  /\ \A n \in Node : /\ store[n].blocks \in Seq(Block) \ {<<>>}
                     /\ store[n].sideChains \subseteq Announced
  /\ disk \in [Node -> Seq(Block)]
  /\ saving \subseteq Node
  /\ up \subseteq Node
  /\ peers \in [Node -> SUBSET (Node \cup Stranger)]
  /\ seen \in [Node -> SUBSET Block]
  /\ messages \subseteq Message
  /\ syncing \subseteq Node \X Node
  /\ found \subseteq Block
  /\ cut \subseteq SUBSET Node
  /\ faults \in 0 .. MaxFaults
  /\ sent \in [Node -> [Block -> 0 .. 2]]

Height(n) == Len(store[n].blocks)

(***************************************************************************)
(* Every node's chain is valid from genesis to tip and its balances are    *)
(* what replaying that chain gives: after any gossip, any sync and any     *)
(* start from a file that a crash left behind.                             *)
(***************************************************************************)
Consistent(c) == /\ ValidChain(c.blocks)
                 /\ LedgerOf(c.blocks).ok /\ LedgerOf(c.blocks).ledger = c.ledger

AllConsistent == \A n \in Node : Consistent(store[n])

(***************************************************************************)
(* A node gossips a block at most once in its life, even when the entry    *)
(* that says it has seen the block expires while copies are under way:     *)
(* the chain has too much work by then for the block to be added again.    *)
(***************************************************************************)
ForwardedOnce == \A n \in Node, b \in Block : sent[n][b] <= 1

(***************************************************************************)
(* A node that runs has at least the work of the chain in its file, also   *)
(* right after it has started from that file.                              *)
(***************************************************************************)
NeverBehindDisk ==
  \A n \in up : disk[n] # <<>> => calculateWork(store[n].blocks) >= calculateWork(disk[n])

(***************************************************************************)
(* No list of peers outgrows its limit, although POST /peers brings many   *)
(* addresses at a time.                                                    *)
(***************************************************************************)
PeerListBounded == \A n \in Node : Cardinality(peers[n]) <= MaxPeers

(***************************************************************************)
(* Gossip dies out: no block travels around the network for ever, although *)
(* seen entries expire.                                                    *)
(***************************************************************************)
GossipDiesOut == <>[](messages = {})

(***************************************************************************)
(* A node catches up with every peer that it keeps in its list and that    *)
(* stays reachable, whatever gossip was lost.                              *)
(***************************************************************************)
InTouch(n, p) == n \in up /\ p \in peers[n] /\ Linked(n, p)

Follows ==
  \A n \in Node : \A p \in Node \ {n} :
     <>[]InTouch(n, p) => <>[](Height(n) >= Height(p))

============================================================================
