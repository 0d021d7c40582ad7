--------------------------- MODULE NetworkProofs ---------------------------
(***************************************************************************)
(* Theorems about module Network, for any network, any tree of blocks and  *)
(* any number of faults.  Whatever a node does to its chain is progress:   *)
(* the chain stays valid and its work does not fall; only a start from     *)
(* disk may set a node back, to a chain that is valid because what is      *)
(* saved was.                                                              *)
(***************************************************************************)
EXTENDS Network, ChainRulesProofs

Sound(c) ==
  /\ c.blocks \in Seq(Block) \ {<<>>}
  /\ c.sideChains \subseteq Announced
  /\ ValidChain(c.blocks)

\* What every call on a chain with sound contents c may make of them.
Progress(c, d) ==
  /\ Sound(d)
  /\ NoBranchOverspends /\ Consistent(c) => Consistent(d)
  /\ NoWorkWraps => calculateWork(d.blocks) >= calculateWork(c.blocks)

\* What a call that adds block b comes to.
Adds(c, d, b) ==
  /\ TipOf(d.blocks) = b
  /\ NoWorkWraps => calculateWork(d.blocks) > calculateWork(c.blocks)

\* The parts of what a node's chain holds.
LEMMA ContentsParts ==
  ASSUME NEW s, NEW side, NEW l
  PROVE  /\ Contents(s, side, l).blocks = s
         /\ Contents(s, side, l).sideChains = side
         /\ Contents(s, side, l).ledger = l
BY DEF Contents

LEMMA OutcomeParts ==
  ASSUME NEW c, NEW o
  PROVE  Outcome(c, o).store = c /\ Outcome(c, o).outcome = o
BY DEF Outcome

\* A new chain is sound and consistent.
LEMMA FreshSound == Sound(Fresh) /\ Consistent(Fresh)
<1>1. Genesis \in Block
  BY BlockAssumption DEF BlockAssumption
<1>2. Fresh.blocks = <<Genesis>> /\ Fresh.sideChains = {} /\ Fresh.ledger = NewLedger
  BY ContentsParts DEF Fresh
<1>3. ValidChain(<<Genesis>>)
  BY DEF ValidChain
<1>4. QED
  BY <1>1, <1>2, <1>3, LedgerOfGenesis DEF Sound, Consistent

\* To leave the main chain alone is progress.
LEMMA SameBlocks ==
  ASSUME NEW c, Sound(c), NEW d, d.blocks = c.blocks, d.ledger = c.ledger,
         d.sideChains \subseteq Announced
  PROVE  Progress(c, d)
<1>1. calculateWork(c.blocks) \in Nat
  BY WorkType DEF Sound
<1>2. QED
  BY <1>1 DEF Sound, Consistent, Progress

\* Progress and more progress is progress.
LEMMA ProgressTransitive ==
  ASSUME NEW c, NEW d, NEW e, Sound(c), Progress(c, d), Progress(d, e)
  PROVE  Progress(c, e)
<1>1. /\ calculateWork(c.blocks) \in Nat
      /\ calculateWork(d.blocks) \in Nat
      /\ calculateWork(e.blocks) \in Nat
  BY WorkType DEF Sound, Progress
<1>2. NoWorkWraps => calculateWork(e.blocks) >= calculateWork(c.blocks)
  BY <1>1 DEF Progress
<1>3. QED
  BY <1>2 DEF Progress

\* AddBlock.
LEMMA AddBlockProgress ==
  ASSUME NEW c, Sound(c), NEW b \in Block
  PROVE  /\ Progress(c, AddBlock(c, b).store)
         /\ AddBlock(c, b).outcome = "added" =>
              /\ Adds(c, AddBlock(c, b).store, b)
              /\ Validate(b, TipOf(c.blocks))
<1> DEFINE applied == applyBlock(c.ledger, Transactions[b])
           d == Contents(Append(c.blocks, b), c.sideChains, applied.ledger)
<1>1. CASE Validate(b, TipOf(c.blocks)) /\ applied.ok
  <2>1. AddBlock(c, b).store = d /\ AddBlock(c, b).outcome = "added"
    BY <1>1, OutcomeParts DEF AddBlock
  <2>2. /\ d.blocks = Append(c.blocks, b) /\ d.sideChains = c.sideChains
        /\ d.ledger = applied.ledger
    BY DEF Contents
  <2> HIDE DEF d
  <2>3. c.blocks \in Seq(Block) \ {<<>>} /\ ValidChain(c.blocks)
    BY DEF Sound
  <2>4. ValidChain(d.blocks) /\ d.blocks \in Seq(Block) \ {<<>>} /\ TipOf(d.blocks) = b
    BY <1>1, <2>2, <2>3, ExtendValid DEF TipOf
  <2>5. Consistent(c) => LedgerOf(d.blocks).ok /\ LedgerOf(d.blocks).ledger = d.ledger
    <3>1. SUFFICES ASSUME Consistent(c)
                   PROVE  LedgerOf(d.blocks).ok /\ LedgerOf(d.blocks).ledger = d.ledger
      OBVIOUS
    <3>2. LedgerOf(Append(c.blocks, b)) = applied
      BY <2>3, <3>1, LedgerOfAppend DEF Consistent
    <3> HIDE DEF applied
    <3>3. QED
      BY <1>1, <2>2, <3>2
  <2>6. NoWorkWraps => calculateWork(d.blocks) > calculateWork(c.blocks)
    BY <1>1, <2>2, <2>3, ExtendHeavier
  <2>7. calculateWork(d.blocks) \in Nat /\ calculateWork(c.blocks) \in Nat
    BY <2>3, <2>4, WorkType
  <2>8. Sound(d)
    BY <2>2, <2>4 DEF Sound
  <2>9. Progress(c, d)
    BY <2>4, <2>5, <2>6, <2>7, <2>8 DEF Progress, Consistent
  <2>10. QED
    BY <1>1, <2>1, <2>4, <2>6, <2>9 DEF Adds
<1>2. CASE ~(Validate(b, TipOf(c.blocks)) /\ applied.ok)
  <2>1. AddBlock(c, b) = Outcome(c, "failed")
    BY <1>2 DEF AddBlock
  <2>2. AddBlock(c, b).store = c /\ AddBlock(c, b).outcome = "failed"
    BY <2>1, OutcomeParts
  <2>3. Progress(c, c)
    BY SameBlocks DEF Sound
  <2>4. QED
    BY <2>2, <2>3
<1>3. QED
  BY <1>1, <1>2

\* ReorganiseTo.
LEMMA ReorganiseProgress ==
  ASSUME NEW c, Sound(c), NEW new \in Seq(Block) \ {<<>>}
  PROVE  /\ Progress(c, ReorganiseTo(c, new).store)
         /\ ReorganiseTo(c, new).outcome = "added" =>
              Adds(c, ReorganiseTo(c, new).store, TipOf(new))
<1> DEFINE d == Contents(new, c.sideChains, LedgerOf(new).ledger)
<1>1. CASE Acceptable(c.blocks, new)
  <2>1. ReorganiseTo(c, new).store = d
    BY <1>1, OutcomeParts DEF ReorganiseTo
  <2>2. d.blocks = new /\ d.sideChains = c.sideChains /\ d.ledger = LedgerOf(new).ledger
    BY ContentsParts
  <2> HIDE DEF d
  <2>3. c.blocks \in Seq(Block) \ {<<>>} /\ ValidChain(c.blocks)
    BY DEF Sound
  <2>4. ValidChain(new)
    BY <1>1, <2>3, AcceptableValid
  <2>5. NoBranchOverspends => LedgerOf(new).ok
    BY <2>4, ValidChainApplies
  <2>6. calculateWork(new) > calculateWork(c.blocks)
    BY <1>1 DEF Acceptable
  <2>7. calculateWork(new) \in Nat /\ calculateWork(c.blocks) \in Nat
    BY <2>3, WorkType
  <2>8. Sound(d)
    BY <2>2, <2>4 DEF Sound
  <2>9. Progress(c, d)
    BY <2>2, <2>4, <2>5, <2>6, <2>7, <2>8 DEF Progress, Consistent
  <2>10. QED
    BY <2>1, <2>2, <2>6, <2>9 DEF Adds
<1>2. CASE ~Acceptable(c.blocks, new)
  <2>1. ReorganiseTo(c, new).store = c /\ ReorganiseTo(c, new).outcome = "failed"
    BY <1>2, OutcomeParts DEF ReorganiseTo
  <2>2. Progress(c, c)
    BY SameBlocks DEF Sound
  <2>3. QED
    BY <2>1, <2>2
<1>3. QED
  BY <1>1, <1>2

\* The walk back through the store ends at the block it started from.
LEMMA SidePathEnds ==
  ASSUME NEW side \in SUBSET Block, NEW b \in Block
  PROVE  TipOf(SidePath(side, b)) = b
<1>1. CASE PrevHash[b] \in side
  <2>1. SidePath(side, PrevHash[b]) \in Seq(Block)
    BY <1>1, SidePathType
  <2>2. SidePath(side, b) = Append(SidePath(side, PrevHash[b]), b)
    BY <1>1, SidePathUnfolds
  <2>3. QED
    BY <2>1, <2>2 DEF TipOf
<1>2. CASE PrevHash[b] \notin side
  <2>1. SidePath(side, b) = <<b>>
    BY <1>2, SidePathUnfolds
  <2>2. QED
    BY <2>1 DEF TipOf
<1>3. QED
  BY <1>1, <1>2

\* A path that connects is the end of the chain put together with it.
LEMMA HypotheticalEnds ==
  ASSUME NEW chain \in Seq(Block) \ {<<>>}, NEW path \in Seq(Block) \ {<<>>},
         Connects(chain, path)
  PROVE  TipOf(Hypothetical(chain, path)) = TipOf(path)
<1>1. path[1] \in Block /\ Len(path) \in Nat \ {0} /\ Len(chain) \in Nat
  OBVIOUS
<1>2. Index[path[1]] \in 0 .. Len(chain)
  <2>1. Index[path[1]] \in Nat
    BY <1>1, BlockAssumption DEF BlockAssumption
  <2>2. QED
    BY <1>1, <2>1 DEF Connects
<1> DEFINE base == SubSeq(chain, 1, Index[path[1]])
<1>3. base \in Seq(Block)
  BY <1>2
<1> HIDE DEF base
<1>4. TipOf(base \o path) = TipOf(path)
  BY <1>1, <1>3 DEF TipOf
<1>5. QED
  BY <1>4 DEF Hypothetical, base

\* Cases 2 and 3 of TryAddOrReorg.
LEMMA StoreAsideProgress ==
  ASSUME NEW c, Sound(c), NEW b \in Announced, NEW side \in SUBSET Announced
  PROVE  /\ Progress(c, StoreAside(c, b, side).store)
         /\ StoreAside(c, b, side).outcome = "added" => Adds(c, StoreAside(c, b, side).store, b)
<1> DEFINE kept == Contents(c.blocks, side, c.ledger)
           path == SidePath(side, b)
           new == Hypothetical(c.blocks, path)
<1>1. kept.blocks = c.blocks /\ kept.sideChains = side /\ kept.ledger = c.ledger
  BY DEF Contents
<1>2. side \in SUBSET Block /\ b \in Block
  BY DEF Announced
<1>3. path \in Seq(Block) \ {<<>>} /\ TipOf(path) = b
  BY <1>2, SidePathType, SidePathEnds
<1> HIDE DEF kept, path
<1>4. Progress(c, kept) /\ Sound(kept)
  <2>1. Progress(c, kept)
    BY <1>1, SameBlocks
  <2>2. QED
    BY <2>1 DEF Progress
<1>5. CASE Heavier(c.blocks, path)
  <2>1. new \in Seq(Block) \ {<<>>} /\ TipOf(new) = b
    BY <1>3, <1>5, HypotheticalType, HypotheticalEnds DEF Heavier, Sound
  <2>2. StoreAside(c, b, side) = ReorganiseTo(kept, new)
    BY <1>5 DEF StoreAside, kept, path
  <2> HIDE DEF new
  <2>3. /\ Progress(kept, ReorganiseTo(kept, new).store)
        /\ ReorganiseTo(kept, new).outcome = "added" =>
             Adds(kept, ReorganiseTo(kept, new).store, b)
    BY <1>4, <2>1, ReorganiseProgress
  <2>4. Progress(c, ReorganiseTo(kept, new).store)
    BY <1>4, <2>3, ProgressTransitive
  <2>5. QED
    BY <1>1, <2>2, <2>3, <2>4 DEF Adds
<1>6. CASE ~Heavier(c.blocks, path)
  <2>1. StoreAside(c, b, side) = Outcome(kept, Unadopted(b, TipOf(c.blocks)))
    BY <1>6 DEF StoreAside, kept, path
  <2>2. StoreAside(c, b, side).store = kept
        /\ StoreAside(c, b, side).outcome = Unadopted(b, TipOf(c.blocks))
    BY <2>1, OutcomeParts
  <2>3. Unadopted(b, TipOf(c.blocks)) # "added"
    BY DEF Unadopted
  <2>4. QED
    BY <1>4, <2>2, <2>3
<1>7. QED
  BY <1>5, <1>6

\* TryAddOrReorg.
LEMMA TryAddProgress ==
  ASSUME NEW c, Sound(c), NEW b \in Announced, NEW result \in TryAddOrReorg(c, b)
  PROVE  /\ Progress(c, result.store)
         /\ result.outcome = "added" => Adds(c, result.store, b)
<1>1. b \in Block
  BY DEF Announced
<1>2. CASE result = AddBlock(c, b)
  BY <1>1, <1>2, AddBlockProgress
<1>3. CASE result = Outcome(c, "needsSync")
  <2>1. result.store = c /\ result.outcome = "needsSync"
    BY <1>3, OutcomeParts
  <2>2. Progress(c, c)
    BY SameBlocks DEF Sound
  <2>3. QED
    BY <2>1, <2>2
<1>4. ASSUME NEW side \in Stored(c.sideChains, b), result = StoreAside(c, b, side)
      PROVE  /\ Progress(c, result.store)
             /\ result.outcome = "added" => Adds(c, result.store, b)
  <2>1. c.sideChains \in SUBSET Announced
    BY DEF Sound
  <2>2. side \in SUBSET Announced
    BY <2>1, StoredType
  <2>3. QED
    BY <1>4, <2>2, StoreAsideProgress
<1>5. QED
  BY <1>2, <1>3, <1>4 DEF TryAddOrReorg

---------------------------------------------------------------------------
AppendStep(c, news, f, n) == IF n = 0 THEN c ELSE AddBlock(f[n-1], news[n]).store

Appends(c, news, f, n) == f = [i \in 0 .. n |-> AppendStep(c, news, f, i)]

\* The contents after each of the calls of AddBlock in a sync exist.
LEMMA AppendsExist ==
  ASSUME NEW c, NEW news
  PROVE  \A n \in Nat : \E f : Appends(c, news, f, n)
<1> DEFINE T == {n \in Nat : \E f : Appends(c, news, f, n)}
<1>1. 0 \in T
  <2>1. Appends(c, news, [i \in 0 .. 0 |-> c], 0)
    BY DEF Appends, AppendStep
  <2>2. QED
    BY <2>1
<1>2. ASSUME NEW n \in T PROVE n + 1 \in T
  <2>1. PICK f : Appends(c, news, f, n)
    OBVIOUS
  <2> DEFINE g == [i \in 0 .. n + 1 |-> AppendStep(c, news, f, i)]
  <2>2. n \in Nat
    OBVIOUS
  <2>3. \A i \in 0 .. n : g[i] = f[i]
    BY <2>1, <2>2 DEF Appends
  <2>4. ASSUME NEW i \in 0 .. n + 1
        PROVE  AppendStep(c, news, f, i) = AppendStep(c, news, g, i)
    <3>1. i # 0 => i - 1 \in 0 .. n
      BY <2>2
    <3> HIDE DEF g
    <3>2. QED
      BY <2>3, <3>1 DEF AppendStep
  <2>5. g = [i \in 0 .. n + 1 |-> AppendStep(c, news, g, i)]
    BY <2>4
  <2>6. Appends(c, news, g, n + 1)
    <3> HIDE DEF g
    <3>1. QED
      BY <2>5 DEF Appends
  <2>7. QED
    BY <2>6
<1>3. T = Nat
  <2> HIDE DEF T
  <2>1. T \in SUBSET Nat
    BY DEF T
  <2>2. QED
    BY <1>1, <1>2, <2>1, NatSetInduction
<1>4. QED
  BY <1>3

\* Any number of calls of AddBlock is progress.
LEMMA AppendAllProgress ==
  ASSUME NEW c, Sound(c), NEW news \in Seq(Block)
  PROVE  Progress(c, AppendAll(c, news))
<1> DEFINE f == CHOOSE f : Appends(c, news, f, Len(news))
           T == {n \in Nat : n <= Len(news) => Progress(c, f[n])}
<1>1. Len(news) \in Nat
  OBVIOUS
<1>2. Appends(c, news, f, Len(news))
  BY <1>1, AppendsExist
<1>3. AppendAll(c, news) = f[Len(news)]
  BY DEF AppendAll, Appends, AppendStep
<1> HIDE DEF f
<1>4. 0 \in T
  <2>1. f[0] = c
    BY <1>1, <1>2 DEF Appends, AppendStep
  <2>2. Progress(c, c)
    BY SameBlocks DEF Sound
  <2>3. QED
    BY <2>1, <2>2
<1>5. ASSUME NEW n \in T PROVE n + 1 \in T
  <2>1. SUFFICES ASSUME n \in Nat, n + 1 <= Len(news)
                 PROVE  Progress(c, f[n + 1])
    OBVIOUS
  <2>2. /\ n <= Len(news) /\ n + 1 \in 0 .. Len(news) /\ (n + 1) - 1 = n /\ n + 1 # 0
        /\ news[n + 1] \in Block
    BY <1>1, <2>1
  <2>3. Progress(c, f[n]) /\ Sound(f[n])
    BY <2>2 DEF Progress
  <2>4. f[n + 1] = AddBlock(f[n], news[n + 1]).store
    BY <1>2, <2>2 DEF Appends, AppendStep
  <2>5. Progress(f[n], f[n + 1])
    BY <2>2, <2>3, <2>4, AddBlockProgress
  <2>6. QED
    BY <2>3, <2>5, ProgressTransitive
<1>6. T = Nat
  <2> HIDE DEF T
  <2>1. T \in SUBSET Nat
    BY DEF T
  <2>2. QED
    BY <1>4, <1>5, <2>1, NatSetInduction
<1>7. QED
  BY <1>1, <1>3, <1>6

\* SyncWithPeer.
LEMMA SyncProgress ==
  ASSUME NEW c, Sound(c), NEW theirs \in Seq(Block) \ {<<>>}
  PROVE  Progress(c, SyncWithPeer(c, theirs).store)
<1> DEFINE more == SubSeq(theirs, Len(c.blocks) + 1, Len(theirs))
<1>1. CASE DirectExtension(more[1], TipOf(c.blocks))
  <2>1. SyncWithPeer(c, theirs) = Outcome(AppendAll(c, more), "added")
    BY <1>1 DEF SyncWithPeer
  <2>2. more \in Seq(Block)
    <3>1. Len(c.blocks) \in Nat /\ Len(theirs) \in Nat
      BY DEF Sound
    <3>2. QED
      BY <3>1
  <2> HIDE DEF more
  <2>3. QED
    BY <2>1, <2>2, OutcomeParts, AppendAllProgress
<1>2. CASE ~DirectExtension(more[1], TipOf(c.blocks))
  <2>1. SyncWithPeer(c, theirs) = ReorganiseTo(c, theirs)
    BY <1>2 DEF SyncWithPeer
  <2>2. QED
    BY <2>1, ReorganiseProgress
<1>3. QED
  BY <1>1, <1>2

\* LoadFromFile.
LEMMA LoadSound ==
  ASSUME NEW file \in Seq(Block)
  PROVE  /\ Sound(LoadFromFile(file))
         /\ NoBranchOverspends => Consistent(LoadFromFile(file))
         /\ file # <<>> /\ ValidChain(file) => LoadFromFile(file).blocks = file
<1>1. CASE file # <<>> /\ ValidChain(file)
  <2>1. /\ LoadFromFile(file).blocks = file
        /\ LoadFromFile(file).sideChains = {}
        /\ LoadFromFile(file).ledger = LedgerOf(file).ledger
    BY <1>1 DEF LoadFromFile, Contents
  <2>2. NoBranchOverspends => LedgerOf(file).ok
    BY <1>1, ValidChainApplies
  <2>3. QED
    BY <1>1, <2>1, <2>2 DEF Sound, Consistent
<1>2. CASE ~(file # <<>> /\ ValidChain(file))
  <2>1. LoadFromFile(file) = Fresh
    BY <1>2 DEF LoadFromFile
  <2>2. QED
    BY <1>2, <2>1, FreshSound
<1>3. QED
  BY <1>1, <1>2

---------------------------------------------------------------------------
MergeStep(known, addresses, skipped, f, n) ==
  IF n = 0 THEN known
  ELSE IF addresses[n] \in skipped \/ Cardinality(f[n-1]) >= MaxPeers THEN f[n-1]
  ELSE f[n-1] \cup {addresses[n]}

Merges(known, addresses, skipped, f, n) ==
  f = [i \in 0 .. n |-> MergeStep(known, addresses, skipped, f, i)]

\* The lists of peers after each address exist.
LEMMA MergesExist ==
  ASSUME NEW known, NEW addresses, NEW skipped
  PROVE  \A n \in Nat : \E f : Merges(known, addresses, skipped, f, n)
<1> DEFINE T == {n \in Nat : \E f : Merges(known, addresses, skipped, f, n)}
<1>1. 0 \in T
  <2>1. Merges(known, addresses, skipped, [i \in 0 .. 0 |-> known], 0)
    BY DEF Merges, MergeStep
  <2>2. QED
    BY <2>1
<1>2. ASSUME NEW n \in T PROVE n + 1 \in T
  <2>1. PICK f : Merges(known, addresses, skipped, f, n)
    OBVIOUS
  <2> DEFINE g == [i \in 0 .. n + 1 |-> MergeStep(known, addresses, skipped, f, i)]
  <2>2. n \in Nat
    OBVIOUS
  <2>3. \A i \in 0 .. n : g[i] = f[i]
    BY <2>1, <2>2 DEF Merges
  <2>4. ASSUME NEW i \in 0 .. n + 1
        PROVE  MergeStep(known, addresses, skipped, f, i)
                 = MergeStep(known, addresses, skipped, g, i)
    <3>1. i # 0 => i - 1 \in 0 .. n
      BY <2>2
    <3> HIDE DEF g
    <3>2. QED
      BY <2>3, <3>1 DEF MergeStep
  <2>5. g = [i \in 0 .. n + 1 |-> MergeStep(known, addresses, skipped, g, i)]
    BY <2>4
  <2>6. Merges(known, addresses, skipped, g, n + 1)
    <3> HIDE DEF g
    <3>1. QED
      BY <2>5 DEF Merges
  <2>7. QED
    BY <2>6
<1>3. T = Nat
  <2> HIDE DEF T
  <2>1. T \in SUBSET Nat
    BY DEF T
  <2>2. QED
    BY <1>1, <1>2, <2>1, NatSetInduction
<1>4. QED
  BY <1>3

\* A list of peers: addresses, and no more than the limit.
PeerList(list) ==
  /\ list \subseteq Node \cup Stranger
  /\ IsFiniteSet(list)
  /\ Cardinality(list) <= MaxPeers

\* Merging addresses into a list of peers gives a list of peers.
LEMMA MergePeerList ==
  ASSUME NEW known, PeerList(known), NEW addresses \in Seq(Node \cup Stranger), NEW skipped
  PROVE  PeerList(Merge(known, addresses, skipped))
<1> DEFINE f == CHOOSE f : Merges(known, addresses, skipped, f, Len(addresses))
           T == {n \in Nat : n <= Len(addresses) => PeerList(f[n])}
<1>1. Len(addresses) \in Nat /\ MaxPeers \in Nat
  BY NetworkAssumption DEF NetworkAssumption
<1>2. Merges(known, addresses, skipped, f, Len(addresses))
  BY <1>1, MergesExist
<1>3. Merge(known, addresses, skipped) = f[Len(addresses)]
  BY DEF Merge, Merges, MergeStep
<1> HIDE DEF f
<1>4. 0 \in T
  <2>1. f[0] = known
    BY <1>1, <1>2 DEF Merges, MergeStep
  <2>2. QED
    BY <2>1
<1>5. ASSUME NEW n \in T PROVE n + 1 \in T
  <2>1. SUFFICES ASSUME n \in Nat, n + 1 <= Len(addresses)
                 PROVE  PeerList(f[n + 1])
    OBVIOUS
  <2>2. /\ n <= Len(addresses) /\ n + 1 \in 0 .. Len(addresses) /\ (n + 1) - 1 = n /\ n + 1 # 0
        /\ addresses[n + 1] \in Node \cup Stranger
    BY <1>1, <2>1
  <2>3. PeerList(f[n])
    BY <2>2
  <2>4. f[n + 1] = MergeStep(known, addresses, skipped, f, n + 1)
    BY <1>2, <2>2 DEF Merges
  <2>5. CASE f[n + 1] = f[n]
    BY <2>3, <2>5
  <2>6. CASE ~(Cardinality(f[n]) >= MaxPeers) /\ f[n + 1] = f[n] \cup {addresses[n + 1]}
    <3>1. IsFiniteSet(f[n]) /\ Cardinality(f[n]) \in Nat /\ f[n] \subseteq Node \cup Stranger
      BY <2>3, FS_CardinalityType DEF PeerList
    <3>2. /\ IsFiniteSet(f[n + 1])
          /\ Cardinality(f[n + 1]) <= Cardinality(f[n]) + 1
      <4> DEFINE s == f[n]
                 x == addresses[n + 1]
      <4>1. IsFiniteSet(s) /\ Cardinality(s) \in Nat
        BY <3>1
      <4>2. f[n + 1] = s \cup {x}
        BY <2>6
      <4> HIDE DEF s, x
      <4>3. /\ IsFiniteSet(s \cup {x})
            /\ Cardinality(s \cup {x}) = IF x \in s THEN Cardinality(s) ELSE Cardinality(s) + 1
        BY <4>1, FS_AddElement
      <4>4. Cardinality(s \cup {x}) <= Cardinality(s) + 1
        BY <4>1, <4>3
      <4>5. QED
        BY <4>2, <4>3, <4>4 DEF s
    <3>3. Cardinality(f[n + 1]) <= MaxPeers
      <4>1. Cardinality(f[n + 1]) \in Nat
        BY <3>2, FS_CardinalityType
      <4>2. Cardinality(f[n]) < MaxPeers
        BY <1>1, <2>6, <3>1
      <4>3. QED
        BY <1>1, <3>1, <3>2, <4>1, <4>2
    <3>4. f[n + 1] \subseteq Node \cup Stranger
      BY <2>2, <2>6, <3>1
    <3>5. QED
      BY <3>2, <3>3, <3>4 DEF PeerList
  <2>7. QED
    BY <2>2, <2>4, <2>5, <2>6 DEF MergeStep
<1>6. T = Nat
  <2> HIDE DEF T
  <2>1. T \in SUBSET Nat
    BY DEF T
  <2>2. QED
    BY <1>4, <1>5, <2>1, NatSetInduction
<1>7. QED
  BY <1>1, <1>3, <1>6

\* A node that starts knows a list of peers.
LEMMA InitialPeerList ==
  ASSUME NEW n \in Node
  PROVE  PeerList(InitialPeers(n)) /\ PeerList({})
<1>1. PeerList({})
  BY FS_EmptySet, NetworkAssumption DEF NetworkAssumption, PeerList
<1>2. Configured[n] \in Seq(Node \cup Stranger)
  BY NetworkAssumption DEF NetworkAssumption
<1>3. QED
  BY <1>1, <1>2, MergePeerList DEF InitialPeers

---------------------------------------------------------------------------
(* The inductive invariant                                                 *)

ChainsSound ==
  /\ store = [n \in Node |-> store[n]]
  /\ \A n \in Node : Sound(store[n])
  /\ disk \in [Node -> Seq(Block)]
  /\ \A n \in Node : disk[n] # <<>> => ValidChain(disk[n])

PeersSound ==
  /\ peers = [n \in Node |-> peers[n]]
  /\ \A n \in Node : PeerList(peers[n])

Books ==
  /\ saving \subseteq Node
  /\ up \subseteq Node
  /\ seen \in [Node -> SUBSET Block]
  /\ messages \subseteq Message
  /\ syncing \subseteq Node \X Node
  /\ found \subseteq Block
  /\ cut \subseteq SUBSET Node
  /\ faults \in 0 .. MaxFaults
  /\ sent \in [Node -> [Block -> 0 .. 2]]

IInv == ChainsSound /\ PeersSound /\ Books

\* The inductive invariant says what TypeOK says, and more.
LEMMA IInvTypeOK == IInv => TypeOK /\ PeerListBounded
<1>1. SUFFICES ASSUME IInv
               PROVE  TypeOK /\ PeerListBounded
  OBVIOUS
<1>2. \A n \in Node : store[n].blocks \in Seq(Block) \ {<<>>} /\ store[n].sideChains \subseteq Announced
  BY <1>1 DEF IInv, ChainsSound, Sound
<1>3. peers \in [Node -> SUBSET (Node \cup Stranger)]
  BY <1>1 DEF IInv, PeersSound, PeerList
<1>4. PeerListBounded
  BY <1>1 DEF IInv, PeersSound, PeerList, PeerListBounded
<1>5. QED
  BY <1>1, <1>2, <1>3, <1>4 DEF IInv, ChainsSound, Books, TypeOK

\* It holds in the initial state.
LEMMA InitIInv == Init => IInv
<1>1. SUFFICES ASSUME Init
               PROVE  IInv
  OBVIOUS
<1>2. ChainsSound
  BY <1>1, FreshSound DEF Init, ChainsSound
<1>3. PeersSound
  BY <1>1, InitialPeerList DEF Init, PeersSound
<1>4. Books
  BY <1>1, NetworkAssumption DEF Init, Books, NetworkAssumption
<1>5. QED
  BY <1>2, <1>3, <1>4 DEF IInv

---------------------------------------------------------------------------
(* What a step does to each node                                           *)

\* The node goes on, with a chain that is no worse; it has gossiped nothing,
\* or a block that it has just added.
Runs(n) ==
  /\ n \in up' <=> n \in up
  /\ Progress(store[n], store'[n])
  /\ disk'[n] \in {disk[n], store[n].blocks}
  /\ \/ sent'[n] = sent[n]
     \/ n \in up /\ \E b \in Block : /\ Adds(store[n], store'[n], b)
                                     /\ sent'[n] = Count(n, b)[n]

\* Its process ends.
Stops(n) ==
  /\ n \notin up'
  /\ store'[n] = Fresh
  /\ disk'[n] \in {disk[n], store[n].blocks, <<>>}
  /\ sent'[n] = [b \in Block |-> 0]

\* It starts from disk.
Starts(n) ==
  /\ n \notin up
  /\ store'[n] = LoadFromFile(disk[n])
  /\ disk'[n] = disk[n]
  /\ sent'[n] = sent[n]

Moved ==
  /\ store' = [n \in Node |-> store'[n]]
  /\ disk' = [n \in Node |-> disk'[n]]
  /\ \A n \in Node : Runs(n) \/ Stops(n) \/ Starts(n)

\* A step of something else leaves a node as it is.
LEMMA Rests ==
  ASSUME ChainsSound, NEW n \in Node, store'[n] = store[n], disk'[n] = disk[n],
         n \in up' <=> n \in up, sent'[n] = sent[n]
  PROVE  Runs(n)
<1>1. Progress(store[n], store[n])
  BY SameBlocks DEF ChainsSound, Sound
<1>2. QED
  BY <1>1 DEF Runs

LEMMA AllRest ==
  ASSUME ChainsSound, UNCHANGED <<store, disk, up, sent>>
  PROVE  Moved
BY Rests DEF ChainsSound, Moved

\* New contents that are progress, in one node.
LEMMA InstallMoves ==
  ASSUME ChainsSound, Books, NEW n \in Node, NEW d, Progress(store[n], d), Install(n, d),
         UNCHANGED <<disk, up>>,
         \/ UNCHANGED sent
         \/ n \in up /\ \E b \in Block : Adds(store[n], d, b) /\ sent' = Count(n, b)
  PROVE  Moved
<1>1. store'[n] = d /\ \A m \in Node \ {n} : store'[m] = store[m]
  BY DEF Install, ChainsSound
<1>2. \A m \in Node \ {n} : sent'[m] = sent[m]
  BY DEF Count, Books
<1>3. Runs(n)
  BY <1>1 DEF Runs
<1>4. \A m \in Node \ {n} : Runs(m)
  BY <1>1, <1>2, Rests
<1>5. store' = [m \in Node |-> store'[m]] /\ disk' = [m \in Node |-> disk'[m]]
  BY DEF Install, ChainsSound
<1>6. QED
  BY <1>3, <1>4, <1>5 DEF Moved

LEMMA SaveMoves ==
  ASSUME IInv, NEW n \in Node, Save(n)
  PROVE  Moved
<1>1. \A m \in Node : Progress(store[m], store'[m])
  BY SameBlocks DEF Save, IInv, ChainsSound, Sound
<1>2. \A m \in Node : disk'[m] \in {disk[m], store[m].blocks}
  BY DEF Save, IInv, ChainsSound
<1>3. \A m \in Node : Runs(m)
  BY <1>1, <1>2 DEF Save, Runs, gossip, world
<1>4. store' = [m \in Node |-> store'[m]] /\ disk' = [m \in Node |-> disk'[m]]
  BY DEF Save, IInv, ChainsSound
<1>5. QED
  BY <1>3, <1>4 DEF Moved

LEMMA StopMoves ==
  ASSUME IInv, NEW n \in Node, NEW files, files \subseteq {disk[n], store[n].blocks, <<>>},
         Stop(n, files)
  PROVE  Moved
<1>1. PICK file \in files : disk' = [disk EXCEPT ![n] = file]
  BY DEF Stop
<1>2. Stops(n)
  BY <1>1 DEF Stop, Stops, IInv, ChainsSound, Books
<1>3. ASSUME NEW m \in Node \ {n}
      PROVE  Runs(m)
  <2>1. store'[m] = store[m] /\ disk'[m] = disk[m] /\ (m \in up' <=> m \in up) /\ sent'[m] = sent[m]
    BY <1>1 DEF Stop, IInv, ChainsSound, Books
  <2>2. QED
    BY <2>1, Rests DEF IInv
<1>4. store' = [m \in Node |-> store'[m]] /\ disk' = [m \in Node |-> disk'[m]]
  BY <1>1 DEF Stop, IInv, ChainsSound
<1>5. QED
  BY <1>2, <1>3, <1>4 DEF Moved

LEMMA StartMoves ==
  ASSUME IInv, NEW n \in Node, Start(n)
  PROVE  Moved
<1>1. Starts(n)
  BY DEF Start, Starts, IInv, ChainsSound, gossip
<1>2. ASSUME NEW m \in Node \ {n}
      PROVE  Runs(m)
  <2>1. store'[m] = store[m] /\ disk'[m] = disk[m] /\ (m \in up' <=> m \in up) /\ sent'[m] = sent[m]
    BY DEF Start, IInv, ChainsSound, gossip
  <2>2. QED
    BY <2>1, Rests DEF IInv
<1>3. store' = [m \in Node |-> store'[m]] /\ disk' = [m \in Node |-> disk'[m]]
  BY DEF Start, IInv, ChainsSound
<1>4. QED
  BY <1>1, <1>2, <1>3 DEF Moved

---------------------------------------------------------------------------
(* Peers and books                                                         *)

\* A new list of peers in one node.
LEMMA NewPeerList ==
  ASSUME PeersSound, NEW n \in Node, NEW list, PeerList(list), peers' = [peers EXCEPT ![n] = list]
  PROVE  PeersSound'
<1>1. peers' = [m \in Node |-> IF m = n THEN list ELSE peers[m]]
  BY DEF PeersSound
<1>2. \A m \in Node : PeerList(peers'[m])
  BY <1>1 DEF PeersSound
<1>3. QED
  BY <1>1, <1>2 DEF PeersSound

\* A list of peers stays one when a peer is removed.
LEMMA RemovePeerList ==
  ASSUME NEW list, PeerList(list), NEW p
  PROVE  PeerList(list \ {p})
<1>1. IsFiniteSet(list \ {p}) /\ Cardinality(list \ {p}) <= Cardinality(list)
  BY FS_Subset DEF PeerList
<1>2. Cardinality(list) \in Nat /\ Cardinality(list \ {p}) \in Nat /\ MaxPeers \in Nat
  BY <1>1, FS_CardinalityType, NetworkAssumption DEF PeerList, NetworkAssumption
<1>3. QED
  BY <1>1, <1>2 DEF PeerList

\* What a node gossips are requests.
LEMMA BroadcastMessages ==
  ASSUME PeersSound, NEW n \in Node, NEW b \in Announced, NEW source
  PROVE  Broadcast(n, b, source) \subseteq Message
BY DEF PeersSound, PeerList, Broadcast, Message

LEMMA CountType ==
  ASSUME Books, NEW n \in Node, NEW b \in Block
  PROVE  Count(n, b) \in [Node -> [Block -> 0 .. 2]]
BY DEF Books, Count

\* Blocks that extend a chain are not genesis.
LEMMA ValidAnnounced ==
  ASSUME NEW b \in Block, NEW prev \in Block, Validate(b, prev)
  PROVE  b \in Announced
BY BlockAssumption DEF BlockAssumption, Validate, Announced

---------------------------------------------------------------------------
(* The steps                                                               *)

Kept == Moved /\ PeersSound' /\ Books'

LEMMA MineKeeps ==
  ASSUME IInv, NEW n \in Node, NEW b \in Block, Mine(n, b)
  PROVE  Kept
<1> DEFINE result == AddBlock(store[n], b)
<1>1. Sound(store[n])
  BY DEF IInv, ChainsSound
<1>2. /\ Progress(store[n], result.store)
      /\ Adds(store[n], result.store, b)
      /\ Validate(b, TipOf(store[n].blocks))
  BY <1>1, AddBlockProgress DEF Mine
<1>3. b \in Announced
  BY <1>1, <1>2, TipOfType, ValidAnnounced DEF Sound
<1>4. Install(n, result.store) /\ sent' = Count(n, b) /\ n \in up /\ UNCHANGED <<disk, up, peers>>
  BY DEF Mine, world
<1> HIDE DEF result
<1>5. Moved
  BY <1>2, <1>4, InstallMoves DEF IInv
<1>6. PeersSound'
  BY <1>4 DEF IInv, PeersSound
<1>7. Broadcast(n, b, {}) \subseteq Message /\ Count(n, b) \in [Node -> [Block -> 0 .. 2]]
  BY <1>3, BroadcastMessages, CountType DEF IInv
<1>8. seen' \in [Node -> SUBSET Block]
  BY DEF Mine, MarkBlock, IInv, Books
<1>9. messages' \subseteq Message
  BY <1>7 DEF Mine, IInv, Books
<1>10. Books'
  BY <1>7, <1>8, <1>9 DEF Mine, world, IInv, Books
<1>11. QED
  BY <1>5, <1>6, <1>10 DEF Kept

\* The end of a request, whatever it was.
LEMMA RequestKeeps ==
  ASSUME IInv, NEW m \in messages, AlreadySeen(m) \/ Lose(m)
  PROVE  Kept
<1>1. messages' = messages \ {m} /\ UNCHANGED <<chains, seen, syncing, sent, world, found>>
  BY DEF AlreadySeen, Lose
<1>2. Moved
  BY <1>1, AllRest DEF IInv, chains, world
<1>3. PeersSound'
  BY <1>1 DEF IInv, PeersSound, world
<1>4. Books'
  BY <1>1 DEF IInv, Books, chains, world
<1>5. QED
  BY <1>2, <1>3, <1>4 DEF Kept

LEMMA ReceiveKeeps ==
  ASSUME IInv, NEW m \in messages, HandleReceiveBlock(m)
  PROVE  Kept
<1> DEFINE n == m.to
           b == m.block
<1>1. m.from \in Node /\ n \in Node /\ n \in up /\ b \in Announced /\ b \in Block
  BY DEF IInv, Books, Message, HandleReceiveBlock, Linked, Announced
<1>2. PICK result \in TryAddOrReorg(store[n], b) :
        /\ Install(n, result.store)
        /\ \/ /\ Forwards(result.outcome)
              /\ messages' = (messages \ {m}) \cup Broadcast(n, b, {m.from})
              /\ sent' = Count(n, b)
              /\ saving' = saving \cup {n}
              /\ UNCHANGED syncing
           \/ /\ ~Forwards(result.outcome)
              /\ messages' = messages \ {m}
              /\ syncing' = IF result.outcome = "needsSync"
                            THEN syncing \cup {<<n, m.from>>} ELSE syncing
              /\ UNCHANGED <<sent, saving>>
  BY DEF HandleReceiveBlock
<1>3. UNCHANGED <<disk, world, found>> /\ MarkBlock(n, b)
  BY DEF HandleReceiveBlock
<1> HIDE DEF n, b
<1>4. /\ Progress(store[n], result.store)
      /\ result.outcome = "added" => Adds(store[n], result.store, b)
  BY <1>1, TryAddProgress DEF IInv, ChainsSound
<1>5. Moved
  BY <1>1, <1>2, <1>3, <1>4, InstallMoves DEF IInv, world, Forwards
<1>6. PeersSound'
  BY <1>3 DEF IInv, PeersSound, world
<1>7. Broadcast(n, b, {m.from}) \subseteq Message /\ Count(n, b) \in [Node -> [Block -> 0 .. 2]]
  BY <1>1, BroadcastMessages, CountType DEF IInv
<1>8. seen' \in [Node -> SUBSET Block]
  BY <1>1, <1>3 DEF MarkBlock, IInv, Books
<1>9. /\ messages' \subseteq Message
      /\ sent' \in [Node -> [Block -> 0 .. 2]]
      /\ saving' \subseteq Node
      /\ syncing' \subseteq Node \X Node
  <2>1. /\ messages \subseteq Message /\ saving \subseteq Node /\ syncing \subseteq Node \X Node
        /\ sent \in [Node -> [Block -> 0 .. 2]]
    BY DEF IInv, Books
  <2>2. CASE Forwards(result.outcome)
    BY <1>1, <1>2, <1>7, <2>1, <2>2
  <2>3. CASE ~Forwards(result.outcome)
    BY <1>1, <1>2, <2>1, <2>3
  <2>4. QED
    BY <2>2, <2>3
<1>10. Books'
  BY <1>3, <1>8, <1>9 DEF IInv, Books, world
<1>11. QED
  BY <1>5, <1>6, <1>10 DEF Kept

LEMMA BackgroundSyncKeeps ==
  ASSUME IInv, NEW n \in Node, NEW p \in Node, BackgroundSync(n, p)
  PROVE  Kept
<1>1. Moved
  <2>1. UNCHANGED <<disk, up, sent>>
    BY DEF BackgroundSync, world
  <2>2. CASE UNCHANGED store
    BY <2>1, <2>2, AllRest DEF IInv
  <2>3. CASE Install(n, SyncWithPeer(store[n], store[p].blocks).store)
    <3>1. Progress(store[n], SyncWithPeer(store[n], store[p].blocks).store)
      BY SyncProgress DEF IInv, ChainsSound, Sound
    <3>2. QED
      BY <2>1, <2>3, <3>1, InstallMoves DEF IInv
  <2>4. QED
    BY <2>2, <2>3 DEF BackgroundSync
<1>2. PeersSound'
  BY DEF BackgroundSync, IInv, PeersSound, world
<1>3. Books'
  BY DEF BackgroundSync, IInv, Books, world
<1>4. QED
  BY <1>1, <1>2, <1>3 DEF Kept

LEMMA SyncKeeps ==
  ASSUME IInv, NEW n \in Node, NEW p, Sync(n, p)
  PROVE  Kept
<1>1. p \in Node
  BY DEF Sync, Linked, IInv, Books
<1>2. UNCHANGED <<disk, gossip, world, found>>
  BY DEF Sync
<1>3. Moved
  <2>1. Install(n, SyncWithPeer(store[n], store[p].blocks).store)
    BY DEF Sync
  <2>2. Progress(store[n], SyncWithPeer(store[n], store[p].blocks).store)
    BY <1>1, SyncProgress DEF IInv, ChainsSound, Sound
  <2>3. QED
    BY <1>2, <2>1, <2>2, InstallMoves DEF IInv, gossip, world
<1>4. PeersSound'
  BY <1>2 DEF IInv, PeersSound, world
<1>5. saving' \subseteq Node
  BY DEF Sync, IInv, Books
<1>6. Books'
  BY <1>2, <1>5 DEF IInv, Books, gossip, world
<1>7. QED
  BY <1>3, <1>4, <1>6 DEF Kept

LEMMA SaveKeeps ==
  ASSUME IInv, NEW n \in Node, Save(n)
  PROVE  Kept
<1>1. Moved
  BY SaveMoves
<1>2. PeersSound'
  BY DEF Save, IInv, PeersSound, world
<1>3. Books'
  BY DEF Save, IInv, Books, gossip, world
<1>4. QED
  BY <1>1, <1>2, <1>3 DEF Kept

LEMMA ExpireKeeps ==
  ASSUME IInv, NEW n \in Node, NEW b, Expire(n, b)
  PROVE  Kept
<1>1. Moved
  BY AllRest DEF Expire, IInv, chains, world
<1>2. PeersSound'
  BY DEF Expire, IInv, PeersSound, world
<1>3. Books'
  BY DEF Expire, IInv, Books, chains, world
<1>4. QED
  BY <1>1, <1>2, <1>3 DEF Kept

LEMMA PeersKeep ==
  ASSUME IInv, NEW n \in Node,
         (\E p : HealthCheck(n, p)) \/ (\E offer \in Offers : Exchange(n, offer))
  PROVE  Kept
<1>1. UNCHANGED <<chains, gossip, up, cut, faults, found>>
  BY DEF HealthCheck, Exchange
<1>2. Moved
  BY <1>1, AllRest DEF IInv, chains, gossip
<1>3. PeerList(peers[n])
  BY DEF IInv, PeersSound
<1>4. ASSUME \E p : HealthCheck(n, p)
      PROVE  PeersSound'
  <2>1. PICK p : peers' = [peers EXCEPT ![n] = peers[n] \ {p}]
    BY <1>4 DEF HealthCheck
  <2>2. PeerList(peers[n] \ {p})
    BY <1>3, RemovePeerList
  <2>3. PeersSound
    BY DEF IInv
  <2>4. QED
    BY <2>1, <2>2, <2>3, NewPeerList
<1>5. ASSUME \E offer \in Offers : Exchange(n, offer)
      PROVE  PeersSound'
  <2>1. PICK offer \in Offers : peers' = [peers EXCEPT ![n] = ExchangePeers(n, offer)]
    BY <1>5 DEF Exchange
  <2>2. PeerList(ExchangePeers(n, offer))
    <3>1. offer \in Seq(Node \cup Stranger)
      BY NetworkAssumption DEF NetworkAssumption
    <3>2. QED
      BY <1>3, <3>1, MergePeerList DEF ExchangePeers
  <2>3. PeersSound
    BY DEF IInv
  <2>4. QED
    BY <2>1, <2>2, <2>3, NewPeerList
<1>6. PeersSound'
  BY <1>4, <1>5
<1>7. Books'
  BY <1>1 DEF IInv, Books, chains, gossip
<1>8. QED
  BY <1>2, <1>6, <1>7 DEF Kept

LEMMA StopKeeps ==
  ASSUME IInv, NEW n \in Node, Crash(n) \/ Shutdown(n)
  PROVE  Kept
<1>1. PICK files : Stop(n, files) /\ files \subseteq {disk[n], store[n].blocks, <<>>}
  BY DEF Crash, Shutdown, Torn
<1>2. Moved
  BY <1>1, StopMoves
<1>3. PeersSound'
  BY <1>1, NewPeerList, InitialPeerList DEF Stop, IInv
<1>4. faults' \in 0 .. MaxFaults
  BY <1>1, NetworkAssumption DEF Stop, Fault, IInv, Books, NetworkAssumption
<1>5. sent' \in [Node -> [Block -> 0 .. 2]] /\ seen' \in [Node -> SUBSET Block]
  BY <1>1 DEF Stop, IInv, Books
<1>6. Books'
  BY <1>1, <1>4, <1>5 DEF Stop, IInv, Books
<1>7. QED
  BY <1>2, <1>3, <1>6 DEF Kept

LEMMA StartKeeps ==
  ASSUME IInv, NEW n \in Node, Start(n)
  PROVE  Kept
<1>1. Moved
  BY StartMoves
<1>2. PeersSound'
  BY InitialPeerList, NewPeerList DEF Start, IInv
<1>3. Books'
  BY DEF Start, IInv, Books, gossip
<1>4. QED
  BY <1>1, <1>2, <1>3 DEF Kept

LEMMA LinksKeep ==
  ASSUME IInv, (\E n \in Node, p \in Node : Cut(n, p)) \/ (\E link : Heal(link))
  PROVE  Kept
<1>1. UNCHANGED <<chains, gossip, up, peers, found>>
  BY DEF Cut, Heal
<1>2. Moved
  BY <1>1, AllRest DEF IInv, chains, gossip
<1>3. PeersSound'
  BY <1>1 DEF IInv, PeersSound
<1>4. faults' \in 0 .. MaxFaults /\ cut' \subseteq SUBSET Node
  <2>1. MaxFaults \in Nat /\ faults \in 0 .. MaxFaults /\ cut \subseteq SUBSET Node
    BY NetworkAssumption DEF IInv, Books, NetworkAssumption
  <2>2. CASE \E n \in Node, p \in Node : Cut(n, p)
    BY <2>1, <2>2 DEF Cut, Fault
  <2>3. CASE \E link : Heal(link)
    BY <2>1, <2>3 DEF Heal
  <2>4. QED
    BY <2>2, <2>3
<1>5. Books'
  BY <1>1, <1>4 DEF IInv, Books, chains, gossip
<1>6. QED
  BY <1>2, <1>3, <1>5 DEF Kept

\* Every step keeps what the books say and moves the nodes as described.
LEMMA StepKeeps == IInv /\ [Next]_vars => Kept
<1>1. SUFFICES ASSUME IInv, [Next]_vars
               PROVE  Kept
  OBVIOUS
<1>2. CASE UNCHANGED vars
  <2>1. Moved
    BY <1>1, <1>2, AllRest DEF IInv, vars, chains, gossip, world
  <2>2. PeersSound' /\ Books'
    BY <1>1, <1>2 DEF IInv, PeersSound, Books, vars, chains, gossip, world
  <2>3. QED
    BY <2>1, <2>2 DEF Kept
<1>3. ASSUME NEW n \in Node, NodeStep(n)
      PROVE  Kept
  <2>1. CASE \E b \in Block : Mine(n, b) \/ Expire(n, b)
    BY <1>1, <2>1, MineKeeps, ExpireKeeps
  <2>2. CASE \E p \in peers[n] : Sync(n, p) \/ HealthCheck(n, p)
    BY <1>1, <2>2, SyncKeeps, PeersKeep
  <2>3. CASE \E offer \in Offers : Exchange(n, offer)
    BY <1>1, <2>3, PeersKeep
  <2>4. CASE \E p \in Node : Cut(n, p)
    BY <1>1, <2>4, LinksKeep
  <2>5. CASE Crash(n) \/ Shutdown(n) \/ Start(n)
    BY <1>1, <2>5, StopKeeps, StartKeeps
  <2>6. QED
    BY <1>3, <2>1, <2>2, <2>3, <2>4, <2>5 DEF NodeStep
<1>4. ASSUME NEW m \in messages, Deliver(m) \/ Lose(m)
      PROVE  Kept
  BY <1>1, <1>4, RequestKeeps, ReceiveKeeps DEF Deliver
<1>5. ASSUME NEW s \in syncing, BackgroundSync(s[1], s[2])
      PROVE  Kept
  <2>1. s[1] \in Node /\ s[2] \in Node
    BY <1>1 DEF IInv, Books
  <2>2. QED
    BY <1>1, <1>5, <2>1, BackgroundSyncKeeps
<1>6. ASSUME NEW n \in saving, Save(n)
      PROVE  Kept
  BY <1>1, <1>6, SaveKeeps DEF IInv, Books
<1>7. ASSUME NEW link \in cut, Heal(link)
      PROVE  Kept
  BY <1>1, <1>7, LinksKeep
<1>8. QED
  BY <1>1, <1>2, <1>3, <1>4, <1>5, <1>6, <1>7 DEF Next

---------------------------------------------------------------------------
(* What the moves preserve                                                 *)

\* The chains that nodes run with and keep on disk are valid.
LEMMA MovedSound == ChainsSound /\ Moved => ChainsSound'
<1>1. SUFFICES ASSUME ChainsSound, Moved
               PROVE  ChainsSound'
  OBVIOUS
<1>2. ASSUME NEW n \in Node
      PROVE  /\ Sound(store'[n])
             /\ disk'[n] \in Seq(Block)
             /\ disk'[n] # <<>> => ValidChain(disk'[n])
  <2>1. /\ Sound(store[n]) /\ disk[n] \in Seq(Block)
        /\ disk[n] # <<>> => ValidChain(disk[n])
        /\ store[n].blocks \in Seq(Block) /\ ValidChain(store[n].blocks)
        /\ <<>> \in Seq(Block)
    BY <1>1 DEF ChainsSound, Sound
  <2>2. CASE Runs(n)
    BY <2>1, <2>2 DEF Runs, Progress
  <2>3. CASE Stops(n)
    BY <2>1, <2>3, FreshSound DEF Stops
  <2>4. CASE Starts(n)
    BY <2>1, <2>4, LoadSound DEF Starts
  <2>5. QED
    BY <1>1, <2>2, <2>3, <2>4 DEF Moved
<1>3. disk' \in [Node -> Seq(Block)]
  BY <1>1, <1>2 DEF Moved
<1>4. QED
  BY <1>1, <1>2, <1>3 DEF Moved, ChainsSound

\* The invariant is inductive.
LEMMA NextIInv == IInv /\ [Next]_vars => IInv'
BY StepKeeps, MovedSound DEF Kept, IInv

\* If no branch overspends, balances follow chains through every move.
LEMMA MovedConsistent ==
  ASSUME NoBranchOverspends, ChainsSound, Moved, AllConsistent
  PROVE  AllConsistent'
<1>1. ASSUME NEW n \in Node
      PROVE  Consistent(store'[n])
  <2>1. Consistent(store[n]) /\ disk[n] \in Seq(Block)
    BY DEF AllConsistent, ChainsSound
  <2>2. CASE Runs(n)
    BY <2>1, <2>2 DEF Runs, Progress
  <2>3. CASE Stops(n)
    BY <2>3, FreshSound DEF Stops
  <2>4. CASE Starts(n)
    BY <2>1, <2>4, LoadSound DEF Starts
  <2>5. QED
    BY <2>2, <2>3, <2>4 DEF Moved
<1>2. QED
  BY <1>1 DEF AllConsistent, Consistent

\* If no work wraps, a move leaves no node behind its file.
LEMMA MovedAhead ==
  ASSUME NoWorkWraps, ChainsSound, Moved, up' \subseteq Node, NeverBehindDisk
  PROVE  NeverBehindDisk'
<1>1. ASSUME NEW n \in Node, n \in up', disk'[n] # <<>>
      PROVE  calculateWork(store'[n].blocks) >= calculateWork(disk'[n])
  <2>1. /\ store[n].blocks \in Seq(Block) /\ disk[n] \in Seq(Block)
        /\ disk[n] # <<>> => ValidChain(disk[n])
        /\ calculateWork(store[n].blocks) \in Nat /\ calculateWork(disk[n]) \in Nat
    BY WorkType DEF ChainsSound, Sound
  <2>2. CASE Runs(n)
    <3>1. /\ calculateWork(store'[n].blocks) \in Nat
          /\ calculateWork(store'[n].blocks) >= calculateWork(store[n].blocks)
      BY <2>2, WorkType DEF Runs, Progress, Sound
    <3>2. CASE disk'[n] = store[n].blocks
      BY <3>1, <3>2
    <3>3. CASE disk'[n] = disk[n]
      <4>1. calculateWork(store[n].blocks) >= calculateWork(disk[n])
        BY <1>1, <2>2, <3>3 DEF Runs, NeverBehindDisk
      <4>2. QED
        BY <2>1, <3>1, <3>3, <4>1
    <3>4. QED
      BY <2>2, <3>2, <3>3 DEF Runs
  <2>3. CASE Stops(n)
    BY <1>1, <2>3 DEF Stops
  <2>4. CASE Starts(n)
    <3>1. store'[n].blocks = disk'[n]
      BY <1>1, <2>1, <2>4, LoadSound DEF Starts
    <3>2. QED
      BY <2>1, <2>4, <3>1 DEF Starts
  <2>5. QED
    BY <2>2, <2>3, <2>4 DEF Moved
<1>2. QED
  BY <1>1 DEF NeverBehindDisk

\* What a node has gossiped since it started it gossiped once, and has had no
\* less work than that block's branch ever since.
SentOnce ==
  \A n \in Node, b \in Block :
     /\ sent[n][b] <= 1
     /\ sent[n][b] = 1 => calculateWork(store[n].blocks) >= calculateWork(Branch(b))
     /\ n \notin up => sent[n][b] = 0

\* A block that a node adds has, with its branch, more work than the node had.
LEMMA AddsBranch ==
  ASSUME NoWorkWraps, NEW c, Sound(c), NEW d, Sound(d), NEW b \in Block, Adds(c, d, b)
  PROVE  /\ calculateWork(Branch(b)) > calculateWork(c.blocks)
         /\ calculateWork(d.blocks) = calculateWork(Branch(b))
<1>1. d.blocks = Branch(b)
  BY ChainIsBranch DEF Sound, Adds, TipOf
<1>2. QED
  BY <1>1 DEF Adds

LEMMA MovedOnce ==
  ASSUME NoWorkWraps, ChainsSound, Books, Moved, SentOnce
  PROVE  SentOnce'
<1>1. ASSUME NEW n \in Node, NEW b \in Block
      PROVE  /\ sent'[n][b] <= 1
             /\ sent'[n][b] = 1 => calculateWork(store'[n].blocks) >= calculateWork(Branch(b))
             /\ n \notin up' => sent'[n][b] = 0
  <2>1. /\ Sound(store[n])
        /\ sent[n][b] \in 0 .. 2
        /\ sent[n][b] <= 1
        /\ sent[n][b] = 1 => calculateWork(store[n].blocks) >= calculateWork(Branch(b))
        /\ n \notin up => sent[n][b] = 0
    BY DEF ChainsSound, Books, SentOnce
  <2>2. calculateWork(store[n].blocks) \in Nat /\ calculateWork(Branch(b)) \in Nat
    <3>1. Branch(b) \in Seq(Block)
      BY SidePathType DEF Branch
    <3>2. QED
      BY <2>1, <3>1, WorkType DEF Sound
  <2>3. CASE Runs(n)
    <3>1. /\ Sound(store'[n])
          /\ calculateWork(store'[n].blocks) >= calculateWork(store[n].blocks)
      BY <2>3 DEF Runs, Progress
    <3>2. calculateWork(store'[n].blocks) \in Nat
      BY <3>1, WorkType DEF Sound
    <3>3. CASE sent'[n][b] = sent[n][b]
      BY <2>1, <2>2, <2>3, <3>1, <3>2, <3>3 DEF Runs
    <3>4. CASE sent'[n][b] # sent[n][b]
      <4>1. PICK a \in Block : /\ n \in up /\ Adds(store[n], store'[n], a)
                               /\ sent'[n] = Count(n, a)[n]
        BY <2>3, <3>4 DEF Runs
      <4>2. a = b /\ sent'[n][b] = IF sent[n][b] = 0 THEN 1 ELSE 2
        BY <3>4, <4>1 DEF Books, Count
      <4>3. /\ calculateWork(Branch(b)) > calculateWork(store[n].blocks)
            /\ calculateWork(store'[n].blocks) = calculateWork(Branch(b))
        BY <2>1, <3>1, <4>1, <4>2, AddsBranch
      <4>4. sent[n][b] = 0
        BY <2>1, <2>2, <4>3
      <4>5. n \in up'
        BY <2>3, <4>1 DEF Runs
      <4>6. QED
        BY <2>2, <4>2, <4>3, <4>4, <4>5
    <3>5. QED
      BY <3>3, <3>4
  <2>4. CASE Stops(n)
    BY <2>4 DEF Stops
  <2>5. CASE Starts(n)
    BY <2>1, <2>5 DEF Starts
  <2>6. QED
    BY <2>3, <2>4, <2>5 DEF Moved
<1>2. QED
  BY <1>1 DEF SentOnce

---------------------------------------------------------------------------
(* The theorems                                                            *)

\* The inductive invariant holds in every behaviour.
LEMMA Invariance == Spec => []IInv
<1>1. Init => IInv
  BY InitIInv
<1>2. IInv /\ [Next]_vars => IInv'
  BY NextIInv
<1>3. QED
  BY <1>1, <1>2, PTL DEF Spec

\* Every variable of every node keeps its type.
THEOREM TypeCorrect == Spec => []TypeOK
<1>1. IInv => TypeOK
  BY IInvTypeOK
<1>2. QED
  BY <1>1, Invariance, PTL

\* No list of peers outgrows MaxPeers, whatever is configured and posted to
\* /peers.
THEOREM PeersBounded == Spec => []PeerListBounded
<1>1. IInv => PeerListBounded
  BY IInvTypeOK
<1>2. QED
  BY <1>1, Invariance, PTL

\* Where no block is built on payments that its branch does not cover, the
\* chain of every node is valid and its balances are the replay's, through
\* gossip, syncs, cut links, crashes and starts from disk.
THEOREM ChainsConsistent ==
  ASSUME NoBranchOverspends
  PROVE  Spec => []AllConsistent
<1>1. Init => AllConsistent
  BY FreshSound DEF Init, AllConsistent
<1>2. IInv /\ AllConsistent /\ [Next]_vars => AllConsistent'
  BY StepKeeps, MovedConsistent DEF Kept, IInv
<1>3. QED
  BY <1>1, <1>2, Invariance, PTL DEF Spec

\* Where no work wraps around, a node that runs is never behind its own file.
THEOREM NodesKeepTheirWork ==
  ASSUME NoWorkWraps
  PROVE  Spec => []NeverBehindDisk
<1>1. Init => NeverBehindDisk
  BY DEF Init, NeverBehindDisk
<1>2. IInv /\ NeverBehindDisk /\ [Next]_vars => NeverBehindDisk'
  BY StepKeeps, MovedAhead DEF Kept, IInv, Books
<1>3. QED
  BY <1>1, <1>2, Invariance, PTL DEF Spec

\* Where no work wraps around, no node gossips a block twice between two
\* starts, although entries of its seen tracker expire.
THEOREM BlocksForwardedOnce ==
  ASSUME NoWorkWraps
  PROVE  Spec => []ForwardedOnce
<1>1. Init => SentOnce
  BY DEF Init, SentOnce
<1>2. IInv /\ SentOnce /\ [Next]_vars => SentOnce'
  BY StepKeeps, MovedOnce DEF Kept, IInv
<1>3. SentOnce => ForwardedOnce
  BY DEF SentOnce, ForwardedOnce
<1>4. QED
  BY <1>1, <1>2, <1>3, Invariance, PTL DEF Spec
============================================================================
