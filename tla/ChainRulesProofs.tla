-------------------------- MODULE ChainRulesProofs --------------------------
(***************************************************************************)
(* Lemmas on chains and stores, for any tree of blocks: what appending and *)
(* reorganising preserve, how the ledger of a chain grows, and that the    *)
(* walk back through the store ends.  It ends because a hash commits to    *)
(* the hash of the parent, so parents have a smaller Depth; the lemmas     *)
(* about it are proved by induction on Depth.                              *)
(***************************************************************************)
EXTENDS ChainRules, LedgerRulesProofs, FiniteSetTheorems, TLAPS

\* One line of the recursive definition in SidePath.
PathStep(store, f, c) == IF PrevHash[c] \in store THEN Append(f[PrevHash[c]], c) ELSE <<c>>
PathFcn(store) == CHOOSE f : f = [c \in Block |-> PathStep(store, f, c)]

\* SidePath is a value of the path function.
LEMMA SidePathFcn ==
  ASSUME NEW store \in SUBSET Block, NEW b \in Block
  PROVE  SidePath(store, b) = PathFcn(store)[b]
BY DEF SidePath, PathFcn, PathStep

\* The blocks at a depth below n.
Younger(n) == {c \in Block : Depth[c] < n}

PathsBelow(store, f, n) ==
  f = [c \in Younger(n) |-> PathStep(store, f, c)]

\* Parents are younger than any bound their children are below.
LEMMA ParentBelow ==
  ASSUME NEW n \in Nat, NEW c \in Younger(n), PrevHash[c] \in Block
  PROVE  PrevHash[c] \in Younger(n)
BY BlockAssumption DEF BlockAssumption, Younger

\* Path functions defined up to different depths agree where both are defined.
LEMMA PathsAgree ==
  ASSUME NEW store \in SUBSET Block, NEW n \in Nat, NEW m \in Nat, n <= m, NEW f, NEW g,
         PathsBelow(store, f, n), PathsBelow(store, g, m)
  PROVE  \A c \in Younger(n) : f[c] = g[c]
<1> DEFINE T == {k \in Nat : \A c \in Younger(n) : Depth[c] < k => f[c] = g[c]}
<1>1. 0 \in T
  BY BlockAssumption DEF BlockAssumption, Younger
<1>2. ASSUME NEW k \in T PROVE k + 1 \in T
  <2>1. SUFFICES ASSUME NEW c \in Younger(n), Depth[c] < k + 1
                 PROVE  f[c] = g[c]
    OBVIOUS
  <2>2. c \in Younger(m) /\ c \in Block /\ Depth[c] \in Nat /\ k \in Nat
    BY BlockAssumption DEF BlockAssumption, Younger
  <2>3. f[c] = PathStep(store, f, c) /\ g[c] = PathStep(store, g, c)
    BY <2>2 DEF PathsBelow
  <2>4. CASE PrevHash[c] \in store
    <3>1. PrevHash[c] \in Younger(n) /\ Depth[PrevHash[c]] < k
      BY <2>1, <2>2, <2>4, ParentBelow, BlockAssumption DEF BlockAssumption, Younger
    <3>2. f[PrevHash[c]] = g[PrevHash[c]]
      BY <3>1
    <3>3. QED
      BY <2>3, <3>2 DEF PathStep
  <2>5. CASE PrevHash[c] \notin store
    BY <2>3, <2>5 DEF PathStep
  <2>6. QED
    BY <2>4, <2>5
<1>3. T = Nat
  <2> HIDE DEF T
  <2>1. T \in SUBSET Nat
    BY DEF T
  <2>2. QED
    BY <1>1, <1>2, <2>1, NatSetInduction
<1>4. QED
  <2>1. SUFFICES ASSUME NEW c \in Younger(n) PROVE f[c] = g[c]
    OBVIOUS
  <2>2. n \in T
    BY <1>3
  <2>3. QED
    BY <2>2 DEF Younger

\* A path function exists up to every depth.
LEMMA PathsExist ==
  ASSUME NEW store \in SUBSET Block
  PROVE  \A n \in Nat : \E f : PathsBelow(store, f, n)
<1> DEFINE T == {n \in Nat : \E f : PathsBelow(store, f, n)}
<1>1. 0 \in T
  <2>1. Younger(0) = {}
    BY BlockAssumption DEF BlockAssumption, Younger
  <2>2. PathsBelow(store, [c \in {} |-> {}], 0)
    BY <2>1 DEF PathsBelow
  <2>3. QED
    BY <2>2
<1>2. ASSUME NEW n \in T PROVE n + 1 \in T
  <2>1. PICK f : PathsBelow(store, f, n)
    OBVIOUS
  <2> DEFINE g == [c \in Younger(n + 1) |-> PathStep(store, f, c)]
  <2>2. \A c \in Younger(n) : g[c] = f[c]
    <3>1. \A c \in Younger(n) : c \in Younger(n + 1)
      BY BlockAssumption DEF Younger, BlockAssumption
    <3>2. QED
      BY <2>1, <3>1 DEF PathsBelow
  <2>3. ASSUME NEW c \in Younger(n + 1), PrevHash[c] \in store
        PROVE  PrevHash[c] \in Younger(n)
    BY <2>3, BlockAssumption DEF BlockAssumption, Younger
  <2>4. ASSUME NEW c \in Younger(n + 1)
        PROVE  PathStep(store, f, c) = PathStep(store, g, c)
    <3> HIDE DEF g
    <3>1. QED
      BY <2>2, <2>3 DEF PathStep
  <2>5. g = [c \in Younger(n + 1) |-> PathStep(store, g, c)]
    BY <2>4
  <2>6. QED
    <3> HIDE DEF g
    <3>1. PathsBelow(store, g, n + 1)
      BY <2>5 DEF PathsBelow
    <3>2. QED
      BY <3>1
<1>3. T = Nat
  <2> HIDE DEF T
  <2>1. T \in SUBSET Nat
    BY DEF T
  <2>2. QED
    BY <1>1, <1>2, <2>1, NatSetInduction
<1>4. QED
  BY <1>3

\* The path function satisfies its equation on all blocks.
LEMMA PathFcnDef ==
  ASSUME NEW store \in SUBSET Block
  PROVE  PathFcn(store) = [c \in Block |-> PathStep(store, PathFcn(store), c)]
<1> DEFINE below(n) == CHOOSE f : PathsBelow(store, f, n)
           F == [c \in Block |-> below(Depth[c] + 1)[c]]
<1>1. \A n \in Nat : PathsBelow(store, below(n), n)
  BY PathsExist
<1>2. ASSUME NEW c \in Block
      PROVE  F[c] = PathStep(store, F, c)
  <2>1. Depth[c] \in Nat /\ c \in Younger(Depth[c] + 1)
    BY BlockAssumption DEF BlockAssumption, Younger
  <2> DEFINE f == below(Depth[c] + 1)
  <2>2. PathsBelow(store, f, Depth[c] + 1)
    BY <1>1, <2>1
  <2>3. F[c] = PathStep(store, f, c)
    <3>1. F[c] = f[c]
      OBVIOUS
    <3> HIDE DEF f, F
    <3>2. QED
      BY <2>1, <2>2, <3>1 DEF PathsBelow
  <2>4. CASE PrevHash[c] \in store
    <3> DEFINE p == PrevHash[c]
               h == below(Depth[p] + 1)
    <3>1. p \in Block /\ Depth[p] \in Nat /\ Depth[p] < Depth[c] /\ p \in Younger(Depth[p] + 1)
      BY <2>4, BlockAssumption DEF BlockAssumption, Younger
    <3>2. F[p] = h[p] /\ PathsBelow(store, h, Depth[p] + 1)
      BY <1>1, <3>1
    <3>3. Depth[p] + 1 <= Depth[c] + 1
      BY <2>1, <3>1
    <3>4. h[p] = f[p]
      <4>1. PathsBelow(store, h, Depth[p] + 1)
        BY <3>2
      <4> HIDE DEF h, f, F
      <4>2. \A q \in Younger(Depth[p] + 1) : h[q] = f[q]
        <5>1. Depth[p] + 1 \in Nat /\ Depth[c] + 1 \in Nat
          BY <2>1, <3>1
        <5>2. QED
          BY <2>2, <4>1, <3>3, <5>1, PathsAgree
      <4>3. QED
        BY <3>1, <4>2
    <3>5. F[p] = f[p]
      BY <3>2, <3>4
    <3> HIDE DEF F, f, h
    <3>6. QED
      BY <2>3, <2>4, <3>5 DEF PathStep
  <2>5. CASE PrevHash[c] \notin store
    <3> HIDE DEF F, f
    <3>1. QED
      BY <2>3, <2>5 DEF PathStep
  <2>6. QED
    BY <2>4, <2>5
<1>3. F = [c \in Block |-> PathStep(store, F, c)]
  BY <1>2
<1>4. QED
  <2> HIDE DEF F
  <2>1. QED
    BY <1>3 DEF PathFcn

\* The walk in TryAddOrReorg: to the parent if the store has it, else stop.
LEMMA SidePathUnfolds ==
  ASSUME NEW store \in SUBSET Block, NEW b \in Block
  PROVE  SidePath(store, b) = IF PrevHash[b] \in store
                              THEN Append(SidePath(store, PrevHash[b]), b)
                              ELSE <<b>>
BY SidePathFcn, PathFcnDef DEF PathStep

\* The walk yields a nonempty sequence of blocks.
LEMMA SidePathType ==
  ASSUME NEW store \in SUBSET Block, NEW b \in Block
  PROVE  SidePath(store, b) \in Seq(Block) \ {<<>>}
<1> DEFINE T == {n \in Nat : \A c \in Younger(n) : SidePath(store, c) \in Seq(Block) \ {<<>>}}
<1>1. 0 \in T
  BY BlockAssumption DEF BlockAssumption, Younger
<1>2. ASSUME NEW n \in T PROVE n + 1 \in T
  <2>1. SUFFICES ASSUME NEW c \in Younger(n + 1)
                 PROVE  SidePath(store, c) \in Seq(Block) \ {<<>>}
    OBVIOUS
  <2>2. c \in Block
    BY DEF Younger
  <2>3. CASE PrevHash[c] \in store
    <3>1. PrevHash[c] \in Younger(n)
      BY <2>2, <2>3, BlockAssumption DEF BlockAssumption, Younger
    <3>2. SidePath(store, PrevHash[c]) \in Seq(Block)
      BY <3>1
    <3>3. Append(SidePath(store, PrevHash[c]), c) \in Seq(Block) \ {<<>>}
      BY <2>2, <3>2
    <3>4. QED
      BY <2>2, <2>3, <3>3, SidePathUnfolds
  <2>4. CASE PrevHash[c] \notin store
    <3>1. SidePath(store, c) = <<c>>
      BY <2>2, <2>4, SidePathUnfolds
    <3>2. QED
      BY <2>2, <3>1
  <2>5. QED
    BY <2>3, <2>4
<1>3. T = Nat
  <2> HIDE DEF T
  <2>1. T \in SUBSET Nat
    BY DEF T
  <2>2. QED
    BY <1>1, <1>2, <2>1, NatSetInduction
<1>4. Depth[b] + 1 \in T /\ b \in Younger(Depth[b] + 1)
  <2>1. Depth[b] \in Nat
    BY BlockAssumption DEF BlockAssumption
  <2> HIDE DEF T
  <2>2. QED
    BY <1>3, <2>1 DEF Younger
<1>5. QED
  BY <1>4

---------------------------------------------------------------------------
\* The tip of a chain is a block.
LEMMA TipOfType ==
  ASSUME NEW chain \in Seq(Block) \ {<<>>}
  PROVE  TipOf(chain) \in Block /\ Len(chain) \in Nat \ {0}
BY DEF TipOf

\* Validation against the tip is enough for a block that is appended.
LEMMA ExtendValid ==
  ASSUME NEW chain \in Seq(Block) \ {<<>>}, ValidChain(chain),
         NEW b \in Block, Validate(b, TipOf(chain))
  PROVE  ValidChain(Append(chain, b))
<1> DEFINE new == Append(chain, b)
<1>1. Len(chain) \in Nat \ {0} /\ Len(new) = Len(chain) + 1 /\ new[Len(chain) + 1] = b
      /\ \A i \in 1 .. Len(chain) : new[i] = chain[i]
  OBVIOUS
<1>2. new[1] = Genesis
  BY <1>1 DEF ValidChain
<1>3. ASSUME NEW i \in 2 .. Len(new)
      PROVE  Validate(new[i], new[i-1])
  <2> HIDE DEF new
  <2>1. CASE i <= Len(chain)
    <3>1. i \in 1 .. Len(chain) /\ i - 1 \in 1 .. Len(chain) /\ i \in 2 .. Len(chain)
      BY <1>1, <2>1
    <3>2. QED
      BY <1>1, <3>1 DEF ValidChain
  <2>2. CASE i = Len(chain) + 1
    <3>1. new[i] = b /\ new[i-1] = TipOf(chain)
      BY <1>1, <2>2 DEF TipOf
    <3>2. QED
      BY <3>1
  <2>3. QED
    BY <1>1, <2>1, <2>2
<1>4. QED
  BY <1>2, <1>3 DEF ValidChain

\* ReorganiseTo need not validate the prefix that both chains share.
LEMMA AcceptableValid ==
  ASSUME NEW old \in Seq(Block) \ {<<>>}, ValidChain(old),
         NEW new \in Seq(Block) \ {<<>>}, Acceptable(old, new)
  PROVE  ValidChain(new)
<1>1. new[1] = Genesis
  BY DEF Acceptable, ValidChain
<1>2. ASSUME NEW i \in 2 .. Len(new)
      PROVE  Validate(new[i], new[i-1])
  <2>1. CASE i \notin CommonPrefix(old, new)
    BY <2>1 DEF Acceptable
  <2>2. CASE i \in CommonPrefix(old, new)
    <3>1. Len(new) \in Nat /\ Len(old) \in Nat
      OBVIOUS
    <3>2. i \in 2 .. Len(old)
      BY <2>2, <3>1 DEF CommonPrefix
    <3>3. i \in 1 .. i /\ i - 1 \in 1 .. i
      BY <3>1
    <3>4. old[i] = new[i] /\ old[i-1] = new[i-1]
      BY <2>2, <3>3 DEF CommonPrefix
    <3>5. QED
      BY <3>2, <3>4 DEF ValidChain
  <2>3. QED
    BY <2>1, <2>2
<1>3. QED
  BY <1>1, <1>2 DEF ValidChain

\* The chain put together in TryAddOrReorg is a nonempty sequence of blocks.
LEMMA HypotheticalType ==
  ASSUME NEW chain \in Seq(Block) \ {<<>>}, NEW path \in Seq(Block) \ {<<>>},
         Connects(chain, path)
  PROVE  Hypothetical(chain, path) \in Seq(Block) \ {<<>>}
<1>1. path[1] \in Block /\ Len(path) \in Nat \ {0} /\ Len(chain) \in Nat
  OBVIOUS
<1>2. Index[path[1]] \in 0 .. Len(chain)
  <2>1. Index[path[1]] \in Nat
    BY <1>1, BlockAssumption DEF BlockAssumption
  <2>2. QED
    BY <1>1, <2>1 DEF Connects
<1>3. SubSeq(chain, 1, Index[path[1]]) \in Seq(Block)
  BY <1>2
<1>4. QED
  BY <1>1, <1>3 DEF Hypothetical

\* What is kept aside are announced blocks.
LEMMA StoredType ==
  ASSUME NEW side \in SUBSET Announced, NEW b \in Announced
  PROVE  \A store \in Stored(side, b) : store \subseteq Announced
BY DEF Stored

---------------------------------------------------------------------------
WorkStep(chain, f, n) ==
  IF n = 0 THEN 0 ELSE Uint64(f[n-1] + Uint64(2 ^ Difficulty[chain[n]]))

SumsWork(chain, f, n) == f = [i \in 0 .. n |-> WorkStep(chain, f, i)]

\* The sum in calculateWork exists up to every block.
LEMMA WorkExists ==
  ASSUME NEW chain
  PROVE  \A n \in Nat : \E f : SumsWork(chain, f, n)
<1> DEFINE T == {n \in Nat : \E f : SumsWork(chain, f, n)}
<1>1. 0 \in T
  <2>1. SumsWork(chain, [i \in 0 .. 0 |-> 0], 0)
    BY DEF SumsWork, WorkStep
  <2>2. QED
    BY <2>1
<1>2. ASSUME NEW n \in T PROVE n + 1 \in T
  <2>1. PICK f : SumsWork(chain, f, n)
    OBVIOUS
  <2> DEFINE g == [i \in 0 .. n + 1 |-> WorkStep(chain, f, i)]
  <2>2. n \in Nat
    OBVIOUS
  <2>3. \A i \in 0 .. n : g[i] = f[i]
    BY <2>1, <2>2 DEF SumsWork
  <2>4. ASSUME NEW i \in 0 .. n + 1
        PROVE  WorkStep(chain, f, i) = WorkStep(chain, g, i)
    <3>1. i # 0 => i - 1 \in 0 .. n
      BY <2>2
    <3> HIDE DEF g
    <3>2. QED
      BY <2>3, <3>1 DEF WorkStep
  <2>5. g = [i \in 0 .. n + 1 |-> WorkStep(chain, g, i)]
    BY <2>4
  <2>6. SumsWork(chain, g, n + 1)
    <3> HIDE DEF g
    <3>1. QED
      BY <2>5 DEF SumsWork
  <2>7. QED
    BY <2>6
<1>3. T = Nat
  <2> HIDE DEF T
  <2>1. T \in SUBSET Nat
    BY DEF T
  <2>2. QED
    BY <1>1, <1>2, <2>1, NatSetInduction
<1>4. QED
  BY <1>3

\* The work of a chain is a number.
LEMMA WorkType ==
  ASSUME NEW chain \in Seq(Block)
  PROVE  calculateWork(chain) \in Nat
<1> DEFINE f == CHOOSE f : SumsWork(chain, f, Len(chain))
           T == {n \in Nat : n <= Len(chain) => f[n] \in Nat}
<1>1. Len(chain) \in Nat /\ Modulus \in Nat \ {0}
  BY LedgerAssumption DEF LedgerAssumption
<1>2. SumsWork(chain, f, Len(chain))
  BY <1>1, WorkExists
<1>3. calculateWork(chain) = f[Len(chain)]
  BY DEF calculateWork, SumsWork, WorkStep
<1> HIDE DEF f
<1>4. 0 \in T
  <2>1. f[0] = 0
    BY <1>1, <1>2 DEF SumsWork, WorkStep
  <2>2. QED
    BY <2>1
<1>5. ASSUME NEW n \in T PROVE n + 1 \in T
  <2>1. SUFFICES ASSUME n \in Nat, n + 1 <= Len(chain)
                 PROVE  f[n + 1] \in Nat
    OBVIOUS
  <2>2. f[n] \in Nat /\ n + 1 \in 0 .. Len(chain) /\ (n + 1) - 1 = n /\ n + 1 # 0
    BY <1>1, <2>1
  <2>3. f[n + 1] = Uint64(f[n] + Uint64(2 ^ Difficulty[chain[n + 1]]))
    BY <1>2, <2>2 DEF SumsWork, WorkStep
  <2>4. Difficulty[chain[n + 1]] \in Nat
    <3>1. chain[n + 1] \in Block
      BY <1>1, <2>1
    <3>2. QED
      BY <3>1, BlockAssumption DEF BlockAssumption
  <2>5. Uint64(2 ^ Difficulty[chain[n + 1]]) \in Nat
    <3>1. 2 ^ Difficulty[chain[n + 1]] \in Int
      BY <2>4, SMT
    <3>2. QED
      BY <1>1, <3>1 DEF Uint64
  <2>6. QED
    BY <1>1, <2>2, <2>3, <2>5 DEF Uint64
<1>6. T = Nat
  <2> HIDE DEF T
  <2>1. T \in SUBSET Nat
    BY DEF T
  <2>2. QED
    BY <1>4, <1>5, <2>1, NatSetInduction
<1>7. QED
  BY <1>1, <1>3, <1>6

---------------------------------------------------------------------------
\* A body without transactions applies and changes nothing.
LEMMA ApplyNothing ==
  ASSUME NEW l
  PROVE  applyBlock(l, <<>>) = [ok |-> TRUE, ledger |-> l]
<1>1. DOMAIN <<>> = {}
  OBVIOUS
<1>2. SpendAll(l, <<>>) = [ok |-> TRUE, ledger |-> l, fees |-> 0]
  BY <1>1 DEF SpendAll, FoldLeft, MapThenFoldSet
<1>3. CoinbaseFirst(<<>>) /\ ~HasCoinbase(<<>>)
  BY DEF CoinbaseFirst, HasCoinbase
<1>4. QED
  <2> DEFINE paid == SpendAll(l, <<>>)
  <2>1. paid.ok /\ paid.ledger = l /\ RewardAllowed(<<>>, paid.fees)
    BY <1>2, <1>3 DEF RewardAllowed
  <2>2. applyBlock(l, <<>>) = IF ~CoinbaseFirst(<<>>) \/ ~paid.ok \/ ~RewardAllowed(<<>>, paid.fees)
                              THEN [ok |-> FALSE, ledger |-> l]
                              ELSE [ok |-> TRUE,
                                    ledger |-> IF HasCoinbase(<<>>) THEN Credit(paid.ledger, <<>>[1])
                                                                    ELSE paid.ledger]
    BY DEF applyBlock
  <2> HIDE DEF paid
  <2>3. QED
    BY <1>3, <2>1, <2>2, Zenon

\* The ledger of a chain with one more block.
LEMMA LedgerOfAppend ==
  ASSUME NEW s \in Seq(Block), NEW b \in Block
  PROVE  LedgerOf(Append(s, b)) = IF LedgerOf(s).ok
                                  THEN applyBlock(LedgerOf(s).ledger, Transactions[b])
                                  ELSE LedgerOf(s)
<1>1. Bodies(s) \in Seq(Seq(Tx)) /\ Transactions[b] \in Seq(Tx)
  <2>1. \A c \in Block : Transactions[c] \in Seq(Tx)
    BY BlockAssumption DEF BlockAssumption
  <2>2. DOMAIN s = 1 .. Len(s) /\ Len(s) \in Nat /\ \A i \in 1 .. Len(s) : s[i] \in Block
    OBVIOUS
  <2>3. Bodies(s) \in [1 .. Len(s) -> Seq(Tx)]
    BY <2>1, <2>2 DEF Bodies
  <2>4. QED
    BY <2>1, <2>2, <2>3
<1>2. Bodies(Append(s, b)) = Append(Bodies(s), Transactions[b])
  BY <1>1 DEF Bodies
<1>3. QED
  BY <1>1, <1>2, RebuildAppend DEF LedgerOf

\* A new chain's ledger is the empty one, without replaying genesis.
LEMMA LedgerOfGenesis ==
  LedgerOf(<<Genesis>>) = [ok |-> TRUE, ledger |-> NewLedger]
<1>1. Genesis \in Block /\ Transactions[Genesis] = <<>>
  BY BlockAssumption DEF BlockAssumption
<1>2. LedgerOf(<<>>) = [ok |-> TRUE, ledger |-> NewLedger]
  <2>1. Bodies(<<>>) = <<>>
    BY DEF Bodies
  <2>2. QED
    BY <2>1, RebuildEmpty DEF LedgerOf
<1>3. <<Genesis>> = Append(<<>>, Genesis) /\ <<>> \in Seq(Block)
  OBVIOUS
<1>4. LedgerOf(<<Genesis>>) = applyBlock(NewLedger, <<>>)
  <2>1. LedgerOf(<<>>).ok /\ LedgerOf(<<>>).ledger = NewLedger
    BY <1>2
  <2>2. LedgerOf(Append(<<>>, Genesis)) = applyBlock(LedgerOf(<<>>).ledger, Transactions[Genesis])
    BY <1>1, <1>3, <2>1, LedgerOfAppend, Zenon
  <2>3. QED
    BY <1>1, <1>3, <2>1, <2>2, Zenon
<1>5. QED
  BY <1>4, ApplyNothing

\* Every block of the sequence names the one before it, back to genesis.
Chained(s) == s[1] = Genesis /\ \A i \in 2 .. Len(s) : PrevHash[s[i]] = s[i-1]

\* A linked chain is the branch of its last block: hashes leave no choice.
LEMMA LinkedIsBranch ==
  ASSUME NEW s \in Seq(Block) \ {<<>>}, Chained(s)
  PROVE  s = Branch(s[Len(s)])
<1> DEFINE T == {n \in Nat : n + 1 <= Len(s) => SubSeq(s, 1, n + 1) = Branch(s[n + 1])}
<1>1. Len(s) \in Nat \ {0} /\ \A i \in 1 .. Len(s) : s[i] \in Block
  OBVIOUS
<1>2. 0 \in T
  <2>1. s[1] = Genesis /\ Genesis \in Block /\ PrevHash[Genesis] \notin Block
    BY BlockAssumption DEF BlockAssumption, Chained
  <2>2. Branch(s[1]) = <<Genesis>>
    BY <2>1, SidePathUnfolds DEF Branch
  <2>3. SubSeq(s, 1, 1) = <<s[1]>>
    <3>1. SubSeq(s, 1, 0) = <<>>
      BY <1>1
    <3>2. SubSeq(s, 1, 1) = Append(SubSeq(s, 1, 0), s[1])
      BY <1>1
    <3>3. \A c : Append(<<>>, c) = <<c>>
      OBVIOUS
    <3>4. QED
      BY <3>1, <3>2, <3>3, Zenon
  <2>4. QED
    BY <2>1, <2>2, <2>3
<1>3. ASSUME NEW n \in T PROVE n + 1 \in T
  <2>1. n \in Nat
    OBVIOUS
  <2>2. SUFFICES ASSUME n + 2 <= Len(s)
                 PROVE  SubSeq(s, 1, n + 2) = Branch(s[n + 2])
    BY <2>1
  <2>3. n + 1 \in 1 .. Len(s) /\ n + 2 \in 2 .. Len(s) /\ n + 2 \in 1 .. Len(s)
    BY <1>1, <2>1, <2>2
  <2>4. PrevHash[s[n + 2]] = s[n + 1]
    <3>1. (n + 2) - 1 = n + 1
      BY <2>1
    <3>2. PrevHash[s[n + 2]] = s[(n + 2) - 1]
      BY <2>3 DEF Chained
    <3>3. QED
      BY <3>1, <3>2
  <2>5. Branch(s[n + 2]) = Append(Branch(s[n + 1]), s[n + 2])
    BY <1>1, <2>3, <2>4, SidePathUnfolds DEF Branch
  <2>6. Branch(s[n + 1]) = SubSeq(s, 1, n + 1)
    BY <2>1, <2>2, <1>1
  <2>7. SubSeq(s, 1, n + 2) = Append(SubSeq(s, 1, n + 1), s[n + 2])
    BY <1>1, <2>1, <2>3
  <2>8. QED
    BY <2>5, <2>6, <2>7
<1>4. T = Nat
  <2> HIDE DEF T
  <2>1. T \in SUBSET Nat
    BY DEF T
  <2>2. QED
    BY <1>2, <1>3, <2>1, NatSetInduction
<1>5. SubSeq(s, 1, Len(s)) = Branch(s[Len(s)])
  <2>1. Len(s) - 1 \in Nat /\ (Len(s) - 1) + 1 = Len(s)
    BY <1>1
  <2>2. \A n \in Nat : n + 1 <= Len(s) => SubSeq(s, 1, n + 1) = Branch(s[n + 1])
    BY <1>4
  <2> HIDE DEF T
  <2>3. SubSeq(s, 1, (Len(s) - 1) + 1) = Branch(s[(Len(s) - 1) + 1])
    BY <1>1, <2>1, <2>2
  <2>4. QED
    BY <2>1, <2>3
<1>6. SubSeq(s, 1, Len(s)) = s
  BY <1>1
<1>7. QED
  BY <1>5, <1>6

\* So is a valid one.
LEMMA ChainIsBranch ==
  ASSUME NEW s \in Seq(Block) \ {<<>>}, ValidChain(s)
  PROVE  s = Branch(s[Len(s)])
<1>1. Chained(s)
  BY DEF ValidChain, Validate, Chained
<1>2. QED
  BY <1>1, LinkedIsBranch

\* Where no branch overspends, the ledger of any valid chain can be rebuilt.
LEMMA ValidChainApplies ==
  ASSUME NoBranchOverspends, NEW s \in Seq(Block) \ {<<>>}, ValidChain(s)
  PROVE  LedgerOf(s).ok
<1>1. s = Branch(s[Len(s)]) /\ s[Len(s)] \in Block
  BY ChainIsBranch
<1>2. BranchValid(s[Len(s)])
  BY <1>1 DEF ValidChain, BranchValid
<1>3. QED
  BY <1>1, <1>2 DEF NoBranchOverspends

---------------------------------------------------------------------------
\* What leaves the chain in a switch lies beyond the fork point.
LEMMA DisplacedAreOrphans ==
  ASSUME NEW old \in Seq(Block), NEW new \in Seq(Block), NEW t \in Confirmed(old) \ Confirmed(new),
         ~IsCoinbase(t), CanApplyTransaction(LedgerOf(new).ledger, t)
  PROVE  t \in Orphans(old, new)
<1>1. PICK i \in DOMAIN old : t \in ToSet(Transactions[old[i]])
  BY DEF Confirmed, TxsBeyond
<1>2. i \notin CommonPrefix(old, new)
  <2>1. SUFFICES ASSUME i \in CommonPrefix(old, new)
                 PROVE  FALSE
    OBVIOUS
  <2>2. i \in DOMAIN new /\ i \in 1 .. i
    BY <2>1 DEF CommonPrefix
  <2>3. old[i] = new[i]
    BY <2>1, <2>2 DEF CommonPrefix
  <2>4. t \in Confirmed(new)
    BY <1>1, <2>2, <2>3 DEF Confirmed, TxsBeyond
  <2>5. QED
    BY <2>4
<1>3. t \in TxsBeyond(old, CommonPrefix(old, new))
  BY <1>1, <1>2 DEF TxsBeyond
<1>4. t \notin TxsBeyond(new, CommonPrefix(old, new))
  BY DEF Confirmed, TxsBeyond
<1>5. QED
  BY <1>3, <1>4 DEF Orphans, Displaced

\* Storing one more block in a store within its bound keeps it there.
LEMMA StoredBounded ==
  ASSUME NEW side, IsFiniteSet(side), Cardinality(side) <= MaxSide, NEW b, NEW store \in Stored(side, b)
  PROVE  IsFiniteSet(store) /\ Cardinality(store) <= MaxSide
<1>1. MaxSide \in Nat \ {0} /\ Cardinality(side) \in Nat
  BY FS_CardinalityType, BlockAssumption DEF BlockAssumption
<1>2. ASSUME NEW evicted \in side, store = (side \ {evicted}) \cup {b}
      PROVE  IsFiniteSet(store) /\ Cardinality(store) <= MaxSide
  <2> DEFINE rest == side \ {evicted}
  <2>1. IsFiniteSet(rest) /\ Cardinality(rest) = Cardinality(side) - 1
    BY FS_RemoveElement
  <2>2. Cardinality(rest) \in Nat
    BY <2>1, FS_CardinalityType
  <2>3. IsFiniteSet(rest \cup {b})
        /\ Cardinality(rest \cup {b}) \in {Cardinality(rest), Cardinality(rest) + 1}
    <3> HIDE DEF rest
    <3>1. QED
      BY <2>1, FS_AddElement
  <2>4. store = rest \cup {b} /\ Cardinality(side) <= MaxSide
    BY <1>2
  <2> HIDE DEF rest
  <2>5. QED
    BY <1>1, <2>1, <2>2, <2>3, <2>4
<1>3. ASSUME Cardinality(side) < MaxSide, store = side \cup {b}
      PROVE  IsFiniteSet(store) /\ Cardinality(store) <= MaxSide
  BY <1>1, <1>3, FS_AddElement
<1>4. QED
  BY <1>1, <1>2, <1>3 DEF Stored

\* Where no work wraps around, a block appended to a valid chain adds work.
LEMMA ExtendHeavier ==
  ASSUME NoWorkWraps, NEW chain \in Seq(Block) \ {<<>>}, ValidChain(chain),
         NEW b \in Block, Validate(b, TipOf(chain))
  PROVE  calculateWork(Append(chain, b)) > calculateWork(chain)
<1> DEFINE new == Append(chain, b)
<1>1. new \in Seq(Block) \ {<<>>} /\ ValidChain(new) /\ new[Len(new)] = b
  BY ExtendValid
<1>2. new = Branch(b)
  <2> HIDE DEF new
  <2>1. QED
    BY <1>1, ChainIsBranch
<1>3. PrevHash[b] = TipOf(chain) /\ PrevHash[b] \in Block
  BY TipOfType DEF Validate
<1>4. chain = Branch(PrevHash[b])
  BY <1>3, ChainIsBranch DEF TipOf
<1>5. BranchValid(b)
  BY <1>1, <1>2 DEF BranchValid
<1>6. QED
  BY <1>2, <1>3, <1>4, <1>5 DEF NoWorkWraps

---------------------------------------------------------------------------
(* Branches and the paths that sidePath finds in a store                   *)

\* A branch ends with its block.
LEMMA BranchEnds ==
  ASSUME NEW b \in Block
  PROVE  Branch(b) \in Seq(Block) \ {<<>>} /\ TipOf(Branch(b)) = b
<1>1. \A store \in SUBSET Block : SidePath(store, b)[Len(SidePath(store, b))] = b
  <2>1. SUFFICES ASSUME NEW store \in SUBSET Block
                 PROVE  SidePath(store, b)[Len(SidePath(store, b))] = b
    OBVIOUS
  <2>2. CASE PrevHash[b] \in store
    <3>1. SidePath(store, PrevHash[b]) \in Seq(Block)
      BY <2>2, SidePathType
    <3>2. SidePath(store, b) = Append(SidePath(store, PrevHash[b]), b)
      BY <2>2, SidePathUnfolds
    <3>3. QED
      BY <3>1, <3>2
  <2>3. CASE PrevHash[b] \notin store
    <3>1. SidePath(store, b) = <<b>>
      BY <2>3, SidePathUnfolds
    <3>2. QED
      BY <3>1
  <2>4. QED
    BY <2>2, <2>3
<1>2. QED
  BY <1>1, SidePathType DEF Branch, TipOf

\* Genesis is the only block of a valid branch that is not announced.
LEMMA BranchGrows ==
  ASSUME NEW b \in Announced, BranchValid(b)
  PROVE  /\ PrevHash[b] \in Block /\ BranchValid(PrevHash[b])
         /\ Branch(b) = Append(Branch(PrevHash[b]), b)
         /\ Validate(b, PrevHash[b])
<1>1. b \in Block /\ Index[b] # 0 /\ b # Genesis
  BY BlockAssumption DEF BlockAssumption, Announced
<1>2. PrevHash[b] \in Block
  <2>1. SUFFICES ASSUME PrevHash[b] \notin Block PROVE FALSE
    OBVIOUS
  <2>2. Branch(b) = <<b>>
    BY <1>1, <2>1, SidePathUnfolds DEF Branch
  <2>3. Branch(b)[1] = b
    BY <2>2
  <2>4. QED
    BY <1>1, <2>3 DEF BranchValid, ValidChain
<1> DEFINE before == Branch(PrevHash[b])
<1>3. Branch(b) = Append(before, b)
  BY <1>1, <1>2, SidePathUnfolds DEF Branch
<1>4. before \in Seq(Block) \ {<<>>} /\ before[Len(before)] = PrevHash[b]
  BY <1>2, BranchEnds DEF TipOf
<1>5. ValidChain(Append(before, b))
  BY <1>3 DEF BranchValid
<1> HIDE DEF before
<1>6. /\ Len(before) \in Nat \ {0} /\ Len(Append(before, b)) = Len(before) + 1
      /\ \A i \in 1 .. Len(before) : Append(before, b)[i] = before[i]
      /\ Append(before, b)[Len(before) + 1] = b
  BY <1>1, <1>4
<1>7. ValidChain(before)
  <2>1. before[1] = Genesis
    BY <1>5, <1>6 DEF ValidChain
  <2>2. ASSUME NEW i \in 2 .. Len(before)
        PROVE  Validate(before[i], before[i-1])
    <3>1. i \in 2 .. Len(Append(before, b)) /\ i \in 1 .. Len(before) /\ i - 1 \in 1 .. Len(before)
      BY <1>6
    <3>2. Validate(Append(before, b)[i], Append(before, b)[i-1])
      BY <1>5, <3>1 DEF ValidChain
    <3>3. QED
      BY <1>6, <3>1, <3>2
  <2>3. QED
    BY <2>1, <2>2 DEF ValidChain
<1>8. Validate(b, PrevHash[b])
  <2> DEFINE i == Len(before) + 1
  <2>1. i \in 2 .. Len(Append(before, b)) /\ i - 1 = Len(before) /\ Len(before) \in 1 .. Len(before)
    BY <1>6
  <2>2. Validate(Append(before, b)[i], Append(before, b)[i - 1])
    <3> HIDE DEF i
    <3>1. QED
      BY <1>5, <2>1 DEF ValidChain
  <2>3. QED
    BY <1>4, <1>6, <2>1, <2>2
<1>9. QED
  BY <1>2, <1>3, <1>7, <1>8 DEF before, BranchValid

\* A block of a valid chain stands where its index says.
LEMMA IndexIsPosition ==
  ASSUME NEW s \in Seq(Block) \ {<<>>}, ValidChain(s)
  PROVE  \A i \in 1 .. Len(s) : Index[s[i]] = i - 1
<1> DEFINE n == Len(s) - 1
           T == {i \in Nat : Index[s[i + 1]] = i}
<1>1. n \in Nat /\ Len(s) = n + 1
  OBVIOUS
<1>2. 0 \in T
  BY BlockAssumption DEF BlockAssumption, ValidChain
<1>3. ASSUME NEW i \in 0 .. n - 1, i \in T
      PROVE  i + 1 \in T
  <2>1. i + 2 \in 2 .. Len(s) /\ (i + 2) - 1 = i + 1 /\ (i + 1) + 1 = i + 2 /\ i + 1 \in Nat
    BY <1>1
  <2>2. Validate(s[i + 2], s[i + 1])
    BY <2>1 DEF ValidChain
  <2>3. Index[s[i + 2]] = Index[s[i + 1]] + 1
    BY <2>2 DEF Validate
  <2>4. QED
    BY <1>3, <2>1, <2>3
<1> HIDE DEF T, n
<1>4. \A i \in 0 .. n : i \in T
  BY <1>1, <1>2, <1>3, BoundedInduction
<1>5. ASSUME NEW i \in 1 .. Len(s)
      PROVE  Index[s[i]] = i - 1
  <2>1. i - 1 \in 0 .. n /\ (i - 1) + 1 = i
    BY <1>1
  <2>2. i - 1 \in T
    BY <1>4, <2>1
  <2>3. QED
    BY <2>1, <2>2 DEF T
<1>6. QED
  BY <1>5

\* What a path in a store is: links down to a block whose parent is not there.
PathLinks(store, path) ==
  /\ \A i \in 2 .. Len(path) : PrevHash[path[i]] = path[i-1] /\ path[i-1] \in store
  /\ PrevHash[path[1]] \notin store

\* So is every path that sidePath finds, and it ends with its block.
LEMMA SidePathLinks ==
  ASSUME NEW store \in SUBSET Block, NEW b \in Block
  PROVE  PathLinks(store, SidePath(store, b)) /\ TipOf(SidePath(store, b)) = b
<1> DEFINE Good(c) == PathLinks(store, SidePath(store, c)) /\ TipOf(SidePath(store, c)) = c
           T == {n \in Nat : \A c \in Younger(n) : Good(c)}
<1>1. 0 \in T
  BY BlockAssumption DEF BlockAssumption, Younger
<1>2. ASSUME NEW n \in T PROVE n + 1 \in T
  <2>1. SUFFICES ASSUME NEW c \in Younger(n + 1)
                 PROVE  Good(c)
    BY DEF T
  <2>2. c \in Block
    BY DEF Younger
  <2>3. CASE PrevHash[c] \in store
    <3> DEFINE below == SidePath(store, PrevHash[c])
               path == Append(below, c)
    <3>1. PrevHash[c] \in Younger(n)
      BY <2>2, <2>3, BlockAssumption DEF BlockAssumption, Younger
    <3>2. Good(PrevHash[c])
      BY <3>1
    <3>3. below \in Seq(Block) \ {<<>>} /\ SidePath(store, c) = path
      BY <2>2, <2>3, SidePathType, SidePathUnfolds
    <3>4. PathLinks(store, below) /\ below[Len(below)] = PrevHash[c]
      BY <3>2 DEF TipOf
    <3> HIDE DEF below
    <3>5. /\ Len(below) \in Nat \ {0} /\ Len(path) = Len(below) + 1 /\ path[Len(path)] = c
          /\ \A i \in 1 .. Len(below) : path[i] = below[i]
      BY <2>2, <3>3
    <3> HIDE DEF path
    <3>6. PrevHash[path[1]] \notin store
      BY <3>4, <3>5 DEF PathLinks
    <3>7. ASSUME NEW i \in 2 .. Len(path)
          PROVE  PrevHash[path[i]] = path[i-1] /\ path[i-1] \in store
      <4>1. CASE i = Len(path)
        <5>1. i - 1 = Len(below) /\ i - 1 \in 1 .. Len(below) /\ path[i] = c
          BY <3>5, <4>1
        <5>2. path[i-1] = PrevHash[c]
          BY <3>4, <3>5, <5>1
        <5>3. QED
          BY <2>3, <5>1, <5>2
      <4>2. CASE i # Len(path)
        <5>1. i \in 2 .. Len(below) /\ i \in 1 .. Len(below) /\ i - 1 \in 1 .. Len(below)
          BY <3>5, <4>2
        <5>2. PrevHash[below[i]] = below[i-1] /\ below[i-1] \in store
          BY <3>4, <5>1 DEF PathLinks
        <5>3. QED
          BY <3>5, <5>1, <5>2
      <4>3. QED
        BY <4>1, <4>2
    <3>8. PathLinks(store, path) /\ TipOf(path) = c
      BY <3>5, <3>6, <3>7 DEF PathLinks, TipOf
    <3>9. QED
      BY <3>3, <3>8
  <2>4. CASE PrevHash[c] \notin store
    <3>1. SidePath(store, c) = <<c>>
      BY <2>2, <2>4, SidePathUnfolds
    <3>2. Len(<<c>>) = 1 /\ <<c>>[1] = c
      OBVIOUS
    <3>3. QED
      BY <2>4, <3>1, <3>2 DEF PathLinks, TipOf
  <2>5. QED
    BY <2>3, <2>4
<1>3. T = Nat
  <2> HIDE DEF T
  <2>1. T \in SUBSET Nat
    BY DEF T
  <2>2. QED
    BY <1>1, <1>2, <2>1, NatSetInduction
<1>4. Depth[b] + 1 \in T /\ b \in Younger(Depth[b] + 1)
  <2>1. Depth[b] \in Nat
    BY BlockAssumption DEF BlockAssumption
  <2> HIDE DEF T
  <2>2. QED
    BY <1>3, <2>1 DEF Younger
<1>5. QED
  BY <1>4

\* A path that connects to a valid chain makes the branch of its block.
LEMMA HypotheticalIsBranch ==
  ASSUME NEW chain \in Seq(Block) \ {<<>>}, ValidChain(chain),
         NEW store \in SUBSET Announced, NEW b \in Announced,
         Connects(chain, SidePath(store, b))
  PROVE  Hypothetical(chain, SidePath(store, b)) = Branch(b)
<1> DEFINE path == SidePath(store, b)
           k == Index[path[1]]
           s == Hypothetical(chain, path)
<1>1. store \in SUBSET Block /\ b \in Block
  BY DEF Announced
<1>2. path \in Seq(Block) \ {<<>>} /\ PathLinks(store, path) /\ path[Len(path)] = b
  BY <1>1, SidePathType, SidePathLinks DEF TipOf
<1>3. Connects(chain, path)
  OBVIOUS
<1> HIDE DEF path
<1>4. path[1] \in Announced
  <2>1. Len(path) \in Nat \ {0}
    BY <1>2
  <2>2. CASE Len(path) = 1
    BY <1>2, <2>2
  <2>3. CASE 2 \in 2 .. Len(path)
    <3>1. path[2 - 1] \in store
      BY <1>2, <2>3 DEF PathLinks
    <3>2. QED
      BY <3>1
  <2>4. \A n \in Nat \ {0} : n = 1 \/ 2 \in 2 .. n
    OBVIOUS
  <2>5. Len(path) = 1 \/ 2 \in 2 .. Len(path)
    BY <2>1, <2>4, Zenon
  <2>6. QED
    BY <2>2, <2>3, <2>5
<1>5. k \in 1 .. Len(chain) /\ PrevHash[path[1]] = chain[k]
  <2>1. Index[path[1]] \in Nat \ {0}
    BY <1>4, BlockAssumption DEF BlockAssumption, Announced
  <2>2. QED
    BY <1>3, <2>1 DEF Connects
<1> HIDE DEF k
<1>6. s = SubSeq(chain, 1, k) \o path
  BY DEF Hypothetical, k
<1>7. /\ SubSeq(chain, 1, k) \in Seq(Block) /\ Len(SubSeq(chain, 1, k)) = k
      /\ \A i \in 1 .. k : SubSeq(chain, 1, k)[i] = chain[i]
  BY <1>5
<1>8. /\ s \in Seq(Block) \ {<<>>} /\ Len(s) = k + Len(path)
      /\ Len(path) \in Nat \ {0} /\ k \in Nat \ {0}
      /\ \A i \in 1 .. k : s[i] = chain[i]
      /\ \A i \in 1 .. Len(path) : s[k + i] = path[i]
  BY <1>2, <1>5, <1>6, <1>7
<1> HIDE DEF s
<1>9. Chained(s)
  <2>1. s[1] = Genesis
    BY <1>8 DEF ValidChain
  <2>2. ASSUME NEW i \in 2 .. Len(s)
        PROVE  PrevHash[s[i]] = s[i-1]
    <3>1. CASE i <= k
      <4>1. i \in 1 .. k /\ i - 1 \in 1 .. k /\ i \in 2 .. Len(chain)
        BY <1>5, <1>8, <3>1
      <4>2. PrevHash[chain[i]] = chain[i-1]
        BY <4>1 DEF ValidChain, Validate
      <4>3. QED
        BY <1>8, <4>1, <4>2
    <3>2. CASE i = k + 1
      <4>1. i - 1 = k /\ k \in 1 .. k /\ 1 \in 1 .. Len(path)
        BY <1>8, <3>2
      <4>2. s[i] = path[1] /\ s[i-1] = chain[k]
        BY <1>8, <3>2, <4>1
      <4>3. QED
        BY <1>5, <4>2
    <3>3. CASE i > k + 1
      <4> DEFINE j == i - k
      <4>1. j \in 2 .. Len(path) /\ j \in 1 .. Len(path) /\ j - 1 \in 1 .. Len(path)
            /\ k + j = i /\ k + (j - 1) = i - 1
        BY <1>8, <3>3
      <4> HIDE DEF j
      <4>2. PrevHash[path[j]] = path[j-1]
        BY <1>2, <4>1 DEF PathLinks
      <4>3. s[k + j] = path[j] /\ s[k + (j - 1)] = path[j-1]
        BY <1>8, <4>1
      <4>4. QED
        BY <4>1, <4>2, <4>3
    <3>4. QED
      BY <1>8, <3>1, <3>2, <3>3
  <2>3. QED
    BY <2>1, <2>2 DEF Chained
<1>10. s[Len(s)] = b
  <2>1. Len(path) \in 1 .. Len(path)
    BY <1>8
  <2>2. QED
    BY <1>2, <1>8, <2>1
<1>11. s = Branch(b)
  BY <1>8, <1>9, <1>10, LinkedIsBranch
<1>12. QED
  BY <1>11 DEF s, path


\* Does the path start right above a block that is known, outside the store?
StartsAbove(store, c) ==
  LET start == SidePath(store, c)[1]
  IN  /\ start \in Announced /\ PrevHash[start] \in Block /\ BranchValid(PrevHash[start])
      /\ PrevHash[start] \in ToSet(Branch(c)) /\ PrevHash[start] \notin store
      /\ Depth[PrevHash[start]] < Depth[c]
      /\ Validate(start, PrevHash[start])

\* What a block's own parent is to its branch.
LEMMA ParentInBranch ==
  ASSUME NEW c \in Announced, BranchValid(c)
  PROVE  /\ PrevHash[c] \in ToSet(Branch(c)) /\ Depth[PrevHash[c]] < Depth[c]
         /\ ToSet(Branch(PrevHash[c])) \subseteq ToSet(Branch(c))
<1> DEFINE before == Branch(PrevHash[c])
<1>1. PrevHash[c] \in Block /\ Branch(c) = Append(before, c) /\ c \in Block
  BY BranchGrows DEF Announced
<1>2. before \in Seq(Block) \ {<<>>} /\ before[Len(before)] = PrevHash[c]
  BY <1>1, BranchEnds DEF TipOf
<1> HIDE DEF before
<1>3. /\ Len(before) \in 1 .. Len(before) /\ Len(Append(before, c)) = Len(before) + 1
      /\ \A i \in 1 .. Len(before) : Append(before, c)[i] = before[i] /\ i \in DOMAIN Append(before, c)
  BY <1>1, <1>2
<1>4. ToSet(before) \subseteq ToSet(Branch(c))
  <2>1. DOMAIN before = 1 .. Len(before)
    BY <1>2
  <2>2. QED
    BY <1>1, <1>3, <2>1 DEF ToSet
<1>5. PrevHash[c] \in ToSet(before)
  <2>1. DOMAIN before = 1 .. Len(before)
    BY <1>2
  <2>2. QED
    BY <1>2, <1>3, <2>1 DEF ToSet
<1>6. QED
  BY <1>1, <1>4, <1>5, BlockAssumption DEF before, BlockAssumption

\* A path in a store follows the branch of its block down.
LEMMA PathInBranch ==
  ASSUME NEW store \in SUBSET Announced, NEW b \in Announced, BranchValid(b)
  PROVE  StartsAbove(store, b)
<1> DEFINE Good(c) == c \in Announced /\ BranchValid(c) => StartsAbove(store, c)
           T == {n \in Nat : \A c \in Younger(n) : Good(c)}
<1>1. 0 \in T
  BY BlockAssumption DEF BlockAssumption, Younger
<1>2. ASSUME NEW n \in T PROVE n + 1 \in T
  <2>1. SUFFICES ASSUME NEW c \in Younger(n + 1), c \in Announced, BranchValid(c)
                 PROVE  StartsAbove(store, c)
    BY DEF T
  <2>2. c \in Block /\ store \in SUBSET Block
    BY DEF Younger, Announced
  <2>3. /\ PrevHash[c] \in Block /\ BranchValid(PrevHash[c]) /\ Validate(c, PrevHash[c])
        /\ PrevHash[c] \in ToSet(Branch(c)) /\ Depth[PrevHash[c]] < Depth[c]
        /\ ToSet(Branch(PrevHash[c])) \subseteq ToSet(Branch(c))
    BY <2>1, BranchGrows, ParentInBranch
  <2>4. CASE PrevHash[c] \in store
    <3>1. PrevHash[c] \in Younger(n) /\ PrevHash[c] \in Announced
      BY <2>2, <2>4, BlockAssumption DEF BlockAssumption, Younger
    <3>2. StartsAbove(store, PrevHash[c])
      BY <2>3, <3>1
    <3> DEFINE below == SidePath(store, PrevHash[c])
    <3>3. below \in Seq(Block) \ {<<>>} /\ SidePath(store, c) = Append(below, c)
      BY <2>2, <2>3, <2>4, SidePathType, SidePathUnfolds
    <3>4. SidePath(store, c)[1] = below[1]
      <4> HIDE DEF below
      <4>1. Append(below, c)[1] = below[1]
        BY <2>2, <3>3
      <4>2. QED
        BY <3>3, <4>1
    <3>5. \A d \in Block : Depth[d] \in Nat
      BY BlockAssumption DEF BlockAssumption
    <3>6. PrevHash[below[1]] \in Block /\ Depth[PrevHash[below[1]]] < Depth[PrevHash[c]]
      BY <3>2 DEF StartsAbove
    <3>7. Depth[PrevHash[below[1]]] < Depth[c]
      <4> DEFINE q == PrevHash[below[1]]
      <4>1. q \in Block /\ Depth[q] < Depth[PrevHash[c]]
        BY <3>6
      <4> HIDE DEF q
      <4>2. Depth[q] < Depth[c]
        BY <2>2, <2>3, <3>5, <4>1
      <4>3. QED
        BY <4>2 DEF q
    <3>8. QED
      BY <2>3, <3>2, <3>4, <3>7 DEF StartsAbove
  <2>5. CASE PrevHash[c] \notin store
    <3>1. SidePath(store, c) = <<c>>
      BY <2>2, <2>5, SidePathUnfolds
    <3>2. QED
      BY <2>1, <2>3, <2>5, <3>1 DEF StartsAbove
  <2>6. QED
    BY <2>4, <2>5
<1>3. T = Nat
  <2> HIDE DEF T
  <2>1. T \in SUBSET Nat
    BY DEF T
  <2>2. QED
    BY <1>1, <1>2, <2>1, NatSetInduction
<1>4. Depth[b] + 1 \in T /\ b \in Younger(Depth[b] + 1)
  <2>1. Depth[b] \in Nat /\ b \in Block
    BY BlockAssumption DEF BlockAssumption, Announced
  <2> HIDE DEF T
  <2>2. QED
    BY <1>3, <2>1 DEF Younger
<1>5. Good(b)
  BY <1>4
<1>6. QED
  BY <1>5

\* A valid branch whose blocks are all in the store or on the main chain
\* connects to the main chain.
LEMMA HeldBranchConnects ==
  ASSUME NEW chain \in Seq(Block) \ {<<>>}, ValidChain(chain),
         NEW store \in SUBSET Announced, NEW b \in Announced, BranchValid(b),
         Ancestors(b) \subseteq ToSet(chain) \cup store
  PROVE  Connects(chain, SidePath(store, b))
<1> DEFINE start == SidePath(store, b)[1]
           q == PrevHash[start]
<1>1. /\ start \in Announced /\ q \in Block /\ q \in ToSet(Branch(b)) /\ q \notin store
      /\ Depth[q] < Depth[b] /\ Validate(start, q)
  BY PathInBranch DEF StartsAbove
<1>2. q # b
  <2>1. Depth[b] \in Nat /\ Depth[q] \in Nat
    BY <1>1, BlockAssumption DEF BlockAssumption, Announced
  <2> HIDE DEF q
  <2>2. QED
    BY <1>1, <2>1
<1>3. q \in ToSet(chain)
  BY <1>1, <1>2 DEF Ancestors
<1> HIDE DEF start, q
<1>4. PICK j \in 1 .. Len(chain) : q = chain[j]
  <2>1. DOMAIN chain = 1 .. Len(chain)
    OBVIOUS
  <2>2. QED
    BY <1>3, <2>1 DEF ToSet
<1>5. Index[q] = j - 1 /\ Index[start] = Index[q] + 1 /\ PrevHash[start] = q
  BY <1>1, <1>4, IndexIsPosition DEF Validate
<1>6. Index[start] = j /\ Len(chain) \in Nat
  BY <1>4, <1>5
<1>7. QED
  BY <1>4, <1>5, <1>6 DEF Connects, start


---------------------------------------------------------------------------
(* Work and length of valid chains                                         *)

\* The work of a chain depends on the difficulties of its blocks only.
SameDifficulty(s, t) == \A i \in 1 .. Len(s) : Difficulty[s[i]] = Difficulty[t[i]]

LEMMA SameWork ==
  ASSUME NEW s \in Seq(Block), NEW t \in Seq(Block), Len(s) = Len(t), SameDifficulty(s, t)
  PROVE  calculateWork(s) = calculateWork(t)
<1> DEFINE n == Len(s)
           f == CHOOSE f : SumsWork(s, f, Len(s))
           g == CHOOSE g : SumsWork(t, g, Len(t))
           T == {i \in Nat : f[i] = g[i]}
<1>1. n \in Nat /\ n = Len(t)
  OBVIOUS
<1>2. SumsWork(s, f, n) /\ SumsWork(t, g, n)
  BY <1>1, WorkExists
<1>3. calculateWork(s) = f[n] /\ calculateWork(t) = g[n]
  BY DEF calculateWork, SumsWork, WorkStep
<1> HIDE DEF f, g
<1>4. 0 \in T
  <2>1. 0 \in 0 .. n
    BY <1>1
  <2> HIDE DEF n
  <2>2. f[0] = 0 /\ g[0] = 0
    BY <1>2, <2>1 DEF SumsWork, WorkStep
  <2>3. QED
    BY <2>2
<1>5. ASSUME NEW i \in 0 .. n - 1, i \in T
      PROVE  i + 1 \in T
  <2>1. i + 1 \in 0 .. n /\ i + 1 \in 1 .. n /\ (i + 1) - 1 = i /\ i + 1 # 0 /\ i + 1 \in Nat
    BY <1>1
  <2>2. Difficulty[s[i + 1]] = Difficulty[t[i + 1]]
    BY <2>1 DEF SameDifficulty
  <2> HIDE DEF n
  <2>3. /\ f[i + 1] = Uint64(f[i] + Uint64(2 ^ Difficulty[s[i + 1]]))
        /\ g[i + 1] = Uint64(g[i] + Uint64(2 ^ Difficulty[t[i + 1]]))
    BY <1>2, <2>1 DEF SumsWork, WorkStep
  <2>4. QED
    BY <1>5, <2>1, <2>2, <2>3
<1>6. n \in T
  <2> HIDE DEF T, n
  <2>1. \A i \in 0 .. n : i \in T
    BY <1>1, <1>4, <1>5, BoundedInduction
  <2>2. QED
    BY <1>1, <2>1
<1>7. QED
  BY <1>3, <1>6

\* Every block but genesis has the default difficulty.
LEMMA ValidDifficulty ==
  ASSUME NEW s \in Seq(Block) \ {<<>>}, ValidChain(s), NEW t \in Seq(Block) \ {<<>>}, ValidChain(t),
         Len(s) = Len(t)
  PROVE  calculateWork(s) = calculateWork(t)
<1>1. Len(s) \in Nat /\ Len(t) \in Nat
  OBVIOUS
<1>2. ASSUME NEW i \in 1 .. Len(s)
      PROVE  Difficulty[s[i]] = Difficulty[t[i]]
  <2>1. CASE i = 1
    BY <2>1 DEF ValidChain
  <2>2. CASE i # 1
    <3>1. i \in 2 .. Len(s) /\ i \in 2 .. Len(t)
      BY <1>1, <2>2
    <3>2. QED
      BY <3>1 DEF ValidChain, Validate
  <2>3. QED
    BY <2>1, <2>2
<1>3. QED
  BY <1>2, SameWork DEF SameDifficulty

\* The start of a valid chain is one.
LEMMA PrefixValid ==
  ASSUME NEW t \in Seq(Block) \ {<<>>}, ValidChain(t), NEW n \in 1 .. Len(t)
  PROVE  /\ SubSeq(t, 1, n) \in Seq(Block) \ {<<>>} /\ Len(SubSeq(t, 1, n)) = n
         /\ ValidChain(SubSeq(t, 1, n))
<1> DEFINE s == SubSeq(t, 1, n)
<1>1. /\ Len(t) \in Nat /\ s \in Seq(Block) /\ Len(s) = n
      /\ \A i \in 1 .. n : s[i] = t[i]
  OBVIOUS
<1> HIDE DEF s
<1>2. s # <<>> /\ s[1] = Genesis
  BY <1>1 DEF ValidChain
<1>3. ASSUME NEW i \in 2 .. Len(s)
      PROVE  Validate(s[i], s[i-1])
  <2>1. i \in 1 .. n /\ i - 1 \in 1 .. n /\ i \in 2 .. Len(t)
    BY <1>1
  <2>2. Validate(t[i], t[i-1])
    BY <2>1 DEF ValidChain
  <2>3. QED
    BY <1>1, <2>1, <2>2
<1>4. QED
  BY <1>1, <1>2, <1>3 DEF ValidChain, s

\* A longer valid chain has at least the work of a shorter one.
LEMMA LongerIsHeavier ==
  ASSUME NoWorkWraps, NEW s \in Seq(Block) \ {<<>>}, ValidChain(s),
         NEW t \in Seq(Block) \ {<<>>}, ValidChain(t), Len(s) <= Len(t)
  PROVE  calculateWork(s) <= calculateWork(t)
<1> DEFINE n == Len(s)
           m == Len(t) - n
           work(i) == calculateWork(SubSeq(t, 1, n + i))
           T == {i \in Nat : work(0) <= work(i)}
<1>1. n \in Nat \ {0} /\ m \in Nat /\ Len(t) = n + m
  OBVIOUS
<1>2. \A i \in 0 .. m : n + i \in 1 .. Len(t)
  BY <1>1
<1>3. \A i \in 0 .. m : work(i) \in Nat
  <2>1. SUFFICES ASSUME NEW i \in 0 .. m PROVE work(i) \in Nat
    OBVIOUS
  <2>2. SubSeq(t, 1, n + i) \in Seq(Block)
    BY <1>2, PrefixValid
  <2>3. QED
    BY <2>2, WorkType
<1>4. 0 \in T
  <2>1. 0 \in 0 .. m
    BY <1>1
  <2>2. work(0) \in Nat
    BY <1>3, <2>1
  <2> HIDE DEF work
  <2>3. QED
    BY <2>2
<1>5. ASSUME NEW i \in 0 .. m - 1, i \in T
      PROVE  i + 1 \in T
  <2> DEFINE before == SubSeq(t, 1, n + i)
             b == t[(n + i) + 1]
  <2>1. /\ n + i \in 1 .. Len(t) /\ n + i \in Nat /\ (n + i) + 1 \in 2 .. Len(t)
        /\ (n + i) + 1 = n + (i + 1) /\ ((n + i) + 1) - 1 = n + i
        /\ i \in 0 .. m /\ i + 1 \in 0 .. m /\ i + 1 \in Nat /\ 0 \in 0 .. m
    BY <1>1
  <2>2. before \in Seq(Block) \ {<<>>} /\ ValidChain(before) /\ Len(before) = n + i
    BY <2>1, PrefixValid
  <2>3. SubSeq(t, 1, (n + i) + 1) = Append(before, b) /\ b \in Block
    BY <2>1
  <2>4. TipOf(before) = t[n + i]
    <3>1. before[n + i] = t[n + i]
      BY <2>1
    <3>2. QED
      BY <2>2, <3>1 DEF TipOf
  <2>5. Validate(b, TipOf(before))
    <3>1. Validate(t[(n + i) + 1], t[((n + i) + 1) - 1])
      BY <2>1 DEF ValidChain
    <3>2. QED
      BY <2>1, <2>4, <3>1
  <2> HIDE DEF before, b
  <2>6. calculateWork(Append(before, b)) > calculateWork(before)
    BY <2>2, <2>3, <2>5, ExtendHeavier
  <2>7. work(i) = calculateWork(before)
    BY DEF before
  <2>8. work(i + 1) = calculateWork(Append(before, b))
    BY <2>1, <2>3
  <2> HIDE DEF work
  <2>9. QED
    BY <1>3, <1>5, <2>1, <2>6, <2>7, <2>8
<1>6. m \in T
  <2> HIDE DEF T, m, n, work
  <2>1. \A i \in 0 .. m : i \in T
    BY <1>1, <1>4, <1>5, BoundedInduction
  <2>2. QED
    BY <1>1, <2>1
<1>7. work(m) = calculateWork(t)
  <2>1. SubSeq(t, 1, Len(t)) = t
    OBVIOUS
  <2>2. QED
    BY <1>1, <2>1
<1>8. work(0) = calculateWork(s)
  <2>1. n \in 1 .. Len(t) /\ n + 0 = n
    BY <1>1
  <2>2. /\ SubSeq(t, 1, n) \in Seq(Block) \ {<<>>} /\ Len(SubSeq(t, 1, n)) = n
        /\ ValidChain(SubSeq(t, 1, n))
    BY <2>1, PrefixValid
  <2>3. calculateWork(SubSeq(t, 1, n)) = calculateWork(s)
    BY <2>2, ValidDifficulty
  <2>4. QED
    BY <2>1, <2>3
<1>9. QED
  BY <1>6, <1>7, <1>8

\* So more work means more blocks.
LEMMA HeavierIsLonger ==
  ASSUME NoWorkWraps, NEW s \in Seq(Block) \ {<<>>}, ValidChain(s),
         NEW t \in Seq(Block) \ {<<>>}, ValidChain(t), calculateWork(t) > calculateWork(s)
  PROVE  Len(t) > Len(s)
<1>1. calculateWork(s) \in Nat /\ calculateWork(t) \in Nat /\ Len(s) \in Nat /\ Len(t) \in Nat
  BY WorkType
<1>2. Len(t) <= Len(s) => calculateWork(t) <= calculateWork(s)
  BY LongerIsHeavier
<1>3. QED
  BY <1>1, <1>2
==============================================================================
