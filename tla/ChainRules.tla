----------------------------- MODULE ChainRules -----------------------------
(***************************************************************************)
(* The rules by which blocks form chains and chains are compared           *)
(* (internal/blockchain: block.go and the decisions of chain.go), as       *)
(* operators on chains and on stores of competing blocks.                  *)
(*                                                                         *)
(* A block is known by its hash; the fields of the Go struct are functions *)
(* on hashes.                                                              *)
(***************************************************************************)
EXTENDS LedgerRules, FiniteSets

CONSTANTS Block, Genesis, NoHash,
          Index,             \* [Block -> Nat]
          PrevHash,          \* [Block -> Block \cup {NoHash}]
          Depth,             \* [Block -> Nat]: a hash commits to older blocks only
          Difficulty,        \* [Block -> Nat]
          Sealed,            \* [Block -> BOOLEAN]: the hash is right and has the zeros
          Transactions,      \* [Block -> Seq(Tx)]
          DefaultDifficulty,
          MaxSide,           \* 100: blocks kept in sideChains
          MaxAhead           \* 50: how far ahead of the tip a block may be

ASSUME BlockAssumption ==
  /\ Genesis \in Block
  /\ NoHash \notin Block
  /\ Index \in [Block -> Nat]
  /\ PrevHash \in [Block -> Block \cup {NoHash}]
  /\ Depth \in [Block -> Nat]
  /\ \A b \in Block : PrevHash[b] \in Block => Depth[PrevHash[b]] < Depth[b]
  /\ Index[Genesis] = 0 /\ PrevHash[Genesis] = NoHash
  /\ Difficulty \in [Block -> Nat]
  /\ Sealed \in [Block -> BOOLEAN]
  /\ \A b \in Block : Transactions[b] \in Seq(Tx)
  /\ Transactions[Genesis] = <<>>
  /\ DefaultDifficulty \in Nat
  /\ MaxSide \in Nat \ {0}
  /\ MaxAhead \in Nat

\* Blocks a peer may announce: GenesisBlock is built in and never announced.
Announced == Block \ {b \in Block : Index[b] = 0}

---------------------------------------------------------------------------
\* Block.Validate, given the block before it.
Validate(b, prev) ==
  /\ Index[b] = Index[prev] + 1
  /\ PrevHash[b] = prev
  /\ Sealed[b]
  /\ Difficulty[b] = DefaultDifficulty
  /\ CoinbaseFirst(Transactions[b])
  /\ \A i \in DOMAIN Transactions[b] :
        ~IsCoinbase(Transactions[b][i]) => Verify(Transactions[b][i])

\* calculateWork: a uint64 sum of 1 << Difficulty.
calculateWork(chain) ==
  LET work[n \in 0 .. Len(chain)] ==
        IF n = 0 THEN 0 ELSE Uint64(work[n-1] + Uint64(2 ^ Difficulty[chain[n]]))
  IN  work[Len(chain)]

TipOf(chain) == chain[Len(chain)]

Bodies(chain) == [i \in DOMAIN chain |-> Transactions[chain[i]]]

LedgerOf(chain) == RebuildFromChain(Bodies(chain))

\* Every block of the chain follows validly from the one before it.
ValidChain(chain) ==
  /\ chain[1] = Genesis
  /\ \A i \in 2 .. Len(chain) : Validate(chain[i], chain[i-1])

---------------------------------------------------------------------------
(* May one chain replace another?                                          *)

\* The positions up to which both chains hold the same blocks.
CommonPrefix(old, new) ==
  {i \in DOMAIN old \cap DOMAIN new : \A j \in 1 .. i : old[j] = new[j]}

\* Slip: the new chain is not validated.
AcceptableUnvalidated(old, new) ==
  new[1] = old[1] /\ calculateWork(new) > calculateWork(old)

\* Slip: an equally heavy chain will do.
AcceptableEqual(old, new) ==
  /\ new[1] = old[1]
  /\ calculateWork(new) >= calculateWork(old)
  /\ \A i \in 2 .. Len(new) : i \notin CommonPrefix(old, new) => Validate(new[i], new[i-1])

\* Only what lies beyond the fork point is validated.
Acceptable(old, new) ==
  /\ new[1] = old[1]
  /\ calculateWork(new) > calculateWork(old)
  /\ \A i \in 2 .. Len(new) : i \notin CommonPrefix(old, new) => Validate(new[i], new[i-1])

TxsBeyond(chain, prefix) ==
  UNION {ToSet(Transactions[chain[i]]) : i \in DOMAIN chain \ prefix}

Confirmed(chain) == TxsBeyond(chain, {})

\* Transactions of the abandoned blocks that the new chain does not hold.
Displaced(old, new) ==
  TxsBeyond(old, CommonPrefix(old, new)) \ TxsBeyond(new, CommonPrefix(old, new))

\* Slip: the payments are filtered before the ledger is rebuilt.
OrphansEarly(old, new) ==
  {t \in Displaced(old, new) : ~IsCoinbase(t) /\ CanApplyTransaction(LedgerOf(old).ledger, t)}

\* Payments of the abandoned blocks that the new chain neither holds nor forbids.
Orphans(old, new) ==
  {t \in Displaced(old, new) : ~IsCoinbase(t) /\ CanApplyTransaction(LedgerOf(new).ledger, t)}

---------------------------------------------------------------------------
(* Where does a block belong that a peer announces?                        *)

DirectExtension(b, latest) == PrevHash[b] = latest /\ Index[b] = Index[latest] + 1

TooFarAhead(b, latest) == Index[b] > Index[latest] + MaxAhead

\* What a call answers that leaves the main chain as it is.
Unadopted(b, latest) == IF Index[b] > Index[latest] THEN "needsSync" ELSE "kept"

\* Slip: nothing is evicted.
StoredUnbounded(side, b) == {side \cup {b}}

\* A full store first loses one block, whichever the map yields.
Stored(side, b) ==
  IF Cardinality(side) >= MaxSide
  THEN {(side \ {evicted}) \cup {b} : evicted \in side}
  ELSE {side \cup {b}}

\* From b back through the store, as far as parents are found there.
SidePath(store, b) ==
  LET path[c \in Block] ==
        IF PrevHash[c] \in store THEN Append(path[PrevHash[c]], c) ELSE <<c>>
  IN  path[b]

\* Slip: a branch that starts at the tip does not count as connected.
ConnectsBelowTip(chain, path) ==
  /\ Index[path[1]] < Len(chain)
  /\ PrevHash[path[1]] = chain[Index[path[1]]]

\* The first block of the path follows a block of the main chain.
Connects(chain, path) ==
  /\ Index[path[1]] <= Len(chain)
  /\ PrevHash[path[1]] = chain[Index[path[1]]]

Hypothetical(chain, path) == SubSeq(chain, 1, Index[path[1]]) \o path

\* Is the chain that ends with the path worth switching to?
Heavier(chain, path) ==
  /\ Connects(chain, path)
  /\ calculateWork(Hypothetical(chain, path)) > calculateWork(chain)

---------------------------------------------------------------------------
\* The path from a block back to where its ancestry is unknown, and whether
\* it is a valid chain from genesis.
Branch(b) == SidePath(Block, b)

BranchValid(b) == ValidChain(Branch(b))

Ancestors(b) == ToSet(Branch(b)) \ {b}

\* The work of no branch wraps around: a block has more than its parent.
NoWorkWraps ==
  \A b \in Block : BranchValid(b) /\ PrevHash[b] \in Block =>
     calculateWork(Branch(b)) > calculateWork(Branch(PrevHash[b]))

\* No block is built on payments that its own branch does not cover.
NoBranchOverspends ==
  \A b \in Block : BranchValid(b) => LedgerOf(Branch(b)).ok
============================================================================
