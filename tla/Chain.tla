------------------------------- MODULE Chain -------------------------------
(***************************************************************************)
(* One node's chain (internal/blockchain/chain.go and block.go): the main  *)
(* chain, the side chains and the ledger, behind one lock.  AddBlock and   *)
(* ReorganiseTo hold the lock throughout and are single steps.  A call of  *)
(* TryAddOrReorg gives the lock up twice, after it has read the tip and    *)
(* before it reorganises, so it is a sequence of up to three steps that    *)
(* the calls of other workers may come between.  Module ChainRules has the *)
(* decisions taken in these steps.                                         *)
(***************************************************************************)
EXTENDS ChainRules

CONSTANTS Worker,            \* goroutines that call TryAddOrReorg
          PeerChains         \* chains that callers pass to ReorganiseTo

ASSUME ChainAssumption == PeerChains \subseteq Seq(Block) \ {<<>>}

VARIABLES
  blocks,        \* main chain, blocks[1] is genesis
  sideChains,    \* blocks kept aside
  ledger,        \* balances and processedTxs
  pc,            \* where each worker stands in TryAddOrReorg
  block,         \* the block each worker was called with
  latest,        \* the tip each worker read when its call began
  hypothetical,  \* the heavier chain a worker is about to switch to
  returned       \* what the call that ended last returned

chainVars == <<blocks, sideChains, ledger>>
vars == <<blocks, sideChains, ledger, pc, block, latest, hypothetical, returned>>

Tip == TipOf(blocks)

---------------------------------------------------------------------------
(* AddBlock: validate against the tip, apply to the ledger, append.        *)

\* Slip: the block is not validated against the tip.
AcceptsAnywhere(b) == applyBlock(ledger, Transactions[b]).ok

Accepts(b) == Validate(b, Tip) /\ applyBlock(ledger, Transactions[b]).ok

Extend(b) ==
  /\ blocks' = Append(blocks, b)
  /\ ledger' = applyBlock(ledger, Transactions[b]).ledger

---------------------------------------------------------------------------
(* ReorganiseTo                                                            *)

\* Slip: the ledger is not rebuilt.
SwitchBlocksOnly(new) == blocks' = new /\ UNCHANGED ledger

\* The blocks are switched before the ledger is rebuilt, and stay switched
\* when rebuilding fails.
Switch(new) ==
  /\ blocks' = new
  /\ ledger' = LedgerOf(new).ledger

Result(outcome, orphans) == [outcome |-> outcome, orphans |-> orphans]

Verdict(new) == IF LedgerOf(new).ok THEN Result("added", Orphans(blocks, new))
                                    ELSE Result("failed", {})

---------------------------------------------------------------------------
(* TryAddOrReorg                                                           *)

\* Slip: the local variables are gone while the call goes on.
ReturnOpen(w, outcome, orphans) ==
  /\ returned' = Result(outcome, orphans)
  /\ block' = [block EXCEPT ![w] = Genesis]
  /\ latest' = [latest EXCEPT ![w] = Genesis]
  /\ UNCHANGED <<pc, hypothetical>>

\* The call ends and its local variables go out of scope.
Return(w, outcome, orphans) ==
  /\ pc' = [pc EXCEPT ![w] = "idle"]
  /\ returned' = Result(outcome, orphans)
  /\ block' = [block EXCEPT ![w] = Genesis]
  /\ latest' = [latest EXCEPT ![w] = Genesis]
  /\ hypothetical' = [hypothetical EXCEPT ![w] = <<>>]

\* The tip is read under the read lock, which is released at once.
ReadTip(w, b) ==
  /\ pc[w] = "idle"
  /\ pc' = [pc EXCEPT ![w] = "tip_read"]
  /\ block' = [block EXCEPT ![w] = b]
  /\ latest' = [latest EXCEPT ![w] = Tip]
  /\ UNCHANGED <<chainVars, hypothetical, returned>>

\* Case 1: AddBlock, whose failure is returned and leaves no trace of the block.
TryAdd(w) ==
  /\ pc[w] = "tip_read"
  /\ DirectExtension(block[w], latest[w])
  /\ \/ /\ Accepts(block[w])
        /\ Extend(block[w])
        /\ Return(w, "added", {})
     \/ /\ ~Accepts(block[w])
        /\ UNCHANGED <<blocks, ledger>>
        /\ Return(w, "failed", {})
  /\ UNCHANGED sideChains

SkipTooFar(w) ==
  /\ pc[w] = "tip_read"
  /\ ~DirectExtension(block[w], latest[w])
  /\ TooFarAhead(block[w], latest[w])
  /\ Return(w, "needsSync", {})
  /\ UNCHANGED chainVars

\* Cases 2 and 3: keep the block, and switch when its branch is heavier.
StoreAside(w) ==
  /\ pc[w] = "tip_read"
  /\ ~DirectExtension(block[w], latest[w])
  /\ ~TooFarAhead(block[w], latest[w])
  /\ sideChains' \in Stored(sideChains, block[w])
  /\ LET path == SidePath(sideChains', block[w])
     IN  \/ /\ Heavier(blocks, path)
            /\ pc' = [pc EXCEPT ![w] = "reorg"]
            /\ hypothetical' = [hypothetical EXCEPT ![w] = Hypothetical(blocks, path)]
            /\ UNCHANGED <<block, latest, returned>>
         \/ /\ ~Heavier(blocks, path)
            /\ Return(w, Unadopted(block[w], latest[w]), {})
  /\ UNCHANGED <<blocks, ledger>>

\* The lock was released and taken again: ReorganiseTo checks afresh.
ReorgFromSide(w) ==
  LET new == hypothetical[w]
  IN  /\ pc[w] = "reorg"
      /\ \/ /\ Acceptable(blocks, new)
            /\ Switch(new)
            /\ Return(w, Verdict(new).outcome, Verdict(new).orphans)
         \/ /\ ~Acceptable(blocks, new)
            /\ UNCHANGED <<blocks, ledger>>
            /\ Return(w, "failed", {})
      /\ UNCHANGED sideChains

---------------------------------------------------------------------------
\* The miner, and a sync that receives successors of the tip, call AddBlock.
AddBlock(b) ==
  /\ Accepts(b)
  /\ Extend(b)
  /\ returned' = Result("added", {})
  /\ UNCHANGED <<sideChains, pc, block, latest, hypothetical>>

\* A sync that finds a fork calls ReorganiseTo with the peer's whole chain.
ReorganiseTo(new) ==
  /\ Acceptable(blocks, new)
  /\ Switch(new)
  /\ returned' = Verdict(new)
  /\ UNCHANGED <<sideChains, pc, block, latest, hypothetical>>

---------------------------------------------------------------------------
Init ==
  /\ blocks = <<Genesis>>
  /\ sideChains = {}
  /\ ledger = NewLedger
  /\ pc = [w \in Worker |-> "idle"]
  /\ block = [w \in Worker |-> Genesis]
  /\ latest = [w \in Worker |-> Genesis]
  /\ hypothetical = [w \in Worker |-> <<>>]
  /\ returned = Result("none", {})

WorkerStep(w) ==
  \/ \E b \in Announced : ReadTip(w, b)
  \/ TryAdd(w)
  \/ SkipTooFar(w)
  \/ StoreAside(w)
  \/ ReorgFromSide(w)

Next ==
  \/ \E w \in Worker : WorkerStep(w)
  \/ \E b \in Announced : AddBlock(b)
  \/ \E new \in PeerChains : ReorganiseTo(new)

Spec == Init /\ [][Next]_vars

---------------------------------------------------------------------------
TypeOK ==
  /\ blocks \in Seq(Block) \ {<<>>}
  /\ sideChains \subseteq Announced
  /\ pc \in [Worker -> {"idle", "tip_read", "reorg"}]
  /\ block \in [Worker -> Block]
  /\ latest \in [Worker -> Block]
  /\ hypothetical \in [Worker -> Seq(Block)]
  /\ \A w \in Worker : pc[w] # "idle" => block[w] \in Announced
  /\ \A w \in Worker : pc[w] = "reorg" => hypothetical[w] # <<>>
  /\ returned.outcome \in {"none", "added", "failed", "kept", "needsSync"}

(***************************************************************************)
(* The main chain is valid from genesis to tip, although a reorganisation  *)
(* validates only the blocks beyond the fork point, and validates them     *)
(* after the lock was given up since the chain was put together.           *)
(***************************************************************************)
ChainValid == ValidChain(blocks)

(***************************************************************************)
(* The balances are those of the main chain: replaying it from an empty    *)
(* ledger succeeds and gives the ledger the node has.                      *)
(***************************************************************************)
LedgerMatchesChain == LedgerOf(blocks).ok /\ LedgerOf(blocks).ledger = ledger

(***************************************************************************)
(* Every change of the main chain adds work: an older, lighter or equally  *)
(* heavy chain never comes back, whatever was decided from a stale tip.    *)
(***************************************************************************)
WorkGrows == [][calculateWork(blocks') > calculateWork(blocks)]_blocks

(***************************************************************************)
(* When a call for a block ends, and the node then holds every ancestor of *)
(* it on the main chain or aside, the branch of that block, if valid, is   *)
(* no heavier than the main chain: TryAddOrReorg leaves no heavier fork    *)
(* behind that it could have adopted, even when another worker moved the   *)
(* tip between its steps.                                                  *)
(***************************************************************************)
Held == ToSet(blocks) \cup sideChains

Ends(w) == pc[w] # "idle" /\ pc'[w] = "idle"

NoHeavierForkLeft ==
  [][\A w \in Worker :
        LET b == block[w]
        IN  Ends(w) /\ BranchValid(b) /\ ~TooFarAhead(block[w], latest[w]) /\ Ancestors(b) \subseteq Held' =>
               calculateWork(blocks') >= calculateWork(Branch(b))]_vars

(***************************************************************************)
(* A payment that leaves the main chain in a reorganisation and that the   *)
(* new ledger would take is handed back to the caller, who returns it to   *)
(* the mempool.  The code compares only the parts beyond the fork point.   *)
(***************************************************************************)
DisplacedPaymentsReturned ==
  [][\A t \in Confirmed(blocks) \ Confirmed(blocks') :
        ~IsCoinbase(t) /\ CanApplyTransaction(ledger', t) => t \in returned'.orphans]_vars

\* The store of competing blocks never outgrows its limit.
SideChainsBounded == Cardinality(sideChains) <= MaxSide

(***************************************************************************)
(* The chain, seen from outside, is a heaviest-chain rule.                 *)
(***************************************************************************)
HC == INSTANCE HeaviestChain WITH chain <- blocks, Valid <- Validate,
                                  Work <- calculateWork

ImplementsHeaviestChain == HC!Spec

---------------------------------------------------------------------------
(* What the repository says of the chain and the code does not do.         *)

(***************************************************************************)
(* README.md on fork resolution by cumulative work of side chains: when no *)
(* call is in progress, no valid branch the node holds completely is       *)
(* heavier than its main chain.                                            *)
(***************************************************************************)
HeaviestHeldForkAdopted ==
  (\A w \in Worker : pc[w] = "idle") =>
     \A b \in Held : BranchValid(b) /\ Ancestors(b) \subseteq Held =>
        calculateWork(blocks) >= calculateWork(Branch(b))
============================================================================
