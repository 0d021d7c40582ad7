----------------------------- MODULE ChainProofs -----------------------------
(***************************************************************************)
(* Theorems about module Chain, for any tree of blocks, any number of      *)
(* workers and any bounds.                                                 *)
(***************************************************************************)
EXTENDS Chain, ChainRulesProofs

\* The blocks of a nonempty chain and its tip are blocks.
LEMMA TipType ==
  ASSUME TypeOK
  PROVE  Tip \in Block /\ Len(blocks) \in Nat \ {0}
BY TipOfType DEF TypeOK, Tip

\* The initial state has the right types.
LEMMA InitTypeOK == Init => TypeOK
BY BlockAssumption DEF Init, TypeOK, BlockAssumption, Result

---------------------------------------------------------------------------
\* A call that ends leaves its worker idle and its locals cleared.
LEMMA ReturnTypeOK ==
  ASSUME TypeOK, NEW w \in Worker, NEW orphans,
         NEW outcome \in {"added", "failed", "kept", "needsSync"},
         Return(w, outcome, orphans),
         blocks' \in Seq(Block) \ {<<>>},
         sideChains' \subseteq Announced
  PROVE  TypeOK'
<1>1. Genesis \in Block
  BY BlockAssumption DEF BlockAssumption
<1>2. /\ pc' \in [Worker -> {"idle", "tip_read", "reorg"}]
      /\ block' \in [Worker -> Block]
      /\ latest' \in [Worker -> Block]
      /\ hypothetical' \in [Worker -> Seq(Block)]
  BY <1>1 DEF TypeOK, Return
<1>3. returned'.outcome = outcome
  BY DEF Return, Result
<1>4. ASSUME NEW v \in Worker
      PROVE  /\ pc'[v] # "idle" => block'[v] \in Announced
             /\ pc'[v] = "reorg" => hypothetical'[v] # <<>>
  <2>1. CASE v = w
    BY <2>1 DEF TypeOK, Return
  <2>2. CASE v # w
    BY <2>2 DEF TypeOK, Return
  <2>3. QED
    BY <2>1, <2>2
<1>5. QED
  BY <1>2, <1>3, <1>4 DEF TypeOK

\* Every step keeps the types.
LEMMA NextTypeOK ==
  ASSUME TypeOK, [Next]_vars
  PROVE  TypeOK'
<1>1. ASSUME NEW w \in Worker, NEW b \in Announced, ReadTip(w, b)
      PROVE  TypeOK'
  <2>1. b \in Block
    BY DEF Announced
  <2>2. QED
    BY <1>1, <2>1, TipType DEF TypeOK, ReadTip, chainVars
<1>2. ASSUME NEW w \in Worker, TryAdd(w)
      PROVE  TypeOK'
  <2>1. block[w] \in Block
    BY DEF TypeOK
  <2>2. sideChains' = sideChains /\ sideChains \subseteq Announced
    BY <1>2 DEF TypeOK, TryAdd
  <2>3. CASE Extend(block[w]) /\ Return(w, "added", {})
    <3>1. blocks' \in Seq(Block) \ {<<>>}
      BY <2>1, <2>3 DEF TypeOK, Extend
    <3>2. QED
      BY <2>2, <2>3, <3>1, ReturnTypeOK
  <2>4. CASE UNCHANGED <<blocks, ledger>> /\ Return(w, "failed", {})
    <3>1. blocks' \in Seq(Block) \ {<<>>}
      BY <2>4 DEF TypeOK
    <3>2. QED
      BY <2>2, <2>4, <3>1, ReturnTypeOK
  <2>5. QED
    BY <1>2, <2>3, <2>4 DEF TryAdd
<1>3. ASSUME NEW w \in Worker, SkipTooFar(w)
      PROVE  TypeOK'
  <2>1. blocks' \in Seq(Block) \ {<<>>} /\ sideChains' \subseteq Announced
    BY <1>3 DEF TypeOK, SkipTooFar, chainVars
  <2>2. QED
    BY <1>3, <2>1, ReturnTypeOK DEF SkipTooFar
<1>4. ASSUME NEW w \in Worker, StoreAside(w)
      PROVE  TypeOK'
  <2>1. block[w] \in Announced /\ block[w] \in Block
    BY <1>4 DEF TypeOK, StoreAside
  <2>2. sideChains' \subseteq Announced
    BY <1>4, <2>1, StoredType DEF TypeOK, StoreAside
  <2>3. blocks' = blocks /\ blocks \in Seq(Block) \ {<<>>}
    BY <1>4 DEF TypeOK, StoreAside
  <2> DEFINE path == SidePath(sideChains', block[w])
  <2>4. path \in Seq(Block) \ {<<>>}
    <3>1. sideChains' \in SUBSET Block
      BY <2>2 DEF Announced
    <3>2. QED
      BY <2>1, <3>1, SidePathType
  <2>5. CASE /\ Heavier(blocks, path)
             /\ pc' = [pc EXCEPT ![w] = "reorg"]
             /\ hypothetical' = [hypothetical EXCEPT ![w] = Hypothetical(blocks, path)]
             /\ UNCHANGED <<block, latest, returned>>
    <3> HIDE DEF path
    <3>1. Hypothetical(blocks, path) \in Seq(Block) \ {<<>>}
      BY <2>3, <2>4, <2>5, HypotheticalType DEF Heavier
    <3>2. QED
      BY <2>1, <2>2, <2>3, <2>5, <3>1 DEF TypeOK
  <2>6. CASE Return(w, Unadopted(block[w], latest[w]), {})
    <3>1. Unadopted(block[w], latest[w]) \in {"needsSync", "kept"}
      BY DEF Unadopted
    <3>2. QED
      BY <2>2, <2>3, <2>6, <3>1, ReturnTypeOK
  <2>7. QED
    BY <1>4, <2>5, <2>6 DEF StoreAside
<1>5. ASSUME NEW w \in Worker, ReorgFromSide(w)
      PROVE  TypeOK'
  <2> DEFINE new == hypothetical[w]
  <2>1. new \in Seq(Block) \ {<<>>}
    BY <1>5 DEF TypeOK, ReorgFromSide
  <2>2. sideChains' = sideChains /\ sideChains \subseteq Announced
    BY <1>5 DEF TypeOK, ReorgFromSide
  <2>3. CASE Switch(new) /\ Return(w, Verdict(new).outcome, Verdict(new).orphans)
    <3>1. Verdict(new).outcome \in {"added", "failed"}
      BY DEF Verdict, Result
    <3>2. blocks' = new
      BY <2>3 DEF Switch
    <3> HIDE DEF new
    <3>3. QED
      BY <2>1, <2>2, <2>3, <3>1, <3>2, ReturnTypeOK
  <2>4. CASE UNCHANGED <<blocks, ledger>> /\ Return(w, "failed", {})
    <3>1. blocks' \in Seq(Block) \ {<<>>}
      BY <2>4 DEF TypeOK
    <3>2. QED
      BY <2>2, <2>4, <3>1, ReturnTypeOK
  <2>5. QED
    BY <1>5, <2>3, <2>4 DEF ReorgFromSide
<1>6. ASSUME NEW b \in Announced, AddBlock(b)
      PROVE  TypeOK'
  <2>1. blocks' \in Seq(Block) \ {<<>>}
    BY <1>6 DEF TypeOK, AddBlock, Extend, Announced
  <2>2. returned'.outcome = "added"
    BY <1>6 DEF AddBlock, Result
  <2>3. UNCHANGED <<sideChains, pc, block, latest, hypothetical>>
    BY <1>6 DEF AddBlock
  <2>4. QED
    BY <2>1, <2>2, <2>3 DEF TypeOK
<1>7. ASSUME NEW new \in PeerChains, ReorganiseTo(new)
      PROVE  TypeOK'
  <2>1. blocks' \in Seq(Block) \ {<<>>}
    BY <1>7, ChainAssumption DEF ReorganiseTo, Switch, ChainAssumption
  <2>2. returned'.outcome \in {"added", "failed"}
    BY <1>7 DEF ReorganiseTo, Verdict, Result
  <2>3. UNCHANGED <<sideChains, pc, block, latest, hypothetical>>
    BY <1>7 DEF ReorganiseTo
  <2>4. QED
    BY <2>1, <2>2, <2>3 DEF TypeOK
<1>8. CASE UNCHANGED vars
  BY <1>8 DEF TypeOK, vars
<1>9. QED
  BY <1>1, <1>2, <1>3, <1>4, <1>5, <1>6, <1>7, <1>8 DEF Next, WorkerStep

(***************************************************************************)
(* The chain, the store and the locals of every call in progress always    *)
(* have their types; in particular a chain about to be switched to is a    *)
(* nonempty sequence of blocks.                                            *)
(***************************************************************************)
THEOREM TypeCorrect == Spec => []TypeOK
<1>1. Init => TypeOK
  BY InitTypeOK
<1>2. TypeOK /\ [Next]_vars => TypeOK'
  BY NextTypeOK
<1>3. QED
  BY <1>1, <1>2, PTL DEF Spec

---------------------------------------------------------------------------
\* A step leaves chain and ledger alone, extends the tip by a block AddBlock
\* accepts, or switches to a chain ReorganiseTo accepts.
LEMMA ChainStep ==
  ASSUME TypeOK, [Next]_vars
  PROVE  \/ UNCHANGED <<blocks, ledger>>
         \/ \E b \in Block : Accepts(b) /\ Extend(b)
         \/ \E new \in Seq(Block) \ {<<>>} : Acceptable(blocks, new) /\ Switch(new)
<1>1. ASSUME NEW w \in Worker, WorkerStep(w)
      PROVE  \/ UNCHANGED <<blocks, ledger>>
             \/ \E b \in Block : Accepts(b) /\ Extend(b)
             \/ \E new \in Seq(Block) \ {<<>>} : Acceptable(blocks, new) /\ Switch(new)
  <2>1. CASE \E b \in Announced : ReadTip(w, b)
    BY <2>1 DEF ReadTip, chainVars
  <2>2. CASE TryAdd(w)
    <3>1. block[w] \in Block
      BY DEF TypeOK
    <3>2. QED
      BY <2>2, <3>1 DEF TryAdd
  <2>3. CASE SkipTooFar(w)
    BY <2>3 DEF SkipTooFar, chainVars
  <2>4. CASE StoreAside(w)
    BY <2>4 DEF StoreAside
  <2>5. CASE ReorgFromSide(w)
    <3>1. hypothetical[w] \in Seq(Block) \ {<<>>}
      BY <2>5 DEF TypeOK, ReorgFromSide
    <3>2. QED
      BY <2>5, <3>1 DEF ReorgFromSide
  <2>6. QED
    BY <1>1, <2>1, <2>2, <2>3, <2>4, <2>5 DEF WorkerStep
<1>2. ASSUME NEW b \in Announced, AddBlock(b)
      PROVE  \E c \in Block : Accepts(c) /\ Extend(c)
  BY <1>2 DEF AddBlock, Announced
<1>3. ASSUME NEW new \in PeerChains, ReorganiseTo(new)
      PROVE  \E n \in Seq(Block) \ {<<>>} : Acceptable(blocks, n) /\ Switch(n)
  BY <1>3, ChainAssumption DEF ReorganiseTo, ChainAssumption
<1>4. CASE UNCHANGED vars
  BY <1>4 DEF vars
<1>5. QED
  BY <1>1, <1>2, <1>3, <1>4 DEF Next

\* Every step keeps the main chain valid.
LEMMA NextChainValid ==
  ASSUME TypeOK, ChainValid, [Next]_vars
  PROVE  ChainValid'
<1>1. CASE UNCHANGED <<blocks, ledger>>
  BY <1>1 DEF ChainValid
<1>2. ASSUME NEW b \in Block, Accepts(b), Extend(b)
      PROVE  ChainValid'
  BY <1>2, ExtendValid DEF TypeOK, Accepts, Extend, Tip, ChainValid
<1>3. ASSUME NEW new \in Seq(Block) \ {<<>>}, Acceptable(blocks, new), Switch(new)
      PROVE  ChainValid'
  BY <1>3, AcceptableValid DEF TypeOK, Switch, ChainValid
<1>4. QED
  BY <1>1, <1>2, <1>3, ChainStep

(***************************************************************************)
(* The main chain is valid from genesis to tip at all times, whatever the  *)
(* workers interleave and whatever blocks and chains peers send, although  *)
(* a reorganisation validates only what lies beyond the fork point.        *)
(***************************************************************************)
THEOREM ChainAlwaysValid == Spec => []ChainValid
<1>1. Init => TypeOK /\ ChainValid
  BY InitTypeOK DEF Init, ChainValid, ValidChain
<1>2. TypeOK /\ ChainValid /\ [Next]_vars => (TypeOK /\ ChainValid)'
  BY NextTypeOK, NextChainValid
<1>3. QED
  BY <1>1, <1>2, PTL DEF Spec

---------------------------------------------------------------------------
(***************************************************************************)
(* The chain implements the heaviest-chain rule: every step that changes   *)
(* the main chain adds one valid block at the tip or installs a valid      *)
(* chain with strictly more work, and all other steps stutter.             *)
(***************************************************************************)
THEOREM Refinement == Spec => ImplementsHeaviestChain
<1>1. Init => HC!Init
  BY DEF Init, HC!Init
<1>2. TypeOK /\ ChainValid /\ [Next]_vars => [HC!Next]_blocks
  <2>1. SUFFICES ASSUME TypeOK, ChainValid, [Next]_vars
                 PROVE  [HC!Next]_blocks
    OBVIOUS
  <2>2. CASE UNCHANGED <<blocks, ledger>>
    BY <2>2
  <2>3. ASSUME NEW b \in Block, Accepts(b), Extend(b)
        PROVE  HC!Next
    BY <2>3 DEF Accepts, Extend, Tip, TipOf, HC!Next, HC!Extend
  <2>4. ASSUME NEW new \in Seq(Block) \ {<<>>}, Acceptable(blocks, new), Switch(new)
        PROVE  HC!Next
    <3>1. HC!IsChain(blocks')
      BY <2>1, <2>4, AcceptableValid DEF TypeOK, ChainValid, Switch, ValidChain, HC!IsChain
    <3>2. calculateWork(blocks') > calculateWork(blocks)
      BY <2>4 DEF Acceptable, Switch
    <3>3. QED
      BY <3>1, <3>2 DEF HC!Next, HC!Switch
  <2>5. QED
    BY <2>1, <2>2, <2>3, <2>4, ChainStep
<1>3. QED
  BY <1>1, <1>2, TypeCorrect, ChainAlwaysValid, PTL DEF Spec, HC!Spec, ImplementsHeaviestChain

---------------------------------------------------------------------------
\* Every step keeps the ledger in agreement with the main chain.
LEMMA NextLedgerMatches ==
  ASSUME NoBranchOverspends, TypeOK, ChainValid, LedgerMatchesChain, [Next]_vars
  PROVE  LedgerMatchesChain'
<1>1. CASE UNCHANGED <<blocks, ledger>>
  BY <1>1 DEF LedgerMatchesChain
<1>2. ASSUME NEW b \in Block, Accepts(b), Extend(b)
      PROVE  LedgerMatchesChain'
  <2>1. LedgerOf(blocks') = applyBlock(ledger, Transactions[b])
    BY <1>2, LedgerOfAppend DEF TypeOK, Extend, LedgerMatchesChain
  <2>2. QED
    BY <1>2, <2>1 DEF Accepts, Extend, LedgerMatchesChain
<1>3. ASSUME NEW new \in Seq(Block) \ {<<>>}, Acceptable(blocks, new), Switch(new)
      PROVE  LedgerMatchesChain'
  <2>1. LedgerOf(new).ok
    BY <1>3, AcceptableValid, ValidChainApplies DEF TypeOK, ChainValid
  <2>2. QED
    BY <1>3, <2>1 DEF Switch, LedgerMatchesChain
<1>4. QED
  BY <1>1, <1>2, <1>3, ChainStep

(***************************************************************************)
(* As long as no block overspends its own branch, the ledger is at all     *)
(* times the one that replaying the main chain gives, through extensions,  *)
(* reorganisations and every interleaving of them.  The hypothesis cannot  *)
(* be dropped: ReorganiseTo switches blocks before it knows that they can  *)
(* be applied.                                                             *)
(***************************************************************************)
THEOREM LedgerAlwaysMatches ==
  ASSUME NoBranchOverspends
  PROVE  Spec => []LedgerMatchesChain
<1>1. Init => LedgerMatchesChain
  BY LedgerOfGenesis DEF Init, LedgerMatchesChain
<1>2. TypeOK /\ ChainValid /\ LedgerMatchesChain /\ [Next]_vars => LedgerMatchesChain'
  BY NextLedgerMatches
<1>3. QED
  BY <1>1, <1>2, TypeCorrect, ChainAlwaysValid, PTL DEF Spec

---------------------------------------------------------------------------
\* A step that is no reorganisation keeps or extends the chain; one that is
\* returns the orphans of the chain it switched to.
LEMMA DisplacingStep ==
  ASSUME NoBranchOverspends, TypeOK, ChainValid, [Next]_vars
  PROVE  \/ blocks' = blocks
         \/ \E b \in Block : blocks' = Append(blocks, b)
         \/ \E new \in Seq(Block) \ {<<>>} : /\ Switch(new)
                                             /\ returned'.orphans = Orphans(blocks, new)
<1>1. ASSUME NEW new \in Seq(Block) \ {<<>>}, Acceptable(blocks, new)
      PROVE  Verdict(new).orphans = Orphans(blocks, new)
  <2>1. LedgerOf(new).ok
    BY <1>1, AcceptableValid, ValidChainApplies DEF TypeOK, ChainValid
  <2>2. QED
    BY <2>1 DEF Verdict, Result
<1>2. ASSUME NEW w \in Worker, WorkerStep(w)
      PROVE  \/ blocks' = blocks
             \/ \E b \in Block : blocks' = Append(blocks, b)
             \/ \E new \in Seq(Block) \ {<<>>} : /\ Switch(new)
                                                 /\ returned'.orphans = Orphans(blocks, new)
  <2>1. CASE \E b \in Announced : ReadTip(w, b)
    BY <2>1 DEF ReadTip, chainVars
  <2>2. CASE TryAdd(w)
    <3>1. block[w] \in Block
      BY DEF TypeOK
    <3>2. QED
      BY <2>2, <3>1 DEF TryAdd, Extend
  <2>3. CASE SkipTooFar(w) \/ StoreAside(w)
    BY <2>3 DEF SkipTooFar, StoreAside, chainVars
  <2>4. CASE ReorgFromSide(w)
    <3>1. hypothetical[w] \in Seq(Block) \ {<<>>}
      BY <2>4 DEF TypeOK, ReorgFromSide
    <3>2. CASE blocks' = blocks
      BY <3>2
    <3>3. CASE /\ Acceptable(blocks, hypothetical[w])
               /\ Switch(hypothetical[w])
               /\ Return(w, Verdict(hypothetical[w]).outcome, Verdict(hypothetical[w]).orphans)
      BY <1>1, <3>1, <3>3 DEF Return, Result
    <3>4. QED
      BY <2>4, <3>2, <3>3 DEF ReorgFromSide
  <2>5. QED
    BY <1>2, <2>1, <2>2, <2>3, <2>4 DEF WorkerStep
<1>3. ASSUME NEW b \in Announced, AddBlock(b)
      PROVE  \E c \in Block : blocks' = Append(blocks, c)
  BY <1>3 DEF AddBlock, Extend, Announced
<1>4. ASSUME NEW n \in PeerChains, ReorganiseTo(n)
      PROVE  \E new \in Seq(Block) \ {<<>>} : /\ Switch(new)
                                             /\ returned'.orphans = Orphans(blocks, new)
  <2>1. n \in Seq(Block) \ {<<>>}
    BY ChainAssumption DEF ChainAssumption
  <2>2. QED
    BY <1>1, <1>4, <2>1 DEF ReorganiseTo
<1>5. CASE UNCHANGED vars
  BY <1>5 DEF vars
<1>6. QED
  BY <1>2, <1>3, <1>4, <1>5 DEF Next

(***************************************************************************)
(* Where no block overspends its branch, every payment that a              *)
(* reorganisation displaces and the new ledger would take is returned to   *)
(* the caller.                                                             *)
(***************************************************************************)
THEOREM DisplacedAlwaysReturned ==
  ASSUME NoBranchOverspends
  PROVE  Spec => DisplacedPaymentsReturned
<1> DEFINE Returned == \A t \in Confirmed(blocks) \ Confirmed(blocks') :
                          ~IsCoinbase(t) /\ CanApplyTransaction(ledger', t)
                             => t \in returned'.orphans
<1>1. TypeOK /\ ChainValid /\ [Next]_vars => Returned
  <2>1. SUFFICES ASSUME TypeOK, ChainValid, [Next]_vars,
                        NEW t \in Confirmed(blocks) \ Confirmed(blocks'),
                        ~IsCoinbase(t), CanApplyTransaction(ledger', t)
                 PROVE  t \in returned'.orphans
    OBVIOUS
  <2>2. CASE blocks' = blocks
    BY <2>1, <2>2
  <2>3. ASSUME NEW b \in Block, blocks' = Append(blocks, b)
        PROVE  Confirmed(blocks) \subseteq Confirmed(blocks')
    <3>1. \A i \in DOMAIN blocks : i \in DOMAIN blocks' /\ blocks'[i] = blocks[i]
      BY <2>1, <2>3 DEF TypeOK
    <3>2. QED
      BY <3>1 DEF Confirmed, TxsBeyond
  <2>4. ASSUME NEW new \in Seq(Block) \ {<<>>}, Switch(new), returned'.orphans = Orphans(blocks, new)
        PROVE  t \in returned'.orphans
    BY <2>1, <2>4, DisplacedAreOrphans DEF TypeOK, Switch
  <2>5. QED
    BY <2>1, <2>2, <2>3, <2>4, DisplacingStep
<1>2. QED
  BY <1>1, TypeCorrect, ChainAlwaysValid, PTL DEF Spec, DisplacedPaymentsReturned

---------------------------------------------------------------------------
(***************************************************************************)
(* Random eviction keeps the store of competing blocks within its limit.   *)
(***************************************************************************)
THEOREM SideChainsAlwaysBounded == Spec => []SideChainsBounded
<1> DEFINE IInv == IsFiniteSet(sideChains) /\ SideChainsBounded
<1>1. Init => IInv
  BY FS_EmptySet, BlockAssumption DEF Init, SideChainsBounded, BlockAssumption
<1>2. IInv /\ [Next]_vars => IInv'
  <2>1. SUFFICES ASSUME IInv, [Next]_vars
                 PROVE  IInv'
    OBVIOUS
  <2>2. CASE sideChains' = sideChains
    BY <2>1, <2>2 DEF SideChainsBounded
  <2>3. ASSUME NEW w \in Worker, StoreAside(w)
        PROVE  IInv'
    BY <2>1, <2>3, StoredBounded DEF StoreAside, SideChainsBounded
  <2>4. QED
    BY <2>1, <2>2, <2>3 DEF Next, WorkerStep, ReadTip, TryAdd, SkipTooFar, ReorgFromSide,
                            AddBlock, ReorganiseTo, chainVars, vars
<1>3. QED
  BY <1>1, <1>2, PTL DEF Spec

---------------------------------------------------------------------------
(***************************************************************************)
(* Every change of the main chain adds work (AddBlock, ReorganiseTo, and   *)
(* TryAddOrReorg with a tip read long ago), where no work wraps around.    *)
(***************************************************************************)
THEOREM WorkAlwaysGrows ==
  ASSUME NoWorkWraps
  PROVE  Spec => WorkGrows
<1>1. TypeOK /\ ChainValid /\ [Next]_vars => [calculateWork(blocks') > calculateWork(blocks)]_blocks
  <2>1. SUFFICES ASSUME TypeOK, ChainValid, [Next]_vars, blocks' # blocks
                 PROVE  calculateWork(blocks') > calculateWork(blocks)
    OBVIOUS
  <2>2. ASSUME NEW b \in Block, Accepts(b), Extend(b)
        PROVE  calculateWork(blocks') > calculateWork(blocks)
    BY <2>1, <2>2, ExtendHeavier DEF TypeOK, ChainValid, Accepts, Extend, Tip
  <2>3. ASSUME NEW new \in Seq(Block) \ {<<>>}, Acceptable(blocks, new), Switch(new)
        PROVE  calculateWork(blocks') > calculateWork(blocks)
    BY <2>3 DEF Acceptable, Switch
  <2>4. QED
    BY <2>1, <2>2, <2>3, ChainStep
<1>2. QED
  BY <1>1, TypeCorrect, ChainAlwaysValid, PTL DEF Spec, WorkGrows

---------------------------------------------------------------------------
\* A block that once was the tip: the chain is longer now, or it still is.
WasTip(b) ==
  /\ BranchValid(b)
  /\ Len(Branch(b)) <= Len(blocks)
  /\ Len(Branch(b)) = Len(blocks) => b = Tip

\* What a call in progress knows: the tip it read was the tip, and the chain
\* it is about to switch to is the branch of its block.
CallInv ==
  \A w \in Worker :
     /\ pc[w] # "idle" => WasTip(latest[w])
     /\ pc[w] = "reorg" => hypothetical[w] = Branch(block[w])

\* Chains that change get longer.
LEMMA Lengthens ==
  ASSUME NoWorkWraps, TypeOK, ChainValid, [Next]_vars
  PROVE  blocks' = blocks \/ Len(blocks') > Len(blocks)
<1>1. ASSUME NEW b \in Block, Extend(b)
      PROVE  Len(blocks') > Len(blocks)
  BY <1>1 DEF Extend, TypeOK
<1>2. ASSUME NEW new \in Seq(Block) \ {<<>>}, Acceptable(blocks, new), Switch(new)
      PROVE  Len(blocks') > Len(blocks)
  <2>1. ValidChain(new) /\ calculateWork(new) > calculateWork(blocks)
    BY <1>2, AcceptableValid DEF TypeOK, ChainValid, Acceptable
  <2>2. Len(new) > Len(blocks)
    BY <2>1, HeavierIsLonger DEF TypeOK, ChainValid
  <2>3. QED
    BY <1>2, <2>2 DEF Switch
<1>3. QED
  BY <1>1, <1>2, ChainStep

\* So what was the tip stays a former tip.
LEMMA WasTipStays ==
  ASSUME NoWorkWraps, TypeOK, ChainValid, [Next]_vars, NEW b \in Block, WasTip(b)
  PROVE  WasTip(b)'
<1>1. Len(blocks) \in Nat /\ Len(blocks') \in Nat /\ Len(Branch(b)) \in Nat
  <2>1. blocks \in Seq(Block) /\ blocks' \in Seq(Block)
    BY NextTypeOK DEF TypeOK
  <2>2. Branch(b) \in Seq(Block)
    BY BranchEnds
  <2>3. QED
    BY <2>1, <2>2
<1>2. CASE blocks' = blocks
  BY <1>2 DEF WasTip, Tip
<1>3. CASE Len(blocks') > Len(blocks)
  BY <1>1, <1>3 DEF WasTip
<1>4. QED
  BY <1>2, <1>3, Lengthens

\* The present tip is one, and its branch is the chain.
LEMMA TipIsWasTip ==
  ASSUME TypeOK, ChainValid
  PROVE  Branch(Tip) = blocks /\ WasTip(Tip)
<1>1. Branch(Tip) = blocks
  BY ChainIsBranch DEF TypeOK, ChainValid, Tip, TipOf
<1>2. Len(blocks) \in Nat
  BY DEF TypeOK
<1>3. QED
  BY <1>1, <1>2 DEF WasTip, BranchValid, ChainValid

\* Every step keeps what calls know.
LEMMA NextCallInv ==
  ASSUME NoWorkWraps, TypeOK, ChainValid, CallInv, [Next]_vars
  PROVE  CallInv'
<1>1. SUFFICES ASSUME NEW v \in Worker
               PROVE  /\ pc'[v] # "idle" => WasTip(latest[v])'
                      /\ pc'[v] = "reorg" => hypothetical'[v] = Branch(block'[v])
  BY DEF CallInv
<1>2. latest[v] \in Block /\ block[v] \in Block
  BY DEF TypeOK
<1>3. CASE /\ pc'[v] = pc[v] /\ latest'[v] = latest[v]
           /\ block'[v] = block[v] /\ hypothetical'[v] = hypothetical[v]
  <2>1. CASE pc[v] = "idle"
    BY <1>3, <2>1
  <2>2. CASE pc[v] # "idle"
    <3> DEFINE b == latest[v]
    <3>1. WasTip(b) /\ b \in Block
      BY <1>2, <2>2 DEF CallInv
    <3>2. latest'[v] = latest[v]
      BY <1>3
    <3>3. WasTip(latest[v])'
      <4>1. ASSUME NEW c \in Block, c = latest[v]
            PROVE  WasTip(c)'
        BY <3>1, <4>1, WasTipStays
      <4>2. QED
        BY <1>2, <3>2, <4>1 DEF WasTip
    <3>4. pc[v] = "reorg" => hypothetical[v] = Branch(block[v])
      BY DEF CallInv
    <3>5. QED
      BY <1>3, <3>3, <3>4
  <2>3. QED
    BY <2>1, <2>2
<1>4. CASE pc'[v] = "idle"
  BY <1>4
<1>5. ASSUME NEW b \in Announced, ReadTip(v, b)
      PROVE  pc'[v] = "tip_read" /\ WasTip(latest[v])'
  <2>1. /\ pc'[v] = "tip_read" /\ latest'[v] = Tip
        /\ blocks' = blocks
    BY <1>5 DEF ReadTip, TypeOK, chainVars
  <2>2. QED
    BY <2>1, TipIsWasTip DEF WasTip, Tip
<1>6. ASSUME StoreAside(v), pc'[v] # "idle"
      PROVE  WasTip(latest[v])' /\ hypothetical'[v] = Branch(block'[v])
  <2> DEFINE path == SidePath(sideChains', block[v])
  <2>1. /\ Heavier(blocks, path)
        /\ hypothetical' = [hypothetical EXCEPT ![v] = Hypothetical(blocks, path)]
        /\ UNCHANGED <<block, latest, blocks>> /\ pc[v] = "tip_read"
    BY <1>6 DEF StoreAside, Return, TypeOK
  <2>2. block[v] \in Announced /\ sideChains' \subseteq Announced
    BY <2>1, NextTypeOK DEF TypeOK
  <2>3. Hypothetical(blocks, path) = Branch(block[v])
    BY <2>1, <2>2, HypotheticalIsBranch DEF TypeOK, ChainValid, Heavier
  <2>4. hypothetical'[v] = Branch(block'[v])
    BY <2>1, <2>3 DEF TypeOK
  <2>5. WasTip(latest[v])
    BY <2>1 DEF CallInv
  <2>6. QED
    BY <2>1, <2>4, <2>5 DEF WasTip, Tip
<1>7. CASE \E w \in Worker : WorkerStep(w)
  <2>1. PICK w \in Worker : WorkerStep(w)
    BY <1>7
  <2>2. CASE w # v
    <3>1. /\ pc'[v] = pc[v] /\ latest'[v] = latest[v]
          /\ block'[v] = block[v] /\ hypothetical'[v] = hypothetical[v]
      BY <2>1, <2>2 DEF WorkerStep, ReadTip, TryAdd, SkipTooFar, StoreAside, ReorgFromSide,
                        Return, TypeOK
    <3>2. QED
      BY <1>3, <3>1
  <2>3. CASE w = v
    <3>1. CASE TryAdd(v) \/ SkipTooFar(v) \/ ReorgFromSide(v)
      <4>1. pc'[v] = "idle"
        BY <3>1 DEF TryAdd, SkipTooFar, ReorgFromSide, Return, TypeOK
      <4>2. QED
        BY <1>4, <4>1
    <3>2. QED
      BY <1>4, <1>5, <1>6, <2>1, <2>3, <3>1 DEF WorkerStep
  <2>4. QED
    BY <2>2, <2>3
<1>8. CASE \/ \E b \in Announced : AddBlock(b)
           \/ \E new \in PeerChains : ReorganiseTo(new)
           \/ UNCHANGED vars
  BY <1>3, <1>8 DEF AddBlock, ReorganiseTo, vars
<1>9. QED
  BY <1>7, <1>8 DEF Next

\* A call that ends leaves no heavier branch of its block behind.
LEMMA EndsHeavy ==
  ASSUME NoWorkWraps, NoBranchOverspends, TypeOK, ChainValid, LedgerMatchesChain, CallInv,
         [Next]_vars, NEW w \in Worker, Ends(w), BranchValid(block[w]),
         ~TooFarAhead(block[w], latest[w]), Ancestors(block[w]) \subseteq Held'
  PROVE  calculateWork(blocks') >= calculateWork(Branch(block[w]))
<1> DEFINE b == block[w]
           branch == Branch(b)
<1>1. pc[w] # "idle" /\ pc'[w] = "idle"
  BY DEF Ends
<1>2. b \in Announced /\ b \in Block /\ latest[w] \in Block
  BY <1>1 DEF TypeOK, Announced
<1>3. branch \in Seq(Block) \ {<<>>} /\ ValidChain(branch) /\ branch[Len(branch)] = b
  BY <1>2, BranchEnds DEF TipOf, BranchValid
<1>4. WasTip(latest[w])
  BY <1>1 DEF CallInv
<1>5. /\ blocks \in Seq(Block) \ {<<>>} /\ ValidChain(blocks)
      /\ calculateWork(blocks) \in Nat /\ calculateWork(branch) \in Nat
  BY <1>3, WorkType DEF TypeOK, ChainValid
<1>6. CASE blocks' = branch
  BY <1>5, <1>6
<1>7. CASE TryAdd(w)
  <2>1. CASE Accepts(b) /\ Extend(b)
    <3>1. Validate(b, TipOf(blocks)) /\ blocks' = Append(blocks, b)
      BY <2>1 DEF Accepts, Extend, Tip
    <3>2. Append(blocks, b) \in Seq(Block) \ {<<>>} /\ ValidChain(Append(blocks, b))
      BY <1>2, <1>5, <3>1, ExtendValid
    <3>3. Append(blocks, b)[Len(Append(blocks, b))] = b
      <4> HIDE DEF b
      <4>1. QED
        BY <1>2, <1>5
    <3>4. blocks' = branch
      BY <3>1, <3>2, <3>3, ChainIsBranch
    <3>5. QED
      BY <1>6, <3>4
  <2>2. CASE ~Accepts(b) /\ blocks' = blocks
    <3>1. PrevHash[b] = latest[w]
      BY <1>7 DEF TryAdd, DirectExtension
    <3>2. branch = Append(Branch(latest[w]), b) /\ Validate(b, latest[w])
      BY <1>2, <3>1, BranchGrows
    <3>3. Branch(latest[w]) \in Seq(Block) \ {<<>>}
      BY <1>2, BranchEnds
    <3>4. Len(branch) = Len(Branch(latest[w])) + 1 /\ Len(Branch(latest[w])) \in Nat
      <4> HIDE DEF b, branch
      <4>1. QED
        BY <1>2, <3>2, <3>3
    <3>5. Len(Branch(latest[w])) # Len(blocks)
      <4>1. SUFFICES ASSUME Len(Branch(latest[w])) = Len(blocks) PROVE FALSE
        OBVIOUS
      <4>2. latest[w] = Tip /\ Branch(Tip) = blocks
        BY <1>4, <4>1, TipIsWasTip DEF WasTip
      <4>3. branch = Append(blocks, b) /\ Validate(b, Tip)
        BY <3>2, <4>2
      <4>4. LedgerOf(Append(blocks, b)).ok
        BY <1>2, <4>3 DEF NoBranchOverspends
      <4>5. LedgerOf(Append(blocks, b)) = applyBlock(ledger, Transactions[b])
        BY <1>2, <1>5, LedgerOfAppend DEF LedgerMatchesChain
      <4>6. Accepts(b)
        BY <4>3, <4>4, <4>5 DEF Accepts
      <4>7. QED
        BY <2>2, <4>6
    <3>6. Len(branch) <= Len(blocks)
      <4>1. Len(blocks) \in Nat /\ Len(Branch(latest[w])) <= Len(blocks)
        BY <1>4, <1>5 DEF WasTip
      <4> HIDE DEF branch
      <4>2. QED
        BY <3>4, <3>5, <4>1
    <3>7. calculateWork(branch) <= calculateWork(blocks)
      <4> HIDE DEF branch
      <4>1. QED
        BY <1>3, <1>5, <3>6, LongerIsHeavier
    <3>8. QED
      BY <1>5, <2>2, <3>7
  <2>3. QED
    BY <1>7, <2>1, <2>2 DEF TryAdd
<1>8. CASE StoreAside(w)
  <2> DEFINE path == SidePath(sideChains', b)
  <2>1. blocks' = blocks /\ ~Heavier(blocks, path)
    BY <1>1, <1>8 DEF StoreAside, TypeOK
  <2>2. sideChains' \subseteq Announced
    BY NextTypeOK DEF TypeOK
  <2>3. Ancestors(b) \subseteq ToSet(blocks) \cup sideChains'
    BY <2>1 DEF Held
  <2>4. Connects(blocks, path)
    BY <1>2, <1>5, <2>2, <2>3, HeldBranchConnects
  <2>5. Hypothetical(blocks, path) = branch
    BY <1>2, <1>5, <2>2, <2>4, HypotheticalIsBranch
  <2>6. ~(calculateWork(branch) > calculateWork(blocks))
    BY <2>1, <2>4, <2>5 DEF Heavier
  <2>7. QED
    BY <1>5, <2>1, <2>6
<1>9. CASE ReorgFromSide(w)
  <2>1. hypothetical[w] = branch
    BY <1>9 DEF ReorgFromSide, CallInv
  <2>2. CASE Switch(hypothetical[w])
    BY <1>6, <2>1, <2>2 DEF Switch
  <2>3. CASE ~Acceptable(blocks, hypothetical[w]) /\ blocks' = blocks
    <3>1. branch[1] = blocks[1] /\ \A i \in 2 .. Len(branch) : Validate(branch[i], branch[i-1])
      BY <1>3, <1>5 DEF ValidChain
    <3>2. ~(calculateWork(branch) > calculateWork(blocks))
      BY <2>1, <2>3, <3>1 DEF Acceptable
    <3>3. QED
      BY <1>5, <2>3, <3>2
  <2>4. QED
    BY <1>9, <2>2, <2>3 DEF ReorgFromSide
<1>10. TryAdd(w) \/ StoreAside(w) \/ ReorgFromSide(w)
  <2>1. PICK v \in Worker : WorkerStep(v)
    BY <1>1 DEF Next, AddBlock, ReorganiseTo, vars
  <2>2. v = w
    BY <1>1, <2>1 DEF WorkerStep, ReadTip, TryAdd, SkipTooFar, StoreAside, ReorgFromSide, Return, TypeOK
  <2>3. ~SkipTooFar(w) /\ \A c \in Announced : ~ReadTip(w, c)
    BY <1>1 DEF SkipTooFar, ReadTip
  <2>4. QED
    BY <2>1, <2>2, <2>3 DEF WorkerStep
<1>11. QED
  BY <1>7, <1>8, <1>9, <1>10

(***************************************************************************)
(* A call of TryAddOrReorg for a block whose ancestors are on the main     *)
(* chain or kept aside ends with a main chain at least as heavy as that    *)
(* block's branch, whatever others did between its steps.  The tip a call  *)
(* has read may be stale, but then the chain has grown by a block of the   *)
(* same work.  The hypotheses: AddBlock refuses a block that overspends,   *)
(* however heavy its branch, and a branch whose work wraps around looks    *)
(* lighter than it is.                                                     *)
(***************************************************************************)
THEOREM NoHeavierForkIsLeft ==
  ASSUME NoWorkWraps, NoBranchOverspends
  PROVE  Spec => NoHeavierForkLeft
<1> DEFINE LeavesNone ==
      \A w \in Worker :
         LET b == block[w]
         IN  Ends(w) /\ BranchValid(b) /\ ~TooFarAhead(block[w], latest[w]) /\ Ancestors(b) \subseteq Held' =>
                calculateWork(blocks') >= calculateWork(Branch(b))
<1>1. Init => CallInv
  BY DEF Init, CallInv
<1>2. TypeOK /\ ChainValid /\ CallInv /\ [Next]_vars => CallInv'
  BY NextCallInv
<1>3. TypeOK /\ ChainValid /\ LedgerMatchesChain /\ CallInv /\ [Next]_vars => LeavesNone
  BY EndsHeavy
<1>4. Spec => []LedgerMatchesChain
  BY LedgerAlwaysMatches
<1>5. QED
  BY <1>1, <1>2, <1>3, <1>4, TypeCorrect, ChainAlwaysValid, PTL DEF Spec, NoHeavierForkLeft
==============================================================================
