----------------------------- MODULE NodeProofs -----------------------------
(***************************************************************************)
(* A node uses its chain only as module Chain allows, so the theorems      *)
(* about Chain hold of the chain of a node, for any number of handlers,    *)
(* syncs and peers.  What a node holds beside its chain follows, and last  *)
(* why its miner may read pool, ledger and tip one after the other.        *)
(***************************************************************************)
EXTENDS Node, ChainProofs

\* What a goroutine holds when it is about to call the chain.
Wiring ==
  /\ TypeOK
  /\ stage \in [Worker -> Stages]
  /\ received \in [Worker -> Block]
  /\ todo \in [Worker -> Seq(Peer)]
  /\ fetched \in [Worker -> Seq(Block)]
  /\ attempt.block \in Block
  /\ \A w \in Worker : stage[w] \in {"markBlock", "call"} => received[w] \in Announced
  /\ \A w \in Worker : stage[w] \in {"compare", "append", "replace"} => todo[w] # <<>>
  /\ \A w \in Worker : stage[w] \in {"compare", "append"} => fetched[w] # <<>>

\* A block that AddBlock accepts is not genesis: its index is the tip's plus one.
LEMMA AcceptedIsAnnounced ==
  ASSUME TypeOK, NEW b \in Block, Accepts(b)
  PROVE  b \in Announced
<1>1. Tip \in Block
  BY TipType
<1>2. Index[Tip] \in Nat /\ Index[b] = Index[Tip] + 1
  BY <1>1, BlockAssumption DEF BlockAssumption, Accepts, Validate
<1>3. Index[b] # 0
  BY <1>2
<1>4. QED
  BY <1>3 DEF Announced

\* Every step of the node is a step of its chain, or leaves the chain alone.
LEMMA NodeStep ==
  ASSUME Wiring, [NodeNext]_nodeVars
  PROVE  [Next]_vars
<1>1. CASE UNCHANGED nodeVars
  BY <1>1 DEF nodeVars
<1>2. CASE Mine
  <2>1. CASE AddMinedBlock
    <3>1. CASE AddBlock(attempt.block)
      <4>1. attempt.block \in Announced
        BY <3>1, AcceptedIsAnnounced DEF AddBlock, Wiring
      <4>2. QED
        BY <3>1, <4>1 DEF Next
    <3>2. CASE UNCHANGED vars
      BY <3>2
    <3>3. QED
      BY <2>1, <3>1, <3>2 DEF AddMinedBlock
  <2>2. CASE ReadPool \/ FilterPool \/ BuildBlock \/ FindBlock \/ GiveUp
    BY <2>2 DEF ReadPool, FilterPool, BuildBlock, FindBlock, GiveUp
  <2>3. CASE RemoveMined \/ OnBlockMined
    BY <2>3 DEF RemoveMined, OnBlockMined
  <2>4. QED
    BY <1>2, <2>1, <2>2, <2>3 DEF Mine
<1>3. ASSUME NEW w \in Worker,
             Submit(w) \/ Receive(w) \/ Handle(w) \/ StartPeriodicSync(w) \/ Sync(w)
      PROVE  [Next]_vars
  <2>1. CASE Submit(w) \/ Receive(w) \/ StartPeriodicSync(w)
    BY <2>1 DEF Submit, Receive, StartPeriodicSync, SubmitTransaction, ReceiveBlock
  <2>2. CASE MarkTx(w) \/ CheckTx(w) \/ AddTx(w) \/ MarkBlock(w)
    BY <2>2 DEF MarkTx, CheckTx, AddTx, MarkBlock
  <2>3. CASE RemoveByBlock(w) \/ ReturnOrphaned(w) \/ Notify(w)
    BY <2>3 DEF RemoveByBlock, ReturnOrphaned, Notify
  <2>4. CASE AskPeer(w) \/ Compare(w) \/ EndSync(w)
    BY <2>4 DEF AskPeer, Compare, EndSync
  <2>5. CASE CallTryAddOrReorg(w)
    <3>1. received[w] \in Announced /\ ReadTip(w, received[w])
      BY <2>5 DEF CallTryAddOrReorg, Wiring
    <3>2. WorkerStep(w)
      BY <3>1 DEF WorkerStep
    <3>3. QED
      BY <3>2 DEF Next
  <2>6. CASE Process(w)
    <3>1. WorkerStep(w)
      BY <2>6 DEF Process, TryAddOrReorg, WorkerStep
    <3>2. QED
      BY <3>1 DEF Next
  <2>7. CASE AppendFetched(w)
    <3>1. fetched[w][1] \in Block
      <4>1. fetched[w] \in Seq(Block) /\ fetched[w] # <<>>
        BY <2>7 DEF AppendFetched, Wiring
      <4>2. QED
        BY <4>1
    <3>2. CASE AddBlock(fetched[w][1])
      <4>1. fetched[w][1] \in Announced
        BY <3>1, <3>2, AcceptedIsAnnounced DEF AddBlock, Wiring
      <4>2. QED
        BY <3>2, <4>1 DEF Next
    <3>3. CASE UNCHANGED vars
      BY <3>3
    <3>4. QED
      BY <2>7, <3>2, <3>3 DEF AppendFetched
  <2>8. CASE ReplaceChain(w)
    <3>1. Head(todo[w]) \in Peer
      <4>1. todo[w] \in Seq(Peer) /\ todo[w] # <<>>
        BY <2>8 DEF ReplaceChain, Wiring
      <4>2. QED
        BY <4>1
    <3>2. Serves[Head(todo[w])] \subseteq PeerChains \cup {<<>>}
      BY <3>1, NodeAssumption DEF NodeAssumption
    <3>3. PICK chain \in Serves[Head(todo[w])] :
             \/ chain # <<>> /\ ReorganiseTo(chain)
             \/ UNCHANGED vars
      BY <2>8 DEF ReplaceChain
    <3>4. QED
      BY <3>2, <3>3 DEF Next
  <2>9. QED
    BY <1>3, <2>1, <2>2, <2>3, <2>4, <2>5, <2>6, <2>7, <2>8 DEF Handle, Sync
<1>4. QED
  BY <1>1, <1>2, <1>3 DEF NodeNext

---------------------------------------------------------------------------
\* What is left of a list of blocks that has more than one.
LEMMA TailNonempty ==
  ASSUME NEW s \in Seq(Block), Len(s) > 1
  PROVE  Tail(s) \in Seq(Block) /\ Tail(s) # <<>>
<1>1. Len(s) \in Nat /\ s # <<>>
  OBVIOUS
<1>2. Tail(s) \in Seq(Block) /\ Len(Tail(s)) = Len(s) - 1
  BY <1>1
<1>3. Len(Tail(s)) # 0
  BY <1>1, <1>2
<1>4. QED
  BY <1>2, <1>3

\* Wiring without the types of the chain.
NodeWiring ==
  /\ stage \in [Worker -> Stages]
  /\ received \in [Worker -> Block]
  /\ todo \in [Worker -> Seq(Peer)]
  /\ fetched \in [Worker -> Seq(Block)]
  /\ attempt.block \in Block
  /\ \A w \in Worker : stage[w] \in {"markBlock", "call"} => received[w] \in Announced
  /\ \A w \in Worker : stage[w] \in {"compare", "append", "replace"} => todo[w] # <<>>
  /\ \A w \in Worker : stage[w] \in {"compare", "append"} => fetched[w] # <<>>

\* A goroutine that goes on to a stage that needs nothing, or ends, keeps it.
LEMMA GotoWiring ==
  ASSUME NodeWiring, NEW w \in Worker, attempt'.block = attempt.block,
         NEW next \in Stages \ {"markBlock", "call", "compare", "append", "replace"},
         Goto(w, next) \/ End(w)
  PROVE  NodeWiring'
<1>1. Genesis \in Block /\ <<>> \in Seq(Peer) /\ <<>> \in Seq(Block)
  BY BlockAssumption DEF BlockAssumption
<1>2. CASE Goto(w, next)
  BY <1>2 DEF Goto, locals, NodeWiring, Announced, Stages
<1>3. CASE End(w)
  BY <1>1, <1>3 DEF End, NodeWiring, Announced, Stages
<1>4. QED
  BY <1>2, <1>3

\* A goroutine that goes on with other peers or blocks keeps it, if it has
\* what its next stage needs.
LEMMA UpdateWiring ==
  ASSUME NodeWiring, NEW w \in Worker, attempt'.block = attempt.block,
         NEW next \in Stages \ {"markBlock", "call"},
         NEW peers \in Seq(Peer), NEW new \in Seq(Block),
         next \in {"compare", "append", "replace"} => peers # <<>>,
         next \in {"compare", "append"} => new # <<>>,
         stage' = [stage EXCEPT ![w] = next],
         received' = received,
         todo' = [todo EXCEPT ![w] = peers],
         fetched' = [fetched EXCEPT ![w] = new]
  PROVE  NodeWiring'
<1>1. /\ stage' \in [Worker -> Stages]
      /\ received' \in [Worker -> Block]
      /\ todo' \in [Worker -> Seq(Peer)]
      /\ fetched' \in [Worker -> Seq(Block)]
      /\ attempt'.block \in Block
  BY DEF NodeWiring
<1>2. \A v \in Worker : stage'[v] \in {"markBlock", "call"} => received'[v] \in Announced
  BY DEF NodeWiring
<1>3. \A v \in Worker : stage'[v] \in {"compare", "append", "replace"} => todo'[v] # <<>>
  BY DEF NodeWiring
<1>4. \A v \in Worker : stage'[v] \in {"compare", "append"} => fetched'[v] # <<>>
  BY DEF NodeWiring
<1>5. QED
  BY <1>1, <1>2, <1>3, <1>4 DEF NodeWiring, Announced, Stages

\* So does a sync that goes on to the next peer.
LEMMA NextPeerWiring ==
  ASSUME NodeWiring, NEW w \in Worker, todo[w] # <<>>, NextPeer(w),
         UNCHANGED <<received, attempt>>
  PROVE  NodeWiring'
<1>1. <<>> \in Seq(Block) /\ Tail(todo[w]) \in Seq(Peer)
  BY DEF NodeWiring
<1>2. QED
  BY <1>1 DEF NextPeer, NodeWiring, Announced, Stages

\* Every step keeps the wiring.
LEMMA NextWiring ==
  ASSUME TypeOK, NodeWiring, [NodeNext]_nodeVars
  PROVE  NodeWiring'
<1>1. CASE UNCHANGED nodeVars
  BY <1>1 DEF nodeVars, locals, NodeWiring, Announced, Stages
<1>2. CASE Mine
  <2>1. attempt'.block \in Block
    <3>1. Genesis \in Block /\ attempt.block \in Block
      BY BlockAssumption DEF BlockAssumption, NodeWiring
    <3>2. CASE attempt'.block = attempt.block
      BY <3>1, <3>2
    <3>3. CASE attempt' = NoAttempt
      BY <3>1, <3>3 DEF NoAttempt
    <3>4. CASE ReadPool
      <4>1. attempt'.block = Genesis
        BY <3>4 DEF ReadPool, Attempting, NoAttempt
      <4>2. QED
        BY <3>1, <4>1
    <3>5. CASE FilterPool
      BY <3>2, <3>5 DEF FilterPool, Attempting
    <3>6. CASE BuildBlock
      BY <3>2, <3>6 DEF BuildBlock, Attempting
    <3>7. CASE FindBlock
      <4>1. PICK b \in Candidates : attempt' = [attempt EXCEPT !.stage = "found", !.block = b]
        BY <3>7 DEF FindBlock, Attempting
      <4>2. b \in Block
        BY DEF Candidates
      <4>3. QED
        BY <4>1, <4>2
    <3>8. CASE AddMinedBlock
      <4>1. CASE attempt' = [attempt EXCEPT !.stage = "mined"]
        BY <3>2, <4>1
      <4>2. QED
        BY <3>3, <3>8, <4>1 DEF AddMinedBlock, Attempting
    <3>9. CASE RemoveMined
      BY <3>2, <3>9 DEF RemoveMined
    <3>10. CASE GiveUp \/ OnBlockMined
      BY <3>3, <3>10 DEF GiveUp, OnBlockMined, Attempting
    <3>11. QED
      BY <1>2, <3>4, <3>5, <3>6, <3>7, <3>8, <3>9, <3>10 DEF Mine
  <2>2. UNCHANGED <<stage, locals>>
    BY <1>2 DEF Mine, ReadPool, FilterPool, BuildBlock, FindBlock, GiveUp,
       AddMinedBlock, RemoveMined, OnBlockMined, Attempting
  <2>3. QED
    BY <2>1, <2>2 DEF locals, NodeWiring, Announced, Stages
<1>3. ASSUME NEW w \in Worker,
             Submit(w) \/ Receive(w) \/ Handle(w) \/ StartPeriodicSync(w) \/ Sync(w)
      PROVE  NodeWiring'
  <2>1. CASE Submit(w)
    BY <2>1 DEF Submit, SubmitTransaction, NodeWiring, Announced, Stages
  <2>2. CASE Receive(w)
    BY <2>2 DEF Receive, ReceiveBlock, NodeWiring, Announced, Stages
  <2>3. CASE StartPeriodicSync(w)
    <3>1. PICK peers \in SetToSeqs(Peer) : todo' = [todo EXCEPT ![w] = peers]
      BY <2>3 DEF StartPeriodicSync
    <3>2. peers \in Seq(Peer)
      <4>1. Cardinality(Peer) \in Nat
        BY FS_CardinalityType, NodeAssumption DEF NodeAssumption
      <4>2. QED
        BY <3>1, <4>1 DEF SetToSeqs
    <3>3. QED
      BY <2>3, <3>1, <3>2 DEF StartPeriodicSync, NodeWiring, Announced, Stages
  <2>4. CASE MarkTx(w)
    BY <2>4, GotoWiring DEF MarkTx, Stages
  <2>5. CASE CheckTx(w)
    BY <2>5, GotoWiring DEF CheckTx, Stages
  <2>6. CASE AddTx(w)
    BY <2>6, GotoWiring DEF AddTx, Stages
  <2>7. CASE MarkBlock(w)
    BY <2>7 DEF MarkBlock, Goto, locals, NodeWiring, Announced, Stages
  <2>8. CASE CallTryAddOrReorg(w)
    BY <2>8, GotoWiring DEF CallTryAddOrReorg, Stages
  <2>9. CASE Process(w)
    <3>1. CASE UNCHANGED <<stage, locals>>
      BY <2>9, <3>1 DEF Process, locals, NodeWiring, Announced, Stages
    <3>2. CASE /\ stage' = [stage EXCEPT ![w] = "remove"]
               /\ UNCHANGED <<received, todo, fetched>>
      BY <2>9, <3>2 DEF Process, NodeWiring, Announced, Stages
    <3>3. CASE /\ stage' = [stage EXCEPT ![w] = "sync"]
               /\ \E source \in {<<>>} \cup {<<p>> : p \in Peer} :
                     todo' = [todo EXCEPT ![w] = source]
               /\ UNCHANGED <<received, fetched>>
      <4>1. PICK source \in {<<>>} \cup {<<p>> : p \in Peer} :
               todo' = [todo EXCEPT ![w] = source]
        BY <3>3
      <4>2. source \in Seq(Peer)
        <5>1. CASE source = <<>>
          BY <5>1
        <5>2. CASE source \in {<<p>> : p \in Peer}
          <6>1. PICK p \in Peer : source = <<p>>
            BY <5>2
          <6>2. QED
            BY <6>1
        <5>3. QED
          BY <4>1, <5>1, <5>2
      <4>3. /\ fetched[w] \in Seq(Block) /\ fetched' = [fetched EXCEPT ![w] = fetched[w]]
            /\ received' = received
            /\ stage' = [stage EXCEPT ![w] = "sync"]
        BY <3>3 DEF NodeWiring
      <4>4. attempt'.block = attempt.block
        BY <2>9 DEF Process
      <4>5. QED
        BY <3>3, <4>1, <4>2, <4>3, <4>4, UpdateWiring DEF Stages
    <3>4. CASE End(w)
      BY <2>9, <3>4, GotoWiring DEF Process, Stages
    <3>5. QED
      BY <2>9, <3>1, <3>2, <3>3, <3>4 DEF Process
  <2>10. CASE RemoveByBlock(w)
    BY <2>10, GotoWiring DEF RemoveByBlock, Stages
  <2>11. CASE ReturnOrphaned(w)
    BY <2>11, GotoWiring DEF ReturnOrphaned, Stages
  <2>12. CASE Notify(w)
    <3>1. attempt'.block = attempt.block
      BY <2>12 DEF Notify
    <3>2. QED
      BY <2>12, <3>1, GotoWiring DEF Notify, Stages
  <2>13. CASE AskPeer(w)
    <3>1. PICK chain \in Serves[Head(todo[w])] :
             \/ /\ Len(chain) > Len(blocks)
                /\ fetched' = [fetched EXCEPT ![w] = SubSeq(chain, Len(blocks) + 1, Len(chain))]
                /\ stage' = [stage EXCEPT ![w] = "compare"]
                /\ UNCHANGED todo
             \/ NextPeer(w)
      BY <2>13 DEF AskPeer
    <3>2. todo[w] # <<>> /\ Head(todo[w]) \in Peer
      BY <2>13 DEF AskPeer, NodeWiring
    <3>3. chain \in Seq(Block)
      <4>1. chain \in PeerChains \cup {<<>>}
        BY <3>1, <3>2, NodeAssumption DEF NodeAssumption
      <4>2. PeerChains \subseteq Seq(Block) /\ <<>> \in Seq(Block)
        BY ChainAssumption DEF ChainAssumption
      <4>3. QED
        BY <4>1, <4>2
    <3>4. CASE NextPeer(w)
      BY <2>13, <3>2, <3>4, NextPeerWiring DEF AskPeer
    <3>5. CASE /\ Len(chain) > Len(blocks)
               /\ fetched' = [fetched EXCEPT ![w] = SubSeq(chain, Len(blocks) + 1, Len(chain))]
               /\ stage' = [stage EXCEPT ![w] = "compare"]
               /\ UNCHANGED todo
      <4>1. Len(blocks) \in Nat /\ Len(chain) \in Nat
        BY <3>3, TipType
      <4> DEFINE new == SubSeq(chain, Len(blocks) + 1, Len(chain))
      <4>2. new \in Seq(Block) /\ Len(new) = Len(chain) - Len(blocks)
        BY <3>3, <3>5, <4>1
      <4> HIDE DEF new
      <4>3. new # <<>>
        <5>1. Len(new) # 0
          BY <3>5, <4>1, <4>2
        <5>2. QED
          BY <5>1, <4>2
      <4>4. fetched' = [fetched EXCEPT ![w] = new]
        BY <3>5 DEF new
      <4>5. received' = received /\ attempt'.block = attempt.block
        BY <2>13 DEF AskPeer
      <4>6. /\ todo[w] \in Seq(Peer) /\ todo' = [todo EXCEPT ![w] = todo[w]]
            /\ stage' = [stage EXCEPT ![w] = "compare"]
        BY <3>5 DEF NodeWiring
      <4>7. QED
        BY <3>2, <4>2, <4>3, <4>4, <4>5, <4>6, UpdateWiring DEF Stages
    <3>6. QED
      BY <3>1, <3>4, <3>5
  <2>14. CASE Compare(w)
    BY <2>14 DEF Compare, Goto, locals, NodeWiring, Announced, Stages
  <2>15. CASE AppendFetched(w)
    <3>1. todo[w] # <<>> /\ fetched[w] \in Seq(Block) /\ fetched[w] # <<>>
      BY <2>15 DEF AppendFetched, NodeWiring
    <3>2. CASE NextPeer(w)
      <4>1. UNCHANGED <<received, attempt>>
        BY <2>15 DEF AppendFetched
      <4>2. QED
        BY <3>1, <3>2, <4>1, NextPeerWiring
    <3>3. CASE /\ Len(fetched[w]) > 1
               /\ fetched' = [fetched EXCEPT ![w] = Tail(@)]
               /\ UNCHANGED <<stage, todo>>
      <4>1. Tail(fetched[w]) \in Seq(Block) /\ Tail(fetched[w]) # <<>>
        BY <3>1, <3>3, TailNonempty
      <4>2. /\ todo[w] \in Seq(Peer) /\ todo' = [todo EXCEPT ![w] = todo[w]]
            /\ stage[w] = "append" /\ stage' = [stage EXCEPT ![w] = stage[w]]
        BY <2>15, <3>3 DEF AppendFetched, NodeWiring
      <4>3. received' = received /\ attempt'.block = attempt.block
        BY <2>15 DEF AppendFetched
      <4>4. fetched' = [fetched EXCEPT ![w] = Tail(fetched[w])]
        BY <3>3
      <4>5. QED
        BY <3>1, <4>1, <4>2, <4>3, <4>4, UpdateWiring DEF Stages
    <3>4. QED
      BY <2>15, <3>2, <3>3 DEF AppendFetched
  <2>16. CASE ReplaceChain(w)
    BY <2>16, NextPeerWiring DEF ReplaceChain, NodeWiring
  <2>17. CASE EndSync(w)
    BY <2>17, GotoWiring DEF EndSync, Stages
  <2>18. QED
    BY <1>3, <2>1, <2>2, <2>3, <2>4, <2>5, <2>6, <2>7, <2>8, <2>9, <2>10, <2>11,
       <2>12, <2>13, <2>14, <2>15, <2>16, <2>17 DEF Handle, Sync
<1>4. QED
  BY <1>1, <1>2, <1>3 DEF NodeNext

(***************************************************************************)
(* A node, whatever its handlers, syncs and miner do and in whatever order *)
(* (handlers.go, sync.go, miner.go), implements module Chain.              *)
(***************************************************************************)
THEOREM NodeImplementsChain == NodeSpec => ImplementsChain
<1>1. NodeInit => Init /\ Wiring
  <2>1. Genesis \in Block
    BY BlockAssumption DEF BlockAssumption
  <2>2. QED
    BY <2>1, InitTypeOK DEF NodeInit, Wiring, NoAttempt, Stages
<1>2. Wiring /\ [NodeNext]_nodeVars => [Next]_vars
  BY NodeStep
<1>3. Wiring /\ [NodeNext]_nodeVars => Wiring'
  BY NodeStep, NextTypeOK, NextWiring DEF Wiring, NodeWiring
<1>4. QED
  BY <1>1, <1>2, <1>3, PTL DEF NodeSpec, ImplementsChain, Spec

(***************************************************************************)
(* So the main chain of a running node is valid from genesis to tip.       *)
(***************************************************************************)
THEOREM NodeChainAlwaysValid == NodeSpec => []ChainValid
BY NodeImplementsChain, ChainAlwaysValid DEF ImplementsChain

(***************************************************************************)
(* And the balances a node answers with are those of its main chain, if no *)
(* block of the tree spends what its branch does not have.                 *)
(***************************************************************************)
THEOREM NodeLedgerAlwaysMatches ==
  ASSUME NoBranchOverspends
  PROVE  NodeSpec => []LedgerMatchesChain
BY NodeImplementsChain, LedgerAlwaysMatches DEF ImplementsChain

---------------------------------------------------------------------------
(* What the pool, the seen trackers, the goroutines and the miner hold     *)

Verified == {t \in Payments(Tx) : Verify(t)}

Batches(S) == {T \in SUBSET S : IsFiniteSet(T)}

Attempts ==
  [stage : {"idle", "filter", "build", "mine", "found", "mined", "gossip"},
   cancelled : BOOLEAN, pending : Batches(Verified), kept : Seq(Verified),
   latest : Block, block : Block]

\* Only signed payments, and finitely many, reach the pool and the miner.
Holdings ==
  /\ mempool \in Batches(Verified)
  /\ seenTxs \subseteq Tx
  /\ seenBlocks \subseteq Block
  /\ payment \in [Worker -> Batches(Verified)]
  /\ orphans \in [Worker -> Batches(Payments(Tx))]
  /\ attempt \in Attempts

\* A call of the chain is in progress for the block of the handler that waits.
CallsMatch ==
  \A w \in Worker : /\ pc[w] # "idle" <=> stage[w] = "process"
                    /\ stage[w] = "process" => block[w] = received[w]

---------------------------------------------------------------------------
(* Batches                                                                 *)

LEMMA EmptyBatch ==
  ASSUME NEW S
  PROVE  {} \in Batches(S)
BY FS_EmptySet DEF Batches

LEMMA SingleBatch ==
  ASSUME NEW S, NEW t \in S
  PROVE  {t} \in Batches(S)
BY FS_Singleton DEF Batches

LEMMA JoinedBatch ==
  ASSUME NEW S, NEW A \in Batches(S), NEW B \in Batches(S)
  PROVE  A \cup B \in Batches(S)
BY FS_Union DEF Batches

\* What is left of a batch, and those of its members that are in another set.
LEMMA PartOfBatch ==
  ASSUME NEW S, NEW A \in Batches(S), NEW T, NEW B \in SUBSET A, B \subseteq T
  PROVE  B \in Batches(T)
BY FS_Subset DEF Batches

LEMMA FiniteImage ==
  ASSUME NEW S, IsFiniteSet(S), NEW f
  PROVE  IsFiniteSet({f[x] : x \in S})
<1> DEFINE T == {f[x] : x \in S}
           g == [x \in S |-> f[x]]
<1>1. g \in Surjection(S, T)
  BY DEF Surjection
<1> HIDE DEF g, T
<1>2. IsFiniteSet(T)
  BY <1>1, FS_Surjection
<1>3. QED
  BY <1>2 DEF T

\* A batch of payments can be put in order.
LEMMA BatchInOrder ==
  ASSUME NEW S, NEW A \in Batches(S), NEW s \in SetToSeqs(A)
  PROVE  s \in Seq(S)
<1>1. Cardinality(A) \in Nat /\ A \subseteq S
  BY FS_CardinalityType DEF Batches
<1>2. s \in [1 .. Cardinality(A) -> A]
  BY DEF SetToSeqs
<1>3. QED
  BY <1>1, <1>2

---------------------------------------------------------------------------
LEMMA NoAttemptType == NoAttempt \in Attempts
<1>1. Genesis \in Block /\ {} \in Batches(Verified) /\ <<>> \in Seq(Verified)
  BY EmptyBatch, BlockAssumption DEF BlockAssumption
<1>2. QED
  BY <1>1 DEF NoAttempt, Attempts

\* The transactions of a block are finitely many.
LEMMA BlockBatch ==
  ASSUME NEW b \in Block
  PROVE  ToSet(Transactions[b]) \in Batches(Tx)
<1> DEFINE txs == Transactions[b]
<1>1. txs \in Seq(Tx)
  BY BlockAssumption DEF BlockAssumption
<1>2. ToSet(txs) = {txs[i] : i \in DOMAIN txs} /\ ToSet(txs) \subseteq Tx
  BY <1>1 DEF ToSet
<1>3. DOMAIN txs = 1 .. Len(txs) /\ Len(txs) \in Int /\ 1 \in Int
  BY <1>1
<1> HIDE DEF txs
<1>4. IsFiniteSet(DOMAIN txs)
  BY <1>3, FS_Interval
<1>5. IsFiniteSet(ToSet(txs))
  BY <1>2, <1>4, FiniteImage
<1>6. QED
  BY <1>2, <1>5 DEF Batches, txs

\* So are those of a chain.
LEMMA ChainBatch ==
  ASSUME NEW chain \in Seq(Block), NEW prefix
  PROVE  TxsBeyond(chain, prefix) \in Batches(Tx)
<1> DEFINE D == DOMAIN chain \ prefix
           f == [i \in D |-> ToSet(Transactions[chain[i]])]
           S == {f[i] : i \in D}
<1>1. DOMAIN chain = 1 .. Len(chain) /\ Len(chain) \in Int /\ 1 \in Int
  OBVIOUS
<1>2. IsFiniteSet(D)
  <2>1. IsFiniteSet(DOMAIN chain)
    BY <1>1, FS_Interval
  <2>2. D \in SUBSET DOMAIN chain
    OBVIOUS
  <2> HIDE DEF D
  <2>3. QED
    BY <2>1, <2>2, FS_Subset
<1>3. TxsBeyond(chain, prefix) = UNION S
  BY DEF TxsBeyond
<1>4. \A T \in S : T \in Batches(Tx)
  <2>1. SUFFICES ASSUME NEW i \in D PROVE f[i] \in Batches(Tx)
    OBVIOUS
  <2>2. chain[i] \in Block
    OBVIOUS
  <2>3. QED
    BY <2>2, BlockBatch
<1>5. IsFiniteSet(S)
  <2> HIDE DEF f, D
  <2>1. QED
    BY <1>2, FiniteImage
<1> HIDE DEF S
<1>6. IsFiniteSet(UNION S) /\ UNION S \subseteq Tx
  BY <1>4, <1>5, FS_UNION DEF Batches
<1>7. QED
  BY <1>3, <1>6 DEF Batches

\* A reorganisation returns payments, and nothing else.
LEMMA OrphansArePayments ==
  ASSUME NEW old \in Seq(Block), NEW new
  PROVE  Orphans(old, new) \in Batches(Payments(Tx))
<1>1. TxsBeyond(old, CommonPrefix(old, new)) \in Batches(Tx)
  BY ChainBatch
<1>2. Orphans(old, new) \subseteq TxsBeyond(old, CommonPrefix(old, new))
  BY DEF Orphans, Displaced
<1>3. Orphans(old, new) \subseteq Payments(Tx)
  BY <1>1, <1>2 DEF Orphans, Batches, Payments
<1>4. QED
  BY <1>1, <1>2, <1>3, PartOfBatch

LEMMA VerdictReturnsPayments ==
  ASSUME TypeOK, NEW new
  PROVE  Verdict(new).orphans \in Batches(Payments(Tx))
<1>1. blocks \in Seq(Block)
  BY DEF TypeOK
<1>2. Orphans(blocks, new) \in Batches(Payments(Tx)) /\ {} \in Batches(Payments(Tx))
  BY <1>1, OrphansArePayments, EmptyBatch
<1>3. QED
  BY <1>2 DEF Verdict, Result

\* A call of TryAddOrReorg returns payments, moves its own worker only, and
\* keeps the block it was called with until it ends.
LEMMA CallStep ==
  ASSUME TypeOK, NEW w \in Worker, TryAddOrReorg(w)
  PROVE  /\ pc'[w] = "idle" => returned'.orphans \in Batches(Payments(Tx))
         /\ \A v \in Worker \ {w} : pc'[v] = pc[v] /\ block'[v] = block[v]
         /\ pc'[w] # "idle" => block' = block
<1>1. ASSUME NEW outcome, NEW back \in Batches(Payments(Tx)), Return(w, outcome, back)
      PROVE  /\ returned'.orphans \in Batches(Payments(Tx))
             /\ \A v \in Worker \ {w} : pc'[v] = pc[v] /\ block'[v] = block[v]
             /\ pc'[w] = "idle"
  <2>1. pc \in [Worker -> {"idle", "tip_read", "reorg"}] /\ block \in [Worker -> Block]
    BY DEF TypeOK
  <2>2. /\ pc' = [pc EXCEPT ![w] = "idle"] /\ block' = [block EXCEPT ![w] = Genesis]
        /\ returned' = Result(outcome, back)
    BY <1>1 DEF Return
  <2>3. QED
    BY <1>1, <2>1, <2>2 DEF Result
<1>2. CASE TryAdd(w)
  <2>1. {} \in Batches(Payments(Tx))
    BY EmptyBatch
  <2>2. \E outcome : Return(w, outcome, {})
    BY <1>2 DEF TryAdd
  <2>3. QED
    BY <1>1, <2>1, <2>2
<1>3. CASE SkipTooFar(w)
  <2>1. Return(w, "needsSync", {}) /\ {} \in Batches(Payments(Tx))
    BY <1>3, EmptyBatch DEF SkipTooFar
  <2>2. QED
    BY <1>1, <2>1
<1>4. CASE StoreAside(w)
  <2>1. CASE pc' = [pc EXCEPT ![w] = "reorg"] /\ UNCHANGED block
    BY <2>1 DEF TypeOK
  <2>2. CASE Return(w, Unadopted(block[w], latest[w]), {})
    <3>1. {} \in Batches(Payments(Tx))
      BY EmptyBatch
    <3>2. QED
      BY <1>1, <2>2, <3>1
  <2>3. QED
    BY <1>4, <2>1, <2>2 DEF StoreAside
<1>5. CASE ReorgFromSide(w)
  <2>1. {} \in Batches(Payments(Tx))
    BY EmptyBatch
  <2>2. \/ Return(w, Verdict(hypothetical[w]).outcome, Verdict(hypothetical[w]).orphans)
        \/ Return(w, "failed", {})
    BY <1>5 DEF ReorgFromSide
  <2>3. QED
    BY <1>1, <2>1, <2>2, VerdictReturnsPayments
<1>6. QED
  BY <1>2, <1>3, <1>4, <1>5 DEF TryAddOrReorg

---------------------------------------------------------------------------
\* The miner's steps keep its variables in their types.
LEMMA MineHoldings ==
  ASSUME TypeOK, ledger \in Ledgers, Holdings, Mine
  PROVE  Holdings'
<1>1. attempt \in Attempts /\ NoAttempt \in Attempts
  BY NoAttemptType DEF Holdings
<1>2. UNCHANGED <<seenTxs, payment, orphans>>
  BY DEF Mine, ReadPool, FilterPool, BuildBlock, FindBlock, GiveUp, AddMinedBlock,
     RemoveMined, OnBlockMined, Attempting, pool, locals
<1>3. mempool' \in Batches(Verified)
  <2>1. mempool \in Batches(Verified)
    BY DEF Holdings
  <2>2. CASE RemoveMined
    <3>1. mempool' \in SUBSET mempool
      BY <2>2 DEF RemoveMined
    <3>2. mempool' \subseteq Verified
      BY <2>1, <3>1 DEF Batches
    <3>3. QED
      BY <2>1, <3>1, <3>2, PartOfBatch
  <2>3. CASE UNCHANGED mempool
    BY <2>1, <2>3
  <2>4. QED
    BY <2>2, <2>3 DEF Mine, ReadPool, FilterPool, BuildBlock, FindBlock, GiveUp,
       AddMinedBlock, OnBlockMined, Attempting, pool
<1>4. seenBlocks' \subseteq Block
  <2>1. attempt.block \in Block
    BY <1>1 DEF Attempts
  <2>2. QED
    BY <2>1 DEF Mine, ReadPool, FilterPool, BuildBlock, FindBlock, GiveUp, AddMinedBlock,
       RemoveMined, OnBlockMined, Attempting, pool, Holdings
<1>5. attempt' \in Attempts
  <2>1. CASE ReadPool
    <3>1. mempool \in Batches(Verified)
      BY DEF Holdings
    <3>2. attempt' = [NoAttempt EXCEPT !.stage = "filter", !.pending = mempool]
      BY <2>1 DEF ReadPool, Attempting
    <3>3. NoAttempt.stage = "idle" /\ {} \in Batches(Verified)
      BY EmptyBatch DEF NoAttempt
    <3>4. QED
      BY <1>1, <3>1, <3>2 DEF Attempts
  <2>2. CASE FilterPool
    <3>1. PICK pending \in SetToSeqs(attempt.pending) :
             attempt' = [attempt EXCEPT !.stage = "build", !.pending = {},
                           !.kept = FilterValidTransactions(ledger, pending)]
      BY <2>2 DEF FilterPool, Attempting
    <3>2. pending \in Seq(Verified)
      <4>1. attempt.pending \in Batches(Verified)
        BY <1>1 DEF Attempts
      <4>2. QED
        BY <3>1, <4>1, BatchInOrder
    <3>3. FilterValidTransactions(ledger, pending) \in Seq(Verified)
      <4>1. Verified \in SUBSET Tx
        BY DEF Verified, Payments
      <4>2. QED
        BY <3>2, <4>1, FilterKeeps
    <3>4. {} \in Batches(Verified)
      BY EmptyBatch
    <3>5. QED
      BY <1>1, <3>1, <3>3, <3>4 DEF Attempts
  <2>3. CASE BuildBlock
    <3>1. attempt' = [attempt EXCEPT !.stage = "mine", !.latest = Tip]
      BY <2>3 DEF BuildBlock, Attempting
    <3>2. QED
      BY <1>1, <3>1, TipType DEF Attempts
  <2>4. CASE FindBlock
    <3>1. PICK b \in Candidates : attempt' = [attempt EXCEPT !.stage = "found", !.block = b]
      BY <2>4 DEF FindBlock, Attempting
    <3>2. b \in Block
      BY DEF Candidates
    <3>3. QED
      BY <1>1, <3>1, <3>2 DEF Attempts
  <2>5. CASE GiveUp \/ OnBlockMined
    BY <1>1, <2>5 DEF GiveUp, OnBlockMined, Attempting
  <2>6. CASE AddMinedBlock
    <3>1. \/ attempt' = [attempt EXCEPT !.stage = "mined"]
          \/ attempt' = NoAttempt
      BY <2>6 DEF AddMinedBlock, Attempting
    <3>2. QED
      BY <1>1, <3>1 DEF Attempts
  <2>7. CASE RemoveMined
    <3>1. attempt' = [attempt EXCEPT !.stage = "gossip"]
      BY <2>7 DEF RemoveMined
    <3>2. QED
      BY <1>1, <3>1 DEF Attempts
  <2>8. QED
    BY <2>1, <2>2, <2>3, <2>4, <2>5, <2>6, <2>7 DEF Mine
<1>6. QED
  BY <1>2, <1>3, <1>4, <1>5 DEF Holdings

\* So do the steps of a goroutine.
LEMMA WorkerHoldings ==
  ASSUME TypeOK, NodeWiring, Holdings, NEW w \in Worker,
         Submit(w) \/ Receive(w) \/ Handle(w) \/ StartPeriodicSync(w) \/ Sync(w)
  PROVE  Holdings'
<1>1. /\ mempool \in Batches(Verified) /\ payment[w] \in Batches(Verified)
      /\ orphans[w] \in Batches(Payments(Tx)) /\ attempt \in Attempts
      /\ payment[w] \subseteq Verified
  BY DEF Holdings, Batches
<1>2. {} \in Batches(Verified) /\ {} \in Batches(Payments(Tx))
  BY EmptyBatch
<1>3. CASE Submit(w)
  <2>1. PICK t \in Payments(Tx) : SubmitTransaction(w, t)
    BY <1>3 DEF Submit
  <2>2. {t} \in Batches(Verified)
    BY <2>1, SingleBatch DEF SubmitTransaction, Verified
  <2>3. QED
    BY <2>1, <2>2 DEF SubmitTransaction, pool, Holdings
<1>4. CASE Receive(w) \/ StartPeriodicSync(w)
  BY <1>4 DEF Receive, ReceiveBlock, StartPeriodicSync, pool, Holdings
<1>5. CASE MarkTx(w)
  <2>1. seenTxs' \subseteq Tx
    BY <1>1, <1>5 DEF MarkTx, Verified, Payments, Holdings
  <2>2. QED
    BY <1>5, <2>1 DEF MarkTx, Goto, locals, Holdings
<1>6. CASE CheckTx(w)
  BY <1>2, <1>6 DEF CheckTx, Goto, End, locals, pool, Holdings
<1>7. CASE AddTx(w)
  <2>1. mempool' \in Batches(Verified)
    BY <1>1, <1>7, JoinedBatch DEF AddTx
  <2>2. QED
    BY <1>2, <1>7, <2>1 DEF AddTx, End, Holdings
<1>8. CASE MarkBlock(w)
  BY <1>8 DEF MarkBlock, Goto, locals, Holdings, NodeWiring
<1>9. CASE CallTryAddOrReorg(w)
  BY <1>9 DEF CallTryAddOrReorg, Goto, locals, pool, Holdings
<1>10. CASE Process(w)
  <2>1. CASE /\ pc'[w] = "idle"
             /\ orphans' = [orphans EXCEPT ![w] = returned'.orphans]
             /\ UNCHANGED payment
    <3>1. returned'.orphans \in Batches(Payments(Tx))
      BY <1>10, <2>1, CallStep DEF Process
    <3>2. UNCHANGED <<pool, attempt>>
      BY <1>10 DEF Process
    <3>3. QED
      BY <2>1, <3>1, <3>2 DEF pool, Holdings
  <2>2. CASE UNCHANGED <<payment, orphans>>
    BY <1>10, <2>2 DEF Process, pool, Holdings
  <2>3. CASE End(w)
    BY <1>2, <1>10, <2>3 DEF Process, End, pool, Holdings
  <2>4. QED
    BY <1>10, <2>1, <2>2, <2>3 DEF Process, locals
<1>11. CASE RemoveByBlock(w)
  <2>1. mempool' \in SUBSET mempool /\ mempool \subseteq Verified
    BY <1>1, <1>11 DEF RemoveByBlock, Batches
  <2>2. mempool' \in Batches(Verified)
    BY <1>1, <2>1, PartOfBatch
  <2>3. QED
    BY <1>11, <2>2 DEF RemoveByBlock, Goto, locals, Holdings
<1>12. CASE ReturnOrphaned(w)
  <2> DEFINE back == {t \in Payments(orphans[w]) : Verify(t)}
  <2>1. back \in SUBSET orphans[w] /\ back \subseteq Verified
    BY <1>1 DEF Payments, Verified, Batches
  <2>2. back \in Batches(Verified)
    BY <1>1, <2>1, PartOfBatch
  <2>3. mempool' \in Batches(Verified)
    BY <1>1, <1>12, <2>2, JoinedBatch DEF ReturnOrphaned
  <2>4. QED
    BY <1>2, <1>12, <2>3 DEF ReturnOrphaned, Goto, End, locals, Holdings
<1>13. CASE Notify(w)
  <2>1. attempt' \in Attempts
    BY <1>1, <1>13 DEF Notify, Attempts
  <2>2. QED
    BY <1>2, <1>13, <2>1 DEF Notify, End, pool, Holdings
<1>14. CASE AskPeer(w) \/ Compare(w) \/ AppendFetched(w) \/ EndSync(w)
  BY <1>14 DEF AskPeer, Compare, AppendFetched, EndSync, Goto, locals, pool, Holdings
<1>15. CASE ReplaceChain(w)
  <2>1. UNCHANGED <<pool, payment, attempt>>
    BY <1>15 DEF ReplaceChain
  <2>2. PICK chain : \/ /\ ReorganiseTo(chain)
                        /\ orphans' = [orphans EXCEPT ![w] = @ \cup returned'.orphans]
                     \/ UNCHANGED orphans
    BY <1>15 DEF ReplaceChain
  <2>3. CASE UNCHANGED orphans
    BY <2>1, <2>3 DEF pool, Holdings
  <2>4. CASE /\ ReorganiseTo(chain)
             /\ orphans' = [orphans EXCEPT ![w] = @ \cup returned'.orphans]
    <3>1. returned'.orphans \in Batches(Payments(Tx))
      BY <2>4, VerdictReturnsPayments DEF ReorganiseTo
    <3>2. orphans[w] \cup returned'.orphans \in Batches(Payments(Tx))
      BY <1>1, <3>1, JoinedBatch
    <3>3. QED
      BY <2>1, <2>4, <3>2 DEF pool, Holdings
  <2>5. QED
    BY <2>2, <2>3, <2>4
<1>16. QED
  BY <1>3, <1>4, <1>5, <1>6, <1>7, <1>8, <1>9, <1>10, <1>11, <1>12, <1>13, <1>14, <1>15
     DEF Handle, Sync

\* A goroutine that is not in a call, before and after, does not disturb it.
LEMMA OutsideCall ==
  ASSUME NodeWiring, CallsMatch, NEW w \in Worker, stage[w] # "process", stage'[w] # "process",
         UNCHANGED <<pc, block>>,
         \A v \in Worker \ {w} : stage'[v] = stage[v] /\ received'[v] = received[v]
  PROVE  CallsMatch'
BY DEF CallsMatch

\* Every step keeps the calls and the handlers in step.
LEMMA NextCallsMatch ==
  ASSUME TypeOK, NodeWiring, CallsMatch, [NodeNext]_nodeVars
  PROVE  CallsMatch'
<1>1. CASE UNCHANGED nodeVars
  BY <1>1 DEF nodeVars, vars, locals, CallsMatch
<1>2. CASE Mine
  <2>1. UNCHANGED <<pc, block, stage, received>>
    BY <1>2 DEF Mine, ReadPool, FilterPool, BuildBlock, FindBlock, GiveUp, AddMinedBlock,
       RemoveMined, OnBlockMined, Attempting, AddBlock, vars, locals
  <2>2. QED
    BY <2>1 DEF CallsMatch
<1>3. ASSUME NEW w \in Worker,
             Submit(w) \/ Receive(w) \/ Handle(w) \/ StartPeriodicSync(w) \/ Sync(w)
      PROVE  CallsMatch'
  <2>1. stage \in [Worker -> Stages] /\ received \in [Worker -> Block]
    BY DEF NodeWiring
  <2>2. CASE Submit(w) \/ Receive(w) \/ StartPeriodicSync(w)
    BY <2>1, <2>2, OutsideCall DEF Submit, SubmitTransaction, Receive, ReceiveBlock,
       StartPeriodicSync, vars
  <2>3. CASE MarkTx(w) \/ CheckTx(w) \/ AddTx(w)
    BY <2>1, <2>3, OutsideCall DEF MarkTx, CheckTx, AddTx, Goto, End, locals, vars
  <2>4. CASE MarkBlock(w) \/ RemoveByBlock(w) \/ ReturnOrphaned(w) \/ Notify(w)
    BY <2>1, <2>4, OutsideCall DEF MarkBlock, RemoveByBlock, ReturnOrphaned, Notify, Goto, End,
       locals, vars
  <2>5. CASE AskPeer(w) \/ Compare(w) \/ EndSync(w)
    BY <2>1, <2>5, OutsideCall DEF AskPeer, Compare, EndSync, NextPeer, Goto, locals, vars
  <2>6. CASE AppendFetched(w) \/ ReplaceChain(w)
    <3>1. UNCHANGED <<pc, block>>
      BY <2>6 DEF AppendFetched, ReplaceChain, AddBlock, ReorganiseTo, vars
    <3>2. stage[w] # "process" /\ UNCHANGED received
      BY <2>6 DEF AppendFetched, ReplaceChain
    <3>3. UNCHANGED stage \/ stage' = [stage EXCEPT ![w] = "sync"]
      BY <2>6 DEF AppendFetched, ReplaceChain, NextPeer
    <3>4. QED
      BY <2>1, <3>1, <3>2, <3>3, OutsideCall
  <2>7. CASE CallTryAddOrReorg(w)
    <3>1. /\ pc' = [pc EXCEPT ![w] = "tip_read"]
          /\ block' = [block EXCEPT ![w] = received[w]]
          /\ stage' = [stage EXCEPT ![w] = "process"]
          /\ received' = received
      BY <2>7 DEF CallTryAddOrReorg, ReadTip, Goto, locals
    <3>2. pc \in [Worker -> {"idle", "tip_read", "reorg"}] /\ block \in [Worker -> Block]
      BY DEF TypeOK
    <3>3. QED
      BY <2>1, <3>1, <3>2 DEF CallsMatch
  <2>8. CASE Process(w)
    <3>1. /\ \A v \in Worker \ {w} : pc'[v] = pc[v] /\ block'[v] = block[v]
          /\ pc'[w] # "idle" => block' = block
      BY <2>8, CallStep DEF Process
    <3>2. stage[w] = "process"
      BY <2>8 DEF Process
    <3>3. CASE pc'[w] # "idle" /\ UNCHANGED <<stage, locals>>
      BY <3>1, <3>2, <3>3 DEF CallsMatch, locals
    <3>4. CASE pc'[w] = "idle" /\ End(w)
      BY <2>1, <3>1, <3>4 DEF CallsMatch, End
    <3>5. CASE /\ pc'[w] = "idle" /\ UNCHANGED received
               /\ stage' = [stage EXCEPT ![w] = "remove"] \/ stage' = [stage EXCEPT ![w] = "sync"]
      BY <2>1, <3>1, <3>5 DEF CallsMatch
    <3>6. QED
      BY <2>8, <3>3, <3>4, <3>5 DEF Process
  <2>9. QED
    BY <1>3, <2>2, <2>3, <2>4, <2>5, <2>6, <2>7, <2>8 DEF Handle, Sync
<1>4. QED
  BY <1>1, <1>2, <1>3 DEF NodeNext

---------------------------------------------------------------------------
\* The ledger is always a ledger, also when rebuilding it has failed.
LEMMA NextLedgerType ==
  ASSUME TypeOK, ledger \in Ledgers, [Next]_vars
  PROVE  ledger' \in Ledgers
<1>1. CASE UNCHANGED <<blocks, ledger>>
  BY <1>1
<1>2. ASSUME NEW b \in Block, Extend(b)
      PROVE  ledger' \in Ledgers
  <2>1. applyBlock(ledger, Transactions[b]) \in Results
    BY ApplyType, BlockAssumption DEF BlockAssumption
  <2>2. QED
    BY <1>2, <2>1 DEF Extend, Results
<1>3. ASSUME NEW new \in Seq(Block) \ {<<>>}, Switch(new)
      PROVE  ledger' \in Ledgers
  <2>1. Bodies(new) \in Seq(Seq(Tx))
    <3>1. \A c \in Block : Transactions[c] \in Seq(Tx)
      BY BlockAssumption DEF BlockAssumption
    <3>2. /\ DOMAIN new = 1 .. Len(new) /\ Len(new) \in Nat
          /\ \A i \in 1 .. Len(new) : new[i] \in Block
      OBVIOUS
    <3>3. Bodies(new) \in [1 .. Len(new) -> Seq(Tx)]
      BY <3>1, <3>2 DEF Bodies
    <3>4. QED
      BY <3>2, <3>3
  <2>2. LedgerOf(new) \in Results
    BY <2>1, RebuildSettles DEF LedgerOf
  <2>3. QED
    BY <1>3, <2>2 DEF Switch, Results
<1>4. QED
  BY <1>1, <1>2, <1>3, ChainStep

\* The inductive invariant of a node.
NodeInv == Wiring /\ Holdings /\ CallsMatch /\ ledger \in Ledgers

LEMMA NodeInitInv == NodeInit => NodeInv
<1>1. Genesis \in Block
  BY BlockAssumption DEF BlockAssumption
<1>2. NodeInit => Wiring
  BY <1>1, InitTypeOK DEF NodeInit, Wiring, NoAttempt, Stages
<1>3. NodeInit => Holdings
  BY EmptyBatch, NoAttemptType DEF NodeInit, Holdings
<1>4. NodeInit => CallsMatch
  BY DEF NodeInit, Init, CallsMatch
<1>5. NodeInit => ledger \in Ledgers
  BY LedgerAssumption DEF NodeInit, Init, NewLedger, Ledgers, LedgerAssumption
<1>6. QED
  BY <1>2, <1>3, <1>4, <1>5 DEF NodeInv

LEMMA NodeNextInv ==
  ASSUME NodeInv, [NodeNext]_nodeVars
  PROVE  NodeInv'
<1>1. TypeOK /\ NodeWiring /\ Holdings /\ CallsMatch /\ ledger \in Ledgers /\ Wiring
  BY DEF NodeInv, Wiring, NodeWiring
<1>2. [Next]_vars
  BY <1>1, NodeStep
<1>3. Wiring'
  BY <1>1, <1>2, NextTypeOK, NextWiring DEF Wiring, NodeWiring
<1>4. Holdings'
  <2>1. CASE UNCHANGED nodeVars
    BY <1>1, <2>1 DEF nodeVars, pool, locals, Holdings
  <2>2. QED
    BY <1>1, <2>1, MineHoldings, WorkerHoldings DEF NodeNext
<1>5. CallsMatch' /\ ledger' \in Ledgers
  BY <1>1, <1>2, NextCallsMatch, NextLedgerType
<1>6. QED
  BY <1>3, <1>4, <1>5 DEF NodeInv

LEMMA NodeInvariance == NodeSpec => []NodeInv
BY NodeInitInv, NodeNextInv, PTL DEF NodeSpec

(***************************************************************************)
(* Whatever handlers, syncs and the miner do, every variable of a node     *)
(* keeps its type, the pool and the miner hold payments only, and a call   *)
(* of the chain is in progress exactly for the handlers that wait for one, *)
(* each for the block it received.                                         *)
(***************************************************************************)
THEOREM NodeTypeCorrect == NodeSpec => []NodeTypeOK
<1>1. NodeInv => NodeTypeOK
  <2>1. SUFFICES ASSUME NodeInv PROVE NodeTypeOK
    OBVIOUS
  <2>2. /\ Verified \subseteq Payments(Tx)
        /\ Batches(Verified) \subseteq SUBSET Payments(Tx)
        /\ Batches(Payments(Tx)) \subseteq SUBSET Payments(Tx)
        /\ Batches(Verified) \subseteq SUBSET Verified
    BY DEF Verified, Batches
  <2>3. mempool \subseteq Payments(Tx) /\ seenTxs \subseteq Tx /\ seenBlocks \subseteq Block
    BY <2>1, <2>2 DEF NodeInv, Holdings
  <2>4. payment \in [Worker -> SUBSET Payments(Tx)] /\ orphans \in [Worker -> SUBSET Payments(Tx)]
    BY <2>1, <2>2 DEF NodeInv, Holdings
  <2>5. attempt.stage \in {"idle", "filter", "build", "mine", "found", "mined", "gossip"}
    BY <2>1 DEF NodeInv, Holdings, Attempts
  <2>6. QED
    BY <2>1, <2>3, <2>4, <2>5 DEF NodeInv, Wiring, CallsMatch, NodeTypeOK
<1>2. QED
  BY <1>1, NodeInvariance, PTL

---------------------------------------------------------------------------
(* The block the miner finds                                               *)

\* What FilterPool keeps for a ledger, in whatever order the pool came.
BuildsFrom(l, kept) == \E pending \in Seq(Verified) : kept = FilterValidTransactions(l, pending)

MinedFor(b, prev, kept) ==
  /\ b \in Block
  /\ Index[b] = Index[prev] + 1 /\ PrevHash[b] = prev
  /\ Sealed[b] /\ Difficulty[b] = DefaultDifficulty
  /\ \E c \in Tx : /\ IsCoinbase(c)
                   /\ Amount[c] = Uint64(MiningReward + FeeSum(kept))
                   /\ Transactions[b] = <<c>> \o kept

LEMMA CandidateFits ==
  ASSUME NEW b \in Candidates
  PROVE  MinedFor(b, attempt.latest, attempt.kept)
<1> DEFINE txs == Transactions[b]
           kept == attempt.kept
<1>1. /\ b \in Block
      /\ Index[b] = Index[attempt.latest] + 1 /\ PrevHash[b] = attempt.latest
      /\ Sealed[b] /\ Difficulty[b] = DefaultDifficulty
      /\ Len(txs) = Len(kept) + 1 /\ Tail(txs) = kept
      /\ IsCoinbase(txs[1])
  BY DEF Candidates
<1>2. Amount[txs[1]] = Uint64(MiningReward + FeeSum(kept))
  BY DEF Candidates, FeeSum, FoldLeft, MapThenFoldSet
<1>3. txs \in Seq(Tx)
  BY <1>1, BlockAssumption DEF BlockAssumption
<1> HIDE DEF txs, kept
<1>4. txs # <<>>
  <2>1. CASE txs = <<>>
    <3>1. IsCoinbase(txs[1]) /\ Len(txs) = 0
      BY <1>1, <2>1
    <3>2. Len(txs) = Len(kept) + 1 /\ Tail(txs) = kept
      BY <1>1
    <3>3. QED
      BY <1>3, <2>1, <3>1, <3>2
  <2>2. QED
    BY <2>1
<1>5. txs[1] \in Tx /\ txs = <<txs[1]>> \o Tail(txs)
  BY <1>3, <1>4
<1>6. QED
  BY <1>1, <1>2, <1>5 DEF MinedFor, txs, kept

\* A block built on the tip from what the present ledger allows is accepted.
LEMMA MinedForTipAccepted ==
  ASSUME ledger \in Ledgers, NEW kept, BuildsFrom(ledger, kept), NEW b, MinedFor(b, Tip, kept)
  PROVE  Accepts(b)
<1>1. PICK pending \in Seq(Verified) : kept = FilterValidTransactions(ledger, pending)
  BY DEF BuildsFrom
<1>2. Verified \in SUBSET Tx /\ pending \in Seq(Tx)
  <2>1. Verified \subseteq Tx
    BY DEF Verified, Payments
  <2>2. QED
    BY <2>1
<1>3. kept \in Seq(Verified)
  BY <1>1, <1>2, FilterKeeps
<1>4. PICK c \in Tx : /\ IsCoinbase(c)
                      /\ Amount[c] = Uint64(MiningReward + FeeSum(kept))
                      /\ Transactions[b] = <<c>> \o kept
  BY DEF MinedFor
<1>5. CoinbaseFirst(Transactions[b]) /\ applyBlock(ledger, Transactions[b]).ok
  BY <1>1, <1>2, <1>4, BuiltBodyApplies
<1>6. ASSUME NEW i \in DOMAIN Transactions[b], ~IsCoinbase(Transactions[b][i])
      PROVE  Verify(Transactions[b][i])
  <2>1. /\ DOMAIN (<<c>> \o kept) = 1 .. 1 + Len(kept) /\ (<<c>> \o kept)[1] = c
        /\ \A j \in 2 .. 1 + Len(kept) : (<<c>> \o kept)[j] \in Verified
    BY <1>3
  <2>2. i # 1
    BY <1>4, <1>6, <2>1
  <2>3. Transactions[b][i] \in Verified
    <3>1. i \in 2 .. 1 + Len(kept)
      BY <1>3, <1>4, <2>1, <2>2
    <3>2. QED
      BY <1>4, <2>1, <3>1
  <2>4. QED
    BY <2>3 DEF Verified
<1>7. Validate(b, Tip)
  BY <1>5, <1>6 DEF MinedFor, Validate
<1>8. QED
  BY <1>5, <1>7 DEF Accepts

---------------------------------------------------------------------------
\* A call that changes the chain ends in the same step and says so.
LEMMA CallOutcome ==
  ASSUME NoBranchOverspends, TypeOK, ChainValid, NEW w \in Worker, TryAddOrReorg(w)
  PROVE  \/ UNCHANGED <<blocks, ledger>>
         \/ pc'[w] = "idle" /\ returned'.outcome = "added"
<1>1. ASSUME NEW back, Return(w, "added", back)
      PROVE  pc'[w] = "idle" /\ returned'.outcome = "added"
  BY <1>1 DEF Return, Result, TypeOK
<1>2. CASE TryAdd(w)
  BY <1>1, <1>2 DEF TryAdd
<1>3. CASE SkipTooFar(w) \/ StoreAside(w)
  BY <1>3 DEF SkipTooFar, StoreAside, chainVars
<1>4. CASE ReorgFromSide(w)
  <2> DEFINE new == hypothetical[w]
  <2>1. new \in Seq(Block) \ {<<>>}
    BY <1>4 DEF ReorgFromSide, TypeOK
  <2>2. CASE /\ Acceptable(blocks, new)
             /\ Return(w, Verdict(new).outcome, Verdict(new).orphans)
    <3>1. LedgerOf(new).ok
      BY <2>1, <2>2, AcceptableValid, ValidChainApplies DEF TypeOK, ChainValid
    <3>2. Verdict(new).outcome = "added"
      BY <3>1 DEF Verdict, Result
    <3>3. QED
      BY <1>1, <2>2, <3>2
  <2>3. QED
    BY <1>4, <2>2 DEF ReorgFromSide
<1>5. QED
  BY <1>2, <1>3, <1>4 DEF TryAddOrReorg

\* A handler that changes the chain owes the miner a Restart, and owes it
\* until it notifies.
LEMMA ChangeIsOwed ==
  ASSUME NoBranchOverspends, TypeOK, NodeWiring, ChainValid, NEW w \in Worker,
         Submit(w) \/ Receive(w) \/ Handle(w) \/ StartPeriodicSync(w) \/ Sync(w),
         [\A v \in Worker : ~(AppendFetched(v) \/ ReplaceChain(v))]_<<blocks, ledger>>
  PROVE  /\ UNCHANGED <<blocks, ledger>> \/ ChainChangeOwed'
         /\ ChainChangeOwed => ChainChangeOwed' \/ Notify(w)
         /\ UNCHANGED attempt \/ Notify(w)
<1>1. stage \in [Worker -> Stages]
  BY DEF NodeWiring
<1>2. ASSUME UNCHANGED stage \/ (\E next \in Stages : stage' = [stage EXCEPT ![w] = next]),
             stage[w] \notin {"remove", "return", "notify"}
      PROVE  ChainChangeOwed => ChainChangeOwed'
  BY <1>1, <1>2 DEF ChainChangeOwed
<1>3. CASE Submit(w) \/ Receive(w) \/ StartPeriodicSync(w)
  BY <1>2, <1>3 DEF Submit, SubmitTransaction, Receive, ReceiveBlock, StartPeriodicSync, vars, Stages
<1>4. CASE MarkTx(w) \/ CheckTx(w) \/ AddTx(w) \/ MarkBlock(w)
  BY <1>2, <1>4 DEF MarkTx, CheckTx, AddTx, MarkBlock, Goto, End, vars, Stages
<1>5. CASE CallTryAddOrReorg(w)
  <2>1. UNCHANGED <<blocks, ledger, attempt>>
    BY <1>5 DEF CallTryAddOrReorg, ReadTip, chainVars
  <2>2. QED
    BY <1>2, <1>5, <2>1 DEF CallTryAddOrReorg, Goto, Stages
<1>6. CASE Process(w)
  <2>1. UNCHANGED attempt /\ stage[w] = "process"
    BY <1>6 DEF Process
  <2>2. UNCHANGED stage \/ (\E next \in Stages : stage' = [stage EXCEPT ![w] = next])
    BY <1>6 DEF Process, End, Stages
  <2>3. CASE pc'[w] = "idle" /\ returned'.outcome = "added"
    <3>1. stage' = [stage EXCEPT ![w] = "remove"]
      BY <1>6, <2>3 DEF Process
    <3>2. QED
      BY <1>1, <2>1, <3>1 DEF ChainChangeOwed
  <2>4. CASE UNCHANGED <<blocks, ledger>>
    BY <1>2, <2>1, <2>2, <2>4
  <2>5. QED
    BY <1>6, <2>3, <2>4, CallOutcome DEF Process
<1>7. CASE RemoveByBlock(w) \/ ReturnOrphaned(w)
  <2>1. UNCHANGED <<blocks, ledger, attempt>>
    BY <1>7 DEF RemoveByBlock, ReturnOrphaned, vars
  <2>2. CASE stage[w] = "endSync"
    BY <1>2, <1>7, <2>1, <2>2 DEF RemoveByBlock, ReturnOrphaned, End, Goto, Stages
  <2>3. CASE stage' = [stage EXCEPT ![w] = "return"] \/ stage' = [stage EXCEPT ![w] = "notify"]
    BY <1>1, <2>1, <2>3 DEF ChainChangeOwed
  <2>4. QED
    BY <1>7, <2>2, <2>3 DEF RemoveByBlock, ReturnOrphaned, Goto
<1>8. CASE Notify(w)
  BY <1>8 DEF Notify, vars
<1>9. CASE AskPeer(w) \/ Compare(w) \/ EndSync(w)
  BY <1>2, <1>9 DEF AskPeer, Compare, EndSync, NextPeer, Goto, vars, Stages
<1>10. CASE AppendFetched(w) \/ ReplaceChain(w)
  <2>1. UNCHANGED <<blocks, ledger>>
    BY <1>10
  <2>2. UNCHANGED stage \/ stage' = [stage EXCEPT ![w] = "sync"]
    BY <1>10 DEF AppendFetched, ReplaceChain, NextPeer
  <2>3. UNCHANGED attempt /\ stage[w] \in {"append", "replace"}
    BY <1>10 DEF AppendFetched, ReplaceChain
  <2>4. QED
    BY <1>2, <2>1, <2>2, <2>3 DEF Stages
<1>11. QED
  BY <1>3, <1>4, <1>5, <1>6, <1>7, <1>8, <1>9, <1>10 DEF Handle, Sync

\* An attempt that nobody has cancelled or is about to cancel was read from
\* the present ledger and is built on the present tip.
Undisturbed == ~attempt.cancelled /\ ~ChainChangeOwed

AttemptFits ==
  /\ Undisturbed /\ attempt.stage \in {"build", "mine", "found"} => BuildsFrom(ledger, attempt.kept)
  /\ Undisturbed /\ attempt.stage \in {"mine", "found"} => attempt.latest = Tip
  /\ attempt.stage = "found" => MinedFor(attempt.block, attempt.latest, attempt.kept)

LEMMA WorkerAttemptFits ==
  ASSUME NoBranchOverspends, NodeInv, ChainValid, AttemptFits, NEW w \in Worker,
         Submit(w) \/ Receive(w) \/ Handle(w) \/ StartPeriodicSync(w) \/ Sync(w),
         [\A v \in Worker : ~(AppendFetched(v) \/ ReplaceChain(v))]_<<blocks, ledger>>
  PROVE  AttemptFits'
<1>1. TypeOK /\ NodeWiring /\ attempt \in Attempts
  BY DEF NodeInv, Wiring, NodeWiring, Holdings
<1>2. CASE Notify(w)
  <2>1. /\ attempt'.cancelled = (attempt.stage # "idle") /\ attempt'.stage = attempt.stage
        /\ attempt'.block = attempt.block /\ attempt'.latest = attempt.latest
        /\ attempt'.kept = attempt.kept
    BY <1>1, <1>2 DEF Notify, Attempts
  <2>2. QED
    BY <2>1 DEF AttemptFits, Undisturbed
<1>3. CASE ~Notify(w)
  <2>1. /\ UNCHANGED attempt
        /\ ~ChainChangeOwed' => UNCHANGED <<blocks, ledger>> /\ ~ChainChangeOwed
    BY <1>1, <1>3, ChangeIsOwed
  <2>2. Undisturbed' => Undisturbed /\ UNCHANGED <<blocks, ledger>>
    BY <2>1 DEF Undisturbed
  <2>3. QED
    BY <2>1, <2>2 DEF AttemptFits, Tip
<1>4. QED
  BY <1>2, <1>3

LEMMA MineAttemptFits ==
  ASSUME NodeInv, AttemptFits, Mine
  PROVE  AttemptFits'
<1>1. attempt \in Attempts
  BY DEF NodeInv, Holdings
<1>2. ChainChangeOwed' = ChainChangeOwed
  <2>1. UNCHANGED stage
    BY DEF Mine, ReadPool, FilterPool, BuildBlock, FindBlock, GiveUp, AddMinedBlock,
       RemoveMined, OnBlockMined, Attempting
  <2>2. QED
    BY <2>1 DEF ChainChangeOwed
<1>3. ASSUME attempt'.stage \in {"idle", "filter", "mined", "gossip"}
      PROVE  AttemptFits'
  BY <1>3 DEF AttemptFits
<1>4. CASE ReadPool
  BY <1>3, <1>4 DEF ReadPool, Attempting, NoAttempt
<1>5. CASE FilterPool
  <2>1. PICK pending \in SetToSeqs(attempt.pending) :
           attempt' = [attempt EXCEPT !.stage = "build", !.pending = {},
                         !.kept = FilterValidTransactions(ledger, pending)]
    BY <1>5 DEF FilterPool, Attempting
  <2>2. pending \in Seq(Verified)
    BY <1>1, <2>1, BatchInOrder DEF Attempts
  <2>3. attempt'.stage = "build" /\ attempt'.kept = FilterValidTransactions(ledger, pending)
    BY <1>1, <2>1 DEF Attempts
  <2>4. ledger' = ledger
    BY <1>5 DEF FilterPool, vars
  <2>5. BuildsFrom(ledger', attempt'.kept)
    BY <2>2, <2>3, <2>4 DEF BuildsFrom
  <2>6. QED
    BY <2>3, <2>5 DEF AttemptFits
<1>6. CASE BuildBlock
  <2>1. /\ attempt.stage = "build" /\ attempt'.stage = "mine" /\ attempt'.latest = Tip
        /\ attempt'.kept = attempt.kept /\ attempt'.cancelled = attempt.cancelled
    BY <1>1, <1>6 DEF BuildBlock, Attempting, Attempts
  <2>2. UNCHANGED <<blocks, ledger>> /\ Tip' = Tip
    BY <1>6 DEF BuildBlock, vars, Tip
  <2>3. QED
    BY <1>2, <2>1, <2>2 DEF AttemptFits, Undisturbed
<1>7. CASE FindBlock
  <2>1. PICK b \in Candidates : attempt' = [attempt EXCEPT !.stage = "found", !.block = b]
    BY <1>7 DEF FindBlock, Attempting
  <2>2. /\ attempt.stage = "mine" /\ attempt'.stage = "found" /\ attempt'.block = b
        /\ attempt'.latest = attempt.latest /\ attempt'.kept = attempt.kept
        /\ attempt'.cancelled = attempt.cancelled
    BY <1>1, <1>7, <2>1 DEF FindBlock, Attempting, Attempts
  <2>3. UNCHANGED <<blocks, ledger>> /\ Tip' = Tip
    BY <1>7 DEF FindBlock, vars, Tip
  <2>4. MinedFor(attempt'.block, attempt'.latest, attempt'.kept)
    BY <2>2, CandidateFits
  <2>5. QED
    BY <1>2, <2>2, <2>3, <2>4 DEF AttemptFits, Undisturbed
<1>8. CASE GiveUp \/ OnBlockMined
  BY <1>3, <1>8 DEF GiveUp, OnBlockMined, Attempting, NoAttempt
<1>9. CASE AddMinedBlock
  <2>1. \/ attempt' = [attempt EXCEPT !.stage = "mined"]
        \/ attempt' = NoAttempt
    BY <1>9 DEF AddMinedBlock, Attempting
  <2>2. QED
    BY <1>1, <1>3, <2>1 DEF NoAttempt, Attempts
<1>10. CASE RemoveMined
  <2>1. attempt' = [attempt EXCEPT !.stage = "gossip"]
    BY <1>10 DEF RemoveMined
  <2>2. QED
    BY <1>1, <1>3, <2>1 DEF Attempts
<1>11. QED
  BY <1>4, <1>5, <1>6, <1>7, <1>8, <1>9, <1>10 DEF Mine

\* No sync moves the chain, which it does without telling the miner.
SyncsLeaveChain ==
  [][\A w \in Worker : ~(AppendFetched(w) \/ ReplaceChain(w))]_<<blocks, ledger>>

(***************************************************************************)
(* While no sync moves the chain, and where no block overspends its        *)
(* branch, AddBlock takes every block that the miner finds, if nobody has  *)
(* cancelled the attempt or owes it a Restart: mineBlock need not read     *)
(* pool, ledger and tip in one step (miner.go), because the handlers       *)
(* restart it (handlers.go) after every change they make to the chain.     *)
(***************************************************************************)
THEOREM MinedBlocksFit ==
  ASSUME NoBranchOverspends
  PROVE  NodeSpec /\ SyncsLeaveChain => []MinedBlockFits
<1>1. NodeInit => AttemptFits
  BY DEF NodeInit, NoAttempt, AttemptFits
<1>2. NodeInv /\ ChainValid /\ AttemptFits /\ [NodeNext]_nodeVars
        /\ [\A w \in Worker : ~(AppendFetched(w) \/ ReplaceChain(w))]_<<blocks, ledger>>
      => AttemptFits'
  <2>1. SUFFICES ASSUME NodeInv, ChainValid, AttemptFits, [NodeNext]_nodeVars,
                        [\A w \in Worker : ~(AppendFetched(w) \/ ReplaceChain(w))]_<<blocks, ledger>>
                 PROVE  AttemptFits'
    OBVIOUS
  <2>2. CASE UNCHANGED nodeVars
    <3>1. UNCHANGED <<blocks, ledger, attempt, stage>>
      BY <2>2 DEF nodeVars, vars
    <3>2. Undisturbed' = Undisturbed /\ Tip' = Tip
      BY <3>1 DEF Undisturbed, ChainChangeOwed, Tip
    <3>3. QED
      BY <2>1, <3>1, <3>2 DEF AttemptFits
  <2>3. QED
    BY <2>1, <2>2, WorkerAttemptFits, MineAttemptFits DEF NodeNext
<1>3. NodeInv /\ AttemptFits => MinedBlockFits
  BY MinedForTipAccepted DEF NodeInv, AttemptFits, Undisturbed, MinedBlockFits
<1>4. QED
  BY <1>1, <1>2, <1>3, NodeInvariance, NodeChainAlwaysValid, PTL DEF NodeSpec, SyncsLeaveChain
============================================================================
