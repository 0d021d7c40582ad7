-------------------------------- MODULE Node --------------------------------
(***************************************************************************)
(* One node (internal/network/handlers.go and sync.go, internal/mempool,   *)
(* internal/node, and what internal/miner does to chain and pool): HTTP    *)
(* handlers, background and periodic syncs and the miner work on one chain *)
(* and one mempool.  Each of the shared objects has a lock of its own, so  *)
(* between two calls on them any other goroutine may come.                 *)
(*                                                                         *)
(* Module Chain says what happens inside TryAddOrReorg, AddBlock and       *)
(* ReorganiseTo; its actions are steps of the goroutines here.  Worker is  *)
(* the set of goroutines; a handler that hands over to a background sync   *)
(* goes on here as that sync.  What peers answer is external: each peer    *)
(* serves one of a set of chains, another one for each request if it likes.*)
(***************************************************************************)
EXTENDS Chain

CONSTANTS Periodic,      \* the goroutine of periodicTasks, a set of one worker
          Peer,          \* known peers
          Serves,        \* chains each peer may answer with, <<>> for no answer
          MinerAddress,
          Mining         \* Config.EnableMining

ASSUME NodeAssumption ==
  /\ Periodic \subseteq Worker
  /\ IsFiniteSet(Peer)
  /\ Serves \in [Peer -> SUBSET (PeerChains \cup {<<>>})]
  /\ MinerAddress \in Address
  /\ Mining \in BOOLEAN

VARIABLES
  mempool,     \* pending payments
  seenTxs,     \* the gossiper's trackers
  seenBlocks,
  stage,       \* where each goroutine stands
  received,    \* the block a handler was called with
  payment,     \* the transaction a handler was called with, as a set
  orphans,     \* payments a goroutine has to return to the mempool
  todo,        \* peers a sync has still to finish with, in order
  fetched,     \* blocks a sync has got from the first of them
  attempt      \* the miner's variables in mineBlock

pool == <<mempool, seenTxs, seenBlocks>>
locals == <<received, payment, orphans, todo, fetched>>
nodeVars == <<vars, pool, stage, locals, attempt>>

Payments(txs) == {t \in txs : ~IsCoinbase(t)}

NoAttempt == [stage |-> "idle", cancelled |-> FALSE, pending |-> {}, kept |-> <<>>,
              latest |-> Genesis, block |-> Genesis]

---------------------------------------------------------------------------
\* A goroutine goes on to another stage; at the end its variables are gone.
Goto(w, next) == stage' = [stage EXCEPT ![w] = next] /\ UNCHANGED locals

End(w) ==
  /\ stage' = [stage EXCEPT ![w] = "idle"]
  /\ received' = [received EXCEPT ![w] = Genesis]
  /\ payment' = [payment EXCEPT ![w] = {}]
  /\ orphans' = [orphans EXCEPT ![w] = {}]
  /\ todo' = [todo EXCEPT ![w] = <<>>]
  /\ fetched' = [fetched EXCEPT ![w] = <<>>]

---------------------------------------------------------------------------
(* HandleSubmitTransaction                                                 *)

\* A payment that is new and signed; others end the call at once.
SubmitTransaction(w, t) ==
  /\ stage[w] = "idle" /\ w \notin Periodic
  /\ t \notin seenTxs
  /\ Verify(t)
  /\ stage' = [stage EXCEPT ![w] = "markTx"]
  /\ payment' = [payment EXCEPT ![w] = {t}]
  /\ UNCHANGED <<vars, pool, received, orphans, todo, fetched, attempt>>

MarkTx(w) ==
  /\ stage[w] = "markTx"
  /\ seenTxs' = seenTxs \cup payment[w]
  /\ Goto(w, "checkTx")
  /\ UNCHANGED <<vars, mempool, seenBlocks, attempt>>

CheckTx(w) ==
  /\ stage[w] = "checkTx"
  /\ \/ /\ \A t \in payment[w] : CanApplyTransaction(ledger, t)
        /\ Goto(w, "addTx")
     \/ /\ \E t \in payment[w] : ~CanApplyTransaction(ledger, t)
        /\ End(w)
  /\ UNCHANGED <<vars, pool, attempt>>

AddTx(w) ==
  /\ stage[w] = "addTx"
  /\ mempool' = mempool \cup payment[w]
  /\ End(w)
  /\ UNCHANGED <<vars, seenTxs, seenBlocks, attempt>>

---------------------------------------------------------------------------
(* HandleReceiveBlock                                                      *)

ReceiveBlock(w, b) ==
  /\ stage[w] = "idle" /\ w \notin Periodic
  /\ b \notin seenBlocks
  /\ stage' = [stage EXCEPT ![w] = "markBlock"]
  /\ received' = [received EXCEPT ![w] = b]
  /\ UNCHANGED <<vars, pool, payment, orphans, todo, fetched, attempt>>

MarkBlock(w) ==
  /\ stage[w] = "markBlock"
  /\ seenBlocks' = seenBlocks \cup {received[w]}
  /\ Goto(w, "call")
  /\ UNCHANGED <<vars, mempool, seenTxs, attempt>>

\* Slip: the handler does not wait for TryAddOrReorg.
CallInBackground(w) ==
  /\ stage[w] = "call"
  /\ ReadTip(w, received[w])
  /\ Goto(w, "remove")
  /\ UNCHANGED <<pool, attempt>>

CallTryAddOrReorg(w) ==
  /\ stage[w] = "call"
  /\ ReadTip(w, received[w])
  /\ Goto(w, "process")
  /\ UNCHANGED <<pool, attempt>>

TryAddOrReorg(w) == TryAdd(w) \/ SkipTooFar(w) \/ StoreAside(w) \/ ReorgFromSide(w)

\* A step of TryAddOrReorg, and what the handler does with its result.
Process(w) ==
  /\ stage[w] = "process"
  /\ TryAddOrReorg(w)
  /\ \/ pc'[w] # "idle" /\ UNCHANGED <<stage, locals>>
     \/ /\ pc'[w] = "idle" /\ returned'.outcome = "added"
        /\ stage' = [stage EXCEPT ![w] = "remove"]
        /\ orphans' = [orphans EXCEPT ![w] = returned'.orphans]
        /\ UNCHANGED <<received, payment, todo, fetched>>
     \/ /\ pc'[w] = "idle" /\ returned'.outcome = "needsSync"
        /\ stage' = [stage EXCEPT ![w] = "sync"]
        /\ \E source \in {<<>>} \cup {<<p>> : p \in Peer} : todo' = [todo EXCEPT ![w] = source]
        /\ UNCHANGED <<received, payment, orphans, fetched>>
     \/ /\ pc'[w] = "idle" /\ returned'.outcome \in {"failed", "kept"}
        /\ End(w)
  /\ UNCHANGED <<pool, attempt>>

\* RemoveByBlock, for the received block only.
RemoveByBlock(w) ==
  /\ stage[w] = "remove"
  /\ mempool' = mempool \ Payments(ToSet(Transactions[received[w]]))
  /\ Goto(w, "return")
  /\ UNCHANGED <<vars, seenTxs, seenBlocks, attempt>>

\* The last step of a sync too.
ReturnOrphaned(w) ==
  /\ mempool' = mempool \cup {t \in Payments(orphans[w]) : Verify(t)}
  /\ \/ stage[w] = "return" /\ Goto(w, "notify")
     \/ stage[w] = "endSync" /\ End(w)
  /\ UNCHANGED <<vars, seenTxs, seenBlocks, attempt>>

\* Slip: the miner is not restarted.
NotifyNobody(w) ==
  /\ stage[w] = "notify"
  /\ End(w)
  /\ UNCHANGED <<vars, pool, attempt>>

\* The block is gossiped, and onBlockAccepted restarts the miner.
Notify(w) ==
  /\ stage[w] = "notify"
  /\ attempt' = [attempt EXCEPT !.cancelled = attempt.stage # "idle"]
  /\ End(w)
  /\ UNCHANGED <<vars, pool>>

---------------------------------------------------------------------------
(* SyncWithPeer and SyncWithAllPeers                                       *)

\* GetPeers yields the peers in any order.
StartPeriodicSync(w) ==
  /\ stage[w] = "idle" /\ w \in Periodic
  /\ stage' = [stage EXCEPT ![w] = "sync"]
  /\ \E peers \in SetToSeqs(Peer) : todo' = [todo EXCEPT ![w] = peers]
  /\ UNCHANGED <<vars, pool, received, payment, orphans, fetched, attempt>>

\* Done with the first peer, on to the next.
NextPeer(w) ==
  /\ stage' = [stage EXCEPT ![w] = "sync"]
  /\ todo' = [todo EXCEPT ![w] = Tail(@)]
  /\ fetched' = [fetched EXCEPT ![w] = <<>>]

\* The blocks a peer has above our height, if it says it is ahead; it may
\* have moved to another chain when it is asked for them.
AskPeer(w) ==
  /\ stage[w] = "sync"
  /\ todo[w] # <<>>
  /\ \E info, chain \in Serves[Head(todo[w])] :
        \/ /\ Len(info) > Len(blocks)
           /\ Len(chain) > Len(blocks)
           /\ fetched' = [fetched EXCEPT ![w] = SubSeq(chain, Len(blocks) + 1, Len(chain))]
           /\ stage' = [stage EXCEPT ![w] = "compare"]
           /\ UNCHANGED todo
        \/ /\ Len(info) <= Len(blocks) \/ Len(chain) <= Len(blocks)
           /\ NextPeer(w)
  /\ UNCHANGED <<vars, pool, received, payment, orphans, attempt>>

\* Slip: the parent of the first block is not compared with our head.
CompareIndex(w) ==
  /\ stage[w] = "compare"
  /\ Goto(w, IF Index[fetched[w][1]] = Index[Tip] + 1 THEN "append" ELSE "replace")
  /\ UNCHANGED <<vars, pool, attempt>>

\* Do the new blocks continue our chain, or is there a fork?
Compare(w) ==
  /\ stage[w] = "compare"
  /\ LET first == fetched[w][1]
     IN  Goto(w, IF PrevHash[first] = Tip /\ Index[first] = Index[Tip] + 1
                 THEN "append" ELSE "replace")
  /\ UNCHANGED <<vars, pool, attempt>>

\* One AddBlock after the other, up to the first that fails.
AppendFetched(w) ==
  /\ stage[w] = "append"
  /\ \/ /\ AddBlock(fetched[w][1])
        /\ \/ /\ Len(fetched[w]) > 1
              /\ fetched' = [fetched EXCEPT ![w] = Tail(@)]
              /\ UNCHANGED <<stage, todo>>
           \/ /\ Len(fetched[w]) = 1
              /\ NextPeer(w)
     \/ /\ ~Accepts(fetched[w][1])
        /\ UNCHANGED vars
        /\ NextPeer(w)
  /\ UNCHANGED <<pool, received, payment, orphans, attempt>>

\* The peer's whole chain replaces ours, if ReorganiseTo agrees; when that
\* fails, what it would have returned is lost.
ReplaceChain(w) ==
  /\ stage[w] = "replace"
  /\ \E chain \in Serves[Head(todo[w])] :
        \/ /\ chain # <<>>
           /\ ReorganiseTo(chain)
           /\ orphans' = [orphans EXCEPT ![w] = @ \cup returned'.orphans]
        \/ /\ chain = <<>> \/ ~Acceptable(blocks, chain)
           /\ UNCHANGED <<vars, orphans>>
  /\ NextPeer(w)
  /\ UNCHANGED <<pool, received, payment, attempt>>

EndSync(w) ==
  /\ stage[w] = "sync"
  /\ todo[w] = <<>>
  /\ Goto(w, "endSync")
  /\ UNCHANGED <<vars, pool, attempt>>

---------------------------------------------------------------------------
(* mineBlock; module Miner has the loop around it                          *)

Attempting(from, next) ==
  /\ attempt.stage = from
  /\ attempt' = next
  /\ UNCHANGED <<pool, stage, locals>>

ReadPool ==
  /\ Mining
  /\ Attempting("idle", [NoAttempt EXCEPT !.stage = "filter", !.pending = mempool])
  /\ UNCHANGED vars

\* The map yields the pending payments in any order.
FilterPool ==
  /\ \E pending \in SetToSeqs(attempt.pending) :
        Attempting("filter", [attempt EXCEPT !.stage = "build", !.pending = {},
                                !.kept = FilterValidTransactions(ledger, pending)])
  /\ UNCHANGED vars

BuildBlock ==
  /\ Attempting("build", [attempt EXCEPT !.stage = "mine", !.latest = Tip])
  /\ UNCHANGED vars

\* The blocks the search may end with.
Candidates ==
  LET fees == FoldLeft(LAMBDA sum, t : Uint64(sum + Fee[t]), 0, attempt.kept)
  IN  {b \in Block : /\ Index[b] = Index[attempt.latest] + 1
                     /\ PrevHash[b] = attempt.latest
                     /\ Sealed[b] /\ Difficulty[b] = DefaultDifficulty
                     /\ Len(Transactions[b]) = Len(attempt.kept) + 1
                     /\ Tail(Transactions[b]) = attempt.kept
                     /\ LET coinbase == Transactions[b][1]
                        IN  /\ IsCoinbase(coinbase)
                            /\ To[coinbase] = MinerAddress
                            /\ Amount[coinbase] = Uint64(MiningReward + fees)}

\* The search ends with a block, or because a handler restarted the miner.
FindBlock ==
  /\ \E b \in Candidates : Attempting("mine", [attempt EXCEPT !.stage = "found", !.block = b])
  /\ UNCHANGED vars

GiveUp ==
  /\ attempt.cancelled
  /\ Attempting("mine", NoAttempt)
  /\ UNCHANGED vars

\* Slip: the block is appended without AddBlock's checks.
AppendMinedBlock ==
  /\ Extend(attempt.block)
  /\ returned' = Result("added", {})
  /\ UNCHANGED <<sideChains, pc, block, latest, hypothetical>>
  /\ Attempting("found", [attempt EXCEPT !.stage = "mined"])

AddMinedBlock ==
  \/ /\ AddBlock(attempt.block)
     /\ Attempting("found", [attempt EXCEPT !.stage = "mined"])
  \/ /\ ~Accepts(attempt.block)
     /\ Attempting("found", NoAttempt)
     /\ UNCHANGED vars

RemoveMined ==
  /\ attempt.stage = "mined"
  /\ mempool' = mempool \ Payments(ToSet(Transactions[attempt.block]))
  /\ attempt' = [attempt EXCEPT !.stage = "gossip"]
  /\ UNCHANGED <<vars, seenTxs, seenBlocks, stage, locals>>

OnBlockMined ==
  /\ attempt.stage = "gossip"
  /\ seenBlocks' = seenBlocks \cup {attempt.block}
  /\ attempt' = NoAttempt
  /\ UNCHANGED <<vars, mempool, seenTxs, stage, locals>>

---------------------------------------------------------------------------
NodeInit ==
  /\ Init
  /\ mempool = {} /\ seenTxs = {} /\ seenBlocks = {}
  /\ stage = [w \in Worker |-> "idle"]
  /\ received = [w \in Worker |-> Genesis]
  /\ payment = [w \in Worker |-> {}]
  /\ orphans = [w \in Worker |-> {}]
  /\ todo = [w \in Worker |-> <<>>]
  /\ fetched = [w \in Worker |-> <<>>]
  /\ attempt = NoAttempt

Submit(w) == \E t \in Payments(Tx) : SubmitTransaction(w, t)
Receive(w) == \E b \in Announced : ReceiveBlock(w, b)

Handle(w) == \/ MarkTx(w) \/ CheckTx(w) \/ AddTx(w)
             \/ MarkBlock(w) \/ CallTryAddOrReorg(w) \/ Process(w)
             \/ RemoveByBlock(w) \/ ReturnOrphaned(w) \/ Notify(w)

Sync(w) == AskPeer(w) \/ Compare(w) \/ AppendFetched(w) \/ ReplaceChain(w) \/ EndSync(w)

Mine == \/ ReadPool \/ FilterPool \/ BuildBlock \/ FindBlock \/ GiveUp
        \/ AddMinedBlock \/ RemoveMined \/ OnBlockMined

NodeNext == \/ \E w \in Worker : \/ Submit(w) \/ Receive(w) \/ Handle(w)
                                 \/ StartPeriodicSync(w) \/ Sync(w)
            \/ Mine

NodeSpec == NodeInit /\ [][NodeNext]_nodeVars

\* Goroutines run on, and the timer of the periodic sync keeps firing.
NodeFairness ==
  \A w \in Worker : /\ WF_nodeVars(Handle(w) \/ Sync(w))
                    /\ WF_nodeVars(StartPeriodicSync(w))

FairNodeSpec == NodeSpec /\ NodeFairness

---------------------------------------------------------------------------
Stages == {"idle", "markTx", "checkTx", "addTx", "markBlock", "call", "process", "remove",
           "return", "notify", "sync", "compare", "append", "replace", "endSync"}

NodeTypeOK ==
  /\ mempool \subseteq Payments(Tx)
  /\ seenTxs \subseteq Tx
  /\ seenBlocks \subseteq Block
  /\ stage \in [Worker -> Stages]
  /\ received \in [Worker -> Block]
  /\ payment \in [Worker -> SUBSET Payments(Tx)]
  /\ orphans \in [Worker -> SUBSET Payments(Tx)]
  /\ todo \in [Worker -> Seq(Peer)]
  /\ fetched \in [Worker -> Seq(Block)]
  /\ attempt.stage \in {"idle", "filter", "build", "mine", "found", "mined", "gossip"}
  /\ \A w \in Worker : pc[w] # "idle" <=> stage[w] = "process"
  /\ \A w \in Worker : stage[w] = "process" => block[w] = received[w]

(***************************************************************************)
(* However handlers, syncs and the miner interleave, they use the chain    *)
(* only as module Chain allows, so what holds of every behaviour of Chain  *)
(* holds of the chain of a running node.                                   *)
(***************************************************************************)
ImplementsChain == Spec

(***************************************************************************)
(* A block found on the present tip is accepted: although the miner reads  *)
(* the pool, the ledger and the tip one after the other, an attempt that   *)
(* mixes two states of the chain was cancelled by the handler that changed *)
(* it, or will be when that handler comes to Restart.  (Blocks appended by *)
(* a sync cancel nothing.)                                                 *)
(***************************************************************************)
ChainChangeOwed == \E w \in Worker : stage[w] \in {"remove", "return", "notify"}

MinedBlockFits ==
  attempt.stage = "found" /\ ~attempt.cancelled /\ ~ChainChangeOwed /\ attempt.latest = Tip
    => Accepts(attempt.block)

(***************************************************************************)
(* With a peer that answers and keeps its chain, the periodic sync brings  *)
(* the node to at least the work of that chain, and it stays there, while  *)
(* other peers are silent or behind and handlers move the tip between the  *)
(* steps of the sync.                                                      *)
(***************************************************************************)
CatchesUp ==
  \A p \in Peer : \A chain \in PeerChains :
     Serves[p] = {chain} => <>[](calculateWork(blocks) >= calculateWork(chain))

---------------------------------------------------------------------------
(* What the repository says of the node and the code does not do.          *)

(***************************************************************************)
(* REPORT.md on reorganisation: no payment the node has, pending, on the   *)
(* main chain or on the way back to the pool, is lost by a step after      *)
(* which the ledger would still take it.                                   *)
(***************************************************************************)
Had == mempool \cup Payments(Confirmed(blocks)) \cup UNION {orphans[w] : w \in Worker}

NoPaymentLost ==
  [][\A t \in Had \ Had' : ~CanApplyTransaction(ledger', t)]_nodeVars
============================================================================
