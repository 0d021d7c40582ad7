------------------------------- MODULE Ledger -------------------------------
(***************************************************************************)
(* The ledger of one node as a state machine: blocks are applied one by    *)
(* one, or the whole ledger is rebuilt from another chain of blocks.  A    *)
(* block is its body here, a sequence of transaction IDs.                  *)
(***************************************************************************)
EXTENDS LedgerRules, FiniteSets

CONSTANTS Bodies,     \* the block bodies that callers hand over
          MaxBlocks   \* bound on the length of a chain

ASSUME BodiesAssumption == Bodies \subseteq Seq(Tx) /\ MaxBlocks \in Nat

VARIABLES ledger,     \* balances and processedTxs
          blocks      \* the bodies the ledger stands for

vars == <<ledger, blocks>>

Init == ledger = NewLedger /\ blocks = <<>>

\* A body that fails leaves the ledger as it was, which is no step here.
ApplyBlock(body) ==
  LET result == applyBlock(ledger, body)
  IN  /\ Len(blocks) < MaxBlocks
      /\ result.ok
      /\ ledger' = result.ledger
      /\ blocks' = Append(blocks, body)

\* The caller switched to another chain, all of whose blocks apply.
Rebuild(chain) ==
  LET result == RebuildFromChain(chain)
  IN  /\ result.ok
      /\ ledger' = result.ledger
      /\ blocks' = chain

\* A reorganisation keeps a prefix and continues it with other bodies.
Forks == {SubSeq(blocks, 1, n) \o suffix :
             n \in 0 .. Len(blocks),
             suffix \in {<<>>} \cup {<<b>> : b \in Bodies}}

Next == \/ \E body \in Bodies : ApplyBlock(body)
        \/ \E chain \in Forks : Len(chain) <= MaxBlocks /\ Rebuild(chain)

Spec == Init /\ [][Next]_vars

---------------------------------------------------------------------------
\* The body Miner.mineBlock builds from a pool handed over in some order.
TotalFees(txs) == FoldLeft(LAMBDA sum, t : Uint64(sum + Fee[t]), 0, txs)

MinerBodies(pending) ==
  LET kept == FilterValidTransactions(ledger, pending)
      reward == Uint64(MiningReward + TotalFees(kept))
  IN  {<<c>> \o kept : c \in {c \in Tx : IsCoinbase(c) /\ Amount[c] = reward}}

---------------------------------------------------------------------------
TypeOK == ledger \in Ledgers /\ blocks \in Seq(Seq(Tx))

Confirmed == FlattenSeq(blocks)

\* The sum of the values at some positions of the chain.
Total(value, positions) == MapThenSumSet(LAMBDA i : value[i], positions)

(***************************************************************************)
(* Every balance is what the address received minus what it paid, fees     *)
(* included, over the whole chain: the incremental updates of applyBlock,  *)
(* its clone and the rebuild lose and invent nothing.                      *)
(***************************************************************************)
BalancesAreNetFlow ==
  LET amount == [i \in DOMAIN Confirmed |-> Amount[Confirmed[i]]]
      cost == [i \in DOMAIN Confirmed |-> Amount[Confirmed[i]] + Fee[Confirmed[i]]]
  IN  \A a \in Address :
         ledger.balances[a] = Total(amount, {i \in DOMAIN Confirmed : To[Confirmed[i]] = a})
                            - Total(cost, {i \in DOMAIN Confirmed : From[Confirmed[i]] = a})

(***************************************************************************)
(* A chain of n blocks holds at most n mining rewards, because a coinbase  *)
(* can only collect fees that the same body pays (applyBlock, step 3).     *)
(***************************************************************************)
SupplyBounded ==
  MapThenSumSet(LAMBDA a : ledger.balances[a], Address) <= MiningReward * Len(blocks)

(***************************************************************************)
(* No payment is confirmed twice, within a body, across bodies, or across  *)
(* a rebuild that resets the set of processed transactions.                *)
(***************************************************************************)
NoPaymentTwice ==
  \A i, j \in DOMAIN Confirmed :
     i # j /\ Confirmed[i] = Confirmed[j] => IsCoinbase(Confirmed[i])

(***************************************************************************)
(* Whatever the pool holds, and in whatever order it is handed over, the   *)
(* body the miner builds from FilterValidTransactions is one applyBlock    *)
(* accepts on the same ledger: the two copies of the rules agree.          *)
(***************************************************************************)
MinerBodyApplies ==
  \A pool \in SUBSET {t \in Tx : ~IsCoinbase(t)} :
     \A pending \in SetToSeqs(pool) :
        /\ MinerBodies(pending) # {}
        /\ \A body \in MinerBodies(pending) : applyBlock(ledger, body).ok

(***************************************************************************)
(* Rebuilding from the chain gives the ledger that grew block by block, so *)
(* a restart or a reorganisation cannot change anybody's balance.          *)
(***************************************************************************)
RebuildAgrees == RebuildFromChain(blocks) = [ok |-> TRUE, ledger |-> ledger]
============================================================================
