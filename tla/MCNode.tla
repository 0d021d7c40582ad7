------------------------------- MODULE MCNode -------------------------------
(***************************************************************************)
(* A block tree for TLC:                                                   *)
(*                                                                         *)
(*        g --- p1 --- a2 --- r3                                           *)
(*               |---- b2 --- b3                                           *)
(*                                                                         *)
(* p1 pays the miner m, and a2 holds the payment pay that m makes to x.    *)
(* r3 holds pay again: no ledger takes it, but the miner may come to build *)
(* it from a pool and a tip that do not belong together.                   *)
(***************************************************************************)
EXTENDS Node, TLC

CONSTANTS g, p1, a2, b2, b3, r3, cp1, ca2, cb2, cb3, cr3, pay, m, x, none, nohash,
          w1, w2, timer, tall, silent

MCAddress == {m, x}
MCTx == {cp1, ca2, cb2, cb3, cr3, pay}
MCFrom == [t \in MCTx |-> IF t = pay THEN m ELSE none]
MCTo == [t \in MCTx |-> IF t = pay THEN x ELSE m]
MCAmount == [t \in MCTx |-> CASE t \in {ca2, cr3} -> 3 [] t = pay -> 1 [] OTHER -> 2]
MCFee == [t \in MCTx |-> IF t = pay THEN 1 ELSE 0]
MCSigned == [t \in MCTx |-> TRUE]

MCBlock == {g, p1, a2, b2, b3}
MCReplay == MCBlock \cup {r3}
MCIndex == [b \in MCReplay |-> CASE b = g -> 0 [] b = p1 -> 1
                                 [] b \in {a2, b2} -> 2 [] OTHER -> 3]
MCPrevHash == [b \in MCReplay |-> CASE b = g -> nohash [] b = p1 -> g [] b = b3 -> b2
                                    [] b = r3 -> a2 [] OTHER -> p1]
MCDifficulty == [b \in MCReplay |-> IF b = g THEN 1 ELSE 4]
MCSealed == [b \in MCReplay |-> TRUE]
MCTransactions ==
  [b \in MCReplay |-> CASE b = g -> <<>> [] b = p1 -> <<cp1>> [] b = a2 -> <<ca2, pay>>
                        [] b = b2 -> <<cb2>> [] b = b3 -> <<cb3>> [] b = r3 -> <<cr3, pay>>]
Of(f) == [b \in MCBlock |-> f[b]]
MCIndexTree == Of(MCIndex)
MCPrevHashTree == Of(MCPrevHash)
MCDifficultyTree == Of(MCDifficulty)
MCSealedTree == Of(MCSealed)
MCTransactionsTree == Of(MCTransactions)

\* The tree without pay, where only the chain matters.
CoinbaseTx == MCTx \ {pay}
FromNobody == [t \in CoinbaseTx |-> none]
ToMiner == [t \in CoinbaseTx |-> m]
Reward == [t \in CoinbaseTx |-> 2]
NoFee == [t \in CoinbaseTx |-> 0]
SignedCoinbase == [t \in CoinbaseTx |-> TRUE]
CoinbaseOnly == [b \in MCBlock |-> SelectSeq(MCTransactions[b], LAMBDA t : t # pay)]

Handlers == {w1, w2}
OneHandler == {w1}
HandlerAndTimer == {w1, timer}
Timer == {timer}
Nobody == {}
TallPeer == {tall}
TwoPeers == {tall, silent}
BChain == <<g, p1, b2, b3>>
NoChains == {}
AChain == <<g, p1, a2>>
PeerChain == {BChain}
BothChains == {AChain, BChain}
ServesNothing == [p \in {} |-> {}]
ServesB == [p \in TallPeer |-> {BChain}]
ServesBoth == [p \in TallPeer |-> BothChains]
ServesBOrNothing == [p \in TwoPeers |-> IF p = tall THEN {BChain} ELSE {<<>>}]
HandlerSymmetry == Permutations(Handlers)
============================================================================
