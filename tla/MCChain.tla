------------------------------- MODULE MCChain -------------------------------
(***************************************************************************)
(* A small block tree for TLC:                                             *)
(*                                                                         *)
(*        g --- a1 --- a2                                                  *)
(*        |---- b1 --- b2 --- b3                                           *)
(*        |---- d1                                                         *)
(*                                                                         *)
(* Both branches first pay the miner m.  a2 also holds the payment pay,    *)
(* from m to x, and onward, with which x passes that money on; the b       *)
(* branch holds neither.  d1 claims more work than the network's           *)
(* difficulty.                                                             *)
(***************************************************************************)
EXTENDS Chain, TLC

CONSTANTS g, a1, a2, b1, b2, b3, d1,
          ca1, ca2, cb1, cb2, cb3, cd1, pay, onward, m, x, none, nohash,
          w1, w2

MCAddress == {m, x}
MCTx == {ca1, ca2, cb1, cb2, cb3, cd1, pay, onward}
MCFrom == [t \in MCTx |-> CASE t = pay -> m [] t = onward -> x [] OTHER -> none]
MCTo == [t \in MCTx |-> IF t = pay THEN x ELSE m]
MCAmount == [t \in MCTx |-> IF t = ca2 THEN 3 ELSE IF t \in {pay, onward} THEN 1 ELSE 2]
MCFee == [t \in MCTx |-> IF t = pay THEN 1 ELSE 0]
MCSigned == [t \in MCTx |-> TRUE]

MCBlock == {g, a1, a2, b1, b2, b3, d1}
MCIndex == [b \in MCBlock |-> CASE b = g -> 0 [] b \in {a1, b1, d1} -> 1
                                [] b \in {a2, b2} -> 2 [] b = b3 -> 3]
MCPrevHash == [b \in MCBlock |-> CASE b = g -> nohash [] b = a2 -> a1 [] b = b2 -> b1
                                   [] b = b3 -> b2 [] OTHER -> g]
MCDifficulty == [b \in MCBlock |-> CASE b = g -> 1 [] b = d1 -> 6 [] OTHER -> 4]
MCSealed == [b \in MCBlock |-> TRUE]
MCTransactions ==
  [b \in MCBlock |-> CASE b = g -> <<>> [] b = a1 -> <<ca1>> [] b = a2 -> <<ca2, pay, onward>>
                       [] b = b1 -> <<cb1>> [] b = b2 -> <<cb2>> [] b = b3 -> <<cb3>>
                       [] b = d1 -> <<cd1>>]
\* The same tree, but b3 spends money that x does not have on the b branch.
MCOverspending == [MCTransactions EXCEPT ![b3] = <<cb3, onward>>]

MCPeerChains == {<<g, a1, a2>>, <<g, b1, b2, b3>>}
MCWorker == {w1, w2}
MCSymmetry == Permutations(MCWorker)
============================================================================
