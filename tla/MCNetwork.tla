------------------------------ MODULE MCNetwork ------------------------------
(***************************************************************************)
(* Nodes and blocks for TLC.  Two branches compete:                        *)
(*                                                                         *)
(*        g --- a1                                                         *)
(*        |---- b1 --- b2                                                  *)
(*                                                                         *)
(* Different nodes find them.  Only the chains matter here, so the blocks  *)
(* hold nothing but their rewards to the miner m.                          *)
(***************************************************************************)
EXTENDS Network, TLC

CONSTANTS g, a1, b1, b2, ca1, cb1, cb2, m, none, nohash, n1, n2, n3, s

\* What the theorems about Network suppose of the blocks.
ASSUME BlocksAssumption == NoBranchOverspends /\ NoWorkWraps

MCAddress == {m}
MCTx == {ca1, cb1, cb2}
MCFrom == [t \in MCTx |-> none]
MCTo == [t \in MCTx |-> m]
MCAmount == [t \in MCTx |-> 2]
MCFee == [t \in MCTx |-> 0]
MCSigned == [t \in MCTx |-> TRUE]

MCBlock == {g, a1, b1, b2}
MCIndex == [b \in MCBlock |-> CASE b = g -> 0 [] b = b2 -> 2 [] OTHER -> 1]
MCPrevHash == [b \in MCBlock |-> CASE b = g -> nohash [] b = b2 -> b1 [] OTHER -> g]
MCDifficulty == [b \in MCBlock |-> IF b = g THEN 1 ELSE 4]
MCSealed == [b \in MCBlock |-> TRUE]
MCTransactions == [b \in MCBlock |-> CASE b = g -> <<>> [] b = a1 -> <<ca1>>
                                       [] b = b1 -> <<cb1>> [] b = b2 -> <<cb2>>]

\* Three nodes that know each other in a ring; some seen entries expire.
Three == {n1, n2, n3}
Ring == [n \in Three |-> CASE n = n1 -> <<n2>> [] n = n2 -> <<n3>> [] n = n3 -> <<n1>>]
ThreeFinders == [b \in MCBlock |-> CASE b = a1 -> n1 [] b = b1 -> n2 [] OTHER -> n3]
Expiring == {a1, b1}
NoOffer == {}

\* Two nodes that know each other, and a client that posts a list of peers.
Two == {n1, n2}
Pair == [n \in Two |-> IF n = n1 THEN <<n2>> ELSE <<n1>>]
TwoFinders == [b \in MCBlock |-> IF b = a1 THEN n1 ELSE n2]
Lasting == {}
Offer == {<<n2, s>>}

Silent == {s}
=============================================================================
