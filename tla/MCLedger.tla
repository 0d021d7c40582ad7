------------------------------ MODULE MCLedger ------------------------------
(***************************************************************************)
(* Two accounts, three coinbases (reward 3 plus 0, 1 or 2 in fees) and     *)
(* three payments: a pays b, b pays a part of it back, and b pays itself.  *)
(* What b has covers both of its payments in one order and not the other,  *)
(* so order matters in bodies and in pools.                                *)
(***************************************************************************)
EXTENDS Ledger

CONSTANTS a, b, none, c0, c1, c2, ab, ba, bb

MCAddress == {a, b}
MCCoinbase == {c0, c1, c2}
MCTx == MCCoinbase \cup {ab, ba, bb}
MCFrom == [t \in MCTx |-> CASE t \in MCCoinbase -> none [] t = ab -> a [] OTHER -> b]
MCTo == [t \in MCTx |-> IF t \in MCCoinbase \cup {ba} THEN a ELSE b]
MCAmount == [t \in MCTx |-> CASE t = c0 -> 3 [] t = c1 -> 4 [] t = c2 -> 5
                               [] t = ab -> 2 [] OTHER -> 1]
MCFee == [t \in MCTx |-> IF t \in {ab, bb} THEN 1 ELSE 0]
MCSigned == [t \in MCTx |-> TRUE]

\* Bodies with and without a coinbase, with one or two payments in either
\* order, replays, a coinbase that claims too much and one that stands second.
MCBodies == {<<>>, <<c0>>, <<c1>>, <<ab>>, <<ba>>, <<ab, c0>>}
       \cup {<<c1, x>> : x \in {ab, ba, bb}}
       \cup {<<x, y>> : x, y \in {ab, ba}}
       \cup {<<c2, x, y>> : x, y \in {ab, ba, bb}}
============================================================================
