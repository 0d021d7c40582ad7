---------------------------- MODULE HeaviestChain ----------------------------
(***************************************************************************)
(* What a node's chain promises to the rest of the program: it is always a *)
(* valid chain from genesis, and it changes only by growing at its tip or  *)
(* by giving way, as a whole, to a valid chain with strictly more work.    *)
(* Where the blocks come from, side chains, locks and goroutines are the   *)
(* business of module Chain, which implements this one.                    *)
(***************************************************************************)
EXTENDS Integers, Sequences

CONSTANTS Block, Genesis,
          Valid(_, _),   \* Valid(b, p): block b may follow block p
          Work(_)        \* cumulative work of a sequence of blocks

VARIABLE chain

IsChain(s) == /\ s \in Seq(Block)
              /\ s # <<>>
              /\ s[1] = Genesis
              /\ \A i \in 2 .. Len(s) : Valid(s[i], s[i-1])

Init == chain = <<Genesis>>

Extend == \E b \in Block : /\ Valid(b, chain[Len(chain)])
                           /\ chain' = Append(chain, b)

Switch == /\ IsChain(chain')
          /\ Work(chain') > Work(chain)

Next == Extend \/ Switch

Spec == Init /\ [][Next]_chain
============================================================================
