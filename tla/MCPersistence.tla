--------------------------- MODULE MCPersistence ---------------------------
(***************************************************************************)
(* Two savers, a file of two chunks, four states of the chain.             *)
(***************************************************************************)
EXTENDS Persistence, TLC
CONSTANTS s1, s2, i1, i2, i3
MCInode == {i1, i2, i3}
Two == {s1, s2}
Symmetry == Permutations(MCInode) \cup Permutations(Saver)
============================================================================
