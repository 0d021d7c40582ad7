------------------------------ MODULE MCMiner ------------------------------
(***************************************************************************)
(* Two runs of the miner share two attempts, while handlers move the tip   *)
(* twice and a sync moves it once.                                         *)
(***************************************************************************)
EXTENDS Miner
============================================================================
