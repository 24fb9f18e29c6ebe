------------------------------ MODULE MCBatcher ------------------------------
(* Model checking of Batcher: every cfg gives the constants small values. *)
EXTENDS BatcherProperties, TLC

Symmetry == Permutations(Flushers) \union Permutations(Shutters)
=============================================================================
