--------------------------- MODULE MCTriggerChain ---------------------------
(* Instances of TriggerChain for TLC. *)
EXTENDS TriggerChain, TLC

CONSTANTS s1, s2

ServerSymmetry == Permutations({s1, s2})
=============================================================================
