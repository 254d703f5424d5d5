------------------------------ MODULE MCMerger ------------------------------
(* Instances of Merger for TLC. *)
EXTENDS MergerInv, TLC

\* The sources are interchangeable: used by the runs without temporal
\* properties.
SourceSymmetry == Permutations(Sources)
=============================================================================
