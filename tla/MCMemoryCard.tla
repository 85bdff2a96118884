---------------------------- MODULE MCMemoryCard ----------------------------
(* Instances of MemoryCard for TLC: values are interchangeable.            *)
EXTENDS MemoryCard, TLC

Symmetry == Permutations(Values)
=============================================================================
