------------------------------- MODULE MCEcho -------------------------------
(* Small instances of Echo. *)
EXTENDS Echo, TLC

CONSTANTS c1, c2, r1, r2

Symmetry == Permutations(Requests) \cup Permutations(Captures)
=============================================================================
