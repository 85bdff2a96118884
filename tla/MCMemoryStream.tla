--------------------------- MODULE MCMemoryStream ---------------------------
(* Small instances of MemoryStream. *)
EXTENDS MemoryStream, TLC

CONSTANTS r1, r2

SomeFilters == {FirstFilter, [FirstFilter EXCEPT !.pinnedOnly = TRUE]}

Symmetry == Permutations(Requests)
=============================================================================
