--------------------------- MODULE MCCaptureOutbox ---------------------------
(* CaptureOutbox on small instances, for TLC.  Captures, workers and requests *)
(* are interchangeable: no definition tells one from another.                 *)
EXTENDS CaptureOutbox, TLC

Symmetry == Permutations(Captures) \cup Permutations(Workers) \cup Permutations(Requests)
=============================================================================
