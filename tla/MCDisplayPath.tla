--------------------------- MODULE MCDisplayPath ---------------------------
(* Values for model checking DisplayPath.                                   *)
EXTENDS DisplayPath, TLC

Symmetry == Permutations(Devices) \cup Permutations(Rooms) \cup Permutations(Contents)
=============================================================================
