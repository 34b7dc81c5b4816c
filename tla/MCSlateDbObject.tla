--------------------------- MODULE MCSlateDbObject ---------------------------
(* Instances of SlateDbObject for TLC. *)
EXTENDS ScanRoute, TLC

\* Requests are interchangeable: no definition orders them.
RequestSymmetry == Permutations(Requests)
=============================================================================
