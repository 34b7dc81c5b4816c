------------------------------ MODULE MCStores ------------------------------
(***************************************************************************)
(* Stores for TLC.                                                         *)
(***************************************************************************)
EXTENDS Stores, TLC

\* Callers and contents are interchangeable; None is not among the contents.
StoreSymmetry == Permutations(Callers) \cup Permutations(Values)
=============================================================================
