-------------------------- MODULE MCContainerService --------------------------
(* Instances of ContainerService for TLC. *)
EXTENDS ContainerService, TLC

\* Requests are interchangeable: no definition orders them.
RequestSymmetry == Permutations(Requests)
=============================================================================
