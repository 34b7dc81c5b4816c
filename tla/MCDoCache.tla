------------------------------ MODULE MCDoCache ------------------------------
(* Instances of DoCache for TLC: an SST of several parts under two part      *)
(* sizes, and another object of one part under one of them.                  *)
EXTENDS DoCache, TLC

CONSTANTS sst, other

CachedEntries ==
    {[location |-> sst, size |-> 3, ps |-> 1],
     [location |-> sst, size |-> 3, ps |-> 2],
     [location |-> other, size |-> 1, ps |-> 2]}

TaskSymmetry == Permutations(Tasks)
=============================================================================
