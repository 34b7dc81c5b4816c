SPECIFICATION Spec
CONSTANTS
    Requests = {r1, r2, r3}
    Clients = {c1}
    OneClient = c1
    Names = {dbA, dbB}
    None = None
    DefaultLimit = 1
    MaxLimit = 2
    Kinds = {"bench", "flush", "reopen"}
SYMMETRY RequestSymmetry
INVARIANTS
    DrainComplete
    NamesNeverMix
