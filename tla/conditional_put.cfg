SPECIFICATION BothSpec
CONSTANTS
    Callers = {c1, c2, c3}
    Paths = {p1}
    Values = {v1, v2}
    None = None
SYMMETRY StoreSymmetry
INVARIANTS
    BindingTypeOK
    OneCreator
    OneUpdater
    RefusedNeverStored
PROPERTY KeepsPromise
