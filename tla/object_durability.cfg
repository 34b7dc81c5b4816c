SPECIFICATION Spec
CONSTANTS
    Requests = {r1, r2, r3}
    Clients = {c1}
    OneClient = c1
    Names = {db}
    None = None
    DefaultLimit = 1
    MaxLimit = 2
    Kinds = {"put", "get", "reopen"}
SYMMETRY RequestSymmetry
INVARIANTS
    TypeOK
    AckedDurable
    ReadsSeeAcks
    ScanSeesAcks
    WritersContiguous
    LiveDbOwned
    RealTimeOrder
PROPERTY LogOnlyGrows
