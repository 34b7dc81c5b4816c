SPECIFICATION ServiceSpec
CONSTANTS
    Requests = {r1, r2, r3}
    Clients = {c1}
    OneClient = c1
    Names = {db}
    None = None
    Kinds = {"put"}
SYMMETRY RequestSymmetry
INVARIANTS
    ReadsSeeAcks
    ServiceDbOwned
    RemovalAlone
PROPERTY ServiceLogKept
