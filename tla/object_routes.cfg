SPECIFICATION FairSpec
CONSTANTS
    Requests = {r1, r2}
    Clients = {c1, c2}
    OneClient = c1
    Names = {dbA, dbB}
    None = None
    DefaultLimit = 1
    MaxLimit = 2
    Kinds = {"put", "get", "bench", "flush", "reopen", "stats"}
PROPERTIES
    EveryRequestAnswered
    LogKept
