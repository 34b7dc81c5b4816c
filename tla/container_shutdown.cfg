SPECIFICATION FairServiceSpec
CONSTANTS
    Requests = {r1, r2}
    Clients = {c1}
    OneClient = c1
    Names = {db}
    None = None
    Kinds = {"put", "get", "bench", "flush", "reopen", "stats"}
INVARIANT ShutdownDrains
PROPERTIES
    ServiceAnswers
    ShutdownEnds
