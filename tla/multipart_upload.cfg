SPECIFICATION Spec
CONSTANTS
    MaxParts = 3
    MaxPuts = 4
    None = None
INVARIANTS
    UploadTypeOK
    CompletedObjectIsWhole
    AbortIsFinal
PROPERTY UploadIsPut
CHECK_DEADLOCK FALSE
