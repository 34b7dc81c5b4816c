SPECIFICATION Spec
CONSTANTS
    Sizes = {0, 2}
    Times = {0, 1, 2}
    Tags = {2}
    Dates = {1}
    Positions = {0, 1, 3}
    Second = 2
    MaxSeen = 2
    Any = Any
    None = None
INVARIANTS
    ReadTypeOK
    ReadIsTrue
    RefusalIsTrue
    ErrorHasCause
