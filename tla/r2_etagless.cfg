SPECIFICATION Spec
CONSTANTS
    Callers = {c1, c2}
    Paths = {p1}
    Values = {v1, v2}
    None = None
INVARIANT UpdateNamesETag
