SPECIFICATION FairSpec
CONSTANTS
    MaxKey = 4
    Nested = {2, 3}
    NoCursor = NoCursor
INVARIANTS
    ListTypeOK
    ListingIsTrue
    ListingIsComplete
PROPERTY ListingEnds
