SPECIFICATION Spec
CONSTANTS
    Tasks = {t1, t2}
    sst = sst
    other = other
    Locations = {sst, other}
    Entries <- CachedEntries
    Chunk = 2
    None = None
SYMMETRY TaskSymmetry
INVARIANT DeleteLeavesNoOrphans
