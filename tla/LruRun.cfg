SPECIFICATION FairSpec

CONSTANTS
    h1 = h1
    h2 = h2
    h3 = h3
    x = x
    y = y
    Hashes = {h1, h2, h3}
    Nars = {x, y}
    NarOf <- TwoShare
    Size <- SmallSizes
    Refs <- Chain
    Uncompressed = {x}
    maxSize = 2
    Faults = {"store", "database", "crash"}
    MaxPuts = 3
    MaxCrashes = 1

INVARIANT TypeOK
INVARIANT FilesAccounted
PROPERTY PinnedRootsKept
PROPERTY SharedNarsKept
PROPERTY SpaceReclaimed
