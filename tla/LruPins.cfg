SPECIFICATION Spec

CONSTANTS
    h1 = h1
    h2 = h2
    h3 = h3
    x = x
    y = y
    Hashes = {h1, h2, h3}
    Nars = {x, y}
    NarOf <- TwoShare
    Size <- SmallSizes
    Refs <- Chain
    Uncompressed = {}
    maxSize = 2
    Faults = {}
    MaxPuts = 4
    MaxCrashes = 0

PROPERTY PinnedClosureKept
