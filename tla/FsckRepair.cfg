SPECIFICATION FairSpec
CONSTANTS
    Null = Null
    h1 = h1
    h2 = h2
    n1 = n1
    n2 = n2
    c1 = c1
    c2 = c2
    c3 = c3
    NarInfos = {h1, h2}
    Nars = {n1, n2}
    Chunks = {c1, c2, c3}
    NarOf <- MCNarOf
    ContentOf <- MCContentOf
    Spare = c3
    Options <- MCOptions
    Shapes <- MCShapes
    MaxWrites = 2
INVARIANT HealthyKept
PROPERTY EventuallyClean
