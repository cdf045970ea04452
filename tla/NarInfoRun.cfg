SPECIFICATION Spec
CONSTANTS
    Null = Null
    h1 = h1
    n1 = n1
    s1 = s1
    s2 = s2
    g1 = g1
    g2 = g2
    p1 = p1
    u1 = u1
    d1 = d1
    NarInfos = {h1}
    Nars = {n1}
    NarOf <- MCNarOf
    HashOf <- MCHashOf
    ServerOf <- MCServerOf
    Servers = {s1, s2}
    Gets = {g1, g2}
    Puts = {p1}
    Uploads = {u1}
    Deletes = {d1}
    Configurations <- MCConfigurations
    Shapes <- MCShapes
    Faults = {"lock", "sign", "database", "crash", "nar"}
    MaxFaults = 1
INVARIANTS TypeOK PathKept FoundWhileKept SizesAgree WaitedForIsAlive
SYMMETRY MCSymmetry
