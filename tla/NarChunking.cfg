SPECIFICATION Spec

CONSTANTS
    s1 = s1
    s2 = s2
    r1 = r1
    r2 = r2
    r3 = r3
    Servers = {s1}
    Requests = {r1, r2}
    ServerOf <- OneServer
    None = None
    Chunker = Chunker
    NarLen = 2
    Mode = "pipe"
    Distributed = TRUE
    Faults = {"truncate", "expire", "stale", "upstream", "database"}
    MaxFaults = 1

SYMMETRY SameServer
CHECK_DEADLOCK FALSE

INVARIANT TypeOK
INVARIANT JobsAreListed
INVARIANT TempFilePresent
INVARIANT ChunkingLockOwned
INVARIANT ChunkedIsWhole
