SPECIFICATION Spec

CONSTANTS
    n1 = n1
    n2 = n2
    a1 = a1
    a2 = a2
    a3 = a3
    r1 = r1
    Nars = {n1, n2}
    Content <- Shared
    Chunked = {n2}
    Attempts = {a1, a2, a3}
    NarOf <- Retries
    Sized = {a1, a2, a3}
    Readers = {}
    NarRead <- ReadsN1
    MaxBatch = 2
    MaxGC = 0
    Faults = {"crash", "cancel", "store", "readError"}

CHECK_DEADLOCK FALSE

INVARIANT TypeOK
INVARIANT ChunkedIsIntact
INVARIANT ChunkFilesPresent
