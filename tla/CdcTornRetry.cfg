SPECIFICATION Spec

CONSTANTS
    n1 = n1
    n2 = n2
    a1 = a1
    a2 = a2
    a3 = a3
    r1 = r1
    Nars = {n1}
    Content <- Single
    Chunked = {}
    Attempts = {a1, a2}
    NarOf <- Retries
    Sized = {a1, a2}
    Readers = {}
    NarRead <- ReadsN1
    MaxBatch = 2
    MaxGC = 0
    Faults = {"truncate"}

CHECK_DEADLOCK FALSE

INVARIANT ChunkedIsIntact
