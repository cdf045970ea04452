SPECIFICATION FairSpec

CONSTANTS
    n1 = n1
    n2 = n2
    a1 = a1
    a2 = a2
    a3 = a3
    r1 = r1
    Nars = {n1}
    Content <- Single
    Chunked = {}
    Attempts = {a1, a2}
    NarOf <- Retries
    Sized = {}
    Readers = {r1}
    NarRead <- ReadsN1
    MaxBatch = 2
    MaxGC = 1
    Faults = {"crash"}

CHECK_DEADLOCK FALSE

INVARIANT StreamedIsContent
INVARIANT FilesTracked
PROPERTY ReadersFinish
