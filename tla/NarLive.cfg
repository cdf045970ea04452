SPECIFICATION FairSpec

CONSTANTS
    s1 = s1
    s2 = s2
    r1 = r1
    r2 = r2
    r3 = r3
    Servers = {s1, s2}
    Requests = {r1, r2}
    ServerOf <- Apart
    None = None
    Chunker = Chunker
    NarLen = 1
    Mode = "plain"
    Distributed = TRUE
    Faults = {"crash", "store", "cancel"}
    MaxFaults = 1

CHECK_DEADLOCK FALSE

INVARIANT SingleDownload
INVARIANT LockHasReleaser
INVARIANT ServedIsTracked
INVARIANT StreamedIsStored
PROPERTY RequestsFinish
PROPERTY LockReleased
PROPERTY TempReclaimed
