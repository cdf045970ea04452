SPECIFICATION FairSpec

CONSTANTS
    s1 = s1
    s2 = s2
    r1 = r1
    r2 = r2
    r3 = r3
    Servers = {s1}
    Requests = {r1}
    ServerOf <- OneServer
    None = None
    Chunker = Chunker
    NarLen = 1
    Mode = "plain"
    Distributed = FALSE
    Faults = {"upstream"}
    MaxFaults = 1

CHECK_DEADLOCK FALSE

PROPERTY FailedDownloadWakesReaders
