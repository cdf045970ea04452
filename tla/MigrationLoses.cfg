SPECIFICATION Spec

CONSTANTS
    Null = Null
    None = None
    c1 = c1
    c2 = c2
    c3 = c3
    s1 = s1
    s2 = s2
    OldKey = OldKey
    FileKey = FileKey
    Callers = {c1, c2, c3}
    Objects = {o1, o2}
    Servers = {s1, s2}
    ServerOf <- OneAlone
    Processes = {c1, c2}
    Upstreams = {u1, u2, u3}
    Requests = {r1}
    Clients = {c1}
    CommandLines <- FourCommandLines
    MaxAttempts = 2
    Threshold = 2
    QueueSize = 1
    LockFaults = {"down", "lost", "expire", "crash"}
    MigrationFaults = {"crash", "expire", "stale"}
    MaxFaults = 1
    MaxErrors = 2
    MaxChanges = 1
    MaxStarts = 3

CHECK_DEADLOCK FALSE

INVARIANT DeletedOnceMigrated
