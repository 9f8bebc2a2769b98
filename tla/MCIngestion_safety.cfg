SPECIFICATION Spec
CONSTANTS
    Workers = {w1}
    f1 = f1
    f2 = f2
    Files = {f1, f2}
    Bytes = {part, scan, junk}
    Complete = {scan, junk}
    Tiffs = {part, scan}
    DocIds = {1, 2, 3, 4, 5}
    MaxWrites <- TwoAndOne
    Lapses = {"stall", "rewrite"}
    Faults = {"sftp", "storage", "queue", "db", "crash"}
    MaxFaults = 2
    None = None
INVARIANTS
    TypeOK
    JobsAreBacked
    NoDuplicateActive
    NoStrandedWithoutFault
    NoOrphanMessage
    OnlyCompleteScans
