SPECIFICATION Spec
CONSTANTS
    Workers = {w1}
    f1 = f1
    f2 = f2
    Files = {f1, f2}
    Bytes = {part, scan, junk}
    Complete = {scan, junk}
    Tiffs = {part, scan}
    DocIds = {1, 2, 3, 4, 5}
    MaxWrites <- TwoAndOne
    Lapses = {"stall", "rewrite"}
    Faults = {"storage"}
    MaxFaults = 1
    None = None
INVARIANT NoStrandedDocument
