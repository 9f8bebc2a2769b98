SPECIFICATION FairSpec
CONSTANTS
    Docs = {d1}
    Workers = {w1}
    MaxRetries = 3
    Schedulers = {FALSE}
    Faults = {"pipeline"}
    MaxFaults = 1
    None = None
CHECK_DEADLOCK FALSE
PROPERTY RetriesHappen
