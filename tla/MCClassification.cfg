SPECIFICATION FairSpec
CONSTANTS
    Docs = {d1}
    Workers = {w1, w2}
    MaxRetries = 3
    Schedulers = {TRUE, FALSE}
    Faults = {"race", "producer", "db", "pipeline", "storage", "timeout", "horse", "worker", "pause"}
    MaxFaults = 3
    None = None
CHECK_DEADLOCK FALSE
INVARIANTS
    TypeOK
    OnePrediction
    SucceededIsComplete
    PredictionMeansSucceeded
    FinishedMeansClassified
PROPERTIES
    ImplementsLifecycle
    EveryMessageSettles
    CrashesAreSurvived
    EveryDocumentClassified
