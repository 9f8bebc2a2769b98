SPECIFICATION FairSpec
CONSTANTS
    f1 = f1
    Ingesters = {w1}
    Files = {f1}
    Bytes = {scan, note}
    Complete = {scan, note}
    Tiffs = {scan}
    DocIds = {1, 2}
    MaxWrites <- Once
    Lapses = {}
    IngestFaults = {"crash", "storage", "queue"}
    MaxIngestFaults = 1
    Classifiers = {c1}
    MaxRetries = 1
    Schedulers = {TRUE, FALSE}
    ClassifyFaults = {"race", "worker", "timeout"}
    MaxClassifyFaults = 1
    Models = {m1, m2}
    First = m1
    None = None
CHECK_DEADLOCK FALSE
INVARIANTS
    TypeOK
    WorkIsThere
    PredictionsNameTheirModel
    PredictionsAreBacked
PROPERTIES
    FeedsClassification
    ImplementsScanLifecycle
    EveryScanClassified
