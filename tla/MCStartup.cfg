SPECIFICATION FairSpec
CONSTANTS
    Services = {"postgres", "redis", "minio", "vault", "sftp"}
    Secrets = {"jwt", "postgres"}
    Unread = {"postgres"}
    Policies = 2
    ByHand = {"vault", "metadata", "policies", "restart"}
    Faults = {"outage", "crash", "command"}
    MaxFaults = 1
CHECK_DEADLOCK FALSE
INVARIANTS
    TypeOK
    ServingIsAuthorised
    WorkIsBacked
PROPERTIES
    WorkersComeUp
    ApiComesUp
