SPECIFICATION FairSpec
CONSTANTS
    Services = {"postgres", "redis", "minio", "vault", "sftp"}
    Secrets = {"jwt", "postgres"}
    Unread = {"postgres"}
    Policies = 2
    ByHand = {}
    Faults = {}
    MaxFaults = 0
CHECK_DEADLOCK FALSE
PROPERTIES
    SetupServes
