SPECIFICATION ReviewSpec
CONSTANTS
    a = a
    b = b
    p = p
    None = None
    Users <- MCUsers
    Admin = a
    Demo <- MCDemo
    Operations = {"replace", "assign", "revoke", "invite"}
    RoleLists <- MCRoleLists
    MaxRequests = 1
    Faults = {"db", "crash", "seed", "overlap", "repeat", "self"}
    MaxFaults = 1
    Predictions <- MCPredictions
    Classes <- MCClasses
    Submitted <- MCSubmitted
INVARIANTS
    ReviewTypeOK
    StoresAgree
    NoDuplicateRoles
PROPERTIES
    ManagersRemain
    RevokedManagersAreStopped
    ReplacementRepairs
    DemoSeedRestores
    LabelsAreAudited
    LabelsAreAuthorised
    ImplementsAccess
