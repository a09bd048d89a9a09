SPECIFICATION Spec
CONSTRAINTS
    UntilLockIsLost
    VerifiesEarly
CONSTANTS
    Service = service
    CommandLine = cli
    ServiceKinds = {"create"}
    Retention = 2
    Latest = 2
    Irreversible = {1}
    MaxBackups = 3
    MaxWrites = 1
    MaxIncidents = 1
    Null = Null
INVARIANTS
    RecoveryInv
    ReplacedIsKept
    ServesWhole
PROPERTIES
    RestoreIsAllOrNothing
    NewBackupSurvives
