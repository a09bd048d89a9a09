SPECIFICATION Spec
CONSTANTS
    Users = {u1, u2}
    Administrators = {u1}
    Enrolled = {}
    Passwords = {p1, p2}
    InitialPassword = p1
    Sessions = {s1}
    Challenges = {c1}
    Tokens = {t1}
    Null = Null
    FailureLimit = 2
    RecoveryCodeCount = 1
    MaxSalts = 0
    MaxCounter = 0
    MaxRotations = 0
    Handlers = {h1, h2}
    Operations = {"login", "enable_account", "disable_account", "unlock_account", "remove_role", "assign_role", "register", "logout_all", "change_password"}
CHECK_DEADLOCK FALSE
SYMMETRY Symmetry
INVARIANTS
    LockoutHolds
PROPERTIES
    LastAdminStays
