SPECIFICATION Spec
CONSTANTS
    Users = {u1}
    Administrators = {u1}
    Enrolled = {u1}
    Passwords = {p1, p2}
    InitialPassword = p1
    Sessions = {s1, s2}
    Challenges = {c1, c2}
    Tokens = {t1}
    Null = Null
    FailureLimit = 2
    RecoveryCodeCount = 1
    MaxSalts = 3
    MaxCounter = 2
    MaxRotations = 0
    Handlers = {h1, h2}
    Operations = {"login", "verify_login", "setup_2fa", "enable_2fa", "disable_2fa", "regenerate"}
SYMMETRY Symmetry
INVARIANTS
    SessionsInv
    OneSessionPerChallenge
PROPERTIES
    FactorIsChecked
