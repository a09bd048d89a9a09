SPECIFICATION Spec
CONSTANTS
    Users = {u1}
    Administrators = {u1}
    Enrolled = {}
    Passwords = {p1, p2}
    InitialPassword = p1
    Sessions = {s1}
    Challenges = {c1}
    Tokens = {t1,t2}
    Null = Null
    FailureLimit = 2
    RecoveryCodeCount = 1
    MaxSalts = 0
    MaxCounter = 0
    MaxRotations = 2
    Handlers = {h1, h2}
    Operations = {"login", "refresh", "logout", "logout_all", "revoke_session", "forgot", "reset", "request_verification", "confirm_email"}
SYMMETRY Symmetry
CHECK_DEADLOCK FALSE
INVARIANTS
    SessionsInv
    TokensWorkOnce
