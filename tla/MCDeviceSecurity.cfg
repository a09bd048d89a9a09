SPECIFICATION Spec
CONSTANTS
    Devices = {d1}
    Sessions = {s1, s2}
    Keys = {k1, k2, k3}
    Handlers = {h1, h2}
    Passwords = {p1, p2}
    InitialPassword = p1
    MaxActiveKeys = 1
    Null = Null
SYMMETRY Symmetry
INVARIANTS
    KeysInv
    NoLiveSessionOnRevokedDevice
    KeysFollowAccount
