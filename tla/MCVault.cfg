SPECIFICATION Spec
CONSTANTS
    Clients = {c1, c2}
    Keys = {k1, k2}
    Values = {v1, v2}
    Passwords = {w1, w2}
    MaxOps = 3
SYMMETRY VaultSymmetry
INVARIANTS
    OneKey
    OneSalt
    NothingIsLost
PROPERTY
    ImplementsAtomicFile
CHECK_DEADLOCK FALSE
