CONSTANTS
    a = a
    b = b
    c = c
    p = p
    q = q
    x = x
    y = y
    k = k
    l = l
    e = e
    f = f
    Devices = {a, b, c}
    Persons = {p, q}
    Blocks = {x, y}
    Vaults = {1}
    Epochs = {e, f}
    Commands = {k, l}
    Thresholds = {0, 1, 2}
    Groups <- MCGroups
    MaxGroups = 2
    MaxCalls = 4
SPECIFICATION Spec
SYMMETRY NameSymmetry
CHECK_DEADLOCK FALSE
INVARIANTS
    TypeOK
    AuditMatchesHistory
    BlocksOfOneEpoch
PROPERTY ViolationsRemain
