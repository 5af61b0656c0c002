CONSTANTS
    identity = identity
    member = member
    rival = rival
    s1 = s1
    s2 = s2
    Scopes = {s1, s2}
    Commands = {identity, member, rival}
    Contributors = {r}
    Targets = {t}
    Roles = {r, t}
    Values = {v, w}
    Sound = {v, w}
    Payloads <- MCPayloads
    Parameters = {identity, member, rival}
    HandleSpace = 2
    Imported = {g}
    Aborted = Aborted
    None = None
    Drivers = {d1, d2}
    Plans <- BundleAndRival
    CommandOf <- MCCommandOf
    Genesis = g
    MaxStops = 0
SYMMETRY SymmetricParties
SPECIFICATION Spec
INVARIANTS
    BundleDecidedTogether
    DecisionsAgree
    LoserInstallsNothing
    OneViewPerCommand
