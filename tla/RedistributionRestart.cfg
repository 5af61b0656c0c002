CONSTANTS
    identity = identity
    member = member
    rival = rival
    s1 = s1
    s2 = s2
    Scopes = {s1, s2}
    Commands = {identity, member}
    Contributors = {r1, r2}
    Targets = {t}
    Roles = {r1, r2, t}
    Values = {v, w}
    Sound = {v}
    Payloads <- MCPayloads
    Parameters = {identity, member}
    HandleSpace = 2
    Imported = {g}
    Aborted = Aborted
    None = None
    Drivers = {d}
    Plans <- Bundle
    CommandOf <- MCCommandOf
    Genesis = g
    MaxStops = 2
SYMMETRY SymmetricParties
SPECIFICATION Spec
INVARIANTS
    OpeningsAfterAllCommits
    ActivatedIsShared
