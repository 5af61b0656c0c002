CONSTANTS
    identity = identity
    member = member
    rival = rival
    s1 = s1
    s2 = s2
    Scopes = {s2}
    Commands = {member, rival}
    Contributors = {r}
    Targets = {t}
    Roles = {r, t}
    Values = {v}
    Sound = {v}
    Payloads <- MCPayloads
    Parameters = {member, rival}
    HandleSpace = 2
    Imported = {g}
    Aborted = Aborted
    None = None
    Drivers = {d1, d2}
    Plans <- Rivals
    CommandOf <- MCCommandOf
    Genesis = g
    MaxStops = 0
SYMMETRY SymmetricParties
SPECIFICATION Spec
INVARIANTS
    StaleOpeningRefused
