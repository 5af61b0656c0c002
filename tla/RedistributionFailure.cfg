CONSTANTS
    identity = identity
    member = member
    rival = rival
    s1 = s1
    s2 = s2
    Scopes = {s1, s2}
    Commands = {identity, member}
    Contributors = {r}
    Targets = {t}
    Roles = {r, t}
    Values = {v}
    Sound = {v}
    Payloads <- MCPayloads
    Parameters = {identity, member}
    HandleSpace = 2
    Imported = {g}
    Aborted = Aborted
    None = None
    Drivers = {d1, d2}
    Plans <- Bundle
    CommandOf <- MCCommandOf
    Genesis = g
    MaxStops = 0
SPECIFICATION FairSpec
PROPERTIES
    FailureSpreads
