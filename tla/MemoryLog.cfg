CONSTANTS
    Scopes = {s1, s2}
    Commands = {c1, c2, c3}
    Roles = {r}
    Payloads = {a, b}
    Parameters = {p}
    HandleSpace = 3
    Imported = {}
    Aborted = Aborted
    None = None
    Founders = {1}
    Bundles <- MCBundles
    MaxPosts = 1

SYMMETRY Symmetric

SPECIFICATION Spec

INVARIANTS
    OneSuccessor
    HandleNamesOneBundle
    LInv

PROPERTIES
    PrefixRetained
    LosersFrozen
    ImplementsHistory
