CONSTANTS
    v1 = v1
    v2 = v2
    s1 = s1
    s2 = s2
    h0 = h0
    h1 = h1
    h2 = h2
    k1 = k1
    Vaults = {v1, v2}
    Sessions = {s1, s2}
    Handles = {h0, h1, h2}
    OutputKeys = {k1}
    Plain = Plain
    Nonces = {n1, n2, n3}
    Siblings = {x, y}
    MaxSequence = 2
    Foreign = Foreign
    None = None
    Genesis0 <- MCGenesis0
    Reservations <- MCReservations
    Times <- MCTimes
    Geneses <- MCGeneses
    Bundles <- MCBundles
    OuterBlocks <- MCOuterBlocks

SPECIFICATION Spec

INVARIANTS
    LiveEpochIsInstalled
    OneNoncePerAttempt

PROPERTIES
    FrozenViews
    ImplementsAuthority
