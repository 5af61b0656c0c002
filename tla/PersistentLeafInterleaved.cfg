CONSTANTS
    v1 = v1
    v2 = v2
    s1 = s1
    s2 = s2
    h0 = h0
    h1 = h1
    h2 = h2
    Vaults = {v1}
    Sessions = {s1}
    Handles = {h0, h1, h2}
    OutputKeys = {}
    Plain = Plain
    Nonces = {n1}
    Siblings = {x}
    MaxSequence = 1
    Foreign = Foreign
    None = None
    Instances = {a, b}
    Exclusive = FALSE
    MaxRevision = 3
    Genesis0 <- MCGenesis0
    Reservations <- OneReservation
    Times = {0}
    Geneses = {}
    Bundles <- MCBundles
    OuterBlocks = {}

SPECIFICATION FairSpec

INVARIANT
    IInv

PROPERTIES
    JournalOnlyAdvances
    ImplementsAuthority
    ReconcileTerminates
