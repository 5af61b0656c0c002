CONSTANTS
    v1 = v1
    v2 = v2
    s1 = s1
    s2 = s2
    h0 = h0
    h1 = h1
    h2 = h2
    Vaults = {v1, v2}
    Sessions = {s1, s2}
    Handles = {h0, h1, h2}
    OutputKeys = {}
    Plain = Plain
    Nonces = {n1}
    Siblings = {x}
    MaxSequence = 2
    Foreign = Foreign
    None = None
    Instances = {a, b}
    Exclusive = TRUE
    MaxRevision = 6
    Genesis0 <- MCGenesis0
    Reservations <- MCReservations
    Times <- MCTimes
    Geneses <- MCGeneses
    Bundles <- MCBundles
    OuterBlocks <- MCOuterBlocks

SPECIFICATION Spec

SYMMETRY InstanceSymmetry

INVARIANTS
    OneResponsePerAttempt
    AnsweredIsClosed
    CurrentInstanceAgrees
    JournalMaterialHeld

PROPERTY
    AnswerUnderActiveMaterial
