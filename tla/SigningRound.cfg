SPECIFICATION Spec
CONSTANTS
    d1 = d1
    d2 = d2
    d3 = d3
    p1 = p1
    p2 = p2
    s1 = s1
    s2 = s2
    v1 = v1
    h0 = h0
    h1 = h1
    Vaults = {v1}
    Sessions = {s1, s2}
    Handles = {h0, h1}
    OutputKeys = {}
    Plain = Plain
    Nonces <- MCNonces
    Siblings <- MCSiblings
    MaxSequence = 2
    Foreign = Foreign
    None = None
    Devices = {d1, d2, d3}
    Persons = {p1, p2}
    Owner <- MCOwner
    Support <- MCSupport
    Reserved <- MCReserved
    Material0 <- MCMaterial0
    BundleOf <- MCBundleOf
    Pairs <- MCPairs
    MaxAttempts <- MCMaxAttempts
    MaxTime = 1
INVARIANTS
    AnswersForWholeSupport
    CommittedBeforeDisclosure
    SignaturesShareNoNonce
PROPERTIES
    EventuallyFree
