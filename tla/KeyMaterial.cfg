SPECIFICATION Spec
CHECK_DEADLOCK FALSE
CONSTANTS
    Q = 7
    None = None
    d1 = d1
    d2 = d2
    d3 = d3
    d4 = d4
    p1 = p1
    p2 = p2
    Devices = {d1, d2, d3, d4}
    Persons = {p1, p2}
    Owner <- MCOwner
    Node <- MCNode
    OuterNode <- MCOuterNode
    OuterThreshold = 2
    InnerThresholds = {1, 2}
    GenesisData <- MCGenesisData
    Coefficients <- MCCoefficients
    SigningInputs <- MCSigningInputs
    MaxBlocks = 2
INVARIANTS
    SharesOnMaps
    MapsLeadToKeys
    EpochNamesMaterial
    LevelSourcesKeepKeys
    LevelDevicesAccept
    AcceptedSupportSigns
