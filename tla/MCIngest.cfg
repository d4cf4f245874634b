CONSTANTS
    k1 = k1
    i1 = i1
    c1 = c1
    c2 = c2
    p1 = p1
    p2 = p2
    NoIdem = NoIdem
    None = None
    Ids = {b1, b2}
    Handlers = {h1, h2}
    Keys = {k1}
    Idems = {i1, NoIdem}
    Contents = {c1, c2}
    Size <- MCSize
    Slots = 2
    Profiles = {p1, p2}
    Limits <- ByAssignment
    Offered <- MCOffered
    Revocable = {}
    MaxManaged = 1
    MaxCrashes = 1
SYMMETRY Symmetry
SPECIFICATION Spec
INVARIANTS
    StoredDurable
    ReceiptsHonoured
    IdempotentReceipts
    StagingExclusive
PROPERTIES
    LimitsRespected
