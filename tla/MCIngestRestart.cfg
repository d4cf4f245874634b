CONSTANTS
    k1 = k1
    i1 = i1
    c1 = c1
    c2 = c2
    p1 = p1
    p2 = p2
    NoIdem = NoIdem
    None = None
    Ids = {b1}
    Handlers = {h1, h2, h3}
    Keys = {k1}
    Idems = {i1}
    Contents = {c1}
    Size <- MCSize
    Slots = 2
    Profiles = {p1}
    Limits <- ByChange
    Offered <- Request
    Revocable = {k1}
    MaxManaged = 1
    MaxCrashes = 2
SPECIFICATION FairSpec
INVARIANTS
    RestartNeverRefused
PROPERTIES
    ImplementsDeposit
    HandlersFinish
    RestartSettles
