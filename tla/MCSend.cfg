CONSTANTS
    Clients = {"c1"}
    Ids = {1, 2}
    Contents = {"v1", "v2"}
    Torn = "torn"
    Key = "key"
    NoIdem = NoIdem
    None = None
    Slots = 1
    Attempts = 3
    MaxFaults = 2
SPECIFICATION FairSpec
INVARIANTS
    ReportedIsSaved
    SentOnce
PROPERTIES
    LostExchangesEnd
CHECK_DEADLOCK FALSE
