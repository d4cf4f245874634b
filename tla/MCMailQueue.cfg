CONSTANTS
    Limit = 2
    BackoffCap = 0
    Day = 1
    Period = 1
    MaxTests = 1
    MaxSetups = 2
    MaxReports = 1
    MaxRefusals = 1
    MaxFaults = 1
SPECIFICATION FairSpec
INVARIANTS
    TestedProven
    ReportNotSwallowed
PROPERTIES
    MailRecovers
