CONSTANTS
    d1 = d1
    d2 = d2
    l1 = l1
    Deposits = {d1, d2}
    Locals = {l1}
    Servers = 2
    MaxStarts = 2
    MaxMishaps = 2
SPECIFICATION MSpec
INVARIANTS
    CatalogueOutlivesHandlers
    ArchiveHeldStill
PROPERTIES
    ShutdownCompletes
    MigrationResumes
