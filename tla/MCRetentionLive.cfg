CONSTANTS
    k1 = k1
    b1 = b1
    b2 = b2
    Backups = {b1, b2}
    KeyOf <- MCKeyOf
    MaxOps = 2
    Gens = {1, 2, 3, 4}
    Renames = {"atomic", "link"}
    Events = {"request", "recover", "revoke", "loss", "resume", "first"}
    MaxFaults = 1
SPECIFICATION FairSpec
INVARIANTS
    CatalogueMatchesFiles
PROPERTIES
    CommittedCompletes
    RevokedSettles
    RecoveryServed
