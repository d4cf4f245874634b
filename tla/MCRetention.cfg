CONSTANTS
    k1 = k1
    b1 = b1
    b2 = b2
    Backups = {b1, b2}
    KeyOf <- MCKeyOf
    MaxOps = 2
    Gens = {1, 2, 3, 4}
    Renames = {"atomic", "link"}
    Events = {"request", "recover", "cancel", "revoke", "power"}
    MaxFaults = 2
SPECIFICATION Spec
INVARIANTS
    StatusMatchesOperation
    FileNeverLost
PROPERTIES
    MovesPermitted
    PermissionIrrevocable
