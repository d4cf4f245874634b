CONSTANTS
    k1 = k1
    b1 = b1
    b2 = b2
    Backups = {b1, b2}
    KeyOf <- MCKeyOf
    MaxOps = 1
    Gens = {1, 2, 3}
    Renames = {"atomic"}
    Events = {"request", "pause", "alarm", "resume", "setup", "loss", "exclude", "relearn"}
    MaxFaults = 1
SPECIFICATION Spec
SYMMETRY Symmetry
INVARIANTS
    IncidentsHold
PROPERTIES
    UnblockedSafely
    PauseKept
    LastCopyKept
