CONSTANTS
    k1 = k1
    k2 = k2
    b1 = b1
    b2 = b2
    b3 = b3
    b4 = b4
    Backups = {b1, b2, b3, b4}
    KeyOf <- MCKeyOf
    Size <- MCSize
    Ages = {1, 2, 3}
    Minima = {1, 2}
    Totals = {10, 13}
    Useds = {7, 8, 9, 12}
    Expecteds = {0, 2, 4}
    Basis = 10
    Threshold = 8
    MinimumRelease = 1
    MaxUint = 15
SPECIFICATION Spec
INVARIANTS
    LastCopySpared
    OldestDaysFirst
    ReturnsBelowThreshold
