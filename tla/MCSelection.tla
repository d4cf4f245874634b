----------------------------- MODULE MCSelection -----------------------------
EXTENDS Selection, TLC
CONSTANTS k1, k2, b1, b2, b3, b4
MCKeyOf == (b1 :> k1) @@ (b2 :> k1) @@ (b3 :> k2) @@ (b4 :> k1)
MCSize  == (b1 :> 1) @@ (b2 :> 2) @@ (b3 :> 1) @@ (b4 :> 3)
=============================================================================
