------------------------------ MODULE MCIngest ------------------------------
(* Small instance of Ingest: one credential, one idempotency key (and the   *)
(* absent one), two contents of different size, two identifiers, and a wide *)
(* and a narrow profile to assign, or one profile that is widened and       *)
(* narrowed.                                                                *)
EXTENDS IngestProofs, TLC

CONSTANTS k1, i1, c1, c2, p1, p2

MCSize == [c \in Contents |-> IF c = c1 THEN 1 ELSE 2]
Wide   == [total |-> 2, maxBackup |-> 2, perDay |-> 1, concurrent |-> 2]
Narrow == [total |-> 2, maxBackup |-> 1, perDay |-> 1, concurrent |-> 1]
ByAssignment == [p \in Profiles |-> IF p = p1 THEN {Wide} ELSE {Narrow}]
ByChange     == [p \in Profiles |-> {Wide, Narrow}]
MCOffered == {r \in Request : r.idem = NoIdem => r.content = c1}
Symmetry == Permutations(Ids) \cup Permutations(Handlers)
=============================================================================
