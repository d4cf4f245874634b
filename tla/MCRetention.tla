----------------------------- MODULE MCRetention -----------------------------
(* Small instances of Retention: two backups of one credential.            *)
EXTENDS Retention, TLC

CONSTANTS k1, b1, b2

MCKeyOf  == [b \in Backups |-> k1]

\* Backups differ by their state alone: the one that Init writes into a row of
\* ops that does not exist yet is replaced before it is read.
Symmetry == Permutations(Backups)
=============================================================================
