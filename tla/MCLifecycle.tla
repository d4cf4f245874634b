----------------------------- MODULE MCLifecycle -----------------------------
(* The writer's life between two migrations. *)
EXTENDS Migration
CONSTANTS d1, d2, l1
=============================================================================
