------------------------------- MODULE MCSend -------------------------------
(* Instance of Send for TLC. *)
EXTENDS Send
=============================================================================
