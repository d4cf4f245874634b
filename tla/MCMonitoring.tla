---------------------------- MODULE MCMonitoring ----------------------------
(* Days of three instants, a tolerance of one: the windows of neighbouring    *)
(* appointments overlap, also across midnight.                                *)
EXTENDS Monitoring

MCSchedules == {{-4, -1, 2}, {-5, -4, -2, -1, 1, 2}}
MCImported == {{-4, -1, 2}}
\* No appointment falls in the instants of the run: coverage alone.
MCFar == {{-20}}
MCNoTime == -100
MCNone == {{}}
MCBefore == {{[id |-> 2, at |-> -2]}}
=============================================================================
