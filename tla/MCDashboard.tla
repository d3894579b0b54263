---------------------------- MODULE MCDashboard ----------------------------
(* Model checking Dashboard.  The liveness run may not use symmetry.       *)
EXTENDS Dashboard

=============================================================================
