-------------------------- MODULE MCCompactHistory --------------------------
(* Model checking CompactHistory.                                          *)
EXTENDS CompactHistory

=============================================================================
