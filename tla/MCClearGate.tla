----------------------------- MODULE MCClearGate -----------------------------
(* Model checking ClearGate.                                               *)
EXTENDS ClearGate

=============================================================================
