----------------------------- MODULE MCGateway -----------------------------
(* Model checking Gateway: request goroutines are interchangeable.         *)
EXTENDS Gateway, TLC

Symmetry == Permutations(Req)

=============================================================================
