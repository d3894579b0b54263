--------------------------- MODULE MCApplications ---------------------------
(* Model checking Applications.                                            *)
EXTENDS Applications

=============================================================================
