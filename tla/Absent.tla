------------------------------- MODULE Absent -------------------------------
(* The value of what is not there: a nil pointer, a missing map entry, an   *)
(* empty string that the code tests for.                                    *)
CONSTANT None
=============================================================================
