----------------------------- MODULE MCBenchLock -----------------------------
EXTENDS BenchLock

(* The third process is given the number of the first one.                 *)
mcNumbers == [p \in Proc |-> IF p = 2 THEN 102 ELSE 101]
=============================================================================
