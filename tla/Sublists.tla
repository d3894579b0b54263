------------------------------ MODULE Sublists ------------------------------
(***************************************************************************)
(* Parts of a sequence, in its order: what a loop over a list appends to   *)
(* another list.  Those(s, S) is SelectSeq for a test that is membership   *)
(* in a set, as a function, which proofs can reason about.                 *)
(***************************************************************************)
EXTENDS Naturals, Sequences, FiniteSets

(* How many of the positions in I are not after i.                         *)
Rank(I, i) == Cardinality({j \in I : j <= i})

(* The k-th of the positions in I.                                         *)
Nth(I, k) == CHOOSE i \in I : Rank(I, i) = k

(* What s holds at the positions in I.                                     *)
Picked(s, I) == [k \in 1 .. Cardinality(I) |-> s[Nth(I, k)]]

(* The elements of s that are in S.                                        *)
Those(s, S) == Picked(s, {i \in DOMAIN s : s[i] \in S})
=============================================================================
