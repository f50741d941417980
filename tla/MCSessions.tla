------------------------------- MODULE MCSessions -------------------------------
(* Model values for Sessions. *)
EXTENDS Sessions, TLC
CONSTANTS t1, t2, q1, q2, q3
Sym == Permutations(Request) \cup Permutations(Tab)
===============================================================================
