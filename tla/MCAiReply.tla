-------------------------------- MODULE MCAiReply --------------------------------
(* Model-checking instance of AiReply.                                     *)
EXTENDS AiReply, TLC

CONSTANTS q1, q2

Growing  == [rows |-> 3, flushes |-> 0, ahead |-> 0, answers |-> 0, watched |-> {}, deaths |-> 2]
Followed == [rows |-> 2, flushes |-> 4, ahead |-> 3, answers |-> 2, watched |-> {2}, deaths |-> 0]
TwoBounds == {Growing, Followed}

(* Overlapping requests are interchangeable. *)
Symmetry == Permutations({q1, q2})
================================================================================
