-------------------------------- MODULE MCCalls --------------------------------
(* Three users, one of them with two devices. *)
EXTENDS Calls, TLC
CONSTANTS s1, s2, s3, s4, alice, bob, carol
Owners == [s \in Session |-> CASE s = s3 -> bob [] s = s4 -> carol [] OTHER -> alice]

One == [direct \in BOOLEAN |-> 1]
OneInDirect == [direct \in BOOLEAN |-> IF direct THEN 1 ELSE 0]

(* The two devices of alice, where neither is revoked. *)
Devices == Permutations({s1, s2})
=============================================================================
