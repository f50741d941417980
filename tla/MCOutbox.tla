-------------------------------- MODULE MCOutbox --------------------------------
(* Model-checking instance of Outbox.                                      *)
EXTENDS Outbox, TLC

(* Rooms are interchangeable; so are instances.  For safety runs only. *)
Symmetry == Permutations(Room) \cup Permutations(Inst)
================================================================================
