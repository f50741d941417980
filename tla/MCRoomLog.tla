------------------------------- MODULE MCRoomLog -------------------------------
(* Model-checking instance of RoomLog.                                     *)
EXTENDS RoomLog, TLC

(* Handlers, members, client ids and row ids are interchangeable. *)
Symmetry == Permutations(Proc) \cup Permutations(User) \cup Permutations(Cmid)
            \cup Permutations(MsgId)
================================================================================
