----------------------------- MODULE RoomLogProofs -----------------------------
(***************************************************************************)
(* Proofs about RoomLog, for any number of handlers, members, client ids   *)
(* and messages.                                                           *)
(***************************************************************************)
EXTENDS RoomLog, TLAPS

(* What a handler's local copy says about the database. *)
LocalOK(p) ==
    LET r == req[p] IN
    /\ r.pc \in {"send", "system"} <=> roomLock = p
    /\ r.pc \in {"send", "system"} => r.seq = last_seq + 1
    /\ r.pc = "send" => Existing(r.user, r.cmid) = {}
    /\ r.pc = "fanout" => r.id \in Rows /\ created[r.id] = 0
    /\ r.pc \in {"edit", "delete", "delete_room", "delete_row", "delete_pick"} => r.id \in Rows
    /\ r.pc \in {"mark", "mark_update", "mark_done"} => r.seq <= last_seq
    /\ r.pc = "mark_done" => r.seq <= last_read[r.user]

(* Only one handler is about to announce a row. *)
FanOutUnique ==
    \A p, q \in Proc : At(p, "fanout") /\ At(q, "fanout") /\ req[p].id = req[q].id => p = q

(* last_user_seq is the seq of the newest user message, 0 if there is none. *)
UserSeqIsNewest ==
    /\ last_user_seq <= last_seq
    /\ \A i \in Rows : msg[i].type = "user" => msg[i].seq <= last_user_seq
    /\ last_user_seq > 0 => \E i \in Rows : msg[i].type = "user" /\ msg[i].seq = last_user_seq

ReadsInLog == \A u \in User : last_read[u] <= last_seq

(* The inductive invariant: what holds of the tables, and what each        *)
(* handler's copy still says about them.  The room lock is what makes the  *)
(* copy of last_seq + 1 and of the idempotency lookup stay true until the  *)
(* insert.                                                                 *)
IInv ==
    /\ TypeOK
    /\ LogDense
    /\ ExactlyOnce
    /\ AnnouncedOnce
    /\ UserSeqIsNewest
    /\ ReadsInLog
    /\ FanOutUnique
    /\ \A p \in Proc : LocalOK(p)

-------------------------------------------------------------------------------

(* The initial state satisfies the inductive invariant: no rows, nobody    *)
(* busy.                                                                   *)
LEMMA InitIInv == Init => IInv
<1> SUFFICES ASSUME Init PROVE IInv
  OBVIOUS
<1> USE DEF Init, Idle, Absent, Rows
<1>1. TypeOK
  BY NullAssumption DEF TypeOK, Request
<1>2. \A p \in Proc : LocalOK(p)
  BY NullAssumption DEF LocalOK
<1>3. LogDense /\ ExactlyOnce /\ AnnouncedOnce /\ UserSeqIsNewest /\ ReadsInLog /\ FanOutUnique
  BY DEF LogDense, ExactlyOnce, AnnouncedOnce, UserSeqIsNewest, ReadsInLog, FanOutUnique, At
<1> QED
  BY <1>1, <1>2, <1>3 DEF IInv

(* A step keeps every variable in its type; an update of a row finds the   *)
(* row there.                                                              *)
LEMMA TypeStep == ASSUME IInv, [Next]_vars PROVE TypeOK'
<1> USE DEF TypeOK, At, Goto, Done
<1>0. /\ TypeOK
      /\ \A p \in Proc : At(p, "edit") \/ At(p, "delete_row") \/ At(p, "delete_pick")
             => msg[req[p].id] \in Row
      /\ \A p \in Proc : At(p, "send") \/ At(p, "system") => req[p].seq = last_seq + 1
  BY DEF IInv, LocalOK, Rows, Request, Idle
<1>1. ASSUME NEW p \in Proc, NEW u \in User, NEW c \in Cmid, NEW b \in Body \cup {NoBody},
             SendLock(p, u, c, b)
      PROVE  TypeOK'
  BY <1>0, <1>1 DEF SendLock, LockRoom, Request, roomRow
<1>2. ASSUME NEW p \in Proc, NEW id \in MsgId, SendCommit(p, id)
      PROVE  TypeOK'
  <2>1. /\ req[p].user \in User /\ req[p].cmid \in Cmid
        /\ req[p].body \in Body \cup {NoBody} /\ req[p].seq \in Nat \ {0}
    BY <1>0, <1>2 DEF SendCommit, Request, Idle
  <2> DEFINE row == [seq |-> req[p].seq, sender |-> req[p].user, cmid |-> req[p].cmid,
                     type |-> "user", body |-> req[p].body, edit_count |-> 0, deleted |-> FALSE]
  <2>2. row \in Row /\ row.seq = req[p].seq /\ row.sender = req[p].user
    BY <2>1 DEF Row
  <2>3. Insert(p, id, row, req[p].seq)
    BY <1>2 DEF SendCommit
  <2>4. [pc |-> "fanout", id |-> id] \in Request
    BY DEF Request
  <2> HIDE DEF row
  <2> QED
    BY <1>0, <2>1, <2>2, <2>3, <2>4 DEF Insert, Written
<1>3. ASSUME NEW p \in Proc, NEW id \in MsgId, SystemCommit(p, id)
      PROVE  TypeOK'
  <2>1. req[p].user \in User /\ req[p].seq \in Nat \ {0}
    BY <1>0, <1>3 DEF SystemCommit, Request, Idle
  <2> DEFINE row == [seq |-> req[p].seq, sender |-> req[p].user, cmid |-> NoCmid,
                     type |-> "system", body |-> NoBody, edit_count |-> 0, deleted |-> FALSE]
  <2>2. row \in Row /\ row.seq = req[p].seq /\ row.sender = req[p].user
    BY <2>1 DEF Row
  <2>3. Insert(p, id, row, last_user_seq)
    BY <1>3 DEF SystemCommit
  <2>4. [pc |-> "fanout", id |-> id] \in Request
    BY DEF Request
  <2> HIDE DEF row
  <2> QED
    BY <1>0, <2>1, <2>2, <2>3, <2>4 DEF Insert, Written
<1>4. ASSUME NEW p \in Proc, NEW u \in User, SystemLock(p, u)
      PROVE  TypeOK'
  BY <1>0, <1>4 DEF SystemLock, LockRoom, Request, roomRow
<1>5. ASSUME NEW p \in Proc, FanOut(p)
      PROVE  TypeOK'
  BY <1>0, <1>5 DEF FanOut, Request, Idle, roomRow, locks
<1>6. ASSUME NEW p \in Proc, NEW id \in MsgId, NEW b \in Body \cup {NoBody}, EditLoad(p, id, b)
      PROVE  TypeOK'
  BY <1>0, <1>6 DEF EditLoad, Request, Rows, Row, roomRow, locks
<1>7. ASSUME NEW p \in Proc, EditSave(p)
      PROVE  TypeOK'
  BY <1>0, <1>7, SMTT(20) DEF EditSave, Request, Row, Idle, roomRow, locks
<1>8. ASSUME NEW p \in Proc, NEW id \in MsgId, DeleteLoad(p, id)
      PROVE  TypeOK'
  BY <1>0, <1>8 DEF DeleteLoad, Request, Rows, Row, roomRow, locks
<1>9. ASSUME NEW p \in Proc, DeleteLoadRoom(p)
      PROVE  TypeOK'
  BY <1>0, <1>9 DEF DeleteLoadRoom, Request, Idle, roomRow, locks
<1>10. ASSUME NEW p \in Proc, DeleteRow(p)
       PROVE  TypeOK'
  BY <1>0, <1>10 DEF DeleteRow, Request, Idle, roomRow
<1>11. ASSUME NEW p \in Proc, NEW i \in MsgId \cup {NoMsg}, DeletePick(p, i)
       PROVE  TypeOK'
  BY <1>0, <1>11 DEF DeletePick, Request, Idle, roomRow, locks
<1>12. ASSUME NEW p \in Proc, DeleteCommit(p)
       PROVE  TypeOK'
  <2>1. /\ req[p].id \in MsgId /\ msg[req[p].id] \in Row
        /\ At(p, "delete_pick") => req[p].pick \in MsgId \cup {NoMsg}
    BY <1>0, <1>12 DEF DeleteCommit, Request, Idle
  <2>2. Tombstone(msg[req[p].id], req[p].old) \in Row
    BY <2>1 DEF Tombstone, Row
  <2>3. msg' = [msg EXCEPT ![req[p].id] = Tombstone(msg[req[p].id], req[p].old)]
    BY <1>12 DEF DeleteCommit
  <2>4. msg' \in [MsgId -> Row \cup {Absent}]
    BY <1>0, <2>1, <2>2, <2>3
  <2> QED
    BY <1>0, <1>12, <2>1, <2>4 DEF DeleteCommit, Request
<1>13. ASSUME NEW p \in Proc, NEW u \in User, NEW n \in 0..(last_seq + 1), MarkLoad(p, u, n)
       PROVE  TypeOK'
  BY <1>0, <1>13 DEF MarkLoad, Clamp, Request, roomRow, locks
<1>14. ASSUME NEW p \in Proc, MarkDecide(p)
       PROVE  TypeOK'
  BY <1>0, <1>14 DEF MarkDecide, Request, Idle, roomRow, locks
<1>15. ASSUME NEW p \in Proc, MarkUpdate(p)
       PROVE  TypeOK'
  BY <1>0, <1>15 DEF MarkUpdate, Advance, Request, Idle, roomRow, locks
<1>16. ASSUME NEW p \in Proc, MarkBroadcast(p)
       PROVE  TypeOK'
  BY <1>0, <1>16 DEF MarkBroadcast, Request, Idle, roomRow, locks
<1>17. ASSUME NEW p \in Proc, Abort(p)
       PROVE  TypeOK'
  BY <1>0, <1>17 DEF Abort, Request, Idle, roomRow
<1>18. CASE UNCHANGED vars
  BY <1>0, <1>18 DEF vars, roomRow, locks
<1> QED
  BY <1>1, <1>2, <1>3, <1>4, <1>5, <1>6, <1>7, <1>8, <1>9, <1>10, <1>11, <1>12, <1>13, <1>14,
     <1>15, <1>16, <1>17, <1>18 DEF Next, Step

(* What IInv needs to know of the log: which rows there are and the        *)
(* columns that never change.                                              *)
KeysKept ==
    /\ Rows' = Rows
    /\ \A i \in Rows : /\ msg'[i].seq = msg[i].seq /\ msg'[i].sender = msg[i].sender
                       /\ msg'[i].cmid = msg[i].cmid /\ msg'[i].type = msg[i].type
    /\ UNCHANGED <<last_seq, last_user_seq>>

(* Only p takes a step, and no other handler's hold of the room changes.   *)
OnlyMoves(p) ==
    \A q \in Proc \ {p} : req'[q] = req[q] /\ (roomLock' = q <=> roomLock = q)

(* A step that leaves the tables alone, or changes only the contents of    *)
(* rows, keeps the invariant if the mover's own copy is right.             *)
LEMMA LocalStep ==
    ASSUME IInv, TypeOK', NEW p \in Proc, KeysKept, UNCHANGED <<last_read, created>>,
           OnlyMoves(p), LocalOK(p)', req'[p].pc # "fanout"
    PROVE  IInv'
<1>1. LogDense' /\ ExactlyOnce' /\ UserSeqIsNewest'
  BY DEF IInv, KeysKept, LogDense, ExactlyOnce, UserSeqIsNewest
<1>2. AnnouncedOnce' /\ ReadsInLog'
  BY DEF IInv, KeysKept, AnnouncedOnce, ReadsInLog
<1>3. FanOutUnique'
  BY DEF IInv, OnlyMoves, FanOutUnique, At
<1>4. ASSUME NEW q \in Proc PROVE LocalOK(q)'
  <2>1. CASE q = p
    BY <2>1
  <2>2. CASE q # p
    <3>1. LocalOK(q) /\ req'[q] = req[q] /\ (roomLock' = q <=> roomLock = q)
      BY <2>2 DEF IInv, OnlyMoves
    <3>2. \A u, c : Existing(u, c)' = Existing(u, c)
      BY DEF KeysKept, Existing
    <3> QED
      BY <3>1, <3>2 DEF LocalOK, KeysKept
  <2> QED
    BY <2>1, <2>2
<1> QED
  BY <1>1, <1>2, <1>3, <1>4 DEF IInv

(* The insert of a row under the room lock: it takes the next seq, its     *)
(* client id is free, and the other handlers hold no copy it outdates.     *)
LEMMA InsertStep ==
    ASSUME IInv, TypeOK', NEW p \in Proc, NEW id \in MsgId, NEW row \in Row, NEW userSeq \in Nat,
           roomLock = p, row.seq = last_seq + 1,
           row.cmid # NoCmid => Existing(row.sender, row.cmid) = {},
           \/ row.type = "user" /\ userSeq = row.seq
           \/ row.type = "system" /\ userSeq = last_user_seq,
           Insert(p, id, row, userSeq)
    PROVE  IInv'
<1> USE DEF TypeOK
<1>1. /\ TypeOK /\ id \notin Rows /\ Rows' = Rows \cup {id}
      /\ msg'[id] = row /\ \A i \in Rows : msg'[i] = msg[i]
      /\ last_seq' = last_seq + 1 /\ last_user_seq' = userSeq
  BY DEF IInv, Insert, Written, Fresh, Rows, Row, Absent
<1>2. \A i \in Rows : msg[i] \in Row /\ msg[i].seq <= last_seq /\ msg[i].seq \in Nat
  BY <1>1 DEF IInv, LogDense, Rows, Row
<1>3. LogDense'
  <2>1. \A i \in Rows' : (msg[i].seq <= last_seq)'
    BY <1>1, <1>2
  <2>2. \A i, j \in Rows' : (msg[i].seq = msg[j].seq)' => i = j
    BY <1>1, <1>2 DEF IInv, LogDense
  <2>3. ASSUME NEW s \in 1..last_seq' PROVE \E i \in Rows' : msg'[i].seq = s
    <3>1. CASE s = last_seq + 1
      BY <1>1, <3>1
    <3>2. CASE s # last_seq + 1
      <4>1. s \in 1..last_seq
        BY <1>1, <3>2
      <4>2. PICK i \in Rows : msg[i].seq = s
        BY <4>1 DEF IInv, LogDense
      <4> QED
        BY <1>1, <4>2
    <3> QED
      BY <3>1, <3>2
  <2> QED
    BY <2>1, <2>2, <2>3 DEF LogDense
<1>4. ExactlyOnce'
  <2>1. \A i \in Rows : msg[i].sender = row.sender /\ msg[i].cmid = row.cmid
                        => row.cmid = NoCmid
    BY DEF Existing
  <2> QED
    BY <1>1, <2>1 DEF IInv, ExactlyOnce
<1>5. UserSeqIsNewest'
  <2>1. last_user_seq' <= last_seq'
    BY <1>1 DEF IInv, UserSeqIsNewest
  <2>2. \A i \in Rows' : (msg[i].type = "user" => msg[i].seq <= last_user_seq)'
    BY <1>1, <1>2 DEF IInv, UserSeqIsNewest
  <2>3. (last_user_seq > 0 => \E i \in Rows : msg[i].type = "user" /\ msg[i].seq = last_user_seq)'
    BY <1>1, <1>2 DEF IInv, UserSeqIsNewest
  <2> QED
    BY <2>1, <2>2, <2>3 DEF UserSeqIsNewest
<1>6. AnnouncedOnce' /\ ReadsInLog'
  BY <1>1 DEF IInv, AnnouncedOnce, ReadsInLog, Insert, Written, Row
<1>7. created[id] = 0
  BY <1>1 DEF IInv, AnnouncedOnce
<1>8. /\ req'[p] = [pc |-> "fanout", id |-> id] /\ roomLock' = NoProc
      /\ \A q \in Proc \ {p} : req'[q] = req[q]
      /\ created' = created
      /\ \A u \in User : last_read[u] <= last_read'[u]
  BY <1>1 DEF IInv, Insert, Written, Goto, ReadsInLog, Row
<1>9. FanOutUnique'
  <2>1. \A q \in Proc : req[q].pc = "fanout" => req[q].id # id
    BY <1>1 DEF IInv, LocalOK
  <2> QED
    BY <1>8, <2>1 DEF IInv, FanOutUnique, At
<1>10. ASSUME NEW q \in Proc PROVE LocalOK(q)'
  <2>1. CASE q = p
    BY <1>1, <1>7, <1>8, <2>1, NullAssumption DEF LocalOK
  <2>2. CASE q # p
    <3>1. LocalOK(q) /\ req'[q] = req[q] /\ req[q].pc \notin {"send", "system"} /\ roomLock' # q
      BY <1>8, <2>2, NullAssumption DEF IInv, LocalOK
    <3>2. req[q].pc \in {"mark", "mark_update", "mark_done"} => req[q].seq \in Nat /\ req[q].user \in User
      BY <1>1 DEF Request, Idle
    <3>3. req[q].pc \in {"mark", "mark_update", "mark_done"} => req[q].seq <= last_seq'
      BY <1>1, <3>1, <3>2 DEF LocalOK
    <3>4. req[q].pc = "mark_done" => req[q].seq <= last_read'[req[q].user]
      BY <1>1, <1>8, <3>1, <3>2 DEF LocalOK
    <3> HIDE DEF TypeOK
    <3> QED
      BY <1>1, <1>8, <3>1, <3>3, <3>4 DEF LocalOK
  <2> QED
    BY <2>1, <2>2
<1> QED
  BY <1>3, <1>4, <1>5, <1>6, <1>9, <1>10 DEF IInv

(* The announcement: the row was not announced before and this handler     *)
(* alone was about to.                                                     *)
LEMMA FanOutStep == ASSUME IInv, TypeOK', NEW p \in Proc, FanOut(p) PROVE IInv'
<1> USE DEF TypeOK
<1>1. /\ req[p].pc = "fanout" /\ req[p].id \in Rows /\ created[req[p].id] = 0
      /\ req' = [req EXCEPT ![p] = Idle] /\ created' = [created EXCEPT ![req[p].id] = 1]
      /\ UNCHANGED <<last_seq, last_user_seq, msg, last_read, roomLock>>
      /\ req \in [Proc -> Request] /\ created \in [MsgId -> Nat] /\ Rows \subseteq MsgId
  <2>1. /\ req[p].pc = "fanout" /\ req[p].id \in Rows /\ created[req[p].id] = 0
        /\ req \in [Proc -> Request] /\ created \in [MsgId -> Nat] /\ Rows \subseteq MsgId
    BY DEF IInv, FanOut, LocalOK, At, Rows
  <2>2. created' = [created EXCEPT ![req[p].id] = created[req[p].id] + 1]
    BY DEF FanOut
  <2>3. /\ req' = [req EXCEPT ![p] = Idle]
        /\ UNCHANGED <<last_seq, last_user_seq, msg, last_read, roomLock>>
    BY DEF FanOut, Goto, Done, roomRow, locks
  <2>4. created' = [created EXCEPT ![req[p].id] = 1]
    BY <2>1, <2>2
  <2> QED
    BY <2>1, <2>3, <2>4
<1>2. LogDense' /\ ExactlyOnce' /\ UserSeqIsNewest' /\ ReadsInLog'
  BY <1>1 DEF IInv, LogDense, ExactlyOnce, UserSeqIsNewest, ReadsInLog, Rows
<1>3. AnnouncedOnce'
  BY <1>1 DEF IInv, AnnouncedOnce, Rows
<1>4. FanOutUnique'
  BY <1>1 DEF IInv, FanOutUnique, At, Idle
<1>5. ASSUME NEW q \in Proc PROVE LocalOK(q)'
  <2>1. CASE q = p
    BY <1>1, <2>1 DEF IInv, LocalOK, Idle
  <2>2. CASE q # p
    <3>1. LocalOK(q) /\ req'[q] = req[q]
          /\ (req[q].pc = "fanout" => req[q].id # req[p].id)
      BY <1>1, <2>2 DEF IInv, FanOutUnique, At
    <3> HIDE DEF TypeOK
    <3>2. req[q].pc = "fanout" => created'[req[q].id] = 0
      BY <1>1, <3>1 DEF LocalOK
    <3> QED
      BY <1>1, <3>1, <3>2 DEF LocalOK, Existing, Rows
  <2> QED
    BY <2>1, <2>2
<1> QED
  BY <1>2, <1>3, <1>4, <1>5 DEF IInv

(* The conditional UPDATE of a read pointer: it moves up, inside the log.  *)
LEMMA MarkStep == ASSUME IInv, TypeOK', NEW p \in Proc, MarkUpdate(p) PROVE IInv'
<1> USE DEF TypeOK
<1> DEFINE r == req[p]
<1>1. /\ r.pc = "mark_update" /\ r.user \in User /\ r.seq \in Nat /\ r.seq <= last_seq
      /\ req' = [req EXCEPT ![p] = [r EXCEPT !.pc = "mark_done"]]
      /\ last_read' = [last_read EXCEPT ![r.user] = Advance(@, r.seq)]
      /\ UNCHANGED <<last_seq, last_user_seq, msg, roomLock, created>>
      /\ last_read \in [User -> Nat] /\ last_seq \in Nat /\ req \in [Proc -> Request]
  BY DEF IInv, MarkUpdate, LocalOK, At, Goto, Request, Idle, roomRow, locks
<1>2. /\ \A u \in User : last_read[u] <= last_read'[u] /\ last_read'[u] <= last_seq
      /\ r.seq <= last_read'[r.user]
  BY <1>1 DEF IInv, Advance, ReadsInLog
<1>3. LogDense' /\ ExactlyOnce' /\ UserSeqIsNewest' /\ ReadsInLog' /\ AnnouncedOnce'
  BY <1>1, <1>2 DEF IInv, LogDense, ExactlyOnce, UserSeqIsNewest, ReadsInLog, AnnouncedOnce, Rows
<1>4. /\ req'[p].pc = "mark_done" /\ req'[p].seq = r.seq /\ req'[p].user = r.user
      /\ \A q \in Proc \ {p} : req'[q] = req[q]
  <2>1. r \in [pc : {"mark", "mark_update", "mark_done"}, user : User, seq : Nat]
    BY <1>1 DEF Request, Idle
  <2>2. req'[p] = [r EXCEPT !.pc = "mark_done"] /\ \A q \in Proc \ {p} : req'[q] = req[q]
    BY <1>1
  <2> QED
    BY <2>1, <2>2
<1>5. FanOutUnique'
  BY <1>4 DEF IInv, FanOutUnique, At
<1>6. ASSUME NEW q \in Proc PROVE LocalOK(q)'
  <2>1. CASE q = p
    BY <1>1, <1>2, <1>4, <2>1 DEF IInv, LocalOK
  <2>2. CASE q # p
    <3>1. LocalOK(q) /\ req'[q] = req[q]
      BY <1>4, <2>2 DEF IInv
    <3>2. req[q].pc = "mark_done" => req[q].seq \in Nat /\ req[q].user \in User
      BY <1>1 DEF Request, Idle
    <3>3. req[q].pc = "mark_done" => req[q].seq <= last_read'[req[q].user]
      BY <1>1, <1>2, <3>1, <3>2 DEF LocalOK
    <3> HIDE DEF TypeOK, r
    <3> QED
      BY <1>1, <3>1, <3>3, ZenonT(30) DEF LocalOK, Existing, Rows
  <2> QED
    BY <2>1, <2>2
<1> QED
  BY <1>3, <1>5, <1>6 DEF IInv

(* Every step keeps the inductive invariant.                               *)
LEMMA NextIInv == IInv /\ [Next]_vars => IInv'
<1> SUFFICES ASSUME IInv, [Next]_vars PROVE IInv'
  OBVIOUS
<1>0. TypeOK /\ TypeOK'
  BY TypeStep DEF IInv
<1>1. ASSUME NEW p \in Proc, NEW u \in User, NEW c \in Cmid, NEW b \in Body \cup {NoBody},
             SendLock(p, u, c, b)
      PROVE  IInv'
  <2>1. /\ req' = [req EXCEPT ![p] = [pc |-> "send", user |-> u, cmid |-> c, body |-> b, seq |-> last_seq + 1]]
        /\ roomLock = NoProc /\ roomLock' = p /\ Existing(u, c) = {}
        /\ UNCHANGED <<last_seq, last_user_seq, msg, last_read, created>>
    BY <1>1 DEF SendLock, LockRoom, Goto, RoomLockFree, roomRow
  <2>2. KeysKept /\ OnlyMoves(p) /\ Existing(u, c)' = {}
    BY <1>0, <2>1, NullAssumption DEF KeysKept, OnlyMoves, Rows, Existing, TypeOK
  <2>3. LocalOK(p)' /\ req'[p].pc # "fanout"
    BY <1>0, <2>1, <2>2 DEF LocalOK, TypeOK
  <2> QED
    BY <1>0, <2>1, <2>2, <2>3, LocalStep
<1>2. ASSUME NEW p \in Proc, NEW id \in MsgId, SendCommit(p, id)
      PROVE  IInv'
  <2>1. /\ roomLock = p /\ req[p].seq = last_seq + 1 /\ Existing(req[p].user, req[p].cmid) = {}
        /\ req[p].user \in User /\ req[p].cmid \in Cmid /\ req[p].body \in Body \cup {NoBody}
        /\ last_seq \in Nat
    <3>1. req[p].pc = "send" /\ LocalOK(p)
      BY <1>2 DEF IInv, SendCommit, At
    <3>2. /\ req[p].user \in User /\ req[p].cmid \in Cmid /\ req[p].body \in Body \cup {NoBody}
          /\ last_seq \in Nat
      BY <1>0, <3>1 DEF TypeOK, Request, Idle
    <3> QED
      BY <3>1, <3>2 DEF LocalOK
  <2> DEFINE row == [seq |-> req[p].seq, sender |-> req[p].user, cmid |-> req[p].cmid,
                     type |-> "user", body |-> req[p].body, edit_count |-> 0, deleted |-> FALSE]
  <2>2. /\ row \in Row /\ row.type = "user" /\ row.seq = last_seq + 1 /\ row.seq = req[p].seq
        /\ row.sender = req[p].user /\ row.cmid = req[p].cmid
    BY <2>1 DEF Row
  <2>3. Insert(p, id, row, req[p].seq) /\ req[p].seq \in Nat
    BY <1>2, <2>1 DEF SendCommit
  <2> HIDE DEF row
  <2> QED
    BY <1>0, <2>1, <2>2, <2>3, InsertStep
<1>3. ASSUME NEW p \in Proc, NEW id \in MsgId, SystemCommit(p, id)
      PROVE  IInv'
  <2>1. /\ roomLock = p /\ req[p].seq = last_seq + 1 /\ req[p].user \in User
        /\ last_seq \in Nat /\ last_user_seq \in Nat
    BY <1>0, <1>3 DEF IInv, SystemCommit, At, LocalOK, TypeOK, Request, Idle
  <2> DEFINE row == [seq |-> req[p].seq, sender |-> req[p].user, cmid |-> NoCmid,
                     type |-> "system", body |-> NoBody, edit_count |-> 0, deleted |-> FALSE]
  <2>2. /\ row \in Row /\ row.type = "system" /\ row.seq = last_seq + 1
        /\ row.cmid = NoCmid
    BY <2>1 DEF Row
  <2>3. Insert(p, id, row, last_user_seq)
    BY <1>3 DEF SystemCommit
  <2> HIDE DEF row
  <2> QED
    BY <1>0, <2>1, <2>2, <2>3, InsertStep
<1>4. ASSUME NEW p \in Proc, NEW u \in User, SystemLock(p, u)
      PROVE  IInv'
  <2>1. /\ req' = [req EXCEPT ![p] = [pc |-> "system", user |-> u, seq |-> last_seq + 1]]
        /\ roomLock = NoProc /\ roomLock' = p
        /\ UNCHANGED <<last_seq, last_user_seq, msg, last_read, created>>
    BY <1>4 DEF SystemLock, LockRoom, Goto, RoomLockFree, roomRow
  <2>2. KeysKept /\ OnlyMoves(p)
    BY <1>0, <2>1, NullAssumption DEF KeysKept, OnlyMoves, Rows, TypeOK
  <2>3. LocalOK(p)' /\ req'[p].pc # "fanout"
    BY <1>0, <2>1 DEF LocalOK, TypeOK
  <2> QED
    BY <1>0, <2>1, <2>2, <2>3, LocalStep
<1>5. ASSUME NEW p \in Proc, FanOut(p)
      PROVE  IInv'
  BY <1>0, <1>5, FanOutStep
<1>6. ASSUME NEW p \in Proc, NEW id \in MsgId, NEW b \in Body \cup {NoBody}, EditLoad(p, id, b)
      PROVE  IInv'
  <2>1. /\ req' = [req EXCEPT ![p] = [pc |-> "edit", id |-> id, old |-> msg[id].body, body |-> b,
                                      edit_count |-> msg[id].edit_count]]
        /\ id \in Rows /\ req[p].pc = "idle"
        /\ UNCHANGED <<last_seq, last_user_seq, msg, last_read, roomLock, created>>
    BY <1>6 DEF EditLoad, Goto, At, roomRow, locks
  <2>2. KeysKept /\ OnlyMoves(p)
    BY <1>0, <2>1 DEF KeysKept, OnlyMoves, Rows, TypeOK
  <2>3. LocalOK(p)' /\ req'[p].pc # "fanout"
    BY <1>0, <2>1, <2>2 DEF IInv, LocalOK, TypeOK, KeysKept
  <2> QED
    BY <1>0, <2>1, <2>2, <2>3, LocalStep
<1>7. ASSUME NEW p \in Proc, EditSave(p)
      PROVE  IInv'
  <2> DEFINE r == req[p]
  <2>1. /\ r.pc = "edit" /\ r.id \in Rows /\ roomLock # p
        /\ msg' = [msg EXCEPT ![r.id].body = IF r.body = r.old THEN @ ELSE r.body,
                              ![r.id].edit_count = r.edit_count + 1]
        /\ req' = [req EXCEPT ![p] = Idle]
        /\ UNCHANGED <<last_seq, last_user_seq, last_read, roomLock, created>>
    BY <1>7 DEF IInv, EditSave, LocalOK, Goto, Done, At, roomRow, locks
  <2>2. KeysKept
    <3> DEFINE row == msg[r.id]
               new == msg'[r.id]
    <3>1. /\ row \in Row /\ r.id \in MsgId
          /\ \A i \in MsgId \ {r.id} : msg'[i] = msg[i]
          /\ new = [row EXCEPT !.body = IF r.body = r.old THEN @ ELSE r.body, !.edit_count = r.edit_count + 1]
      BY <1>0, <2>1 DEF Rows, TypeOK
    <3>2. /\ new.seq = row.seq /\ new.sender = row.sender /\ new.cmid = row.cmid /\ new.type = row.type
          /\ row.seq # 0
      <4> HIDE DEF new, row
      <4> QED
        BY <3>1 DEF Row
    <3>3. row # Absent /\ new # Absent
      <4> HIDE DEF new, row
      <4> QED
        BY <3>2 DEF Absent
    <3>4. Rows' = Rows
      BY <3>1, <3>3 DEF Rows
    <3> QED
      BY <2>1, <3>1, <3>2, <3>4 DEF KeysKept, Rows
  <2>3. OnlyMoves(p) /\ LocalOK(p)' /\ req'[p].pc # "fanout"
    BY <1>0, <2>1 DEF OnlyMoves, LocalOK, TypeOK, Idle
  <2> QED
    BY <1>0, <2>1, <2>2, <2>3, LocalStep
<1>8. ASSUME NEW p \in Proc, NEW id \in MsgId, DeleteLoad(p, id)
      PROVE  IInv'
  <2>1. /\ req' = [req EXCEPT ![p] = [pc |-> "delete", id |-> id, old |-> msg[id].body]]
        /\ id \in Rows /\ req[p].pc = "idle"
        /\ UNCHANGED <<last_seq, last_user_seq, msg, last_read, roomLock, created>>
    BY <1>8 DEF DeleteLoad, Goto, At, roomRow, locks
  <2>2. KeysKept /\ OnlyMoves(p)
    BY <1>0, <2>1 DEF KeysKept, OnlyMoves, Rows, TypeOK
  <2>3. LocalOK(p)' /\ req'[p].pc # "fanout"
    BY <1>0, <2>1, <2>2 DEF IInv, LocalOK, TypeOK, KeysKept
  <2> QED
    BY <1>0, <2>1, <2>2, <2>3, LocalStep
<1>9. ASSUME NEW p \in Proc, \/ DeleteLoadRoom(p) \/ DeleteRow(p)
                              \/ \E i \in MsgId \cup {NoMsg} : DeletePick(p, i)
      PROVE  IInv'
  <2>1. /\ req[p].pc \in {"delete", "delete_room", "delete_row"} /\ req[p].id \in Rows
        /\ req'[p].pc \in {"delete_room", "delete_row", "delete_pick"} /\ req'[p].id = req[p].id
        /\ \A q \in Proc \ {p} : req'[q] = req[q]
        /\ UNCHANGED <<last_seq, last_user_seq, msg, last_read, roomLock, created>>
    BY <1>0, <1>9 DEF IInv, DeleteLoadRoom, DeleteRow, DeletePick, Goto, At, LocalOK, TypeOK, Request,
                      Idle, roomRow, locks
  <2>2. KeysKept /\ OnlyMoves(p)
    BY <2>1 DEF KeysKept, OnlyMoves, Rows
  <2>3. LocalOK(p)' /\ req'[p].pc # "fanout"
    BY <2>1, <2>2 DEF IInv, LocalOK, KeysKept
  <2> QED
    BY <1>0, <2>1, <2>2, <2>3, LocalStep
<1>10. ASSUME NEW p \in Proc, DeleteCommit(p)
       PROVE  IInv'
  <2> DEFINE r == req[p]
  <2>1. /\ r.pc \in {"delete_row", "delete_pick"} /\ r.id \in Rows /\ roomLock # p
        /\ msg' = [msg EXCEPT ![r.id] = Tombstone(@, r.old)]
        /\ req' = [req EXCEPT ![p] = Idle]
        /\ UNCHANGED <<last_seq, last_user_seq, last_read, roomLock, created>>
    BY <1>10 DEF IInv, DeleteCommit, LocalOK, Goto, Done, At
  <2>2. KeysKept
    <3> DEFINE row == msg[r.id]
               new == msg'[r.id]
    <3>1. /\ row \in Row /\ r.id \in MsgId
          /\ \A i \in MsgId \ {r.id} : msg'[i] = msg[i]
          /\ new = Tombstone(row, r.old)
      BY <1>0, <2>1 DEF Rows, TypeOK
    <3>2. /\ new.seq = row.seq /\ new.sender = row.sender /\ new.cmid = row.cmid /\ new.type = row.type
          /\ row.seq # 0
      <4> HIDE DEF new, row
      <4> QED
        BY <3>1 DEF Row, Tombstone
    <3>3. row # Absent /\ new # Absent
      <4> HIDE DEF new, row
      <4> QED
        BY <3>2 DEF Absent
    <3>4. Rows' = Rows
      BY <3>1, <3>3 DEF Rows
    <3> QED
      BY <2>1, <3>1, <3>2, <3>4 DEF KeysKept, Rows
  <2>3. OnlyMoves(p) /\ LocalOK(p)' /\ req'[p].pc # "fanout"
    BY <1>0, <2>1 DEF OnlyMoves, LocalOK, TypeOK, Idle
  <2> QED
    BY <1>0, <2>1, <2>2, <2>3, LocalStep
<1>11. ASSUME NEW p \in Proc, NEW u \in User, NEW n \in 0..(last_seq + 1), MarkLoad(p, u, n)
       PROVE  IInv'
  <2>1. /\ req' = [req EXCEPT ![p] = [pc |-> "mark", user |-> u, seq |-> Clamp(n)]]
        /\ req[p].pc = "idle" /\ Clamp(n) <= last_seq
        /\ UNCHANGED <<last_seq, last_user_seq, msg, last_read, roomLock, created>>
    BY <1>0, <1>11 DEF MarkLoad, Clamp, Goto, At, TypeOK, roomRow, locks
  <2>2. KeysKept /\ OnlyMoves(p)
    BY <1>0, <2>1 DEF KeysKept, OnlyMoves, Rows, TypeOK
  <2>3. LocalOK(p)' /\ req'[p].pc # "fanout"
    BY <1>0, <2>1 DEF IInv, LocalOK, TypeOK
  <2> QED
    BY <1>0, <2>1, <2>2, <2>3, LocalStep
<1>12. ASSUME NEW p \in Proc, MarkDecide(p) \/ MarkBroadcast(p)
       PROVE  IInv'
  <2>1. /\ req[p].pc \in {"mark", "mark_done"}
        /\ \/ req'[p] = Idle
           \/ req'[p].pc = "mark_update" /\ req'[p].seq = req[p].seq
        /\ \A q \in Proc \ {p} : req'[q] = req[q]
        /\ UNCHANGED <<last_seq, last_user_seq, msg, last_read, roomLock, created>>
    BY <1>0, <1>12 DEF MarkDecide, MarkBroadcast, Goto, Done, At, TypeOK, Request, Idle, roomRow, locks
  <2>2. KeysKept /\ OnlyMoves(p)
    BY <2>1 DEF KeysKept, OnlyMoves, Rows
  <2>3. LocalOK(p)' /\ req'[p].pc # "fanout"
    BY <2>1 DEF IInv, LocalOK, Idle
  <2> QED
    BY <1>0, <2>1, <2>2, <2>3, LocalStep
<1>13. ASSUME NEW p \in Proc, MarkUpdate(p)
       PROVE  IInv'
  BY <1>0, <1>13, MarkStep
<1>14. ASSUME NEW p \in Proc, Abort(p)
       PROVE  IInv'
  <2>1. /\ req' = [req EXCEPT ![p] = Idle]
        /\ roomLock' = IF roomLock = p THEN NoProc ELSE roomLock
        /\ UNCHANGED <<last_seq, last_user_seq, msg, last_read, created>>
    BY <1>14 DEF Abort, Goto, Done, roomRow
  <2>2. KeysKept /\ OnlyMoves(p)
    BY <1>0, <2>1, NullAssumption DEF KeysKept, OnlyMoves, Rows, TypeOK
  <2>3. LocalOK(p)' /\ req'[p].pc # "fanout"
    BY <1>0, <2>1, NullAssumption DEF LocalOK, Idle, TypeOK
  <2> QED
    BY <1>0, <2>1, <2>2, <2>3, LocalStep
<1>15. CASE UNCHANGED vars
  <2>1. \A p \in Proc : LocalOK(p)'
    BY <1>15 DEF IInv, LocalOK, vars, roomRow, locks, Existing, Rows
  <2>2. LogDense' /\ ExactlyOnce' /\ AnnouncedOnce' /\ UserSeqIsNewest' /\ ReadsInLog' /\ FanOutUnique'
    BY <1>15 DEF IInv, LogDense, ExactlyOnce, AnnouncedOnce, UserSeqIsNewest, ReadsInLog, FanOutUnique,
                 vars, roomRow, locks, Rows, At
  <2> QED
    BY <1>0, <2>1, <2>2 DEF IInv
<1> QED
  BY <1>1, <1>2, <1>3, <1>4, <1>5, <1>6, <1>7, <1>8, <1>9, <1>10, <1>11, <1>12, <1>13, <1>14, <1>15
  DEF Next, Step

(* The bookkeeping every theorem below rests on.                           *)
THEOREM Invariant == Spec => []IInv
<1> QED
  BY InitIInv, NextIInv, PTL DEF Spec

(* Tables, locks and the handlers' local copies keep their types.          *)
THEOREM TypeCorrect == Spec => []TypeOK
<1>1. IInv => TypeOK
  BY DEF IInv
<1> QED
  BY <1>1, Invariant, PTL

(* The log has one row for each seq 1..last_seq (MessageWriter::write and  *)
(* SystemMessageWriter::write).                                            *)
THEOREM LogStaysDense == Spec => []LogDense
<1>1. IInv => LogDense
  BY DEF IInv
<1> QED
  BY <1>1, Invariant, PTL

(* One row per sender and client_message_id, whatever is sent again.       *)
THEOREM SendsAreExactlyOnce == Spec => []ExactlyOnce
<1>1. IInv => ExactlyOnce
  BY DEF IInv
<1> QED
  BY <1>1, Invariant, PTL

(* message.created names a committed row and goes out at most once for it. *)
THEOREM NothingAnnouncedTwice == Spec => []AnnouncedOnce
<1>1. IInv => AnnouncedOnce
  BY DEF IInv
<1> QED
  BY <1>1, Invariant, PTL

(* The unique indexes of table messages never reject an insert: the room   *)
(* lock alone keeps seqs and client ids unique.                            *)
THEOREM UniqueIndexesAreRedundant == Spec => []IndexesNeverFire
<1>1. IInv => IndexesNeverFire
  <2> SUFFICES ASSUME IInv PROVE IndexesNeverFire
    OBVIOUS
  <2>1. ASSUME NEW p \in Proc, At(p, "send") \/ At(p, "system"), NEW i \in Rows
        PROVE  msg[i].seq # req[p].seq
    <3>1. req[p].seq = last_seq + 1 /\ last_seq \in Nat
      BY <2>1 DEF IInv, LocalOK, At, TypeOK
    <3>2. msg[i].seq <= last_seq /\ msg[i].seq \in Nat
      BY DEF IInv, LogDense, TypeOK, Rows, Row
    <3> QED
      BY <3>1, <3>2
  <2>2. \A p \in Proc : At(p, "send") => Existing(req[p].user, req[p].cmid) = {}
    BY DEF IInv, LocalOK, At
  <2> QED
    BY <2>1, <2>2 DEF IndexesNeverFire
<1> QED
  BY <1>1, Invariant, PTL

(* Read pointers, and the seqs room.read is about to announce, stay inside *)
(* the log (MessageController::markRead).                                  *)
THEOREM ReadsStayInLog == Spec => []ReadWithinLog
<1>1. IInv => ReadWithinLog
  BY DEF IInv, ReadsInLog, LocalOK, ReadWithinLog, At
<1> QED
  BY <1>1, Invariant, PTL

(* The badge lights exactly when an unread user message exists             *)
(* (MessageWriter::fanOut).                                                *)
THEOREM BadgeStaysRight == Spec => []BadgeIsRight
<1>1. IInv => BadgeIsRight
  <2> SUFFICES ASSUME IInv, NEW u \in User
               PROVE  Unread(u) > 0 <=> \E i \in Rows : msg[i].type = "user" /\ msg[i].seq > last_read[u]
    BY DEF BadgeIsRight
  <2>1. last_user_seq \in Nat /\ last_read[u] \in Nat /\ \A i \in Rows : msg[i].seq \in Nat
    BY DEF IInv, TypeOK, Rows, Row
  <2>2. Unread(u) > 0 <=> last_user_seq > last_read[u]
    BY <2>1 DEF Unread
  <2>3. ASSUME last_user_seq > last_read[u]
        PROVE  \E i \in Rows : msg[i].type = "user" /\ msg[i].seq > last_read[u]
    <3>1. last_user_seq > 0
      BY <2>1, <2>3
    <3>2. PICK i \in Rows : msg[i].type = "user" /\ msg[i].seq = last_user_seq
      BY <3>1 DEF IInv, UserSeqIsNewest
    <3> QED
      BY <2>3, <3>2
  <2>4. ASSUME NEW i \in Rows, msg[i].type = "user", msg[i].seq > last_read[u]
        PROVE  last_user_seq > last_read[u]
    <3>1. msg[i].seq <= last_user_seq
      BY <2>4 DEF IInv, UserSeqIsNewest
    <3> QED
      BY <2>1, <2>4, <3>1
  <2> QED
    BY <2>2, <2>3, <2>4
<1> QED
  BY <1>1, Invariant, PTL

(* Which steps write read pointers and rows; all others leave both alone.  *)
LEMMA QuietStep ==
    ASSUME NEW p \in Proc, Step(p),
           \A id \in MsgId : ~SendCommit(p, id) /\ ~SystemCommit(p, id)
    PROVE  /\ MarkUpdate(p) \/ UNCHANGED last_read
           /\ EditSave(p) \/ DeleteCommit(p) \/ UNCHANGED msg
BY DEF Step, SendLock, SystemLock, LockRoom, FanOut, EditLoad, EditSave, DeleteLoad, DeleteLoadRoom, DeleteRow,
       DeletePick, DeleteCommit, MarkLoad, MarkDecide, MarkUpdate, MarkBroadcast, Abort

(* The handler that commits a row holds the room lock: the row takes the   *)
(* next seq.                                                               *)
LEMMA CommitStep ==
    ASSUME IInv, NEW p \in Proc, NEW id \in MsgId, SendCommit(p, id) \/ SystemCommit(p, id)
    PROVE  \E u \in User : \E row :
               /\ msg[id] = Absent /\ msg' = [msg EXCEPT ![id] = row]
               /\ last_read' = [last_read EXCEPT ![u] = last_seq + 1]
<1>1. req[p].pc \in {"send", "system"} /\ LocalOK(p) /\ req[p] \in Request
  BY DEF IInv, SendCommit, SystemCommit, At, TypeOK
<1>2. req[p].user \in User
  BY <1>1 DEF Request, Idle
<1>3. req[p].seq = last_seq + 1
  BY <1>1 DEF LocalOK
<1> QED
  BY <1>2, <1>3 DEF SendCommit, SystemCommit, Insert, Written, Fresh

(* A read pointer never moves back: a commit moves its sender's to the new *)
(* end of the log, markRead's UPDATE only ever raises one.                 *)
THEOREM ReadsNeverMoveBack == Spec => ReadMonotonic
<1>1. ASSUME IInv, [Next]_vars PROVE [\A u \in User : last_read[u] <= last_read'[u]]_last_read
  <2>1. TypeOK /\ \A u \in User : last_read[u] \in Nat /\ last_read[u] <= last_seq
    BY <1>1 DEF IInv, TypeOK, ReadsInLog
  <2>2. CASE UNCHANGED vars
    BY <2>2 DEF vars
  <2>3. ASSUME NEW p \in Proc, Step(p)
        PROVE  [\A u \in User : last_read[u] <= last_read'[u]]_last_read
    <3>1. ASSUME NEW id \in MsgId, SendCommit(p, id) \/ SystemCommit(p, id)
          PROVE  \A u \in User : last_read[u] <= last_read'[u]
      BY <1>1, <2>1, <3>1, CommitStep DEF TypeOK
    <3>2. CASE MarkUpdate(p)
      <4>1. last_read' = [last_read EXCEPT ![req[p].user] = Advance(@, req[p].seq)]
            /\ req[p].pc = "mark_update"
        BY <3>2 DEF MarkUpdate, At
      <4>2. req[p].seq \in Nat
        BY <2>1, <4>1 DEF TypeOK, Request, Idle
      <4> QED
        BY <2>1, <4>1, <4>2 DEF Advance, TypeOK
    <3>3. CASE UNCHANGED last_read
      BY <3>3
    <3> QED
      BY <2>3, <3>1, <3>2, <3>3, QuietStep
  <2> QED
    BY <1>1, <2>2, <2>3 DEF Next
<1> QED
  BY <1>1, Invariant, PTL DEF Spec, ReadMonotonic

(* A row stays in the log with its seq, sender and client id, and a        *)
(* deleted row stays deleted under edits and deletes that loaded it before *)
(* (MessageEditor).                                                        *)
THEOREM RowsStay == Spec => RowsAreForever
<1> DEFINE Kept(i) == /\ msg'[i].seq = msg[i].seq
                      /\ msg'[i].sender = msg[i].sender
                      /\ msg'[i].cmid = msg[i].cmid
                      /\ msg[i].deleted => msg'[i].deleted
<1>1. ASSUME IInv, [Next]_vars PROVE [\A i \in Rows : Kept(i)]_msg
  <2>1. TypeOK /\ \A i \in Rows : i \in MsgId /\ msg[i] \in Row
    BY <1>1 DEF IInv, TypeOK, Rows
  <2>2. CASE UNCHANGED vars
    BY <2>2 DEF vars
  <2>3. ASSUME NEW p \in Proc, Step(p) PROVE [\A i \in Rows : Kept(i)]_msg
    <3>1. ASSUME NEW id \in MsgId, SendCommit(p, id) \/ SystemCommit(p, id)
          PROVE  \A i \in Rows : Kept(i)
      <4>1. msg[id] = Absent /\ \A i \in MsgId \ {id} : msg'[i] = msg[i]
        BY <1>1, <2>1, <3>1, CommitStep DEF TypeOK
      <4> QED
        BY <2>1, <4>1 DEF Rows
    <3>2. CASE EditSave(p)
      <4> DEFINE r == req[p]
      <4>1. msg' = [msg EXCEPT ![r.id].body = IF r.body = r.old THEN @ ELSE r.body,
                               ![r.id].edit_count = r.edit_count + 1]
        BY <3>2 DEF EditSave
      <4>2. TypeOK /\ \A i \in Rows : msg[i] \in Row
        BY <2>1
      <4> HIDE DEF r
      <4> QED
        BY <4>1, <4>2 DEF Rows, TypeOK, Row
    <3>3. CASE DeleteCommit(p)
      <4>1. msg' = [msg EXCEPT ![req[p].id] = Tombstone(@, req[p].old)]
        BY <3>3 DEF DeleteCommit
      <4> QED
        BY <2>1, <4>1 DEF Tombstone, TypeOK, Row
    <3>4. CASE UNCHANGED msg
      BY <3>4
    <3> QED
      BY <2>3, <3>1, <3>2, <3>3, <3>4, QuietStep
  <2> QED
    BY <1>1, <2>2, <2>3 DEF Next
<1>2. ASSUME IInv, [Next]_vars
      PROVE  [\A i \in Rows : /\ msg'[i].seq = msg[i].seq
                               /\ msg'[i].sender = msg[i].sender
                               /\ msg'[i].cmid = msg[i].cmid
                               /\ msg[i].deleted => msg'[i].deleted]_msg
  BY <1>1, <1>2
<1> QED
  BY <1>2, Invariant, PTL DEF Spec, RowsAreForever
================================================================================
