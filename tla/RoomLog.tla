-------------------------------- MODULE RoomLog --------------------------------
(***************************************************************************)
(* The server side of one room: the request handlers that append to its    *)
(* message log, edit and delete rows of it, and move the members' read     *)
(* pointers.  Each handler is one PHP request (or job) with its own        *)
(* database connection; handlers interleave between any two statements     *)
(* whose order matters.  The database is PostgreSQL at READ COMMITTED:     *)
(*                                                                         *)
(*   - SELECT ... FOR UPDATE and UPDATE wait for the row's lock, which is  *)
(*     held until the transaction ends;                                    *)
(*   - any other SELECT sees what was committed when it ran, and a model   *)
(*     loaded earlier is a stale copy of the row;                          *)
(*   - Eloquent's save() writes only the attributes that differ from the   *)
(*     loaded copy, so columns written by others in between survive.       *)
(*                                                                         *)
(* Membership does not change here.                                        *)
(***************************************************************************)
EXTENDS Naturals, FiniteSets

CONSTANTS Proc,      \* request handlers that may run at the same time
          User,      \* members of the room
          Cmid,      \* client_message_id values
          MsgId,     \* message ULIDs; a finite set bounds the log in a run
          Body,      \* message texts
          MaxEdits,  \* bound: a row is edited at most this often
          NoProc, NoCmid, NoMsg, NoBody

ASSUME NullAssumption ==
    /\ NoProc \notin Proc
    /\ NoCmid \notin Cmid
    /\ NoMsg \notin MsgId
    /\ NoBody \notin Body

ASSUME BoundAssumption == MaxEdits \in Nat

VARIABLES
    \* the row of table rooms
    last_seq, last_user_seq, last_message_id,
    \* table messages, by id; Absent where no row has the id
    msg,
    \* room_members.last_read_seq
    last_read,
    \* row locks: the transaction that holds the room row, each message row
    roomLock, msgLock,
    \* what each handler is doing, with the values it has loaded
    req,
    \* how often message.created went out for each message
    created

roomRow == <<last_seq, last_user_seq, last_message_id>>
locks   == <<roomLock, msgLock>>
vars    == <<roomRow, msg, last_read, locks, req, created>>

-------------------------------------------------------------------------------
(* Types *)

Row == [seq : Nat \ {0}, sender : User, cmid : Cmid \cup {NoCmid},
        type : {"user", "system"}, body : Body \cup {NoBody},
        edit_count : Nat, deleted : BOOLEAN]

Absent == [seq |-> 0]
Rows == {i \in MsgId : msg[i] # Absent}

(* The local state of a handler, one record type per point it can be at. *)
Idle == [pc |-> "idle"]
Request ==
    {Idle}
    \cup [pc : {"send"}, user : User, cmid : Cmid, body : Body \cup {NoBody}, seq : Nat]
    \cup [pc : {"system"}, user : User, seq : Nat]
    \cup [pc : {"fanout"}, id : MsgId]
    \cup [pc : {"edit"}, id : MsgId, old : Body \cup {NoBody}, body : Body \cup {NoBody}, edit_count : Nat]
    \cup [pc : {"delete"}, id : MsgId, old : Body \cup {NoBody}]
    \cup [pc : {"delete_room", "delete_row"}, id : MsgId, old : Body \cup {NoBody}, isLast : BOOLEAN]
    \cup [pc : {"delete_pick"}, id : MsgId, old : Body \cup {NoBody}, pick : MsgId \cup {NoMsg}]
    \cup [pc : {"mark", "mark_update", "mark_done"}, user : User, seq : Nat]

TypeOK ==
    /\ last_seq \in Nat /\ last_user_seq \in Nat
    /\ last_message_id \in MsgId \cup {NoMsg}
    /\ msg \in [MsgId -> Row \cup {Absent}]
    /\ last_read \in [User -> Nat]
    /\ roomLock \in Proc \cup {NoProc}
    /\ msgLock \in [MsgId -> Proc \cup {NoProc}]
    /\ req \in [Proc -> Request]
    /\ created \in [MsgId -> Nat]

Init ==
    /\ last_seq = 0 /\ last_user_seq = 0 /\ last_message_id = NoMsg
    /\ msg = [i \in MsgId |-> Absent]
    /\ last_read = [u \in User |-> 0]
    /\ roomLock = NoProc
    /\ msgLock = [i \in MsgId |-> NoProc]
    /\ req = [p \in Proc |-> Idle]
    /\ created = [i \in MsgId |-> 0]

-------------------------------------------------------------------------------
(* Helpers *)

(* The idempotency lookup: the row of this room with the same sender and   *)
(* client_message_id.                                                      *)
Existing(u, c) == {i \in Rows : msg[i].sender = u /\ msg[i].cmid = c}

(* Mutant: the room is read without FOR UPDATE. *)
NoLockWait == TRUE

(* SELECT ... FOR UPDATE on the room row returns at once. *)
RoomLockFree == roomLock = NoProc

(* A ULID no row has. *)
Fresh(id) == msg[id] = Absent

Undeleted == {i \in Rows : ~msg[i].deleted}

(* ORDER BY seq DESC LIMIT 1 over the rows S gives i, or null. *)
IsNewest(i, S) ==
    \/ S = {} /\ i = NoMsg
    \/ i \in S /\ \A j \in S : msg[j].seq <= msg[i].seq

At(p, point) == req[p].pc = point
Goto(p, local) == req' = [req EXCEPT ![p] = local]
Done(p) == Goto(p, Idle)

(* BEGIN and SELECT ... FOR UPDATE of the room, with what is derived from  *)
(* the row.                                                                *)
LockRoom(p, local) ==
    /\ At(p, "idle")
    /\ RoomLockFree
    /\ roomLock' = p
    /\ Goto(p, local)
    /\ UNCHANGED <<roomRow, msg, last_read, msgLock, created>>

-------------------------------------------------------------------------------
(* POST /rooms/{id}/messages *)

(* Mutants: the seq is not advanced; the idempotency lookup is missing; a  *)
(* replay is announced like a new message.                                 *)
SendLockReusesSeq(p, u, c, body) ==
    /\ Existing(u, c) = {}
    /\ LockRoom(p, [pc |-> "send", user |-> u, cmid |-> c, body |-> body, seq |-> last_seq])
SendLockNoLookup(p, u, c, body) ==
    LockRoom(p, [pc |-> "send", user |-> u, cmid |-> c, body |-> body, seq |-> last_seq + 1])
SendLockAnnouncesReplay(p, u, c, body) ==
    \/ /\ Existing(u, c) = {}
       /\ SendLockNoLookup(p, u, c, body)
    \/ \E i \in Existing(u, c) :
         /\ At(p, "idle") /\ Goto(p, [pc |-> "fanout", id |-> i])
         /\ UNCHANGED <<roomRow, msg, last_read, locks, created>>

(* The transaction takes the room lock, finds no row with the client id    *)
(* and allocates a seq.  (A replay, which finds one, commits at once and   *)
(* answers with that row: no state changes.)                               *)
SendLock(p, u, c, body) ==
    /\ Existing(u, c) = {}
    /\ LockRoom(p, [pc |-> "send", user |-> u, cmid |-> c, body |-> body, seq |-> last_seq + 1])

(* What the transaction of either writer ends with. *)
Written(p, id, row, userSeq) ==
    /\ Fresh(id)
    /\ msg' = [msg EXCEPT ![id] = row]
    /\ last_user_seq' = userSeq
    /\ last_message_id' = id
    /\ roomLock' = NoProc
    /\ Goto(p, [pc |-> "fanout", id |-> id])
    /\ UNCHANGED <<msgLock, created>>

(* The inserts and updates both writers make, and the COMMIT.  The row of  *)
(* the sender in room_members is updated last; `userSeq` is what           *)
(* last_user_seq becomes.                                                  *)
Insert(p, id, row, userSeq) ==
    /\ Written(p, id, row, userSeq)
    /\ last_seq' = row.seq
    /\ last_read' = [last_read EXCEPT ![row.sender] = row.seq]

SendCommit(p, id) ==
    /\ At(p, "send")
    /\ Insert(p, id, [seq |-> req[p].seq, sender |-> req[p].user, cmid |-> req[p].cmid,
                      type |-> "user", body |-> req[p].body, edit_count |-> 0, deleted |-> FALSE],
              req[p].seq)

(* After the commit: message.created goes out.                             *)
FanOut(p) ==
    /\ At(p, "fanout")
    /\ created' = [created EXCEPT ![req[p].id] = @ + 1]
    /\ Done(p)
    /\ UNCHANGED <<roomRow, msg, last_read, locks>>

-------------------------------------------------------------------------------
(* SystemMessageWriter::write, called by every handler that changes a room *)

SystemLock(p, u) == LockRoom(p, [pc |-> "system", user |-> u, seq |-> last_seq + 1])

(* Mutant: a system row moves last_user_seq, as a user's does.             *)
SystemCommitCounts(p, id) ==
    /\ At(p, "system")
    /\ Insert(p, id, [seq |-> req[p].seq, sender |-> req[p].user, cmid |-> NoCmid,
                      type |-> "system", body |-> NoBody, edit_count |-> 0, deleted |-> FALSE],
              req[p].seq)

(* A system row has no client_message_id and leaves last_user_seq alone.   *)
SystemCommit(p, id) ==
    /\ At(p, "system")
    /\ Insert(p, id, [seq |-> req[p].seq, sender |-> req[p].user, cmid |-> NoCmid,
                      type |-> "system", body |-> NoBody, edit_count |-> 0, deleted |-> FALSE],
              last_user_seq)

-------------------------------------------------------------------------------
(* PATCH /messages/{id} *)

(* messageOrFail loads the row; assertEditableBy judges that copy.         *)
EditLoad(p, id, body) ==
    /\ At(p, "idle")
    /\ id \in Rows
    /\ msg[id].type = "user" /\ ~msg[id].deleted
    /\ msg[id].edit_count < MaxEdits
    /\ Goto(p, [pc |-> "edit", id |-> id, old |-> msg[id].body, body |-> body,
                edit_count |-> msg[id].edit_count])
    /\ UNCHANGED <<roomRow, msg, last_read, locks, created>>

(* Mutant: the loaded copy is written back whole.                          *)
EditSaveWholeRow(p) ==
    LET r == req[p] IN
    /\ At(p, "edit")
    /\ msgLock[r.id] = NoProc
    /\ msg' = [msg EXCEPT ![r.id].body = r.body, ![r.id].edit_count = r.edit_count + 1,
                          ![r.id].deleted = FALSE]
    /\ Done(p)
    /\ UNCHANGED <<roomRow, last_read, locks, created>>

(* The edit transaction: the UPDATE waits for the row lock, writes the     *)
(* body if it differs from the loaded one, and the loaded edit_count + 1.  *)
EditSave(p) ==
    LET r == req[p] IN
    /\ At(p, "edit")
    /\ msgLock[r.id] = NoProc
    /\ msg' = [msg EXCEPT ![r.id].body = IF r.body = r.old THEN @ ELSE r.body,
                          ![r.id].edit_count = r.edit_count + 1]
    /\ Done(p)
    /\ UNCHANGED <<roomRow, last_read, locks, created>>

-------------------------------------------------------------------------------
(* DELETE /messages/{id} *)

(* The row is loaded; a row already deleted ends the request.              *)
DeleteLoad(p, id) ==
    /\ At(p, "idle")
    /\ id \in Rows
    /\ ~msg[id].deleted
    /\ Goto(p, [pc |-> "delete", id |-> id, old |-> msg[id].body])
    /\ UNCHANGED <<roomRow, msg, last_read, locks, created>>

(* The room is loaded, without a lock and before the transaction.          *)
DeleteLoadRoom(p) ==
    /\ At(p, "delete")
    /\ Goto(p, [pc |-> "delete_room", id |-> req[p].id, old |-> req[p].old,
                isLast |-> last_message_id = req[p].id])
    /\ UNCHANGED <<roomRow, msg, last_read, locks, created>>

(* BEGIN; UPDATE messages: the row is locked, the change not yet visible.  *)
DeleteRow(p) ==
    LET r == req[p] IN
    /\ At(p, "delete_room")
    /\ msgLock[r.id] = NoProc
    /\ msgLock' = [msgLock EXCEPT ![r.id] = p]
    /\ Goto(p, [r EXCEPT !.pc = "delete_row"])
    /\ UNCHANGED <<roomRow, msg, last_read, roomLock, created>>

(* The newest row that is committed, undeleted and not this one.           *)
DeletePick(p, i) ==
    LET r == req[p] IN
    /\ At(p, "delete_row")
    /\ r.isLast
    /\ IsNewest(i, Undeleted \ {r.id})
    /\ Goto(p, [pc |-> "delete_pick", id |-> r.id, old |-> r.old, pick |-> i])
    /\ UNCHANGED <<roomRow, msg, last_read, locks, created>>

(* The row as it is after the delete's UPDATE: body := null is written     *)
(* unless the loaded body was null already.                                *)
Tombstone(row, old) ==
    [row EXCEPT !.deleted = TRUE, !.body = IF old = NoBody THEN @ ELSE NoBody]

(* COMMIT, with the UPDATE of the room when this was its last message.     *)
DeleteCommit(p) ==
    LET r == req[p] IN
    /\ \/ /\ At(p, "delete_row") /\ ~r.isLast
          /\ UNCHANGED last_message_id
       \/ /\ At(p, "delete_pick")
          /\ RoomLockFree
          /\ last_message_id' = r.pick
    /\ msg' = [msg EXCEPT ![r.id] = Tombstone(@, r.old)]
    /\ msgLock' = [msgLock EXCEPT ![r.id] = NoProc]
    /\ Done(p)
    /\ UNCHANGED <<last_seq, last_user_seq, last_read, roomLock, created>>

-------------------------------------------------------------------------------
(* POST /rooms/{id}/read *)

(* The room is loaded; the requested seq (any the client sends) is clamped *)
(* to its last_seq.                                                        *)
Clamp(n) == IF n > last_seq THEN last_seq ELSE n

MarkLoad(p, u, n) ==
    /\ At(p, "idle")
    /\ Goto(p, [pc |-> "mark", user |-> u, seq |-> Clamp(n)])
    /\ UNCHANGED <<roomRow, msg, last_read, locks, created>>

(* The membership is loaded; a seq it has reached already ends the request. *)
MarkDecide(p) ==
    /\ At(p, "mark")
    /\ IF req[p].seq > last_read[req[p].user]
       THEN Goto(p, [req[p] EXCEPT !.pc = "mark_update"])
       ELSE Done(p)
    /\ UNCHANGED <<roomRow, msg, last_read, locks, created>>

(* UPDATE ... WHERE last_read_seq < requested: a pointer that others have  *)
(* moved further in the meantime stays.                                    *)
AdvanceBlindly(current, requested) == requested    \* mutant: UPDATE without the WHERE
Advance(current, requested) == IF current < requested THEN requested ELSE current

MarkUpdate(p) ==
    LET r == req[p] IN
    /\ At(p, "mark_update")
    /\ last_read' = [last_read EXCEPT ![r.user] = Advance(@, r.seq)]
    /\ Goto(p, [r EXCEPT !.pc = "mark_done"])
    /\ UNCHANGED <<roomRow, msg, locks, created>>

(* room.read goes out with req[p].seq, whether this request moved the      *)
(* pointer or not.                                                         *)
MarkBroadcast(p) ==
    /\ At(p, "mark_done")
    /\ Done(p)
    /\ UNCHANGED <<roomRow, msg, last_read, locks, created>>

-------------------------------------------------------------------------------
(* A failed statement, an attachment that cannot be claimed, or the worker *)
(* dying: the open transaction rolls back and nothing more goes out.       *)
Abort(p) ==
    /\ ~At(p, "idle")
    /\ roomLock' = IF roomLock = p THEN NoProc ELSE roomLock
    /\ msgLock' = [i \in MsgId |-> IF msgLock[i] = p THEN NoProc ELSE msgLock[i]]
    /\ Done(p)
    /\ UNCHANGED <<roomRow, msg, last_read, created>>

Step(p) ==
    \/ \E u \in User, c \in Cmid, b \in Body \cup {NoBody} : SendLock(p, u, c, b)
    \/ \E id \in MsgId : SendCommit(p, id) \/ SystemCommit(p, id)
    \/ \E u \in User : SystemLock(p, u)
    \/ FanOut(p)
    \/ \E id \in MsgId, b \in Body \cup {NoBody} : EditLoad(p, id, b)
    \/ EditSave(p)
    \/ \E id \in MsgId : DeleteLoad(p, id)
    \/ DeleteLoadRoom(p) \/ DeleteRow(p) \/ DeleteCommit(p)
    \/ \E i \in MsgId \cup {NoMsg} : DeletePick(p, i)
    \/ \E u \in User, n \in 0..(last_seq + 1) : MarkLoad(p, u, n)
    \/ MarkDecide(p) \/ MarkUpdate(p) \/ MarkBroadcast(p)
    \/ Abort(p)

Next == \E p \in Proc : Step(p)

Spec == Init /\ [][Next]_vars

-------------------------------------------------------------------------------
(* Properties *)

(* The rows' seqs are exactly 1..last_seq, each borne by one row.  History *)
(* pages and the clients' gap detection rely on it: a missing seq would be *)
(* fetched for ever (MessageWriter::write, SystemMessageWriter::write).    *)
LogDense ==
    /\ \A i \in Rows : msg[i].seq <= last_seq
    /\ \A i, j \in Rows : msg[i].seq = msg[j].seq => i = j
    /\ \A s \in 1..last_seq : \E i \in Rows : msg[i].seq = s

(* No insert can hit the unique indexes (room_id, seq) and (room_id,       *)
(* sender_id, client_message_id): a send that passed the lookup succeeds.  *)
IndexesNeverFire ==
    /\ \A p \in Proc : At(p, "send") \/ At(p, "system") =>
         \A i \in Rows : msg[i].seq # req[p].seq
    /\ \A p \in Proc : At(p, "send") => Existing(req[p].user, req[p].cmid) = {}

(* However often a client repeats a send, having lost the answer, there is *)
(* one row with its client_message_id, so every answer names that row.     *)
ExactlyOnce ==
    \A i, j \in Rows :
        msg[i].cmid # NoCmid /\ msg[i].sender = msg[j].sender /\ msg[i].cmid = msg[j].cmid
            => i = j

(* message.created goes out for committed rows only, and at most once per  *)
(* row, replays included (DEC-091: a rolled-back row is never announced).  *)
AnnouncedOnce ==
    \A i \in MsgId : created[i] <= 1 /\ (created[i] = 1 => i \in Rows)

(* A read pointer stays inside the log, and a room.read event about to go  *)
(* out claims no more than the pointer stored (MessageController::markRead). *)
ReadWithinLog ==
    /\ \A u \in User : last_read[u] <= last_seq
    /\ \A p \in Proc : At(p, "mark_done") => req[p].seq <= last_read[req[p].user]

(* The unread badge, max(0, last_user_seq - last_read_seq), is lit exactly *)
(* when a user message lies beyond the member's read pointer.              *)
Unread(u) == IF last_user_seq > last_read[u] THEN last_user_seq - last_read[u] ELSE 0

BadgeIsRight ==
    \A u \in User :
        Unread(u) > 0 <=> \E i \in Rows : msg[i].type = "user" /\ msg[i].seq > last_read[u]

(* A read pointer never moves back, whatever sends, system messages and    *)
(* markRead requests of the same member overlap.                           *)
ReadMonotonic == [][\A u \in User : last_read[u] <= last_read'[u]]_last_read

(* A row never leaves the log, keeps its seq, sender and client id, and    *)
(* once deleted stays deleted, also under an edit that loaded it before.   *)
RowsAreForever ==
    [][\A i \in Rows : /\ msg'[i].seq = msg[i].seq
                        /\ msg'[i].sender = msg[i].sender
                        /\ msg'[i].cmid = msg[i].cmid
                        /\ msg[i].deleted => msg'[i].deleted]_msg

(* The log as the entries of an abstract feed. *)
RowAt(s) == CHOOSE i \in Rows : msg[i].seq = s
Feed == INSTANCE RoomFeed WITH
    feed   <- [s \in 1..last_seq |-> [author |-> msg[RowAt(s)].sender,
                                      cmid   |-> msg[RowAt(s)].cmid]],
    erased <- {msg[i].seq : i \in Rows \ Undeleted},
    readTo <- last_read

(* The handlers, with their locks, stale copies and crashes, implement the *)
(* feed the members were promised.                                         *)
ImplementsFeed == Feed!FeedSpec

(* When no handler is running, the room's last message is its newest row   *)
(* that is not deleted (MessageEditor::delete, "fall back to the newest    *)
(* non-deleted one"; PRODUCT_SPEC FR-MSG-006).                             *)
LastMessageIsNewest ==
    (\A p \in Proc : At(p, "idle")) => IsNewest(last_message_id, Undeleted)
================================================================================
