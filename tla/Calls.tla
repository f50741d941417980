--------------------------------- MODULE Calls ---------------------------------
(***************************************************************************)
(* The calls of one room: CallService (start, join, leave, end, decline),  *)
(* the media server (SFU) that carries them, the reconciler that runs      *)
(* every ten seconds, and the ring and missed-call pushes of a direct room.*)
(*                                                                         *)
(* A session has one request under way at a time; its steps interleave     *)
(* with those of other sessions and of the reconciler.  start() holds the  *)
(* row lock of the room while it asks the SFU for a room; join() and       *)
(* leave() hold the row lock of the call; end() and the reconciler hold no *)
(* lock, each of their statements commits by itself (an UPDATE of a locked *)
(* row waits).  A request to the SFU may fail: what would have followed in *)
(* that request, or for that room, does not happen.                        *)
(***************************************************************************)
EXTENDS Naturals, Sequences, FiniteSets

CONSTANTS Session,     \* login sessions
          Owner,       \* Owner[s]: the user of a session
          Pair,        \* the users of a direct room; {}: the room is a group
          MaxCalls,    \* bound: calls started
          MaxRows,     \* bound: rows of call_participants
          MaxBusy,     \* bound: requests under way at a time
          MaxRings,    \* bound: calls whose callee's device rings
          Removable,   \* bound: users that may be removed from the room
          Revocable,   \* bound: sessions that may be revoked or expire
          MaxGone,     \* MaxGone[dm]: bound: of those, how many are
          GroupCapacity,
          Free         \* no lock

User == {Owner[s] : s \in Session}
Call == 1..MaxCalls
Reconciler == "reconciler"
Actor == Session \cup {Reconciler}

ASSUME CallsAssumption ==
    /\ MaxCalls \in Nat /\ MaxRows \in Nat 
    /\ MaxBusy \in Nat /\ MaxRings \in Nat /\ MaxGone \in [BOOLEAN -> Nat] /\ GroupCapacity \in Nat
    /\ Free \notin Session /\ Reconciler \notin Session
    /\ DOMAIN Owner = Session /\ Pair \subseteq User

VARIABLES
    dm,       \* the room is a direct room, of Pair
    member,   \* users allowed() admits to calls of the room
    alive,    \* sessions neither revoked nor expired
    call,     \* room_calls
    rows,     \* call_participants, in the order of insertion
    lock,     \* per call: the join() that holds its row lock
    req,      \* per actor: what its request, or the reconciler's end(), does next
    sfu,      \* the SFU: its rooms, and the rows whose clients are connected
    rec,      \* the reconciler
    push      \* calls rung, missed-call jobs queued, missed calls pushed

people == <<dm, member, alive>>
vars   == <<people, call, rows, lock, req, sfu, rec, push>>

-------------------------------------------------------------------------------
(* Types *)

(* A call being inserted is "opening"; "void" if that was rolled back.     *)
(* old: older than 90 s; before, 30 s and 60 s may have gone by or not.    *)
CallRow == [phase : {"none", "opening", "open", "ended", "void"}, by : User \cup {Free},
            connected : BOOLEAN, old : BOOLEAN]
NoCall == [phase |-> "none", by |-> Free, connected |-> FALSE, old |-> FALSE]

Participant == [call : Call, session : Session, left : BOOLEAN]

(* What a request still has to do; declined is what ringEnded() is told.   *)
Doing == [pc : {"idle", "starting", "joining", "declining", "mark", "delete", "drop"},
          call : Call \cup {0}, row : 0..MaxRows, declined : BOOLEAN]
Idle == [pc |-> "idle", call |-> 0, row |-> 0, declined |-> FALSE]
Do(pc, c) == [Idle EXCEPT !.pc = pc, !.call = c]

Reconcile == [pc : {"idle", "rooms", "purge", "look", "sift", "judge", "end", "sweep"}, names : SUBSET Call,
              todo : SUBSET Call, call : Call \cup {0}, seen : SUBSET (1..MaxRows)]
Resting == [pc |-> "idle", names |-> {}, todo |-> {}, call |-> 0, seen |-> {}]

TypeOK ==
    /\ dm \in BOOLEAN /\ member \subseteq User /\ alive \subseteq Session
    /\ call \in [Call -> CallRow]
    /\ rows \in Seq(Participant) /\ Len(rows) <= MaxRows
    /\ lock \in [Call -> Session \cup {Free}]
    /\ req \in [Actor -> Doing]
    /\ sfu \in [rooms : SUBSET Call, in : SUBSET (DOMAIN rows)]
    /\ \A p \in sfu.in : rows[p].call \in sfu.rooms
    /\ rec \in Reconcile
    /\ push \in [rung : SUBSET Call, jobs : SUBSET Call, missed : SUBSET Call]

Members == IF dm THEN Pair ELSE User

Init ==
    /\ dm \in (IF Pair = {} THEN {FALSE} ELSE BOOLEAN)
    /\ member = Members /\ alive = Session
    /\ call = [c \in Call |-> NoCall]
    /\ rows = <<>>
    /\ lock = [c \in Call |-> Free]
    /\ req = [a \in Actor |-> Idle]
    /\ sfu = [rooms |-> {}, in |-> {}]
    /\ rec = Resting
    /\ push = [rung |-> {}, jobs |-> {}, missed |-> {}]

-------------------------------------------------------------------------------
(* Helpers *)

capacity == IF dm THEN 2 ELSE GroupCapacity      \* CallCapacity::forRoom
UserOf(r) == Owner[rows[r].session]
RowsOf(c) == {r \in DOMAIN rows : rows[r].call = c}
Active(c) == {r \in RowsOf(c) : ~rows[r].left}
Connected(c) == sfu.in \cap RowsOf(c)
Open(c) == call[c].phase = "open"

(* participantAllowed(), with the call's ended_at as the caller read it.   *)
allowedRow(r) == ~rows[r].left /\ UserOf(r) \in member /\ rows[r].session \in alive

Leave(S) == [r \in DOMAIN rows |-> IF r \in S THEN [rows[r] EXCEPT !.left = TRUE] ELSE rows[r]]
Ended(c) == [call EXCEPT ![c].phase = "ended"]
WithoutRoom(c) == [sfu EXCEPT !.rooms = @ \ {c}]            \* mutant: clients stay
Without(c) == [sfu EXCEPT !.rooms = @ \ {c}, !.in = @ \ RowsOf(c)]
Become(a, doing) == req' = [req EXCEPT ![a] = doing]

(* A request begins: the session is authenticated, its user allowed.       *)
Request(s) ==
    /\ req[s] = Idle /\ s \in alive /\ Owner[s] \in member
    /\ Cardinality({t \in Session : req[t] # Idle}) < MaxBusy

-------------------------------------------------------------------------------
(* start() *)

RoomLocked == \E s \in Session : req[s].pc = "starting"
NoOpenCall == \A c \in Call : call[c].phase # "open"

(* Under the room lock: no open call is found, a row is inserted, the SFU  *)
(* makes the room.  (If one is open it is returned; if the SFU refuses, the *)
(* transaction is rolled back.)                                            *)
start(s, c) ==
    /\ Request(s) /\ ~RoomLocked /\ NoOpenCall
    /\ call[c].phase = "none" /\ \A d \in Call : d < c => call[d].phase # "none"
    /\ call' = [call EXCEPT ![c] = [NoCall EXCEPT !.phase = "opening", !.by = Owner[s]]]
    /\ sfu' = [sfu EXCEPT !.rooms = @ \cup {c}]
    /\ Become(s, Do("starting", c))
    /\ UNCHANGED <<people, rows, lock, rec, push>>

(* The transaction commits, or rolls back although the SFU has the room.   *)
startEnds(s, phase) ==
    /\ req[s].pc = "starting"
    /\ call' = [call EXCEPT ![req[s].call].phase = phase]
    /\ Become(s, Idle)
    /\ UNCHANGED <<people, rows, lock, sfu, rec, push>>

-------------------------------------------------------------------------------
(* join() and leave() *)

LockIgnored(c) == TRUE                                      \* mutant: FOR UPDATE dropped
Unlocked(c) == lock[c] = Free

(* Joining again from the same session only renews updated_at, which the   *)
(* reconciler's grace reads: see sift.                                     *)
MayJoinUncounted(s, c) == \A r \in Active(c) : UserOf(r) # Owner[s]   \* mutant: no seat count
MayJoin(s, c) ==
    /\ \A r \in Active(c) : UserOf(r) # Owner[s]       \* nor on another device
    /\ Cardinality(Active(c)) < capacity

join(s, c) ==
    /\ Request(s) /\ Open(c) /\ Unlocked(c) /\ MayJoin(s, c)
    /\ Len(rows) + Cardinality({d \in Call : ~Unlocked(d)}) < MaxRows
    /\ lock' = [lock EXCEPT ![c] = s]
    /\ Become(s, Do("joining", c))
    /\ UNCHANGED <<people, call, rows, sfu, rec, push>>

joinCommits(s) ==
    LET c == req[s].call
    IN /\ req[s].pc = "joining"
       /\ rows' = Append(rows, [call |-> c, session |-> s, left |-> FALSE])
       /\ lock' = [lock EXCEPT ![c] = Free]
       /\ Become(s, Idle)
       /\ UNCHANGED <<people, call, sfu, rec, push>>

(* Mutant: whoever is still in the call that ends is forgotten.            *)
leaveAlone(s, c) ==
    /\ Request(s) /\ Unlocked(c)
    /\ \E r \in Active(c) :
        LET ends == dm \/ Active(c) = {r}
        IN /\ rows[r].session = s
           /\ rows' = Leave({r})
           /\ call' = IF ends THEN Ended(c) ELSE call
           /\ Become(s, IF ends THEN Do("delete", c) ELSE [Do("drop", c) EXCEPT !.row = r])
    /\ UNCHANGED <<people, lock, sfu, rec, push>>

(* The row is left; a direct call, or one nobody else is in, ends.         *)
leave(s, c) ==
    /\ Request(s) /\ Unlocked(c)
    /\ \E r \in Active(c) :
        LET ends == dm \/ Active(c) = {r}
        IN /\ rows[r].session = s
           /\ rows' = Leave(IF ends THEN Active(c) ELSE {r})
           /\ call' = IF ends THEN Ended(c) ELSE call
           /\ Become(s, IF ends THEN Do("delete", c) ELSE [Do("drop", c) EXCEPT !.row = r])
    /\ UNCHANGED <<people, lock, sfu, rec, push>>

-------------------------------------------------------------------------------
(* end(), and what follows a leave(): `a` is a session or the reconciler   *)

(* ended_at is written, whatever the call has become since it was loaded.  *)
EndCall(a, c, declined) ==
    /\ Unlocked(c)
    /\ call' = Ended(c)
    /\ Become(a, [Do("mark", c) EXCEPT !.declined = declined])

end(s, c) ==
    /\ Request(s) /\ call[c].phase \in {"open", "ended"} /\ call[c].by = Owner[s]
    /\ EndCall(s, c, FALSE)
    /\ UNCHANGED <<people, rows, lock, sfu, rec, push>>

(* connected_at is judged on the copy loaded here ...                      *)
decline(s, c) ==
    /\ Request(s) /\ call[c].phase \in {"open", "ended"} /\ call[c].by # Owner[s]
    /\ dm /\ ~call[c].connected
    /\ Become(s, Do("declining", c))
    /\ UNCHANGED <<people, call, rows, lock, sfu, rec, push>>

(* ... and the call is ended although it may have been connected meanwhile. *)
declineEnds(s) ==
    /\ req[s].pc = "declining" /\ EndCall(s, req[s].call, TRUE)
    /\ UNCHANGED <<people, rows, lock, sfu, rec, push>>

(* ... then left_at of whoever is in it ...                                *)
mark(a) ==
    /\ req[a].pc = "mark"
    /\ rows' = Leave(Active(req[a].call))
    /\ Become(a, [req[a] EXCEPT !.pc = "delete"])
    /\ UNCHANGED <<people, call, lock, sfu, rec, push>>

(* Whom start() rings, and ringEnded() tells.                              *)
Callee(c) == Pair \ {call[c].by}
Answered(c) == \E r \in RowsOf(c) : UserOf(r) \in Callee(c)
MayTell(a, c) == dm /\ ~req[a].declined /\ Callee(c) \subseteq member

(* ... then the SFU deletes the room (or fails to: see requestFails), and   *)
(* ringEnded() queues the missed-call job unless the call was connected;    *)
(* the copy of end() may be older than the write that made it so.          *)
deleteRoom(a) ==
    LET c == req[a].call
    IN /\ req[a].pc = "delete"
       /\ sfu' = Without(c)
       /\ \/ MayTell(a, c) /\ push' = [push EXCEPT !.jobs = @ \cup {c}]
          \/ (MayTell(a, c) => call[c].connected) /\ UNCHANGED push
       /\ Become(a, Idle)
       /\ UNCHANGED <<people, call, rows, lock, rec>>

(* (a leave() that did not end the call removes its participant instead)   *)
removeParticipant(s) ==
    /\ req[s].pc = "drop"
    /\ sfu' = [sfu EXCEPT !.in = @ \ {req[s].row}]
    /\ Become(s, Idle)
    /\ UNCHANGED <<people, call, rows, lock, rec, push>>

(* A request to the SFU failed: the answer is a 503 and the rest is skipped. *)
requestFails(a) ==
    /\ req[a].pc \in {"delete", "drop"}
    /\ Become(a, Idle)
    /\ rec' = IF a = Reconciler /\ rec.pc = "sweep" THEN Resting ELSE rec
    /\ UNCHANGED <<people, call, rows, lock, sfu, push>>

-------------------------------------------------------------------------------
(* The ring and missed-call jobs *)

NotifyIncomingCall(c) ==
    /\ Cardinality(push.rung \cup {c}) <= MaxRings
    /\ dm /\ Open(c) /\ ~call[c].connected /\ ~call[c].old
    /\ ~Answered(c) /\ Callee(c) \subseteq member
    /\ push' = [push EXCEPT !.rung = @ \cup {c}]
    /\ UNCHANGED <<people, call, rows, lock, req, sfu, rec>>

MissedIfRung(c) == call[c].phase = "ended" /\ c \in push.rung   \* mutant: not re-checked
Missed(c) == call[c].phase = "ended" /\ ~call[c].connected /\ c \in push.rung /\ ~Answered(c)

NotifyMissedCall(c) ==
    /\ c \in push.jobs
    /\ push' = [push EXCEPT !.jobs = @ \ {c}, !.missed = IF Missed(c) THEN @ \cup {c} ELSE @]
    /\ UNCHANGED <<people, call, rows, lock, req, sfu, rec>>

-------------------------------------------------------------------------------
(* The SFU and its clients, the people, the clock *)

(* authorizeMedia() lets the holder of a row's token in; the SFU has the   *)
(* room already, or refuses.                                               *)
connect(r) ==
    /\ Open(rows[r].call) /\ allowedRow(r)
    /\ rows[r].call \in sfu.rooms /\ Cardinality(Connected(rows[r].call)) < capacity
    /\ sfu' = [sfu EXCEPT !.in = @ \cup {r}]
    /\ UNCHANGED <<people, call, rows, lock, req, rec, push>>

disconnect(r) ==
    /\ r \in sfu.in
    /\ sfu' = [sfu EXCEPT !.in = @ \ {r}]
    /\ UNCHANGED <<people, call, rows, lock, req, rec, push>>

(* empty_timeout, departure_timeout                                        *)
closeEmpty(c) ==
    /\ c \in sfu.rooms /\ Connected(c) = {}
    /\ sfu' = Without(c)
    /\ UNCHANGED <<people, call, rows, lock, req, rec, push>>

Gone == Cardinality(Members \ member) + Cardinality(Session \ alive)

removeMember(u) ==
    /\ Gone < MaxGone[dm] /\ u \in member /\ member' = member \ {u}
    /\ UNCHANGED <<dm, alive, call, rows, lock, req, sfu, rec, push>>

revokeSession(s) ==
    /\ Gone < MaxGone[dm] /\ s \in alive /\ alive' = alive \ {s}
    /\ UNCHANGED <<dm, member, call, rows, lock, req, sfu, rec, push>>

age(c) ==
    /\ Open(c) /\ ~call[c].old
    /\ call' = [call EXCEPT ![c].old = TRUE]
    /\ UNCHANGED <<people, rows, lock, req, sfu, rec, push>>

-------------------------------------------------------------------------------
(* ReconcileCalls.  The scheduler runs one at a time; a run whose first     *)
(* request fails does nothing.                                             *)

AtRest(pc) == rec.pc = pc /\ req[Reconciler] = Idle

ListRooms ==
    /\ AtRest("idle")
    /\ rec' = [Resting EXCEPT !.pc = "rooms", !.names = sfu.rooms, !.todo = sfu.rooms]
    /\ UNCHANGED <<people, call, rows, lock, req, sfu, push>>

(* Mutant: an ended call is no business of the reconciler.                 *)
loadOpen(c) ==
    /\ AtRest("rooms") /\ c \in rec.todo
    /\ rec' = [rec EXCEPT !.pc = IF Open(c) THEN "look" ELSE "rooms", !.call = c,
                          !.todo = @ \ {c}]
    /\ UNCHANGED <<people, call, rows, lock, req, sfu, push>>

(* The row of the next room is loaded; none is found if it is not yet, or  *)
(* never was, committed.                                                   *)
load(c) ==
    /\ AtRest("rooms") /\ c \in rec.todo
    /\ rec' = [rec EXCEPT !.pc = IF Open(c) THEN "look" ELSE "purge", !.call = c,
                          !.todo = @ \ {c}]
    /\ UNCHANGED <<people, call, rows, lock, req, sfu, push>>

NextRoom == rec' = [rec EXCEPT !.pc = "rooms", !.call = 0, !.seen = {}]

purge ==
    /\ rec.pc = "purge" /\ sfu' = Without(rec.call) /\ NextRoom
    /\ UNCHANGED <<people, call, rows, lock, req, push>>

(* Rows that are no longer allowed are left; then the SFU says who is there. *)
Evict == Leave({r \in Active(rec.call) : ~allowedRow(r)})

ListParticipants ==
    /\ rec.pc = "look" /\ rows' = Evict
    /\ rec' = [rec EXCEPT !.pc = "sift", !.seen = Connected(rec.call)]
    /\ UNCHANGED <<people, call, lock, req, sfu, push>>

BannedIfRemoved == {r \in rec.seen : UserOf(r) \notin member}   \* mutant: logged out, stays
Banned == {r \in rec.seen : ~allowedRow(r)}
Present == rec.seen \ Banned

Absent == Active(rec.call) \ Present

(* Those not allowed are removed; two ACTIVE make the call connected (a     *)
(* client listed may still be JOINING); of the absent ones those are left   *)
(* whose updated_at, renewed by a join and by being present here, is older  *)
(* than the grace of 30 s.                                                  *)
siftWith(Stale) ==
    /\ rec.pc = "sift"
    /\ rows' = Leave(Banned \cup Stale)
    /\ sfu' = [sfu EXCEPT !.in = @ \ Banned]
    /\ \E twoActive \in {FALSE, Cardinality(rec.seen) >= 2} :
          call' = [call EXCEPT ![rec.call].connected = @ \/ twoActive]
    /\ rec' = [rec EXCEPT !.pc = "judge", !.seen = {}]
    /\ UNCHANGED <<people, lock, req, push>>

sift == \E Stale \in SUBSET Absent : siftWith(Stale)

(* A request for this room fails: the next room is looked at.              *)
roomFails ==
    /\ \/ rec.pc = "purge" /\ UNCHANGED <<rows, sfu>>
       \/ rec.pc = "look" /\ rows' = Evict /\ UNCHANGED sfu
       \/ /\ rec.pc = "sift"
          /\ \E r \in Banned, S \in SUBSET Banned :
                /\ r \notin S
                /\ rows' = Leave(S \cup {r}) /\ sfu' = [sfu EXCEPT !.in = @ \ S]
    /\ NextRoom
    /\ UNCHANGED <<people, call, lock, req, push>>

(* One of two has left; nobody answers or nobody is there, for long enough. *)
(* (The room and its workspace stay available.)                             *)
OneLeft(c) == dm /\ \E r \in RowsOf(c) : rows[r].left
DesertedIfEmpty(c) == Active(c) = {}                        \* mutant: no ring timeout
Deserted(c) == (dm /\ ~call[c].connected) \/ Active(c) = {}

judge ==
    /\ rec.pc = "judge"
    /\ \/ (OneLeft(rec.call) \/ Deserted(rec.call)) /\ rec' = [rec EXCEPT !.pc = "end"]
       \/ /\ ~OneLeft(rec.call) /\ (Deserted(rec.call) => ~call[rec.call].old)
          /\ NextRoom
    /\ UNCHANGED <<people, call, rows, lock, req, sfu, push>>

endOver ==
    /\ rec.pc = "end" /\ EndCall(Reconciler, rec.call, FALSE) /\ NextRoom
    /\ UNCHANGED <<people, rows, lock, sfu, push>>

(* Calls older than 90 s whose room was not listed are ended too.          *)
LostIfConnected == {c \in Call : Open(c) /\ call[c].connected /\ c \notin rec.names}   \* mutant
Lost == {c \in Call : Open(c) /\ call[c].old /\ c \notin rec.names}

sweep ==
    /\ (AtRest("rooms") /\ rec.todo = {}) \/ AtRest("sweep")
    /\ IF Lost = {}
       THEN rec' = Resting /\ UNCHANGED <<call, req>>
       ELSE /\ \E c \in Lost : EndCall(Reconciler, c, FALSE)
            /\ rec' = [rec EXCEPT !.pc = "sweep"]
    /\ UNCHANGED <<people, rows, lock, sfu, push>>

-------------------------------------------------------------------------------
(* Specification *)

Finish(a) ==
    \/ mark(a) \/ deleteRoom(a) \/ requestFails(a)
    \/ a \in Session /\ (joinCommits(a) \/ declineEnds(a) \/ removeParticipant(a)
                           \/ \E phase \in {"open", "void"} : startEnds(a, phase))

ReconcileCalls ==
    \/ ListRooms \/ (\E c \in Call : load(c)) \/ purge \/ ListParticipants
    \/ sift \/ judge \/ endOver \/ sweep \/ roomFails

Next ==
    \/ \E s \in Session, c \in Call :
          start(s, c) \/ join(s, c) \/ leave(s, c) \/ end(s, c) \/ decline(s, c)
    \/ \E a \in Actor : Finish(a)
    \/ ReconcileCalls
    \/ \E c \in Call : NotifyIncomingCall(c) \/ NotifyMissedCall(c) \/ closeEmpty(c) \/ age(c)
    \/ \E r \in DOMAIN rows : connect(r) \/ disconnect(r)
    \/ (\E u \in Removable : removeMember(u)) \/ (\E s \in Revocable : revokeSession(s))

Spec == Init /\ [][Next]_vars

(* Requests end, the scheduler runs the reconciler, the clock advances, an  *)
(* SFU asked again and again answers at last, and a row that is absent      *)
(* each time is found stale at last.                                       *)
Fairness ==
    /\ \A a \in Actor : WF_vars(Finish(a))
    /\ WF_vars(ReconcileCalls)
    /\ SF_vars(purge) /\ SF_vars(ListParticipants) /\ SF_vars(siftWith(Absent))
    /\ \A c \in Call : WF_vars(age(c)) /\ SF_vars(load(c))

LiveSpec == Spec /\ Fairness

-------------------------------------------------------------------------------
(* Properties *)

(* A call never seats more than its capacity, and nobody on two devices,   *)
(* whatever joins, leaves and reconciliations cross (CallService::join,    *)
(* under the row lock of the call).                                        *)
SeatsKept ==
    \A c \in Call :
        /\ Cardinality(Active(c)) <= capacity
        /\ \A r, q \in Active(c) : UserOf(r) = UserOf(q) => r = q

(* Once whoever ended a call has marked its participants, none of its rows *)
(* is active: a join cannot slip between the two statements of             *)
(* CallService::end.                                                       *)
EndedIsEmpty ==
    \A c \in Call :
        call[c].phase = "ended" /\ (\A a \in Actor : ~(req[a].pc = "mark" /\ req[a].call = c))
            => Active(c) = {}

(* "Missed call" is pushed only to a callee who was rung and who neither   *)
(* had joined nor can still join (NotifyMissedCall).                       *)
MissedIsTrue ==
    \A c \in push.missed : c \in push.rung /\ call[c].phase = "ended" /\ ~Answered(c)

(* The SFU room of a call that ended, or was never committed, is deleted   *)
(* in the end, though the request of end() or leave() may have failed.     *)
RoomsAreDeleted ==
    \A c \in Call : (call[c].phase \in {"ended", "void"} /\ c \in sfu.rooms) ~> (c \notin sfu.rooms)

(* Who was removed from the room, or logged out, loses the media of a call *)
(* it is connected to (ReconcileCalls: the token itself lives for hours).  *)
EvictedLoseMedia ==
    \A r \in 1..MaxRows :
        (r \in sfu.in /\ ~allowedRow(r)) ~> (r \notin sfu.in)

(* A call nobody is connected to does not stay open for ever, which would  *)
(* keep the room from being called again.                                  *)
AbandonedCallsEnd ==
    \A c \in Call : (Open(c) /\ Connected(c) = {}) ~> (~Open(c) \/ Connected(c) # {})

(* A direct call that is not answered ends though the caller stays on.     *)
UnansweredEnds ==
    \A c \in Call : (dm /\ Open(c) /\ ~Answered(c)) ~> (~Open(c) \/ Answered(c))

===============================================================================
