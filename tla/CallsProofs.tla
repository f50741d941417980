------------------------------- MODULE CallsProofs -------------------------------
(***************************************************************************)
(* Proofs about Calls, for any number of sessions, users, calls and rows,  *)
(* and any capacity.                                                       *)
(***************************************************************************)
EXTENDS Calls, FiniteSetTheorems, TLAPS

InProgress(c) == call[c].phase \in {"opening", "open"}
Begun(c) == call[c].phase \in {"open", "ended"}

(* The room has one call at a time (CallService::start, under the row lock *)
(* of the room).                                                           *)
OneCall == \A c, d \in Call : InProgress(c) /\ InProgress(d) => c = d

(* What a request has checked under a lock is true until it commits.       *)
ActorOK(a) ==
    /\ req[a].pc # "idle" => req[a].call \in Call
    /\ req[a].pc \in {"starting", "joining", "declining", "drop"} => a \in Session
    /\ req[a].pc = "declining" => Begun(req[a].call)
    /\ req[a].pc = "starting" => call[req[a].call].phase = "opening"
    /\ req[a].pc = "joining" =>
          lock[req[a].call] = a /\ Open(req[a].call) /\ MayJoin(a, req[a].call)

LocksOK ==
    /\ \A c \in Call : lock[c] # Free => req[lock[c]].pc = "joining" /\ req[lock[c]].call = c
    /\ \A s, t \in Session : req[s].pc = "starting" /\ req[t].pc = "starting" => s = t
    /\ \A c \in Call : call[c].phase = "opening" => \E s \in Session : req[s].pc = "starting" /\ req[s].call = c

RowsOK == \A r \in DOMAIN rows : Begun(rows[r].call)

(* The reconciler ends no call with one request before another is done.    *)
ReconcilerOK ==
    /\ rec.pc \notin {"idle", "rooms", "sweep"} => rec.call \in Call /\ req[Reconciler] = Idle
    /\ rec.pc \in {"look", "sift", "judge", "end"} => Begun(rec.call)

(* Every row there is, and every one a join() is about to add, is counted. *)
RowBound == Len(rows) + Cardinality({d \in Call : ~Unlocked(d)}) <= MaxRows

IInv ==
    /\ TypeOK
    /\ \A a \in Actor : ActorOK(a)
    /\ LocksOK
    /\ RowsOK
    /\ RowBound
    /\ ReconcilerOK
    /\ OneCall
    /\ SeatsKept
    /\ EndedIsEmpty
    /\ MissedIsTrue

-------------------------------------------------------------------------------
(* The rows *)

(* No row is added, those of S are left.                                   *)
RowsLeft(S) ==
    /\ rows' \in Seq(Participant) /\ Len(rows') = Len(rows) /\ DOMAIN rows' = DOMAIN rows
    /\ \A r \in DOMAIN rows : rows'[r].call = rows[r].call /\ rows'[r].session = rows[r].session
    /\ \A c : RowsOf(c)' = RowsOf(c) /\ Active(c)' = Active(c) \ S

LEMMA RowFacts ==
    ASSUME TypeOK
    PROVE  /\ DOMAIN rows = 1..Len(rows) /\ Len(rows) \in Nat
           /\ \A r \in DOMAIN rows : rows[r] \in Participant
           /\ \A c : Active(c) \subseteq RowsOf(c) /\ RowsOf(c) \subseteq DOMAIN rows
           /\ \A c : IsFiniteSet(Active(c)) /\ Cardinality(Active(c)) \in Nat
<1>1. DOMAIN rows = 1..Len(rows) /\ Len(rows) \in Nat /\ \A r \in DOMAIN rows : rows[r] \in Participant
  BY DEF TypeOK
<1>2. \A c : Active(c) \subseteq RowsOf(c) /\ RowsOf(c) \subseteq DOMAIN rows
  BY DEF Active, RowsOf
<1>3. IsFiniteSet(1..Len(rows))
  BY <1>1, FS_Interval
<1>4. \A c : Active(c) \subseteq 1..Len(rows)
  BY <1>1, <1>2
<1>5. \A c : IsFiniteSet(Active(c))
  BY <1>3, <1>4, FS_Subset
<1> QED
  BY <1>1, <1>2, <1>5, FS_CardinalityType

LEMMA LeaveRows ==
    ASSUME TypeOK, NEW S, rows' = Leave(S)
    PROVE  RowsLeft(S)
<1>1. DOMAIN rows = 1..Len(rows) /\ Len(rows) \in Nat /\ \A r \in DOMAIN rows : rows[r] \in Participant
  BY RowFacts
<1>2. \A r \in DOMAIN rows :
        LET row == IF r \in S THEN [rows[r] EXCEPT !.left = TRUE] ELSE rows[r]
        IN  /\ row \in Participant /\ row.call = rows[r].call /\ row.session = rows[r].session
            /\ row.left <=> (rows[r].left \/ r \in S)
  BY <1>1 DEF Participant
<1>3. /\ rows' = [r \in 1..Len(rows) |-> IF r \in S THEN [rows[r] EXCEPT !.left = TRUE] ELSE rows[r]]
      /\ DOMAIN rows' = DOMAIN rows
  BY <1>1 DEF Leave
<1>4. \A r \in DOMAIN rows :
        /\ rows'[r] \in Participant /\ rows'[r].call = rows[r].call /\ rows'[r].session = rows[r].session
        /\ rows'[r].left <=> (rows[r].left \/ r \in S)
  BY <1>1, <1>2, <1>3
<1>5. rows' \in Seq(Participant) /\ Len(rows') = Len(rows)
  BY <1>1, <1>3, <1>4
<1>6. \A c : RowsOf(c)' = RowsOf(c) /\ Active(c)' = Active(c) \ S
  BY <1>3, <1>4 DEF RowsOf, Active
<1> QED
  BY <1>3, <1>4, <1>5, <1>6 DEF RowsLeft

LEMMA SameRows == ASSUME TypeOK, UNCHANGED rows PROVE RowsLeft({})
BY DEF TypeOK, RowsLeft, RowsOf, Active

(* Where rows are only left, seats are only vacated.                       *)
LEMMA SeatsVacated ==
    ASSUME TypeOK, TypeOK', UNCHANGED dm, NEW S, RowsLeft(S)
    PROVE  /\ SeatsKept => SeatsKept'
           /\ \A s, c : MayJoin(s, c) => MayJoin(s, c)'
<1>1. \A c : /\ Active(c)' \subseteq Active(c) /\ Active(c) \subseteq DOMAIN rows
             /\ Cardinality(Active(c)') <= Cardinality(Active(c))
             /\ Cardinality(Active(c)) \in Nat /\ Cardinality(Active(c)') \in Nat
  <2> SUFFICES ASSUME NEW c
               PROVE  /\ Active(c)' \subseteq Active(c) /\ Active(c) \subseteq DOMAIN rows
                      /\ Cardinality(Active(c)') <= Cardinality(Active(c))
                      /\ Cardinality(Active(c)) \in Nat /\ Cardinality(Active(c)') \in Nat
    OBVIOUS
  <2>1. Active(c)' \subseteq Active(c) /\ Active(c) \subseteq DOMAIN rows
    BY RowFacts DEF RowsLeft
  <2>2. IsFiniteSet(Active(c)) /\ Cardinality(Active(c)) \in Nat
    BY RowFacts
  <2>3. Cardinality(Active(c)') <= Cardinality(Active(c)) /\ IsFiniteSet(Active(c)')
    BY <2>1, <2>2, FS_Subset
  <2> QED
    BY <2>1, <2>2, <2>3, FS_CardinalityType
<1>2. \A r \in DOMAIN rows : UserOf(r)' = UserOf(r)
  BY DEF UserOf, RowsLeft
<1>3. capacity' = capacity /\ capacity \in Nat
  BY CallsAssumption DEF capacity
<1>4. SeatsKept => SeatsKept'
  <2> SUFFICES ASSUME SeatsKept, NEW c \in Call
               PROVE  /\ Cardinality(Active(c)') <= capacity'
                      /\ \A r, q \in Active(c)' : UserOf(r)' = UserOf(q)' => r = q
    BY DEF SeatsKept
  <2>1. Cardinality(Active(c)) <= capacity /\ \A r, q \in Active(c) : UserOf(r) = UserOf(q) => r = q
    BY DEF SeatsKept
  <2> QED
    BY <1>1, <1>2, <1>3, <2>1
<1>5. ASSUME NEW s, NEW c, MayJoin(s, c) PROVE MayJoin(s, c)'
  BY <1>1, <1>2, <1>3, <1>5 DEF MayJoin
<1> QED
  BY <1>4, <1>5

-------------------------------------------------------------------------------
(* What the steps do to requests and calls *)

LEMMA BecomeFacts ==
    ASSUME TypeOK, NEW a \in Actor, NEW doing \in Doing, Become(a, doing)
    PROVE  /\ req' \in [Actor -> Doing] /\ req'[a] = doing
           /\ \A b \in Actor : b # a => req'[b] = req[b]
BY DEF TypeOK, Become

LEMMA DoFacts ==
    /\ Idle \in Doing /\ Idle.pc = "idle"
    /\ \A c \in Call : \A pc \in {"starting", "joining", "declining", "mark", "delete", "drop"} :
          /\ Do(pc, c) \in Doing /\ Do(pc, c).pc = pc /\ Do(pc, c).call = c
    /\ \A c \in Call : \A b \in BOOLEAN :
          LET d == [Do("mark", c) EXCEPT !.declined = b]
          IN  d \in Doing /\ d.pc = "mark" /\ d.call = c
    /\ \A c \in Call : \A r \in 0..MaxRows :
          LET d == [Do("drop", c) EXCEPT !.row = r]
          IN  d \in Doing /\ d.pc = "drop" /\ d.call = c
<1>1. 0 \in 0..MaxRows
  BY CallsAssumption
<1>2. Idle \in Doing /\ Idle.pc = "idle"
  BY <1>1 DEF Doing, Idle
<1>4. \A c \in Call : \A pc \in {"starting", "joining", "declining", "mark", "delete", "drop"} :
          Do(pc, c) \in Doing /\ Do(pc, c).pc = pc /\ Do(pc, c).call = c
  <2> SUFFICES ASSUME NEW c \in Call, NEW pc \in {"starting", "joining", "declining", "mark", "delete", "drop"}
               PROVE  Do(pc, c) \in Doing /\ Do(pc, c).pc = pc /\ Do(pc, c).call = c
    OBVIOUS
  <2>1. pc \in {"idle", "starting", "joining", "declining", "mark", "delete", "drop"} /\ c \in Call \cup {0}
    OBVIOUS
  <2> DEFINE d == [Idle EXCEPT !.pc = pc, !.call = c]
  <2>2. d \in Doing /\ d.pc = pc /\ d.call = c
    BY <1>2, <2>1 DEF Doing
  <2>3. Do(pc, c) = d
    BY DEF Do
  <2> HIDE DEF d
  <2> QED
    BY <2>2, <2>3
<1>5. ASSUME NEW c \in Call, NEW b \in BOOLEAN
      PROVE  LET d == [Do("mark", c) EXCEPT !.declined = b]
             IN  d \in Doing /\ d.pc = "mark" /\ d.call = c
  BY <1>4 DEF Doing
<1>6. ASSUME NEW c \in Call, NEW r \in 0..MaxRows
      PROVE  LET d == [Do("drop", c) EXCEPT !.row = r]
             IN  d \in Doing /\ d.pc = "drop" /\ d.call = c
  BY <1>4 DEF Doing
<1> QED
  BY <1>2, <1>4, <1>5, <1>6

LEMMA EndedFacts ==
    ASSUME TypeOK, NEW c \in Call, call' = Ended(c)
    PROVE  /\ call' \in [Call -> CallRow] /\ call'[c].phase = "ended" /\ call'[c].by = call[c].by
           /\ \A d \in Call : d # c => call'[d] = call[d]
<1>1. call \in [Call -> CallRow] /\ call[c] \in CallRow
  BY DEF TypeOK
<1>2. call' = [call EXCEPT ![c] = [call[c] EXCEPT !.phase = "ended"]]
  BY <1>1 DEF Ended
<1>3. LET e == [call[c] EXCEPT !.phase = "ended"]
      IN  e \in CallRow /\ e.phase = "ended" /\ e.by = call[c].by
  BY <1>1 DEF CallRow
<1> QED
  BY <1>1, <1>2, <1>3

-------------------------------------------------------------------------------
(* Most steps leave rows and end calls, and check nothing under a lock     *)

PhasesKept ==
    \A c \in Call : /\ call'[c].by = call[c].by
                    /\ \/ call'[c].phase = call[c].phase
                       \/ Begun(c) /\ Unlocked(c) /\ call'[c].phase = "ended"

ActorsKept ==
    \A a \in Actor :
        \/ req'[a] = req[a]
        \/ /\ req[a].pc \notin {"joining", "starting"}
           /\ req'[a].pc \in {"idle", "declining", "mark", "delete", "drop"}
           /\ req'[a].pc # "idle" => req'[a].call \in Call
           /\ req'[a].pc \in {"declining", "drop"} => a \in Session
           /\ req'[a].pc = "declining" => Begun(req'[a].call)

PushKept ==
    /\ push.rung \subseteq push'.rung
    /\ \A c \in push'.missed : c \in push.missed \/ Missed(c)

Marker(c) == \E a \in Actor : req[a].pc = "mark" /\ req[a].call = c

(* A call that is ended and has no marker was so before, or is empty.      *)
EmptyKept ==
    \A c \in Call :
        call'[c].phase = "ended" /\ ~Marker(c)'
            => (call[c].phase = "ended" /\ ~Marker(c)) \/ Active(c)' = {}

LEMMA QuietStep ==
    ASSUME IInv, TypeOK', ReconcilerOK', NEW S, RowsLeft(S), UNCHANGED <<dm, lock>>,
           PhasesKept, ActorsKept, PushKept, EmptyKept
    PROVE  IInv'
<1>1. /\ TypeOK /\ LocksOK /\ OneCall /\ SeatsKept /\ EndedIsEmpty /\ MissedIsTrue
      /\ RowsOK /\ RowBound /\ \A a \in Actor : ActorOK(a)
  BY DEF IInv
<1>2. Session \subseteq Actor /\ \A c \in Call : lock[c] # Free => lock[c] \in Session
  BY <1>1 DEF Actor, TypeOK
<1>3. (\A s, c : MayJoin(s, c) => MayJoin(s, c)') /\ SeatsKept'
  BY <1>1, SeatsVacated
<1>4. \A c \in Call : call[c].phase = "opening" <=> call'[c].phase = "opening"
  BY DEF PhasesKept, Begun
<1>5. \A c \in Call : Begun(c) => Begun(c)'
  BY DEF PhasesKept, Begun
<1>6. \A c \in Call : Open(c) /\ lock[c] # Free => Open(c)'
  BY DEF PhasesKept, Unlocked, Open
<1>7. \A c \in Call : call[c].phase = "ended" => call'[c].phase = "ended"
  BY DEF PhasesKept
<1>8. ASSUME NEW a \in Actor PROVE ActorOK(a)'
  <2>1. ActorOK(a)
    BY <1>1
  <2>2. CASE req'[a] = req[a]
    <3>1. req[a].pc = "joining" => lock[req[a].call] # Free
      BY <2>1, CallsAssumption DEF ActorOK
    <3>2. req[a].pc = "declining" => Begun(req[a].call)'
      BY <2>1, <2>2, <1>5 DEF ActorOK
    <3> QED
      BY <2>1, <2>2, <3>1, <3>2, <1>3, <1>4, <1>6 DEF ActorOK
  <2>3. CASE /\ req'[a].pc \in {"idle", "declining", "mark", "delete", "drop"}
             /\ req'[a].pc # "idle" => req'[a].call \in Call
             /\ req'[a].pc \in {"declining", "drop"} => a \in Session
             /\ req'[a].pc = "declining" => Begun(req'[a].call)
    <3>1. req'[a].pc = "declining" => call'[req'[a].call].phase \in {"open", "ended"}
      BY <2>3, <1>5 DEF Begun
    <3> QED
      BY <2>3, <3>1 DEF ActorOK, Begun
  <2> QED
    BY <2>2, <2>3 DEF ActorsKept
<1>9. \A a \in Actor : req[a].pc \in {"joining", "starting"} \/ req'[a].pc \in {"joining", "starting"}
                          => req'[a] = req[a]
  BY DEF ActorsKept
<1>10. LocksOK'
  <2>1. \A c \in Call : lock'[c] # Free => req'[lock'[c]].pc = "joining" /\ req'[lock'[c]].call = c
    BY <1>1, <1>2, <1>9 DEF LocksOK
  <2>2. \A s, t \in Session : req'[s].pc = "starting" /\ req'[t].pc = "starting" => s = t
    BY <1>1, <1>2, <1>9 DEF LocksOK
  <2>3. \A c \in Call : call'[c].phase = "opening" => \E s \in Session : req'[s].pc = "starting" /\ req'[s].call = c
    BY <1>1, <1>2, <1>4, <1>9 DEF LocksOK
  <2> QED
    BY <2>1, <2>2, <2>3 DEF LocksOK
<1>11. RowsOK'
  <2>1. \A r \in DOMAIN rows : rows[r].call \in Call
    BY <1>1, RowFacts DEF Participant
  <2> QED
    BY <1>1, <1>5, <2>1 DEF RowsOK, RowsLeft
<1>12. RowBound'
  BY <1>1 DEF RowBound, RowsLeft, Unlocked
<1>13. OneCall'
  BY <1>1 DEF OneCall, InProgress, PhasesKept, Begun
<1>14. EndedIsEmpty'
  <2> SUFFICES ASSUME NEW c \in Call, call'[c].phase = "ended", ~Marker(c)'
               PROVE  Active(c)' = {}
    BY DEF EndedIsEmpty, Marker
  <2>1. call[c].phase = "ended" /\ ~Marker(c) => Active(c) = {}
    BY <1>1 DEF EndedIsEmpty, Marker
  <2>2. Active(c)' = Active(c) \ S
    BY DEF RowsLeft
  <2> QED
    BY <2>1, <2>2 DEF EmptyKept
<1>15. MissedIsTrue'
  <2> SUFFICES ASSUME NEW c \in push'.missed
               PROVE  c \in push'.rung /\ call'[c].phase = "ended" /\ ~Answered(c)'
    BY DEF MissedIsTrue
  <2>1. c \in Call
    BY DEF TypeOK
  <2>2. c \in push.rung /\ call[c].phase = "ended" /\ ~Answered(c)
    BY <1>1 DEF PushKept, Missed, MissedIsTrue
  <2>3. Callee(c)' = Callee(c)
    BY <2>1 DEF Callee, PhasesKept
  <2>4. RowsOf(c)' = RowsOf(c) /\ \A r \in RowsOf(c) : UserOf(r)' = UserOf(r)
    BY DEF RowsLeft, RowsOf, UserOf
  <2>5. Answered(c)' <=> Answered(c)
    BY <2>3, <2>4 DEF Answered
  <2> QED
    BY <1>7, <2>1, <2>2, <2>5 DEF PushKept
<1> QED
  BY <1>3, <1>8, <1>10, <1>11, <1>12, <1>13, <1>14, <1>15 DEF IInv

(* What a step does to the SFU, where rows are only left.                  *)
SfuChange ==
    \/ UNCHANGED sfu
    \/ \E c \in Call : sfu' = [sfu EXCEPT !.rooms = @ \cup {c}]
    \/ \E c \in Call : sfu' = Without(c)
    \/ \E P : sfu' = [sfu EXCEPT !.in = @ \ P]
    \/ \E r \in DOMAIN rows : rows[r].call \in sfu.rooms /\ sfu' = [sfu EXCEPT !.in = @ \cup {r}]

LEMMA SfuStep ==
    ASSUME TypeOK, NEW S, RowsLeft(S), SfuChange
    PROVE  /\ sfu' \in [rooms : SUBSET Call, in : SUBSET (DOMAIN rows')]
           /\ \A p \in sfu'.in : rows'[p].call \in sfu'.rooms
<1>1. sfu \in [rooms : SUBSET Call, in : SUBSET (DOMAIN rows)] /\ \A p \in sfu.in : rows[p].call \in sfu.rooms
  BY DEF TypeOK
<1>2. DOMAIN rows' = DOMAIN rows /\ \A r \in DOMAIN rows : rows'[r].call = rows[r].call
  BY DEF RowsLeft
<1>3. CASE UNCHANGED sfu
  BY <1>1, <1>2, <1>3
<1>4. CASE \E c \in Call : sfu' = [sfu EXCEPT !.rooms = @ \cup {c}]
  BY <1>1, <1>2, <1>4
<1>5. ASSUME NEW c \in Call, sfu' = Without(c)
      PROVE  /\ sfu' \in [rooms : SUBSET Call, in : SUBSET (DOMAIN rows')]
             /\ \A p \in sfu'.in : rows'[p].call \in sfu'.rooms
  <2>1. sfu' \in [rooms : SUBSET Call, in : SUBSET (DOMAIN rows)]
        /\ sfu'.rooms = sfu.rooms \ {c} /\ sfu'.in = sfu.in \ RowsOf(c)
    BY <1>1, <1>5 DEF Without
  <2>2. \A p \in sfu'.in : rows[p].call \in sfu'.rooms
    BY <1>1, <2>1 DEF RowsOf
  <2> QED
    BY <1>2, <2>1, <2>2
<1>6. CASE \E P : sfu' = [sfu EXCEPT !.in = @ \ P]
  BY <1>1, <1>2, <1>6
<1>7. CASE \E r \in DOMAIN rows : rows[r].call \in sfu.rooms /\ sfu' = [sfu EXCEPT !.in = @ \cup {r}]
  BY <1>1, <1>2, <1>7
<1> QED
  BY <1>3, <1>4, <1>5, <1>6, <1>7 DEF SfuChange

PushType == push \in [rung : SUBSET Call, jobs : SUBSET Call, missed : SUBSET Call]

LEMMA QuietType ==
    ASSUME TypeOK, NEW S, RowsLeft(S), UNCHANGED <<dm, lock>>, SfuChange,
           member' \subseteq member, alive' \subseteq alive,
           call' \in [Call -> CallRow], req' \in [Actor -> Doing], rec' \in Reconcile, PushType'
    PROVE  TypeOK'
<1>1. rows' \in Seq(Participant) /\ Len(rows') <= MaxRows
  BY DEF TypeOK, RowsLeft
<1> QED
  BY <1>1, SfuStep DEF TypeOK, PushType

(* What is unchanged keeps what it keeps.                                  *)
LEMMA Unchanged ==
    /\ UNCHANGED call => PhasesKept
    /\ UNCHANGED req => ActorsKept
    /\ UNCHANGED <<call, req>> => EmptyKept
    /\ UNCHANGED push => PushKept
<1>1. UNCHANGED <<call, req>> => EmptyKept
  BY DEF EmptyKept, Marker
<1> QED
  BY <1>1 DEF PhasesKept, ActorsKept, PushKept

LEMMA PeopleStep ==
    ASSUME IInv, \/ \E u \in Removable : removeMember(u)
                 \/ \E s \in Revocable : revokeSession(s)
    PROVE  IInv'
<1>1. member' \subseteq member /\ alive' \subseteq alive /\ UNCHANGED <<dm, call, rows, lock, req, sfu, rec, push>>
  BY DEF removeMember, revokeSession
<1>2. TypeOK /\ RowsLeft({})
  BY <1>1, SameRows DEF IInv
<1>3. TypeOK'
  BY <1>1, <1>2, QuietType DEF TypeOK, SfuChange, PushType
<1>4. ReconcilerOK'
  BY <1>1 DEF IInv, ReconcilerOK, Begun
<1> QED
  BY <1>1, <1>2, <1>3, <1>4, Unchanged, QuietStep

LEMMA PushStep ==
    ASSUME IInv, NEW c \in Call, NotifyIncomingCall(c) \/ NotifyMissedCall(c)
    PROVE  IInv'
<1>1. UNCHANGED <<people, call, rows, lock, req, sfu, rec>>
  BY DEF NotifyIncomingCall, NotifyMissedCall
<1>2. TypeOK /\ RowsLeft({})
  BY <1>1, SameRows DEF IInv
<1>3. PushType
  BY <1>2 DEF TypeOK, PushType
<1>4. PushType' /\ PushKept
  <2>1. CASE NotifyIncomingCall(c)
    BY <1>3, <2>1 DEF NotifyIncomingCall, PushType, PushKept
  <2>2. CASE NotifyMissedCall(c)
    BY <1>3, <2>2 DEF NotifyMissedCall, PushType, PushKept
  <2> QED
    BY <2>1, <2>2
<1>5. TypeOK'
  BY <1>1, <1>2, <1>4, QuietType DEF TypeOK, SfuChange, people
<1>6. ReconcilerOK'
  BY <1>1 DEF IInv, ReconcilerOK, Begun
<1> QED
  BY <1>1, <1>2, <1>4, <1>5, <1>6, Unchanged, QuietStep DEF people

LEMMA MediaStep ==
    ASSUME IInv,
           \/ \E c \in Call : closeEmpty(c)
           \/ \E r \in DOMAIN rows : connect(r) \/ disconnect(r)
    PROVE  IInv'
<1>1. UNCHANGED <<people, call, rows, lock, req, rec, push>>
  BY DEF closeEmpty, connect, disconnect
<1>2. TypeOK /\ RowsLeft({})
  BY <1>1, SameRows DEF IInv
<1>3. SfuChange
  BY DEF closeEmpty, connect, disconnect, SfuChange
<1>4. TypeOK'
  BY <1>1, <1>2, <1>3, QuietType DEF TypeOK, people, PushType
<1>5. ReconcilerOK'
  BY <1>1 DEF IInv, ReconcilerOK, Begun
<1> QED
  BY <1>1, <1>2, <1>4, <1>5, Unchanged, QuietStep DEF people

LEMMA AgeStep ==
    ASSUME IInv, NEW c \in Call, age(c)
    PROVE  IInv'
<1>1. UNCHANGED <<people, rows, lock, req, sfu, rec, push>>
  BY DEF age
<1>2. TypeOK /\ RowsLeft({})
  BY <1>1, SameRows DEF IInv
<1>3. /\ call' \in [Call -> CallRow]
      /\ \A d \in Call : call'[d].phase = call[d].phase /\ call'[d].by = call[d].by
  <2>1. call \in [Call -> CallRow] /\ call[c] \in CallRow
    BY <1>2 DEF TypeOK
  <2>2. LET e == [call[c] EXCEPT !.old = TRUE]
        IN  e \in CallRow /\ e.phase = call[c].phase /\ e.by = call[c].by
    BY <2>1 DEF CallRow
  <2>3. call' = [call EXCEPT ![c] = [call[c] EXCEPT !.old = TRUE]]
    BY DEF age
  <2> QED
    BY <2>1, <2>2, <2>3
<1>4. TypeOK'
  BY <1>1, <1>2, <1>3, QuietType DEF TypeOK, SfuChange, people, PushType
<1>5. ReconcilerOK'
  BY <1>1, <1>3 DEF IInv, ReconcilerOK, Begun
<1>6. PhasesKept /\ EmptyKept
  BY <1>1, <1>3 DEF PhasesKept, EmptyKept, Marker
<1> QED
  BY <1>1, <1>2, <1>4, <1>5, <1>6, Unchanged, QuietStep DEF people

LEMMA ReconcilerWaits ==
    ASSUME IInv, UNCHANGED rec, PhasesKept,
           req'[Reconciler] = req[Reconciler] \/ req'[Reconciler] = Idle
    PROVE  ReconcilerOK' /\ rec' \in Reconcile
<1>1. ReconcilerOK /\ rec \in Reconcile
  BY DEF IInv, TypeOK
<1>2. rec.pc \in {"look", "sift", "judge", "end"} => rec.pc \notin {"idle", "rooms", "sweep"}
  OBVIOUS
<1>3. rec.pc \in {"look", "sift", "judge", "end"} => Begun(rec.call)'
  BY <1>1, <1>2 DEF ReconcilerOK, PhasesKept, Begun
<1> QED
  BY <1>1, <1>3 DEF ReconcilerOK

LEMMA EndStep ==
    ASSUME IInv, NEW a \in Actor, NEW c \in Call, NEW declined \in BOOLEAN, Begun(c),
           req[a].pc \in {"idle", "declining"}, EndCall(a, c, declined), UNCHANGED <<people, rows, lock, sfu, push>>,
           \/ UNCHANGED rec /\ a # Reconciler
           \/ rec' \in Reconcile /\ rec'.pc \in {"rooms", "sweep"}
    PROVE  IInv'
<1>1. TypeOK /\ RowsLeft({})
  BY SameRows DEF IInv
<1> DEFINE doing == [Do("mark", c) EXCEPT !.declined = declined]
<1>2. doing \in Doing /\ doing.pc = "mark" /\ doing.call = c
  BY DoFacts
<1>3. Unlocked(c) /\ call' = Ended(c) /\ Become(a, doing)
  BY DEF EndCall
<1> HIDE DEF doing
<1>4. /\ call' \in [Call -> CallRow] /\ call'[c].phase = "ended" /\ call'[c].by = call[c].by
      /\ \A d \in Call : d # c => call'[d] = call[d]
  BY <1>1, <1>3, EndedFacts
<1>5. /\ req' \in [Actor -> Doing] /\ req'[a] = doing
      /\ \A b \in Actor : b # a => req'[b] = req[b]
  BY <1>1, <1>2, <1>3, BecomeFacts
<1>6. PhasesKept
  BY <1>3, <1>4 DEF PhasesKept
<1>8. ActorsKept
  BY <1>2, <1>5 DEF ActorsKept
<1>9. EmptyKept
  <2>1. Marker(c)'
    BY <1>2, <1>5 DEF Marker
  <2>2. ASSUME NEW d \in Call, d # c PROVE Marker(d) => Marker(d)'
    BY <1>5 DEF Marker
  <2> QED
    BY <1>4, <2>1, <2>2 DEF EmptyKept
<1>10. ReconcilerOK' /\ rec' \in Reconcile
  <2>1. CASE UNCHANGED rec /\ a # Reconciler
    BY <1>5, <1>6, <2>1, ReconcilerWaits DEF Actor
  <2>2. CASE rec' \in Reconcile /\ rec'.pc \in {"rooms", "sweep"}
    BY <2>2 DEF ReconcilerOK
  <2> QED
    BY <2>1, <2>2
<1>11. TypeOK'
  BY <1>1, <1>4, <1>5, <1>10, QuietType DEF TypeOK, SfuChange, people, PushType
<1> QED
  BY <1>1, <1>6, <1>8, <1>9, <1>10, <1>11, Unchanged, QuietStep DEF people

(* A decline has judged the call, and is going to end it.                  *)
LEMMA DeclineStep ==
    ASSUME IInv, NEW s \in Session, NEW c \in Call, decline(s, c)
    PROVE  IInv'
<1> DEFINE doing == Do("declining", c)
<1>1. /\ req[s] = Idle /\ Begun(c) /\ Become(s, doing)
      /\ UNCHANGED <<people, call, rows, lock, sfu, rec, push>>
  BY DEF decline, Request, Begun
<1>2. doing \in Doing /\ doing.pc = "declining" /\ doing.call = c /\ Idle.pc = "idle"
  BY DoFacts
<1> HIDE DEF doing
<1>3. s \in Actor /\ Reconciler \in Actor /\ s # Reconciler
  BY CallsAssumption DEF Actor
<1>4. TypeOK /\ RowsLeft({})
  BY <1>1, SameRows DEF IInv
<1>5. /\ req' \in [Actor -> Doing] /\ req'[s] = doing
      /\ \A b \in Actor : b # s => req'[b] = req[b]
  BY <1>1, <1>2, <1>3, <1>4, BecomeFacts
<1>6. ActorsKept
  BY <1>1, <1>2, <1>5 DEF ActorsKept
<1>7. PhasesKept /\ PushKept
  BY <1>1, Unchanged
<1>8. EmptyKept
  <2>1. \A d \in Call : Marker(d) => Marker(d)'
    BY <1>1, <1>2, <1>5 DEF Marker
  <2> QED
    BY <1>1, <2>1 DEF EmptyKept
<1>9. ReconcilerOK' /\ rec' \in Reconcile
  BY <1>1, <1>3, <1>5, <1>7, ReconcilerWaits
<1>10. TypeOK'
  BY <1>1, <1>4, <1>5, <1>9, QuietType DEF TypeOK, SfuChange, people, PushType
<1> QED
  BY <1>1, <1>4, <1>6, <1>7, <1>8, <1>9, <1>10, QuietStep DEF people

LEMMA DeclineEndsStep ==
    ASSUME IInv, NEW s \in Session, declineEnds(s)
    PROVE  IInv'
<1>1. s \in Actor /\ s # Reconciler
  BY CallsAssumption DEF Actor
<1>2. PICK c \in Call : c = req[s].call /\ Begun(c)
  BY <1>1 DEF declineEnds, IInv, ActorOK
<1>3. /\ EndCall(s, c, TRUE) /\ req[s].pc = "declining"
      /\ UNCHANGED <<people, rows, lock, sfu, rec, push>>
  BY <1>2 DEF declineEnds
<1> QED
  BY <1>1, <1>2, <1>3, EndStep

LEMMA MarkStep ==
    ASSUME IInv, NEW a \in Actor, mark(a)
    PROVE  IInv'
<1>3. PICK c \in Call : c = req[a].call
  BY DEF mark, IInv, ActorOK
<1> DEFINE doing == [req[a] EXCEPT !.pc = "delete"]
<1>1. /\ req[a].pc = "mark" /\ rows' = Leave(Active(c)) /\ Become(a, doing)
      /\ UNCHANGED <<people, call, lock, sfu, rec, push>>
  BY <1>3 DEF mark
<1>2. TypeOK /\ RowsLeft(Active(c))
  BY <1>1, LeaveRows DEF IInv
<1>4. doing \in Doing /\ doing.pc = "delete" /\ doing.call = c
  BY <1>2, <1>3 DEF TypeOK, Doing
<1> HIDE DEF doing
<1>5. /\ req' \in [Actor -> Doing] /\ req'[a] = doing
      /\ \A b \in Actor : b # a => req'[b] = req[b]
  BY <1>1, <1>2, <1>4, BecomeFacts
<1>6. PhasesKept
  BY <1>1, Unchanged
<1>7. ActorsKept
  BY <1>1, <1>3, <1>4, <1>5 DEF ActorsKept
<1>8. EmptyKept
  <2>1. Active(c)' = {}
    BY <1>2 DEF RowsLeft
  <2>2. ASSUME NEW d \in Call, d # c PROVE Marker(d) => Marker(d)'
    BY <1>1, <1>3, <1>5, <2>2 DEF Marker
  <2> QED
    BY <1>1, <2>1, <2>2 DEF EmptyKept
<1>9. ReconcilerOK'
  <2>1. rec.pc \notin {"idle", "rooms", "sweep"} => a # Reconciler
    BY <1>1, DoFacts DEF IInv, ReconcilerOK
  <2>2. Reconciler \in Actor
    BY DEF Actor
  <2> QED
    BY <1>1, <1>5, <2>1, <2>2 DEF IInv, ReconcilerOK, Begun
<1>10. TypeOK'
  BY <1>1, <1>2, <1>5, QuietType DEF TypeOK, SfuChange, people, PushType
<1> QED
  BY <1>1, <1>2, <1>6, <1>7, <1>8, <1>9, <1>10, Unchanged, QuietStep DEF people

(* A request that has marked, or needed not to, becomes idle.              *)
LEMMA FinishStep ==
    ASSUME IInv, NEW a \in Actor,
           deleteRoom(a) \/ requestFails(a) \/ (a \in Session /\ removeParticipant(a))
    PROVE  IInv'
<1>1. /\ req[a].pc \in {"delete", "drop"} /\ Become(a, Idle) /\ UNCHANGED <<people, call, rows, lock>>
      /\ rec' = rec \/ rec' = Resting
  BY DEF deleteRoom, requestFails, removeParticipant
<1>2. TypeOK /\ RowsLeft({})
  BY <1>1, SameRows DEF IInv
<1>3. req[a].call \in Call
  BY <1>1 DEF IInv, ActorOK
<1>4. /\ req' \in [Actor -> Doing] /\ req'[a] = Idle
      /\ \A b \in Actor : b # a => req'[b] = req[b]
  BY <1>1, <1>2, DoFacts, BecomeFacts
<1>5. ActorsKept
  BY <1>1, <1>4, DoFacts DEF ActorsKept
<1>6. EmptyKept
  <2>1. ASSUME NEW d \in Call PROVE Marker(d) => Marker(d)'
    BY <1>1, <1>4 DEF Marker
  <2> QED
    BY <1>1, <2>1 DEF EmptyKept
<1>7. PushType
  BY <1>2 DEF TypeOK, PushType
<1>8. PushType' /\ PushKept
  BY <1>3, <1>7 DEF deleteRoom, requestFails, removeParticipant, PushType, PushKept
<1>9. PhasesKept
  BY <1>1, Unchanged
<1>10. ReconcilerOK' /\ rec' \in Reconcile
  <2>1. CASE rec' = rec
    BY <1>4, <1>9, <2>1, ReconcilerWaits DEF Actor
  <2>2. CASE rec' = Resting
    <3>1. Resting \in Reconcile /\ Resting.pc = "idle"
      BY DEF Resting, Reconcile
    <3> QED
      BY <2>2, <3>1 DEF ReconcilerOK
  <2> QED
    BY <1>1, <2>1, <2>2
<1>11. SfuChange
  <2>1. CASE deleteRoom(a)
    BY <1>3, <2>1 DEF deleteRoom, SfuChange
  <2>2. CASE requestFails(a)
    BY <2>2 DEF requestFails, SfuChange
  <2>3. CASE removeParticipant(a)
    <3>1. sfu' = [sfu EXCEPT !.in = @ \ {req[a].row}]
      BY <2>3 DEF removeParticipant
    <3>2. \E P : sfu' = [sfu EXCEPT !.in = @ \ P]
      BY <3>1
    <3> QED
      BY <3>2 DEF SfuChange
  <2> QED
    BY <2>1, <2>2, <2>3
<1>12. TypeOK'
  <2>1. UNCHANGED <<dm, lock>> /\ member' \subseteq member /\ alive' \subseteq alive
    BY <1>1 DEF people
  <2>2. call' \in [Call -> CallRow] /\ req' \in [Actor -> Doing]
    BY <1>1, <1>2, <1>4 DEF TypeOK
  <2> QED
    BY <1>2, <1>8, <1>10, <1>11, <2>1, <2>2, QuietType
<1> QED
  BY <1>1, <1>2, <1>5, <1>6, <1>8, <1>9, <1>10, <1>12, QuietStep DEF people

LEMMA LeaveStep ==
    ASSUME IInv, NEW s \in Session, NEW c \in Call, leave(s, c)
    PROVE  IInv'
<1>1. PICK r \in Active(c) :
        LET ends == dm \/ Active(c) = {r}
        IN /\ rows' = Leave(IF ends THEN Active(c) ELSE {r})
           /\ call' = IF ends THEN Ended(c) ELSE call
           /\ Become(s, IF ends THEN Do("delete", c) ELSE [Do("drop", c) EXCEPT !.row = r])
  BY DEF leave
<1>2. req[s] = Idle /\ Unlocked(c) /\ UNCHANGED <<people, lock, sfu, rec, push>>
  BY DEF leave, Request
<1>3. TypeOK /\ RowsOK /\ MaxRows \in Nat /\ s \in Actor
  BY CallsAssumption DEF IInv, Actor
<1>4. r \in DOMAIN rows /\ rows[r].call = c /\ r \in 0..MaxRows
  <2>1. r \in DOMAIN rows /\ rows[r].call = c
    BY DEF Active, RowsOf
  <2>2. DOMAIN rows = 1..Len(rows) /\ Len(rows) \in Nat /\ Len(rows) <= MaxRows
    BY <1>3, RowFacts DEF TypeOK
  <2> QED
    BY <1>3, <2>1, <2>2
<1>5. Begun(c)
  BY <1>3, <1>4 DEF RowsOK
<1> DEFINE ends == dm \/ Active(c) = {r}
           S == IF ends THEN Active(c) ELSE {r}
           doing == IF ends THEN Do("delete", c) ELSE [Do("drop", c) EXCEPT !.row = r]
<1>6. RowsLeft(S)
  BY <1>1, <1>3, LeaveRows
<1>7. doing \in Doing /\ doing.pc \in {"delete", "drop"} /\ doing.call = c
  BY <1>4, DoFacts
<1>8. Become(s, doing)
  BY <1>1
<1> HIDE DEF doing
<1>9. /\ req' \in [Actor -> Doing] /\ req'[s] = doing
      /\ \A b \in Actor : b # s => req'[b] = req[b]
  BY <1>3, <1>7, <1>8, BecomeFacts
<1>10. Idle.pc = "idle"
  BY DoFacts
<1>11. ActorsKept
  BY <1>2, <1>7, <1>9, <1>10 DEF ActorsKept
<1>12. \A d \in Call : Marker(d) => Marker(d)'
  BY <1>2, <1>9, <1>10 DEF Marker
<1>13. call' \in [Call -> CallRow] /\ PhasesKept /\ EmptyKept
  <2>1. CASE ends
    <3>1. /\ call' \in [Call -> CallRow] /\ call'[c].phase = "ended" /\ call'[c].by = call[c].by
          /\ \A d \in Call : d # c => call'[d] = call[d]
      BY <1>1, <1>3, <2>1, EndedFacts
    <3>2. Active(c)' = {}
      BY <1>6, <2>1 DEF RowsLeft
    <3>3. PhasesKept
      BY <1>2, <1>5, <3>1 DEF PhasesKept
    <3>4. EmptyKept
      BY <1>12, <3>1, <3>2 DEF EmptyKept
    <3> QED
      BY <3>1, <3>3, <3>4
  <2>2. CASE ~ends
    <3>1. UNCHANGED call
      BY <1>1, <2>2
    <3> QED
      BY <1>3, <1>12, <3>1, Unchanged DEF TypeOK, EmptyKept
  <2> QED
    BY <2>1, <2>2
<1>14. s # Reconciler /\ Reconciler \in Actor
  BY CallsAssumption DEF Actor
<1>15. ReconcilerOK' /\ rec' \in Reconcile
  BY <1>2, <1>9, <1>13, <1>14, ReconcilerWaits
<1>16. TypeOK'
  BY <1>2, <1>3, <1>6, <1>9, <1>13, <1>15, QuietType DEF TypeOK, SfuChange, people, PushType
<1> QED
  BY <1>2, <1>6, <1>11, <1>13, <1>15, <1>16, Unchanged, QuietStep DEF people

-------------------------------------------------------------------------------
(* The reconciler looks at a room                                          *)

LEMMA LookStep ==
    ASSUME IInv, NEW S, RowsLeft(S), UNCHANGED <<people, lock, req, push>>, SfuChange,
           call' \in [Call -> CallRow],
           \A d \in Call : call'[d].phase = call[d].phase /\ call'[d].by = call[d].by,
           rec' \in Reconcile,
           \/ rec'.pc \in {"idle", "rooms", "sweep"}
           \/ rec'.call \in Call /\ req[Reconciler] = Idle /\ (rec'.pc = "purge" \/ Begun(rec'.call))
    PROVE  IInv'
<1>1. TypeOK
  BY DEF IInv
<1>2. PhasesKept /\ EmptyKept
  BY DEF PhasesKept, EmptyKept, Marker
<1>3. ReconcilerOK'
  BY DEF ReconcilerOK, Begun
<1>4. TypeOK'
  <2>1. UNCHANGED <<dm, lock>> /\ member' \subseteq member /\ alive' \subseteq alive
    BY DEF people
  <2>2. req' \in [Actor -> Doing] /\ PushType'
    BY <1>1 DEF TypeOK, PushType
  <2> QED
    BY <1>1, <2>1, <2>2, QuietType
<1> QED
  BY <1>2, <1>3, <1>4, Unchanged, QuietStep DEF people

LEMMA NextRoomFacts ==
    ASSUME TypeOK, NextRoom
    PROVE  rec' \in Reconcile /\ rec'.pc = "rooms"
BY DEF TypeOK, NextRoom, Reconcile

LEMMA LoadStep ==
    ASSUME IInv, ListRooms \/ \E c \in Call : load(c)
    PROVE  IInv'
<1>1. TypeOK /\ UNCHANGED <<people, call, rows, lock, req, sfu, push>>
  BY DEF IInv, ListRooms, load
<1>2. RowsLeft({}) /\ SfuChange
  BY <1>1, SameRows DEF SfuChange
<1>3. CASE ListRooms
  <2>1. sfu.rooms \subseteq Call
    BY <1>1 DEF TypeOK
  <2>2. Resting \in Reconcile
    BY DEF Resting, Reconcile
  <2>3. rec' \in Reconcile /\ rec'.pc = "rooms"
    BY <1>3, <2>1, <2>2 DEF ListRooms, Reconcile
  <2> QED
    BY <1>1, <1>2, <2>3, LookStep DEF TypeOK
<1>4. ASSUME NEW c \in Call, load(c) PROVE IInv'
  <2>1. rec' = [rec EXCEPT !.pc = IF Open(c) THEN "look" ELSE "purge", !.call = c, !.todo = @ \ {c}]
        /\ req[Reconciler] = Idle
    BY <1>4 DEF load, AtRest
  <2>2. rec \in Reconcile
    BY <1>1 DEF TypeOK
  <2>3. rec' \in Reconcile /\ rec'.call = c /\ (rec'.pc = "purge" \/ Begun(rec'.call))
    BY <2>1, <2>2 DEF Reconcile, Open, Begun
  <2> QED
    BY <1>1, <1>2, <2>1, <2>3, LookStep DEF TypeOK
<1> QED
  BY <1>3, <1>4

LEMMA SiftStep ==
    ASSUME IInv, ListParticipants \/ sift
    PROVE  IInv'
<1>1. TypeOK /\ rec \in Reconcile /\ call \in [Call -> CallRow]
  BY DEF IInv, TypeOK
<1>2. rec.pc \in {"look", "sift"} /\ rec.call \in Call /\ req[Reconciler] = Idle /\ Begun(rec.call)
  BY DEF IInv, ReconcilerOK, ListParticipants, sift, siftWith
<1>3. UNCHANGED <<people, lock, req, push>>
  BY DEF ListParticipants, sift, siftWith
<1>4. CASE ListParticipants
  <2>1. PICK S : rows' = Leave(S)
    BY <1>4 DEF ListParticipants, Evict
  <2>2. RowsLeft(S) /\ UNCHANGED <<call, sfu>>
    BY <1>1, <1>4, <2>1, LeaveRows DEF ListParticipants
  <2>3. Connected(rec.call) \subseteq 1..MaxRows
    <3>1. Connected(rec.call) \subseteq 1..Len(rows) /\ Len(rows) \in Nat
      BY <1>1, RowFacts DEF Connected
    <3>2. Len(rows) <= MaxRows /\ MaxRows \in Nat
      BY <1>1, CallsAssumption DEF TypeOK
    <3> QED
      BY <3>1, <3>2
  <2>4. rec' \in Reconcile /\ rec'.call = rec.call
    BY <1>1, <1>4, <2>3 DEF ListParticipants, Reconcile
  <2> QED
    BY <1>1, <1>2, <1>3, <2>2, <2>4, LookStep DEF SfuChange
<1>5. ASSUME NEW Stale, siftWith(Stale) PROVE IInv'
  <2>1. PICK S : rows' = Leave(S)
    BY <1>5 DEF siftWith
  <2>2. RowsLeft(S)
    BY <1>1, <2>1, LeaveRows
  <2>3. SfuChange
    BY <1>5 DEF siftWith, SfuChange
  <2>4. rec' \in Reconcile /\ rec'.call = rec.call
    BY <1>1, <1>5 DEF siftWith, Reconcile
  <2>5. PICK b \in BOOLEAN : call' = [call EXCEPT ![rec.call].connected = b]
    <3>1. PICK two : call' = [call EXCEPT ![rec.call].connected = @ \/ two]
      BY <1>5 DEF siftWith
    <3>2. (call[rec.call].connected \/ two) \in BOOLEAN
      BY <1>1, <1>2 DEF CallRow
    <3> QED
      BY <1>1, <1>2, <3>1, <3>2
  <2>6. LET e == [call[rec.call] EXCEPT !.connected = b]
        IN  e \in CallRow /\ e.phase = call[rec.call].phase /\ e.by = call[rec.call].by
    BY <1>1, <1>2 DEF CallRow
  <2>7. /\ call' \in [Call -> CallRow]
        /\ \A d \in Call : call'[d].phase = call[d].phase /\ call'[d].by = call[d].by
    BY <1>1, <1>2, <2>5, <2>6
  <2> QED
    BY <1>2, <1>3, <2>2, <2>3, <2>4, <2>7, LookStep
<1> QED
  BY <1>4, <1>5 DEF sift

LEMMA RoomDoneStep ==
    ASSUME IInv, purge \/ judge \/ roomFails
    PROVE  IInv'
<1>1. TypeOK /\ rec \in Reconcile
  BY DEF IInv, TypeOK
<1>2. rec.pc \in {"purge", "look", "sift", "judge"} /\ UNCHANGED <<people, call, lock, req, push>>
  BY DEF purge, judge, roomFails
<1>3. rec.call \in Call /\ req[Reconciler] = Idle
  BY <1>2 DEF IInv, ReconcilerOK
<1>4. \E S : RowsLeft(S)
  <2>1. CASE UNCHANGED rows
    BY <1>1, <2>1, SameRows
  <2>2. CASE \E S : rows' = Leave(S)
    BY <1>1, <2>2, LeaveRows
  <2> QED
    BY <2>1, <2>2 DEF purge, judge, roomFails, Evict
<1>5. SfuChange
  <2>1. CASE purge
    BY <1>3, <2>1 DEF purge, SfuChange
  <2>2. CASE judge
    BY <2>2 DEF judge, SfuChange
  <2>3. CASE roomFails
    <3>1. UNCHANGED sfu \/ \E P : sfu' = [sfu EXCEPT !.in = @ \ P]
      BY <2>3 DEF roomFails
    <3> QED
      BY <3>1 DEF SfuChange
  <2> QED
    BY <2>1, <2>2, <2>3
<1>6. \/ rec' \in Reconcile /\ rec'.pc = "rooms"
      \/ rec' \in Reconcile /\ rec'.call = rec.call /\ Begun(rec.call)
  <2>1. CASE NextRoom
    BY <1>1, <2>1, NextRoomFacts
  <2>2. CASE judge /\ rec' = [rec EXCEPT !.pc = "end"]
    <3>1. Begun(rec.call)
      BY <2>2 DEF judge, IInv, ReconcilerOK
    <3> QED
      BY <1>1, <2>2, <3>1 DEF Reconcile
  <2> QED
    BY <2>1, <2>2 DEF purge, judge, roomFails
<1> QED
  BY <1>1, <1>2, <1>3, <1>4, <1>5, <1>6, LookStep DEF TypeOK

LEMMA ReconcileCallsStep ==
    ASSUME IInv, ReconcileCalls
    PROVE  IInv'
<1>1. TypeOK /\ ReconcilerOK /\ rec \in Reconcile
  BY DEF IInv, TypeOK
<1>2. Reconciler \in Actor
  BY DEF Actor
<1>3. CASE endOver
  <2>1. rec.call \in Call /\ req[Reconciler] = Idle /\ Begun(rec.call)
    BY <1>1, <1>3 DEF endOver, ReconcilerOK
  <2>2. rec' \in Reconcile /\ rec'.pc = "rooms"
    BY <1>1, <1>3, NextRoomFacts DEF endOver
  <2>3. EndCall(Reconciler, rec.call, FALSE) /\ UNCHANGED <<people, rows, lock, sfu, push>>
    BY <1>3 DEF endOver
  <2> QED
    BY <1>2, <2>1, <2>2, <2>3, DoFacts, EndStep
<1>4. CASE sweep
  <2>1. CASE Lost = {}
    <3>1. Resting \in Reconcile /\ Resting.pc = "idle"
      BY DEF Resting, Reconcile
    <3>2. UNCHANGED <<people, call, rows, lock, req, sfu, push>> /\ rec' = Resting
      BY <1>4, <2>1 DEF sweep
    <3>3. RowsLeft({}) /\ SfuChange
      BY <1>1, <3>2, SameRows DEF SfuChange
    <3> QED
      BY <1>1, <3>1, <3>2, <3>3, LookStep DEF TypeOK
  <2>2. CASE Lost # {}
    <3>1. PICK c \in Lost : EndCall(Reconciler, c, FALSE)
      BY <1>4, <2>2 DEF sweep
    <3>2. c \in Call /\ Begun(c)
      BY DEF Lost, Open, Begun
    <3>3. req[Reconciler] = Idle /\ UNCHANGED <<people, rows, lock, sfu, push>>
      BY <1>4 DEF sweep, AtRest
    <3>4. rec' \in Reconcile /\ rec'.pc = "sweep"
      BY <1>1, <1>4, <2>2 DEF sweep, Reconcile
    <3> QED
      BY <1>2, <3>1, <3>2, <3>3, <3>4, DoFacts, EndStep
  <2> QED
    BY <2>1, <2>2
<1> QED
  BY <1>3, <1>4, LoadStep, SiftStep, RoomDoneStep DEF ReconcileCalls

-------------------------------------------------------------------------------
(* start(): the lock of the room                                           *)

(* Only the call that start() inserts or commits changes.                  *)
OthersKept(c) ==
    \A d \in Call : d # c => call'[d] = call[d]

LEMMA StartStep ==
    ASSUME IInv, NEW s \in Session, NEW c \in Call,
           start(s, c) \/ \E phase \in {"open", "void"} : startEnds(s, phase) /\ c = req[s].call
    PROVE  IInv'
<1>1. UNCHANGED <<people, rows, lock, rec, push>>
  BY DEF start, startEnds
<1>2. /\ TypeOK /\ LocksOK /\ OneCall /\ SeatsKept /\ EndedIsEmpty /\ MissedIsTrue
      /\ RowsOK /\ RowBound /\ ReconcilerOK /\ \A a \in Actor : ActorOK(a)
  BY DEF IInv
<1>3. RowsLeft({}) /\ s \in Actor /\ Session \subseteq Actor /\ Reconciler \in Actor /\ s # Reconciler
  BY <1>1, <1>2, SameRows, CallsAssumption DEF Actor
<1>4. \/ req[s] = Idle /\ call[c].phase = "none"
      \/ req[s].pc = "starting" /\ req[s].call = c /\ call[c].phase = "opening"
  BY <1>2, <1>3 DEF start, startEnds, Request, ActorOK
<1>5. PICK doing \in Doing :
        /\ Become(s, doing)
        /\ doing.pc = "idle" \/ (doing.pc = "starting" /\ doing.call = c)
  <2>1. CASE start(s, c)
    <3>1. Become(s, Do("starting", c))
      BY <2>1 DEF start
    <3>2. Do("starting", c) \in Doing /\ Do("starting", c).pc = "starting" /\ Do("starting", c).call = c
      BY DoFacts
    <3> QED
      BY <3>1, <3>2
  <2>2. CASE \E phase \in {"open", "void"} : startEnds(s, phase)
    <3>1. Become(s, Idle)
      BY <2>2 DEF startEnds
    <3>2. Idle \in Doing /\ Idle.pc = "idle"
      BY DoFacts
    <3> QED
      BY <3>1, <3>2
  <2> QED
    BY <2>1, <2>2
<1>6. /\ req' \in [Actor -> Doing] /\ req'[s] = doing
      /\ \A b \in Actor : b # s => req'[b] = req[b]
  BY <1>2, <1>3, <1>5, BecomeFacts
<1>7. call[c] \in CallRow /\ call \in [Call -> CallRow]
  BY <1>2 DEF TypeOK
<1>8. /\ call' \in [Call -> CallRow] /\ OthersKept(c)
      /\ \/ call'[c].phase = "opening" /\ doing.pc = "starting" /\ doing.call = c
         \/ call'[c].phase \in {"open", "void"} /\ doing.pc = "idle"
  <2>1. CASE start(s, c)
    <3>1. Owner[s] \in User
      BY DEF User
    <3>2. LET e == [NoCall EXCEPT !.phase = "opening", !.by = Owner[s]]
          IN  e \in CallRow /\ e.phase = "opening"
      BY <3>1 DEF NoCall, CallRow
    <3>3. call' \in [Call -> CallRow] /\ OthersKept(c) /\ call'[c].phase = "opening"
      BY <1>7, <2>1, <3>2 DEF start, OthersKept
    <3>4. req'[s] = Do("starting", c)
      BY <1>2, <1>3, <2>1 DEF start, Become, TypeOK
    <3> QED
      BY <1>6, <3>3, <3>4, DoFacts
  <2>2. ASSUME NEW phase \in {"open", "void"}, startEnds(s, phase), c = req[s].call
        PROVE  /\ call' \in [Call -> CallRow] /\ OthersKept(c)
               /\ call'[c].phase \in {"open", "void"} /\ doing.pc = "idle"
    <3>1. LET e == [call[c] EXCEPT !.phase = phase]
          IN  e \in CallRow /\ e.phase = phase
      BY <1>7 DEF CallRow
    <3>2. call' = [call EXCEPT ![c] = [call[c] EXCEPT !.phase = phase]]
      BY <1>7, <2>2 DEF startEnds
    <3>3. call' \in [Call -> CallRow] /\ OthersKept(c) /\ call'[c].phase = phase
      BY <1>7, <3>1, <3>2 DEF OthersKept
    <3>4. req'[s] = Idle
      BY <1>2, <1>3, <2>2 DEF startEnds, Become, TypeOK
    <3> QED
      BY <1>6, <3>3, <3>4, DoFacts
  <2> QED
    BY <2>1, <2>2
<1>9. \A t \in Session : t # s => req[t].pc # "starting"
  BY <1>2, <1>4 DEF start, startEnds, RoomLocked, LocksOK
<1>10. Idle.pc = "idle"
  BY DoFacts
<1>11. \A d \in Call : d # c => call[d].phase # "opening"
  BY <1>2, <1>4, <1>9, <1>10 DEF LocksOK
<1>12. \A d \in Call : d # c => call[d].phase # "open"
  <2>1. CASE start(s, c)
    BY <2>1 DEF start, NoOpenCall
  <2>2. CASE req[s].pc = "starting" /\ req[s].call = c /\ call[c].phase = "opening"
    BY <1>2, <2>2 DEF OneCall, InProgress
  <2>3. CASE \E phase \in {"open", "void"} : startEnds(s, phase)
    <3>1. req[s].pc = "starting"
      BY <2>3 DEF startEnds
    <3> QED
      BY <1>4, <1>10, <2>2, <3>1
  <2> QED
    BY <2>1, <2>3
<1>13. ~Begun(c) /\ ~Open(c)
  BY <1>4 DEF Begun, Open
<1>14. \A d \in Call : Begun(d) => d # c /\ Begun(d)'
  BY <1>8, <1>13 DEF Begun, OthersKept
<1>15. TypeOK'
  <2>1. SfuChange
    BY DEF start, startEnds, SfuChange
  <2>2. UNCHANGED <<dm, lock>> /\ member' \subseteq member /\ alive' \subseteq alive /\ rec' \in Reconcile /\ PushType'
    BY <1>1, <1>2 DEF people, TypeOK, PushType
  <2> QED
    BY <1>2, <1>3, <1>6, <1>8, <2>1, <2>2, QuietType
<1>16. SeatsKept' /\ \A t, d : MayJoin(t, d) => MayJoin(t, d)'
  BY <1>1, <1>2, <1>3, <1>15, SeatsVacated DEF people
<1>17. ASSUME NEW a \in Actor PROVE ActorOK(a)'
  <2>1. CASE a = s
    BY <1>3, <1>6, <1>8, <2>1 DEF ActorOK
  <2>2. CASE a # s
    <3>1. req'[a] = req[a] /\ ActorOK(a) /\ req[a].pc # "starting"
      BY <1>2, <1>6, <1>9, <2>2 DEF ActorOK
    <3>2. req[a].pc = "joining" => Open(req[a].call)'
      BY <1>8, <1>13, <3>1 DEF ActorOK, Open, OthersKept
    <3>3. req[a].pc = "declining" => Begun(req[a].call)'
      BY <1>14, <3>1 DEF ActorOK
    <3> QED
      BY <1>1, <1>16, <3>1, <3>2, <3>3 DEF ActorOK
  <2> QED
    BY <2>1, <2>2
<1>18. LocksOK'
  <2>1. \A d \in Call : lock'[d] # Free => req'[lock'[d]].pc = "joining" /\ req'[lock'[d]].call = d
    <3> SUFFICES ASSUME NEW d \in Call, lock[d] # Free
                 PROVE  req'[lock[d]].pc = "joining" /\ req'[lock[d]].call = d
      BY <1>1
    <3>1. lock[d] \in Session /\ req[lock[d]].pc = "joining" /\ req[lock[d]].call = d
      BY <1>2 DEF TypeOK, LocksOK
    <3> QED
      BY <1>3, <1>4, <1>6, <1>10, <3>1
  <2>2. \A t, u \in Session : req'[t].pc = "starting" /\ req'[u].pc = "starting" => t = u
    BY <1>3, <1>6, <1>9
  <2>3. \A d \in Call : call'[d].phase = "opening" => \E t \in Session : req'[t].pc = "starting" /\ req'[t].call = d
    BY <1>6, <1>8, <1>11 DEF OthersKept
  <2> QED
    BY <2>1, <2>2, <2>3 DEF LocksOK
<1>19. RowsOK'
  <2>1. \A r \in DOMAIN rows : rows[r].call \in Call
    BY <1>2, RowFacts DEF Participant
  <2> QED
    BY <1>1, <1>2, <1>14, <2>1 DEF RowsOK
<1>20. RowBound'
  BY <1>1, <1>2 DEF RowBound, Unlocked
<1>21. ReconcilerOK'
  BY <1>1, <1>2, <1>3, <1>6, <1>14 DEF ReconcilerOK
<1>22. OneCall'
  BY <1>8, <1>11, <1>12 DEF OneCall, InProgress, OthersKept
<1>23. EndedIsEmpty'
  <2> SUFFICES ASSUME NEW d \in Call, call'[d].phase = "ended", ~Marker(d)'
               PROVE  Active(d)' = {}
    BY DEF EndedIsEmpty, Marker
  <2>1. d # c /\ call[d].phase = "ended"
    BY <1>8 DEF OthersKept
  <2>2. ~Marker(d)
    BY <1>4, <1>6, <1>10 DEF Marker
  <2>3. Active(d) = {} /\ Active(d)' = Active(d)
    BY <1>1, <1>2, <2>1, <2>2 DEF EndedIsEmpty, Marker, Active, RowsOf
  <2> QED
    BY <2>3
<1>24. MissedIsTrue'
  <2> SUFFICES ASSUME NEW d \in push.missed
               PROVE  d \in push'.rung /\ call'[d].phase = "ended" /\ ~Answered(d)'
    BY <1>1 DEF MissedIsTrue
  <2>1. d \in Call /\ d \in push.rung /\ call[d].phase = "ended" /\ ~Answered(d)
    BY <1>2 DEF TypeOK, MissedIsTrue
  <2>2. call'[d] = call[d]
    BY <1>8, <1>13, <2>1 DEF OthersKept, Begun
  <2>3. Answered(d)' <=> Answered(d)
    BY <1>1, <2>2 DEF Answered, Callee, RowsOf, UserOf
  <2> QED
    BY <1>1, <2>1, <2>2, <2>3
<1> QED
  BY <1>15, <1>16, <1>17, <1>18, <1>19, <1>20, <1>21, <1>22, <1>23, <1>24 DEF IInv

-------------------------------------------------------------------------------
(* join(): the lock of the call                                            *)

Locked == {d \in Call : ~Unlocked(d)}

LEMMA LockedFinite == IsFiniteSet(Locked) /\ Cardinality(Locked) \in Nat
<1>1. IsFiniteSet(1..MaxCalls)
  BY CallsAssumption, FS_Interval
<1>2. Locked \subseteq 1..MaxCalls
  BY DEF Locked, Call
<1> QED
  BY <1>1, <1>2, FS_Subset, FS_CardinalityType

LEMMA JoinStep ==
    ASSUME IInv, NEW s \in Session, NEW c \in Call, join(s, c)
    PROVE  IInv'
<1>1. /\ req[s] = Idle /\ Open(c) /\ Unlocked(c) /\ MayJoin(s, c)
      /\ lock' = [lock EXCEPT ![c] = s] /\ Become(s, Do("joining", c))
      /\ UNCHANGED <<people, call, rows, sfu, rec, push>>
  BY DEF join, Request
<1>2. /\ TypeOK /\ LocksOK /\ OneCall /\ SeatsKept /\ EndedIsEmpty /\ MissedIsTrue
      /\ RowsOK /\ RowBound /\ ReconcilerOK /\ \A a \in Actor : ActorOK(a)
  BY DEF IInv
<1>3. s \in Actor /\ Session \subseteq Actor /\ s # Reconciler /\ Reconciler \in Actor /\ s # Free
  BY CallsAssumption DEF Actor
<1>4. Idle.pc = "idle" /\ Do("joining", c) \in Doing
      /\ Do("joining", c).pc = "joining" /\ Do("joining", c).call = c
  BY DoFacts
<1>5. /\ req' \in [Actor -> Doing] /\ req'[s] = Do("joining", c)
      /\ \A b \in Actor : b # s => req'[b] = req[b]
  BY <1>1, <1>2, <1>3, <1>4, BecomeFacts
<1>6. /\ lock' \in [Call -> Session \cup {Free}] /\ lock'[c] = s
      /\ \A d \in Call : d # c => lock'[d] = lock[d]
  BY <1>1, <1>2 DEF TypeOK
<1>7. TypeOK'
  <2>1. sfu' \in [rooms : SUBSET Call, in : SUBSET (DOMAIN rows')] /\ \A p \in sfu'.in : rows'[p].call \in sfu'.rooms
    BY <1>1, <1>2 DEF TypeOK
  <2> QED
    BY <1>1, <1>2, <1>5, <1>6, <2>1 DEF TypeOK, people
<1>8. \A t, d : MayJoin(t, d) => MayJoin(t, d)'
  BY <1>1 DEF MayJoin, Active, RowsOf, UserOf, capacity, people
<1>9. ASSUME NEW a \in Actor PROVE ActorOK(a)'
  <2>1. CASE a = s
    BY <1>1, <1>4, <1>5, <1>6, <1>8, <2>1 DEF ActorOK, Open
  <2>2. CASE a # s
    <3>1. req'[a] = req[a] /\ ActorOK(a)
      BY <1>2, <1>5, <2>2
    <3>2. req[a].pc = "joining" => req[a].call # c
      BY <1>1, <3>1, CallsAssumption DEF ActorOK, Unlocked
    <3>3. req[a].pc = "joining" => lock'[req[a].call] = a
      BY <1>6, <3>1, <3>2 DEF ActorOK
    <3>4. req[a].pc = "joining" => Open(req[a].call)' /\ MayJoin(a, req[a].call)'
      BY <1>1, <1>8, <3>1 DEF ActorOK, Open
    <3>5. req[a].pc = "starting" => call'[req[a].call].phase = "opening"
      BY <1>1, <3>1 DEF ActorOK
    <3>6. req[a].pc = "declining" => Begun(req[a].call)'
      BY <1>1, <3>1 DEF ActorOK, Begun
    <3> QED
      BY <3>1, <3>3, <3>4, <3>5, <3>6 DEF ActorOK
  <2> QED
    BY <2>1, <2>2
<1>10. LocksOK'
  <2>1. \A d \in Call : lock'[d] # Free => req'[lock'[d]].pc = "joining" /\ req'[lock'[d]].call = d
    <3> SUFFICES ASSUME NEW d \in Call, lock'[d] # Free, d # c
                 PROVE  req'[lock'[d]].pc = "joining" /\ req'[lock'[d]].call = d
      BY <1>4, <1>5, <1>6
    <3>1. lock'[d] = lock[d] /\ lock[d] \in Session /\ req[lock[d]].pc = "joining" /\ req[lock[d]].call = d
      BY <1>2, <1>6 DEF TypeOK, LocksOK
    <3> QED
      BY <1>1, <1>3, <1>4, <1>5, <3>1
  <2>2. \A t, u \in Session : req'[t].pc = "starting" /\ req'[u].pc = "starting" => t = u
    BY <1>2, <1>3, <1>4, <1>5 DEF LocksOK
  <2>3. \A d \in Call : call'[d].phase = "opening" => \E t \in Session : req'[t].pc = "starting" /\ req'[t].call = d
    BY <1>1, <1>2, <1>3, <1>4, <1>5 DEF LocksOK
  <2> QED
    BY <2>1, <2>2, <2>3 DEF LocksOK
<1>11. RowBound'
  <2>1. Locked' = Locked \cup {c} /\ c \notin Locked
    BY <1>1, <1>3, <1>6 DEF Locked, Unlocked
  <2>2. Cardinality(Locked') = Cardinality(Locked) + 1
    BY <2>1, LockedFinite, FS_AddElement
  <2>3. Len(rows) + Cardinality(Locked) < MaxRows /\ Len(rows) \in Nat /\ MaxRows \in Nat
    BY <1>2, RowFacts, CallsAssumption DEF join, Locked
  <2>4. Len(rows) + Cardinality(Locked') <= MaxRows
    BY <2>2, <2>3, LockedFinite
  <2> QED
    BY <1>1, <2>4 DEF RowBound, Locked
<1>12. RowsOK' /\ OneCall' /\ SeatsKept' /\ MissedIsTrue'
  <2>1. RowsOK' /\ OneCall'
    BY <1>1, <1>2 DEF RowsOK, OneCall, Begun, InProgress
  <2>2. SeatsKept'
    BY <1>1, <1>2 DEF SeatsKept, Active, RowsOf, UserOf, capacity, people
  <2>3. MissedIsTrue'
    BY <1>1, <1>2 DEF MissedIsTrue, Answered, Callee, RowsOf, UserOf
  <2> QED
    BY <2>1, <2>2, <2>3
<1>13. ReconcilerOK'
  BY <1>1, <1>2, <1>3, <1>5 DEF ReconcilerOK, Begun
<1>14. EndedIsEmpty'
  <2>1. \A d \in Call : Marker(d) => Marker(d)'
    BY <1>1, <1>4, <1>5 DEF Marker
  <2>2. \A d \in Call : Active(d)' = Active(d)
    BY <1>1 DEF Active, RowsOf
  <2> QED
    BY <1>1, <1>2, <2>1, <2>2 DEF EndedIsEmpty, Marker
<1> QED
  BY <1>7, <1>9, <1>10, <1>11, <1>12, <1>13, <1>14 DEF IInv

LEMMA JoinCommitsStep ==
    ASSUME IInv, NEW s \in Session, joinCommits(s)
    PROVE  IInv'
<1>1. /\ TypeOK /\ LocksOK /\ OneCall /\ SeatsKept /\ EndedIsEmpty /\ MissedIsTrue
      /\ RowsOK /\ RowBound /\ ReconcilerOK /\ \A a \in Actor : ActorOK(a)
  BY DEF IInv
<1>2. s \in Actor /\ Session \subseteq Actor /\ s # Reconciler /\ Reconciler \in Actor
      /\ s # Free /\ Free \notin Session
  BY CallsAssumption DEF Actor
<1>3. PICK c \in Call : c = req[s].call
  BY <1>1, <1>2 DEF joinCommits, ActorOK
<1>0. PICK n : n = Len(rows) + 1
  OBVIOUS
<1> DEFINE row == [call |-> c, session |-> s, left |-> FALSE]
<1>4. /\ req[s].pc = "joining" /\ rows' = Append(rows, row) /\ lock' = [lock EXCEPT ![c] = Free]
      /\ Become(s, Idle) /\ UNCHANGED <<people, call, sfu, rec, push>>
  BY <1>3 DEF joinCommits
<1>5. lock[c] = s /\ Open(c) /\ MayJoin(s, c)
  BY <1>1, <1>2, <1>3, <1>4 DEF ActorOK
<1>6. row \in Participant /\ row.call = c /\ row.session = s /\ ~row.left
  BY DEF Participant
<1>7. DOMAIN rows = 1..Len(rows) /\ Len(rows) \in Nat /\ \A r \in DOMAIN rows : rows[r] \in Participant
  BY <1>1, RowFacts
<1> HIDE DEF row
<1>8. /\ rows' \in Seq(Participant) /\ Len(rows') = n /\ DOMAIN rows' = DOMAIN rows \cup {n}
      /\ n \notin DOMAIN rows /\ rows'[n] = row
      /\ \A r \in DOMAIN rows : rows'[r] = rows[r]
  BY <1>0, <1>1, <1>4, <1>6, <1>7 DEF TypeOK
<1>9. /\ \A r \in DOMAIN rows : UserOf(r)' = UserOf(r)
      /\ UserOf(n)' = Owner[s]
  <2>1. UserOf(n)' = Owner[rows'[n].session]
    BY <1>4 DEF UserOf
  <2> QED
    BY <1>6, <1>8, <2>1 DEF UserOf
<1>10. \A d : d # c => RowsOf(d)' = RowsOf(d) /\ Active(d)' = Active(d)
  <2>1. \A d : d # c => RowsOf(d)' = RowsOf(d)
    BY <1>6, <1>8 DEF RowsOf
  <2> QED
    BY <1>8, <2>1 DEF RowsOf, Active
<1>11. Active(c)' = Active(c) \cup {n} /\ n \notin Active(c)
  <2>1. RowsOf(c)' = RowsOf(c) \cup {n}
    BY <1>6, <1>8 DEF RowsOf
  <2> QED
    BY <1>6, <1>8, <2>1 DEF RowsOf, Active
<1>12. Idle \in Doing /\ Idle.pc = "idle"
  BY DoFacts
<1>13. /\ req' \in [Actor -> Doing] /\ req'[s] = Idle
       /\ \A b \in Actor : b # s => req'[b] = req[b]
  BY <1>1, <1>2, <1>4, <1>12, BecomeFacts
<1>14. /\ lock' \in [Call -> Session \cup {Free}] /\ lock'[c] = Free
       /\ \A d \in Call : d # c => lock'[d] = lock[d]
  BY <1>1, <1>4 DEF TypeOK
<1>15. RowBound' /\ Len(rows') <= MaxRows
  <2>1. Locked' = Locked \ {c} /\ c \in Locked
    BY <1>2, <1>5, <1>14 DEF Locked, Unlocked
  <2>2. Cardinality(Locked') = Cardinality(Locked) - 1
    BY <2>1, LockedFinite, FS_RemoveElement
  <2>3. Len(rows) + Cardinality(Locked) <= MaxRows /\ MaxRows \in Nat
    BY <1>1, CallsAssumption DEF RowBound, Locked
  <2>4. IsFiniteSet(Locked') /\ Cardinality(Locked') \in Nat
    BY <2>1, LockedFinite, FS_Subset, FS_CardinalityType
  <2>5. Len(rows') + Cardinality(Locked') <= MaxRows /\ Len(rows') <= MaxRows
    BY <1>0, <1>7, <1>8, <2>2, <2>3, <2>4, LockedFinite
  <2> QED
    BY <2>5 DEF RowBound, Locked
<1>16. TypeOK'
  <2>1. sfu' \in [rooms : SUBSET Call, in : SUBSET (DOMAIN rows')] /\ \A p \in sfu'.in : rows'[p].call \in sfu'.rooms
    BY <1>1, <1>4, <1>8 DEF TypeOK
  <2> QED
    BY <1>1, <1>4, <1>8, <1>13, <1>14, <1>15, <2>1 DEF TypeOK, people
<1>17. SeatsKept'
  <2> SUFFICES ASSUME NEW d \in Call
               PROVE  /\ Cardinality(Active(d)') <= capacity'
                      /\ \A r, q \in Active(d)' : UserOf(r)' = UserOf(q)' => r = q
    BY DEF SeatsKept
  <2>1. capacity' = capacity /\ capacity \in Nat
    BY <1>4, CallsAssumption DEF capacity, people
  <2>2. /\ Cardinality(Active(d)) <= capacity /\ Active(d) \subseteq DOMAIN rows
        /\ \A r, q \in Active(d) : UserOf(r) = UserOf(q) => r = q
    BY <1>1, RowFacts DEF SeatsKept
  <2>3. CASE d = c
    <3>1. Cardinality(Active(c)') = Cardinality(Active(c)) + 1
      BY <1>1, <1>11, RowFacts, FS_AddElement
    <3>2. Cardinality(Active(c)) < capacity /\ \A r \in Active(c) : UserOf(r) # Owner[s]
      BY <1>5 DEF MayJoin
    <3>3. Cardinality(Active(c)') <= capacity
      BY <1>1, <2>1, <3>1, <3>2, RowFacts
    <3> QED
      BY <1>9, <1>11, <2>1, <2>2, <2>3, <3>2, <3>3
  <2>4. CASE d # c
    BY <1>9, <1>10, <2>1, <2>2, <2>4
  <2> QED
    BY <2>3, <2>4
<1>18. ASSUME NEW a \in Actor PROVE ActorOK(a)'
  <2>1. CASE a = s
    BY <1>12, <1>13, <2>1 DEF ActorOK
  <2>2. CASE a # s
    <3>1. req'[a] = req[a] /\ ActorOK(a)
      BY <1>1, <1>13, <2>2
    <3>2. CASE req[a].pc = "joining"
      <4>1. req[a].call # c /\ req[a].call \in Call
        BY <1>5, <2>2, <3>1, <3>2 DEF ActorOK
      <4>2. lock'[req[a].call] = a /\ Open(req[a].call)'
        BY <1>4, <1>14, <3>1, <3>2, <4>1 DEF ActorOK, Open
      <4>3. MayJoin(a, req[a].call)'
        <5>1. PICK d \in Call : d = req[a].call
          BY <4>1
        <5>2. MayJoin(a, d)
          BY <3>1, <3>2, <5>1 DEF ActorOK
        <5>3. Active(d)' = Active(d) /\ Active(d) \subseteq DOMAIN rows
          BY <1>1, <1>10, <4>1, <5>1, RowFacts
        <5>4. capacity' = capacity
          BY <1>4 DEF capacity, people
        <5>5. MayJoin(a, d)'
          BY <1>9, <5>2, <5>3, <5>4 DEF MayJoin
        <5> QED
          BY <3>1, <5>1, <5>5
      <4> QED
        BY <3>1, <3>2, <4>1, <4>2, <4>3 DEF ActorOK
    <3>3. CASE req[a].pc # "joining"
      BY <1>4, <3>1, <3>3 DEF ActorOK, Begun
    <3> QED
      BY <3>2, <3>3
  <2> QED
    BY <2>1, <2>2
<1>19. LocksOK'
  <2>1. \A d \in Call : lock'[d] # Free => req'[lock'[d]].pc = "joining" /\ req'[lock'[d]].call = d
    <3> SUFFICES ASSUME NEW d \in Call, lock'[d] # Free
                 PROVE  req'[lock'[d]].pc = "joining" /\ req'[lock'[d]].call = d
      OBVIOUS
    <3>1. d # c /\ lock'[d] = lock[d]
      BY <1>14
    <3>2. lock[d] \in Session /\ req[lock[d]].pc = "joining" /\ req[lock[d]].call = d
      BY <1>1, <3>1 DEF TypeOK, LocksOK
    <3>3. lock[d] # s
      BY <1>3, <3>1, <3>2
    <3> QED
      BY <1>2, <1>13, <3>1, <3>2, <3>3
  <2>2. \A t, u \in Session : req'[t].pc = "starting" /\ req'[u].pc = "starting" => t = u
    BY <1>1, <1>2, <1>12, <1>13 DEF LocksOK
  <2>3. \A d \in Call : call'[d].phase = "opening" => \E t \in Session : req'[t].pc = "starting" /\ req'[t].call = d
    BY <1>1, <1>2, <1>4, <1>13 DEF LocksOK
  <2> QED
    BY <2>1, <2>2, <2>3 DEF LocksOK
<1>20. RowsOK' /\ OneCall'
  <2>1. Begun(c)'
    BY <1>4, <1>5 DEF Begun, Open
  <2>2. \A r \in DOMAIN rows' : call'[rows'[r].call].phase \in {"open", "ended"}
    BY <1>1, <1>4, <1>6, <1>8, <2>1 DEF RowsOK, Begun
  <2> QED
    BY <1>1, <1>4, <2>2 DEF RowsOK, Begun, OneCall, InProgress
<1>21. ReconcilerOK'
  BY <1>1, <1>2, <1>4, <1>13 DEF ReconcilerOK, Begun
<1>22. EndedIsEmpty'
  <2> SUFFICES ASSUME NEW d \in Call, call'[d].phase = "ended", ~Marker(d)'
               PROVE  Active(d)' = {}
    BY DEF EndedIsEmpty, Marker
  <2>1. d # c /\ call[d].phase = "ended"
    BY <1>4, <1>5 DEF Open
  <2>2. ~Marker(d)
    BY <1>4, <1>13 DEF Marker
  <2> QED
    BY <1>1, <1>10, <2>1, <2>2 DEF EndedIsEmpty, Marker
<1>23. MissedIsTrue'
  <2> SUFFICES ASSUME NEW d \in push.missed
               PROVE  d \in push'.rung /\ call'[d].phase = "ended" /\ ~Answered(d)'
    BY <1>4 DEF MissedIsTrue
  <2>1. d \in push.rung /\ call[d].phase = "ended" /\ ~Answered(d)
    BY <1>1 DEF MissedIsTrue
  <2>2. RowsOf(d)' = RowsOf(d) /\ RowsOf(d) \subseteq DOMAIN rows
    BY <1>5, <1>10, <2>1 DEF Open, RowsOf
  <2>3. Answered(d)' <=> Answered(d)
    BY <1>4, <1>9, <2>2 DEF Answered, Callee
  <2> QED
    BY <1>4, <2>1, <2>3
<1> QED
  BY <1>15, <1>16, <1>17, <1>18, <1>19, <1>20, <1>21, <1>22, <1>23 DEF IInv

-------------------------------------------------------------------------------
(* The invariant and what follows                                          *)

LEMMA InitIInv == Init => IInv
<1> SUFFICES ASSUME Init PROVE IInv
  OBVIOUS
<1>1. /\ member \subseteq User /\ alive = Session /\ rows = <<>> /\ rec = Resting /\ dm \in BOOLEAN
      /\ call = [c \in Call |-> NoCall] /\ lock = [c \in Call |-> Free] /\ req = [a \in Actor |-> Idle]
      /\ sfu = [rooms |-> {}, in |-> {}] /\ push = [rung |-> {}, jobs |-> {}, missed |-> {}]
  BY CallsAssumption DEF Init, Members
<1>2. NoCall \in CallRow /\ NoCall.phase = "none" /\ Resting \in Reconcile /\ Resting.pc = "idle"
  BY DEF NoCall, CallRow, Resting, Reconcile
<1>3. Idle \in Doing /\ Idle.pc = "idle"
  BY DoFacts
<1>4. \A c \in Call : call[c] = NoCall /\ lock[c] = Free
  BY <1>1
<1>5. \A a \in Actor : req[a] = Idle
  BY <1>1
<1>6. \A c : Active(c) = {} /\ RowsOf(c) = {}
  BY <1>1 DEF Active, RowsOf
<1>7. Cardinality({}) = 0 /\ MaxRows \in Nat /\ capacity \in Nat
  BY FS_EmptySet, CallsAssumption DEF capacity
<1>8. TypeOK
  BY <1>1, <1>2, <1>3, <1>7 DEF TypeOK
<1>9. RowBound
  <2>1. Locked = {}
    BY <1>4 DEF Unlocked, Locked
  <2>2. Len(rows) = 0
    BY <1>1
  <2>3. Len(rows) + Cardinality(Locked) <= MaxRows
    BY <1>7, <2>1, <2>2
  <2> QED
    BY <2>3 DEF RowBound, Locked
<1>10. \A a \in Actor : ActorOK(a)
  BY <1>3, <1>5 DEF ActorOK
<1>11. \A a \in Actor : req[a].pc = "idle"
  BY <1>3, <1>5
<1>12. \A c \in Call : call[c].phase = "none"
  BY <1>2, <1>4
<1>13. LocksOK
  <2>1. Session \subseteq Actor
    BY DEF Actor
  <2> QED
    BY <1>4, <1>11, <1>12, <2>1 DEF LocksOK
<1>14. RowsOK /\ ReconcilerOK
  BY <1>1, <1>2 DEF RowsOK, ReconcilerOK
<1>15. OneCall /\ EndedIsEmpty
  BY <1>6, <1>12 DEF OneCall, InProgress, EndedIsEmpty
<1>16. SeatsKept
  BY <1>6, <1>7 DEF SeatsKept
<1>17. MissedIsTrue
  BY <1>1 DEF MissedIsTrue
<1> QED
  BY <1>8, <1>9, <1>10, <1>13, <1>14, <1>15, <1>16, <1>17 DEF IInv

LEMMA SessionStep ==
    ASSUME IInv, NEW s \in Session, NEW c \in Call,
           start(s, c) \/ join(s, c) \/ leave(s, c) \/ end(s, c) \/ decline(s, c)
    PROVE  IInv'
<1>1. s \in Actor /\ s # Reconciler
  BY CallsAssumption DEF Actor
<1>2. CASE start(s, c)
  BY <1>2, StartStep
<1>3. CASE join(s, c)
  BY <1>3, JoinStep
<1>4. CASE leave(s, c)
  BY <1>4, LeaveStep
<1>5. CASE end(s, c)
  <2>1. EndCall(s, c, FALSE) /\ Begun(c) /\ req[s] = Idle /\ UNCHANGED <<people, rows, lock, sfu, rec, push>>
    BY <1>5 DEF end, Request, Begun
  <2> QED
    BY <1>1, <2>1, DoFacts, EndStep
<1>6. CASE decline(s, c)
  BY <1>6, DeclineStep
<1> QED
  BY <1>2, <1>3, <1>4, <1>5, <1>6

LEMMA FinishingStep ==
    ASSUME IInv, NEW a \in Actor, Finish(a)
    PROVE  IInv'
<1>1. CASE mark(a)
  BY <1>1, MarkStep
<1>2. CASE deleteRoom(a) \/ requestFails(a) \/ (a \in Session /\ removeParticipant(a))
  BY <1>2, FinishStep
<1>3. CASE a \in Session /\ joinCommits(a)
  BY <1>3, JoinCommitsStep
<1>4. ASSUME a \in Session, NEW phase \in {"open", "void"}, startEnds(a, phase) PROVE IInv'
  <2>1. req[a].call \in Call
    BY <1>4 DEF startEnds, IInv, ActorOK
  <2> QED
    BY <1>4, <2>1, StartStep
<1>5. CASE a \in Session /\ declineEnds(a)
  BY <1>5, DeclineEndsStep
<1> QED
  BY <1>1, <1>2, <1>3, <1>4, <1>5 DEF Finish

LEMMA NextIInv == IInv /\ [Next]_vars => IInv'
<1> SUFFICES ASSUME IInv, [Next]_vars PROVE IInv'
  OBVIOUS
<1>1. ASSUME NEW s \in Session, NEW c \in Call,
             start(s, c) \/ join(s, c) \/ leave(s, c) \/ end(s, c) \/ decline(s, c)
      PROVE  IInv'
  BY <1>1, SessionStep
<1>2. CASE \E a \in Actor : Finish(a)
  BY <1>2, FinishingStep
<1>3. CASE ReconcileCalls
  BY <1>3, ReconcileCallsStep
<1>4. ASSUME NEW c \in Call, NotifyIncomingCall(c) \/ NotifyMissedCall(c) PROVE IInv'
  BY <1>4, PushStep
<1>5. ASSUME NEW c \in Call, age(c) PROVE IInv'
  BY <1>5, AgeStep
<1>6. CASE \/ \E c \in Call : closeEmpty(c)
           \/ \E r \in DOMAIN rows : connect(r) \/ disconnect(r)
  BY <1>6, MediaStep
<1>7. CASE \/ \E u \in Removable : removeMember(u)
           \/ \E s \in Revocable : revokeSession(s)
  BY <1>7, PeopleStep
<1>8. CASE UNCHANGED vars
  <2>1. UNCHANGED <<people, lock, req, push, call, rows, sfu, rec>>
    BY <1>8 DEF vars
  <2>2. TypeOK /\ RowsLeft({}) /\ SfuChange
    BY <2>1, SameRows DEF IInv, SfuChange
  <2>3. TypeOK'
    <3>1. UNCHANGED <<dm, lock>> /\ member' \subseteq member /\ alive' \subseteq alive
      BY <2>1 DEF people
    <3> QED
      BY <2>1, <2>2, <3>1, QuietType DEF TypeOK, PushType
  <2>4. ReconcilerOK'
    BY <2>1 DEF IInv, ReconcilerOK, Begun
  <2> QED
    BY <2>1, <2>2, <2>3, <2>4, Unchanged, QuietStep DEF people
<1> QED
  BY <1>1, <1>2, <1>3, <1>4, <1>5, <1>6, <1>7, <1>8 DEF Next

(* The inductive invariant holds in every reachable state.                 *)
THEOREM Invariance == Spec => []IInv
<1>1. IInv /\ [Next]_vars => IInv'
  BY NextIInv
<1> QED
  BY <1>1, InitIInv, PTL DEF Spec

(* Rooms, rows, locks and requests keep their types, whatever interleaves.  *)
THEOREM TypeCorrect == Spec => []TypeOK
<1>1. IInv => TypeOK
  BY DEF IInv
<1> QED
  BY <1>1, Invariance, PTL

(* A call never seats more than its capacity, nor anyone twice             *)
(* (CallService::join).                                                    *)
THEOREM SeatsAreKept == Spec => []SeatsKept
<1>1. IInv => SeatsKept
  BY DEF IInv
<1> QED
  BY <1>1, Invariance, PTL

(* An ended call whose participants were marked has none again             *)
(* (CallService::end, ::leave, ReconcileCalls).                            *)
THEOREM EndedCallsAreEmpty == Spec => []EndedIsEmpty
<1>1. IInv => EndedIsEmpty
  BY DEF IInv
<1> QED
  BY <1>1, Invariance, PTL

(* Nobody who joined is told of a missed call (NotifyMissedCall).          *)
THEOREM MissedCallsAreTrue == Spec => []MissedIsTrue
<1>1. IInv => MissedIsTrue
  BY DEF IInv
<1> QED
  BY <1>1, Invariance, PTL

(* A room never has two calls under way (CallService::start).              *)
THEOREM OneCallAtATime == Spec => []OneCall
<1>1. IInv => OneCall
  BY DEF IInv
<1> QED
  BY <1>1, Invariance, PTL
==================================================================================
