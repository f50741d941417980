--------------------------- MODULE RoomLogRefinement ---------------------------
(***************************************************************************)
(* RoomLog implements RoomFeed, for any number of handlers, members, client*)
(* ids and messages: a commit of either writer is a new entry, the commit  *)
(* of a delete erases one, markRead's UPDATE reads on or is a stutter, and *)
(* every other step is a stutter.                                          *)
(***************************************************************************)
EXTENDS RoomLogProofs, SequenceTheorems

(* The refinement mapping, as ImplementsFeed has it. *)
FeedNow == [s \in 1..last_seq |-> [author |-> msg[RowAt(s)].sender, cmid |-> msg[RowAt(s)].cmid]]
ErasedNow == {msg[i].seq : i \in Rows \ Undeleted}

FeedEntries == [author : User, cmid : Cmid \cup {NoCmid}]

(* The seqs of the rows, and the row at each. *)
RowsAreNumbered ==
    /\ last_seq \in Nat
    /\ \A i \in Rows : i \in MsgId /\ msg[i] \in Row /\ msg[i].seq \in 1..last_seq /\ RowAt(msg[i].seq) = i
    /\ \A s \in 1..last_seq : RowAt(s) \in Rows /\ msg[RowAt(s)].seq = s

-------------------------------------------------------------------------------

(* LogDense makes RowAt the inverse of seq.                                *)
LEMMA RowAtInverse == IInv => RowsAreNumbered
<1> SUFFICES ASSUME IInv PROVE RowsAreNumbered
  OBVIOUS
<1>1. last_seq \in Nat /\ LogDense
  BY DEF IInv, TypeOK
<1>2. ASSUME NEW s \in 1..last_seq PROVE RowAt(s) \in Rows /\ msg[RowAt(s)].seq = s
  <2>1. \E i \in Rows : msg[i].seq = s
    BY <1>1 DEF LogDense
  <2> QED
    BY <2>1 DEF RowAt
<1>3. ASSUME NEW i \in Rows
      PROVE  i \in MsgId /\ msg[i] \in Row /\ msg[i].seq \in 1..last_seq /\ RowAt(msg[i].seq) = i
  <2>1. i \in MsgId /\ msg[i] \in Row
    BY DEF IInv, TypeOK, Rows
  <2>2. msg[i].seq \in Nat \ {0} /\ msg[i].seq <= last_seq
    BY <1>1, <2>1 DEF LogDense, Row
  <2>3. msg[i].seq \in 1..last_seq
    BY <1>1, <2>2
  <2>4. RowAt(msg[i].seq) \in Rows /\ msg[RowAt(msg[i].seq)].seq = msg[i].seq
    BY <1>2, <2>3
  <2>5. RowAt(msg[i].seq) = i
    BY <1>1, <2>4 DEF LogDense
  <2> QED
    BY <2>1, <2>3, <2>5
<1> QED
  BY <1>1, <1>2, <1>3 DEF RowsAreNumbered

(* ... also after a step that keeps the invariant. *)
LEMMA RowAtInverseNext == IInv' => RowsAreNumbered'
BY RowAtInverse, PTL

(* The mapped feed is a sequence of last_seq entries. *)
LEMMA FeedIsSequence == ASSUME RowsAreNumbered
                        PROVE  FeedNow \in Seq(FeedEntries) /\ Len(FeedNow) = last_seq
<1>1. \A s \in 1..last_seq : msg[RowAt(s)] \in Row
  BY DEF RowsAreNumbered
<1>2. \A s \in 1..last_seq : [author |-> msg[RowAt(s)].sender, cmid |-> msg[RowAt(s)].cmid] \in FeedEntries
  BY <1>1 DEF Row, FeedEntries
<1>3. last_seq \in Nat
  BY DEF RowsAreNumbered
<1>4. FeedNow \in [1..last_seq -> FeedEntries]
  BY <1>2 DEF FeedNow
<1> QED
  BY <1>3, <1>4, IsASeq, LenProperties

(* A step that keeps the rows' keys keeps the feed.                        *)
LEMMA FeedKept == ASSUME RowsAreNumbered, RowsAreNumbered', KeysKept PROVE FeedNow' = FeedNow
<1>1. last_seq' = last_seq
  BY DEF KeysKept
<1>2. ASSUME NEW s \in 1..last_seq
      PROVE  /\ msg'[RowAt(s)'].sender = msg[RowAt(s)].sender
             /\ msg'[RowAt(s)'].cmid = msg[RowAt(s)].cmid
  <2>1. PICK i \in Rows : i = RowAt(s) /\ msg[i].seq = s
    BY DEF RowsAreNumbered
  <2>2. i \in Rows' /\ msg'[i].seq = s
    BY <2>1 DEF KeysKept
  <2>3. RowAt(s)' = i
    BY <2>2 DEF RowsAreNumbered
  <2> QED
    BY <2>1, <2>3 DEF KeysKept
<1> QED
  BY <1>1, <1>2 DEF FeedNow

(* A commit: the new row is the next entry, and its sender has read it.    *)
LEMMA CommitPosts ==
    ASSUME IInv, IInv', NEW p \in Proc, NEW id \in MsgId, SendCommit(p, id) \/ SystemCommit(p, id)
    PROVE  Feed!FeedNext
<1>1. RowsAreNumbered /\ RowsAreNumbered' /\ TypeOK
  BY RowAtInverse, RowAtInverseNext DEF IInv
<1> DEFINE u == req[p].user
<1> DEFINE c == IF At(p, "send") THEN req[p].cmid ELSE NoCmid
<1> DEFINE e == [author |-> u, cmid |-> c]
<1>2. /\ req[p].pc \in {"send", "system"} /\ req[p] \in Request /\ LocalOK(p)
      /\ req[p].pc = "send" <=> At(p, "send")
  BY DEF IInv, SendCommit, SystemCommit, At, TypeOK
<1>3. /\ u \in User /\ c \in Cmid \cup {NoCmid} /\ (At(p, "send") => c \in Cmid)
      /\ req[p].seq = last_seq + 1 /\ last_seq \in Nat
  BY <1>1, <1>2 DEF Request, Idle, LocalOK, TypeOK
<1>4. PICK row : /\ msg[id] = Absent /\ msg' = [msg EXCEPT ![id] = row]
                 /\ row.seq = last_seq + 1 /\ row.sender = u /\ row.cmid = c /\ row.deleted = FALSE
                 /\ last_seq' = last_seq + 1
                 /\ last_read' = [last_read EXCEPT ![u] = last_seq + 1]
  <2>1. CASE SendCommit(p, id)
    <3> DEFINE r == [seq |-> req[p].seq, sender |-> u, cmid |-> req[p].cmid, type |-> "user",
                     body |-> req[p].body, edit_count |-> 0, deleted |-> FALSE]
    <3>1. Insert(p, id, r, req[p].seq) /\ At(p, "send")
      BY <2>1 DEF SendCommit
    <3>2. r.seq = last_seq + 1 /\ r.sender = u /\ r.cmid = c /\ r.deleted = FALSE
      BY <1>3, <3>1
    <3> HIDE DEF r
    <3> QED
      BY <3>1, <3>2 DEF Insert, Written, Fresh
  <2>2. CASE SystemCommit(p, id)
    <3> DEFINE r == [seq |-> req[p].seq, sender |-> u, cmid |-> NoCmid, type |-> "system",
                     body |-> NoBody, edit_count |-> 0, deleted |-> FALSE]
    <3>1. Insert(p, id, r, last_user_seq) /\ ~At(p, "send")
      BY <2>2 DEF SystemCommit, At
    <3>2. r.seq = last_seq + 1 /\ r.sender = u /\ r.cmid = c /\ r.deleted = FALSE
      BY <1>3, <3>1
    <3> HIDE DEF r
    <3> QED
      BY <3>1, <3>2 DEF Insert, Written, Fresh
  <2> QED
    BY <2>1, <2>2
<1>5. /\ id \notin Rows /\ Rows' = Rows \cup {id} /\ msg'[id] = row
      /\ \A i \in Rows : msg'[i] = msg[i]
  <2>1. msg'[id] = row /\ \A i \in MsgId \ {id} : msg'[i] = msg[i]
    BY <1>1, <1>4 DEF TypeOK
  <2>2. row # Absent
    BY <1>3, <1>4 DEF Absent
  <2> QED
    BY <2>1, <2>2, <1>4 DEF Rows
<1>6. FeedNow \in Seq(FeedEntries) /\ Len(FeedNow) = last_seq /\ e \in FeedEntries
  BY <1>1, <1>3, FeedIsSequence DEF FeedEntries
<1>7. FeedNow' \in Seq(FeedEntries) /\ Len(FeedNow') = last_seq + 1
  <2>1. FeedNow' \in Seq(FeedEntries) /\ Len(FeedNow') = last_seq'
    <3>1. \A s \in 1..last_seq' : msg'[RowAt(s)'] \in Row
      BY <1>1 DEF RowsAreNumbered
    <3>2. \A s \in 1..last_seq' :
             [author |-> msg'[RowAt(s)'].sender, cmid |-> msg'[RowAt(s)'].cmid] \in FeedEntries
      BY <3>1 DEF Row, FeedEntries
    <3>3. FeedNow' \in [1..last_seq' -> FeedEntries] /\ last_seq' \in Nat
      BY <3>2, <1>3, <1>4 DEF FeedNow
    <3> QED
      BY <3>3, IsASeq, LenProperties
  <2> QED
    BY <2>1, <1>4
<1>8. \A s \in 1..last_seq : FeedNow'[s] = FeedNow[s]
  <2> SUFFICES ASSUME NEW s \in 1..last_seq PROVE FeedNow'[s] = FeedNow[s]
    OBVIOUS
  <2>1. PICK i \in Rows : i = RowAt(s) /\ msg[i].seq = s
    BY <1>1 DEF RowsAreNumbered
  <2>2. i \in Rows' /\ msg'[i] = msg[i]
    BY <2>1, <1>5
  <2>3. RowAt(s)' = i
    BY <2>1, <2>2, <1>1 DEF RowsAreNumbered
  <2>4. s \in 1..last_seq'
    BY <1>3, <1>4
  <2> QED
    BY <2>1, <2>2, <2>3, <2>4 DEF FeedNow
<1>9. FeedNow'[last_seq + 1] = e
  <2>1. PICK n : n = last_seq + 1
    OBVIOUS
  <2>2. id \in Rows' /\ msg'[id].seq = n /\ n \in 1..last_seq'
    BY <2>1, <1>3, <1>4, <1>5
  <2>3. RowAt(n)' = id
    BY <2>2, <1>1 DEF RowsAreNumbered
  <2>4. FeedNow'[n] = [author |-> msg'[id].sender, cmid |-> msg'[id].cmid]
    BY <2>2, <2>3 DEF FeedNow
  <2> QED
    BY <2>1, <2>4, <1>4, <1>5
<1>10. FeedNow' = Append(FeedNow, e)
  <2> HIDE DEF e
  <2> QED
    BY <1>3, <1>6, <1>7, <1>8, <1>9, AppendProperties, SeqEqual
<1>11. ErasedNow' = ErasedNow
  <2>1. Rows' \ Undeleted' = Rows \ Undeleted
    BY <1>4, <1>5 DEF Undeleted
  <2> QED
    BY <2>1, <1>5 DEF ErasedNow
<1>12. At(p, "send") => \A s \in 1..Len(FeedNow) : FeedNow[s] # e
  <2> SUFFICES ASSUME At(p, "send"), NEW s \in 1..last_seq PROVE FeedNow[s] # e
    BY <1>6
  <2>1. Existing(u, c) = {}
    BY <1>2 DEF LocalOK, At
  <2>2. RowAt(s) \in Rows
    BY <1>1 DEF RowsAreNumbered
  <2> QED
    BY <2>1, <2>2 DEF FeedNow, Existing
<1>13. Feed!Append1(u, c)
  BY <1>4, <1>6, <1>10, <1>11 DEF Feed!Append1, FeedNow, ErasedNow
<1>14. CASE At(p, "send")
  <2>1. Feed!Post(u, c)
    BY <1>12, <1>13, <1>14 DEF Feed!Post, FeedNow
  <2> QED
    BY <2>1, <1>3, <1>14 DEF Feed!FeedNext
<1>15. CASE ~At(p, "send")
  BY <1>3, <1>13, <1>15 DEF Feed!FeedNext, Feed!Note
<1> QED
  BY <1>14, <1>15

(* What the mapping is made of; while none of it changes, the feed stands. *)
FeedVarsKept == FeedNow' = FeedNow /\ ErasedNow' = ErasedNow /\ last_read' = last_read

LEMMA Stutter == ASSUME FeedVarsKept PROVE UNCHANGED Feed!feedVars
BY DEF FeedVarsKept, Feed!feedVars, FeedNow, ErasedNow

(* An edit writes body and edit_count, of which the feed knows nothing.    *)
LEMMA EditStutters ==
    ASSUME IInv, IInv', NEW p \in Proc, EditSave(p) PROVE FeedVarsKept
<1>1. RowsAreNumbered /\ RowsAreNumbered' /\ TypeOK
  BY RowAtInverse, RowAtInverseNext DEF IInv
<1> DEFINE r == req[p]
<1>2. /\ r.id \in Rows /\ UNCHANGED <<last_seq, last_user_seq, last_read>>
      /\ msg' = [msg EXCEPT ![r.id].body = IF r.body = r.old THEN @ ELSE r.body,
                            ![r.id].edit_count = r.edit_count + 1]
  BY DEF IInv, EditSave, LocalOK, At, roomRow
<1>3. KeysKept /\ \A i \in Rows : msg'[i].deleted = msg[i].deleted
  BY <1>1, <1>2 DEF KeysKept, Rows, TypeOK, Row, Absent
<1>4. FeedNow' = FeedNow
  BY <1>1, <1>3, FeedKept
<1>5. ErasedNow' = ErasedNow
  BY <1>3 DEF KeysKept, ErasedNow, Undeleted
<1> QED
  BY <1>2, <1>4, <1>5 DEF FeedVarsKept

(* The commit of a delete erases the entry of its row.                     *)
LEMMA DeleteErases ==
    ASSUME IInv, IInv', NEW p \in Proc, DeleteCommit(p) PROVE Feed!FeedNext
<1>1. RowsAreNumbered /\ RowsAreNumbered' /\ TypeOK
  BY RowAtInverse, RowAtInverseNext DEF IInv
<1>2. PICK d : d = req[p].id
  OBVIOUS
<1>3. /\ d \in Rows /\ UNCHANGED <<last_seq, last_user_seq, last_read>>
      /\ msg' = [msg EXCEPT ![d] = Tombstone(@, req[p].old)]
  BY <1>2 DEF IInv, DeleteCommit, LocalOK, At
<1>4. /\ KeysKept /\ msg'[d].deleted
      /\ \A i \in Rows \ {d} : msg'[i].deleted = msg[i].deleted
  BY <1>1, <1>3 DEF KeysKept, Rows, TypeOK, Row, Absent, Tombstone
<1>5. FeedNow' = FeedNow
  BY <1>1, <1>4, FeedKept
<1>6. PICK s \in 1..last_seq : s = msg[d].seq
  BY <1>1, <1>3 DEF RowsAreNumbered
<1>7. ErasedNow' = ErasedNow \cup {s}
  <2>1. Rows' \ Undeleted' = (Rows \ Undeleted) \cup {d}
    BY <1>3, <1>4 DEF KeysKept, Undeleted
  <2>2. \A i \in Rows : msg'[i].seq = msg[i].seq
    BY <1>4 DEF KeysKept
  <2>3. ErasedNow' = {msg[i].seq : i \in (Rows \ Undeleted) \cup {d}}
    BY <2>1, <2>2, <1>3 DEF ErasedNow
  <2> QED
    BY <2>3, <1>6 DEF ErasedNow
<1>8. Len(FeedNow) = last_seq
  BY <1>1, FeedIsSequence
<1>9. Feed!Erase(s)
  BY <1>3, <1>5, <1>7 DEF Feed!Erase, FeedNow, ErasedNow
<1> QED
  BY <1>6, <1>8, <1>9 DEF Feed!FeedNext, FeedNow

(* markRead's UPDATE reads on, or finds the pointer there already.         *)
LEMMA MarkReads ==
    ASSUME IInv, IInv', NEW p \in Proc, MarkUpdate(p)
    PROVE  Feed!FeedNext \/ FeedVarsKept
<1>1. RowsAreNumbered /\ TypeOK /\ LocalOK(p)
  BY RowAtInverse DEF IInv
<1>2. PICK u, s : u = req[p].user /\ s = req[p].seq
  OBVIOUS
<1>3. /\ u \in User /\ s \in Nat /\ s <= last_seq /\ last_seq \in Nat /\ last_read[u] \in Nat
      /\ last_read' = [last_read EXCEPT ![u] = Advance(@, s)]
      /\ UNCHANGED <<last_seq, msg>>
  BY <1>1, <1>2 DEF MarkUpdate, At, LocalOK, TypeOK, Request, Idle, roomRow
<1>4. FeedNow' = FeedNow /\ ErasedNow' = ErasedNow
  BY <1>3 DEF FeedNow, ErasedNow, RowAt, Rows, Undeleted
<1>5. CASE last_read[u] < s
  <2>1. Len(FeedNow) = last_seq
    BY <1>1, FeedIsSequence
  <2>2. s \in 1..last_seq
    BY <1>3, <1>5
  <2>3. Feed!Read(u, s)
    BY <1>3, <1>4, <1>5 DEF Feed!Read, FeedNow, ErasedNow, Advance
  <2> QED
    BY <1>3, <2>1, <2>2, <2>3 DEF Feed!FeedNext, FeedNow
<1>6. CASE ~(last_read[u] < s)
  <2>1. last_read' = last_read
    BY <1>1, <1>3, <1>6 DEF Advance, TypeOK
  <2> QED
    BY <1>4, <2>1 DEF FeedVarsKept
<1> QED
  BY <1>5, <1>6

(* Every step is a step of the feed or a stutter.                          *)
LEMMA StepRefines == IInv /\ IInv' /\ [Next]_vars => [Feed!FeedNext]_(Feed!feedVars)
<1> SUFFICES ASSUME IInv, IInv', [Next]_vars PROVE Feed!FeedNext \/ FeedVarsKept
  BY Stutter
<1>1. ASSUME UNCHANGED <<msg, last_seq, last_read>> PROVE FeedVarsKept
  BY <1>1 DEF FeedVarsKept, FeedNow, ErasedNow, RowAt, Rows, Undeleted
<1>2. CASE UNCHANGED vars
  BY <1>1, <1>2 DEF vars, roomRow
<1>3. ASSUME NEW p \in Proc, Step(p) PROVE Feed!FeedNext \/ FeedVarsKept
  <2>1. ASSUME NEW id \in MsgId, SendCommit(p, id) \/ SystemCommit(p, id) PROVE Feed!FeedNext
    BY <2>1, CommitPosts
  <2>2. CASE EditSave(p)
    BY <2>2, EditStutters
  <2>3. CASE DeleteCommit(p)
    BY <2>3, DeleteErases
  <2>4. CASE MarkUpdate(p)
    BY <2>4, MarkReads
  <2>5. ASSUME \A id \in MsgId : ~SendCommit(p, id) /\ ~SystemCommit(p, id),
               ~EditSave(p), ~DeleteCommit(p), ~MarkUpdate(p)
        PROVE  UNCHANGED <<msg, last_seq, last_read>>
    BY <1>3, <2>5 DEF Step, SendLock, SystemLock, LockRoom, FanOut, EditLoad, DeleteLoad, DeleteLoadRoom,
       DeleteRow, DeletePick, MarkLoad, MarkDecide, MarkBroadcast, Abort, roomRow
  <2> QED
    BY <1>1, <2>1, <2>2, <2>3, <2>4, <2>5
<1> QED
  BY <1>2, <1>3 DEF Next

(* The handlers, with their locks, stale copies and rollbacks, implement   *)
(* the feed the members of a room were promised: entries are appended,     *)
(* never lost or repeated, erased in place, and read positions advance     *)
(* (MessageWriter, SystemMessageWriter, MessageEditor, markRead).          *)
THEOREM RoomImplementsFeed == Spec => ImplementsFeed
<1>1. Init => Feed!FeedInit
  BY DEF Init, Feed!FeedInit, Rows, Absent, Undeleted
<1> QED
  BY <1>1, StepRefines, Invariant, PTL DEF Spec, ImplementsFeed, Feed!FeedSpec

================================================================================
