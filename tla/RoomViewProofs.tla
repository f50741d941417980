----------------------------- MODULE RoomViewProofs -----------------------------
(***************************************************************************)
(* Proofs about RoomView and MessageStore, for any number of messages,     *)
(* edits, requests and disconnections, and any page size.                  *)
(*                                                                         *)
(* What the client has of a row, or is on its way to it, is what the       *)
(* server's row once was.  From this follows that a row which a refresh    *)
(* has brought up to date stays so whatever old events and pages follow,   *)
(* and from that, page by page, that the refresh catches up.               *)
(***************************************************************************)
EXTENDS RoomView, FiniteSetTheorems, WellFoundedInduction, TLAPS

(* A copy read from a row some time ago; and one whose row may have been   *)
(* deleted on the word of an event, while its edits are not known.         *)
Snapshot(copy, row) == copy.edits <= row.edits /\ (copy.deleted => copy = row)
Behind(copy, row)   == copy.edits <= row.edits /\ (copy.deleted => row.deleted)

Snapshots(page) == \A s \in DOMAIN page : s \in DOMAIN room /\ Snapshot(page[s], room[s])

(* All copies anywhere. *)
CopiesOK ==
    /\ \A s \in DOMAIN st.byId : s \in DOMAIN room /\ Behind(st.byId[s], room[s])
    /\ Snapshots(cache)
    /\ \A e \in events : /\ e.seq \in DOMAIN room /\ Snapshot(e.row, room[e.seq])
                         /\ e.name = "message.deleted" => room[e.seq].deleted
    /\ \A kind \in Kinds : reqs[kind].pc = "read" => Snapshots(reqs[kind].page)

Caught(s) == s \in DOMAIN st.byId /\ st.byId[s] = room[s]

(* Rows the refresh is to catch up with: those from the oldest on screen   *)
(* that have not changed since.                                            *)
Wanted == {s \in DOMAIN room : s >= sync.from /\ s \notin sync.changed}

(* The running refresh has caught up with the wanted rows up to its        *)
(* cursor; or it has them in the page it has read, or will ask for them    *)
(* after it.  The first page of an empty window decides what is wanted.    *)
SyncOK ==
    LET r == reqs["sync"] IN
    /\ sync.pc = "running" <=> r # Free
    /\ r # Free /\ r.newest => sync.from = 1
    /\ r.pc = "asked" =>
          /\ r.before = Top
          /\ IF r.newest THEN r.after = 0 ELSE \A s \in Wanted : s <= r.after => Caught(s)
    /\ r.pc = "read" =>
          /\ r.more => DOMAIN r.page # {}
          /\ \A s \in Wanted :
                \/ s \in DOMAIN r.page /\ r.page[s] = room[s]
                \/ s \notin DOMAIN r.page /\ Caught(s)
                \/ r.more /\ \A t \in DOMAIN r.page : t < s
                \/ r.newest /\ DOMAIN r.page # {} /\ \A t \in DOMAIN r.page : s < t

IInv == TypeOK /\ WithheldHasDeadline /\ CopiesOK /\ SyncOK

-------------------------------------------------------------------------------
(* Seqs and copies *)

LEMMA OldestOf ==
    ASSUME NEW seqs \in SUBSET Nat, seqs # {}
    PROVE  Oldest(seqs) \in seqs /\ \A t \in seqs : Oldest(seqs) <= t
<1> DEFINE R == {p \in Nat \X Nat : p[1] < p[2]}
<1>1. IsWellFoundedOn(R, Nat)
  BY NatLessThanWellFounded DEF OpToRel
<1>2. \E s \in seqs : \A t \in seqs : <<t, s>> \notin R
  BY <1>1, WFMin
<1>3. \A s, t \in Nat : <<t, s>> \notin R => s <= t
  BY DEF R
<1> HIDE DEF R
<1>4. \E s \in seqs : \A t \in seqs : s <= t
  BY <1>2, <1>3
<1> QED
  BY <1>4 DEF Oldest

LEMMA NewestOf ==
    ASSUME NEW seqs \in SUBSET Seq1, seqs # {}
    PROVE  Newest(seqs) \in seqs /\ \A t \in seqs : t <= Newest(seqs)
<1> DEFINE below == {MaxMsgs - s : s \in seqs}
<1>1. below \in SUBSET Nat /\ below # {}
  BY StoreAssumption DEF Seq1
<1>2. Oldest(below) \in below /\ \A u \in below : Oldest(below) <= u
  BY <1>1, OldestOf
<1>3. PICK s \in seqs : Oldest(below) = MaxMsgs - s
  BY <1>2
<1>4. ASSUME NEW t \in seqs PROVE t <= s
  <2>1. MaxMsgs - s <= MaxMsgs - t
    BY <1>2, <1>3
  <2> QED
    BY <2>1, <1>3, StoreAssumption DEF Seq1
<1> QED
  BY <1>4 DEF Newest

LEMMA CopiesAre ==
    ASSUME NEW f
    PROVE  f \in Copies <=> DOMAIN f \in SUBSET Seq1 /\ f \in [DOMAIN f -> Copy]
  BY DEF Copies

LEMMA EmptyPage == EmptyStore.byId \in Copies /\ DOMAIN EmptyStore.byId = {}
<1>1. EmptyStore.byId = [s \in {} |-> 0]
  BY DEF EmptyStore
<1>2. DOMAIN [s \in {} |-> 0] = {} /\ [s \in {} |-> 0] \in [{} -> Copy]
  OBVIOUS
<1> QED
  BY <1>1, <1>2, CopiesAre

(* Merging two copies of a row: the deleted one, or the later edit.        *)
LEMMA Merging ==
    ASSUME NEW c \in Copy, NEW d \in Copy
    PROVE  LET m == MergeExisting(c, d) IN
           /\ m \in {c, d}
           /\ c.deleted => m.deleted
           /\ m.deleted \/ m.edits >= c.edits
           /\ \A row \in Copy : /\ c = row /\ Snapshot(d, row) => m = row
                                /\ d = row /\ Behind(c, row) => m = row
  BY StoreAssumption DEF MergeExisting, Copy, Snapshot, Behind

-------------------------------------------------------------------------------
(* What becomes of a window *)

Deadline(s) == s.shown # DOMAIN s.byId => s.needsFill # NoGap /\ s.fillTimer

LEMMA RecomputeOK ==
    ASSUME NEW s \in Store
    PROVE  LET n == Recompute(s) IN n \in Store /\ n.byId = s.byId /\ Deadline(n)
<1> DEFINE all == DOMAIN s.byId
           run == IF all = {} THEN {} ELSE Run(all)
           n == Recompute(s)
<1>1. all \in SUBSET Seq1 /\ s.byId \in Copies
  BY CopiesAre DEF Store
<1>2. CASE s.seeded /\ run # all
  <2>1. n = Withhold(s, run)
    BY <1>2 DEF Recompute
  <2>2. all # {} /\ run = Run(all)
    BY <1>2
  <2>3. all \in SUBSET Nat
    BY <1>1, StoreAssumption DEF Seq1
  <2>4. Oldest(all) \in all /\ Oldest(all) \in Nat
    BY <2>2, <2>3, OldestOf
  <2>5. Oldest(all)..Oldest(all) = {Oldest(all)}
    BY <2>4
  <2>6. Oldest(all) \in run /\ run \in SUBSET Seq1 /\ run \subseteq all
    BY <1>1, <2>2, <2>4, <2>5 DEF Run
  <2> HIDE DEF run
  <2>7. Newest(run) \in Seq1
    BY <2>6, NewestOf
  <2>8. all \ run # {} /\ all \ run \in SUBSET Nat
    BY <1>2, <2>3, <2>6
  <2>9. Oldest(all \ run) \in Seq1
    BY <1>1, <2>8, OldestOf
  <2>10. n = [s EXCEPT !.shown = run, !.fillTimedOut = FALSE, !.fillTimer = TRUE,
                       !.needsFill = [after |-> Newest(run), before |-> Oldest(all \ run)]]
    BY <2>1 DEF Withhold
  <2> DEFINE gap == [after |-> Newest(run), before |-> Oldest(all \ run)]
  <2>11. gap \in [after : 0..MaxMsgs, before : 0..MaxMsgs] /\ gap # NoGap
    BY <2>7, <2>9, StoreAssumption DEF Seq1, NoGap
  <2> HIDE DEF gap, n
  <2> QED
    BY <1>1, <2>6, <2>10, <2>11 DEF Store, Deadline, gap, n
<1>3. CASE ~(s.seeded /\ run # all)
  <2>1. n = [s EXCEPT !.shown = all, !.fillTimedOut = FALSE, !.fillTimer = FALSE, !.needsFill = NoGap]
    BY <1>3 DEF Recompute
  <2>2. NoGap \in [after : 0..MaxMsgs, before : 0..MaxMsgs]
    BY StoreAssumption DEF NoGap
  <2> QED
    BY <1>1, <2>1, <2>2 DEF Store, Deadline
<1> QED
  BY <1>2, <1>3

LEMMA InsertOK ==
    ASSUME NEW byId \in Copies, NEW page \in Copies
    PROVE  LET n == Insert(byId, page) IN
           /\ n \in Copies
           /\ DOMAIN n = DOMAIN byId \cup DOMAIN page
           /\ \A s \in DOMAIN byId \ DOMAIN page : n[s] = byId[s]
           /\ \A s \in DOMAIN page \ DOMAIN byId : n[s] = page[s]
           /\ \A s \in DOMAIN page \cap DOMAIN byId : n[s] = MergeExisting(byId[s], page[s])
<1> DEFINE n == Insert(byId, page)
<1>1. /\ DOMAIN n = DOMAIN byId \cup DOMAIN page
      /\ \A s \in DOMAIN byId \ DOMAIN page : n[s] = byId[s]
      /\ \A s \in DOMAIN page \ DOMAIN byId : n[s] = page[s]
      /\ \A s \in DOMAIN page \cap DOMAIN byId : n[s] = MergeExisting(byId[s], page[s])
      /\ n = [s \in DOMAIN n |-> n[s]]
  BY DEF Insert
<1>2. /\ DOMAIN byId \in SUBSET Seq1 /\ DOMAIN page \in SUBSET Seq1
      /\ \A s \in DOMAIN byId : byId[s] \in Copy
      /\ \A s \in DOMAIN page : page[s] \in Copy
  BY CopiesAre
<1>3. \A s \in DOMAIN page \cap DOMAIN byId : MergeExisting(byId[s], page[s]) \in Copy
  BY <1>2, Merging
<1> HIDE DEF n
<1>4. \A s \in DOMAIN n : n[s] \in Copy
  BY <1>1, <1>2, <1>3
<1>5. n \in Copies
  BY <1>1, <1>2, <1>4, CopiesAre
<1> QED
  BY <1>1, <1>5 DEF n

LEMMA MergeOK ==
    ASSUME NEW s \in Store, NEW page \in Copies, NEW n \in {Add(s, page), MergePage(s, page)}
    PROVE  n \in Store /\ n.byId = Insert(s.byId, page) /\ Deadline(n)
<1> DEFINE byId == Insert(s.byId, page)
<1>1. byId \in Copies
  BY InsertOK DEF Store
<1> HIDE DEF byId
<1> DEFINE a == [s EXCEPT !.byId = byId]
           b == [s EXCEPT !.byId = byId, !.seeded = TRUE]
<1>2. a \in Store /\ a.byId = byId /\ b \in Store /\ b.byId = byId
  BY <1>1 DEF Store
<1>3. n \in {Recompute(a), Recompute(b)}
  BY DEF Add, MergePage, byId
<1> HIDE DEF a, b
<1> QED
  BY <1>2, <1>3, RecomputeOK DEF byId

-------------------------------------------------------------------------------
(* What the client learns *)

(* The window may become this one: it stays behind the server's rows, no   *)
(* row of it goes back, and those as the server has them stay so.          *)
Learns(new) ==
    /\ new \in Store /\ Deadline(new)
    /\ \A s \in DOMAIN new.byId : s \in DOMAIN room /\ Behind(new.byId[s], room[s])
    /\ \A s \in DOMAIN st.byId :
          /\ s \in DOMAIN new.byId
          /\ st.byId[s].deleted => new.byId[s].deleted
          /\ new.byId[s].deleted \/ new.byId[s].edits >= st.byId[s].edits
          /\ Caught(s) => new.byId[s] = room[s]

LEMMA RoomRows == ASSUME TypeOK PROVE /\ DOMAIN room = 1..Len(room) /\ Len(room) \in Nat
                                      /\ DOMAIN room \subseteq Seq1
                                      /\ \A s \in DOMAIN room : room[s] \in Copy
<1>1. room \in Seq(Copy) /\ Len(room) <= MaxMsgs
  BY DEF TypeOK
<1>2. DOMAIN room = 1..Len(room) /\ Len(room) \in Nat /\ \A s \in 1..Len(room) : room[s] \in Copy
  BY <1>1
<1> QED
  BY <1>1, <1>2, StoreAssumption DEF Seq1

(* A page of old and new copies is merged.                                 *)
LEMMA MergeLearns ==
    ASSUME TypeOK, CopiesOK, NEW page \in Copies, Snapshots(page),
           NEW n \in {Add(st, page), MergePage(st, page)}
    PROVE  /\ Learns(n)
           /\ \A s \in DOMAIN page : page[s] = room[s] => s \in DOMAIN n.byId /\ n.byId[s] = room[s]
<1>1. st \in Store /\ st.byId \in Copies
  BY DEF TypeOK, Store
<1>2. n \in Store /\ n.byId = Insert(st.byId, page) /\ Deadline(n)
  BY <1>1, MergeOK
<1>3. /\ DOMAIN n.byId = DOMAIN st.byId \cup DOMAIN page
      /\ \A s \in DOMAIN st.byId \ DOMAIN page : n.byId[s] = st.byId[s]
      /\ \A s \in DOMAIN page \ DOMAIN st.byId : n.byId[s] = page[s]
      /\ \A s \in DOMAIN page \cap DOMAIN st.byId : n.byId[s] = MergeExisting(st.byId[s], page[s])
  <2> DEFINE byId == st.byId
             m == Insert(byId, page)
  <2>1. byId \in Copies /\ n.byId = m
    BY <1>1, <1>2
  <2> HIDE DEF byId
  <2>2. /\ DOMAIN m = DOMAIN byId \cup DOMAIN page
        /\ \A s \in DOMAIN byId \ DOMAIN page : m[s] = byId[s]
        /\ \A s \in DOMAIN page \ DOMAIN byId : m[s] = page[s]
        /\ \A s \in DOMAIN page \cap DOMAIN byId : m[s] = MergeExisting(byId[s], page[s])
    BY ONLY <2>1, InsertOK, Zenon
  <2> HIDE DEF m
  <2> QED
    BY <2>1, <2>2 DEF byId
<1>4. /\ \A s \in DOMAIN st.byId : st.byId[s] \in Copy /\ st.byId[s].edits \in Nat
      /\ \A s \in DOMAIN page : page[s] \in Copy
  BY <1>1, CopiesAre DEF Copy
<1>5. /\ \A s \in DOMAIN st.byId : s \in DOMAIN room /\ Behind(st.byId[s], room[s])
      /\ \A s \in DOMAIN page : s \in DOMAIN room /\ Snapshot(page[s], room[s]) /\ Behind(page[s], room[s])
  BY DEF CopiesOK, Snapshots, Snapshot, Behind
<1>6. ASSUME NEW s \in DOMAIN page \cap DOMAIN st.byId
      PROVE  LET c == st.byId[s]  d == page[s]  m == n.byId[s] IN
             /\ m \in {c, d}
             /\ c.deleted => m.deleted
             /\ m.deleted \/ m.edits >= c.edits
             /\ c = room[s] => m = room[s]
             /\ d = room[s] => m = room[s]
  BY <1>3, <1>4, <1>5, <1>6, Merging, RoomRows
<1>7. \A s \in DOMAIN n.byId : s \in DOMAIN room /\ Behind(n.byId[s], room[s])
  BY <1>3, <1>5, <1>6
<1>8. ASSUME NEW s \in DOMAIN st.byId
      PROVE  /\ s \in DOMAIN n.byId
             /\ st.byId[s].deleted => n.byId[s].deleted
             /\ n.byId[s].deleted \/ n.byId[s].edits >= st.byId[s].edits
             /\ Caught(s) => n.byId[s] = room[s]
  BY <1>3, <1>4, <1>6 DEF Caught
<1>9. \A s \in DOMAIN page : page[s] = room[s] => s \in DOMAIN n.byId /\ n.byId[s] = room[s]
  BY <1>3, <1>6
<1> QED
  BY <1>2, <1>7, <1>8, <1>9 DEF Learns

(* A row the server has deleted is marked so.                              *)
LEMMA DeleteLearns ==
    ASSUME TypeOK, CopiesOK, WithheldHasDeadline, NEW s \in DOMAIN room, room[s].deleted
    PROVE  Learns(MarkDeleted(st, s))
<1>1. st \in Store /\ st.byId \in Copies /\ Deadline(st)
  BY DEF TypeOK, Store, WithheldHasDeadline, Deadline
<1>2. /\ DOMAIN st.byId \in SUBSET Seq1 /\ st.byId \in [DOMAIN st.byId -> Copy]
      /\ \A t \in DOMAIN st.byId : st.byId[t].edits \in Nat
      /\ \A t \in DOMAIN st.byId : t \in DOMAIN room /\ Behind(st.byId[t], room[t])
  <2>1. DOMAIN st.byId \in SUBSET Seq1 /\ st.byId \in [DOMAIN st.byId -> Copy]
    BY <1>1, CopiesAre
  <2> QED
    BY <2>1, StoreAssumption DEF Copy, CopiesOK
<1>3. CASE s \notin DOMAIN st.byId
  BY <1>1, <1>2, <1>3 DEF MarkDeleted, Learns, Caught
<1>4. CASE s \in DOMAIN st.byId
  <2> DEFINE byId == [st.byId EXCEPT ![s].deleted = TRUE]
             m == [st EXCEPT !.byId = byId]
  <2>1. st.byId[s] \in Copy /\ [st.byId[s] EXCEPT !.deleted = TRUE] \in Copy
    BY <1>2, <1>4 DEF Copy
  <2>2. /\ byId[s] = [st.byId[s] EXCEPT !.deleted = TRUE] /\ DOMAIN byId = DOMAIN st.byId
        /\ \A t \in DOMAIN byId \ {s} : byId[t] = st.byId[t]
        /\ byId \in [DOMAIN byId -> Copy]
    BY <1>2, <1>4, <2>1
  <2>3. byId[s].deleted /\ byId[s].edits = st.byId[s].edits
    BY <2>1, <2>2 DEF Copy
  <2>4. st.byId[s].deleted => byId[s] = st.byId[s]
    BY <2>1, <2>2 DEF Copy
  <2>5. MarkDeleted(st, s) = Recompute(m)
    BY <1>1, <1>4 DEF MarkDeleted, Store
  <2> HIDE DEF byId
  <2>6. m \in Store /\ m.byId = byId
    BY <1>1, <1>2, <2>2, CopiesAre DEF Store
  <2> HIDE DEF m
  <2>7. LET n == Recompute(m) IN n \in Store /\ n.byId = byId /\ Deadline(n)
    BY <2>6, RecomputeOK
  <2>8. \A t \in DOMAIN byId : t \in DOMAIN room /\ Behind(byId[t], room[t])
    BY <1>2, <1>4, <2>2, <2>3 DEF Behind
  <2>9. ASSUME NEW t \in DOMAIN st.byId
        PROVE  /\ st.byId[t].deleted => byId[t].deleted
               /\ byId[t].deleted \/ byId[t].edits >= st.byId[t].edits
               /\ Caught(t) => byId[t] = room[t]
    <3>1. CASE t = s
      <4>1. Caught(t) => st.byId[s] = room[s]
        BY <3>1 DEF Caught
      <4>2. st.byId[s].edits \in Nat
        BY <1>2, <1>4
      <4>3. st.byId[s] = room[s] => byId[s] = room[s]
        BY <2>4
      <4> QED
        BY <2>3, <3>1, <4>1, <4>2, <4>3
    <3>2. CASE t # s
      BY <1>2, <2>2, <3>2 DEF Caught
    <3> QED
      BY <3>1, <3>2
  <2> QED
    BY <2>2, <2>5, <2>7, <2>8, <2>9 DEF Learns
<1> QED
  BY <1>3, <1>4

LEMMA TimeoutLearns ==
    ASSUME TypeOK, CopiesOK
    PROVE  Learns(FillTimeout(st))
<1>1. st \in Store /\ st.byId \in Copies
  BY DEF TypeOK, Store
<1>2. /\ DOMAIN st.byId \in SUBSET Seq1 /\ st.byId \in [DOMAIN st.byId -> Copy]
  BY <1>1, CopiesAre
<1>3. NoGap \in [after : 0..MaxMsgs, before : 0..MaxMsgs]
  BY StoreAssumption DEF NoGap
<1>4. /\ FillTimeout(st) \in Store
      /\ FillTimeout(st).byId = st.byId /\ FillTimeout(st).shown = DOMAIN st.byId
  BY <1>1, <1>2, <1>3 DEF FillTimeout, Store
<1>5. \A t \in DOMAIN st.byId : st.byId[t].edits \in Nat
  BY <1>2, StoreAssumption DEF Copy
<1> QED
  BY <1>4, <1>5 DEF Learns, Deadline, CopiesOK, Caught
-------------------------------------------------------------------------------
(* What the server does *)

(* Rows are added, edited and deleted; a copy of an earlier row remains    *)
(* one, and a running refresh knows of every change.                       *)
Later(c, s) == /\ Snapshot(c, room[s]) => Snapshot(c, room'[s])
               /\ Behind(c, room[s]) => Behind(c, room'[s])
RoomGoesOn ==
    /\ room' \in Seq(Copy) /\ Len(room') <= MaxMsgs
    /\ DOMAIN room \subseteq DOMAIN room'
    /\ \A s \in DOMAIN room : /\ \A c \in Copy : Later(c, s)
                              /\ room[s].deleted => room'[s].deleted
    /\ sync.pc = "running" =>
          \A s \in DOMAIN room' \ sync'.changed : s \in DOMAIN room /\ room'[s] = room[s]
    /\ sync' \in SyncType
    /\ sync'.pc = sync.pc /\ sync'.from = sync.from /\ sync.changed \subseteq sync'.changed

LEMMA ChangedOK ==
    ASSUME sync \in SyncType, NEW s \in Seq1, Changed(s)
    PROVE  /\ sync' \in SyncType
           /\ sync'.pc = sync.pc /\ sync'.from = sync.from /\ sync.changed \subseteq sync'.changed
           /\ sync.pc = "running" => s \in sync'.changed
  BY DEF Changed, SyncType

LEMMA PostGoesOn ==
    ASSUME TypeOK, Post
    PROVE  RoomGoesOn /\ LET s == Len(room) + 1 IN
                         /\ s \in DOMAIN room' /\ s \in Seq1 /\ room'[s] \in Copy /\ ~room'[s].deleted
<1> DEFINE s == Len(room) + 1
           row == [edits |-> 0, deleted |-> FALSE]
<1>1. /\ DOMAIN room = 1..Len(room) /\ Len(room) \in Nat
      /\ \A t \in DOMAIN room : room[t] \in Copy
      /\ room \in Seq(Copy) /\ sync \in SyncType
  BY RoomRows DEF TypeOK
<1>2. row \in Copy /\ ~row.deleted
  BY StoreAssumption DEF Copy
<1> HIDE DEF row
<1>3. room' = Append(room, row) /\ s <= MaxMsgs /\ s \in Seq1 /\ Changed(s)
  BY <1>1, StoreAssumption DEF Post, row, Seq1
<1>4. /\ room' \in Seq(Copy) /\ Len(room') = s /\ DOMAIN room' = 1..s /\ room'[s] = row
      /\ \A t \in 1..Len(room) : room'[t] = room[t]
  BY <1>1, <1>2, <1>3
<1>5. /\ sync' \in SyncType
      /\ sync'.pc = sync.pc /\ sync'.from = sync.from /\ sync.changed \subseteq sync'.changed
      /\ sync.pc = "running" => s \in sync'.changed
  BY <1>1, <1>3, ChangedOK
<1>6. \A t \in DOMAIN room' : t \in DOMAIN room \/ t = s
  BY <1>1, <1>4
<1>7. DOMAIN room \subseteq DOMAIN room' /\ s \in DOMAIN room'
  BY <1>1, <1>4
<1>8. \A t \in DOMAIN room : room'[t] = room[t]
  BY <1>1, <1>4
<1> HIDE DEF s
<1> QED
  BY <1>2, <1>3, <1>4, <1>5, <1>6, <1>7, <1>8 DEF RoomGoesOn, Later, s

LEMMA RowGoesOn ==
    ASSUME TypeOK, NEW s \in DOMAIN room, ~room[s].deleted, NEW row \in Copy,
           row.edits >= room[s].edits, room' = [room EXCEPT ![s] = row], Changed(s)
    PROVE  RoomGoesOn /\ room'[s] = row /\ s \in DOMAIN room' /\ s \in Seq1
<1>1. /\ DOMAIN room = 1..Len(room) /\ Len(room) \in Nat /\ DOMAIN room \subseteq Seq1
      /\ \A t \in DOMAIN room : room[t] \in Copy
      /\ room \in Seq(Copy) /\ Len(room) <= MaxMsgs /\ sync \in SyncType
  BY RoomRows DEF TypeOK
<1>2. /\ DOMAIN room' = DOMAIN room /\ room'[s] = row
      /\ \A t \in DOMAIN room \ {s} : room'[t] = room[t]
  BY <1>1
<1>3. room' \in Seq(Copy) /\ Len(room') = Len(room)
  BY <1>1
<1>4. /\ sync' \in SyncType
      /\ sync'.pc = sync.pc /\ sync'.from = sync.from /\ sync.changed \subseteq sync'.changed
      /\ sync.pc = "running" => s \in sync'.changed
  BY <1>1, ChangedOK
<1>5. ASSUME NEW c \in Copy PROVE Later(c, s)
  <2>1. Behind(c, room[s]) => c.edits <= row.edits /\ ~c.deleted
    BY <1>1, StoreAssumption DEF Behind, Copy
  <2>2. Snapshot(c, room[s]) => c.edits <= row.edits /\ ~c.deleted
    BY <1>1, StoreAssumption DEF Snapshot, Copy
  <2> QED
    BY <1>2, <2>1, <2>2 DEF Later, Snapshot, Behind
<1>6. \A t \in DOMAIN room : \A c \in Copy : Later(c, t)
  <2>1. \A t \in DOMAIN room \ {s} : \A c \in Copy : Later(c, t)
    BY <1>2 DEF Later
  <2> QED
    BY <1>5, <2>1
<1> QED
  BY <1>1, <1>2, <1>3, <1>4, <1>6 DEF RoomGoesOn

LEMMA EditGoesOn ==
    ASSUME TypeOK, NEW s, Edit(s)
    PROVE  RoomGoesOn /\ s \in DOMAIN room' /\ s \in Seq1 /\ room'[s] \in Copy
<1> DEFINE row == [room[s] EXCEPT !.edits = @ + 1]
<1>1. s \in DOMAIN room /\ ~room[s].deleted /\ room[s] \in Copy /\ Changed(s) /\ room[s].edits < MaxEdits
  BY RoomRows DEF Edit
<1>2. row \in Copy /\ row.edits >= room[s].edits
  BY <1>1, StoreAssumption DEF Copy
<1>3. room' = [room EXCEPT ![s] = row]
  BY DEF Edit
<1> HIDE DEF row
<1> QED
  BY <1>1, <1>2, <1>3, RowGoesOn

LEMMA DeleteGoesOn ==
    ASSUME TypeOK, NEW s, Delete(s)
    PROVE  RoomGoesOn /\ s \in DOMAIN room' /\ s \in Seq1 /\ room'[s] \in Copy /\ room'[s].deleted
<1> DEFINE row == [room[s] EXCEPT !.deleted = TRUE]
<1>1. s \in DOMAIN room /\ ~room[s].deleted /\ room[s] \in Copy /\ Changed(s)
  BY RoomRows DEF Delete
<1>2. row \in Copy /\ row.edits >= room[s].edits /\ row.deleted
  <2>1. row \in Copy /\ row.edits = room[s].edits /\ row.deleted
    BY <1>1 DEF Copy
  <2>2. room[s].edits \in Nat
    BY <1>1, StoreAssumption DEF Copy
  <2> HIDE DEF row
  <2> QED
    BY <2>1, <2>2
<1>3. room' = [room EXCEPT ![s] = row]
  BY DEF Delete
<1> HIDE DEF row
<1> QED
  BY <1>1, <1>2, <1>3, RowGoesOn

(* A page is the newest, or the first, of the rows asked for.              *)
LEMMA TakeOK ==
    ASSUME NEW seqs \in SUBSET Seq1, NEW newest \in BOOLEAN
    PROVE  /\ Take(seqs, newest) \subseteq seqs
           /\ seqs # {} => Take(seqs, newest) # {}
           /\ \A s \in seqs \ Take(seqs, newest), t \in Take(seqs, newest) :
                 IF newest THEN s < t ELSE t < s
<1> DEFINE Before(s) == {t \in seqs : IF newest THEN t > s ELSE t < s}
<1>1. \A s \in seqs : s \in Take(seqs, newest) <=> Cardinality(Before(s)) < Limit
  BY DEF Take
<1>2. Take(seqs, newest) \subseteq seqs
  BY DEF Take
<1>3. IsFiniteSet(Seq1)
  BY FS_Interval, StoreAssumption DEF Seq1
<1>4. seqs \in SUBSET Nat /\ \A s \in seqs : s \in Nat
  BY StoreAssumption DEF Seq1
<1>5. \A s \in seqs : IsFiniteSet(Before(s)) /\ Cardinality(Before(s)) \in Nat
  <2>1. \A s \in seqs : Before(s) \in SUBSET Seq1
    OBVIOUS
  <2> HIDE DEF Before
  <2> QED
    BY <1>3, <2>1, FS_Subset, FS_CardinalityType
<1>6. ASSUME seqs # {} PROVE Take(seqs, newest) # {}
  <2>1. Newest(seqs) \in seqs /\ \A t \in seqs : t <= Newest(seqs)
    BY <1>6, NewestOf
  <2>2. Oldest(seqs) \in seqs /\ \A t \in seqs : Oldest(seqs) <= t
    BY <1>4, <1>6, OldestOf
  <2>3. IF newest THEN Before(Newest(seqs)) = {} ELSE Before(Oldest(seqs)) = {}
    <3>1. CASE newest
      <4>1. ASSUME NEW t \in seqs PROVE ~(t > Newest(seqs))
        <5>1. t \in Nat /\ Newest(seqs) \in Nat /\ t <= Newest(seqs)
          BY <1>4, <2>1
        <5> QED
          BY <5>1
      <4> QED
        BY <3>1, <4>1
    <3>2. CASE ~newest
      <4>1. ASSUME NEW t \in seqs PROVE ~(t < Oldest(seqs))
        <5>1. t \in Nat /\ Oldest(seqs) \in Nat /\ Oldest(seqs) <= t
          BY <1>4, <2>2
        <5> QED
          BY <5>1
      <4> QED
        BY <3>2, <4>1
    <3> QED
      BY <3>1, <3>2
  <2> HIDE DEF Before
  <2>4. Cardinality({}) = 0 /\ 0 < Limit
    BY FS_EmptySet, ViewAssumption
  <2> QED
    BY <1>1, <2>1, <2>2, <2>3, <2>4
<1>7. ASSUME NEW s \in seqs \ Take(seqs, newest), NEW t \in Take(seqs, newest)
      PROVE  IF newest THEN s < t ELSE t < s
  <2>1. s \in Nat /\ t \in Nat /\ t \in seqs
    BY <1>2, <1>4
  <2>2. ASSUME ~(IF newest THEN s < t ELSE t < s)
        PROVE  Before(s) \subseteq Before(t)
    <3>1. CASE newest
      <4>1. s >= t
        BY <2>1, <2>2, <3>1
      <4>2. \A u \in seqs : u > s => u > t
        BY <1>4, <2>1, <4>1
      <4> QED
        BY <3>1, <4>2
    <3>2. CASE ~newest
      <4>1. s <= t
        BY <2>1, <2>2, <3>2
      <4>2. \A u \in seqs : u < s => u < t
        BY <1>4, <2>1, <4>1
      <4> QED
        BY <3>2, <4>2
    <3> QED
      BY <3>1, <3>2
  <2> HIDE DEF Before
  <2>3. Before(s) \subseteq Before(t) => Cardinality(Before(s)) <= Cardinality(Before(t))
    BY <1>5, <2>1, FS_Subset
  <2> QED
    BY <1>1, <1>5, <2>1, <2>2, <2>3, ViewAssumption
<1> QED
  BY <1>2, <1>6, <1>7
-------------------------------------------------------------------------------
(* Requests *)

LEMMA RequestIs ==
    ASSUME TypeOK, NEW kind \in Kinds
    PROVE  LET r == reqs[kind] IN
           /\ r \in RequestType
           /\ r # Free <=> r.pc \in {"asked", "read"}
           /\ r.pc = "asked" => r.after \in 0..MaxMsgs /\ r.before \in 0..Top /\ r.newest \in BOOLEAN
           /\ r.pc = "read" => r.page \in Copies /\ r.newest \in BOOLEAN /\ r.more \in BOOLEAN
  BY DEF TypeOK, RequestType, Free

LEMMA AskOK ==
    ASSUME NEW after \in 0..MaxMsgs, NEW before \in 0..Top, NEW newest \in BOOLEAN
    PROVE  LET r == Ask(after, before, newest) IN
           /\ r \in RequestType /\ r # Free /\ r.pc = "asked"
           /\ r.after = after /\ r.before = before /\ r.newest = newest
  BY DEF Ask, RequestType, Free

LEMMA LatestOK == /\ Latest \in RequestType /\ Latest # Free /\ Latest.pc = "asked"
                  /\ Top \in 0..Top
<1>1. 0 \in 0..MaxMsgs /\ Top \in 0..Top
  BY StoreAssumption DEF Top
<1> QED
  BY <1>1, AskOK DEF Latest

LEMMA FreeOK == Free \in RequestType /\ Free.pc = "free"
  BY DEF Free, RequestType

(* What the server answers.                                                *)
LEMMA ServeOK ==
    ASSUME TypeOK, NEW kind \in Kinds, Serve(kind)
    PROVE  LET r == reqs[kind]
               n == reqs'[kind]
               seqs == DOMAIN n.page
           IN /\ r.pc = "asked"
              /\ reqs' = [reqs EXCEPT ![kind] = n] /\ n \in RequestType
              /\ n.pc = "read" /\ n # Free /\ n.newest = r.newest
              /\ Snapshots(n.page)
              /\ \A s \in seqs : s \in DOMAIN room /\ n.page[s] = room[s] /\ r.after < s
              /\ \A s \in DOMAIN room \ seqs :
                    r.after < s /\ s < r.before =>
                       seqs # {} /\ \A t \in seqs : IF r.newest THEN s < t ELSE t < s
              /\ n.more => seqs # {}
              /\ seqs # {} => \A s \in DOMAIN room : (\A t \in seqs : t < s) => n.more
<1> DEFINE r == reqs[kind]
           asked == {s \in DOMAIN room : r.after < s /\ s < r.before}
           seqs == Take(asked, r.newest)
           page == [s \in seqs |-> room[s]]
           more == seqs # {} /\ Len(room) > Newest(seqs)
           n == [pc |-> "read", newest |-> r.newest, page |-> page, more |-> more]
<1>1. r.pc = "asked" /\ r.after \in Nat /\ r.before \in Nat /\ r.newest \in BOOLEAN
  <2>1. r.pc = "asked"
    BY DEF Serve
  <2> QED
    BY <2>1, RequestIs, StoreAssumption DEF Top
<1>2. /\ DOMAIN room = 1..Len(room) /\ Len(room) \in Nat /\ DOMAIN room \subseteq Seq1
      /\ \A s \in DOMAIN room : room[s] \in Copy
  BY RoomRows
<1>3. asked \in SUBSET Seq1
  BY <1>2
<1>4. /\ seqs \subseteq asked
      /\ asked # {} => seqs # {}
      /\ \A s \in asked \ seqs, t \in seqs : IF r.newest THEN s < t ELSE t < s
  <2> HIDE DEF asked, r
  <2> QED
    BY <1>1, <1>3, TakeOK
<1>5. reqs' = [reqs EXCEPT ![kind] = n] /\ reqs'[kind] = n
  BY DEF Serve, TypeOK
<1>6. \A s \in asked : s \in DOMAIN room /\ r.after < s
  OBVIOUS
<1>7. \A s \in DOMAIN room : r.after < s /\ s < r.before => s \in asked
  OBVIOUS
<1> HIDE DEF asked, seqs, r
<1>8. /\ DOMAIN page = seqs /\ seqs \in SUBSET Seq1
      /\ \A s \in seqs : s \in DOMAIN room /\ page[s] = room[s]
      /\ page \in [DOMAIN page -> Copy]
  BY <1>2, <1>3, <1>4, <1>6
<1>9. page \in Copies
  <2> HIDE DEF page
  <2> QED
    BY <1>8, CopiesAre
<1>10. Snapshots(page)
  BY <1>2, <1>8, StoreAssumption DEF Snapshots, Snapshot, Copy
<1>11. more \in BOOLEAN /\ (more => seqs # {})
  OBVIOUS
<1>12. ASSUME seqs # {}, NEW s \in DOMAIN room, \A t \in seqs : t < s
       PROVE  more
  <2>1. Newest(seqs) \in seqs
    BY <1>8, <1>12, NewestOf
  <2>2. Newest(seqs) < s /\ s <= Len(room) /\ s \in Nat /\ Newest(seqs) \in Nat
    BY <1>2, <1>8, <1>12, <2>1
  <2> QED
    BY <1>2, <1>12, <2>2
<1> HIDE DEF page, more
<1>13. n \in RequestType /\ n # Free
  BY <1>1, <1>9, <1>11 DEF RequestType, Free
<1>14. n.pc = "read" /\ n.newest = r.newest /\ n.page = page /\ n.more = more
  OBVIOUS
<1> HIDE DEF n
<1> QED
  BY <1>1, <1>4, <1>5, <1>6, <1>7, <1>8, <1>10, <1>11, <1>12, <1>13, <1>14 DEF r

-------------------------------------------------------------------------------
(* Types *)

(* Only these actions change the window.                                   *)
LEMMA ClientLearns ==
    ASSUME TypeOK, WithheldHasDeadline, CopiesOK, Next
    PROVE  st' = st \/ (room' = room /\ Learns(st'))
<1>1. ASSUME NEW e \in events, Deliver(e)
      PROVE  room' = room /\ Learns(st')
  <2>1. /\ e \in Event /\ e.seq \in DOMAIN room /\ Snapshot(e.row, room[e.seq])
        /\ e.name = "message.deleted" => room[e.seq].deleted
    BY DEF TypeOK, CopiesOK
  <2>2. e.seq \in Seq1 /\ e.row \in Copy
    BY <2>1 DEF Event
  <2> DEFINE page == [s \in {e.seq} |-> e.row]
  <2>3. page \in [DOMAIN page -> Copy] /\ DOMAIN page = {e.seq} /\ page[e.seq] = e.row
    BY <2>2
  <2>4. st' = IF e.name = "message.deleted" THEN MarkDeleted(st, e.seq) ELSE Add(st, page)
    BY <1>1 DEF Deliver, Applied
  <2> HIDE DEF page
  <2>5. page \in Copies /\ Snapshots(page)
    BY <2>1, <2>2, <2>3, CopiesAre DEF Snapshots
  <2>6. Learns(Add(st, page))
    BY <2>5, MergeLearns
  <2> QED
    BY <1>1, <2>1, <2>4, <2>6, DeleteLearns DEF Deliver
<1>2. ASSUME LoadCache
      PROVE  room' = room /\ Learns(st')
  BY <1>2, MergeLearns DEF LoadCache, TypeOK, CopiesOK
<1>3. ASSUME NEW kind \in Kinds, Receive(kind)
      PROVE  room' = room /\ Learns(st')
  <2>1. reqs[kind].pc = "read" /\ room' = room
    BY <1>3 DEF Receive
  <2>2. reqs[kind].page \in Copies /\ Snapshots(reqs[kind].page)
    BY <2>1, RequestIs DEF CopiesOK
  <2>3. st' = MergePage(st, reqs[kind].page) \/ st' = Add(st, reqs[kind].page)
    BY <1>3 DEF Receive
  <2> QED
    BY <2>1, <2>2, <2>3, MergeLearns
<1>4. ASSUME ReceiveSync
      PROVE  room' = room /\ Learns(st')
  <2>1. reqs["sync"].pc = "read" /\ room' = room /\ "sync" \in Kinds
    BY <1>4 DEF ReceiveSync, Kinds
  <2>2. reqs["sync"].page \in Copies /\ Snapshots(reqs["sync"].page)
    BY <2>1, RequestIs DEF CopiesOK
  <2> QED
    BY <1>4, <2>1, <2>2, MergeLearns DEF ReceiveSync
<1>5. ASSUME FillTimer
      PROVE  room' = room /\ Learns(st')
  BY <1>5, TimeoutLearns DEF FillTimer
<1> QED
  BY <1>1, <1>2, <1>3, <1>4, <1>5
     DEF Next, Post, Edit, Delete, Lose, Connect, Disconnect, Refetch, loadOlder, fillGap, Serve, Fail

LEMMA Initially == Init => IInv
<1> SUFFICES ASSUME Init PROVE IInv
  OBVIOUS
<1> DEFINE row == [edits |-> 0, deleted |-> FALSE]
<1>1. row \in Copy
  BY StoreAssumption DEF Copy
<1>2. PICK n \in 0..(MaxMsgs - 1), lo \in Seq1, hi \in Seq1 :
        hi <= n /\ room = [s \in 1..n |-> row] /\ cache = [s \in lo..hi |-> room[s]]
  BY DEF Init
<1> HIDE DEF row
<1>3. n \in Nat /\ n <= MaxMsgs /\ DOMAIN room = 1..n /\ room \in Seq(Copy) /\ Len(room) = n
  BY <1>1, <1>2, StoreAssumption
<1>4. /\ DOMAIN cache \in SUBSET Seq1 /\ cache \in [DOMAIN cache -> Copy]
      /\ \A s \in DOMAIN cache : s \in DOMAIN room /\ cache[s] = room[s] /\ room[s] = row
  BY <1>1, <1>2, <1>3, StoreAssumption DEF Seq1
<1>5. cache \in Copies /\ Snapshots(cache)
  BY <1>1, <1>4, CopiesAre, StoreAssumption DEF Snapshots, Snapshot, Copy
<1>6. EmptyStore \in Store /\ EmptyStore.shown = DOMAIN EmptyStore.byId
  BY EmptyPage, StoreAssumption DEF EmptyStore, Store, NoGap
<1>7. Latest \in RequestType
  BY LatestOK
<1>8. /\ reqs \in [Kinds -> RequestType] /\ reqs["sync"] = Free
      /\ \A kind \in Kinds : reqs[kind].pc # "read"
  BY <1>7, FreeOK DEF Init, Kinds, Latest, Ask
<1>9. NotRunning \in SyncType /\ NotRunning.pc = "off" /\ 0 \in 0..MaxDisconnects
  BY StoreAssumption, ViewAssumption DEF NotRunning, SyncType, Seq1
<1>10. TypeOK
  BY <1>3, <1>5, <1>6, <1>8, <1>9 DEF Init, TypeOK
<1>11. WithheldHasDeadline
  BY <1>6 DEF Init, WithheldHasDeadline
<1>12. CopiesOK
  BY <1>5, <1>8, EmptyPage DEF Init, CopiesOK
<1>13. SyncOK
  BY <1>8, <1>9, FreeOK DEF Init, SyncOK
<1> QED
  BY <1>10, <1>11, <1>12, <1>13 DEF IInv
LEMMA TypeStep == IInv /\ Next => TypeOK' /\ WithheldHasDeadline'
<1> SUFFICES ASSUME TypeOK, WithheldHasDeadline, CopiesOK, SyncOK, Next
             PROVE  TypeOK' /\ WithheldHasDeadline'
  BY DEF IInv
<1>1. st' \in Store /\ WithheldHasDeadline'
  BY ClientLearns DEF Learns, Deadline, WithheldHasDeadline, TypeOK
<1>2. ASSUME NEW name \in {"message.created", "message.updated", "message.deleted"}, NEW s \in Seq1,
             Broadcast(name, s), room'[s] \in Copy
      PROVE  events' \subseteq Event
  BY <1>2 DEF Broadcast, Event, TypeOK
<1>3. ASSUME NEW kind \in Kinds, NEW r \in RequestType
      PROVE  [reqs EXCEPT ![kind] = r] \in [Kinds -> RequestType]
  BY DEF TypeOK
<1>4. st.shown \in SUBSET Seq1 /\ st.needsFill \in [after : 0..MaxMsgs, before : 0..MaxMsgs]
  BY DEF TypeOK, Store
<1>5. st.shown # {} => Oldest(st.shown) \in st.shown /\ Oldest(st.shown) \in Seq1
  <2>1. st.shown \in SUBSET Nat
    BY <1>4, StoreAssumption DEF Seq1
  <2> QED
    BY <1>4, <2>1, OldestOf
<1>6. NotRunning \in SyncType /\ 1 \in Seq1
  BY StoreAssumption DEF NotRunning, SyncType, Seq1
<1>7. \A r \in 0..MaxMsgs : r \in 0..Top
  BY StoreAssumption DEF Top
<1>8. CASE Post
  <2>1. RoomGoesOn /\ Len(room) + 1 \in Seq1 /\ room'[Len(room) + 1] \in Copy
    BY <1>8, PostGoesOn
  <2>2. Broadcast("message.created", Len(room) + 1)
    BY <1>8 DEF Post
  <2>3. events' \subseteq Event
    BY <1>2, <2>1, <2>2
  <2> QED
    BY <1>1, <1>8, <2>1, <2>3 DEF Post, RoomGoesOn, TypeOK, link
<1>9. ASSUME NEW s \in Seq1, Edit(s)
      PROVE  TypeOK'
  <2>1. RoomGoesOn /\ room'[s] \in Copy
    BY <1>9, EditGoesOn
  <2>2. events' \subseteq Event
    BY <1>2, <1>9, <2>1 DEF Edit
  <2> QED
    BY <1>1, <1>9, <2>1, <2>2 DEF Edit, RoomGoesOn, TypeOK, link
<1>10. ASSUME NEW s \in Seq1, Delete(s)
       PROVE  TypeOK'
  <2>1. RoomGoesOn /\ room'[s] \in Copy
    BY <1>10, DeleteGoesOn
  <2>2. events' \subseteq Event
    BY <1>2, <1>10, <2>1 DEF Delete
  <2> QED
    BY <1>1, <1>10, <2>1, <2>2 DEF Delete, RoomGoesOn, TypeOK, link
<1>11. ASSUME NEW e \in events, Deliver(e) \/ Lose(e)
       PROVE  TypeOK'
  BY <1>1, <1>11 DEF Deliver, Lose, TypeOK, link
<1>12. CASE Connect
  <2> DEFINE r == Ask(SyncCursor, Top, st.shown = {})
  <2>1. SyncCursor \in 0..MaxMsgs
    <3>1. CASE st.shown = {}
      BY <3>1, StoreAssumption DEF SyncCursor
    <3>2. CASE st.shown # {}
      <4>1. Oldest(st.shown) \in 1..MaxMsgs
        BY <1>5, <3>2 DEF Seq1
      <4>2. SyncCursor = Oldest(st.shown) - 1
        BY <3>2 DEF SyncCursor
      <4> QED
        BY <4>1, <4>2, StoreAssumption
    <3> QED
      BY <3>1, <3>2
  <2>2. r \in RequestType
    BY <2>1, AskOK, LatestOK
  <2>3. reqs' = [reqs EXCEPT !["sync"] = r] /\ "sync" \in Kinds
    BY <1>12 DEF Connect, Kinds
  <2> HIDE DEF r
  <2>4. reqs' \in [Kinds -> RequestType]
    BY <1>3, <2>2, <2>3
  <2>5. sync' \in SyncType
    BY <1>5, <1>6, <1>12 DEF Connect, SyncType
  <2> QED
    BY <1>1, <1>12, <2>4, <2>5 DEF Connect, TypeOK
<1>13. CASE Disconnect
  <2>1. reqs' \in [Kinds -> RequestType]
    BY <1>3, <1>13, FreeOK DEF Disconnect, Kinds
  <2>2. drops' \in 0..MaxDisconnects
    BY <1>13, ViewAssumption DEF Disconnect, TypeOK
  <2> QED
    BY <1>1, <1>6, <1>13, <2>1, <2>2 DEF Disconnect, TypeOK
<1>14. CASE LoadCache
  BY <1>1, <1>14, EmptyPage DEF LoadCache, TypeOK, link
<1>15. CASE Refetch
  <2>1. reqs' \in [Kinds -> RequestType]
    BY <1>3, <1>15, LatestOK DEF Refetch, Kinds
  <2> QED
    BY <1>1, <1>15, <2>1 DEF Refetch, TypeOK, link
<1>16. CASE loadOlder
  <2> DEFINE r == Ask(0, Oldest(st.shown), TRUE)
  <2>1. Oldest(st.shown) \in 0..Top /\ 0 \in 0..MaxMsgs
    BY <1>5, <1>7, <1>16, StoreAssumption DEF loadOlder, Seq1
  <2>2. r \in RequestType
    BY <2>1, AskOK
  <2>3. reqs' = [reqs EXCEPT !["older"] = r] /\ "older" \in Kinds
    BY <1>16 DEF loadOlder, Kinds
  <2> HIDE DEF r
  <2>4. reqs' \in [Kinds -> RequestType]
    BY <1>3, <2>2, <2>3
  <2> QED
    BY <1>1, <1>16, <2>4 DEF loadOlder, TypeOK, link
<1>17. CASE fillGap
  <2> DEFINE r == Ask(st.needsFill.after, st.needsFill.before, FALSE)
  <2>1. st.needsFill.after \in 0..MaxMsgs /\ st.needsFill.before \in 0..Top
    BY <1>4, <1>7
  <2>2. r \in RequestType
    BY <2>1, AskOK
  <2>3. reqs' = [reqs EXCEPT !["fill"] = r] /\ "fill" \in Kinds
    BY <1>17 DEF fillGap, Kinds
  <2> HIDE DEF r
  <2>4. reqs' \in [Kinds -> RequestType]
    BY <1>3, <2>2, <2>3
  <2> QED
    BY <1>1, <1>17, <2>4 DEF fillGap, TypeOK, link
<1>18. ASSUME NEW kind \in Kinds, Serve(kind)
       PROVE  TypeOK'
  <2>1. reqs' \in [Kinds -> RequestType]
    <3>1. reqs' = [reqs EXCEPT ![kind] = reqs'[kind]] /\ reqs'[kind] \in RequestType
      BY <1>18, ServeOK
    <3> QED
      BY <1>3, <3>1
  <2> QED
    BY <1>1, <1>18, <2>1 DEF Serve, TypeOK, link
<1>19. ASSUME NEW kind \in Kinds, Receive(kind)
       PROVE  TypeOK'
  <2>1. reqs' \in [Kinds -> RequestType]
    BY <1>3, <1>19, FreeOK DEF Receive
  <2>2. cache' \in Copies
    BY <1>19, EmptyPage DEF Receive, TypeOK
  <2> QED
    BY <1>1, <1>19, <2>1, <2>2 DEF Receive, TypeOK, link
<1>20. CASE ReceiveSync
  <2> DEFINE r == reqs["sync"]
             seqs == DOMAIN r.page
             next == IF r.more THEN Ask(Newest(seqs), Top, FALSE) ELSE Free
             from == IF r.newest /\ seqs # {} THEN Oldest(seqs) ELSE sync.from
  <2>1. r.pc = "read" /\ "sync" \in Kinds
    BY <1>20 DEF ReceiveSync, Kinds
  <2>2. r.page \in Copies
    BY <2>1, RequestIs
  <2>3. seqs \in SUBSET Seq1 /\ seqs \in SUBSET Nat
    BY <2>2, CopiesAre, StoreAssumption DEF Seq1
  <2>4. next \in RequestType
    <3>1. CASE r.more
      <4>1. seqs # {}
        BY <2>1, <3>1 DEF SyncOK
      <4>2. Newest(seqs) \in 0..MaxMsgs
        BY <2>3, <4>1, NewestOf DEF Seq1
      <4> QED
        BY <3>1, <4>2, AskOK, LatestOK
    <3>2. CASE ~r.more
      BY <3>2, FreeOK
    <3> QED
      BY <3>1, <3>2
  <2>5. from \in Seq1
    BY <2>3, OldestOf DEF TypeOK, SyncType
  <2>6. reqs' = [reqs EXCEPT !["sync"] = next]
        /\ sync' = [sync EXCEPT !.from = from, !.pc = IF r.more THEN "running" ELSE "done"]
    BY <1>20 DEF ReceiveSync
  <2> HIDE DEF next, from
  <2>7. reqs' \in [Kinds -> RequestType]
    BY <1>3, <2>1, <2>4, <2>6
  <2>8. sync' \in SyncType
    BY <2>5, <2>6 DEF TypeOK, SyncType
  <2> QED
    BY <1>1, <1>20, <2>7, <2>8 DEF ReceiveSync, TypeOK, link
<1>21. ASSUME NEW kind \in Kinds, Fail(kind)
       PROVE  TypeOK'
  <2>1. reqs' \in [Kinds -> RequestType]
    BY <1>3, <1>21, FreeOK DEF Fail
  <2> QED
    BY <1>1, <1>6, <1>21, <2>1 DEF Fail, TypeOK, link
<1>22. CASE FillTimer
  BY <1>1, <1>22 DEF FillTimer, TypeOK, link
<1> QED
  BY <1>1, <1>8, <1>9, <1>10, <1>11, <1>12, <1>13, <1>14, <1>15, <1>16, <1>17, <1>18, <1>19, <1>20, <1>21, <1>22 DEF Next
-------------------------------------------------------------------------------
(* Copies stay copies *)

(* The server changes a row: all copies are of the row as it was, and the  *)
(* event carries the row as it is.                                         *)
LEMMA CopiesGoOn ==
    ASSUME TypeOK, CopiesOK, RoomGoesOn,
           NEW name \in {"message.created", "message.updated", "message.deleted"}, NEW s \in DOMAIN room',
           Broadcast(name, s), name = "message.deleted" => room'[s].deleted, room'[s] \in Copy,
           UNCHANGED <<st, cache, reqs>>
    PROVE  CopiesOK'
<1>1. /\ DOMAIN room \subseteq DOMAIN room'
      /\ \A t \in DOMAIN room : /\ \A c \in Copy : Later(c, t)
                                /\ room[t].deleted => room'[t].deleted
  BY DEF RoomGoesOn
<1>2. /\ st.byId \in Copies /\ cache \in Copies
      /\ \A t \in DOMAIN st.byId : st.byId[t] \in Copy
  BY CopiesAre DEF TypeOK, Store
<1>3. ASSUME NEW page \in Copies, Snapshots(page)
      PROVE  \A t \in DOMAIN page : t \in DOMAIN room' /\ Snapshot(page[t], room'[t])
  <2>1. \A t \in DOMAIN page : page[t] \in Copy
    BY CopiesAre
  <2> QED
    BY <1>1, <1>3, <2>1 DEF Snapshots, Later
<1>4. \A t \in DOMAIN st.byId : t \in DOMAIN room' /\ Behind(st.byId[t], room'[t])
  BY <1>1, <1>2 DEF CopiesOK, Later
<1>5. \A t \in DOMAIN cache : t \in DOMAIN room' /\ Snapshot(cache[t], room'[t])
  BY <1>2, <1>3 DEF CopiesOK
<1>6. ASSUME NEW e \in events'
      PROVE  /\ e.seq \in DOMAIN room' /\ Snapshot(e.row, room'[e.seq])
             /\ e.name = "message.deleted" => room'[e.seq].deleted
  <2>1. CASE e \in events
    <3>1. e.row \in Copy
      BY <2>1 DEF TypeOK, Event
    <3> QED
      BY <1>1, <2>1, <3>1 DEF CopiesOK, Later
  <2>2. CASE e = [name |-> name, seq |-> s, row |-> room'[s]]
    <3>1. e.name = name /\ e.seq = s /\ e.row = room'[s]
      BY <2>2
    <3>2. Snapshot(room'[s], room'[s])
      BY StoreAssumption DEF Snapshot, Copy
    <3> QED
      BY <3>1, <3>2
  <2> QED
    BY <1>6, <2>1, <2>2 DEF Broadcast
<1>7. ASSUME NEW kind \in Kinds, reqs[kind].pc = "read"
      PROVE  \A t \in DOMAIN reqs[kind].page : t \in DOMAIN room' /\ Snapshot(reqs[kind].page[t], room'[t])
  <2>1. reqs[kind].page \in Copies /\ Snapshots(reqs[kind].page)
    BY <1>7, RequestIs DEF CopiesOK
  <2> QED
    BY <1>3, <2>1
<1> QED
  BY <1>4, <1>5, <1>6, <1>7 DEF CopiesOK, Snapshots

LEMMA CopiesStep == TypeOK /\ WithheldHasDeadline /\ CopiesOK /\ Next => CopiesOK'
<1> SUFFICES ASSUME TypeOK, WithheldHasDeadline, CopiesOK, Next
             PROVE  CopiesOK'
  OBVIOUS
<1>1. ASSUME room' = room, events' \subseteq events, cache' \in {cache, EmptyStore.byId},
             \A kind \in Kinds : reqs'[kind].pc = "read" => Snapshots(reqs'[kind].page)
      PROVE  CopiesOK'
  <2>1. \A s \in DOMAIN st'.byId : s \in DOMAIN room /\ Behind(st'.byId[s], room[s])
    BY ClientLearns DEF Learns, CopiesOK
  <2>2. Snapshots(cache')
    BY <1>1, EmptyPage DEF CopiesOK, Snapshots
  <2> QED
    BY <1>1, <2>1, <2>2 DEF CopiesOK, Snapshots
<1>2. \A kind \in Kinds : reqs[kind].pc = "read" => Snapshots(reqs[kind].page)
  BY DEF CopiesOK
<1>3. ASSUME NEW k \in Kinds, NEW r, reqs' = [reqs EXCEPT ![k] = r], r.pc # "read"
      PROVE  \A kind \in Kinds : reqs'[kind].pc = "read" => Snapshots(reqs'[kind].page)
  BY <1>2, <1>3 DEF TypeOK
<1>4. \A after, before, newest : Ask(after, before, newest).pc # "read"
  BY DEF Ask
<1>5. CASE Post
  BY <1>5, PostGoesOn, CopiesGoOn DEF Post
<1>6. ASSUME NEW s \in Seq1, Edit(s)
      PROVE  CopiesOK'
  BY <1>6, EditGoesOn, CopiesGoOn DEF Edit
<1>7. ASSUME NEW s \in Seq1, Delete(s)
      PROVE  CopiesOK'
  BY <1>7, DeleteGoesOn, CopiesGoOn DEF Delete
<1>8. ASSUME NEW e \in events, Deliver(e) \/ Lose(e)
      PROVE  CopiesOK'
  BY <1>1, <1>2, <1>8 DEF Deliver, Lose
<1>9. CASE Connect
  <2> DEFINE r == Ask(SyncCursor, Top, st.shown = {})
  <2>1. reqs' = [reqs EXCEPT !["sync"] = r] /\ "sync" \in Kinds /\ r.pc # "read"
    BY <1>4, <1>9 DEF Connect, Kinds
  <2> HIDE DEF r
  <2>2. \A kind \in Kinds : reqs'[kind].pc = "read" => Snapshots(reqs'[kind].page)
    BY <1>3, <2>1
  <2> QED
    BY <1>1, <1>9, <2>2 DEF Connect
<1>10. CASE Disconnect
  BY <1>1, <1>3, <1>10, FreeOK DEF Disconnect, Kinds
<1>11. CASE LoadCache
  BY <1>1, <1>2, <1>11 DEF LoadCache
<1>12. CASE Refetch
  BY <1>1, <1>3, <1>12, LatestOK DEF Refetch, Kinds
<1>13. CASE loadOlder
  <2> DEFINE r == Ask(0, Oldest(st.shown), TRUE)
  <2>1. reqs' = [reqs EXCEPT !["older"] = r] /\ "older" \in Kinds /\ r.pc # "read"
    BY <1>4, <1>13 DEF loadOlder, Kinds
  <2> HIDE DEF r
  <2>2. \A kind \in Kinds : reqs'[kind].pc = "read" => Snapshots(reqs'[kind].page)
    BY <1>3, <2>1
  <2> QED
    BY <1>1, <1>13, <2>2 DEF loadOlder
<1>14. CASE fillGap
  <2> DEFINE r == Ask(st.needsFill.after, st.needsFill.before, FALSE)
  <2>1. reqs' = [reqs EXCEPT !["fill"] = r] /\ "fill" \in Kinds /\ r.pc # "read"
    BY <1>4, <1>14 DEF fillGap, Kinds
  <2> HIDE DEF r
  <2>2. \A kind \in Kinds : reqs'[kind].pc = "read" => Snapshots(reqs'[kind].page)
    BY <1>3, <2>1
  <2> QED
    BY <1>1, <1>14, <2>2 DEF fillGap
<1>15. ASSUME NEW k \in Kinds, Serve(k)
       PROVE  CopiesOK'
  <2>1. reqs' = [reqs EXCEPT ![k] = reqs'[k]] /\ Snapshots(reqs'[k].page)
    BY <1>15, ServeOK
  <2>2. \A kind \in Kinds : reqs'[kind].pc = "read" => Snapshots(reqs'[kind].page)
    BY <1>2, <2>1 DEF TypeOK
  <2> QED
    BY <1>1, <1>15, <2>2 DEF Serve
<1>16. ASSUME NEW k \in Kinds, Receive(k)
       PROVE  CopiesOK'
  BY <1>1, <1>3, <1>16, FreeOK DEF Receive
<1>17. CASE ReceiveSync
  <2> DEFINE next == IF reqs["sync"].more THEN Ask(Newest(DOMAIN reqs["sync"].page), Top, FALSE) ELSE Free
  <2>1. reqs' = [reqs EXCEPT !["sync"] = next] /\ "sync" \in Kinds
    BY <1>17 DEF ReceiveSync, Kinds
  <2>2. next.pc # "read"
    BY <1>4, FreeOK
  <2> HIDE DEF next
  <2>3. \A kind \in Kinds : reqs'[kind].pc = "read" => Snapshots(reqs'[kind].page)
    BY <1>3, <2>1, <2>2
  <2> QED
    BY <1>1, <1>17, <2>3 DEF ReceiveSync
<1>18. ASSUME NEW k \in Kinds, Fail(k)
       PROVE  CopiesOK'
  BY <1>1, <1>3, <1>18, FreeOK DEF Fail
<1>19. CASE FillTimer
  BY <1>1, <1>2, <1>19 DEF FillTimer
<1> QED
  BY <1>5, <1>6, <1>7, <1>8, <1>9, <1>10, <1>11, <1>12, <1>13, <1>14, <1>15, <1>16, <1>17, <1>18, <1>19 DEF Next

-------------------------------------------------------------------------------
(* The refresh *)

(* A page of the refresh is applied: what is wanted up to its last row has *)
(* been caught up with, and if it is the last page, all that is wanted.    *)
LEMMA PageCaught ==
    ASSUME TypeOK, WithheldHasDeadline, CopiesOK, SyncOK, Next, ReceiveSync
    PROVE  LET r == reqs["sync"] IN
           /\ r.pc = "read" /\ room' = room /\ sync'.changed = sync.changed
           /\ DOMAIN r.page \in SUBSET Seq1
           /\ r.more => DOMAIN r.page # {}
           /\ \A s \in Wanted' : (r.more /\ \A t \in DOMAIN r.page : t < s) \/ Caught(s)'
<1> DEFINE r == reqs["sync"]
           seqs == DOMAIN r.page
           from == IF r.newest /\ seqs # {} THEN Oldest(seqs) ELSE sync.from
<1>1. r.pc = "read" /\ room' = room /\ "sync" \in Kinds /\ st' = MergePage(st, r.page)
  BY DEF ReceiveSync, Kinds
<1>2. sync'.from = from /\ sync'.changed = sync.changed
  BY DEF ReceiveSync, TypeOK, SyncType
<1>3. r.page \in Copies /\ Snapshots(r.page)
  BY <1>1, RequestIs DEF CopiesOK
<1>4. seqs \in SUBSET Seq1 /\ seqs \in SUBSET Nat /\ seqs \subseteq DOMAIN room
  BY <1>3, CopiesAre, StoreAssumption DEF Seq1, Snapshots
<1>5. /\ r.more => seqs # {}
      /\ \A s \in Wanted :
            \/ s \in seqs /\ r.page[s] = room[s]
            \/ s \notin seqs /\ Caught(s)
            \/ r.more /\ \A t \in seqs : t < s
            \/ r.newest /\ seqs # {} /\ \A t \in seqs : s < t
  BY <1>1 DEF SyncOK
<1>6. \A s \in DOMAIN st.byId : Caught(s) => s \in DOMAIN st'.byId /\ st'.byId[s] = room[s]
  BY <1>1, <1>3, MergeLearns DEF Learns
<1>7. \A s \in seqs : r.page[s] = room[s] => s \in DOMAIN st'.byId /\ st'.byId[s] = room[s]
  BY <1>1, <1>3, MergeLearns
<1>8. \A s : s \in DOMAIN st'.byId /\ st'.byId[s] = room[s] => Caught(s)'
  BY <1>1 DEF Caught
<1>9. r.newest => sync.from = 1
  BY <1>1, FreeOK DEF SyncOK
<1> HIDE DEF r
<1>10. ASSUME NEW s \in Wanted'
      PROVE  (r.more /\ \A t \in seqs : t < s) \/ Caught(s)'
  <2>1. s \in DOMAIN room /\ s \notin sync.changed /\ s \in Nat /\ s > 0 /\ s >= from
    BY <1>1, <1>2, RoomRows DEF Wanted
  <2>2. s \in Wanted
    <3>1. CASE r.newest /\ seqs # {}
      BY <1>9, <2>1, <3>1 DEF Wanted
    <3>2. CASE ~(r.newest /\ seqs # {})
      BY <2>1, <3>2 DEF Wanted
    <3> QED
      BY <3>1, <3>2
  <2>3. ~(r.newest /\ seqs # {} /\ \A t \in seqs : s < t)
    <3>1. ASSUME r.newest, seqs # {} PROVE \E t \in seqs : ~(s < t)
      <4>1. from \in seqs /\ from \in Nat
        BY <1>4, <3>1, OldestOf
      <4> HIDE DEF from
      <4> QED
        BY <2>1, <4>1
    <3> QED
      BY <3>1
  <2> QED
    BY <1>5, <1>6, <1>7, <1>8, <2>2, <2>3 DEF Caught
<1> QED
  BY <1>1, <1>2, <1>4, <1>5, <1>10 DEF r
LEMMA SyncStep == IInv /\ Next => SyncOK'
<1> SUFFICES ASSUME TypeOK, WithheldHasDeadline, CopiesOK, SyncOK, Next
             PROVE  SyncOK'
  BY DEF IInv
<1> DEFINE r == reqs["sync"]
<1>1. "sync" \in Kinds /\ DOMAIN reqs = Kinds
  BY DEF Kinds, TypeOK
<1>2. \A s \in DOMAIN room : room'[s] = room[s] /\ Caught(s) => Caught(s)'
  BY ClientLearns DEF Learns, Caught
<1>3. /\ sync.pc = "running" <=> r # Free
      /\ r # Free /\ r.newest => sync.from = 1
      /\ r.pc = "asked" =>
            /\ r.before = Top
            /\ IF r.newest THEN r.after = 0 ELSE \A s \in Wanted : s <= r.after => Caught(s)
      /\ r.pc = "read" =>
            /\ r.more => DOMAIN r.page # {}
            /\ \A s \in Wanted :
                  \/ s \in DOMAIN r.page /\ r.page[s] = room[s]
                  \/ s \notin DOMAIN r.page /\ Caught(s)
                  \/ r.more /\ \A t \in DOMAIN r.page : t < s
                  \/ r.newest /\ DOMAIN r.page # {} /\ \A t \in DOMAIN r.page : s < t
  BY DEF SyncOK
<1>4. r # Free <=> r.pc \in {"asked", "read"}
  BY <1>1, RequestIs
(* A step that leaves the request alone and reports what it changes. *)
<1>5. ASSUME reqs'["sync"] = r, sync'.pc = sync.pc, sync'.from = sync.from,
             sync.pc = "running" => \A s \in Wanted' : s \in Wanted /\ room'[s] = room[s]
      PROVE  SyncOK'
  <2>1. CASE r = Free
    BY <1>3, <1>5, <2>1, FreeOK DEF SyncOK
  <2>2. CASE r # Free
    <3>1. \A s \in Wanted' : s \in Wanted /\ room'[s] = room[s] /\ (Caught(s) => Caught(s)')
      BY <1>2, <1>3, <1>5, <2>2 DEF Wanted
    <3>2. r.pc = "asked" =>
            /\ r.before = Top
            /\ IF r.newest THEN r.after = 0 ELSE \A s \in Wanted' : s <= r.after => Caught(s)'
      BY <1>3, <3>1
    <3>3. r.pc = "read" =>
            /\ r.more => DOMAIN r.page # {}
            /\ \A s \in Wanted' :
                  \/ s \in DOMAIN r.page /\ r.page[s] = room'[s]
                  \/ s \notin DOMAIN r.page /\ Caught(s)'
                  \/ r.more /\ \A t \in DOMAIN r.page : t < s
                  \/ r.newest /\ DOMAIN r.page # {} /\ \A t \in DOMAIN r.page : s < t
      BY <1>3, <3>1
    <3> HIDE DEF r
    <3> QED
      BY <1>3, <1>5, <2>2, <3>2, <3>3 DEF SyncOK
  <2> QED
    BY <2>1, <2>2
<1>6. ASSUME UNCHANGED <<room, sync>>, reqs'["sync"] = r
      PROVE  SyncOK'
  BY <1>5, <1>6 DEF Wanted
<1>7. ASSUME RoomGoesOn, reqs'["sync"] = r
      PROVE  SyncOK'
  <2>1. sync'.pc = sync.pc /\ sync'.from = sync.from /\ sync.changed \subseteq sync'.changed
    BY <1>7 DEF RoomGoesOn
  <2>2. sync.pc = "running" => \A s \in DOMAIN room' \ sync'.changed : s \in DOMAIN room /\ room'[s] = room[s]
    BY <1>7 DEF RoomGoesOn
  <2>3. sync.pc = "running" => \A s \in Wanted' : s \in Wanted /\ room'[s] = room[s]
    BY <2>1, <2>2 DEF Wanted
  <2> QED
    BY <1>5, <1>7, <2>1, <2>3
<1>8. ASSUME sync'.pc # "running", reqs'["sync"] = Free
      PROVE  SyncOK'
  BY <1>8, FreeOK DEF SyncOK
<1>9. CASE Post
  BY <1>7, <1>9, PostGoesOn DEF Post
<1>10. ASSUME NEW s \in Seq1, Edit(s) \/ Delete(s)
       PROVE  SyncOK'
  BY <1>7, <1>10, EditGoesOn, DeleteGoesOn DEF Edit, Delete
<1>11. ASSUME NEW e \in events, Deliver(e) \/ Lose(e)
       PROVE  SyncOK'
  BY <1>6, <1>11 DEF Deliver, Lose
<1>12. CASE Connect
  <2> DEFINE n == Ask(SyncCursor, Top, st.shown = {})
  <2>1. /\ n # Free /\ n.pc = "asked" /\ n.before = Top /\ n.after = SyncCursor
        /\ n.newest = (st.shown = {})
    BY DEF Ask, Free
  <2>2. /\ sync'.pc = "running" /\ sync'.from = IF st.shown = {} THEN 1 ELSE Oldest(st.shown)
        /\ room' = room /\ reqs' = [reqs EXCEPT !["sync"] = n]
    BY <1>12 DEF Connect
  <2> HIDE DEF n
  <2>3. reqs'["sync"] = n
    BY <1>1, <2>2
  <2>4. st.shown # {} => Oldest(st.shown) \in Nat
    <3>1. st.shown \in SUBSET Nat
      BY StoreAssumption DEF TypeOK, Store, Seq1
    <3> QED
      BY <3>1, OldestOf
  <2>5. n.newest \in BOOLEAN /\ (n.newest => n.after = 0 /\ sync'.from = 1)
    BY <2>1, <2>2 DEF SyncCursor
  <2>6. ~n.newest => \A s \in Wanted' : ~(s <= n.after)
    <3>1. \A s \in Wanted' : s \in Nat /\ s >= sync'.from
      BY <2>2, RoomRows DEF Wanted
    <3> QED
      BY <2>1, <2>2, <2>4, <3>1 DEF SyncCursor
  <2> QED
    BY <2>1, <2>2, <2>3, <2>5, <2>6 DEF SyncOK
<1>13. CASE Disconnect
  BY <1>1, <1>8, <1>13 DEF Disconnect, NotRunning
<1>14. CASE LoadCache
  BY <1>6, <1>14 DEF LoadCache
<1>15. CASE Refetch \/ loadOlder \/ fillGap
  BY <1>1, <1>6, <1>15 DEF Refetch, loadOlder, fillGap, Kinds
<1>16. ASSUME NEW kind \in Kinds, Serve(kind)
       PROVE  SyncOK'
  <2>1. CASE kind # "sync"
    BY <1>1, <1>6, <1>16, <2>1 DEF Serve
  <2>2. CASE kind = "sync"
    <3> DEFINE n == reqs'["sync"]
               seqs == DOMAIN n.page
    <3>1. /\ r.pc = "asked" /\ n.pc = "read" /\ n # Free /\ n.newest = r.newest
          /\ \A s \in seqs : s \in DOMAIN room /\ n.page[s] = room[s] /\ r.after < s
          /\ \A s \in DOMAIN room \ seqs :
                r.after < s /\ s < r.before =>
                   seqs # {} /\ \A t \in seqs : IF r.newest THEN s < t ELSE t < s
          /\ n.more => seqs # {}
          /\ seqs # {} => \A s \in DOMAIN room : (\A t \in seqs : t < s) => n.more
      BY <1>16, <2>2, ServeOK
    <3>2. UNCHANGED <<room, st, sync>>
      BY <1>16 DEF Serve
    <3>3. r.before = Top /\ r.after \in Nat /\ r.newest \in BOOLEAN
      BY <1>1, <1>3, <3>1, RequestIs
    <3>4. \A s \in DOMAIN room : s \in Nat /\ 0 < s /\ s < Top
      BY RoomRows, StoreAssumption DEF Seq1, Top
    <3>5. \A s \in Wanted : Caught(s) => Caught(s)'
      BY <3>2 DEF Caught
    <3>6. Wanted' = Wanted /\ \A s \in Wanted : s \in DOMAIN room
      BY <3>2 DEF Wanted
    <3>7. r.newest => r.after = 0
      BY <1>3, <3>1
    <3>8. ~r.newest => \A s \in Wanted : s <= r.after => Caught(s)
      BY <1>3, <3>1
    <3> HIDE DEF n, r
    <3>9. ASSUME NEW s \in Wanted
          PROVE  \/ s \in seqs /\ n.page[s] = room[s]
                 \/ s \notin seqs /\ Caught(s)'
                 \/ n.more /\ \A t \in seqs : t < s
                 \/ n.newest /\ seqs # {} /\ \A t \in seqs : s < t
      <4>1. CASE s \in seqs
        BY <3>1, <4>1
      <4>2. CASE s \notin seqs /\ r.newest
        BY <3>1, <3>3, <3>4, <3>6, <3>7, <4>2
      <4>3. CASE s \notin seqs /\ ~r.newest
        <5>1. CASE s <= r.after
          BY <3>5, <3>8, <4>3, <5>1
        <5>2. CASE ~(s <= r.after)
          BY <3>1, <3>3, <3>4, <3>6, <4>3, <5>2
        <5> QED
          BY <5>1, <5>2
      <4> QED
        BY <4>1, <4>2, <4>3
    <3>10. sync.pc = "running" /\ (n.newest => sync.from = 1)
      BY <1>3, <1>4, <3>1 DEF r
    <3> QED
      BY <3>1, <3>2, <3>6, <3>9, <3>10 DEF SyncOK, n
  <2> QED
    BY <2>1, <2>2
<1>17. ASSUME NEW kind \in Kinds, Receive(kind)
       PROVE  SyncOK'
  BY <1>1, <1>6, <1>17 DEF Receive
<1>18. CASE ReceiveSync
  <2> DEFINE n == reqs'["sync"]
             seqs == DOMAIN r.page
  <2>1. /\ r.pc = "read" /\ room' = room /\ sync'.changed = sync.changed
        /\ seqs \in SUBSET Seq1
        /\ r.more => seqs # {}
        /\ \A s \in Wanted' : (r.more /\ \A t \in seqs : t < s) \/ Caught(s)'
    BY <1>18, PageCaught
  <2>2. /\ n = IF r.more THEN Ask(Newest(seqs), Top, FALSE) ELSE Free
        /\ sync'.pc = IF r.more THEN "running" ELSE "done"
    BY <1>1, <1>18 DEF ReceiveSync, TypeOK, SyncType
  <2>3. CASE ~r.more
    BY <1>8, <2>2, <2>3
  <2>4. CASE r.more
    <3>1. Newest(seqs) \in seqs
      BY <2>1, <2>4, NewestOf
    <3>2. n # Free /\ n.pc = "asked" /\ n.before = Top /\ n.after = Newest(seqs) /\ ~n.newest
      BY <2>2, <2>4 DEF Ask, Free
    <3>3. \A s \in Wanted' : s \in Nat
      BY <2>1, RoomRows DEF Wanted
    <3>4. Newest(seqs) \in Nat
      BY <2>1, <3>1, StoreAssumption DEF Seq1
    <3> HIDE DEF n, r
    <3>5. \A s \in Wanted' : s <= n.after => Caught(s)'
      BY <2>1, <3>1, <3>2, <3>3, <3>4
    <3>6. sync'.pc = "running"
      BY <2>2, <2>4
    <3> QED
      BY <3>2, <3>5, <3>6 DEF SyncOK, n
  <2> QED
    BY <2>3, <2>4
<1>19. ASSUME NEW kind \in Kinds, Fail(kind)
       PROVE  SyncOK'
  <2>1. CASE kind = "sync"
    BY <1>1, <1>8, <1>19, <2>1 DEF Fail, NotRunning
  <2>2. CASE kind # "sync"
    BY <1>1, <1>6, <1>19, <2>2 DEF Fail
  <2> QED
    BY <2>1, <2>2
<1>20. CASE FillTimer
  BY <1>6, <1>20 DEF FillTimer
<1> QED
  BY <1>9, <1>10, <1>11, <1>12, <1>13, <1>14, <1>15, <1>16, <1>17, <1>18, <1>19, <1>20 DEF Next

-------------------------------------------------------------------------------
(* Theorems *)

LEMMA Stutter == IInv /\ UNCHANGED vars => IInv'
  BY DEF IInv, vars, link, TypeOK, WithheldHasDeadline, CopiesOK, Snapshots, SyncOK, Wanted, Caught

(* Every copy a client has, or is about to get, is of what the server's    *)
(* row was at some time (MessageController.index and the room's events).   *)
THEOREM Invariance == Spec => []IInv
<1>1. IInv /\ [Next]_vars => IInv'
  BY TypeStep, CopiesStep, SyncStep, Stutter DEF IInv
<1> QED
  BY <1>1, Initially, PTL DEF Spec

(* The fields of MessageStore and RoomSync stay in their types: the seqs a *)
(* window shows and the bounds of its gap are seqs of the room, and every  *)
(* request's answer is a page of rows.                                     *)
THEOREM TypeCorrect == Spec => []TypeOK
  BY Invariance, PTL DEF IInv

(* MessageStore.recompute(): no row is withheld from the view without a    *)
(* fill to ask for and a timer that releases it.                           *)
THEOREM WithheldHasADeadline == Spec => []WithheldHasDeadline
  BY Invariance, PTL DEF IInv

(* MessageStore.mergeExisting(): whatever the order of events and pages, a *)
(* loaded row is not undeleted and does not go back to an earlier edit.    *)
THEOREM NoRegress == Spec => CopiesNeverRegress
<1>1. IInv /\ [Next]_vars =>
        [\A s \in DOMAIN st.byId :
           /\ s \in DOMAIN st'.byId
           /\ st.byId[s].deleted => st'.byId[s].deleted
           /\ st'.byId[s].deleted \/ st'.byId[s].edits >= st.byId[s].edits]_st
  BY ClientLearns DEF IInv, vars, Learns
<1>2. Spec => []IInv
  BY Invariance
<1> QED
  BY <1>1, <1>2, PTL DEF Spec, CopiesNeverRegress

(* RoomSync.run(): a refresh that ends has brought every row, from the     *)
(* oldest on screen on, to what the server has, unless the row has changed *)
(* since it began; whatever other pages and events came in between.        *)
THEOREM RefreshCatchesUp == Spec => CatchesUp
<1>1. IInv /\ [Next]_vars =>
        [sync.pc = "running" /\ sync'.pc = "done" =>
           \A s \in (sync'.from)..Len(room) \ sync.changed :
              s \in DOMAIN st'.byId /\ st'.byId[s] = room[s]]_vars
  <2> SUFFICES ASSUME IInv, Next, sync.pc = "running", sync'.pc = "done"
               PROVE  \A s \in (sync'.from)..Len(room) \ sync.changed :
                         s \in DOMAIN st'.byId /\ st'.byId[s] = room[s]
    OBVIOUS
  <2>1. ReceiveSync
    <3>1. ~RoomGoesOn
      BY DEF RoomGoesOn
    <3>2. ~Post /\ \A s \in Seq1 : ~Edit(s) /\ ~Delete(s)
      BY <3>1, PostGoesOn, EditGoesOn, DeleteGoesOn DEF IInv
    <3>3. ~Connect /\ ~Disconnect /\ \A kind \in Kinds : ~Fail(kind)
      BY DEF Connect, Disconnect, Fail, NotRunning
    <3>4. /\ \A e \in events : ~Deliver(e) /\ ~Lose(e)
          /\ ~LoadCache /\ ~Refetch /\ ~loadOlder /\ ~fillGap /\ ~FillTimer
          /\ \A kind \in Kinds : ~Serve(kind) /\ ~Receive(kind)
      BY DEF Deliver, Lose, LoadCache, Refetch, loadOlder, fillGap, FillTimer, Serve, Receive
    <3> QED
      BY <3>2, <3>3, <3>4 DEF Next
  <2>2. ~reqs["sync"].more
    BY <2>1 DEF IInv, ReceiveSync, TypeOK, SyncType
  <2>3. \A s \in Wanted' : Caught(s)'
    BY <2>1, <2>2, PageCaught DEF IInv
  <2>4. room' = room /\ sync'.changed = sync.changed
    BY <2>1, PageCaught DEF IInv
  <2>5. sync'.from \in Nat /\ sync'.from > 0
    BY TypeStep, StoreAssumption DEF IInv, TypeOK, SyncType, Seq1
  <2>6. \A s \in (sync'.from)..Len(room) \ sync.changed : s \in Wanted'
    BY <2>4, <2>5, RoomRows DEF IInv, Wanted
  <2> QED
    BY <2>3, <2>4, <2>6 DEF Caught
<1>2. Spec => []IInv
  BY Invariance
<1> QED
  BY <1>1, <1>2, PTL DEF Spec, CatchesUp
================================================================================
