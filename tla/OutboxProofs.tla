------------------------------ MODULE OutboxProofs ------------------------------
(***************************************************************************)
(* Proofs about Outbox, for any number of rooms, messages, attempts,       *)
(* restarts and manual retries.  Types hold for any number of instances    *)
(* that wait for restore(); what is promised of messages is proved of one  *)
(* instance, since two overwrite each other's saved queue.                 *)
(***************************************************************************)
EXTENDS Outbox, SequenceTheorems, WellFoundedInduction, TLAPS

-------------------------------------------------------------------------------
(* Queues and writes *)

(* A queue of known messages, of which only failed ones have used up their *)
(* attempts.                                                               *)
QueueOK(q, rec, known) ==
    /\ q \in [DOMAIN q -> rec] /\ DOMAIN q \subseteq known
    /\ \A e \in DOMAIN q : q[e].status # "failed" => q[e].attempts < MaxAttempts

LEMMA QueueTypes ==
    ASSUME NEW rec, NEW known \in SUBSET Entry, NEW q, QueueOK(q, rec, known)
    PROVE  q \in Queue(rec)
  BY DEF QueueOK, Queue

LEMMA EmptyQueue ==
    ASSUME NEW rec, NEW known
    PROVE  QueueOK(NoQueue, rec, known) /\ DOMAIN NoQueue = {}
  BY DEF QueueOK, NoQueue

(* What is saved of a queue is a queue of the same messages.               *)
LEMMA SnapshotOK ==
    ASSUME NEW known, NEW mem, QueueOK(mem, Held, known)
    PROVE  QueueOK(Snapshot(mem), Saved, known) /\ DOMAIN Snapshot(mem) = DOMAIN mem
  BY DEF QueueOK, Snapshot, Held, Saved

LEMMA DropOK ==
    ASSUME NEW rec, NEW known, NEW q, QueueOK(q, rec, known), NEW ids
    PROVE  QueueOK(Drop(q, ids), rec, known)
  BY DEF QueueOK, Drop

(* The oldest of some messages is one of them.                             *)
LEMMA OldestIsOne ==
    ASSUME NEW ids \in SUBSET Nat, ids # {}
    PROVE  Oldest(ids) \in ids
<1> DEFINE R == {p \in Nat \X Nat : p[1] < p[2]}
<1>1. IsWellFoundedOn(R, Nat)
  BY NatLessThanWellFounded DEF OpToRel
<1>2. \E e \in ids : \A f \in ids : <<f, e>> \notin R
  BY <1>1, WFMin
<1>3. \A e, f \in Nat : <<f, e>> \notin R => e <= f
  BY DEF R
<1> HIDE DEF R
<1>4. \E e \in ids : \A f \in ids : e <= f
  BY <1>2, <1>3
<1> QED
  BY <1>4 DEF Oldest

LEMMA Appended ==
    ASSUME NEW S, NEW ws \in Seq(S), NEW w \in S
    PROVE  LET n == Append(ws, w) IN
           /\ n \in Seq(S)
           /\ DOMAIN n = DOMAIN ws \cup {Len(ws) + 1}
           /\ Len(ws) + 1 \in Nat \ DOMAIN ws
           /\ \A k \in DOMAIN ws : n[k] = ws[k] /\ k \in Nat /\ k < Len(ws) + 1
           /\ n[Len(ws) + 1] = w
<1>1. DOMAIN ws = 1..Len(ws) /\ Len(ws) \in Nat
  BY LenProperties
<1>2. Append(ws, w) \in Seq(S) /\ Len(Append(ws, w)) = Len(ws) + 1
  BY AppendProperties
<1>3. DOMAIN Append(ws, w) = 1..Len(ws) + 1
  BY <1>2, LenProperties
<1>4. \A k \in 1..Len(ws) : Append(ws, w)[k] = ws[k]
  BY AppendProperties
<1>5. Append(ws, w)[Len(ws) + 1] = w
  BY AppendProperties
<1> QED
  BY <1>1, <1>2, <1>3, <1>4, <1>5

LEMMA Tailed ==
    ASSUME NEW S, NEW ws \in Seq(S), ws # <<>>
    PROVE  /\ Tail(ws) \in Seq(S)
           /\ \A k \in DOMAIN Tail(ws) : k \in Nat /\ k > 0 /\ k + 1 \in DOMAIN ws /\ Tail(ws)[k] = ws[k + 1]
           /\ 1 \in DOMAIN ws /\ Head(ws) = ws[1] /\ Head(ws) \in S
           /\ \A k \in DOMAIN ws : k \in Nat
<1>1. DOMAIN ws = 1..Len(ws) /\ Len(ws) \in Nat /\ Len(ws) # 0
  BY LenProperties, EmptySeq
<1>2. Tail(ws) \in Seq(S) /\ Len(Tail(ws)) = Len(ws) - 1 /\ Head(ws) \in S
  BY HeadTailProperties
<1>3. DOMAIN Tail(ws) = 1..(Len(ws) - 1)
  BY <1>2, LenProperties
<1>4. \A k \in 1..(Len(ws) - 1) : Tail(ws)[k] = ws[k + 1]
  BY <1>2, HeadTailProperties
<1>5. Head(ws) = ws[1]
  BY DEF Head
<1> QED
  BY <1>1, <1>2, <1>3, <1>4, <1>5

-------------------------------------------------------------------------------
(* What an instance's fields say of each other *)

(* Of the saves flush() waits for, at most one is chained, the one it      *)
(* waits for now.                                                          *)
Ours(w) == w.op \in {"send", "settle"}
ChainOK(writes, flush) ==
    /\ \A k \in DOMAIN writes : writes[k].op = "send" => flush.pc = "save" /\ writes[k].ids = {flush.id}
    /\ \A k \in DOMAIN writes : writes[k].op = "settle" => flush.pc = "settle"
    /\ \A j, k \in DOMAIN writes : Ours(writes[j]) /\ Ours(writes[k]) => j = k

(* The entry flush() is about is marked so, unless it was removed; if      *)
(* saves do not fail no other is.                                          *)
MarkOK(mem, flush) ==
    /\ flush.pc \in {"save", "send"} /\ flush.id \in DOMAIN mem => mem[flush.id].status = "sending"
    /\ ~SaveMayFail =>
          \A e \in DOMAIN mem : mem[e].status = "sending" => flush.pc \in {"save", "send"} /\ flush.id = e

WritesOK(writes, known) ==
    /\ writes \in Seq(Write)
    /\ \A k \in DOMAIN writes : QueueOK(writes[k].snap, Saved, known) /\ writes[k].ids \subseteq known

Shape(o, known) ==
    /\ o \in Object
    /\ QueueOK(o.mem, Held, known)
    /\ WritesOK(o.writes, known)
    /\ o.flush.id \in known \cup {0}
    /\ o.phase # "up" => o.mem = NoQueue /\ o.flush = NotFlushing
    /\ o.phase \in {"none", "restoring"} => o.writes = <<>>
    /\ o.phase = "up" => ChainOK(o.writes, o.flush) /\ MarkOK(o.mem, o.flush)

Shapes ==
    /\ ob \in [Inst -> Object]
    /\ \A i \in Inst : Shape(ob[i], DOMAIN roomOf)

Types ==
    /\ roomOf \in Seq(Room) /\ Len(roomOf) <= MaxEntries
    /\ Shapes
    /\ QueueOK(disk, Saved, DOMAIN roomOf)
    /\ inflight \subseteq DOMAIN roomOf
    /\ log \in Seq(Entry) /\ Delivered \subseteq DOMAIN roomOf
    /\ accepted \cup removed \cup gone \subseteq DOMAIN roomOf

LEMMA KnownEntries == ASSUME Types PROVE DOMAIN roomOf \subseteq Entry /\ DOMAIN roomOf = 1..Len(roomOf) /\ Len(roomOf) \in Nat
<1>1. DOMAIN roomOf = 1..Len(roomOf) /\ Len(roomOf) \in Nat
  BY LenProperties DEF Types
<1> QED
  BY <1>1, OutboxAssumption DEF Types, Entry

(* A snapshot joins the chain.                                             *)
LEMMA PersistShape ==
    ASSUME NEW known \in SUBSET Entry, NEW o, Shape(o, known), o.phase = "up",
           NEW op \in {"enqueue", "send", "settle", "retry", "remove", "removeRoom"}, NEW ids \in SUBSET known,
           op \in {"send", "settle"} => \A k \in DOMAIN o.writes : ~Ours(o.writes[k]),
           op = "send" => o.flush.pc = "save" /\ ids = {o.flush.id},
           op = "settle" => o.flush.pc = "settle"
    PROVE  Shape(Persist(o, op, ids), known)
<1> DEFINE w == [snap |-> Snapshot(o.mem), op |-> op, ids |-> ids]
           n == Persist(o, op, ids)
<1>1. QueueOK(w.snap, Saved, known) /\ w.ids \subseteq known /\ w.op = op /\ w.ids = ids
  BY SnapshotOK DEF Shape
<1>2. w \in Write
  BY <1>1, QueueTypes DEF Write
<1>3. n.phase = "up" /\ n.mem = o.mem /\ n.writes = Append(o.writes, w) /\ n.flush = o.flush
  BY DEF Persist, Shape, Object
<1>4. o.writes \in Seq(Write)
  BY DEF Shape, WritesOK
<1> HIDE DEF w
<1>5. n.writes \in Seq(Write)
  BY <1>2, <1>3, <1>4, Appended
<1>6. n \in Object
  BY <1>3, <1>5 DEF Persist, Shape, Object
<1> HIDE DEF n
<1>7. WritesOK(n.writes, known)
  BY <1>1, <1>2, <1>3, <1>4, <1>5, Appended DEF Shape, WritesOK
<1>8. ChainOK(n.writes, n.flush)
  BY <1>1, <1>2, <1>3, <1>4, Appended DEF Shape, ChainOK, Ours
<1> QED
  BY <1>3, <1>6, <1>7, <1>8 DEF Shape, n

(* flush() does nothing, or marks a sendable message that is the oldest of *)
(* its room and saves.                                                     *)
Marked(o, e) == [o EXCEPT !.mem[e].status = "sending", !.flush = [pc |-> "save", id |-> e]]
Sendable(o, e) ==
    /\ e \in DOMAIN o.mem /\ o.phase = "up" /\ o.flush = NotFlushing /\ o.mem[e].status = "pending"
    /\ \A h \in DOMAIN o.mem : roomOf[h] = roomOf[e] => e <= h

LEMMA FlushCases ==
    ASSUME NEW known \in SUBSET Entry, NEW o, Shape(o, known)
    PROVE  Flush(o) = o \/ \E e \in known : Sendable(o, e) /\ Flush(o) = Persist(Marked(o, e), "send", {e})
<1> DEFINE queue == pendingQueue(o.mem)
           e == Oldest(queue)
<1>1. SUFFICES ASSUME o.flush = NotFlushing, queue # {}
               PROVE  Sendable(o, e)
  <2>1. DOMAIN o.mem \subseteq known
    BY DEF Shape, QueueOK
  <2> QED
    BY <1>1, <2>1 DEF Flush, Marked, Sendable
<1>2. DOMAIN o.mem \subseteq Nat
  <2>1. DOMAIN o.mem \subseteq Entry
    BY DEF Shape, QueueOK
  <2> QED
    BY <2>1, OutboxAssumption DEF Entry
<1>3. e \in queue
  BY <1>1, <1>2, OldestIsOne DEF pendingQueue
<1>4. DOMAIN NoQueue = {}
  BY DEF NoQueue
<1>5. o.phase = "up"
  BY <1>3, <1>4 DEF Shape, pendingQueue
<1> HIDE DEF e
<1> QED
  BY <1>1, <1>3, <1>5 DEF Sendable, pendingQueue

LEMMA MarkedShape ==
    ASSUME NEW known \in SUBSET Entry, NEW o, Shape(o, known), NEW e \in known, Sendable(o, e)
    PROVE  LET m == Marked(o, e) IN
           /\ Shape(m, known) /\ m.phase = "up" /\ m.writes = o.writes
           /\ DOMAIN m.mem = DOMAIN o.mem /\ m.flush = [pc |-> "save", id |-> e]
           /\ \A k \in DOMAIN m.writes : ~Ours(m.writes[k])
<1> DEFINE m == Marked(o, e)
<1>1. /\ m.phase = "up" /\ m.writes = o.writes /\ m.flush = [pc |-> "save", id |-> e]
      /\ m.mem = [o.mem EXCEPT ![e].status = "sending"] /\ m.timer = o.timer /\ m.online = o.online
  BY DEF Marked, Sendable, Shape, Object
<1>2. QueueOK(m.mem, Held, known) /\ DOMAIN m.mem = DOMAIN o.mem
  BY <1>1 DEF Shape, QueueOK, Held, Status, Sendable
<1>3. m.mem \in Queue(Held)
  BY <1>2, QueueTypes
<1>4. m.flush \in Flushing
  BY <1>1 DEF Flushing
<1>5. m \in Object
  BY <1>1, <1>3, <1>4 DEF Object, Shape, Marked
<1>6. \A k \in DOMAIN o.writes : ~Ours(o.writes[k])
  BY DEF Sendable, Shape, ChainOK, Ours, NotFlushing
<1>7. ChainOK(o.writes, m.flush)
  BY <1>6 DEF ChainOK, Ours
<1>8. \A x \in DOMAIN m.mem : m.mem[x].status = IF x = e THEN "sending" ELSE o.mem[x].status
  BY <1>1, <1>2 DEF Shape, QueueOK, Held
<1>9. MarkOK(m.mem, m.flush)
  BY <1>1, <1>2, <1>8 DEF MarkOK, Shape, Sendable, NotFlushing
<1> QED
  BY <1>1, <1>2, <1>5, <1>6, <1>7, <1>9 DEF Shape

LEMMA FlushShape ==
    ASSUME NEW known \in SUBSET Entry, NEW o, Shape(o, known)
    PROVE  Shape(Flush(o), known)
<1>1. CASE Flush(o) = o
  BY <1>1
<1>2. CASE \E e \in known : Sendable(o, e) /\ Flush(o) = Persist(Marked(o, e), "send", {e})
  <2>1. PICK e \in known : Sendable(o, e) /\ Flush(o) = Persist(Marked(o, e), "send", {e})
    BY <1>2
  <2> DEFINE m == Marked(o, e)
  <2>2. /\ Shape(m, known) /\ m.phase = "up" /\ m.flush = [pc |-> "save", id |-> e]
        /\ \A k \in DOMAIN m.writes : ~Ours(m.writes[k])
    BY <2>1, MarkedShape
  <2> HIDE DEF m
  <2>3. Shape(Persist(m, "send", {e}), known)
    BY <2>2, PersistShape
  <2> QED
    BY <2>1, <2>3 DEF m
<1> QED
  BY <1>1, <1>2, FlushCases

(* The first save of the chain is off it.                                  *)
Landed(o) == [o EXCEPT !.writes = Tail(@)]
LEMMA LandedShape ==
    ASSUME NEW known \in SUBSET Entry, NEW o, Shape(o, known), o.writes # <<>>
    PROVE  LET w == Head(o.writes)
               n == Landed(o) IN
           /\ Shape(n, known) /\ n.phase = o.phase /\ n.mem = o.mem /\ n.flush = o.flush
           /\ n.writes = Tail(o.writes)
           /\ o.phase \in {"up", "disposed"}
           /\ QueueOK(w.snap, Saved, known) /\ w.ids \subseteq known /\ w \in Write
           /\ o.phase = "up" =>
                /\ w.op = "send" => o.flush.pc = "save" /\ w.ids = {o.flush.id}
                /\ w.op = "settle" => o.flush.pc = "settle"
                /\ Ours(w) => \A k \in DOMAIN n.writes : ~Ours(n.writes[k])
<1> DEFINE ws == o.writes
           n == Landed(o)
<1>1. ws \in Seq(Write)
  BY DEF Shape, WritesOK
<1>2. n.phase = o.phase /\ n.mem = o.mem /\ n.flush = o.flush /\ n.writes = Tail(ws)
  BY DEF Landed, Shape, Object
<1>3. /\ Tail(ws) \in Seq(Write)
      /\ \A k \in DOMAIN Tail(ws) : k \in Nat /\ k > 0 /\ k + 1 \in DOMAIN ws /\ Tail(ws)[k] = ws[k + 1]
      /\ 1 \in DOMAIN ws /\ Head(ws) = ws[1] /\ Head(ws) \in Write
  BY <1>1, Tailed
<1>4. n \in Object
  BY <1>2, <1>3 DEF Landed, Shape, Object
<1>5. o.phase \in {"up", "disposed"}
  BY DEF Shape, Object
<1>6. WritesOK(Tail(ws), known)
  BY <1>3 DEF Shape, WritesOK
<1>7. ASSUME o.phase = "up" PROVE ChainOK(Tail(ws), o.flush)
  <2>1. ChainOK(ws, o.flush)
    BY <1>7 DEF Shape
  <2>2. ASSUME NEW j \in DOMAIN Tail(ws), NEW k \in DOMAIN Tail(ws), Ours(Tail(ws)[j]), Ours(Tail(ws)[k])
        PROVE  j = k
    <3>1. j + 1 = k + 1
      BY <1>3, <2>1, <2>2 DEF ChainOK
    <3> QED
      BY <1>3, <3>1
  <2> QED
    BY <1>3, <2>1, <2>2 DEF ChainOK
<1>8. o.phase = "up" /\ Ours(Head(ws)) => \A k \in DOMAIN Tail(ws) : ~Ours(Tail(ws)[k])
  <2> SUFFICES ASSUME o.phase = "up", Ours(Head(ws)), NEW k \in DOMAIN Tail(ws), Ours(Tail(ws)[k])
               PROVE  FALSE
    OBVIOUS
  <2>1. k + 1 # 1 /\ Ours(ws[1]) /\ Ours(ws[k + 1])
    BY <1>3
  <2>2. ChainOK(ws, o.flush)
    BY DEF Shape
  <2>3. 1 = k + 1
    BY <1>3, <2>1, <2>2 DEF ChainOK
  <2> QED
    BY <2>1, <2>3
<1> HIDE DEF n
<1> QED
  BY <1>2, <1>3, <1>4, <1>5, <1>6, <1>7, <1>8 DEF Shape, WritesOK, ChainOK, n

LEMMA EmptyShape ==
    ASSUME NEW known \in SUBSET Entry, NEW o, Shape(o, known), NEW phase \in {"none", "restoring"}
    PROVE  /\ Shape([None EXCEPT !.phase = phase], known)
           /\ Shape([None EXCEPT !.phase = "disposed", !.writes = o.writes], known)
           /\ Shape(None, known)
<1>1. QueueOK(NoQueue, Held, known) /\ NoQueue \in Queue(Held)
  BY EmptyQueue, QueueTypes
<1>2. <<>> \in Seq(Write) /\ DOMAIN <<>> = {}
  OBVIOUS
<1>3. WritesOK(<<>>, known) /\ WritesOK(o.writes, known)
  BY <1>2 DEF WritesOK, Shape
<1>4. NotFlushing \in Flushing /\ NotFlushing.id = 0
  BY DEF NotFlushing, Flushing
<1> QED
  BY <1>1, <1>3, <1>4 DEF Shape, WritesOK, Object, None

LEMMA KnownGrows ==
    ASSUME NEW known, NEW more, known \subseteq more
    PROVE  /\ \A o : Shape(o, known) => Shape(o, more)
           /\ \A q, rec : QueueOK(q, rec, known) => QueueOK(q, rec, more)
  BY DEF Shape, WritesOK, QueueOK

(* An instance that is up with another queue in memory.                    *)
LEMMA MemShape ==
    ASSUME NEW known \in SUBSET Entry, NEW o, Shape(o, known),
           NEW n, n.phase = "up", n.writes = o.writes, o.phase = "up",
           n.flush = o.flush \/ (n.flush = NotFlushing /\ \A k \in DOMAIN o.writes : ~Ours(o.writes[k])),
           n = [phase |-> n.phase, mem |-> n.mem, writes |-> n.writes, flush |-> n.flush,
                timer |-> n.timer, online |-> n.online],
           n.timer \in BOOLEAN, n.online \in BOOLEAN,
           QueueOK(n.mem, Held, known), MarkOK(n.mem, n.flush)
    PROVE  Shape(n, known)
<1>1. n.mem \in Queue(Held)
  BY QueueTypes
<1>2. n.flush \in Flushing /\ n.writes \in Seq(Write)
  BY DEF Shape, Object, Flushing, NotFlushing
<1>3. n \in Object
  BY <1>1, <1>2 DEF Object
<1>4. ChainOK(n.writes, n.flush)
  BY DEF Shape, ChainOK, Ours
<1>5. n.flush.id \in known \cup {0}
  BY DEF Shape, NotFlushing
<1> QED
  BY <1>3, <1>4, <1>5 DEF Shape

(* flush() has an answer and saves.                                        *)
LEMMA AnsweredShape ==
    ASSUME NEW known \in SUBSET Entry, NEW o, Shape(o, known), o.flush.pc = "send",
           NEW n \in Object, n.phase = o.phase, n.writes = o.writes, n.flush = o.flush,
           QueueOK(n.mem, Held, known), ~SaveMayFail => \A e \in DOMAIN n.mem : n.mem[e].status # "sending"
    PROVE  Shape(Persist([n EXCEPT !.flush.pc = "settle"], "settle", {}), known)
<1> DEFINE m == [n EXCEPT !.flush.pc = "settle"]
<1>1. o.phase = "up" /\ o.flush.id \in known \cup {0}
  BY DEF Shape, NotFlushing
<1>2. o.flush = [pc |-> "send", id |-> o.flush.id] /\ o.flush.id \in Entry \cup {0}
  BY DEF Shape, Object, Flushing
<1>3. m.phase = "up" /\ m.mem = n.mem /\ m.writes = o.writes /\ m.flush = [pc |-> "settle", id |-> o.flush.id]
  BY <1>1, <1>2 DEF Object
<1>4. m \in Object
  BY <1>2, <1>3 DEF Object, Flushing
<1>5. \A k \in DOMAIN o.writes : ~Ours(o.writes[k])
  BY <1>1 DEF Shape, ChainOK, Ours
<1> HIDE DEF m
<1>6. ChainOK(m.writes, m.flush) /\ MarkOK(m.mem, m.flush)
  BY <1>3, <1>5 DEF ChainOK, MarkOK, Ours
<1>7. Shape(m, known)
  BY <1>1, <1>3, <1>4, <1>6 DEF Shape
<1>8. Shape(Persist(m, "settle", {}), known)
  BY <1>3, <1>5, <1>7, PersistShape
<1> QED
  BY <1>8 DEF m

(* One entry of a queue changes.                                           *)
LEMMA EntryOK ==
    ASSUME NEW known \in SUBSET Entry, NEW mem, QueueOK(mem, Held, known), NEW e \in DOMAIN mem,
           NEW row \in Held, row.status # "failed" => row.attempts < MaxAttempts
    PROVE  LET q == [mem EXCEPT ![e] = row] IN
           /\ QueueOK(q, Held, known) /\ DOMAIN q = DOMAIN mem
           /\ q[e] = row /\ \A x \in DOMAIN mem \ {e} : q[x] = mem[x]
  BY DEF QueueOK

(* ... by another failed attempt, or by a refusal.                         *)
LEMMA FailedEntry ==
    ASSUME NEW row \in Held, row.attempts < MaxAttempts
    PROVE  /\ Failed(row) \in Held /\ Failed(row).status = "failed"
           /\ HeldBack(row) \in Held /\ HeldBack(row).status = "pending"
           /\ HeldBack(row).attempts = row.attempts + 1
           /\ [row EXCEPT !.status = "failed"] \in Held /\ [row EXCEPT !.status = "failed"].status = "failed"
<1>1. /\ row = [status |-> row.status, attempts |-> row.attempts, hold |-> row.hold]
      /\ row.attempts \in 0..MaxAttempts /\ row.hold \in BOOLEAN
  BY DEF Held
<1>2. row.attempts + 1 \in 0..MaxAttempts
  BY <1>1, OutboxAssumption
<1> DEFINE a == row.attempts + 1
           b == [row EXCEPT !.attempts = a]
           c == [b EXCEPT !.status = "pending"]
<1>3. b = [status |-> row.status, attempts |-> a, hold |-> row.hold]
  <2> HIDE DEF a
  <2> QED
    BY DEF Held
<1>4. Failed(row) = [b EXCEPT !.status = "failed"] /\ HeldBack(row) = [c EXCEPT !.hold = TRUE]
  BY DEF Failed, HeldBack
<1>5. [row EXCEPT !.status = "failed"] = [status |-> "failed", attempts |-> row.attempts, hold |-> row.hold]
  BY DEF Held
<1> HIDE DEF b
<1>6. Failed(row) = [status |-> "failed", attempts |-> a, hold |-> row.hold]
  BY <1>3, <1>4
<1>7. c = [status |-> "pending", attempts |-> a, hold |-> row.hold]
  BY <1>3
<1> HIDE DEF c
<1>8. HeldBack(row) = [status |-> "pending", attempts |-> a, hold |-> TRUE]
  BY <1>4, <1>7
<1> QED
  BY <1>1, <1>2, <1>5, <1>6, <1>8 DEF Held, Status

(* ... by a manual retry.                                                  *)
LEMMA RetriedOK ==
    ASSUME NEW known \in SUBSET Entry, NEW mem, QueueOK(mem, Held, known), NEW e \in DOMAIN mem
    PROVE  LET q == [mem EXCEPT ![e] = [@ EXCEPT !.status = "pending", !.attempts = 0]] IN
           /\ QueueOK(q, Held, known) /\ DOMAIN q = DOMAIN mem
           /\ \A x \in DOMAIN q : q[x].status = IF x = e THEN "pending" ELSE mem[x].status
<1> DEFINE held == mem[e]
           row == [held EXCEPT !.status = "pending", !.attempts = 0]
           q == [mem EXCEPT ![e] = row]
<1>1. held \in [status : Status, attempts : 0..MaxAttempts, hold : BOOLEAN]
      /\ row = [held EXCEPT !.status = "pending", !.attempts = 0]
  BY DEF QueueOK, Held
<1>2. row \in Held /\ row.status = "pending" /\ row.attempts = 0
  <2> HIDE DEF held, row
  <2>1. row = [status |-> "pending", attempts |-> 0, hold |-> held.hold] /\ held.hold \in BOOLEAN
    BY <1>1
  <2> QED
    BY <2>1, OutboxAssumption DEF Held, Status
<1> HIDE DEF row, held
<1>3. /\ QueueOK(q, Held, known) /\ DOMAIN q = DOMAIN mem
      /\ q[e] = row /\ \A x \in DOMAIN mem \ {e} : q[x] = mem[x]
  BY <1>2, OutboxAssumption, EntryOK
<1> HIDE DEF q
<1>4. \A x \in DOMAIN q : q[x].status = IF x = e THEN "pending" ELSE mem[x].status
  BY <1>2, <1>3
<1> QED
  BY <1>3, <1>4 DEF q, row, held

(* Releasing the held entries changes nothing else.                        *)
LEMMA ReleasedOK ==
    ASSUME NEW known \in SUBSET Entry, NEW mem, QueueOK(mem, Held, known)
    PROVE  LET q == Released(mem) IN
           /\ QueueOK(q, Held, known) /\ DOMAIN q = DOMAIN mem
           /\ \A x \in DOMAIN q : q[x].status = mem[x].status
<1> DEFINE q == Released(mem)
<1>1. ASSUME NEW x \in DOMAIN mem
      PROVE  LET row == [mem[x] EXCEPT !.hold = FALSE]
             IN  row \in Held /\ row.status = mem[x].status /\ row.attempts = mem[x].attempts
  <2> DEFINE row == mem[x]
  <2>1. row \in Held
    BY DEF QueueOK
  <2> HIDE DEF row
  <2> QED
    BY <2>1 DEF row, Held
<1>2. DOMAIN q = DOMAIN mem /\ q = [x \in DOMAIN q |-> q[x]] /\ \A x \in DOMAIN mem : q[x] = [mem[x] EXCEPT !.hold = FALSE]
  BY DEF Released
<1> HIDE DEF q
<1>3. \A x \in DOMAIN mem : q[x] \in Held /\ q[x].status = mem[x].status /\ q[x].attempts = mem[x].attempts
  BY <1>1, <1>2
<1>4. q \in [DOMAIN q -> Held]
  BY <1>2, <1>3
<1> QED
  BY <1>2, <1>3, <1>4 DEF QueueOK, q

(* The timer fires.                                                        *)
LEMMA TimerShape ==
    ASSUME NEW known \in SUBSET Entry, NEW o, Shape(o, known)
    PROVE  Shape([o EXCEPT !.timer = FALSE, !.mem = Released(o.mem)], known)
<1> DEFINE mem == Released(o.mem)
           n == [o EXCEPT !.timer = FALSE, !.mem = mem]
<1>1. QueueOK(o.mem, Held, known) /\ o \in Object
  BY DEF Shape
<1>2. QueueOK(mem, Held, known) /\ DOMAIN mem = DOMAIN o.mem
      /\ \A x \in DOMAIN mem : mem[x].status = o.mem[x].status
  BY <1>1, ReleasedOK
<1>3. mem \in Queue(Held)
  BY <1>2, QueueTypes
<1> HIDE DEF mem
<1>4. n \in Object /\ n.phase = o.phase /\ n.writes = o.writes /\ n.flush = o.flush /\ n.mem = mem
  BY <1>1, <1>3 DEF Object
<1> HIDE DEF n
<1>5. o.phase = "up" => MarkOK(mem, o.flush)
  BY <1>2 DEF Shape, MarkOK
<1>6. o.phase # "up" => mem = NoQueue
  BY DEF Shape, mem, Released, NoQueue
<1>7. Shape(n, known)
  BY <1>2, <1>4, <1>5, <1>6 DEF Shape
<1> QED
  BY <1>7 DEF n, mem

(* What awaited a save that landed goes on.                                *)
LEMMA ContinueShape ==
    ASSUME NEW known \in SUBSET Entry, NEW i \in Inst, Shape(ob[i], known), ob[i].writes # <<>>
    PROVE  Shape(Continue(i, Head(ob[i].writes), Landed(ob[i])), known)
<1> DEFINE o == ob[i]
           w == Head(o.writes)
           n == Landed(o)
<1>1. /\ Shape(n, known) /\ n.phase = o.phase /\ n.mem = o.mem /\ n.flush = o.flush
      /\ n.writes = Tail(o.writes)
      /\ o.phase \in {"up", "disposed"}
      /\ o.phase = "up" =>
           /\ w.op = "send" => o.flush.pc = "save" /\ w.ids = {o.flush.id}
           /\ w.op = "settle" => o.flush.pc = "settle"
           /\ Ours(w) => \A k \in DOMAIN n.writes : ~Ours(n.writes[k])
  BY LandedShape
<1>2. Shape(Flush(n), known)
  BY <1>1, FlushShape
<1>3. n \in Object /\ n.flush \in Flushing
  BY <1>1 DEF Shape, Object
<1> HIDE DEF n, w
<1>4. ASSUME o.phase = "up", w.op = "send" PROVE Shape([n EXCEPT !.flush.pc = "send"], known)
  <2> DEFINE m == [n EXCEPT !.flush.pc = "send"]
  <2>1. m.flush = [pc |-> "send", id |-> n.flush.id] /\ m.flush \in Flushing
    BY <1>3 DEF Flushing, Object
  <2>2. m.phase = "up" /\ m.mem = n.mem /\ m.writes = n.writes /\ m \in Object
    BY <1>1, <1>3, <1>4, <2>1 DEF Object
  <2>3. n.flush.pc = "save" /\ \A k \in DOMAIN n.writes : ~Ours(n.writes[k])
    BY <1>1, <1>4 DEF Ours
  <2> HIDE DEF m
  <2>4. ChainOK(m.writes, m.flush)
    BY <2>1, <2>2, <2>3 DEF ChainOK, Ours
  <2>5. MarkOK(m.mem, m.flush)
    BY <1>1, <1>4, <2>1, <2>2, <2>3, SMTT(20) DEF MarkOK, Shape
  <2>6. m.flush.id \in known \cup {0}
    BY <1>1, <2>1 DEF Shape
  <2>7. Shape(m, known)
    BY <1>1, <2>2, <2>4, <2>5, <2>6 DEF Shape
  <2> QED
    BY <2>7 DEF m
<1>5. ASSUME o.phase = "up", w.op = "settle" PROVE Shape(Flush([n EXCEPT !.flush = NotFlushing]), known)
  <2> DEFINE m == [n EXCEPT !.flush = NotFlushing]
  <2>1. m.flush = NotFlushing /\ m.flush \in Flushing
    BY <1>3 DEF Flushing, NotFlushing, Object
  <2>2. m.phase = "up" /\ m.mem = n.mem /\ m.writes = n.writes /\ m \in Object
    BY <1>1, <1>3, <1>5, <2>1 DEF Object
  <2>3. n.flush.pc = "settle" /\ \A k \in DOMAIN n.writes : ~Ours(n.writes[k])
    BY <1>1, <1>5 DEF Ours
  <2> HIDE DEF m
  <2>4. ChainOK(m.writes, m.flush)
    BY <2>1, <2>2, <2>3 DEF ChainOK, Ours
  <2>5. MarkOK(m.mem, m.flush)
    BY <1>1, <1>5, <2>1, <2>2, <2>3 DEF MarkOK, Shape, NotFlushing
  <2>6. m.flush.id = 0
    BY <2>1 DEF NotFlushing
  <2>7. Shape(m, known)
    BY <1>1, <2>2, <2>4, <2>5, <2>6 DEF Shape
  <2>8. Shape(Flush(m), known)
    BY <2>7, FlushShape
  <2> QED
    BY <2>8 DEF m
<1>6. Alive(i) <=> o.phase = "up"
  BY <1>1 DEF Alive
<1> HIDE DEF o
<1>7. \/ ~Alive(i) /\ Continue(i, w, n) = n
      \/ Alive(i) /\ w.op = "send" /\ Continue(i, w, n) = [n EXCEPT !.flush.pc = "send"]
      \/ Alive(i) /\ w.op = "settle" /\ Continue(i, w, n) = Flush([n EXCEPT !.flush = NotFlushing])
      \/ Continue(i, w, n) = n
      \/ Continue(i, w, n) = Flush(n)
  BY DEF Continue
<1>8. Shape(Continue(i, w, n), known)
  BY <1>1, <1>2, <1>4, <1>5, <1>6, <1>7
<1> QED
  BY <1>8 DEF n, w, o

(* A save that is rejected takes an entry back or ends flush().            *)
LEMMA RefusedShape ==
    ASSUME NEW known \in SUBSET Entry, NEW i \in Inst, Shape(ob[i], known), ob[i].writes # <<>>, SaveMayFail
    PROVE  Shape(Refuse(i, Head(ob[i].writes), Landed(ob[i])), known)
<1> DEFINE o == ob[i]
           w == Head(o.writes)
           n == Landed(o)
<1>1. /\ Shape(n, known) /\ n.phase = o.phase /\ n.mem = o.mem /\ n.flush = o.flush
      /\ o.phase = "up" =>
           /\ Ours(w) => \A k \in DOMAIN n.writes : ~Ours(n.writes[k])
  BY LandedShape
<1>2. n \in Object
  BY <1>1 DEF Shape
<1> HIDE DEF n, w
<1>3. ASSUME o.phase = "up" PROVE Shape([n EXCEPT !.mem = Drop(@, w.ids)], known)
  <2>1. QueueOK(Drop(n.mem, w.ids), Held, known) /\ DOMAIN Drop(n.mem, w.ids) = DOMAIN n.mem \ w.ids
        /\ \A e \in DOMAIN n.mem \ w.ids : Drop(n.mem, w.ids)[e] = n.mem[e]
    <3> DEFINE q == n.mem
               ids == w.ids
    <3>1. QueueOK(q, Held, known)
      BY <1>1 DEF Shape
    <3> HIDE DEF q, ids
    <3>2. QueueOK(Drop(q, ids), Held, known)
      BY <3>1, DropOK
    <3>3. DOMAIN Drop(q, ids) = DOMAIN q \ ids /\ \A e \in DOMAIN q \ ids : Drop(q, ids)[e] = q[e]
      BY DEF Drop
    <3> QED
      BY <3>2, <3>3 DEF q, ids
  <2> DEFINE m == [n EXCEPT !.mem = Drop(@, w.ids)]
  <2>2. m.phase = "up" /\ m.mem = Drop(n.mem, w.ids) /\ m.writes = n.writes /\ m.flush = n.flush
        /\ m.timer \in BOOLEAN /\ m.online \in BOOLEAN
        /\ m = [phase |-> m.phase, mem |-> m.mem, writes |-> m.writes, flush |-> m.flush,
                timer |-> m.timer, online |-> m.online]
    BY <1>1, <1>2, <1>3 DEF Object
  <2> HIDE DEF m
  <2>3. MarkOK(m.mem, m.flush)
    BY <1>1, <1>3, <2>1, <2>2, SMTT(20) DEF MarkOK, Shape
  <2>4. Shape(m, known)
    BY <1>1, <1>3, <2>1, <2>2, <2>3, MemShape
  <2> QED
    BY <2>4 DEF m
<1>4. ASSUME o.phase = "up", Ours(w) PROVE Shape([n EXCEPT !.flush = NotFlushing], known)
  <2> DEFINE m == [n EXCEPT !.flush = NotFlushing]
  <2>1. m.phase = "up" /\ m.mem = n.mem /\ m.writes = n.writes /\ m.flush = NotFlushing
        /\ m.timer \in BOOLEAN /\ m.online \in BOOLEAN
        /\ m = [phase |-> m.phase, mem |-> m.mem, writes |-> m.writes, flush |-> m.flush,
                timer |-> m.timer, online |-> m.online]
    BY <1>1, <1>2, <1>4 DEF Object
  <2>2. \A k \in DOMAIN n.writes : ~Ours(n.writes[k])
    BY <1>1, <1>4
  <2> HIDE DEF m
  <2>3. MarkOK(m.mem, m.flush)
    BY <2>1 DEF MarkOK, NotFlushing
  <2>4. Shape(m, known)
    BY <1>1, <1>4, <2>1, <2>2, <2>3, MemShape DEF Shape
  <2> QED
    BY <2>4 DEF m
<1>5. o.phase \in {"up", "disposed"}
  BY LandedShape
<1>6. Alive(i) <=> o.phase = "up"
  BY <1>5 DEF Alive
<1> HIDE DEF o
<1>7. \/ Refuse(i, w, n) = n
      \/ Alive(i) /\ Refuse(i, w, n) = [n EXCEPT !.mem = Drop(@, w.ids)]
      \/ Alive(i) /\ Ours(w) /\ Refuse(i, w, n) = [n EXCEPT !.flush = NotFlushing]
  BY DEF Refuse, Ours
<1>8. Shape(Refuse(i, w, n), known)
  BY <1>1, <1>3, <1>4, <1>6, <1>7
<1> QED
  BY <1>8 DEF n, w, o

(* Every answer changes at most the entry it is about, and forgets it only *)
(* when the server has it.                                                 *)
Answer(i, known, mem, timer) ==
    /\ ob[i].flush.pc = "send" /\ Answered(i, [ob[i] EXCEPT !.mem = mem, !.timer = timer])
    /\ timer \in BOOLEAN /\ QueueOK(mem, Held, known)
    /\ DOMAIN mem \subseteq DOMAIN ob[i].mem /\ DOMAIN ob[i].mem \ DOMAIN mem \subseteq Delivered
    /\ ~SaveMayFail => \A e \in DOMAIN mem : mem[e].status # "sending"

LEMMA AnswerChanges ==
    ASSUME NEW known \in SUBSET Entry, NEW i \in Inst, Shape(ob[i], known),
           Confirmed(i) \/ Unanswered(i) \/ Rejected(i)
    PROVE  \E mem, timer : Answer(i, known, mem, timer)
<1> DEFINE goal == \E mem, timer : Answer(i, known, mem, timer)
<1>0. ob[i] \in Object
  BY DEF Shape
<1>1. ASSUME ob[i].flush.pc = "send", NEW mem, QueueOK(mem, Held, known), NEW timer \in BOOLEAN,
             DOMAIN mem \subseteq DOMAIN ob[i].mem, DOMAIN ob[i].mem \ DOMAIN mem \subseteq Delivered,
             ~SaveMayFail => \A e \in DOMAIN mem : mem[e].status # "sending",
             Answered(i, [ob[i] EXCEPT !.mem = mem, !.timer = timer])
      PROVE  goal
  BY <1>1 DEF Answer
<1> HIDE DEF goal
<1>2. ASSUME ob[i].flush.pc = "send"
      PROVE  /\ QueueOK(ob[i].mem, Held, known) /\ ob[i].timer \in BOOLEAN
             /\ ~SaveMayFail => \A e \in DOMAIN ob[i].mem : ob[i].mem[e].status = "sending" => e = ob[i].flush.id
             /\ ob[i].flush.id \in DOMAIN ob[i].mem => ob[i].mem[ob[i].flush.id].status = "sending"
  BY <1>2 DEF Shape, MarkOK, Object, NotFlushing
<1> USE <1>0
<1>3. ASSUME Confirmed(i) PROVE goal
  <2> DEFINE e == ob[i].flush.id
             mem == Drop(ob[i].mem, {e})
  <2>1. ob[i].flush.pc = "send" /\ Answered(i, [ob[i] EXCEPT !.mem = mem])
    BY <1>3 DEF Confirmed, Answered
  <2>2. QueueOK(mem, Held, known) /\ DOMAIN mem = DOMAIN ob[i].mem \ {e} /\ e \in Delivered
    BY <1>2, <1>3, <2>1, DropOK DEF Confirmed, Drop
  <2>3. ~SaveMayFail => \A x \in DOMAIN mem : mem[x].status # "sending"
    BY <1>2, <2>1 DEF Drop
  <2> HIDE DEF mem
  <2>4. [ob[i] EXCEPT !.mem = mem] = [ob[i] EXCEPT !.mem = mem, !.timer = ob[i].timer]
    BY DEF Object
  <2>5. Answered(i, [ob[i] EXCEPT !.mem = mem, !.timer = ob[i].timer])
    BY <2>1, <2>4
  <2> QED
    BY <1>1, <1>2, <2>1, <2>2, <2>3, <2>5
<1>4. ASSUME NEW row \in Held, NEW timer \in BOOLEAN, ob[i].flush.id \in DOMAIN ob[i].mem,
              row.status # "failed" => row.attempts < MaxAttempts, row.status # "sending", ob[i].flush.pc = "send",
              Answered(i, [ob[i] EXCEPT !.mem[ob[i].flush.id] = row, !.timer = timer])
       PROVE  goal
  <2> DEFINE e == ob[i].flush.id
             mem == [ob[i].mem EXCEPT ![e] = row]
  <2>1. /\ QueueOK(mem, Held, known) /\ DOMAIN mem = DOMAIN ob[i].mem
        /\ mem[e] = row /\ \A x \in DOMAIN mem \ {e} : mem[x] = ob[i].mem[x]
    BY <1>2, <1>4, EntryOK
  <2>2. Answered(i, [ob[i] EXCEPT !.mem = mem, !.timer = timer])
    BY <1>4
  <2> HIDE DEF mem
  <2>3. ~SaveMayFail => \A x \in DOMAIN mem : mem[x].status # "sending"
    BY <1>2, <1>4, <2>1
  <2> QED
    BY <1>1, <1>4, <2>1, <2>2, <2>3
<1>5. ASSUME Unanswered(i) PROVE goal
  <2> DEFINE o == ob[i]
             e == o.flush.id
  <2>1. o.flush.pc = "send"
    BY <1>5 DEF Unanswered, Answered
  <2>2. CASE e \in DOMAIN o.mem /\ Answered(i, Failure(o, e))
    <3> DEFINE row == o.mem[e]
    <3>1. row \in Held /\ row.attempts < MaxAttempts
      BY <1>2, <2>1, <2>2 DEF QueueOK
    <3>2. CASE Failure(o, e) = [o EXCEPT !.mem[e] = Failed(row)]
      <4>1. Failure(o, e) = [o EXCEPT !.mem[e] = Failed(row), !.timer = o.timer]
        BY <3>2 DEF Object
      <4> HIDE DEF row
      <4>2. Failed(row) \in Held /\ Failed(row).status = "failed"
        BY <3>1, FailedEntry
      <4>3. Answered(i, [o EXCEPT !.mem[e] = Failed(row), !.timer = o.timer])
        BY <2>2, <4>1
      <4> QED
        BY <1>2, <1>4, <2>1, <2>2, <4>2, <4>3
    <3>3. CASE Failure(o, e) = [o EXCEPT !.mem[e] = HeldBack(row), !.timer = TRUE] /\ row.attempts + 1 < MaxAttempts
      <4> HIDE DEF row
      <4>2. HeldBack(row) \in Held /\ HeldBack(row).status = "pending" /\ HeldBack(row).attempts < MaxAttempts
        BY <3>1, <3>3, FailedEntry
      <4> QED
        BY <1>4, <2>1, <2>2, <3>3, <4>2
    <3>4. row.attempts \in Nat
      BY <3>1 DEF Held
    <3>5. \/ Failure(o, e) = [o EXCEPT !.mem[e] = Failed(row)]
          \/ Failure(o, e) = [o EXCEPT !.mem[e] = HeldBack(row), !.timer = TRUE] /\ ~(row.attempts + 1 >= MaxAttempts)
      BY DEF Failure
    <3>6. ~(row.attempts + 1 >= MaxAttempts) => row.attempts + 1 < MaxAttempts
      BY <3>4, OutboxAssumption
    <3> QED
      BY <3>2, <3>3, <3>5, <3>6
  <2>3. CASE e \notin DOMAIN o.mem /\ \E timer \in {o.timer, TRUE} : Answered(i, [o EXCEPT !.timer = timer])
    <3>1. PICK timer \in {o.timer, TRUE} : Answered(i, [o EXCEPT !.timer = timer])
      BY <2>3
    <3>2. [o EXCEPT !.timer = timer] = [o EXCEPT !.mem = o.mem, !.timer = timer]
      BY DEF Object
    <3>3. timer \in BOOLEAN
      BY <1>2, <2>1
    <3> QED
      BY <1>1, <1>2, <2>1, <2>3, <3>1, <3>2, <3>3
  <2> QED
    BY <1>5, <2>2, <2>3 DEF Unanswered
<1>6. ASSUME Rejected(i) PROVE goal
  <2> DEFINE o == ob[i]
             e == o.flush.id
  <2>1. o.flush.pc = "send"
    BY <1>6 DEF Rejected, Answered
  <2>2. CASE e \in DOMAIN o.mem
    <3> DEFINE row == o.mem[e]
               failed == [row EXCEPT !.status = "failed"]
    <3>1. row \in Held /\ row.attempts < MaxAttempts
      BY <1>2, <2>1, <2>2 DEF QueueOK
    <3>2. failed \in Held /\ failed.status = "failed"
      <4> HIDE DEF row
      <4> QED
        BY <3>1, FailedEntry
    <3>3. Answered(i, [o EXCEPT !.mem[e].status = "failed"])
      BY <1>6, <2>2 DEF Rejected
    <3>4. [o EXCEPT !.mem[e].status = "failed"] = [o EXCEPT !.mem[e] = failed, !.timer = o.timer]
      BY DEF Object
    <3> HIDE DEF failed
    <3> QED
      BY <1>2, <1>4, <2>1, <2>2, <3>2, <3>3, <3>4
  <2>3. CASE e \notin DOMAIN o.mem
    <3>1. Answered(i, o)
      BY <1>6, <2>3 DEF Rejected
    <3>2. o = [o EXCEPT !.mem = o.mem, !.timer = o.timer]
      BY DEF Object
    <3>3. Answered(i, [o EXCEPT !.mem = o.mem, !.timer = o.timer])
      BY <3>1, <3>2
    <3> QED
      BY <1>1, <1>2, <2>1, <2>3, <3>3
  <2> QED
    BY <2>2, <2>3
<1> QED
  BY <1>3, <1>5, <1>6 DEF goal

(* restore() takes over what is saved.                                     *)
Merged(mem) ==
    LET loaded == Restored(Drop(disk, DOMAIN mem))
    IN [e \in DOMAIN mem \cup DOMAIN loaded |-> IF e \in DOMAIN mem THEN mem[e] ELSE loaded[e]]

LEMMA RestoreShape ==
    ASSUME NEW known \in SUBSET Entry, NEW o, Shape(o, known), o.phase = "restoring", QueueOK(disk, Saved, known)
    PROVE  LET n == [o EXCEPT !.phase = "up", !.mem = Merged(o.mem)] IN
           /\ Shape(n, known) /\ DOMAIN n.mem = DOMAIN disk /\ n.writes = <<>> /\ n.phase = "up"
           /\ Shape(Flush(n), known)
<1> DEFINE n == [o EXCEPT !.phase = "up", !.mem = Merged(o.mem)]
<1>1. o.mem = NoQueue /\ o.flush = NotFlushing /\ o.writes = <<>> /\ DOMAIN NoQueue = {}
  BY DEF Shape, NoQueue
<1>2. DOMAIN Merged(o.mem) = DOMAIN disk
      /\ \A e \in DOMAIN disk : Merged(o.mem)[e] =
            [status |-> IF disk[e].status = "sending" THEN "pending" ELSE disk[e].status,
             attempts |-> disk[e].attempts, hold |-> FALSE]
  BY <1>1 DEF Merged, Restored, Drop
<1>3. Merged(o.mem) = [e \in DOMAIN disk |-> Merged(o.mem)[e]]
  BY <1>2 DEF Merged
<1>4. \A e \in DOMAIN disk : disk[e] \in Saved /\ (disk[e].status # "failed" => disk[e].attempts < MaxAttempts)
  BY DEF QueueOK
<1>5. ASSUME NEW e \in DOMAIN disk
      PROVE  /\ Merged(o.mem)[e] \in Held /\ Merged(o.mem)[e].status # "sending"
             /\ Merged(o.mem)[e].status # "failed" => Merged(o.mem)[e].attempts < MaxAttempts
  <2> DEFINE m == Merged(o.mem)[e]
  <2>1. m = [status |-> IF disk[e].status = "sending" THEN "pending" ELSE disk[e].status,
             attempts |-> disk[e].attempts, hold |-> FALSE]
    BY <1>2
  <2>2. /\ disk[e].status \in Status /\ disk[e].attempts \in 0..MaxAttempts
        /\ disk[e].status # "failed" => disk[e].attempts < MaxAttempts
    BY <1>4 DEF Saved
  <2> HIDE DEF m
  <2>3. m.status = IF disk[e].status = "sending" THEN "pending" ELSE disk[e].status
    BY <2>1
  <2>4. m.attempts = disk[e].attempts
    BY <2>1
  <2>5. m \in Held
    BY <2>1, <2>2 DEF Held, Status
  <2>6. m.status # "sending" /\ (m.status # "failed" => m.attempts < MaxAttempts)
    BY <2>2, <2>3, <2>4
  <2> QED
    BY <2>5, <2>6 DEF m
<1>6. QueueOK(Merged(o.mem), Held, known)
  BY <1>2, <1>3, <1>5 DEF QueueOK
<1>7. Merged(o.mem) \in Queue(Held)
  BY <1>6, QueueTypes
<1>8. n \in Object /\ n.phase = "up" /\ n.mem = Merged(o.mem) /\ n.writes = <<>> /\ n.flush = NotFlushing
  BY <1>1, <1>7 DEF Object, Shape
<1> HIDE DEF n
<1>9. ChainOK(n.writes, n.flush) /\ MarkOK(n.mem, n.flush)
  BY <1>2, <1>5, <1>8 DEF ChainOK, MarkOK, NotFlushing
<1>10. WritesOK(n.writes, known)
  BY <1>8 DEF WritesOK
<1>11. Shape(n, known)
  BY <1>6, <1>8, <1>9, <1>10 DEF Shape
<1>12. Shape(Flush(n), known)
  BY <1>11, FlushShape
<1> QED
  BY <1>2, <1>8, <1>11, <1>12 DEF n

(* An instance that is up with another queue in memory saves it.           *)
LEMMA ChangedShape ==
    ASSUME NEW known \in SUBSET Entry, NEW o, Shape(o, known), o.phase = "up",
           NEW mem, QueueOK(mem, Held, known), MarkOK(mem, o.flush),
           NEW op \in {"enqueue", "retry", "remove", "removeRoom"}, NEW ids \in SUBSET known
    PROVE  /\ Shape([o EXCEPT !.mem = mem], known)
           /\ Shape(Persist([o EXCEPT !.mem = mem], op, ids), known)
<1> DEFINE n == [o EXCEPT !.mem = mem]
<1>1. /\ n.phase = "up" /\ n.mem = mem /\ n.writes = o.writes /\ n.flush = o.flush
      /\ n.timer \in BOOLEAN /\ n.online \in BOOLEAN
      /\ n = [phase |-> n.phase, mem |-> n.mem, writes |-> n.writes, flush |-> n.flush,
              timer |-> n.timer, online |-> n.online]
  BY DEF Shape, Object
<1> HIDE DEF n
<1>2. Shape(n, known)
  BY <1>1, MemShape
<1>3. Shape(Persist(n, op, ids), known)
  BY <1>1, <1>2, PersistShape
<1> QED
  BY <1>2, <1>3 DEF n

LEMMA DropMark ==
    ASSUME NEW mem, NEW flush, MarkOK(mem, flush), NEW ids
    PROVE  MarkOK(Drop(mem, ids), flush)
  BY DEF MarkOK, Drop

-------------------------------------------------------------------------------
(* Types are kept *)

LEMMA OneMoves ==
    ASSUME Types, NEW i \in Inst, NEW o, Become(i, o), DOMAIN roomOf \subseteq DOMAIN roomOf',
           Shape(o, DOMAIN roomOf')
    PROVE  Shapes'
<1>1. o \in Object /\ ob \in [Inst -> Object]
  BY DEF Shape, Types, Shapes
<1>2. ob' \in [Inst -> Object] /\ ob'[i] = o /\ \A j \in Inst \ {i} : ob'[j] = ob[j]
  BY <1>1 DEF Become
<1>3. \A j \in Inst : Shape(ob'[j], DOMAIN roomOf')
  BY <1>2, KnownGrows DEF Types, Shapes
<1> QED
  BY <1>2, <1>3 DEF Shapes

LEMMA InitTypes == Init => Types
<1> SUFFICES ASSUME Init PROVE Types
  OBVIOUS
<1>1. roomOf \in Seq(Room) /\ log \in Seq(Entry) /\ Len(roomOf) = 0 /\ DOMAIN roomOf = {} /\ DOMAIN log = {}
  BY DEF Init
<1>2. QueueOK(NoQueue, Held, {}) /\ QueueOK(NoQueue, Saved, {}) /\ NoQueue \in Queue(Held)
  BY EmptyQueue, QueueTypes
<1>3. <<>> \in Seq(Write) /\ DOMAIN <<>> = {}
  OBVIOUS
<1>4. Shape(None, {})
  BY <1>2, <1>3 DEF Shape, WritesOK, None, Object, Flushing, NotFlushing
<1>5. Shapes
  BY <1>1, <1>4 DEF Shapes, Init, Shape
<1> QED
  BY <1>1, <1>2, <1>5, OutboxAssumption DEF Types, Init, Delivered

LEMMA TypeStep == ASSUME AwaitRestore, Types, [Next]_vars PROVE Types'
<1> DEFINE known == DOMAIN roomOf
<1>1. /\ known \in SUBSET Entry /\ known = 1..Len(roomOf) /\ Len(roomOf) \in Nat
      /\ \A i \in Inst : Shape(ob[i], known) /\ ob[i] \in Object
  BY KnownEntries DEF Types, Shapes
<1>2. ASSUME NEW i \in Inst, NEW o, Become(i, o), Shape(o, known),
             UNCHANGED <<disk, roomOf, log>>,
             inflight' \subseteq known, accepted' \subseteq known, removed' \subseteq known, gone' \subseteq known
      PROVE  Types'
  BY <1>2, OneMoves DEF Types, Delivered
<1> USE <1>1
<1> HIDE DEF known
<1>3. ASSUME NEW i \in Inst, Start(i) PROVE Types'
  <2>1. Shape([None EXCEPT !.phase = "restoring"], known)
    BY EmptyShape
  <2> QED
    BY <1>2, <1>3, <2>1 DEF Start, users, network, Types, known
<1>4. ASSUME NEW i \in Inst, Restore(i) PROVE Types'
  <2>1. QueueOK(disk, Saved, known)
    BY DEF Types, known
  <2>2. Shape(Flush([ob[i] EXCEPT !.phase = "up", !.mem = Merged(ob[i].mem)]), known)
    BY <1>4, <2>1, RestoreShape DEF Restore
  <2> QED
    BY <1>2, <1>4, <2>2 DEF Restore, Merged, users, network, Types, known
<1>5. ASSUME NEW i \in Inst, NEW online \in BOOLEAN, setOnline(i, online) PROVE Types'
  <2>1. Shape([ob[i] EXCEPT !.online = online], known)
    BY DEF Shape, Object
  <2>2. Shape(Flush([ob[i] EXCEPT !.online = online]), known)
    BY <2>1, FlushShape
  <2> QED
    BY <1>2, <1>5, <2>2 DEF setOnline, users, network, Types, known
<1>6. ASSUME NEW i \in Inst, dispose(i) PROVE Types'
  <2>1. Shape([None EXCEPT !.phase = "disposed", !.writes = ob[i].writes], known)
    BY EmptyShape
  <2> QED
    BY <1>2, <1>6, <2>1 DEF dispose, users, network, Types, known
<1>7. ASSUME NEW i \in Inst, Crash(i) PROVE Types'
  <2>1. Shape(None, known)
    BY EmptyShape
  <2> QED
    BY <1>2, <1>7, <2>1 DEF Crash, users, network, Types, known
<1>8. ASSUME NEW i \in Inst, NEW r \in Room, enqueue(i, r) PROVE Types'
  <2> DEFINE e == Len(roomOf) + 1
             o == ob[i]
             more == known \cup {e}
             mem == [x \in DOMAIN o.mem \cup {e} |-> IF x = e THEN [status |-> "pending", attempts |-> 0, hold |-> FALSE]
                                                       ELSE o.mem[x]]
             n == [o EXCEPT !.mem = mem]
  <2>1. o.phase = "up" /\ e <= MaxEntries /\ roomOf' = Append(roomOf, r)
    BY <1>8 DEF enqueue
  <2>2. /\ roomOf' \in Seq(Room) /\ Len(roomOf') = e /\ DOMAIN roomOf' = more
    BY <2>1, Appended, AppendProperties DEF Types, known
  <2>3. more \in SUBSET Entry /\ known \subseteq more
    BY <2>1 DEF Entry
  <2>4. Shape(o, more)
    BY <2>3, KnownGrows
  <2>5. QueueOK(mem, Held, more)
    BY <2>4, OutboxAssumption DEF Shape, QueueOK, Held, Status
  <2>7. e \notin known /\ DOMAIN o.mem \subseteq known
    BY DEF Shape, QueueOK
  <2>6. DOMAIN mem = DOMAIN o.mem \cup {e}
        /\ \A x \in DOMAIN mem : mem[x].status = IF x = e THEN "pending" ELSE o.mem[x].status
    OBVIOUS
  <2> HIDE DEF mem
  <2>8. MarkOK(mem, o.flush)
    <3>1. o.flush.id # e
      BY <2>7 DEF Shape
    <3>2. MarkOK(o.mem, o.flush)
      BY <2>1 DEF Shape
    <3> QED
      BY <2>6, <3>1, <3>2 DEF MarkOK
  <2> HIDE DEF mem, more
  <2>9. {e} \in SUBSET more
    BY DEF more
  <2>10. Shape(Persist(n, "enqueue", {e}), more)
    BY <2>1, <2>3, <2>4, <2>5, <2>8, <2>9, ChangedShape
  <2>11. Become(i, Persist(n, "enqueue", {e}))
    BY <1>8 DEF enqueue, mem
  <2>12. Shapes'
    BY <2>2, <2>3, <2>10, <2>11, OneMoves DEF known
  <2>13. UNCHANGED <<disk, inflight, log, accepted, removed, gone>>
    BY <1>8 DEF enqueue, network
  <2>14. QueueOK(disk', Saved, more)
    BY <2>3, <2>13, KnownGrows DEF Types, known
  <2> QED
    BY <2>1, <2>2, <2>3, <2>12, <2>13, <2>14 DEF Types, Delivered, known
<1>9. ASSUME NEW i \in Inst, NEW e \in Entry, retry(i, e) PROVE Types'
  <2> DEFINE o == ob[i]
             mem == [o.mem EXCEPT ![e] = [@ EXCEPT !.status = "pending", !.attempts = 0]]
  <2>1. e \in DOMAIN o.mem /\ o.mem[e].status = "failed" /\ o.mem[e] \in Held
    BY <1>9 DEF retry, Shape, QueueOK
  <2>2. o.phase = "up" /\ e \in known
    BY <2>1 DEF Shape, NoQueue, QueueOK
  <2>3. QueueOK(mem, Held, known) /\ DOMAIN mem = DOMAIN o.mem
        /\ \A x \in DOMAIN mem : mem[x].status = IF x = e THEN "pending" ELSE o.mem[x].status
    BY <2>1, RetriedOK DEF Shape
  <2>5. MarkOK(mem, o.flush)
    <3> HIDE DEF mem
    <3> QED
      BY <2>1, <2>2, <2>3 DEF Shape, MarkOK
  <2>8. Become(i, Persist([o EXCEPT !.mem = mem], "retry", {e}))
    BY <1>9, Zenon DEF retry
  <2>6. Shape(o, known) /\ {e} \in SUBSET known /\ known \in SUBSET Entry
    BY <2>2
  <2> HIDE DEF mem
  <2>7. Shape(Persist([o EXCEPT !.mem = mem], "retry", {e}), known)
    <3> HIDE DEF o, known
    <3> QED
      BY <2>2, <2>3, <2>5, <2>6, ChangedShape
  <2> QED
    BY <1>2, <1>9, <2>7, <2>8 DEF retry, users, network, Types, known
<1>10. ASSUME NEW i \in Inst, NEW ids \in SUBSET DOMAIN ob[i].mem, ids # {}, NEW op \in {"remove", "removeRoom"},
              Become(i, Persist([ob[i] EXCEPT !.mem = Drop(@, ids)], op, ids)), removed' = removed \cup ids,
              UNCHANGED <<disk, network, roomOf, accepted, gone>>
       PROVE  Types'
  <2> DEFINE o == ob[i]
  <2>1. o.phase = "up" /\ ids \subseteq known
    BY <1>10 DEF Shape, NoQueue, QueueOK
  <2>2. QueueOK(Drop(o.mem, ids), Held, known) /\ MarkOK(Drop(o.mem, ids), o.flush)
    BY <2>1, DropOK, DropMark DEF Shape
  <2>3. Shape(Persist([o EXCEPT !.mem = Drop(o.mem, ids)], op, ids), known)
    BY <2>1, <2>2, ChangedShape
  <2> QED
    BY <1>2, <1>10, <2>1, <2>3 DEF network, Types, known
<1>11. ASSUME NEW i \in Inst, NEW e \in Entry, remove(i, e) PROVE Types'
  BY <1>10, <1>11 DEF remove
<1>12. ASSUME NEW i \in Inst, NEW r \in Room, removeRoom(i, r) PROVE Types'
  <2> DEFINE ids == {e \in DOMAIN ob[i].mem : roomOf[e] = r}
  <2>1. ids \in SUBSET DOMAIN ob[i].mem
    OBVIOUS
  <2> QED
    BY <1>10, <1>12, <2>1 DEF removeRoom
<1>13. ASSUME NEW i \in Inst, SaveLands(i) PROVE Types'
  <2> DEFINE w == Head(ob[i].writes)
             o == Continue(i, w, Landed(ob[i]))
  <2>1. ob[i].writes # <<>> /\ Become(i, o)
    BY <1>13 DEF SaveLands, Landing, Landed
  <2>2. Shape(o, known)
    BY <2>1, ContinueShape
  <2>3. QueueOK(w.snap, Saved, known) /\ w.ids \subseteq known
    BY <2>1, LandedShape
  <2> HIDE DEF o
  <2>4. UNCHANGED <<roomOf, removed, log>> /\ disk' = w.snap
        /\ inflight' \subseteq inflight \cup w.ids /\ accepted' \subseteq accepted \cup w.ids
        /\ gone' \subseteq gone \cup w.ids
    BY <1>13 DEF SaveLands, Landing
  <2>5. Shapes'
    BY <2>1, <2>2, <2>4, OneMoves DEF known
  <2> QED
    BY <1>13, <2>3, <2>4, <2>5 DEF Types, known, Delivered
<1>14. ASSUME NEW i \in Inst, SaveFails(i) PROVE Types'
  <2> DEFINE o == Refuse(i, Head(ob[i].writes), Landed(ob[i]))
  <2>1. ob[i].writes # <<>> /\ Become(i, o) /\ SaveMayFail
    BY <1>14 DEF SaveFails, Landing, Landed
  <2>2. Shape(o, known)
    BY <2>1, RefusedShape
  <2> HIDE DEF o
  <2>3. UNCHANGED <<disk, roomOf, log, inflight, accepted, removed, gone>>
    BY <1>14 DEF SaveFails, Landing
  <2>4. inflight \subseteq known /\ accepted \subseteq known /\ removed \subseteq known /\ gone \subseteq known
    BY DEF Types, known
  <2> QED
    BY <1>2, <2>1, <2>2, <2>3, <2>4
<1>15. ASSUME NEW e \in Entry, Reach(e) PROVE Types'
  <2>1. log \in Seq(Entry) /\ Delivered \subseteq known /\ e \in known
    BY <1>15 DEF Reach, Types, known
  <2>2. log' \in Seq(Entry) /\ Delivered' \subseteq known
    <3>1. CASE log' = log
      BY <2>1, <3>1 DEF Delivered
    <3>2. CASE log' = Append(log, e)
      BY <2>1, <3>2, Appended DEF Delivered
    <3> QED
      BY <1>15, <3>1, <3>2 DEF Reach
  <2>3. UNCHANGED <<ob, disk, roomOf, accepted, removed, gone>> /\ inflight' \subseteq inflight
    BY <1>15 DEF Reach, users
  <2>4. Shapes'
    BY <2>3 DEF Shapes, Types
  <2> QED
    BY <2>2, <2>3, <2>4 DEF Types, known
<1>16. ASSUME NEW i \in Inst, NEW n \in Object, Answered(i, n),
              n.phase = ob[i].phase, n.writes = ob[i].writes, n.flush = ob[i].flush,
              QueueOK(n.mem, Held, known), ~SaveMayFail => \A e \in DOMAIN n.mem : n.mem[e].status # "sending"
       PROVE  Types'
  <2>1. Shape(Persist([n EXCEPT !.flush.pc = "settle"], "settle", {}), known)
    BY <1>16, AnsweredShape DEF Answered
  <2> QED
    BY <1>2, <1>16, <2>1 DEF Answered, users, network, Types, known
<1>17. ASSUME NEW i \in Inst, ob[i].flush.pc = "send", NEW mem, QueueOK(mem, Held, known), NEW timer \in BOOLEAN,
              ~SaveMayFail => \A e \in DOMAIN mem : mem[e].status # "sending",
              Answered(i, [ob[i] EXCEPT !.mem = mem, !.timer = timer])
       PROVE  Types'
  <2> DEFINE n == [ob[i] EXCEPT !.mem = mem, !.timer = timer]
  <2>1. mem \in Queue(Held)
    BY <1>17, QueueTypes
  <2>2. n \in Object /\ n.phase = ob[i].phase /\ n.writes = ob[i].writes /\ n.flush = ob[i].flush /\ n.mem = mem
    BY <1>17, <2>1 DEF Object
  <2>3. Answered(i, n)
    BY ONLY <1>17, Zenon
  <2> HIDE DEF n
  <2> QED
    BY <1>16, <1>17, <2>2, <2>3
<1>18. ASSUME NEW i \in Inst, Confirmed(i) \/ Unanswered(i) \/ Rejected(i) PROVE Types'
  <2>1. Shape(ob[i], known) /\ known \in SUBSET Entry
    BY <1>1
  <2>2. PICK mem, timer : Answer(i, known, mem, timer)
    <3> HIDE DEF known
    <3> QED
      BY <1>18, <2>1, AnswerChanges
  <2>3. /\ ob[i].flush.pc = "send" /\ QueueOK(mem, Held, known) /\ timer \in BOOLEAN
        /\ ~SaveMayFail => \A e \in DOMAIN mem : mem[e].status # "sending"
    BY ONLY <2>2 DEF Answer
  <2>4. Answered(i, [ob[i] EXCEPT !.mem = mem, !.timer = timer])
    BY ONLY <2>2, Zenon DEF Answer
  <2> QED
    BY ONLY <1>17, <1>18, <2>3, <2>4, Zenon
<1>23. ASSUME NEW i \in Inst, RetryTimer(i) PROVE Types'
  <2> DEFINE o == ob[i]
             mem == Released(o.mem)
             n == [o EXCEPT !.timer = FALSE, !.mem = mem]
  <2>1. Shape(n, known)
    BY TimerShape
  <2>2. Shape(Flush(n), known)
    BY <2>1, FlushShape
  <2>3. Become(i, Flush(n)) /\ UNCHANGED <<disk, users, network, bounds>>
    BY <1>23 DEF RetryTimer
  <2> HIDE DEF n
  <2> QED
    BY <1>2, <2>2, <2>3 DEF users, network, Types, known
<1>24. ASSUME UNCHANGED vars PROVE Types'
  BY <1>24 DEF vars, users, network, Types, Shapes, Delivered
<1>25. ASSUME NEW i \in Inst, Run(i) PROVE Types'
  BY <1>3, <1>4, <1>5, <1>13, <1>18, <1>23, <1>25 DEF Run
<1>26. ASSUME NEW i \in Inst, Environment(i) PROVE Types'
  BY <1>5, <1>6, <1>7, <1>8, <1>9, <1>11, <1>12, <1>14, <1>26 DEF Environment
<1> QED
  BY <1>15, <1>24, <1>25, <1>26 DEF Next

(* Every step keeps the types, if the composer waits for restore().        *)
THEOREM TypesCorrect == ASSUME AwaitRestore PROVE Spec => []Types
<1>1. Types /\ [Next]_vars => Types'
  BY TypeStep
<1> QED
  BY <1>1, InitTypes, PTL DEF Spec

(* An entry marked "sending" is the one flush() is about, unless a save was *)
(* rejected under it.                                                      *)
THEOREM SendingMarked == ASSUME AwaitRestore, ~SaveMayFail PROVE Spec => []SendingIsInFlight
<1>1. Types => SendingIsInFlight
  <2> SUFFICES ASSUME Types, NEW i \in Inst, NEW e \in DOMAIN ob[i].mem, ob[i].mem[e].status = "sending"
               PROVE  ob[i].flush.pc \in {"save", "send"} /\ ob[i].flush.id = e
    BY DEF SendingIsInFlight
  <2>1. Shape(ob[i], DOMAIN roomOf) /\ DOMAIN NoQueue = {}
    BY DEF Types, Shapes, NoQueue
  <2>2. ob[i].phase = "up"
    BY <2>1 DEF Shape
  <2> QED
    BY <2>1, <2>2 DEF Shape, MarkOK
<1> QED
  BY <1>1, TypesCorrect, PTL

-------------------------------------------------------------------------------
(* What a step does to the messages *)

(* Domains and saves of an instance after flush(): perhaps one more save,  *)
(* before sending the oldest message of its room.                          *)
Flushes(up, dom, ws, n) ==
    /\ n.phase = "up" <=> up
    /\ DOMAIN n.mem = dom
    /\ \/ n.writes = ws
       \/ /\ up
          /\ \E e \in dom, w \in Write :
                /\ n.writes = Append(ws, w) /\ w.op = "send" /\ w.ids = {e} /\ DOMAIN w.snap = dom
                /\ \A h \in dom : roomOf[h] = roomOf[e] => e <= h

LEMMA FlushEffect ==
    ASSUME NEW known \in SUBSET Entry, NEW o, Shape(o, known)
    PROVE  /\ Flushes(o.phase = "up", DOMAIN o.mem, o.writes, Flush(o))
           /\ Flush(o).flush = o.flush \/ Flush(o).flush.pc = "save"
<1>1. CASE Flush(o) = o
  BY <1>1 DEF Flushes
<1>2. CASE \E e \in known : Sendable(o, e) /\ Flush(o) = Persist(Marked(o, e), "send", {e})
  <2>1. PICK e \in known : Sendable(o, e) /\ Flush(o) = Persist(Marked(o, e), "send", {e})
    BY <1>2
  <2> DEFINE m == Marked(o, e)
             w == [snap |-> Snapshot(m.mem), op |-> "send", ids |-> {e}]
             n == Persist(m, "send", {e})
  <2>2. /\ Shape(m, known) /\ m.phase = "up" /\ m.writes = o.writes
        /\ DOMAIN m.mem = DOMAIN o.mem /\ m.flush = [pc |-> "save", id |-> e]
    BY <2>1, MarkedShape
  <2> HIDE DEF m
  <2>3. QueueOK(w.snap, Saved, known) /\ DOMAIN w.snap = DOMAIN o.mem
    BY <2>2, SnapshotOK DEF Shape
  <2>4. w \in Write /\ w.op = "send" /\ w.ids = {e}
    BY <2>3, QueueTypes DEF Write
  <2>5. n.phase = "up" /\ n.mem = m.mem /\ n.writes = Append(o.writes, w) /\ n.flush = m.flush
    BY <2>2 DEF Persist, Shape, Object
  <2>6. e \in DOMAIN o.mem /\ o.phase = "up" /\ \A h \in DOMAIN o.mem : roomOf[h] = roomOf[e] => e <= h
    BY <2>1 DEF Sendable
  <2> HIDE DEF w, n
  <2>7. Flushes(o.phase = "up", DOMAIN o.mem, o.writes, n)
    BY <2>2, <2>3, <2>4, <2>5, <2>6 DEF Flushes
  <2>8. n.flush.pc = "save"
    BY <2>2, <2>5
  <2> QED
    BY <2>1, <2>7, <2>8 DEF n, m
<1> QED
  BY <1>1, <1>2, FlushCases

LEMMA ContinueEffect ==
    ASSUME NEW known \in SUBSET Entry, NEW i \in Inst, Shape(ob[i], known), ob[i].writes # <<>>
    PROVE  LET w == Head(ob[i].writes)
               n == Continue(i, w, Landed(ob[i])) IN
           /\ Flushes(ob[i].phase = "up", DOMAIN ob[i].mem, Tail(ob[i].writes), n)
           /\ \/ n.flush = ob[i].flush
              \/ n.flush.pc # "send"
              \/ Alive(i) /\ w.op = "send" /\ n.flush.id \in w.ids
<1> DEFINE o == ob[i]
           w == Head(o.writes)
           l == Landed(o)
           n == Continue(i, w, l)
<1>1. /\ Shape(l, known) /\ l.phase = o.phase /\ l.mem = o.mem /\ l.flush = o.flush
      /\ l.writes = Tail(o.writes)
      /\ o.phase \in {"up", "disposed"}
      /\ o.phase = "up" => (w.op = "send" => w.ids = {o.flush.id})
      /\ o.phase = "up" => (Ours(w) => \A k \in DOMAIN l.writes : ~Ours(l.writes[k]))
      /\ o.phase = "up" => (w.op = "settle" => o.flush.pc = "settle")
  BY LandedShape
<1>2. /\ Flushes(o.phase = "up", DOMAIN o.mem, Tail(o.writes), Flush(l))
      /\ Flush(l).flush = o.flush \/ Flush(l).flush.pc = "save"
  BY <1>1, FlushEffect
<1>3. l \in Object /\ l.flush \in Flushing
  BY <1>1 DEF Shape, Object
<1>4. Alive(i) <=> o.phase = "up"
  BY <1>1 DEF Alive
<1> HIDE DEF l, w, o
<1>5. ASSUME n = l PROVE Flushes(o.phase = "up", DOMAIN o.mem, Tail(o.writes), n) /\ n.flush = o.flush
  BY <1>1, <1>5 DEF Flushes
<1>6. ASSUME Alive(i), w.op = "send", n = [l EXCEPT !.flush.pc = "send"]
      PROVE  Flushes(o.phase = "up", DOMAIN o.mem, Tail(o.writes), n) /\ n.flush.id \in w.ids
  <2> DEFINE m == [l EXCEPT !.flush.pc = "send"]
  <2>1. m.flush.id = l.flush.id /\ m.mem = l.mem /\ m.phase = l.phase /\ m.writes = l.writes
    BY <1>3 DEF Object, Flushing
  <2> HIDE DEF m
  <2>2. n = m
    BY <1>6 DEF m
  <2> HIDE DEF n
  <2> QED
    BY <1>1, <1>4, <1>6, <2>1, <2>2 DEF Flushes
<1>7. ASSUME Alive(i), w.op = "settle", n = Flush([l EXCEPT !.flush = NotFlushing])
      PROVE  Flushes(o.phase = "up", DOMAIN o.mem, Tail(o.writes), n) /\ n.flush.pc # "send"
  <2> DEFINE m == [l EXCEPT !.flush = NotFlushing]
  <2>1. m.flush = NotFlushing /\ m.phase = "up" /\ m.mem = l.mem /\ m.writes = l.writes /\ m \in Object
    BY <1>1, <1>3, <1>4, <1>7 DEF Object, NotFlushing, Flushing
  <2>2. \A k \in DOMAIN l.writes : ~Ours(l.writes[k])
    BY <1>1, <1>4, <1>7 DEF Ours
  <2> HIDE DEF m
  <2>3. ChainOK(m.writes, m.flush)
    BY <2>1, <2>2 DEF ChainOK, Ours
  <2>4. MarkOK(m.mem, m.flush)
    <3>1. l.flush.pc = "settle" /\ MarkOK(l.mem, l.flush)
      BY <1>1, <1>4, <1>7 DEF Shape
    <3> QED
      BY <2>1, <3>1 DEF MarkOK, NotFlushing
  <2>5. Shape(m, known)
    BY <1>1, <2>1, <2>3, <2>4 DEF Shape, NotFlushing
  <2>6. /\ Flushes(m.phase = "up", DOMAIN m.mem, m.writes, Flush(m))
        /\ Flush(m).flush = m.flush \/ Flush(m).flush.pc = "save"
    BY <2>5, FlushEffect
  <2>7. n = Flush(m)
    BY <1>7 DEF m
  <2> HIDE DEF n
  <2>8. m.phase = "up" <=> o.phase = "up"
    BY <1>1, <2>1, <1>4, <1>7
  <2> QED
    BY <1>1, <2>1, <2>6, <2>7, <2>8 DEF NotFlushing, Flushes
<1>8. \/ n = l
      \/ Alive(i) /\ w.op = "send" /\ n = [l EXCEPT !.flush.pc = "send"]
      \/ Alive(i) /\ w.op = "settle" /\ n = Flush([l EXCEPT !.flush = NotFlushing])
      \/ n = Flush(l)
  BY DEF Continue
<1> HIDE DEF n
<1>9. /\ Flushes(o.phase = "up", DOMAIN o.mem, Tail(o.writes), n)
      /\ n.flush = o.flush \/ n.flush.pc # "send" \/ (Alive(i) /\ w.op = "send" /\ n.flush.id \in w.ids)
  BY <1>2, <1>5, <1>6, <1>7, <1>8
<1> QED
  BY <1>9 DEF n, l, w, o

(* What a step of instance i does, seen from the messages it holds.        *)
Saves(i, dom, op, ids) ==
    /\ ob[i].phase = "up" /\ ob'[i].phase = "up" /\ DOMAIN ob'[i].mem = dom
    /\ \E w \in Write : /\ ob'[i].writes = Append(ob[i].writes, w)
                        /\ w.op = op /\ w.ids = ids /\ DOMAIN w.snap = dom

Idles(i) ==
    /\ Flushes(ob[i].phase = "up", DOMAIN ob[i].mem, ob[i].writes, ob'[i])
    /\ UNCHANGED <<disk, users, network>>
Empties(i) ==
    /\ ob'[i].phase # "up" /\ DOMAIN ob'[i].mem = {} /\ ob'[i].writes \in {<<>>, ob[i].writes}
    /\ UNCHANGED <<disk, users, network>>
Reloads(i) ==
    /\ ob[i].writes = <<>> /\ Flushes(TRUE, DOMAIN disk, <<>>, ob'[i])
    /\ UNCHANGED <<disk, users, network>>
Queues(i) ==
    LET e == Len(roomOf) + 1 IN
    /\ Saves(i, DOMAIN ob[i].mem \cup {e}, "enqueue", {e})
    /\ \E r \in Room : roomOf' = Append(roomOf, r)
    /\ UNCHANGED <<disk, network, accepted, removed, gone>>
Alters(i) ==
    /\ \E dom \in SUBSET DOMAIN ob[i].mem, op \in {"retry", "settle"}, ids \in SUBSET Entry :
          DOMAIN ob[i].mem \ dom \subseteq Delivered /\ Saves(i, dom, op, ids)
    /\ UNCHANGED <<disk, users, network>>
TakesOut(i) ==
    /\ \E ids \in SUBSET DOMAIN ob[i].mem, op \in {"remove", "removeRoom"} :
          Saves(i, DOMAIN ob[i].mem \ ids, op, ids) /\ removed' = removed \cup ids
    /\ UNCHANGED <<disk, network, roomOf, accepted, gone>>
Lands(i) ==
    LET w == Head(ob[i].writes) IN
    /\ ob[i].writes # <<>>
    /\ Flushes(ob[i].phase = "up", DOMAIN ob[i].mem, Tail(ob[i].writes), ob'[i])
    /\ disk' = w.snap
    /\ inflight' = inflight \/ (w.op = "send" /\ inflight' = inflight \cup w.ids)
    /\ accepted' = IF w.op = "enqueue" THEN accepted \cup w.ids ELSE accepted
    /\ gone' = IF w.op \in {"remove", "removeRoom"} THEN gone \cup w.ids ELSE gone
    /\ UNCHANGED <<roomOf, removed, log>>
Refuses(i) ==
    LET w == Head(ob[i].writes) IN
    /\ ob[i].writes # <<>>
    /\ ob'[i].phase = "up" <=> ob[i].phase = "up"
    /\ ob'[i].writes = Tail(ob[i].writes)
    /\ \/ DOMAIN ob'[i].mem = DOMAIN ob[i].mem
       \/ w.op = "enqueue" /\ DOMAIN ob'[i].mem = DOMAIN ob[i].mem \ w.ids
    /\ UNCHANGED <<disk, users, network>>

Kind(i) == Idles(i) \/ Empties(i) \/ Reloads(i) \/ Queues(i) \/ Alters(i) \/ TakesOut(i) \/ Lands(i) \/ Refuses(i)
Only(i) == \A j \in Inst \ {i} : ob'[j] = ob[j]

(* A queue that changed is saved.                                          *)
LEMMA SavesEffect ==
    ASSUME NEW known \in SUBSET Entry, NEW i \in Inst, ob \in [Inst -> Object], ob[i].phase = "up",
           NEW n \in Object, n.phase = "up", n.writes = ob[i].writes, QueueOK(n.mem, Held, known),
           NEW op \in {"enqueue", "settle", "retry", "remove", "removeRoom"}, NEW ids \in SUBSET Entry,
           Become(i, Persist(n, op, ids))
    PROVE  Saves(i, DOMAIN n.mem, op, ids)
<1> DEFINE w == [snap |-> Snapshot(n.mem), op |-> op, ids |-> ids]
           p == Persist(n, op, ids)
<1>1. QueueOK(w.snap, Saved, known) /\ DOMAIN w.snap = DOMAIN n.mem
  BY SnapshotOK
<1>2. w \in Write /\ w.op = op /\ w.ids = ids
  BY <1>1, QueueTypes DEF Write
<1>3. p.phase = "up" /\ p.mem = n.mem /\ p.writes = Append(n.writes, w)
  BY DEF Persist, Object
<1> HIDE DEF w, p
<1>4. ob'[i] = p
  BY DEF Become, p
<1> QED
  BY <1>1, <1>2, <1>3, <1>4 DEF Saves

LEMMA BecomeOnly ==
    ASSUME ob \in [Inst -> Object], NEW i \in Inst, NEW o, Become(i, o)
    PROVE  ob'[i] = o /\ Only(i)
  BY DEF Become, Only

LEMMA Kinds ==
    ASSUME AwaitRestore, Types, Next
    PROVE  (\E i \in Inst : Only(i) /\ Kind(i)) \/ (\E e \in Entry : Reach(e))
<1> DEFINE known == DOMAIN roomOf
<1>1. /\ known \in SUBSET Entry /\ known = 1..Len(roomOf) /\ Len(roomOf) \in Nat
      /\ \A i \in Inst : Shape(ob[i], known) /\ ob[i] \in Object
      /\ ob \in [Inst -> Object] /\ QueueOK(disk, Saved, known)
  BY KnownEntries DEF Types, Shapes
<1> HIDE DEF known
<1>2. DOMAIN NoQueue = {}
  BY DEF NoQueue
<1>3. ASSUME NEW i \in Inst, Start(i) \/ dispose(i) \/ Crash(i) PROVE Only(i) /\ Empties(i)
  <2>1. PICK o \in {[None EXCEPT !.phase = "restoring"], [None EXCEPT !.phase = "disposed", !.writes = ob[i].writes], None} :
          Become(i, o)
    BY <1>3 DEF Start, dispose, Crash
  <2>2. o.phase # "up" /\ DOMAIN o.mem = {} /\ o.writes \in {<<>>, ob[i].writes}
    <3>1. CASE o = [None EXCEPT !.phase = "restoring"]
      BY <1>2, <3>1 DEF None
    <3>2. CASE o = [None EXCEPT !.phase = "disposed", !.writes = ob[i].writes]
      BY <1>2, <3>2 DEF None
    <3>3. CASE o = None
      BY <1>2, <3>3 DEF None
    <3> QED
      BY <2>1, <3>1, <3>2, <3>3
  <2>3. ob'[i] = o /\ Only(i)
    BY <1>1, <2>1, BecomeOnly
  <2>4. UNCHANGED <<disk, users, network>>
    BY <1>3 DEF Start, dispose, Crash
  <2> QED
    BY <2>2, <2>3, <2>4 DEF Empties
<1>4. ASSUME NEW i \in Inst, Restore(i) PROVE Only(i) /\ Reloads(i)
  <2> DEFINE n == [ob[i] EXCEPT !.phase = "up", !.mem = Merged(ob[i].mem)]
  <2>1. Shape(n, known) /\ DOMAIN n.mem = DOMAIN disk /\ n.writes = <<>> /\ n.phase = "up"
    BY <1>1, <1>4, RestoreShape DEF Restore
  <2>2. Become(i, Flush(n)) /\ UNCHANGED <<disk, users, network>>
    BY <1>4 DEF Restore, Merged
  <2> HIDE DEF n
  <2>3. Flushes(n.phase = "up", DOMAIN n.mem, n.writes, Flush(n))
    BY <1>1, <2>1, FlushEffect
  <2>4. Flushes(TRUE, DOMAIN disk, <<>>, Flush(n))
    BY <2>1, <2>3
  <2>5. ob[i].writes = <<>>
    BY <1>1, <1>4 DEF Restore, Shape
  <2> QED
    BY <1>1, <2>2, <2>4, <2>5, BecomeOnly DEF Reloads
<1>5. ASSUME NEW i \in Inst, NEW online \in BOOLEAN, setOnline(i, online) PROVE Only(i) /\ Idles(i)
  <2> DEFINE n == [ob[i] EXCEPT !.online = online]
  <2>1. Shape(n, known) /\ n.phase = ob[i].phase /\ n.mem = ob[i].mem /\ n.writes = ob[i].writes
    BY <1>1 DEF Shape, Object
  <2>2. Become(i, Flush(n)) /\ UNCHANGED <<disk, users, network>>
    BY <1>5 DEF setOnline
  <2> HIDE DEF n
  <2>3. Flushes(n.phase = "up", DOMAIN n.mem, n.writes, Flush(n))
    BY <1>1, <2>1, FlushEffect
  <2> QED
    BY <1>1, <2>1, <2>2, <2>3, BecomeOnly DEF Idles
<1>6. ASSUME NEW i \in Inst, RetryTimer(i) PROVE Only(i) /\ Idles(i)
  <2> DEFINE n == [ob[i] EXCEPT !.timer = FALSE, !.mem = Released(@)]
  <2>1. Shape(n, known)
    BY <1>1, TimerShape
  <2>2. n.phase = ob[i].phase /\ DOMAIN n.mem = DOMAIN ob[i].mem /\ n.writes = ob[i].writes
    BY <1>1 DEF Object, Released
  <2>3. Become(i, Flush(n)) /\ UNCHANGED <<disk, users, network>>
    BY <1>6 DEF RetryTimer
  <2> HIDE DEF n
  <2>4. Flushes(n.phase = "up", DOMAIN n.mem, n.writes, Flush(n))
    BY <1>1, <2>1, FlushEffect
  <2> QED
    BY <1>1, <2>2, <2>3, <2>4, BecomeOnly DEF Idles
<1>7. ASSUME NEW i \in Inst, NEW r \in Room, enqueue(i, r) PROVE Only(i) /\ Queues(i)
  <2> DEFINE e == Len(roomOf) + 1
             o == ob[i]
             more == known \cup {e}
             mem == [x \in DOMAIN o.mem \cup {e} |-> IF x = e THEN [status |-> "pending", attempts |-> 0, hold |-> FALSE]
                                                       ELSE o.mem[x]]
             n == [o EXCEPT !.mem = mem]
  <2>1. o.phase = "up" /\ e <= MaxEntries /\ roomOf' = Append(roomOf, r)
    BY <1>7 DEF enqueue
  <2>2. more \in SUBSET Entry /\ known \subseteq more /\ {e} \in SUBSET Entry
    BY <1>1, <2>1 DEF Entry
  <2>3. Shape(o, more)
    BY <1>1, <2>2, KnownGrows
  <2>4. QueueOK(mem, Held, more) /\ DOMAIN mem = DOMAIN o.mem \cup {e}
    BY <2>3, OutboxAssumption DEF Shape, QueueOK, Held, Status
  <2>5. mem \in Queue(Held)
    BY <2>2, <2>4, QueueTypes
  <2>6. Become(i, Persist(n, "enqueue", {e})) /\ UNCHANGED <<disk, network, accepted, removed, gone>>
    BY <1>7 DEF enqueue
  <2> HIDE DEF mem
  <2>7. n \in Object /\ n.phase = "up" /\ n.writes = o.writes /\ n.mem = mem
    BY <1>1, <2>1, <2>5 DEF Object
  <2> HIDE DEF n, more
  <2>8. Saves(i, DOMAIN n.mem, "enqueue", {e})
    BY <1>1, <2>1, <2>2, <2>4, <2>6, <2>7, SavesEffect
  <2>9. Saves(i, DOMAIN o.mem \cup {e}, "enqueue", {e})
    BY <2>4, <2>7, <2>8
  <2>10. Only(i)
    BY <1>1, <2>6, BecomeOnly
  <2> QED
    BY <2>1, <2>6, <2>9, <2>10 DEF Queues
<1>8. ASSUME NEW i \in Inst, NEW e \in Entry, retry(i, e) PROVE Only(i) /\ Alters(i)
  <2> DEFINE o == ob[i]
             mem == [o.mem EXCEPT ![e] = [@ EXCEPT !.status = "pending", !.attempts = 0]]
             n == [o EXCEPT !.mem = mem]
  <2>1. e \in DOMAIN o.mem /\ UNCHANGED <<disk, users, network>> /\ Become(i, Persist(n, "retry", {e}))
    BY <1>8 DEF retry
  <2>2. o.phase = "up" /\ QueueOK(o.mem, Held, known)
    BY <1>1, <1>2, <2>1 DEF Shape
  <2>3. QueueOK(mem, Held, known) /\ DOMAIN mem = DOMAIN o.mem
    BY <1>1, <2>1, <2>2, RetriedOK
  <2>4. mem \in Queue(Held)
    BY <1>1, <2>3, QueueTypes
  <2> HIDE DEF mem
  <2>5. n \in Object /\ n.phase = "up" /\ n.writes = o.writes /\ n.mem = mem
    BY <1>1, <2>2, <2>4 DEF Object
  <2> HIDE DEF n
  <2>6. Saves(i, DOMAIN n.mem, "retry", {e})
    BY <1>1, <2>1, <2>2, <2>3, <2>5, SavesEffect
  <2>7. Saves(i, DOMAIN o.mem, "retry", {e}) /\ Only(i)
    BY <1>1, <2>1, <2>3, <2>5, <2>6, BecomeOnly
  <2> QED
    BY <2>1, <2>7 DEF Alters
<1>9. ASSUME NEW i \in Inst, Confirmed(i) \/ Unanswered(i) \/ Rejected(i) PROVE Only(i) /\ Alters(i)
  <2>1. PICK mem, timer : Answer(i, known, mem, timer)
    BY <1>1, <1>9, AnswerChanges
  <2> DEFINE o == ob[i]
             m == [o EXCEPT !.mem = mem, !.timer = timer]
             n == [m EXCEPT !.flush.pc = "settle"]
  <2>2. o.phase = "up" /\ o.flush \in Flushing
    BY <1>1, <2>1 DEF Shape, Answer, NotFlushing, Object
  <2>3. QueueOK(mem, Held, known) /\ mem \in Queue(Held) /\ timer \in BOOLEAN
    BY <1>1, <2>1, QueueTypes DEF Answer
  <2>4. m \in Object /\ m.phase = "up" /\ m.writes = o.writes /\ m.mem = mem /\ m.flush = o.flush
    BY <1>1, <2>2, <2>3 DEF Object
  <2>5. Become(i, Persist(n, "settle", {})) /\ UNCHANGED <<disk, users, network>>
    BY <2>1 DEF Answer, Answered
  <2> HIDE DEF m
  <2>6. n \in Object /\ n.phase = "up" /\ n.writes = o.writes /\ n.mem = mem
    BY <2>2, <2>4 DEF Object, Flushing
  <2> HIDE DEF n
  <2>7. Saves(i, DOMAIN n.mem, "settle", {})
    BY <1>1, <2>2, <2>3, <2>5, <2>6, SavesEffect
  <2>8. Saves(i, DOMAIN mem, "settle", {}) /\ Only(i)
    BY <1>1, <2>5, <2>6, <2>7, BecomeOnly
  <2>9. DOMAIN mem \subseteq DOMAIN o.mem /\ DOMAIN o.mem \ DOMAIN mem \subseteq Delivered
    BY <2>1 DEF Answer
  <2> QED
    BY <2>5, <2>8, <2>9 DEF Alters
<1>10. ASSUME NEW i \in Inst, NEW ids \in SUBSET DOMAIN ob[i].mem, ids # {}, NEW op \in {"remove", "removeRoom"},
              Become(i, Persist([ob[i] EXCEPT !.mem = Drop(@, ids)], op, ids)), removed' = removed \cup ids,
              UNCHANGED <<disk, network, roomOf, accepted, gone>>
       PROVE  Only(i) /\ TakesOut(i)
  <2> DEFINE o == ob[i]
             mem == Drop(o.mem, ids)
             n == [o EXCEPT !.mem = mem]
  <2>1. o.phase = "up" /\ ids \subseteq Entry
    BY <1>1, <1>2, <1>10 DEF Shape, QueueOK
  <2>2. QueueOK(mem, Held, known) /\ DOMAIN mem = DOMAIN o.mem \ ids
    BY <1>1, DropOK DEF Drop, Shape
  <2>3. mem \in Queue(Held)
    BY <1>1, <2>2, QueueTypes
  <2>4. Become(i, Persist(n, op, ids))
    BY <1>10
  <2> HIDE DEF mem
  <2>5. n \in Object /\ n.phase = "up" /\ n.writes = o.writes /\ n.mem = mem
    BY <1>1, <2>1, <2>3 DEF Object
  <2> HIDE DEF n
  <2>6. Saves(i, DOMAIN n.mem, op, ids)
    BY <1>1, <2>1, <2>2, <2>4, <2>5, SavesEffect
  <2>7. Saves(i, DOMAIN o.mem \ ids, op, ids) /\ Only(i)
    BY <1>1, <2>2, <2>4, <2>5, <2>6, BecomeOnly
  <2> QED
    BY <1>10, <2>7 DEF TakesOut
<1>11. ASSUME NEW i \in Inst, NEW e \in Entry, remove(i, e) PROVE Only(i) /\ TakesOut(i)
  BY <1>10, <1>11 DEF remove
<1>12. ASSUME NEW i \in Inst, NEW r \in Room, removeRoom(i, r) PROVE Only(i) /\ TakesOut(i)
  <2> DEFINE ids == {e \in DOMAIN ob[i].mem : roomOf[e] = r}
  <2>1. ids \in SUBSET DOMAIN ob[i].mem
    OBVIOUS
  <2> QED
    BY <1>10, <1>12, <2>1 DEF removeRoom
<1>13. ASSUME NEW i \in Inst, SaveLands(i) PROVE Only(i) /\ Lands(i)
  <2> DEFINE w == Head(ob[i].writes)
             n == Continue(i, w, Landed(ob[i]))
  <2>1. ob[i].writes # <<>> /\ Become(i, n)
    BY <1>13 DEF SaveLands, Landing, Landed
  <2>2. Flushes(ob[i].phase = "up", DOMAIN ob[i].mem, Tail(ob[i].writes), n)
    BY <1>1, <2>1, ContinueEffect
  <2> HIDE DEF n
  <2>3. ob'[i] = n /\ Only(i)
    BY <1>1, <2>1, BecomeOnly
  <2> QED
    BY <1>13, <2>1, <2>2, <2>3 DEF Lands, SaveLands, Landing
<1>14. ASSUME NEW i \in Inst, SaveFails(i) PROVE Only(i) /\ Refuses(i)
  <2> DEFINE w == Head(ob[i].writes)
             l == Landed(ob[i])
             n == Refuse(i, w, l)
  <2>1. ob[i].writes # <<>> /\ Become(i, n) /\ UNCHANGED <<disk, users, network>>
    BY <1>14 DEF SaveFails, Landing, Landed, users, network
  <2>2. l \in Object /\ l.phase = ob[i].phase /\ l.mem = ob[i].mem /\ l.writes = Tail(ob[i].writes)
    <3>1. Shape(ob[i], known) /\ known \in SUBSET Entry
      BY <1>1
    <3>2. /\ Shape(l, known) /\ l.phase = ob[i].phase /\ l.mem = ob[i].mem
          /\ l.writes = Tail(ob[i].writes)
      <4> HIDE DEF known
      <4> QED
        BY <2>1, <3>1, LandedShape
    <3> QED
      BY <3>2 DEF Shape
  <2> HIDE DEF l
  <2>3. /\ n.phase = l.phase /\ n.writes = l.writes
        /\ n.mem = l.mem \/ (w.op = "enqueue" /\ DOMAIN n.mem = DOMAIN l.mem \ w.ids)
    <3>1. \/ n = l
          \/ w.op = "enqueue" /\ n = [l EXCEPT !.mem = Drop(@, w.ids)]
          \/ n = [l EXCEPT !.flush = NotFlushing]
      BY DEF Refuse
    <3> HIDE DEF n, w
    <3> QED
      BY <2>2, <3>1 DEF Object, Drop
  <2> HIDE DEF n
  <2>4. ob'[i] = n /\ Only(i)
    BY <1>1, <2>1, BecomeOnly
  <2> QED
    BY <2>1, <2>2, <2>3, <2>4 DEF Refuses
<1>15. ASSUME NEW i \in Inst, Run(i) PROVE Only(i) /\ Kind(i)
  BY <1>3, <1>4, <1>5, <1>6, <1>9, <1>13, <1>15 DEF Run, Kind
<1>16. ASSUME NEW i \in Inst, Environment(i) PROVE Only(i) /\ Kind(i)
  BY <1>3, <1>5, <1>7, <1>8, <1>11, <1>12, <1>14, <1>16 DEF Environment, Kind
<1> QED
  BY <1>15, <1>16 DEF Next

-------------------------------------------------------------------------------
(* What is taken out *)

(* The saves after which a removed message is gone.                        *)
Takes(w) == w.op \in {"remove", "removeRoom"}
TakenOK(ws, out) == \A k \in DOMAIN ws : Takes(ws[k]) => ws[k].ids \subseteq out

GoneRemoved == gone \subseteq removed /\ \A i \in Inst : TakenOK(ob[i].writes, removed)

LEMMA AppendTaken ==
    ASSUME NEW ws \in Seq(Write), NEW w \in Write, NEW out, TakenOK(ws, out), Takes(w) => w.ids \subseteq out
    PROVE  TakenOK(Append(ws, w), out)
  BY Appended DEF TakenOK

LEMMA FlushesTaken ==
    ASSUME NEW up \in BOOLEAN, NEW dom, NEW ws \in Seq(Write), NEW n, Flushes(up, dom, ws, n), NEW out, TakenOK(ws, out)
    PROVE  TakenOK(n.writes, out)
  BY AppendTaken DEF Flushes, Takes

LEMMA TailTaken ==
    ASSUME NEW ws \in Seq(Write), ws # <<>>, NEW out, TakenOK(ws, out)
    PROVE  /\ TakenOK(Tail(ws), out)
           /\ Head(ws).op \in {"remove", "removeRoom"} => Head(ws).ids \subseteq out
  BY Tailed DEF TakenOK, Takes

LEMMA GoneStep == ASSUME AwaitRestore, Types, GoneRemoved, Next PROVE GoneRemoved'
<1>1. /\ \A i \in Inst : ob[i].writes \in Seq(Write) /\ TakenOK(ob[i].writes, removed)
      /\ TakenOK(<<>>, removed) /\ <<>> \in Seq(Write)
      /\ gone \subseteq removed
  BY DEF Types, Shapes, Shape, Object, GoneRemoved, TakenOK
<1>2. ASSUME NEW i \in Inst, Only(i), removed \subseteq removed', gone' \subseteq removed', TakenOK(ob'[i].writes, removed')
      PROVE  GoneRemoved'
  <2> SUFFICES ASSUME NEW j \in Inst PROVE TakenOK(ob'[j].writes, removed')
    BY <1>2 DEF GoneRemoved
  <2>1. CASE j = i
    BY <1>2, <2>1
  <2>2. CASE j # i
    <3>1. ob'[j] = ob[j]
      BY <1>2, <2>2 DEF Only
    <3> QED
      BY <1>1, <1>2, <3>1 DEF TakenOK
  <2> QED
    BY <2>1, <2>2
<1>3. ASSUME NEW i \in Inst, Only(i), Idles(i) PROVE GoneRemoved'
  <2>1. TakenOK(ob'[i].writes, removed)
    BY <1>1, <1>3, FlushesTaken DEF Idles
  <2> QED
    BY <1>1, <1>2, <1>3, <2>1 DEF Idles, users
<1>4. ASSUME NEW i \in Inst, Only(i), Empties(i) PROVE GoneRemoved'
  <2>1. TakenOK(ob'[i].writes, removed)
    BY <1>1, <1>4 DEF Empties
  <2> QED
    BY <1>1, <1>2, <1>4, <2>1 DEF Empties, users
<1>5. ASSUME NEW i \in Inst, Only(i), Reloads(i) PROVE GoneRemoved'
  <2>1. TakenOK(ob'[i].writes, removed)
    BY <1>1, <1>5, FlushesTaken DEF Reloads
  <2> QED
    BY <1>1, <1>2, <1>5, <2>1 DEF Reloads, users
<1>6. ASSUME NEW i \in Inst, NEW dom, NEW op, NEW ids, Saves(i, dom, op, ids), NEW out,
             op \in {"remove", "removeRoom"} => ids \subseteq out, removed \subseteq out
      PROVE  TakenOK(ob'[i].writes, out)
  <2>1. TakenOK(ob[i].writes, out)
    BY <1>1, <1>6 DEF TakenOK
  <2> QED
    BY <1>1, <1>6, <2>1, AppendTaken DEF Saves, Takes
<1>7. ASSUME NEW i \in Inst, Only(i), Queues(i) \/ Alters(i) \/ TakesOut(i) PROVE GoneRemoved'
  <2>1. removed \subseteq removed' /\ gone' = gone
    BY <1>7 DEF Queues, Alters, TakesOut, users
  <2>2. CASE Queues(i)
    BY <1>1, <1>2, <1>6, <1>7, <2>1, <2>2 DEF Queues
  <2>3. CASE Alters(i)
    BY <1>1, <1>2, <1>6, <1>7, <2>1, <2>3 DEF Alters
  <2>4. CASE TakesOut(i)
    BY <1>1, <1>2, <1>6, <1>7, <2>1, <2>4 DEF TakesOut
  <2> QED
    BY <1>7, <2>2, <2>3, <2>4
<1>8. ASSUME NEW i \in Inst, Only(i), Lands(i) PROVE GoneRemoved'
  <2>1. Tail(ob[i].writes) \in Seq(Write)
    BY <1>1, <1>8, Tailed DEF Lands
  <2>2. /\ TakenOK(Tail(ob[i].writes), removed)
        /\ Head(ob[i].writes).op \in {"remove", "removeRoom"} => Head(ob[i].writes).ids \subseteq removed
    BY <1>1, <1>8, TailTaken DEF Lands
  <2>3. TakenOK(ob'[i].writes, removed)
    BY <1>8, <2>1, <2>2, FlushesTaken DEF Lands
  <2> QED
    BY <1>1, <1>2, <1>8, <2>2, <2>3 DEF Lands
<1>9. ASSUME NEW i \in Inst, Only(i), Refuses(i) PROVE GoneRemoved'
  <2>1. TakenOK(ob'[i].writes, removed)
    BY <1>1, <1>9, TailTaken DEF Refuses
  <2> QED
    BY <1>1, <1>2, <1>9, <2>1 DEF Refuses, users
<1>10. ASSUME NEW e \in Entry, Reach(e) PROVE GoneRemoved'
  BY <1>10 DEF Reach, users, GoneRemoved
<1> QED
  BY <1>3, <1>4, <1>5, <1>7, <1>8, <1>9, <1>10, Kinds DEF Kind

(* The types of the module, with what is gone among what was removed.      *)
THEOREM TypeCorrect == ASSUME AwaitRestore PROVE Spec => []TypeOK
<1>1. Init => GoneRemoved
  BY DEF Init, GoneRemoved, None, TakenOK
<1>2. Types /\ GoneRemoved /\ [Next]_vars => GoneRemoved'
  <2>1. ASSUME UNCHANGED vars, GoneRemoved PROVE GoneRemoved'
    BY <2>1 DEF vars, users, GoneRemoved
  <2> QED
    BY <2>1, GoneStep
<1>3. Types /\ GoneRemoved => TypeOK
  <2> SUFFICES ASSUME Types, GoneRemoved PROVE TypeOK
    OBVIOUS
  <2>1. DOMAIN roomOf \subseteq Entry
    BY KnownEntries
  <2>2. disk \in Queue(Saved)
    BY <2>1, QueueTypes DEF Types
  <2>3. \A e \in DOMAIN roomOf : roomOf[e] \in Room
    BY ElementOfSeq, LenProperties DEF Types
  <2> QED
    BY <2>2, <2>3 DEF Types, Shapes, GoneRemoved, TypeOK
<1> QED
  BY <1>1, <1>2, <1>3, TypesCorrect, PTL DEF Spec

-------------------------------------------------------------------------------
(* One instance: no accepted message is lost *)

(* An accepted message that is not safe (delivered or removed) is saved,   *)
(* in every save of the chain and, if the instance is up, in its queue.    *)
(* So is one whose enqueue() is still waiting, from its own save on; the   *)
(* saves of enqueue() are about different messages, not yet accepted.      *)
Stored(up, dom, ws, q, acc, safe) ==
    /\ \A e \in acc \ safe : e \in q /\ (up => e \in dom) /\ \A k \in DOMAIN ws : e \in DOMAIN ws[k].snap
    /\ \A k \in DOMAIN ws : ws[k].op = "enqueue" =>
          /\ \A e \in ws[k].ids : e \notin acc
          /\ \A j \in DOMAIN ws : ws[j].op = "enqueue" /\ j # k => \A e \in ws[k].ids : e \notin ws[j].ids
          /\ \A e \in ws[k].ids \ safe :
                (up => e \in dom) /\ \A j \in DOMAIN ws : j >= k => e \in DOMAIN ws[j].snap

LEMMA StoredAppend ==
    ASSUME NEW dom, NEW ws \in Seq(Write), NEW q, NEW acc, NEW safe, Stored(TRUE, dom, ws, q, acc, safe),
           NEW w \in Write, DOMAIN w.snap = dom,
           w.op = "enqueue" =>
             /\ w.ids \subseteq dom /\ \A e \in w.ids : e \notin acc
             /\ \A k \in DOMAIN ws : ws[k].op = "enqueue" => \A e \in w.ids : e \notin ws[k].ids
    PROVE  Stored(TRUE, dom, Append(ws, w), q, acc, safe)
<1> DEFINE n == Append(ws, w)
           l == Len(ws) + 1
<1>1. /\ DOMAIN n = DOMAIN ws \cup {l} /\ l \in Nat \ DOMAIN ws /\ n[l] = w
      /\ \A k \in DOMAIN ws : n[k] = ws[k] /\ k \in Nat /\ k < l
  BY Appended
<1> HIDE DEF n, l
<1>2. \A e \in acc \ safe : e \in q /\ e \in dom /\ \A k \in DOMAIN n : e \in DOMAIN n[k].snap
  BY <1>1 DEF Stored
<1>3. ASSUME NEW k \in DOMAIN n, n[k].op = "enqueue"
      PROVE  /\ \A e \in n[k].ids : e \notin acc
             /\ \A j \in DOMAIN n : n[j].op = "enqueue" /\ j # k => \A e \in n[k].ids : e \notin n[j].ids
             /\ \A e \in n[k].ids \ safe : e \in dom /\ \A j \in DOMAIN n : j >= k => e \in DOMAIN n[j].snap
  <2>1. CASE k = l
    BY <1>1, <1>3, <2>1 DEF Stored
  <2>2. CASE k \in DOMAIN ws
    BY <1>1, <1>3, <2>2 DEF Stored
  <2> QED
    BY <1>1, <2>1, <2>2
<1>4. Stored(TRUE, dom, n, q, acc, safe)
  BY <1>2, <1>3 DEF Stored
<1> QED
  BY <1>4 DEF n

LEMMA StoredFlushes ==
    ASSUME NEW up \in BOOLEAN, NEW dom, NEW ws \in Seq(Write), NEW n, Flushes(up, dom, ws, n),
           NEW q, NEW acc, NEW safe, Stored(up, dom, ws, q, acc, safe)
    PROVE  Stored(n.phase = "up", DOMAIN n.mem, n.writes, q, acc, safe)
<1>1. (n.phase = "up") = up /\ DOMAIN n.mem = dom
  BY DEF Flushes
<1>2. CASE n.writes = ws
  BY <1>1, <1>2
<1>3. CASE up /\ \E w \in Write : n.writes = Append(ws, w) /\ w.op = "send" /\ DOMAIN w.snap = dom
  <2>1. Stored(TRUE, dom, n.writes, q, acc, safe)
    BY <1>3, StoredAppend
  <2> QED
    BY <1>1, <1>3, <2>1
<1> QED
  BY <1>2, <1>3 DEF Flushes

(* Messages leave the queue that are safe.                                 *)
LEMMA StoredLess ==
    ASSUME NEW up, NEW dom, NEW ws, NEW q, NEW acc, NEW safe, Stored(up, dom, ws, q, acc, safe),
           NEW less, NEW safer, safe \subseteq safer, dom \ less \subseteq safer
    PROVE  Stored(up, less, ws, q, acc, safer)
  BY DEF Stored

LEMMA StoredLands ==
    ASSUME NEW up \in BOOLEAN, NEW dom, NEW ws \in Seq(Write), ws # <<>>, NEW q, NEW acc, NEW safe,
           Stored(up, dom, ws, q, acc, safe)
    PROVE  LET w == Head(ws) IN
           /\ Stored(up, dom, Tail(ws), DOMAIN w.snap, IF w.op = "enqueue" THEN acc \cup w.ids ELSE acc, safe)
           /\ Stored(up, dom, Tail(ws), q, acc, safe)
           /\ w.op = "enqueue" => Stored(up, dom \ w.ids, Tail(ws), q, acc, safe)
<1> DEFINE w == Head(ws)
           t == Tail(ws)
           more == IF w.op = "enqueue" THEN acc \cup w.ids ELSE acc
<1>1. /\ \A k \in DOMAIN t : k \in Nat /\ k > 0 /\ k + 1 \in DOMAIN ws /\ t[k] = ws[k + 1]
      /\ 1 \in DOMAIN ws /\ w = ws[1]
      /\ \A j, k \in DOMAIN t : (j >= k <=> j + 1 >= k + 1) /\ (j # k => j + 1 # k + 1)
      /\ \A k \in DOMAIN t : k + 1 >= 1 /\ k + 1 # 1
  BY Tailed
<1> HIDE DEF w, t
<1>2. \A e \in acc \ safe : (up => e \in dom) /\ e \in DOMAIN w.snap /\ e \in q /\ \A k \in DOMAIN t : e \in DOMAIN t[k].snap
  BY <1>1 DEF Stored
<1>3. ASSUME w.op = "enqueue", NEW e \in w.ids
      PROVE  /\ e \notin acc
             /\ \A k \in DOMAIN t : t[k].op = "enqueue" => e \notin t[k].ids
             /\ e \notin safe => (up => e \in dom) /\ e \in DOMAIN w.snap
             /\ e \notin safe => \A k \in DOMAIN t : e \in DOMAIN t[k].snap
  BY <1>1, <1>3 DEF Stored
<1>4. ASSUME NEW k \in DOMAIN t, t[k].op = "enqueue"
      PROVE  /\ \A e \in t[k].ids : e \notin acc
             /\ \A j \in DOMAIN t : t[j].op = "enqueue" /\ j # k => \A e \in t[k].ids : e \notin t[j].ids
             /\ \A e \in t[k].ids \ safe : (up => e \in dom) /\ \A j \in DOMAIN t : j >= k => e \in DOMAIN t[j].snap
  BY <1>1, <1>4 DEF Stored
<1>5. Stored(up, dom, t, DOMAIN w.snap, more, safe)
  <2>1. \A e : e \in more => e \in acc \/ (w.op = "enqueue" /\ e \in w.ids)
    OBVIOUS
  <2> HIDE DEF more
  <2>2. ASSUME NEW e \in more \ safe
        PROVE  e \in DOMAIN w.snap /\ (up => e \in dom) /\ \A k \in DOMAIN t : e \in DOMAIN t[k].snap
    <3>1. CASE e \in acc
      BY <1>2, <2>2, <3>1
    <3>2. CASE w.op = "enqueue" /\ e \in w.ids
      BY <1>3, <2>2, <3>2
    <3> QED
      BY <2>1, <2>2, <3>1, <3>2
  <2>3. ASSUME NEW k \in DOMAIN t, t[k].op = "enqueue", NEW e \in t[k].ids PROVE e \notin more
    <3>1. e \notin acc
      BY <1>4, <2>3
    <3>2. w.op = "enqueue" => e \notin w.ids
      BY <1>3, <2>3
    <3> QED
      BY <2>1, <3>1, <3>2
  <2> QED
    BY <1>4, <2>2, <2>3 DEF Stored
<1>6. Stored(up, dom, t, q, acc, safe)
  BY <1>2, <1>4 DEF Stored
<1>7. ASSUME w.op = "enqueue" PROVE Stored(up, dom \ w.ids, t, q, acc, safe)
  <2>1. ASSUME NEW e \in acc \ safe, up PROVE e \in dom \ w.ids
    BY <1>2, <1>3, <1>7, <2>1
  <2>2. ASSUME NEW k \in DOMAIN t, t[k].op = "enqueue", NEW e \in t[k].ids \ safe, up PROVE e \in dom \ w.ids
    <3>1. e \in dom
      BY <1>4, <2>2
    <3>2. e \notin w.ids
      BY <1>3, <1>7, <2>2
    <3> QED
      BY <3>1, <3>2
  <2> QED
    BY <1>2, <1>4, <2>1, <2>2 DEF Stored
<1> QED
  BY <1>5, <1>6, <1>7 DEF w, t

Safe == Delivered \cup removed
Keeps(i) == Stored(ob[i].phase = "up", DOMAIN ob[i].mem, ob[i].writes, DOMAIN disk, accepted, Safe)

(* What every step finds.                                                  *)
LEMMA StepFinds ==
    ASSUME Types, NEW i \in Inst
    PROVE  /\ ob[i].writes \in Seq(Write) /\ Len(roomOf) + 1 \notin DOMAIN roomOf
           /\ DOMAIN ob[i].mem \subseteq DOMAIN roomOf
           /\ \A k \in DOMAIN ob[i].writes : ob[i].writes[k].ids \subseteq DOMAIN roomOf
           /\ accepted \cup removed \cup gone \cup Delivered \cup inflight \subseteq DOMAIN roomOf
           /\ ob[i].phase # "up" => DOMAIN ob[i].mem = {}
<1>1. DOMAIN roomOf = 1..Len(roomOf) /\ Len(roomOf) \in Nat
  BY KnownEntries
<1> QED
  BY <1>1 DEF Types, Shapes, Shape, WritesOK, QueueOK, NoQueue

LEMMA KeepsStep ==
    ASSUME Types, NEW i \in Inst, Inst = {i}, Keeps(i),
           (\E j \in Inst : Only(j) /\ Kind(j)) \/ (\E e \in Entry : Reach(e))
    PROVE  Keeps(i)'
<1> DEFINE o == ob[i]
           n == ob'[i]
           ws == o.writes
           dom == DOMAIN o.mem
           q == DOMAIN disk
<1>1. /\ ws \in Seq(Write) /\ Len(roomOf) + 1 \notin DOMAIN roomOf
      /\ dom \subseteq DOMAIN roomOf /\ accepted \subseteq DOMAIN roomOf
      /\ \A k \in DOMAIN ws : ws[k].ids \subseteq DOMAIN roomOf
      /\ o.phase # "up" => dom = {}
  BY StepFinds
<1>2. Stored(o.phase = "up", dom, ws, q, accepted, Safe)
  BY DEF Keeps
<1>3. ASSUME UNCHANGED <<disk, users, network>>, Stored(n.phase = "up", DOMAIN n.mem, n.writes, q, accepted, Safe)
      PROVE  Keeps(i)'
  BY <1>3 DEF Keeps, users, network, Safe, Delivered
<1>4. ASSUME Idles(i) PROVE Keeps(i)'
  <2>1. Stored(n.phase = "up", DOMAIN n.mem, n.writes, q, accepted, Safe)
    BY <1>1, <1>2, <1>4, StoredFlushes DEF Idles
  <2> QED
    BY <1>3, <1>4, <2>1 DEF Idles
<1>5. ASSUME Empties(i) PROVE Keeps(i)'
  <2>1. n.phase # "up" /\ DOMAIN n.mem = {} /\ (n.writes = <<>> \/ n.writes = ws)
    BY <1>5 DEF Empties
  <2>2. Stored(n.phase = "up", DOMAIN n.mem, n.writes, q, accepted, Safe)
    BY <1>2, <2>1 DEF Stored
  <2> QED
    BY <1>3, <1>5, <2>2 DEF Empties
<1>6. ASSUME Reloads(i) PROVE Keeps(i)'
  <2>1. Stored(TRUE, q, <<>>, q, accepted, Safe) /\ <<>> \in Seq(Write)
    BY <1>2 DEF Stored
  <2>2. Stored(n.phase = "up", DOMAIN n.mem, n.writes, q, accepted, Safe)
    BY <1>6, <2>1, StoredFlushes DEF Reloads
  <2> QED
    BY <1>3, <1>6, <2>2 DEF Reloads
<1>7. ASSUME NEW some, NEW op, NEW ids, Saves(i, some, op, ids), NEW safe, Stored(TRUE, some, ws, q, accepted, safe),
             op = "enqueue" =>
               /\ ids \subseteq some /\ \A e \in ids : e \notin accepted
               /\ \A k \in DOMAIN ws : \A e \in ids : e \notin ws[k].ids
      PROVE  Stored(n.phase = "up", DOMAIN n.mem, n.writes, q, accepted, safe)
  <2>1. PICK w \in Write : n.writes = Append(ws, w) /\ w.op = op /\ w.ids = ids /\ DOMAIN w.snap = some
    BY <1>7 DEF Saves
  <2>2. Stored(TRUE, some, Append(ws, w), q, accepted, safe)
    BY <1>1, <1>7, <2>1, StoredAppend
  <2>3. (n.phase = "up") = TRUE /\ DOMAIN n.mem = some
    BY <1>7 DEF Saves
  <2> QED
    BY <2>1, <2>2, <2>3
<1>8. ASSUME Queues(i) PROVE Keeps(i)'
  <2> DEFINE e == Len(roomOf) + 1
  <2>1. Saves(i, dom \cup {e}, "enqueue", {e}) /\ o.phase = "up"
    BY <1>8 DEF Queues, Saves
  <2>2. Stored(TRUE, dom \cup {e}, ws, q, accepted, Safe)
    BY <1>2, <2>1 DEF Stored
  <2>3. e \notin accepted /\ \A k \in DOMAIN ws : e \notin ws[k].ids
    BY <1>1
  <2> DEFINE ids == {e}
             some == dom \cup {e}
  <2>4. Saves(i, some, "enqueue", ids) /\ Stored(TRUE, some, ws, q, accepted, Safe) /\ ids \subseteq some
        /\ (\A x \in ids : x \notin accepted) /\ \A k \in DOMAIN ws : \A x \in ids : x \notin ws[k].ids
    BY <2>1, <2>2, <2>3
  <2> HIDE DEF ids, some
  <2>5. Stored(n.phase = "up", DOMAIN n.mem, n.writes, q, accepted, Safe)
    BY <1>7, <2>4
  <2> QED
    BY <1>8, <2>5 DEF Queues, network, Keeps, Safe, Delivered
<1>9. ASSUME Alters(i) PROVE Keeps(i)'
  <2>1. PICK less \in SUBSET dom, op \in {"retry", "settle"}, ids \in SUBSET Entry :
          dom \ less \subseteq Delivered /\ Saves(i, less, op, ids)
    BY <1>9 DEF Alters
  <2>2. o.phase = "up"
    BY <2>1 DEF Saves
  <2>3. Stored(TRUE, less, ws, q, accepted, Safe)
    BY <1>2, <2>1, <2>2 DEF Stored, Safe
  <2>4. Stored(n.phase = "up", DOMAIN n.mem, n.writes, q, accepted, Safe)
    BY <1>7, <2>1, <2>3
  <2> QED
    BY <1>3, <1>9, <2>4 DEF Alters
<1>10. ASSUME TakesOut(i) PROVE Keeps(i)'
  <2>1. PICK ids \in SUBSET dom, op \in {"remove", "removeRoom"} :
          Saves(i, dom \ ids, op, ids) /\ removed' = removed \cup ids
    BY <1>10 DEF TakesOut
  <2>2. o.phase = "up"
    BY <2>1 DEF Saves
  <2>3. Stored(TRUE, dom \ ids, ws, q, accepted, Safe \cup ids)
    BY <1>2, <2>2 DEF Stored
  <2>4. Stored(n.phase = "up", DOMAIN n.mem, n.writes, q, accepted, Safe \cup ids)
    BY <1>7, <2>1, <2>3
  <2>5. UNCHANGED <<disk, network, accepted>> /\ Safe' = Safe \cup ids
    BY <1>10, <2>1 DEF TakesOut, network, Safe, Delivered
  <2> QED
    BY <2>4, <2>5 DEF Keeps
<1>11. ASSUME Lands(i) PROVE Keeps(i)'
  <2> DEFINE w == Head(ws)
             more == IF w.op = "enqueue" THEN accepted \cup w.ids ELSE accepted
  <2>1. ws # <<>> /\ Flushes(o.phase = "up", dom, Tail(ws), n) /\ disk' = w.snap /\ accepted' = more
        /\ UNCHANGED <<removed, log>>
    BY <1>11 DEF Lands
  <2>2. Stored(o.phase = "up", dom, Tail(ws), DOMAIN w.snap, more, Safe) /\ Tail(ws) \in Seq(Write)
    BY <1>1, <1>2, <2>1, StoredLands, Tailed
  <2> DEFINE up == o.phase = "up"
             t == Tail(ws)
             s == DOMAIN w.snap
  <2> HIDE DEF more, w, s, t
  <2>3. Stored(n.phase = "up", DOMAIN n.mem, n.writes, s, more, Safe)
    BY <2>1, <2>2, StoredFlushes DEF t, s
  <2>4. Safe' = Safe
    BY <2>1 DEF Safe, Delivered
  <2> QED
    BY <2>1, <2>3, <2>4 DEF Keeps, s
<1>12. ASSUME Refuses(i) PROVE Keeps(i)'
  <2> DEFINE w == Head(ws)
  <2>1. /\ ws # <<>> /\ n.writes = Tail(ws) /\ (n.phase = "up") = (o.phase = "up")
        /\ DOMAIN n.mem = dom \/ (w.op = "enqueue" /\ DOMAIN n.mem = dom \ w.ids)
    BY <1>12 DEF Refuses
  <2>2. /\ Stored(o.phase = "up", dom, Tail(ws), q, accepted, Safe)
        /\ w.op = "enqueue" => Stored(o.phase = "up", dom \ w.ids, Tail(ws), q, accepted, Safe)
    BY <1>1, <1>2, <2>1, StoredLands
  <2>3. Stored(n.phase = "up", DOMAIN n.mem, n.writes, q, accepted, Safe)
    BY <2>1, <2>2
  <2> QED
    BY <1>3, <1>12, <2>3 DEF Refuses
<1>13. ASSUME NEW e \in Entry, Reach(e) PROVE Keeps(i)'
  <2>1. UNCHANGED <<ob, disk, accepted, removed>> /\ Delivered \subseteq Delivered'
    <3>1. CASE log' = log
      BY <1>13, <3>1 DEF Reach, users, Delivered
    <3>2. CASE log' = Append(log, e)
      BY <1>13, <3>2, Appended DEF Reach, users, Delivered, Types
    <3> QED
      BY <1>13, <3>1, <3>2 DEF Reach
  <2> QED
    BY <1>2, <2>1, StoredLess DEF Keeps, Safe
<1> QED
  BY <1>4, <1>5, <1>6, <1>8, <1>9, <1>10, <1>11, <1>12, <1>13 DEF Kind

(* "The queue survives a restart": an accepted message is on disk, on the   *)
(* server, or was taken out, at every moment, whatever saves were rejected  *)
(* and whenever the client died.                                           *)
THEOREM DurableAlways == ASSUME AwaitRestore, NEW i, Inst = {i} PROVE Spec => []Durable
<1>1. Init => Keeps(i)
  BY DEF Init, Keeps, Stored, None
<1>2. Types /\ Keeps(i) /\ [Next]_vars => Keeps(i)'
  <2>1. ASSUME UNCHANGED vars, Keeps(i) PROVE Keeps(i)'
    BY <2>1 DEF vars, users, network, Keeps, Safe, Delivered
  <2> QED
    BY <2>1, KeepsStep, Kinds
<1>3. Keeps(i) => Durable
  BY DEF Keeps, Stored, Durable, Safe
<1> QED
  BY <1>1, <1>2, <1>3, TypesCorrect, PTL DEF Spec

-------------------------------------------------------------------------------
(* One instance: what is gone is not sent *)

(* A message that is gone is in no queue, saved or chained, and no send of *)
(* it is; one whose removal is still chained is in nothing chained after.  *)
Forgotten(dom, ws, q, out) ==
    /\ \A e \in out : /\ e \notin q /\ e \notin dom
                      /\ \A k \in DOMAIN ws : e \notin DOMAIN ws[k].snap /\ (ws[k].op = "send" => e \notin ws[k].ids)
    /\ \A k \in DOMAIN ws : Takes(ws[k]) =>
          \A e \in ws[k].ids :
             /\ e \notin dom
             /\ \A j \in DOMAIN ws : /\ j >= k => e \notin DOMAIN ws[j].snap
                                     /\ j > k /\ ws[j].op = "send" => e \notin ws[j].ids

LEMMA ForgottenAppend ==
    ASSUME NEW dom, NEW ws \in Seq(Write), NEW q, NEW out, Forgotten(dom, ws, q, out),
           NEW w \in Write, DOMAIN w.snap = dom,
           w.op = "send" => w.ids \subseteq dom, Takes(w) => \A e \in w.ids : e \notin dom
    PROVE  Forgotten(dom, Append(ws, w), q, out)
<1> DEFINE n == Append(ws, w)
           l == Len(ws) + 1
<1>1. /\ DOMAIN n = DOMAIN ws \cup {l} /\ l \in Nat \ DOMAIN ws /\ n[l] = w
      /\ \A k \in DOMAIN ws : n[k] = ws[k] /\ k \in Nat /\ k < l
  BY Appended
<1> HIDE DEF n, l
<1>2. ASSUME NEW e \in out
      PROVE  /\ e \notin q /\ e \notin dom
             /\ \A k \in DOMAIN n : e \notin DOMAIN n[k].snap /\ (n[k].op = "send" => e \notin n[k].ids)
  BY <1>1, <1>2 DEF Forgotten
<1>3. ASSUME NEW k \in DOMAIN n, Takes(n[k]), NEW e \in n[k].ids
      PROVE  /\ e \notin dom
             /\ \A j \in DOMAIN n : /\ j >= k => e \notin DOMAIN n[j].snap
                                    /\ j > k /\ n[j].op = "send" => e \notin n[j].ids
  <2>1. CASE k = l
    BY <1>1, <1>3, <2>1
  <2>2. CASE k \in DOMAIN ws
    BY <1>1, <1>3, <2>2 DEF Forgotten
  <2> QED
    BY <1>1, <2>1, <2>2
<1>4. Forgotten(dom, n, q, out)
  BY <1>2, <1>3 DEF Forgotten
<1> QED
  BY <1>4 DEF n

LEMMA ForgottenFlushes ==
    ASSUME NEW up \in BOOLEAN, NEW dom, NEW ws \in Seq(Write), NEW n, Flushes(up, dom, ws, n),
           NEW q, NEW out, Forgotten(dom, ws, q, out)
    PROVE  Forgotten(DOMAIN n.mem, n.writes, q, out)
<1>1. DOMAIN n.mem = dom
  BY DEF Flushes
<1>2. CASE n.writes = ws
  BY <1>1, <1>2
<1>3. CASE \E e \in dom, w \in Write : n.writes = Append(ws, w) /\ w.op = "send" /\ w.ids = {e} /\ DOMAIN w.snap = dom
  BY <1>1, <1>3, ForgottenAppend DEF Takes
<1> QED
  BY <1>2, <1>3 DEF Flushes

LEMMA ForgottenLands ==
    ASSUME NEW dom, NEW ws \in Seq(Write), ws # <<>>, NEW q, NEW out, Forgotten(dom, ws, q, out)
    PROVE  LET w == Head(ws) IN
           /\ Forgotten(dom, Tail(ws), DOMAIN w.snap, IF Takes(w) THEN out \cup w.ids ELSE out)
           /\ Forgotten(dom, Tail(ws), q, out)
           /\ w.op = "send" => \A e \in w.ids : e \notin out
<1> DEFINE w == Head(ws)
           t == Tail(ws)
           more == IF Takes(w) THEN out \cup w.ids ELSE out
<1>1. /\ \A k \in DOMAIN t : k \in Nat /\ k > 0 /\ k + 1 \in DOMAIN ws /\ t[k] = ws[k + 1]
      /\ 1 \in DOMAIN ws /\ w = ws[1]
      /\ \A j, k \in DOMAIN t : (j >= k <=> j + 1 >= k + 1) /\ (j > k <=> j + 1 > k + 1)
      /\ \A k \in DOMAIN t : k + 1 >= 1 /\ k + 1 > 1
      /\ 1 >= 1
  BY Tailed
<1> HIDE DEF w, t
<1>2. ASSUME NEW e \in out
      PROVE  /\ e \notin q /\ e \notin dom /\ e \notin DOMAIN w.snap /\ (w.op = "send" => e \notin w.ids)
             /\ \A k \in DOMAIN t : e \notin DOMAIN t[k].snap /\ (t[k].op = "send" => e \notin t[k].ids)
  BY <1>1, <1>2 DEF Forgotten
<1>3. ASSUME Takes(w), NEW e \in w.ids
      PROVE  /\ e \notin dom /\ e \notin DOMAIN w.snap
             /\ \A k \in DOMAIN t : e \notin DOMAIN t[k].snap /\ (t[k].op = "send" => e \notin t[k].ids)
  <2>1. Takes(ws[1]) /\ e \in ws[1].ids /\ 1 \in DOMAIN ws
    BY <1>1, <1>3
  <2>2. e \notin dom
        /\ \A j \in DOMAIN ws : /\ j >= 1 => e \notin DOMAIN ws[j].snap
                                /\ j > 1 /\ ws[j].op = "send" => e \notin ws[j].ids
    BY <2>1 DEF Forgotten
  <2>3. e \notin DOMAIN w.snap
    BY <1>1, <2>2
  <2>4. ASSUME NEW k \in DOMAIN t
        PROVE  e \notin DOMAIN t[k].snap /\ (t[k].op = "send" => e \notin t[k].ids)
    <3>1. k + 1 \in DOMAIN ws /\ t[k] = ws[k + 1] /\ k + 1 >= 1 /\ k + 1 > 1
      BY <1>1, <2>4
    <3> QED
      BY <2>2, <3>1
  <2> QED
    BY <2>2, <2>3, <2>4
<1>4. ASSUME NEW k \in DOMAIN t, Takes(t[k]), NEW e \in t[k].ids
      PROVE  /\ e \notin dom
             /\ \A j \in DOMAIN t : /\ j >= k => e \notin DOMAIN t[j].snap
                                    /\ j > k /\ t[j].op = "send" => e \notin t[j].ids
  BY <1>1, <1>4 DEF Forgotten
<1>5. Forgotten(dom, t, DOMAIN w.snap, more)
  <2>1. \A e : e \in more => e \in out \/ (Takes(w) /\ e \in w.ids)
    OBVIOUS
  <2> HIDE DEF more
  <2>2. ASSUME NEW e \in more
        PROVE  /\ e \notin DOMAIN w.snap /\ e \notin dom
               /\ \A k \in DOMAIN t : e \notin DOMAIN t[k].snap /\ (t[k].op = "send" => e \notin t[k].ids)
    BY <1>2, <1>3, <2>1, <2>2
  <2> QED
    BY <1>4, <2>2 DEF Forgotten
<1>6. Forgotten(dom, t, q, out)
  BY <1>2, <1>4 DEF Forgotten
<1> QED
  BY <1>2, <1>5, <1>6 DEF w, t

Forgets(i) == Forgotten(DOMAIN ob[i].mem, ob[i].writes, DOMAIN disk, gone)

LEMMA ForgetsStep ==
    ASSUME Types, NEW i \in Inst, Inst = {i}, Forgets(i),
           (\E j \in Inst : Only(j) /\ Kind(j)) \/ (\E e \in Entry : Reach(e))
    PROVE  Forgets(i)'
<1> DEFINE o == ob[i]
           n == ob'[i]
           ws == o.writes
           dom == DOMAIN o.mem
           q == DOMAIN disk
<1>1. /\ ws \in Seq(Write) /\ Len(roomOf) + 1 \notin DOMAIN roomOf
      /\ gone \subseteq DOMAIN roomOf
      /\ \A k \in DOMAIN ws : ws[k].ids \subseteq DOMAIN roomOf
  BY StepFinds
<1>2. Forgotten(dom, ws, q, gone)
  BY DEF Forgets
<1>3. ASSUME UNCHANGED <<disk, gone>>, Forgotten(DOMAIN n.mem, n.writes, q, gone)
      PROVE  Forgets(i)'
  BY <1>3 DEF Forgets
<1>4. ASSUME Idles(i) PROVE Forgets(i)'
  <2>1. Forgotten(DOMAIN n.mem, n.writes, q, gone)
    BY <1>1, <1>2, <1>4, ForgottenFlushes DEF Idles
  <2> QED
    BY <1>3, <1>4, <2>1 DEF Idles, users
<1>5. ASSUME Empties(i) PROVE Forgets(i)'
  <2>1. DOMAIN n.mem = {} /\ (n.writes = <<>> \/ n.writes = ws)
    BY <1>5 DEF Empties
  <2>2. Forgotten(DOMAIN n.mem, n.writes, q, gone)
    BY <1>2, <2>1 DEF Forgotten
  <2> QED
    BY <1>3, <1>5, <2>2 DEF Empties, users
<1>6. ASSUME Reloads(i) PROVE Forgets(i)'
  <2>1. Forgotten(q, <<>>, q, gone) /\ <<>> \in Seq(Write)
    BY <1>2 DEF Forgotten
  <2>2. Forgotten(DOMAIN n.mem, n.writes, q, gone)
    BY <1>6, <2>1, ForgottenFlushes DEF Reloads
  <2> QED
    BY <1>3, <1>6, <2>2 DEF Reloads, users
<1>7. ASSUME NEW some, NEW op, op # "send", NEW ids, Saves(i, some, op, ids), Forgotten(some, ws, q, gone),
             op \in {"remove", "removeRoom"} => \A e \in ids : e \notin some, UNCHANGED <<disk, gone>>
      PROVE  Forgets(i)'
  <2>1. PICK w \in Write : n.writes = Append(ws, w) /\ w.op = op /\ w.ids = ids /\ DOMAIN w.snap = some
    BY <1>7 DEF Saves
  <2>2. Forgotten(some, Append(ws, w), q, gone)
    BY <1>1, <1>7, <2>1, ForgottenAppend DEF Takes
  <2>3. DOMAIN n.mem = some
    BY <1>7 DEF Saves
  <2> QED
    BY <1>3, <1>7, <2>1, <2>2, <2>3
<1>8. ASSUME Queues(i) PROVE Forgets(i)'
  <2> DEFINE e == Len(roomOf) + 1
             some == dom \cup {e}
  <2>1. Saves(i, some, "enqueue", {e}) /\ UNCHANGED <<disk, gone>>
    BY <1>8 DEF Queues
  <2>2. e \notin gone /\ \A k \in DOMAIN ws : e \notin ws[k].ids
    BY <1>1
  <2> HIDE DEF e
  <2>3. Forgotten(some, ws, q, gone)
    BY <1>2, <2>2 DEF Forgotten
  <2> HIDE DEF some
  <2> QED
    BY <1>7, <2>1, <2>3
<1>9. ASSUME Alters(i) PROVE Forgets(i)'
  <2>1. PICK less \in SUBSET dom, op \in {"retry", "settle"}, ids \in SUBSET Entry : Saves(i, less, op, ids)
    BY <1>9 DEF Alters
  <2>2. Forgotten(less, ws, q, gone)
    BY <1>2, <2>1 DEF Forgotten
  <2> QED
    BY <1>7, <1>9, <2>1, <2>2 DEF Alters, users
<1>10. ASSUME TakesOut(i) PROVE Forgets(i)'
  <2>1. PICK ids \in SUBSET dom, op \in {"remove", "removeRoom"} : Saves(i, dom \ ids, op, ids)
    BY <1>10 DEF TakesOut
  <2>2. Forgotten(dom \ ids, ws, q, gone)
    BY <1>2 DEF Forgotten
  <2> QED
    BY <1>7, <1>10, <2>1, <2>2 DEF TakesOut
<1>11. ASSUME Lands(i) PROVE Forgets(i)'
  <2> DEFINE w == Head(ws)
             t == Tail(ws)
             s == DOMAIN w.snap
             more == IF Takes(w) THEN gone \cup w.ids ELSE gone
  <2>1. ws # <<>> /\ Flushes(o.phase = "up", dom, t, n) /\ disk' = w.snap /\ gone' = more
    BY <1>11 DEF Lands, Takes
  <2>2. t \in Seq(Write)
    BY <1>1, <2>1, Tailed
  <2>4. Forgotten(dom, t, s, more)
    <3> HIDE DEF dom, ws, q
    <3> QED
      BY <1>1, <1>2, <2>1, ForgottenLands
  <2> HIDE DEF more, w, s, t
  <2>3. Forgotten(DOMAIN n.mem, n.writes, s, more)
    BY <2>1, <2>2, <2>4, ForgottenFlushes
  <2> QED
    BY <2>1, <2>3 DEF Forgets, s
<1>12. ASSUME Refuses(i) PROVE Forgets(i)'
  <2>1. ws # <<>> /\ n.writes = Tail(ws) /\ DOMAIN n.mem \subseteq dom
    BY <1>12 DEF Refuses
  <2>2. Forgotten(dom, Tail(ws), q, gone)
    BY <1>1, <1>2, <2>1, ForgottenLands
  <2>3. Forgotten(DOMAIN n.mem, n.writes, q, gone)
    BY <2>1, <2>2 DEF Forgotten
  <2> QED
    BY <1>3, <1>12, <2>3 DEF Refuses, users
<1>13. ASSUME NEW e \in Entry, Reach(e) PROVE Forgets(i)'
  BY <1>13 DEF Reach, users, Forgets
<1> QED
  BY <1>4, <1>5, <1>6, <1>8, <1>9, <1>10, <1>11, <1>12, <1>13 DEF Kind

(* A request starts when the save before it lands.                         *)
LEMMA SendStarts ==
    ASSUME AwaitRestore, Types, Next, NEW i \in Inst, ob'[i].flush.pc = "send", ob'[i].flush # ob[i].flush
    PROVE  /\ ob[i].writes # <<>> /\ Head(ob[i].writes).op = "send"
           /\ ob'[i].flush.id \in Head(ob[i].writes).ids
<1> DEFINE known == DOMAIN roomOf
           starts == /\ ob[i].writes # <<>> /\ Head(ob[i].writes).op = "send"
                     /\ ob'[i].flush.id \in Head(ob[i].writes).ids
           kept == ob'[i].flush = ob[i].flush \/ ob'[i].flush.pc # "send" \/ starts
<1>1. /\ known \in SUBSET Entry /\ Shape(ob[i], known) /\ ob[i] \in Object
      /\ ob \in [Inst -> Object] /\ QueueOK(disk, Saved, known)
  BY KnownEntries DEF Types, Shapes
<1>2. SUFFICES kept
  OBVIOUS
<1> HIDE DEF known
<1>3. ASSUME NEW j \in Inst, j # i, NEW o, Become(j, o) PROVE kept
  BY <1>1, <1>3 DEF Become
<1>4. ASSUME NEW o, Become(i, o), o.flush = ob[i].flush \/ o.flush.pc # "send" PROVE kept
  BY <1>1, <1>4 DEF Become
<1> HIDE DEF kept
<1>5. ASSUME NEW n, Shape(n, known), n.flush = ob[i].flush, Become(i, Flush(n)) PROVE kept
  <2>1. Flush(n).flush = n.flush \/ Flush(n).flush.pc = "save"
    BY <1>1, <1>5, FlushEffect
  <2> QED
    BY <1>4, <1>5, <2>1
<1>6. ASSUME NEW n, n.flush = ob[i].flush, n \in Object, NEW op, NEW ids, Become(i, Persist(n, op, ids)) PROVE kept
  <2>1. Persist(n, op, ids).flush = n.flush
    BY <1>6 DEF Persist, Object
  <2> QED
    BY <1>4, <1>6, <2>1
<1>7. ASSUME Start(i) \/ dispose(i) \/ Crash(i) PROVE kept
  <2>1. PICK o \in {[None EXCEPT !.phase = "restoring"], [None EXCEPT !.phase = "disposed", !.writes = ob[i].writes], None} :
          Become(i, o)
    BY <1>7 DEF Start, dispose, Crash
  <2>2. o.flush = NotFlushing
    <3>1. CASE o = [None EXCEPT !.phase = "restoring"]
      BY <3>1 DEF None
    <3>2. CASE o = [None EXCEPT !.phase = "disposed", !.writes = ob[i].writes]
      BY <3>2 DEF None
    <3>3. CASE o = None
      BY <3>3 DEF None
    <3> QED
      BY <2>1, <3>1, <3>2, <3>3
  <2>3. o.flush.pc # "send"
    BY <2>2 DEF NotFlushing
  <2> QED
    BY <1>4, <2>1, <2>3
<1>8. ASSUME Restore(i) PROVE kept
  <2> DEFINE n == [ob[i] EXCEPT !.phase = "up", !.mem = Merged(ob[i].mem)]
  <2>1. Shape(n, known) /\ n.flush = ob[i].flush /\ Become(i, Flush(n))
    BY <1>1, <1>8, RestoreShape DEF Restore, Merged, Object
  <2> QED
    BY <1>5, <2>1
<1>9. ASSUME NEW online \in BOOLEAN, setOnline(i, online) PROVE kept
  <2> DEFINE n == [ob[i] EXCEPT !.online = online]
  <2>1. Shape(n, known) /\ n.flush = ob[i].flush
    BY <1>1 DEF Shape, Object
  <2>2. Become(i, Flush(n))
    BY <1>9 DEF setOnline
  <2> HIDE DEF n
  <2> QED
    BY <1>5, <2>1, <2>2
<1>10. ASSUME RetryTimer(i) PROVE kept
  <2> DEFINE n == [ob[i] EXCEPT !.timer = FALSE, !.mem = Released(@)]
  <2>1. Shape(n, known) /\ n.flush = ob[i].flush
    BY <1>1, TimerShape DEF Object
  <2>2. Become(i, Flush(n))
    BY <1>10 DEF RetryTimer
  <2> HIDE DEF n
  <2> QED
    BY <1>5, <2>1, <2>2
<1>11. ASSUME NEW mem, NEW op, NEW ids, Become(i, Persist([ob[i] EXCEPT !.mem = mem], op, ids)) PROVE kept
  <2> DEFINE n == [ob[i] EXCEPT !.mem = mem]
  <2>1. Persist(n, op, ids).flush = ob[i].flush
    BY <1>1 DEF Persist, Object
  <2> HIDE DEF n
  <2>2. Become(i, Persist(n, op, ids))
    BY <1>11 DEF n
  <2> QED
    BY <1>4, <2>1, <2>2
<1>12. ASSUME NEW r \in Room, enqueue(i, r) \/ removeRoom(i, r) PROVE kept
  BY <1>11, <1>12 DEF enqueue, removeRoom
<1>13. ASSUME NEW e \in Entry, retry(i, e) \/ remove(i, e) PROVE kept
  BY <1>11, <1>13 DEF retry, remove
<1>14. ASSUME Confirmed(i) \/ Unanswered(i) \/ Rejected(i) PROVE kept
  <2>1. PICK mem, timer : Answer(i, known, mem, timer)
    BY <1>1, <1>14, AnswerChanges
  <2> DEFINE m == [ob[i] EXCEPT !.mem = mem, !.timer = timer]
             n == [m EXCEPT !.flush.pc = "settle"]
             p == Persist(n, "settle", {})
  <2>2. Become(i, p)
    BY <2>1 DEF Answer, Answered
  <2>3. mem \in Queue(Held) /\ timer \in BOOLEAN
    BY <1>1, <2>1, QueueTypes DEF Answer
  <2>4. m \in Object
    BY <1>1, <2>3 DEF Object
  <2> HIDE DEF m
  <2>5. n.flush.pc = "settle" /\ p.flush = n.flush
    <3>1. n.flush.pc = "settle" /\ "flush" \in DOMAIN n
      BY <2>4 DEF Object, Flushing
    <3> HIDE DEF n
    <3> QED
      BY <3>1 DEF Persist
  <2> HIDE DEF p, n
  <2> QED
    BY <1>4, <2>2, <2>5
<1>15. ASSUME SaveLands(i) PROVE kept
  <2> DEFINE w == Head(ob[i].writes)
             n == Continue(i, w, Landed(ob[i]))
  <2>1. ob[i].writes # <<>> /\ Become(i, n)
    BY <1>15 DEF SaveLands, Landing, Landed
  <2>2. n.flush = ob[i].flush \/ n.flush.pc # "send" \/ (w.op = "send" /\ n.flush.id \in w.ids)
    BY <1>1, <2>1, ContinueEffect
  <2> HIDE DEF n
  <2>3. ob'[i] = n
    BY <1>1, <2>1 DEF Become
  <2> QED
    BY <2>1, <2>2, <2>3 DEF kept
<1>16. ASSUME SaveFails(i) PROVE kept
  <2> DEFINE w == Head(ob[i].writes)
             l == Landed(ob[i])
             n == Refuse(i, w, l)
  <2>1. ob[i].writes # <<>> /\ Become(i, n)
    BY <1>16 DEF SaveFails, Landing, Landed
  <2>2. Shape(l, known) /\ l.flush = ob[i].flush
    <3>1. Shape(ob[i], known) /\ known \in SUBSET Entry
      BY <1>1
    <3> HIDE DEF known
    <3> QED
      BY <2>1, <3>1, LandedShape
  <2> HIDE DEF l
  <2>3. n.flush = l.flush \/ n.flush = NotFlushing
    <3>1. \/ n = l
          \/ n = [l EXCEPT !.mem = Drop(@, w.ids)]
          \/ n = [l EXCEPT !.flush = NotFlushing]
      BY DEF Refuse
    <3>2. l \in Object
      BY <2>2 DEF Shape
    <3> HIDE DEF n, w
    <3> QED
      BY <3>1, <3>2 DEF Object
  <2> HIDE DEF n
  <2>4. n.flush = ob[i].flush \/ n.flush.pc # "send"
    BY <2>2, <2>3 DEF NotFlushing
  <2> QED
    BY <1>4, <2>1, <2>4
<1>17. ASSUME NEW j \in Inst, Run(j) \/ Environment(j) PROVE kept
  <2>1. CASE j = i
    BY <1>7, <1>8, <1>9, <1>10, <1>12, <1>13, <1>14, <1>15, <1>16, <1>17, <2>1 DEF Run, Environment
  <2>2. CASE j # i
    BY <1>3, <1>17, <2>2
       DEF Run, Environment, Start, Restore, setOnline, dispose, Crash, enqueue, retry, remove, removeRoom,
             SaveLands, SaveFails, Confirmed, Unanswered, Rejected, Answered, RetryTimer
  <2> QED
    BY <2>1, <2>2
<1>18. ASSUME NEW e \in Entry, Reach(e) PROVE kept
  BY <1>18 DEF Reach, kept
<1> QED
  BY <1>17, <1>18 DEF Next

(* No request starts for a message once its removal has resolved, also not *)
(* after a restart.                                                        *)
THEOREM GoneNeverSent == ASSUME AwaitRestore, NEW one, Inst = {one} PROVE Spec => GoneIsNeverSent
<1>1. Init => Forgets(one)
  BY DEF Init, Forgets, Forgotten, None
<1>2. Types /\ Forgets(one) /\ [Next]_vars => Forgets(one)'
  <2>1. ASSUME UNCHANGED vars, Forgets(one) PROVE Forgets(one)'
    BY <2>1 DEF vars, users, Forgets
  <2> QED
    BY <2>1, ForgetsStep, Kinds
<1>3. Types /\ Forgets(one) /\ [Next]_vars =>
        [\A i \in Inst, e \in gone :
           ob'[i].flush = [pc |-> "send", id |-> e] => ob[i].flush = [pc |-> "send", id |-> e]]_vars
  <2> SUFFICES ASSUME Types, Forgets(one), Next, NEW e \in gone, ob'[one].flush = [pc |-> "send", id |-> e],
                      ob[one].flush # [pc |-> "send", id |-> e]
               PROVE  FALSE
    OBVIOUS
  <2> DEFINE ws == ob[one].writes
  <2>1. ws # <<>> /\ Head(ws).op = "send" /\ ob'[one].flush.id \in Head(ws).ids /\ ob'[one].flush.id = e
    BY SendStarts
  <2>2. ws \in Seq(Write) /\ Forgotten(DOMAIN ob[one].mem, ws, DOMAIN disk, gone)
    BY StepFinds DEF Forgets
  <2> HIDE DEF ws
  <2>3. \A x \in Head(ws).ids : x \notin gone
    BY <2>1, <2>2, ForgottenLands
  <2> QED
    BY <2>1, <2>3
<1>4. Spec => [](Types /\ Forgets(one))
  BY <1>1, <1>2, TypesCorrect, PTL DEF Spec
<1> QED
  BY <1>3, <1>4, PTL DEF Spec, GoneIsNeverSent

-------------------------------------------------------------------------------
(* One instance: messages of a room arrive in order *)

(* Messages accepted, or whose enqueue() waits for its save; messages a    *)
(* chained save of flush() is about to send.                               *)
Due(ws, acc) == {e \in Entry : e \in acc \/ \E k \in DOMAIN ws : ws[k].op = "enqueue" /\ e \in ws[k].ids}
ToSend(ws)   == {e \in Entry : \E k \in DOMAIN ws : ws[k].op = "send" /\ e \in ws[k].ids}

(* All that are due before a message of the room are safe: it may be sent. *)
Clear(b, due, safe) == \A a \in due : a < b /\ roomOf[a] = roomOf[b] => a \in safe

LEMMA AppendDue ==
    ASSUME NEW ws \in Seq(Write), NEW w \in Write, NEW acc \in SUBSET Entry
    PROVE  /\ Due(Append(ws, w), acc) = Due(ws, acc) \cup (IF w.op = "enqueue" THEN w.ids ELSE {})
           /\ ToSend(Append(ws, w)) = ToSend(ws) \cup (IF w.op = "send" THEN w.ids ELSE {})
<1> DEFINE n == Append(ws, w)
           l == Len(ws) + 1
<1>1. /\ DOMAIN n = DOMAIN ws \cup {l} /\ n[l] = w /\ l \notin DOMAIN ws
      /\ \A k \in DOMAIN ws : n[k] = ws[k]
  BY Appended
<1>2. w.ids \subseteq Entry
  BY DEF Write
<1> HIDE DEF n, l
<1>3. \A op : \A e \in Entry : (\E k \in DOMAIN n : n[k].op = op /\ e \in n[k].ids)
                           <=> (\E k \in DOMAIN ws : ws[k].op = op /\ e \in ws[k].ids) \/ (w.op = op /\ e \in w.ids)
  BY <1>1
<1>4. Due(n, acc) = Due(ws, acc) \cup (IF w.op = "enqueue" THEN w.ids ELSE {})
  BY <1>2, <1>3 DEF Due
<1>5. ToSend(n) = ToSend(ws) \cup (IF w.op = "send" THEN w.ids ELSE {})
  BY <1>2, <1>3 DEF ToSend
<1> QED
  BY <1>4, <1>5 DEF n

LEMMA TailDue ==
    ASSUME NEW ws \in Seq(Write), ws # <<>>, NEW acc \in SUBSET Entry
    PROVE  LET w == Head(ws) IN
           /\ Due(Tail(ws), acc) \subseteq Due(ws, acc) /\ ToSend(Tail(ws)) \subseteq ToSend(ws)
           /\ w.op = "enqueue" => w.ids \subseteq Due(ws, acc) /\ Due(Tail(ws), acc \cup w.ids) \subseteq Due(ws, acc)
           /\ w.op = "send" => w.ids \subseteq ToSend(ws)
<1> DEFINE w == Head(ws)
           t == Tail(ws)
<1>1. /\ \A k \in DOMAIN t : k + 1 \in DOMAIN ws /\ t[k] = ws[k + 1]
      /\ 1 \in DOMAIN ws /\ w = ws[1] /\ w \in Write
  BY Tailed
<1>2. w.ids \subseteq Entry
  BY <1>1 DEF Write
<1> HIDE DEF w, t
<1>3. \A op : \A e \in Entry : (\E k \in DOMAIN t : t[k].op = op /\ e \in t[k].ids) => \E k \in DOMAIN ws : ws[k].op = op /\ e \in ws[k].ids
  BY <1>1
<1>4. \A e \in w.ids : \E k \in DOMAIN ws : ws[k].op = w.op /\ e \in ws[k].ids
  BY <1>1
<1>5. /\ Due(t, acc) \subseteq Due(ws, acc) /\ ToSend(t) \subseteq ToSend(ws)
      /\ w.op = "enqueue" => w.ids \subseteq Due(ws, acc) /\ Due(t, acc \cup w.ids) \subseteq Due(ws, acc)
      /\ w.op = "send" => w.ids \subseteq ToSend(ws)
  BY <1>2, <1>3, <1>4 DEF Due, ToSend
<1> QED
  BY <1>5 DEF w, t

LEMMA FlushesDue ==
    ASSUME NEW up \in BOOLEAN, NEW dom \in SUBSET Entry, NEW ws \in Seq(Write), NEW n, Flushes(up, dom, ws, n),
           NEW q, NEW acc \in SUBSET Entry, NEW safe, Stored(up, dom, ws, q, acc, safe)
    PROVE  /\ Due(n.writes, acc) = Due(ws, acc)
           /\ \A b \in ToSend(n.writes) : b \in ToSend(ws) \/ Clear(b, Due(ws, acc), safe)
<1>1. CASE n.writes = ws
  BY <1>1
<1>2. CASE up /\ \E e \in dom, w \in Write :
              /\ n.writes = Append(ws, w) /\ w.op = "send" /\ w.ids = {e}
              /\ \A h \in dom : roomOf[h] = roomOf[e] => e <= h
  <2>1. PICK e \in dom, w \in Write :
              /\ n.writes = Append(ws, w) /\ w.op = "send" /\ w.ids = {e}
              /\ \A h \in dom : roomOf[h] = roomOf[e] => e <= h
    BY <1>2
  <2>2. Due(n.writes, acc) = Due(ws, acc) /\ ToSend(n.writes) = ToSend(ws) \cup {e}
    <3>1. /\ Due(Append(ws, w), acc) = Due(ws, acc) \cup (IF w.op = "enqueue" THEN w.ids ELSE {})
          /\ ToSend(Append(ws, w)) = ToSend(ws) \cup (IF w.op = "send" THEN w.ids ELSE {})
      BY AppendDue
    <3> QED
      BY <2>1, <3>1
  <2>3. ASSUME NEW a \in Due(ws, acc), a \notin safe PROVE a \in dom
    <3>1. CASE a \in acc
      BY <1>2, <2>3, <3>1 DEF Stored
    <3>2. CASE \E k \in DOMAIN ws : ws[k].op = "enqueue" /\ a \in ws[k].ids
      BY <1>2, <2>3, <3>2 DEF Stored
    <3> QED
      BY <2>3, <3>1, <3>2 DEF Due
  <2>4. Clear(e, Due(ws, acc), safe)
    <3> SUFFICES ASSUME NEW a \in Due(ws, acc), a < e, roomOf[a] = roomOf[e], a \notin safe PROVE FALSE
      BY DEF Clear
    <3>1. a \in dom /\ e \in dom
      BY <2>3
    <3>2. e <= a
      BY <2>1, <3>1
    <3>3. a \in Nat /\ e \in Nat
      BY <3>1, OutboxAssumption DEF Entry
    <3> QED
      BY <3>2, <3>3
  <2> QED
    BY <2>2, <2>4
<1> QED
  BY <1>1, <1>2 DEF Flushes

DueIn(i)  == Due(ob[i].writes, accepted)
SentIn(i) == inflight \cup Delivered \cup ToSend(ob[i].writes)

(* What is sent, or about to be, is clear of older messages of its room;   *)
(* and the log has them in that order.                                     *)
Orders(i) ==
    /\ \A b \in SentIn(i) : Clear(b, DueIn(i), Safe)
    /\ \A b \in Delivered : \A a \in DueIn(i) : a < b /\ roomOf[a] = roomOf[b] => a \in removed \/ Before(a, b)

(* Any step but that of the server or enqueue(): no new message is due,    *)
(* and one that is newly sent is clear.                                    *)
LEMMA DueStep ==
    ASSUME Types, NEW i \in Inst, Keeps(i), Kind(i), ~Queues(i)
    PROVE  /\ UNCHANGED <<roomOf, log>> /\ removed \subseteq removed'
           /\ DueIn(i)' \subseteq DueIn(i)
           /\ \A b \in SentIn(i)' : b \in SentIn(i) \/ Clear(b, DueIn(i)', Safe)
<1> DEFINE o == ob[i]
           n == ob'[i]
           ws == o.writes
           dom == DOMAIN o.mem
           q == DOMAIN disk
           due == DueIn(i)
           step == /\ UNCHANGED <<roomOf, log>> /\ removed \subseteq removed'
                   /\ DueIn(i)' \subseteq due
                   /\ \A b \in SentIn(i)' : b \in SentIn(i) \/ Clear(b, DueIn(i)', Safe)
<1>1. /\ ws \in Seq(Write) /\ dom \in SUBSET Entry /\ accepted \in SUBSET Entry /\ q \in SUBSET Entry
      /\ Stored(o.phase = "up", dom, ws, q, accepted, Safe)
      /\ <<>> \in Seq(Write)
  BY StepFinds, KnownEntries DEF Keeps, Types, QueueOK
<1>2. ASSUME UNCHANGED <<roomOf, log>>, removed \subseteq removed', inflight' \subseteq SentIn(i),
             Due(n.writes, accepted') \subseteq due,
             \A b \in ToSend(n.writes) : b \in SentIn(i) \/ Clear(b, Due(n.writes, accepted'), Safe)
      PROVE  step
  BY <1>2 DEF DueIn, SentIn, Delivered
<1>3. ToSend(ws) \subseteq SentIn(i) /\ inflight \subseteq SentIn(i) /\ due = Due(ws, accepted)
  BY DEF SentIn, DueIn
<1>4. (o.phase = "up") \in BOOLEAN
  OBVIOUS
<1> HIDE DEF due, step
<1>5. ASSUME Idles(i) PROVE step
  <2>2. Flushes(o.phase = "up", dom, ws, n)
    BY <1>5 DEF Idles
  <2>1. Due(n.writes, accepted) = due /\ \A b \in ToSend(n.writes) : b \in ToSend(ws) \/ Clear(b, due, Safe)
    <3> DEFINE up == o.phase = "up"
    <3> HIDE DEF n, ws, dom, q
    <3>1. up \in BOOLEAN /\ Flushes(up, dom, ws, n) /\ Stored(up, dom, ws, q, accepted, Safe)
      BY <1>1, <1>4, <2>2
    <3> HIDE DEF up
    <3> QED
      BY <1>1, <1>3, <3>1, FlushesDue
  <2> QED
    BY <1>2, <1>3, <1>5, <2>1 DEF Idles, users, network
<1>6. ASSUME Empties(i) PROVE step
  <2>1. Due(<<>>, accepted) \subseteq due /\ ToSend(<<>>) = {}
    BY <1>3 DEF Due, ToSend
  <2>2. Due(n.writes, accepted) \subseteq due /\ ToSend(n.writes) \subseteq ToSend(ws)
    BY <1>3, <1>6, <2>1 DEF Empties
  <2> QED
    BY <1>2, <1>3, <1>6, <2>2 DEF Empties, users, network
<1>7. ASSUME Reloads(i) PROVE step
  <2>1. Due(<<>>, accepted) = accepted /\ accepted \subseteq due /\ ToSend(<<>>) = {}
    BY <1>1, <1>3 DEF Due, ToSend
  <2>2. Stored(TRUE, q, <<>>, q, accepted, Safe)
    BY <1>1 DEF Stored
  <2>3. Due(n.writes, accepted) = accepted /\ \A b \in ToSend(n.writes) : Clear(b, accepted, Safe)
    <3>1. Flushes(TRUE, q, <<>>, n)
      BY <1>7 DEF Reloads
    <3> HIDE DEF n, q
    <3>2. Due(n.writes, accepted) = Due(<<>>, accepted)
          /\ \A b \in ToSend(n.writes) : b \in ToSend(<<>>) \/ Clear(b, Due(<<>>, accepted), Safe)
      BY <1>1, <2>2, <3>1, FlushesDue
    <3> QED
      BY <2>1, <3>2
  <2>4. due = accepted
    BY <1>3, <1>7, <2>1 DEF Reloads
  <2> QED
    BY <1>2, <1>3, <1>7, <2>3, <2>4 DEF Reloads, users, network
<1>8. ASSUME NEW some, NEW op, NEW ids, op \notin {"enqueue", "send"}, Saves(i, some, op, ids)
      PROVE  Due(n.writes, accepted) = due /\ ToSend(n.writes) = ToSend(ws)
  <2>1. PICK w \in Write : n.writes = Append(ws, w) /\ w.op = op
    BY <1>8 DEF Saves
  <2>2. /\ Due(Append(ws, w), accepted) = Due(ws, accepted) \cup (IF w.op = "enqueue" THEN w.ids ELSE {})
        /\ ToSend(Append(ws, w)) = ToSend(ws) \cup (IF w.op = "send" THEN w.ids ELSE {})
    BY <1>1, AppendDue
  <2> QED
    BY <1>3, <1>8, <2>1, <2>2
<1>9. ASSUME Alters(i) PROVE step
  <2>1. Due(n.writes, accepted) = due /\ ToSend(n.writes) = ToSend(ws)
    BY <1>8, <1>9 DEF Alters
  <2> QED
    BY <1>2, <1>3, <1>9, <2>1 DEF Alters, users, network
<1>10. ASSUME TakesOut(i) PROVE step
  <2>1. Due(n.writes, accepted) = due /\ ToSend(n.writes) = ToSend(ws)
    BY <1>8, <1>10 DEF TakesOut
  <2> QED
    BY <1>2, <1>3, <1>10, <2>1 DEF TakesOut, network
<1>11. ASSUME Lands(i) PROVE step
  <2> DEFINE w == Head(ws)
             t == Tail(ws)
  <2>1. /\ ws # <<>> /\ Flushes(o.phase = "up", dom, t, n)
        /\ inflight' = inflight \/ (w.op = "send" /\ inflight' = inflight \cup w.ids)
        /\ accepted' = IF w.op = "enqueue" THEN accepted \cup w.ids ELSE accepted
        /\ UNCHANGED <<roomOf, removed, log>>
    BY <1>11 DEF Lands
  <2>2. /\ Due(t, accepted) \subseteq due /\ ToSend(t) \subseteq ToSend(ws)
        /\ w.op = "enqueue" => w.ids \subseteq due /\ Due(t, accepted \cup w.ids) \subseteq due
        /\ w.op = "send" => w.ids \subseteq ToSend(ws)
    BY <1>1, <1>3, <2>1, TailDue
  <2>3. t \in Seq(Write) /\ w \in Write
    BY <1>1, <2>1, Tailed
  <2>4. Stored(o.phase = "up", dom, t, DOMAIN w.snap, accepted', Safe)
    BY <1>1, <2>1, StoredLands
  <2>5. accepted' \in SUBSET Entry
    BY <1>1, <2>1, <2>3 DEF Write
  <2> HIDE DEF w, t
  <2>6. Due(n.writes, accepted') = Due(t, accepted') /\ \A b \in ToSend(n.writes) : b \in ToSend(t) \/ Clear(b, Due(t, accepted'), Safe)
    <3> DEFINE up == o.phase = "up"
               acc == accepted'
               s == DOMAIN w.snap
    <3> HIDE DEF n, dom, s
    <3>1. up \in BOOLEAN /\ Flushes(up, dom, t, n) /\ Stored(up, dom, t, s, acc, Safe) /\ acc \in SUBSET Entry
      BY <1>4, <2>1, <2>4, <2>5 DEF s
    <3> HIDE DEF up, acc
    <3>2. Due(n.writes, acc) = Due(t, acc) /\ \A b \in ToSend(n.writes) : b \in ToSend(t) \/ Clear(b, Due(t, acc), Safe)
      BY <1>1, <2>3, <3>1, FlushesDue
    <3> QED
      BY <3>2 DEF acc
  <2>7. Due(t, accepted') \subseteq due
    BY <2>1, <2>2
  <2>8. inflight' \subseteq SentIn(i)
    BY <1>3, <2>1, <2>2
  <2>9. \A b \in ToSend(n.writes) : b \in SentIn(i) \/ Clear(b, Due(n.writes, accepted'), Safe)
    BY <1>3, <2>2, <2>6
  <2> QED
    BY <1>2, <2>1, <2>6, <2>7, <2>8, <2>9
<1>12. ASSUME Refuses(i) PROVE step
  <2>1. ws # <<>> /\ n.writes = Tail(ws) /\ UNCHANGED <<disk, users, network>>
    BY <1>12 DEF Refuses
  <2>2. Due(Tail(ws), accepted) \subseteq due /\ ToSend(Tail(ws)) \subseteq ToSend(ws)
    BY <1>1, <1>3, <2>1, TailDue
  <2> QED
    BY <1>2, <1>3, <2>1, <2>2 DEF users, network
<1> QED
  BY <1>5, <1>6, <1>7, <1>9, <1>10, <1>11, <1>12 DEF Kind, step, due

LEMMA OrdersStep ==
    ASSUME Types, NEW i \in Inst, Inst = {i}, Keeps(i), Orders(i),
           (\E j \in Inst : Only(j) /\ Kind(j)) \/ (\E e \in Entry : Reach(e))
    PROVE  Orders(i)'
<1> DEFINE known == DOMAIN roomOf
           ws == ob[i].writes
           clear(b, a) == a < b /\ roomOf[a] = roomOf[b] => a \in Safe
           logged(b, a) == a < b /\ roomOf[a] = roomOf[b] => a \in removed \/ Before(a, b)
<1>1. /\ \A b \in SentIn(i), a \in DueIn(i) : clear(b, a)
      /\ \A b \in Delivered, a \in DueIn(i) : logged(b, a)
  BY DEF Orders, Clear
<1>2. SUFFICES /\ \A b \in SentIn(i)', a \in DueIn(i)' : clear(b, a)'
               /\ \A b \in Delivered', a \in DueIn(i)' : logged(b, a)'
  BY DEF Orders, Clear
<1>3. CASE Kind(i) /\ ~Queues(i)
  <2>1. /\ UNCHANGED <<roomOf, log>> /\ removed \subseteq removed' /\ DueIn(i)' \subseteq DueIn(i)
        /\ \A b \in SentIn(i)' : b \in SentIn(i) \/ Clear(b, DueIn(i)', Safe)
    BY <1>3, DueStep
  <2>2. Safe \subseteq Safe' /\ Delivered' = Delivered
    BY <2>1 DEF Safe, Delivered
  <2>3. ASSUME NEW b \in SentIn(i)', NEW a \in DueIn(i)', a < b, roomOf'[a] = roomOf'[b] PROVE a \in Safe'
    <3>1. CASE b \in SentIn(i)
      BY <1>1, <2>1, <2>2, <2>3, <3>1
    <3>2. CASE Clear(b, DueIn(i)', Safe)
      BY <2>1, <2>2, <2>3, <3>2 DEF Clear
    <3> QED
      BY <2>1, <2>3, <3>1, <3>2
  <2>4. ASSUME NEW b \in Delivered', NEW a \in DueIn(i)', a < b, roomOf'[a] = roomOf'[b]
        PROVE  a \in removed' \/ Before(a, b)'
    <3>1. a \in removed \/ Before(a, b)
      BY <1>1, <2>1, <2>2, <2>4
    <3> QED
      BY <2>1, <3>1 DEF Before
  <2> QED
    BY <2>3, <2>4
<1>4. /\ ws \in Seq(Write) /\ known = 1..Len(roomOf) /\ Len(roomOf) \in Nat /\ known \subseteq Entry
      /\ inflight \cup Delivered \cup accepted \subseteq known /\ log \in Seq(Entry) /\ roomOf \in Seq(Room)
      /\ \A k \in DOMAIN ws : ws[k].ids \subseteq known
  BY StepFinds, KnownEntries DEF Types
<1>5. SentIn(i) \subseteq known /\ DueIn(i) \subseteq known
  BY <1>4 DEF SentIn, DueIn, Due, ToSend
<1>6. CASE Queues(i)
  <2> DEFINE e == Len(roomOf) + 1
  <2>1. PICK r \in Room : roomOf' = Append(roomOf, r)
    BY <1>6 DEF Queues
  <2>2. PICK w \in Write : ob'[i].writes = Append(ws, w) /\ w.op = "enqueue" /\ w.ids = {e}
    BY <1>6 DEF Queues, Saves
  <2>3. UNCHANGED <<inflight, log, accepted, removed>>
    BY <1>6 DEF Queues, network
  <2>4. /\ Due(Append(ws, w), accepted) = Due(ws, accepted) \cup (IF w.op = "enqueue" THEN w.ids ELSE {})
        /\ ToSend(Append(ws, w)) = ToSend(ws) \cup (IF w.op = "send" THEN w.ids ELSE {})
    BY <1>4, AppendDue
  <2>5. DueIn(i)' = DueIn(i) \cup {e} /\ SentIn(i)' = SentIn(i) /\ Delivered' = Delivered /\ Safe' = Safe
    BY <2>2, <2>3, <2>4 DEF DueIn, SentIn, Safe, Delivered
  <2>6. /\ \A x \in known : roomOf'[x] = roomOf[x]
        /\ \A x \in known : ~(e < x)
        /\ Delivered \subseteq known
    BY <1>4, <2>1, Appended
  <2>7. \A a, b : Before(a, b)' = Before(a, b)
    BY <2>3 DEF Before
  <2> HIDE DEF known, e
  <2>8. ASSUME NEW b \in SentIn(i), NEW a \in DueIn(i) \cup {e}, a < b, roomOf'[a] = roomOf'[b] PROVE a \in Safe
    BY <1>1, <1>5, <2>6, <2>8
  <2>9. ASSUME NEW b \in Delivered, NEW a \in DueIn(i) \cup {e}, a < b, roomOf'[a] = roomOf'[b]
        PROVE  a \in removed \/ Before(a, b)
    BY <1>1, <1>5, <2>6, <2>9
  <2> QED
    BY <2>3, <2>5, <2>7, <2>8, <2>9
<1>7. CASE \E e \in Entry : Reach(e)
  <2>1. PICK e \in Entry : Reach(e)
    BY <1>7
  <2>2. /\ UNCHANGED <<ob, roomOf, accepted, removed>> /\ e \in inflight /\ inflight' = inflight \ {e}
        /\ log' = IF e \in Delivered THEN log ELSE Append(log, e)
    BY <2>1 DEF Reach, users
  <2>3. DueIn(i)' = DueIn(i)
    BY <2>2 DEF DueIn
  <2>4. /\ Delivered' = Delivered \cup {e}
        /\ \A a, b : Before(a, b) => Before(a, b)'
        /\ e \notin Delivered => \A a \in Delivered : Before(a, e)'
    <3>1. CASE e \in Delivered
      BY <2>2, <3>1 DEF Delivered, Before
    <3>2. CASE e \notin Delivered
      <4> DEFINE n == Append(log, e)
                 l == Len(log) + 1
      <4>1. /\ DOMAIN n = DOMAIN log \cup {l} /\ n[l] = e /\ l \in Nat
            /\ \A k \in DOMAIN log : n[k] = log[k] /\ k < l
        BY <1>4, Appended
      <4>2. log' = n
        BY <2>2, <3>2
      <4> HIDE DEF n, l
      <4>3. Delivered' = Delivered \cup {e}
        BY <4>1, <4>2 DEF Delivered
      <4>4. \A a, b : Before(a, b) => Before(a, b)'
        BY <4>1, <4>2 DEF Before
      <4>5. ASSUME NEW a \in Delivered PROVE Before(a, e)'
        <5>1. PICK k \in DOMAIN log : log[k] = a
          BY DEF Delivered
        <5> QED
          BY <4>1, <4>2, <5>1 DEF Before
      <4> QED
        BY <4>3, <4>4, <4>5
    <3> QED
      BY <3>1, <3>2
  <2>5. SentIn(i)' \subseteq SentIn(i) /\ e \in SentIn(i) /\ Safe \subseteq Safe'
    BY <2>2, <2>4 DEF SentIn, Safe
  <2>6. ASSUME NEW b \in Delivered', NEW a \in DueIn(i), a < b, roomOf[a] = roomOf[b]
        PROVE  a \in removed \/ Before(a, b)'
    <3>1. CASE b \in Delivered
      BY <1>1, <2>4, <2>6, <3>1
    <3>2. CASE b = e /\ e \notin Delivered
      <4>1. a \in removed \/ a \in Delivered
        BY <1>1, <2>5, <2>6, <3>2 DEF Safe
      <4> QED
        BY <2>4, <3>2, <4>1
    <3> QED
      BY <2>4, <2>6, <3>1, <3>2
  <2>7. ASSUME NEW b \in SentIn(i)', NEW a \in DueIn(i), a < b, roomOf[a] = roomOf[b] PROVE a \in Safe'
    BY <1>1, <2>5, <2>7
  <2> QED
    BY <2>2, <2>3, <2>6, <2>7
<1> QED
  BY <1>3, <1>6, <1>7

(* "Entries flush FIFO per room": none overtakes an older accepted message *)
(* of its room that is held, failed, or restored after a restart.          *)
THEOREM FifoAlways == ASSUME AwaitRestore, NEW i, Inst = {i} PROVE Spec => []FifoPerRoom
<1>1. Init => Keeps(i) /\ Orders(i)
  BY DEF Init, Keeps, Stored, None, Orders, SentIn, DueIn, Due, ToSend, Clear, Delivered
<1>2. Types /\ Keeps(i) /\ Orders(i) /\ [Next]_vars => (Keeps(i) /\ Orders(i))'
  <2>1. ASSUME UNCHANGED vars, Keeps(i), Orders(i) PROVE (Keeps(i) /\ Orders(i))'
    BY <2>1 DEF vars, users, network, Keeps, Safe, Delivered, Orders, SentIn, DueIn, Clear, Before
  <2> QED
    BY <2>1, KeepsStep, OrdersStep, Kinds
<1>3. Types /\ Orders(i) => FifoPerRoom
  <2> SUFFICES ASSUME Types, Orders(i), NEW b \in Delivered, NEW a \in accepted \ removed, a < b, roomOf[a] = roomOf[b]
               PROVE  Before(a, b)
    BY DEF FifoPerRoom
  <2>1. a \in DueIn(i)
    BY KnownEntries DEF Types, DueIn, Due
  <2> QED
    BY <2>1 DEF Orders
<1> QED
  BY <1>1, <1>2, <1>3, TypesCorrect, PTL DEF Spec
=============================================================================
