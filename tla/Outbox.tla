--------------------------------- MODULE Outbox ---------------------------------
(***************************************************************************)
(* The offline outbox of a client (packages/chat-core/src/outbox.ts): a    *)
(* queue of composed messages, kept in memory and saved as a whole through *)
(* the CacheAdapter, whose head of each room is sent over HTTP.            *)
(*                                                                         *)
(* One instance is one `Outbox` object.  Instances share the saved queue:  *)
(* two browser tabs of one user, or the object a mobile room screen has    *)
(* disposed of and the one the next screen creates.  JavaScript runs a     *)
(* handler without interruption up to its next await, so an action is the  *)
(* code between two awaits, `void this.flush()` included.  Saves of one    *)
(* instance are chained and land in order; what awaits a save runs when it *)
(* lands.  The server is the RoomLog: it accepts a client_message_id once. *)
(***************************************************************************)
EXTENDS Naturals, Sequences, FiniteSets

CONSTANTS Inst,          \* Outbox objects that may exist at the same time
          Room,
          MaxEntries,    \* bound: messages composed
          MaxAttempts,   \* OutboxOptions.maxAttempts
          MaxRestarts,   \* bound: instances that die or are disposed of
          MaxRetries,    \* bound: manual retries of failed messages
          SaveMayFail,   \* saveOutbox() may reject
          AwaitRestore   \* enqueue() waits for restore(): the web composer does

ASSUME OutboxAssumption ==
    /\ MaxEntries \in Nat /\ MaxAttempts \in Nat \ {0} /\ MaxRestarts \in Nat /\ MaxRetries \in Nat
    /\ SaveMayFail \in BOOLEAN /\ AwaitRestore \in BOOLEAN

VARIABLES
    ob,        \* per instance: its fields, and what it is waiting for
    disk,      \* the saved queue
    roomOf,    \* the room of each message composed so far
    inflight,  \* messages a request for which may yet reach the server
    log,       \* the server's messages, in the order of their seq
    accepted,  \* messages whose enqueue() resolved
    removed,   \* messages remove() or removeRoom() took out
    gone,      \* ... and resolved
    restarts,  \* how often an instance died
    retries    \* how often the user retried

network == <<inflight, log>>
users   == <<roomOf, accepted, removed, gone>>
bounds  == <<restarts, retries>>
vars    == <<ob, disk, users, network, bounds>>

-------------------------------------------------------------------------------
(* Types.  Messages are numbered in the order they are composed, which is  *)
(* the order byOrder gives them.                                           *)

Entry == 1..MaxEntries
Queue(rec) == UNION {[ids -> rec] : ids \in SUBSET Entry}

Status == {"pending", "sending", "failed"}
Saved  == [status : Status, attempts : 0..MaxAttempts]
Held   == [status : Status, attempts : 0..MaxAttempts, hold : BOOLEAN]

(* A save under way, and what runs once it has landed. *)
Write == [snap : Queue(Saved), op : {"enqueue", "send", "settle", "retry", "remove", "removeRoom"},
          ids : SUBSET Entry]

(* flush(): waiting for the save before a send, for the answer, for the    *)
(* save after it.                                                          *)
Flushing == [pc : {"idle", "save", "send", "settle"}, id : Entry \cup {0}]
NotFlushing == [pc |-> "idle", id |-> 0]

Object == [phase : {"none", "restoring", "up", "disposed"}, mem : Queue(Held), writes : Seq(Write),
           flush : Flushing, timer : BOOLEAN, online : BOOLEAN]

NoQueue == [e \in {} |-> 0]
None == [phase |-> "none", mem |-> NoQueue, writes |-> <<>>, flush |-> NotFlushing,
         timer |-> FALSE, online |-> FALSE]

Delivered == {log[k] : k \in DOMAIN log}

TypeOK ==
    /\ ob \in [Inst -> Object]
    /\ disk \in Queue(Saved)
    /\ Len(roomOf) <= MaxEntries /\ \A e \in DOMAIN roomOf : roomOf[e] \in Room
    /\ inflight \subseteq DOMAIN roomOf
    /\ Delivered \subseteq DOMAIN roomOf
    /\ accepted \cup removed \subseteq DOMAIN roomOf /\ gone \subseteq removed

Init ==
    /\ ob = [i \in Inst |-> None]
    /\ disk = NoQueue
    /\ roomOf = <<>>
    /\ inflight = {} /\ log = <<>>
    /\ accepted = {} /\ removed = {} /\ gone = {}
    /\ restarts = 0 /\ retries = 0

-------------------------------------------------------------------------------
(* Helpers on the fields of one instance *)

Drop(q, ids) == [e \in DOMAIN q \ ids |-> q[e]]
Snapshot(mem) == [e \in DOMAIN mem |-> [status |-> mem[e].status, attempts |-> mem[e].attempts]]

(* persist(): the save joins the chain with the queue as it is now. *)
Persist(o, op, ids) == [o EXCEPT !.writes = Append(@, [snap |-> Snapshot(o.mem), op |-> op, ids |-> ids])]

(* Mutant: an entry waiting for the timer does not block its room. *)
PendingSkipsHeld(mem) == {e \in DOMAIN mem : mem[e].status = "pending" /\ ~mem[e].hold}

(* The head of each room, if it is pending and not waiting for the timer.  *)
pendingQueue(mem) ==
    {e \in DOMAIN mem :
        /\ mem[e].status = "pending" /\ ~mem[e].hold
        /\ \A h \in DOMAIN mem : roomOf[h] = roomOf[e] => e <= h}

Oldest(ids) == CHOOSE e \in ids : \A f \in ids : e <= f

(* flush(), up to its first await: the oldest sendable entry is marked and *)
(* the queue saved.  Also one turn of its loop.                            *)
Flush(o) ==
    LET queue == pendingQueue(o.mem)
        e == Oldest(queue)
    IN IF o.phase \in {"restoring", "up"} /\ o.online /\ o.flush = NotFlushing /\ queue # {}
       THEN Persist([o EXCEPT !.mem[e].status = "sending", !.flush = [pc |-> "save", id |-> e]],
                    "send", {e})
       ELSE o

Become(i, o) == ob' = [ob EXCEPT ![i] = o]
Alive(i) == ob[i].phase \in {"restoring", "up"}

-------------------------------------------------------------------------------
(* Life of an instance *)

(* new Outbox(cache), and restore() as far as its await of loadOutbox().   *)
Start(i) ==
    /\ ob[i] = None \/ (ob[i].phase = "disposed" /\ ob[i].writes = <<>>)
    /\ Become(i, [None EXCEPT !.phase = "restoring"])
    /\ UNCHANGED <<disk, users, network, bounds>>

(* The saved entries as restore() takes them over. *)
RestoredAsSaved(q) == [e \in DOMAIN q |-> [status |-> q[e].status, attempts |-> q[e].attempts, hold |-> FALSE]]
Restored(q) ==
    [e \in DOMAIN q |-> [status |-> IF q[e].status = "sending" THEN "pending" ELSE q[e].status,
                         attempts |-> q[e].attempts, hold |-> FALSE]]

(* loadOutbox() resolves: what it read joins the entries queued meanwhile. *)
Restore(i) ==
    LET o == ob[i]
        loaded == Restored(Drop(disk, DOMAIN o.mem))
        mem == [e \in DOMAIN o.mem \cup DOMAIN loaded |-> IF e \in DOMAIN o.mem THEN o.mem[e] ELSE loaded[e]]
    IN /\ o.phase = "restoring"
       /\ Become(i, Flush([o EXCEPT !.phase = "up", !.mem = mem]))
       /\ UNCHANGED <<disk, users, network, bounds>>

setOnline(i, online) ==
    /\ Alive(i)
    /\ ob[i].online # online
    /\ Become(i, Flush([ob[i] EXCEPT !.online = online]))
    /\ UNCHANGED <<disk, users, network, bounds>>

(* dispose(): nothing further is saved or sent, but chained saves land and *)
(* a request under way reaches the server or not.                          *)
dispose(i) ==
    /\ Alive(i)
    /\ restarts < MaxRestarts
    /\ restarts' = restarts + 1
    /\ Become(i, [None EXCEPT !.phase = "disposed", !.writes = ob[i].writes])
    /\ UNCHANGED <<disk, users, network, retries>>

(* The tab or the app is killed: saves that have not landed never do.      *)
Crash(i) ==
    /\ ob[i] # None
    /\ restarts < MaxRestarts
    /\ restarts' = restarts + 1
    /\ Become(i, None)
    /\ UNCHANGED <<disk, users, network, retries>>

-------------------------------------------------------------------------------
(* What the user does *)

(* enqueue(), as far as its await of the save. *)
enqueue(i, r) ==
    LET e == Len(roomOf) + 1 IN
    /\ Alive(i)
    /\ AwaitRestore => ob[i].phase = "up"
    /\ e <= MaxEntries
    /\ roomOf' = Append(roomOf, r)
    /\ Become(i, Persist([ob[i] EXCEPT !.mem = [x \in DOMAIN @ \cup {e} |->
                              IF x = e THEN [status |-> "pending", attempts |-> 0, hold |-> FALSE]
                                       ELSE @[x]]],
                         "enqueue", {e}))
    /\ UNCHANGED <<disk, network, accepted, removed, gone, bounds>>

retry(i, e) ==
    /\ Alive(i)
    /\ e \in DOMAIN ob[i].mem
    /\ ob[i].mem[e].status = "failed"
    /\ Become(i, Persist([ob[i] EXCEPT !.mem[e] = [@ EXCEPT !.status = "pending", !.attempts = 0]], "retry", {e}))
    /\ retries < MaxRetries
    /\ retries' = retries + 1
    /\ UNCHANGED <<disk, users, network, restarts>>

(* remove(); the button is not offered once the view has seen "sending".   *)
remove(i, e) ==
    /\ Alive(i)
    /\ e \in DOMAIN ob[i].mem
    /\ ob[i].flush # [pc |-> "send", id |-> e]
    /\ removed' = removed \cup {e}
    /\ Become(i, Persist([ob[i] EXCEPT !.mem = Drop(@, {e})], "remove", {e}))
    /\ UNCHANGED <<disk, network, roomOf, accepted, gone, bounds>>

(* removeRoom(), when the room is deleted or expires: also what is in      *)
(* flight goes, and no flush follows.                                      *)
removeRoom(i, r) ==
    LET ids == {e \in DOMAIN ob[i].mem : roomOf[e] = r} IN
    /\ Alive(i)
    /\ ids # {}
    /\ removed' = removed \cup ids
    /\ Become(i, Persist([ob[i] EXCEPT !.mem = Drop(@, ids)], "removeRoom", ids))
    /\ UNCHANGED <<disk, network, roomOf, accepted, gone, bounds>>

-------------------------------------------------------------------------------
(* The chain of saves *)

Landing(i) ==
    /\ ob[i].writes # <<>>
    /\ UNCHANGED <<roomOf, removed, log, bounds>>

(* Mutant: a flush ends after one entry, as if enqueue() always started    *)
(* the next.                                                               *)
ContinueOnce(i, w, o) ==
    IF ~Alive(i) THEN o
    ELSE CASE w.op = "send"       -> [o EXCEPT !.flush.pc = "send"]
           [] w.op = "settle"     -> [o EXCEPT !.flush = NotFlushing]
           [] w.op = "removeRoom" -> o
           [] OTHER               -> Flush(o)

(* What awaited the save: enqueue(), retry() and remove() call flush();    *)
(* flush() itself sends, or takes the next entry.                          *)
Continue(i, w, o) ==
    IF ~Alive(i) THEN o
    ELSE CASE w.op = "send"       -> [o EXCEPT !.flush.pc = "send"]
           [] w.op = "settle"     -> Flush([o EXCEPT !.flush = NotFlushing])
           [] w.op = "removeRoom" -> o
           [] OTHER               -> Flush(o)

SaveLands(i) ==
    LET w == Head(ob[i].writes)
        o == [ob[i] EXCEPT !.writes = Tail(@)]
    IN /\ Landing(i)
       /\ disk' = w.snap
       /\ Become(i, Continue(i, w, o))
       /\ inflight' = IF w.op = "send" /\ Alive(i) THEN inflight \cup w.ids ELSE inflight
       /\ accepted' = IF w.op = "enqueue" THEN accepted \cup w.ids ELSE accepted
       /\ gone' = IF w.op \in {"remove", "removeRoom"} THEN gone \cup w.ids ELSE gone

(* saveOutbox() rejects: enqueue() takes its entry back and throws, the    *)
(* other callers throw where they await.                                   *)
Refuse(i, w, o) ==
    IF ~Alive(i) THEN o
    ELSE CASE w.op = "enqueue"            -> [o EXCEPT !.mem = Drop(@, w.ids)]
           [] w.op \in {"send", "settle"} -> [o EXCEPT !.flush = NotFlushing]
           [] OTHER                       -> o

SaveFails(i) ==
    LET w == Head(ob[i].writes)
        o == [ob[i] EXCEPT !.writes = Tail(@)]
    IN /\ SaveMayFail
       /\ Landing(i)
       /\ Become(i, Refuse(i, w, o))
       /\ UNCHANGED <<disk, inflight, accepted, gone>>

-------------------------------------------------------------------------------
(* The request *)

(* The server takes the message, or finds it has it already. *)
Reach(e) ==
    /\ e \in inflight
    /\ inflight' = inflight \ {e}
    /\ log' = IF e \in Delivered THEN log ELSE Append(log, e)
    /\ UNCHANGED <<ob, disk, users, bounds>>

(* flush() goes on with the answer, on an entry that may have been removed *)
(* from the queue meanwhile, and saves.                                    *)
Answered(i, o) ==
    /\ ob[i].flush.pc = "send"
    /\ Become(i, Persist([o EXCEPT !.flush.pc = "settle"], "settle", {}))
    /\ UNCHANGED <<disk, users, network, bounds>>

Confirmed(i) ==
    LET e == ob[i].flush.id IN
    /\ e \in Delivered
    /\ Answered(i, [ob[i] EXCEPT !.mem = Drop(@, {e})])

Failed(entry)   == [entry EXCEPT !.attempts = @ + 1, !.status = "failed"]
HeldBack(entry) == [entry EXCEPT !.attempts = @ + 1, !.status = "pending", !.hold = TRUE]

(* Mutants: one attempt too many; the entry is forgotten when its attempts *)
(* are used up.                                                            *)
FailureOffByOne(o, e) ==
    IF o.mem[e].attempts + 1 > MaxAttempts THEN [o EXCEPT !.mem[e] = Failed(@)]
    ELSE [o EXCEPT !.mem[e] = HeldBack(@), !.timer = TRUE]
FailureDrops(o, e) ==
    IF o.mem[e].attempts + 1 >= MaxAttempts THEN [o EXCEPT !.mem = Drop(@, {e})]
    ELSE [o EXCEPT !.mem[e] = HeldBack(@), !.timer = TRUE]

(* A retryable failure of entry e: the attempt budget, the backoff. *)
Failure(o, e) ==
    IF o.mem[e].attempts + 1 >= MaxAttempts THEN [o EXCEPT !.mem[e] = Failed(@)]
    ELSE [o EXCEPT !.mem[e] = HeldBack(@), !.timer = TRUE]

(* Mutant: the failed entry is put back, though removed meanwhile. *)
UnansweredRevives(i) ==
    LET o == ob[i]
        e == o.flush.id
        entry == [status |-> "pending", attempts |-> 0, hold |-> FALSE]
    IN Answered(i, [o EXCEPT !.mem = [x \in DOMAIN @ \cup {e} |-> IF x = e THEN entry ELSE @[x]]])

(* Network error, timeout or 5xx: the request may have reached the server, *)
(* or reach it yet.                                                        *)
Unanswered(i) ==
    LET o == ob[i]
        e == o.flush.id
    IN \/ /\ e \in DOMAIN o.mem
          /\ Answered(i, Failure(o, e))
       \/ /\ e \notin DOMAIN o.mem
          /\ \E timer \in {o.timer, TRUE} : Answered(i, [o EXCEPT !.timer = timer])

(* 4xx: no retry.  (An earlier attempt may still reach the server.) *)
Rejected(i) ==
    LET o == ob[i] IN
    Answered(i, IF o.flush.id \in DOMAIN o.mem THEN [o EXCEPT !.mem[o.flush.id].status = "failed"] ELSE o)

(* The backoff timer serves all held entries. *)
Released(mem) == [e \in DOMAIN mem |-> [mem[e] EXCEPT !.hold = FALSE]]
RetryTimer(i) ==
    /\ ob[i].timer
    /\ Become(i, Flush([ob[i] EXCEPT !.timer = FALSE, !.mem = Released(@)]))
    /\ UNCHANGED <<disk, users, network, bounds>>

-------------------------------------------------------------------------------
Run(i) == \/ Start(i) \/ Restore(i) \/ setOnline(i, TRUE) \/ SaveLands(i)
          \/ Confirmed(i) \/ Unanswered(i) \/ Rejected(i) \/ RetryTimer(i)

Environment(i) ==
    \/ setOnline(i, FALSE) \/ dispose(i) \/ Crash(i) \/ SaveFails(i)
    \/ \E r \in Room : enqueue(i, r) \/ removeRoom(i, r)
    \/ \E e \in Entry : retry(i, e) \/ remove(i, e)

Next ==
    \/ \E i \in Inst : Run(i) \/ Environment(i)
    \/ \E e \in Entry : Reach(e)

(* A client that runs is opened again after a crash, goes online again,    *)
(* lands its saves, hears back from each request (fetch settles) and fires *)
(* its timers.  Nothing is assumed of the user or of the server.           *)
Fairness ==
    \A i \in Inst :
        /\ WF_vars(Start(i)) /\ WF_vars(Restore(i)) /\ WF_vars(setOnline(i, TRUE))
        /\ WF_vars(SaveLands(i)) /\ WF_vars(RetryTimer(i))
        /\ WF_vars(Confirmed(i) \/ Unanswered(i) \/ Rejected(i))

Spec == Init /\ [][Next]_vars /\ Fairness

-------------------------------------------------------------------------------
(* Properties *)

(* A message the composer was told is queued (enqueue() resolved) is on    *)
(* disk, on the server, or the user took it out: "the queue survives a     *)
(* restart" (outbox.ts header, TC-CORE-032), at whatever moment it comes.  *)
Durable == \A e \in accepted : e \in DOMAIN disk \cup Delivered \cup removed

(* Messages of a room reach the server in the order they were queued:      *)
(* none overtakes an older one that is held, failed, or restored after a   *)
(* crash ("entries flush FIFO per room").                                  *)
Before(a, b) == \E j, k \in DOMAIN log : log[j] = a /\ log[k] = b /\ j < k
FifoPerRoom ==
    \A b \in Delivered : \A a \in accepted \ removed :
        a < b /\ roomOf[a] = roomOf[b] => Before(a, b)

(* An entry marked "sending" is the one the running flush() is about; any  *)
(* other could neither be retried nor sent and would block its room        *)
(* (retry() acts on failed entries only).                                  *)
SendingIsInFlight ==
    \A i \in Inst : \A e \in DOMAIN ob[i].mem :
        ob[i].mem[e].status = "sending" => ob[i].flush.pc \in {"save", "send"} /\ ob[i].flush.id = e

(* Once remove() or removeRoom() has resolved, no request for the message  *)
(* starts, also not after a restart (FR-ROOM-012, TC-CORE-031).            *)
GoneIsNeverSent ==
    [][\A i \in Inst, e \in gone :
         ob'[i].flush = [pc |-> "send", id |-> e] => ob[i].flush = [pc |-> "send", id |-> e]]_vars

(* A queued message is delivered or removed, or it waits behind a failed   *)
(* one the user must decide about; it is never left behind by a flush that *)
(* was already running, a connection that came and went, or a crash.       *)
Drains ==
    \A e \in Entry :
        e \in accepted ~>
            \/ e \in Delivered \cup removed
            \/ e \in accepted /\ \E i \in Inst : \E h \in DOMAIN ob[i].mem :
                 h <= e /\ roomOf[h] = roomOf[e] /\ ob[i].mem[h].status = "failed"
================================================================================
