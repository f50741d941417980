-------------------------------- MODULE RoomView --------------------------------
(***************************************************************************)
(* One client with one room open: its MessageStore, fed by the events of   *)
(* the room's channel and by pages of history it asks for.                 *)
(*                                                                         *)
(* The server's log is the RoomLog, of which a client sees the rows and    *)
(* that edits and deletions happen.  Events are queued jobs run by several *)
(* workers: they arrive in any order, and one that goes out while the      *)
(* client is not connected is lost.  A page is read from the log at one    *)
(* moment and applied at a later one; in between events are applied and    *)
(* other pages arrive.                                                     *)
(***************************************************************************)
EXTENDS MessageStore, Sequences, Functions

CONSTANTS Limit,           \* rows of a page
          MaxDisconnects,  \* bound: how often the connection drops
          MaxChanges,      \* bound: edits and deletions in the room
          MaxRequests      \* bound: requests under way at a time

ASSUME ViewAssumption == /\ Limit \in Nat \ {0} /\ MaxRequests \in Nat \ {0}
                         /\ MaxDisconnects \in Nat /\ MaxChanges \in Nat

VARIABLES
    room,      \* the server's rows, by seq
    events,    \* events on their way to the client
    st,        \* the MessageStore
    connected, drops,
    cache,     \* rows of an earlier session, until they are loaded or too late
    reqs,      \* per kind of request: where it is, and the page read
    sync       \* RoomSync: the running refresh

link == <<connected, drops>>
vars == <<room, events, st, link, cache, reqs, sync>>

Top == MaxMsgs + 1
Kinds == {"latest", "older", "fill", "sync"}
Free == [pc |-> "free"]
RequestType ==
    {Free}
    \cup [pc : {"asked"}, after : 0..MaxMsgs, before : 0..Top, newest : BOOLEAN]
    \cup [pc : {"read"}, newest : BOOLEAN, page : Copies, more : BOOLEAN]

(* `from` is the oldest row on screen when the refresh began (or that it   *)
(* first brought) and `changed` what has happened to the log since; both   *)
(* only serve CatchesUp.                                                   *)
SyncType == [pc : {"off", "running", "done"}, from : Seq1, changed : SUBSET Seq1]
NotRunning == [pc |-> "off", from |-> 1, changed |-> {}]

Event == [name : {"message.created", "message.updated", "message.deleted"}, seq : Seq1, row : Copy]

TypeOK ==
    /\ room \in Seq(Copy) /\ Len(room) <= MaxMsgs
    /\ events \subseteq Event
    /\ st \in Store
    /\ cache \in Copies
    /\ connected \in BOOLEAN /\ drops \in 0..MaxDisconnects
    /\ reqs \in [Kinds -> RequestType]
    /\ sync \in SyncType

-------------------------------------------------------------------------------
(* The server *)

(* The request for rows with after < seq < before: the newest of them, or  *)
(* the first after the cursor.                                             *)
Ask(after, before, newest) == [pc |-> "asked", after |-> after, before |-> before, newest |-> newest]
Latest == Ask(0, Top, TRUE)

(* The room has rows already, of which an earlier session cached some; the *)
(* view mounts and asks for the latest page.                               *)
Init ==
    /\ \E n \in 0..(MaxMsgs - 1), lo, hi \in Seq1 :
         /\ hi <= n
         /\ room = [s \in 1..n |-> [edits |-> 0, deleted |-> FALSE]]
         /\ cache = [s \in lo..hi |-> room[s]]
    /\ events = {}
    /\ st = EmptyStore
    /\ connected = FALSE /\ drops = 0
    /\ reqs = [kind \in Kinds |-> IF kind = "latest" THEN Latest ELSE Free]
    /\ sync = NotRunning

Changes == Cardinality({s \in DOMAIN room : room[s].deleted})
           + FoldFunction(+, 0, [s \in DOMAIN room |-> room[s].edits])

Changed(s) == sync' = IF sync.pc = "running" THEN [sync EXCEPT !.changed = @ \cup {s}] ELSE sync
Broadcast(name, s) == events' = events \cup {[name |-> name, seq |-> s, row |-> room'[s]]}

Post ==
    LET s == Len(room) + 1 IN
    /\ s <= MaxMsgs
    /\ room' = Append(room, [edits |-> 0, deleted |-> FALSE])
    /\ Broadcast("message.created", s) /\ Changed(s)
    /\ UNCHANGED <<st, link, cache, reqs>>

Edit(s) ==
    /\ s \in DOMAIN room
    /\ ~room[s].deleted
    /\ room[s].edits < MaxEdits /\ Changes < MaxChanges
    /\ room' = [room EXCEPT ![s].edits = @ + 1]
    /\ Broadcast("message.updated", s) /\ Changed(s)
    /\ UNCHANGED <<st, link, cache, reqs>>

Delete(s) ==
    /\ s \in DOMAIN room
    /\ ~room[s].deleted
    /\ Changes < MaxChanges
    /\ room' = [room EXCEPT ![s].deleted = TRUE]
    /\ Broadcast("message.deleted", s) /\ Changed(s)
    /\ UNCHANGED <<st, link, cache, reqs>>

-------------------------------------------------------------------------------
(* The channel *)

(* The web view and applyRoomEvent interpret an event alike.               *)
Applied(e) ==
    IF e.name = "message.deleted"
    THEN MarkDeleted(st, e.seq)
    ELSE Add(st, [s \in {e.seq} |-> e.row])

Deliver(e) ==
    /\ connected
    /\ events' = events \ {e}
    /\ st' = Applied(e)
    /\ UNCHANGED <<room, link, cache, reqs, sync>>

Lose(e) ==
    /\ ~connected
    /\ events' = events \ {e}
    /\ UNCHANGED <<room, st, link, cache, reqs, sync>>

(* Mutant: the refresh starts after the newest row shown. *)
SyncCursorNewest == IF st.shown = {} THEN 0 ELSE Newest(st.shown)

(* A refresh starts just before the oldest row shown. *)
SyncCursor == IF st.shown = {} THEN 0 ELSE Oldest(st.shown) - 1

(* Each (re)connection starts a refresh.  An empty window has no cursor:   *)
(* the latest page is asked for.                                           *)
Connect ==
    /\ ~connected
    /\ connected' = TRUE
    /\ sync' = [pc |-> "running", from |-> IF st.shown = {} THEN 1 ELSE Oldest(st.shown), changed |-> {}]
    /\ reqs' = [reqs EXCEPT !["sync"] = Ask(SyncCursor, Top, st.shown = {})]
    /\ UNCHANGED <<room, events, st, drops, cache>>

(* The refresh under way is abandoned (`active`). *)
Disconnect ==
    /\ connected
    /\ drops < MaxDisconnects
    /\ drops' = drops + 1
    /\ connected' = FALSE
    /\ sync' = NotRunning
    /\ reqs' = [reqs EXCEPT !["sync"] = Free]
    /\ UNCHANGED <<room, events, st, cache>>

-------------------------------------------------------------------------------
(* Pages of history *)

(* The rows of an earlier session are shown until the network answers. *)
LoadCache ==
    /\ DOMAIN cache # {}
    /\ st.shown = {}
    /\ st' = MergePage(st, cache)
    /\ cache' = EmptyStore.byId
    /\ UNCHANGED <<room, events, link, reqs, sync>>

Busy == Cardinality({kind \in Kinds : reqs[kind] # Free}) >= MaxRequests

(* React Query refetches the latest page (focus, invalidation). *)
Refetch ==
    /\ reqs["latest"] = Free /\ ~Busy
    /\ reqs' = [reqs EXCEPT !["latest"] = Latest]
    /\ UNCHANGED <<room, events, st, link, cache, sync>>

loadOlder ==
    /\ reqs["older"] = Free /\ ~Busy
    /\ st.shown # {} /\ Oldest(st.shown) > 1
    /\ reqs' = [reqs EXCEPT !["older"] = Ask(0, Oldest(st.shown), TRUE)]
    /\ UNCHANGED <<room, events, st, link, cache, sync>>

(* The view's effect on needsFill; one request for a gap is enough. *)
fillGap ==
    /\ reqs["fill"] = Free /\ ~Busy
    /\ st.needsFill # NoGap
    /\ reqs' = [reqs EXCEPT !["fill"] = Ask(st.needsFill.after, st.needsFill.before, FALSE)]
    /\ UNCHANGED <<room, events, st, link, cache, sync>>

(* The server reads at most Limit rows, and whether the log goes on after  *)
(* them.                                                                   *)
Take(seqs, newest) ==
    {s \in seqs : Cardinality({t \in seqs : IF newest THEN t > s ELSE t < s}) < Limit}

Serve(kind) ==
    LET r == reqs[kind]
        seqs == Take({s \in DOMAIN room : r.after < s /\ s < r.before}, r.newest)
    IN /\ r.pc = "asked"
       /\ reqs' = [reqs EXCEPT ![kind] =
                      [pc |-> "read", newest |-> r.newest, page |-> [s \in seqs |-> room[s]],
                       more |-> seqs # {} /\ Len(room) > Newest(seqs)]]
       /\ UNCHANGED <<room, events, st, link, cache, sync>>

(* The page arrives. *)
Receive(kind) ==
    LET r == reqs[kind] IN
    /\ kind # "sync"
    /\ r.pc = "read"
    /\ st' = IF kind = "latest" THEN MergePage(st, r.page) ELSE Add(st, r.page)
    /\ cache' = IF kind = "latest" THEN EmptyStore.byId ELSE cache
    /\ reqs' = [reqs EXCEPT ![kind] = Free]
    /\ UNCHANGED <<room, events, link, sync>>

(* RoomSync.run: merge the page and ask for the next, while there is one.  *)
ReceiveSync ==
    LET r == reqs["sync"]
        seqs == DOMAIN r.page
        from == IF r.newest /\ seqs # {} THEN Oldest(seqs) ELSE sync.from
    IN /\ r.pc = "read"
       /\ st' = MergePage(st, r.page)
       /\ reqs' = [reqs EXCEPT !["sync"] = IF r.more THEN Ask(Newest(seqs), Top, FALSE) ELSE Free]
       /\ sync' = [sync EXCEPT !.from = from, !.pc = IF r.more THEN "running" ELSE "done"]
       /\ UNCHANGED <<room, events, link, cache>>

Fail(kind) ==
    /\ reqs[kind] # Free
    /\ reqs' = [reqs EXCEPT ![kind] = Free]
    /\ sync' = IF kind = "sync" THEN NotRunning ELSE sync
    /\ UNCHANGED <<room, events, st, link, cache>>

FillTimer ==
    /\ st.fillTimer
    /\ st' = FillTimeout(st)
    /\ UNCHANGED <<room, events, link, cache, reqs, sync>>

Next ==
    \/ Post \/ \E s \in Seq1 : Edit(s) \/ Delete(s)
    \/ \E e \in events : Deliver(e) \/ Lose(e)
    \/ Connect \/ Disconnect
    \/ LoadCache \/ Refetch \/ loadOlder \/ fillGap
    \/ \E kind \in Kinds : Serve(kind) \/ Receive(kind) \/ Fail(kind)
    \/ ReceiveSync \/ FillTimer

Spec == Init /\ [][Next]_vars

-------------------------------------------------------------------------------
(* Properties *)

(* Rows are withheld only while a fill is asked for and a timer will       *)
(* release them (MessageStore invariants 3 and 4).                         *)
WithheldHasDeadline == st.shown # DOMAIN st.byId => st.needsFill # NoGap /\ st.fillTimer

(* In whatever order events and pages arrive, a loaded row is never        *)
(* undeleted and an edit never undone (MessageStore.mergeExisting).        *)
CopiesNeverRegress ==
    [][\A s \in DOMAIN st.byId :
         /\ s \in DOMAIN st'.byId
         /\ st.byId[s].deleted => st'.byId[s].deleted
         /\ st'.byId[s].deleted \/ st'.byId[s].edits >= st.byId[s].edits]_st

(* When a refresh ends, every row from the oldest on screen on that has    *)
(* not changed since it began is loaded as the server has it: what was     *)
(* missed offline is caught up, edits and deletions included (RoomSync).   *)
CatchesUp ==
    [][sync.pc = "running" /\ sync'.pc = "done" =>
         \A s \in (sync'.from)..Len(room) \ sync.changed :
            s \in DOMAIN st'.byId /\ st'.byId[s] = room[s]]_vars
================================================================================
