------------------------------ MODULE MessageStore ------------------------------
(***************************************************************************)
(* The message window a client keeps of one room                           *)
(* (packages/chat-core/src/message-store.ts), as operators on its fields.  *)
(* A message is named by its seq; of its contents only what decides merges *)
(* is kept, how often it was edited and whether it is deleted.  Reaction   *)
(* summaries, sender stubs and the dedupe by client_message_id (ids and    *)
(* client ids name the same messages, see RoomLog) are left out.           *)
(***************************************************************************)
EXTENDS Naturals, FiniteSets

CONSTANTS MaxMsgs,   \* bound: messages in the room
          MaxEdits   \* bound: edits of one message

ASSUME StoreAssumption == MaxMsgs \in Nat \ {0} /\ MaxEdits \in Nat

Seq1 == 1..MaxMsgs
Copy == [edits : 0..MaxEdits, deleted : BOOLEAN]
Copies == UNION {[seqs -> Copy] : seqs \in SUBSET Seq1}

NoGap == [after |-> 0, before |-> 0]

(* byId, and the state the view renders: the seqs shown, the gap to fill,  *)
(* whether a fill timed out; and the timer.                                *)
Store == [byId : Copies, seeded : BOOLEAN, shown : SUBSET Seq1,
          needsFill : [after : 0..MaxMsgs, before : 0..MaxMsgs],
          fillTimedOut : BOOLEAN, fillTimer : BOOLEAN]

EmptyStore == [byId |-> [s \in {} |-> 0], seeded |-> FALSE, shown |-> {}, needsFill |-> NoGap,
               fillTimedOut |-> FALSE, fillTimer |-> FALSE]

Oldest(seqs) == CHOOSE s \in seqs : \A t \in seqs : s <= t
Newest(seqs) == CHOOSE s \in seqs : \A t \in seqs : t <= s

(* Mutant: the copy that arrives last wins. *)
MergeLatest(previous, message) == message

(* A loaded row absorbs an incoming copy: no undelete, no older edit.      *)
MergeExisting(previous, message) ==
    CASE previous.deleted /\ ~message.deleted                              -> previous
      [] ~message.deleted /\ previous.edits > message.edits                -> previous
      [] OTHER                                                             -> message

Insert(byId, page) ==
    [s \in DOMAIN byId \cup DOMAIN page |->
        IF s \notin DOMAIN page THEN byId[s]
        ELSE IF s \in DOMAIN byId THEN MergeExisting(byId[s], page[s]) ELSE page[s]]

(* The contiguous run of seqs from the oldest. *)
Run(seqs) == {s \in seqs : \A t \in Oldest(seqs)..s : t \in seqs}

(* Mutants: the timer is not armed; the gap is bounded past the first row  *)
(* withheld.                                                               *)
WithholdNoTimer(st, run) ==
    [st EXCEPT !.shown = run, !.fillTimedOut = FALSE,
               !.needsFill = [after |-> Newest(run), before |-> Oldest(DOMAIN st.byId \ run)]]
WithholdPastGap(st, run) ==
    [st EXCEPT !.shown = run, !.fillTimedOut = FALSE, !.fillTimer = TRUE,
               !.needsFill = [after |-> Newest(run), before |-> Oldest(DOMAIN st.byId \ run) + 1]]

(* What follows the first hole is withheld, and a fill asked for; the      *)
(* timer starts anew each time.                                            *)
Withhold(st, run) ==
    [st EXCEPT !.shown = run, !.fillTimedOut = FALSE, !.fillTimer = TRUE,
               !.needsFill = [after |-> Newest(run), before |-> Oldest(DOMAIN st.byId \ run)]]

Recompute(st) ==
    LET all == DOMAIN st.byId
        run == IF all = {} THEN {} ELSE Run(all)
    IN IF st.seeded /\ run # all
       THEN Withhold(st, run)
       ELSE [st EXCEPT !.shown = all, !.fillTimedOut = FALSE, !.fillTimer = FALSE, !.needsFill = NoGap]

(* add() and fillDelivered(); mergePage() seeds besides. *)
Add(st, page) == Recompute([st EXCEPT !.byId = Insert(@, page)])
MergePage(st, page) == Recompute([st EXCEPT !.byId = Insert(@, page), !.seeded = TRUE])

(* markDeleted(): a row that is not loaded is left alone. *)
MarkDeleted(st, s) ==
    IF s \in DOMAIN st.byId THEN Recompute([st EXCEPT !.byId[s].deleted = TRUE]) ELSE st

(* The timer: the withheld rows are released. *)
FillTimeout(st) ==
    [st EXCEPT !.shown = DOMAIN st.byId, !.needsFill = NoGap, !.fillTimedOut = TRUE, !.fillTimer = FALSE]
================================================================================
