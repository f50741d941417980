------------------------------- MODULE RoomFeed -------------------------------
(***************************************************************************)
(* What one chat room promises its members, with no handler, lock or       *)
(* transaction in sight.  A room is one append-only feed; the position of  *)
(* an entry is its `seq`.  A client message enters the feed at most once,  *)
(* however often its author submits it; erasing leaves the entry's place   *)
(* in the feed; a member's read position only advances, never past the     *)
(* end, and advances to a member's own entry the moment it is posted.      *)
(* RoomLog is the detailed specification that implements this one.         *)
(***************************************************************************)
EXTENDS Naturals, Sequences

CONSTANTS User,    \* members of the room
          Cmid,    \* client_message_id values chosen by the clients
          NoCmid   \* the client_message_id of a system entry (SQL NULL)

VARIABLES feed,    \* the entries, in seq order
          erased,  \* the positions whose entry has been deleted
          readTo   \* how far each member has read

feedVars == <<feed, erased, readTo>>

Entry == [author : User, cmid : Cmid \cup {NoCmid}]

FeedInit ==
    /\ feed = <<>>
    /\ erased = {}
    /\ readTo = [u \in User |-> 0]

(* One new entry at the end; its author has read it. *)
Append1(u, c) ==
    /\ feed' = Append(feed, [author |-> u, cmid |-> c])
    /\ readTo' = [readTo EXCEPT ![u] = Len(feed) + 1]
    /\ UNCHANGED erased

Post(u, c) ==
    /\ \A s \in 1..Len(feed) : feed[s] # [author |-> u, cmid |-> c]
    /\ Append1(u, c)

Note(u) == Append1(u, NoCmid)

Erase(s) ==
    /\ erased' = erased \cup {s}
    /\ UNCHANGED <<feed, readTo>>

Read(u, s) ==
    /\ readTo[u] < s
    /\ readTo' = [readTo EXCEPT ![u] = s]
    /\ UNCHANGED <<feed, erased>>

FeedNext ==
    \/ \E u \in User, c \in Cmid : Post(u, c)
    \/ \E u \in User : Note(u)
    \/ \E s \in 1..Len(feed) : Erase(s)
    \/ \E u \in User, s \in 1..Len(feed) : Read(u, s)

FeedSpec == FeedInit /\ [][FeedNext]_feedVars
===============================================================================
