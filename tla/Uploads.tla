--------------------------------- MODULE Uploads ---------------------------------
(***************************************************************************)
(* Attachments: the row in the database, the objects in the store, and who *)
(* holds them.  An upload is a ticket (UploadService::issue), a PUT to its *)
(* staging object, and complete(), which copies and checks the bytes and   *)
(* makes the row claimable.  ProcessAttachment renders thumbnails or scans *)
(* for malware.  A message, a note, a kanban ticket or a public message    *)
(* claims rows under their row locks.  Releasing them queues the purge of  *)
(* their objects; two sweeps remove expired tickets and public files       *)
(* nobody claimed.                                                         *)
(*                                                                         *)
(* A transaction is one action where nothing it reads can change under it. *)
(* A claim is two: it locks and checks, and it commits.  The orphan        *)
(* sweep's conditional DELETE is two: at PostgreSQL's READ COMMITTED its   *)
(* NOT EXISTS is answered from the statement's snapshot, then the row lock *)
(* is waited for; a row that was only locked meanwhile, not updated, is    *)
(* deleted without being checked again.                                    *)
(***************************************************************************)
EXTENDS Naturals, FiniteSets

CONSTANTS Att,            \* attachments
          Message, Note, Ticket, PublicMessage,   \* who may hold attachments
          Request,        \* complete() calls that may run at a time
          Worker,         \* queue workers
          MaxPurges,      \* bound: purges of a file queued before a deletion is rolled back again
          Free            \* no lock, no attachment

Holder == Message \cup Note \cup Ticket \cup PublicMessage
Internal == Holder \ PublicMessage

ASSUME UploadsAssumption ==
    /\ Free \notin Att \cup Holder
    /\ Message \cap Note = {} /\ Message \cap Ticket = {} /\ Note \cap Ticket = {}
    /\ Internal \cap PublicMessage = {}
    /\ MaxPurges \in Nat \ {0}

VARIABLES
    row,      \* the rows of the table attachments
    age,      \* 0: within the ticket's hour; 1: past it; 2: past the orphan grace of a day
    objects,  \* the objects in the store
    pivot,    \* who holds what: the pivot tables
    hold,     \* per holder: its phase, what it asks for, what it was given
    lock,     \* the row locks of claims
    request,  \* complete() calls under way
    jobs,     \* queued ProcessAttachment jobs of each attachment
    work,     \* what each worker processes
    purges,   \* queued PurgeAttachmentFiles of each attachment
    sweep,    \* the hourly PurgeExpiredUploads
    acked,    \* attachments a complete() was answered for
    exposed   \* files one of the known races or omissions endangers (see LiveFilesKept)

store   == <<row, age, objects>>
claims  == <<pivot, hold, lock>>
queues  == <<jobs, work, purges>>
history == <<acked, exposed>>
vars    == <<store, claims, request, queues, sweep, history>>

-------------------------------------------------------------------------------
(* Types *)

AttachmentStatus == {"pending", "uploaded", "processing", "ready", "failed", "deleted"}
(* Mutant: a row whose worker died is left alone. *)
FinishedStatuses == {"ready", "failed"}
reclaimableStatuses == {"uploaded", "processing", "ready", "failed"}
Claimable == {"uploaded", "processing", "ready"}

(* Whose ticket: a member's for the workspace; an agent's or a visitor's   *)
(* (without uploader_id) for a public chat room.                           *)
Ticketed == {"member", "agent", "visitor"}
Row == [status : AttachmentStatus, from : Ticketed, deleted : BOOLEAN, derived : BOOLEAN]
NoRow == [status |-> "none", from |-> "member", deleted |-> FALSE, derived |-> FALSE]
Object == Att \X {"upload", "wrong", "original", "thumb"}

Phase == {"none", "creating", "live", "editing", "deleted"}
Hold == [phase : Phase, want : SUBSET Att, given : SUBSET Att]

Completing == [pc : {"idle", "checked", "copied", "saved"}, att : Att \cup {Free}]
Idle == [pc |-> "idle", att |-> Free]
Working == [pc : {"idle", "read", "rendered"}, att : Att \cup {Free}]

Sweep == [pc : {"idle", "tickets", "orphans"}, todo : SUBSET Att, derived : SUBSET Att,
          deleting : Att \cup {Free}]
NoSweep == [pc |-> "idle", todo |-> {}, derived |-> {}, deleting |-> Free]

TypeOK ==
    /\ row \in [Att -> Row \cup {NoRow}]
    /\ age \in [Att -> 0..2]
    /\ objects \subseteq Object
    /\ pivot \subseteq Holder \X Att
    /\ hold \in [Holder -> Hold]
    /\ lock \in [Att -> Holder \cup {Free}]
    /\ request \in [Request -> Completing]
    /\ jobs \in [Att -> Nat] /\ purges \in [Att -> Nat]
    /\ work \in [Worker -> Working]
    /\ sweep \in Sweep
    /\ acked \subseteq Att /\ exposed \subseteq Att

Init ==
    /\ row = [a \in Att |-> NoRow]
    /\ age = [a \in Att |-> 0]
    /\ objects = {}
    /\ pivot = {}
    /\ hold = [h \in Holder |-> [phase |-> "none", want |-> {}, given |-> {}]]
    /\ lock = [a \in Att |-> Free]
    /\ request = [r \in Request |-> Idle]
    /\ jobs = [a \in Att |-> 0] /\ purges = [a \in Att |-> 0]
    /\ work = [w \in Worker |-> Idle]
    /\ sweep = NoSweep
    /\ acked = {} /\ exposed = {}

Exists(a) == row[a] # NoRow
Public(a) == Exists(a) /\ row[a].from # "member"   \* public_chat_room_id IS NOT NULL
Stored(a, key) == <<a, key>> \in objects
(* Mutant: the rows are read without lockForUpdate(). *)
NoRowLock(S) == TRUE
Unlocked(S) == \A a \in S : lock[a] = Free
HeldBy(h) == {a \in Att : <<h, a>> \in pivot}
Holders(a) == {h \in Holder : <<h, a>> \in pivot}

(* An UPDATE ... SET status of a row that may be gone affects no row.      *)
Saved(a, status) == IF Exists(a) THEN [row EXCEPT ![a].status = status] ELSE row

(* storeThumbs() records what it rendered.  Mutant: it writes the row anew. *)
UpsertDerived(a) == [row EXCEPT ![a].derived = TRUE]
Derived(a) == IF Exists(a) THEN [row EXCEPT ![a].derived = TRUE] ELSE row

Count(f, S) == [a \in Att |-> IF a \in S THEN f[a] + 1 ELSE f[a]]

-------------------------------------------------------------------------------
(* The upload: ticket, PUT, complete() *)

issue(a, from) ==
    /\ ~Exists(a) /\ age[a] = 0
    /\ row' = [row EXCEPT ![a] = [status |-> "pending", from |-> from, deleted |-> FALSE, derived |-> FALSE]]
    /\ UNCHANGED <<age, objects, claims, request, queues, sweep, history>>

(* UploadController::binary, or the presigned PUT; the bytes may turn out   *)
(* not to be what the ticket announced.                                    *)
binary(a, bytes) ==
    /\ row[a].status = "pending" /\ age[a] = 0
    /\ ~Stored(a, "upload") /\ ~Stored(a, "wrong")
    /\ objects' = objects \cup {<<a, bytes>>}
    /\ UNCHANGED <<row, age, claims, request, queues, sweep, history>>

(* An hour, then the rest of a day passes since the ticket.                *)
Elapse(a) ==
    /\ Exists(a) /\ age[a] < 2
    /\ age' = [age EXCEPT ![a] = @ + 1]
    /\ UNCHANGED <<row, objects, claims, request, queues, sweep, history>>

(* complete() on a row that is no longer pending answers with it.          *)
replay(a) ==
    /\ Exists(a) /\ row[a].status # "pending"
    /\ acked' = acked \cup {a}
    /\ UNCHANGED <<store, claims, request, queues, sweep, exposed>>

(* finish() on the row as the request loaded it: pending, not expired, its *)
(* staging object stored.                                                  *)
finish(r, a) ==
    /\ request[r] = Idle
    /\ row[a].status = "pending" /\ age[a] = 0 /\ (Stored(a, "upload") \/ Stored(a, "wrong"))
    /\ request' = [request EXCEPT ![r] = [pc |-> "checked", att |-> a]]
    /\ UNCHANGED <<store, claims, queues, sweep, history>>

(* The staging object is copied to the final key, whose bytes are sniffed: *)
(* if they are refused both objects go.                                    *)
copy(r) ==
    LET a == request[r].att
        good == Stored(a, "upload")
    IN /\ request[r].pc = "checked" /\ (good \/ Stored(a, "wrong"))
       /\ objects' = IF good THEN objects \cup {<<a, "original">>}
                     ELSE objects \ {<<a, "wrong">>, <<a, "original">>}
       /\ request' = [request EXCEPT ![r] = IF good THEN [@ EXCEPT !.pc = "copied"] ELSE Idle]
       /\ UNCHANGED <<row, age, claims, queues, sweep, history>>

(* A copy that fails (the staging object may be gone: another complete() or*)
(* the sweep was faster) goes unnoticed: the disks do not throw.  What is  *)
(* sniffed is what an earlier complete() left at the final key; or that    *)
(* cannot be read, and both objects go, recorded by then or not.           *)
copyFails(r) ==
    LET a == request[r].att
    IN /\ request[r].pc = "checked"
       /\ \/ /\ Stored(a, "original")
             /\ request' = [request EXCEPT ![r].pc = "copied"]
             /\ UNCHANGED <<objects, exposed>>
          \/ /\ objects' = objects \ {<<a, "upload">>, <<a, "wrong">>, <<a, "original">>}
             /\ request' = [request EXCEPT ![r] = Idle]
             /\ exposed' = IF Stored(a, "original") THEN exposed \cup {a} ELSE exposed
       /\ UNCHANGED <<row, age, claims, queues, sweep, acked>>

(* The row is saved as uploaded, whatever it has become since it was       *)
(* loaded: nothing if the sweep of expired tickets removed it.  If that    *)
(* sweep has selected it, it will be removed although it is complete.      *)
save(r) ==
    LET a == request[r].att
    IN /\ request[r].pc = "copied" /\ Unlocked({a})
       /\ row' = Saved(a, "uploaded")
       /\ request' = [request EXCEPT ![r].pc = "saved"]
       /\ exposed' = IF row[a].status # "pending" \/ (sweep.pc = "tickets" /\ a \in sweep.todo)
                     THEN exposed \cup {a} ELSE exposed
       /\ UNCHANGED <<age, objects, claims, queues, sweep, acked>>

(* The staging object is removed, processing queued, the client answered.  *)
answer(r) ==
    LET a == request[r].att
    IN /\ request[r].pc = "saved"
       /\ objects' = objects \ {<<a, "upload">>, <<a, "wrong">>}
       /\ jobs' = Count(jobs, {a})
       /\ acked' = IF Exists(a) THEN acked \cup {a} ELSE acked
       /\ request' = [request EXCEPT ![r] = Idle]
       /\ UNCHANGED <<row, age, claims, work, purges, sweep, exposed>>

(* The request dies between two steps.                                     *)
abandon(r) ==
    /\ request[r] # Idle
    /\ request' = [request EXCEPT ![r] = Idle]
    /\ UNCHANGED <<store, claims, queues, sweep, history>>

-------------------------------------------------------------------------------
(* ProcessAttachment *)

(* A worker takes a job.  Only an uploaded row is processed; the row of a   *)
(* worker that died stays processing and its redelivered job returns here. *)
process(w, a) ==
    /\ work[w] = Idle /\ jobs[a] > 0 /\ Unlocked({a})
    /\ jobs' = [jobs EXCEPT ![a] = @ - 1]
    /\ IF row[a].status = "uploaded"
       THEN /\ row' = Saved(a, "processing")
            /\ work' = [work EXCEPT ![w] = [pc |-> "read", att |-> a]]
       ELSE UNCHANGED <<row, work>>
    /\ UNCHANGED <<age, objects, claims, request, purges, sweep, history>>

(* storeThumbs(): from the bytes read before.                              *)
storeThumbs(w) ==
    LET a == work[w].att
    IN /\ work[w].pc = "read" /\ Unlocked({a})
       /\ objects' = objects \cup {<<a, "thumb">>}
       /\ row' = Derived(a)
       /\ work' = [work EXCEPT ![w].pc = "rendered"]
       /\ UNCHANGED <<age, claims, request, jobs, purges, sweep, history>>

(* The end: ready, or failed (bytes that do not decode or are gone), or    *)
(* infected, when the object goes too.                                     *)
Processed(w, status, kept) ==
    LET a == work[w].att
    IN /\ Unlocked({a})
       /\ row' = Saved(a, status)
       /\ objects' = objects \cap kept
       /\ work' = [work EXCEPT ![w] = Idle]
       /\ UNCHANGED <<age, claims, request, jobs, purges, sweep, history>>

ready(w) == work[w].pc \in {"read", "rendered"} /\ Processed(w, "ready", objects)
fail(w)  == work[w].pc = "read" /\ Processed(w, "failed", objects)
quarantineInfected(w) == work[w].pc = "read" /\ Processed(w, "failed", objects \ {<<work[w].att, "original">>})

(* The worker dies; the queue delivers the job again.                      *)
die(w) ==
    /\ work[w] # Idle
    /\ jobs' = Count(jobs, {work[w].att})
    /\ work' = [work EXCEPT ![w] = Idle]
    /\ UNCHANGED <<store, claims, request, purges, sweep, history>>

-------------------------------------------------------------------------------
(* Claims *)

(* claimAttachments(), createNote(), BoardService::saveTicket(): an        *)
(* attachment may be claimed if no internal holder has it; public messages *)
(* ask for their own partition and for no holder at all.  Notes and        *)
(* tickets do not ask for the partition: a file an agent uploaded for a    *)
(* public room passes.                                                     *)
ClaimDeleted(h, a) ==   \* mutant: deleted_at is not asked for
    /\ row[a].status \in Claimable
    /\ Holders(a) \cap Internal = {}
    /\ h \in Message => ~Public(a)
    /\ h \in Note \cup Ticket => row[a].from # "visitor"
    /\ h \in PublicMessage => Public(a) /\ Holders(a) = {}
MayClaim(h, a) ==
    /\ row[a].status \in Claimable /\ ~row[a].deleted
    /\ Holders(a) \cap Internal = {}
    /\ h \in Message => ~Public(a)
    /\ h \in Note \cup Ticket => row[a].from # "visitor"
    /\ h \in PublicMessage => Public(a) /\ Holders(a) = {}

(* The transaction locks the rows it asks for and checks them.  A ticket   *)
(* may be edited: what it holds and keeps is not checked for a holder.     *)
Claim(h, S) ==
    /\ hold[h].phase = "none" \/ (h \in Ticket /\ hold[h].phase = "live" /\ S # HeldBy(h))
    /\ S \subseteq acked /\ (S # {} \/ hold[h].phase = "live")
    /\ Unlocked(S)
    /\ \A a \in S : IF <<h, a>> \in pivot THEN ~row[a].deleted ELSE MayClaim(h, a)
    /\ hold' = [hold EXCEPT ![h] = [@ EXCEPT !.want = S, !.phase = IF hold[h].phase = "none" THEN "creating" ELSE "editing"]]
    /\ lock' = [a \in Att |-> IF a \in S THEN h ELSE lock[a]]
    /\ UNCHANGED <<store, pivot, request, queues, sweep, history>>

Released(h) == [a \in Att |-> IF lock[a] = h THEN Free ELSE lock[a]]

(* ... it commits.  What a ticket no longer shows is marked deleted and    *)
(* its purge queued for a day later.                                       *)
Commit(h) ==
    LET S == hold[h].want
        gone == HeldBy(h) \ S
        shared == {a \in S : Holders(a) \ {h} # {}}
    IN /\ hold[h].phase \in {"creating", "editing"} /\ Unlocked(gone)
       /\ pivot' = {p \in pivot : p[1] # h} \cup ({h} \X S)
       /\ hold' = [hold EXCEPT ![h] = [phase |-> "live", want |-> {}, given |-> S]]
       /\ lock' = Released(h)
       /\ row' = [a \in Att |-> IF a \in gone THEN [row[a] EXCEPT !.deleted = TRUE] ELSE row[a]]
       /\ purges' = Count(purges, gone)
       /\ exposed' = exposed \cup shared \cup (S \cap {sweep.deleting})
       /\ UNCHANGED <<age, objects, request, jobs, work, sweep, acked>>

(* ... or it rolls back.                                                   *)
Rollback(h) ==
    /\ hold[h].phase \in {"creating", "editing"}
    /\ hold' = [hold EXCEPT ![h] = [@ EXCEPT !.want = {}, !.phase = IF hold[h].phase = "creating" THEN "none" ELSE "live"]]
    /\ lock' = Released(h)
    /\ UNCHANGED <<store, pivot, request, queues, sweep, history>>

(* MessageEditor::delete(): the files are detached and their purge queued  *)
(* for a day later.  The rows are not marked: they may be claimed again.   *)
deleteMessage(m) ==
    /\ hold[m].phase = "live"
    /\ hold' = [hold EXCEPT ![m].phase = "deleted"]
    /\ pivot' = {p \in pivot : p[1] # m}
    /\ purges' = Count(purges, HeldBy(m))
    /\ exposed' = exposed \cup HeldBy(m)
    /\ UNCHANGED <<store, lock, request, jobs, work, sweep, acked>>

(* It queues that purge inside its transaction, not after the commit: when *)
(* the audit log, the room's row or the COMMIT fails, or the worker dies,  *)
(* the message is live and the purge of its files queued.  A moderator's   *)
(* deletion of a note (ModerationService::deleteNote) does the same.       *)
deleteRollsBack(h) ==
    /\ hold[h].phase = "live" /\ HeldBy(h) # {}
    /\ h \in Note => Unlocked(HeldBy(h))
    /\ \A a \in HeldBy(h) : purges[a] < MaxPurges
    /\ purges' = Count(purges, HeldBy(h))
    /\ exposed' = exposed \cup HeldBy(h)
    /\ UNCHANGED <<store, claims, request, jobs, work, sweep, acked>>

(* deleteNote(): the rows are marked deleted; their purge is queued once   *)
(* that is committed.                                                      *)
deleteNote(n) ==
    /\ hold[n].phase = "live" /\ Unlocked(HeldBy(n))
    /\ hold' = [hold EXCEPT ![n].phase = "deleted"]
    /\ pivot' = {p \in pivot : p[1] # n}
    /\ row' = [a \in Att |-> IF a \in HeldBy(n) THEN [row[a] EXCEPT !.deleted = TRUE] ELSE row[a]]
    /\ purges' = Count(purges, HeldBy(n))
    /\ UNCHANGED <<age, objects, lock, request, jobs, work, sweep, history>>

(* PurgeAttachmentFiles: the objects the row names, then its status.  It   *)
(* does not ask who holds the row.  The objects' removal succeeds: left out *)
(* are a removal that fails silently or throws, and the job's five tries.  *)
PurgeReadyOnly(a) ==   \* mutant: a file still being processed is passed over
    /\ purges[a] > 0 /\ Unlocked({a})
    /\ purges' = [purges EXCEPT ![a] = @ - 1]
    /\ IF row[a].status = "ready"
       THEN /\ objects' = objects \ {<<a, "original">>, <<a, "thumb">>}
            /\ row' = Saved(a, "deleted")
       ELSE UNCHANGED <<objects, row>>
    /\ UNCHANGED <<age, claims, request, jobs, work, sweep, history>>
PurgeAttachmentFiles(a) ==
    /\ purges[a] > 0 /\ Unlocked({a})
    /\ purges' = [purges EXCEPT ![a] = @ - 1]
    /\ objects' = objects \ ({<<a, "original">>} \cup (IF row[a].derived THEN {<<a, "thumb">>} ELSE {}))
    /\ row' = Saved(a, "deleted")
    /\ UNCHANGED <<age, claims, request, jobs, work, sweep, history>>

-------------------------------------------------------------------------------
(* PurgeExpiredUploads *)

(* purgeExpiredPending() selects the expired tickets ...                   *)
purgeExpiredPending ==
    /\ sweep = NoSweep
    /\ sweep' = [NoSweep EXCEPT !.pc = "tickets",
                                !.todo = {a \in Att : row[a].status = "pending" /\ age[a] > 0}]
    /\ UNCHANGED <<store, claims, request, queues, history>>

(* The row goes, and the pivot rows that name it.                          *)
Remove(a) == row' = [row EXCEPT ![a] = NoRow] /\ pivot' = {p \in pivot : p[2] # a}

(* ... and removes staging object and row, complete by now or not.         *)
forceDelete(a) ==
    /\ sweep.pc = "tickets" /\ a \in sweep.todo /\ Unlocked({a})
    /\ Remove(a)
    /\ objects' = objects \ {<<a, "upload">>, <<a, "wrong">>}
    /\ sweep' = [sweep EXCEPT !.todo = @ \ {a}]
    /\ UNCHANGED <<age, hold, lock, request, queues, history>>

Unreferenced(a) == Holders(a) = {}

(* purgeUnreferencedPublicChat() selects the public files nobody holds ... *)
purgeUnreferencedPublicChat ==
    LET orphans == {a \in Att : /\ Public(a) /\ row[a].status \in reclaimableStatuses
                               /\ age[a] = 2 /\ Unreferenced(a)}
    IN /\ sweep.pc = "tickets" /\ sweep.todo = {}
       /\ sweep' = IF orphans = {} THEN NoSweep
                   ELSE [pc |-> "orphans", todo |-> orphans, deleting |-> Free,
                         derived |-> {a \in orphans : row[a].derived}]
       /\ UNCHANGED <<store, claims, request, queues, history>>

Proceed(s) == IF s.todo = {} THEN NoSweep ELSE s

(* ... starts the DELETE of one, whose snapshot says who holds it now ...  *)
StillSelected(a) == TRUE   \* mutant: an unconditional DELETE
StillUnreferenced(a) == Unreferenced(a)
startDelete(a) ==
    /\ sweep.pc = "orphans" /\ sweep.deleting = Free /\ a \in sweep.todo
    /\ sweep' = IF Exists(a) /\ StillUnreferenced(a) THEN [sweep EXCEPT !.deleting = a]
                ELSE Proceed([sweep EXCEPT !.todo = @ \ {a}])
    /\ UNCHANGED <<store, claims, request, queues, history>>

(* ... and has it, once no claim has the row locked, with the objects that  *)
(* the row named when it was selected.                                     *)
finishDelete(a) ==
    /\ sweep.deleting = a /\ Unlocked({a})
    /\ Remove(a)
    /\ objects' = objects \ ({<<a, "original">>} \cup (IF a \in sweep.derived THEN {<<a, "thumb">>} ELSE {}))
    /\ sweep' = Proceed([sweep EXCEPT !.todo = @ \ {a}, !.deleting = Free])
    /\ UNCHANGED <<age, hold, lock, request, queues, history>>

-------------------------------------------------------------------------------
Uploading == \E a \in Att :
    \/ Elapse(a) \/ replay(a)
    \/ \E from \in Ticketed : issue(a, from)
    \/ \E bytes \in {"upload", "wrong"} : binary(a, bytes)
    \/ \E r \in Request : finish(r, a)

Step(r) == copy(r) \/ copyFails(r) \/ save(r) \/ answer(r)
Completion == \E r \in Request : Step(r) \/ abandon(r)

End(w) == ready(w) \/ fail(w) \/ quarantineInfected(w)
Processing == \E w \in Worker : End(w) \/ storeThumbs(w) \/ die(w) \/ (\E a \in Att : process(w, a))

Holding ==
    \/ \E h \in Holder : Commit(h) \/ Rollback(h) \/ (\E S \in SUBSET Att : Claim(h, S))
    \/ \E m \in Message : deleteMessage(m)
    \/ \E h \in Message \cup Note : deleteRollsBack(h)
    \/ \E n \in Note : deleteNote(n)

Sweeping == \E a \in Att : forceDelete(a) \/ startDelete(a) \/ finishDelete(a)

Next ==
    \/ Uploading \/ Completion \/ Processing \/ Holding \/ Sweeping
    \/ purgeExpiredPending \/ purgeUnreferencedPublicChat
    \/ \E a \in Att : PurgeAttachmentFiles(a)

(* Queue workers and the scheduler run; a transaction ends; time passes.   *)
(* The row lock is fair: a waiting DELETE or UPDATE gets it in its turn.   *)
Fairness ==
    /\ WF_vars(purgeExpiredPending) /\ WF_vars(purgeUnreferencedPublicChat)
    /\ \A a \in Att : /\ WF_vars(Elapse(a)) /\ WF_vars(startDelete(a))
                      /\ SF_vars(finishDelete(a)) /\ SF_vars(forceDelete(a))
                      /\ SF_vars(PurgeAttachmentFiles(a))
    /\ \A h \in Holder : WF_vars(Commit(h) \/ Rollback(h))
    /\ \A r \in Request : SF_vars(Step(r))

Spec == Init /\ [][Next]_vars
LiveSpec == Spec /\ Fairness

-------------------------------------------------------------------------------
(* Properties *)

(* However claims of the same file overlap, in whatever rooms, it ends up  *)
(* with at most one message, note or ticket, and with at most one public   *)
(* message: the row lock makes the check and the insert one.               *)
NeverShared == \A a \in Att : \A g, h \in Holders(a) :
    g # h => ~(g \in Internal /\ h \in Internal) /\ ~(g \in PublicMessage /\ h \in PublicMessage)

(* What is live keeps the files it was given: row, pivot row and object    *)
(* (unless processing refused the file).  Excepted are the files exposed   *)
(* to one of six defects: completed while the sweep of expired tickets     *)
(* was about to remove them; completed twice at once, so that the second   *)
(* save undoes a quarantine, or a copy it cannot read back removes what    *)
(* the first recorded; claimed while the orphan sweep's DELETE was         *)
(* waiting; released by a deleted message, which leaves the row claimable  *)
(* under a queued purge; queued for purge by a deletion that rolled back;  *)
(* held by a public message and a note or ticket.                          *)
LiveFilesKept == \A h \in Holder : \A a \in hold[h].given \ exposed :
    hold[h].phase \in {"live", "editing"} =>
        /\ Exists(a) /\ <<h, a>> \in pivot
        /\ Stored(a, "original") \/ row[a].status = "failed"

(* A row marked deleted by a note or a ticket is never given to a holder.  *)
ReleasedForGood == [][\A a \in Att : row[a].deleted => Holders(a)' \subseteq Holders(a)]_vars

(* The original of a released file goes and never comes back, unless a     *)
(* second complete() of it is still under way and copies it again.  This   *)
(* holds as long as the object store answers (see PurgeAttachmentFiles).   *)
ReleasedFilesGo == \A a \in Att :
    purges[a] > 0 /\ (\A r \in Request : request[r].att # a) ~> [](~Stored(a, "original"))

(* Nothing is kept for nobody: an expired ticket and a public file without *)
(* a holder are removed, unless they are completed or claimed first.       *)
Abandoned(a) ==
    \/ row[a].status = "pending" /\ age[a] > 0
    \/ Public(a) /\ row[a].status \notin {"pending", "deleted"} /\ Unreferenced(a)
AbandonedIsRemoved == \A a \in Att : Abandoned(a) ~> ~Abandoned(a)

(* What PurgeExpiredUploads.php:163-167 says of its conditional DELETE: it *)
(* waits for a claim's row lock, looks again, and affects 0 rows.          *)
DeleteSparesClaimed == [][\A a \in Att : Exists(a) /\ ~Exists(a)' /\ sweep.deleting = a => Holders(a) = {}]_vars
=============================================================================
