# Banana Chat: TLA+ specifications, model checks and proofs

A Laravel API over PostgreSQL, a React web client and an Expo mobile client that share
`packages/chat-core` and `packages/api-client`. Paths below are relative to the repository root
unless they begin with a module name.

## 1. Inventory

| Component | State | Operations | What makes it correct |
|---|---|---|---|
| **Message log** `apps/api/app/Domain/Message/MessageWriter.php`, `MessageEditor.php`, `Domain/Room/SystemMessageWriter.php`, `MessageController.php` | `rooms.last_seq`, `last_user_seq`, `last_message_id`; `messages`; `room_members.last_read_seq` | send (idempotent by `client_message_id`), system message, edit, delete, mark read, history pages | seqs dense and unique; a repeated send makes one row; announced once and only if committed; read pointers monotonic and inside the log; a deletion is final |
| **Message window** `packages/chat-core/src/message-store.ts` | rows by id, contiguous window, gap, timer | add, mergePage, fillDelivered, markDeleted, timeout | no undelete and no older edit in any arrival order; what is withheld has a deadline |
| **Room synchronisation** `room-sync.ts`, `apps/web/src/hooks/useMessages.ts`, `ChatView.tsx`, `apps/mobile/app/room/[id].tsx` | connection, requests under way | refresh on connect, latest / older / gap pages, cached rows, channel events | a refresh repairs everything missed; late pages do no harm |
| **Outbox** `packages/chat-core/src/outbox.ts`, `apps/web/src/lib/outbox.ts`, `apps/mobile/src/offline/` | queue in memory, saved queue, flush loop, backoff timer | enqueue, flush, retry, remove, removeRoom, restore, setOnline, dispose | an accepted message survives until delivered or removed; FIFO per room; nothing is left behind |
| **Sessions and tokens** `Domain/Auth/*`, `packages/api-client/src/token-manager.ts` | sessions, lineage of consumed refresh tokens, client tokens | login with eviction, refresh, revoke, clear | one heir per refresh token; a replay is told so and ends the session; a revoked session stays so; a cleared tab stays cleared |
| **Calls, meetings** `Domain/Calls/*`, `Jobs/ReconcileCalls.php`, `Jobs/Notify*Call.php` | calls, participants, SFU rooms | start, join, leave, end, decline, reconcile, ring | at most one open call per room; capacity; an ended call has no participant; nobody is told of a call they answered; what is over is closed at the SFU |
| **Uploads** `Domain/Media/UploadService.php`, `ProcessAttachment`, claims, purge jobs | attachment rows, objects, pivots | ticket, complete, process, claim, release, purge | one holder at a time; what is live keeps row and bytes; what nobody holds goes |
| **AI** `AiController.php`, `Jobs/GenerateAiReply.php`, `ai-stream.ts` | conversation rows, Redis list of a generation, client state | send, regenerate, edit, cancel, stream, resume | one answer at a time; an answer ends; the client shows a prefix without holes |
| **Reactions** `reactions.ts`, `MessageReactionController.php` | summaries, requests under way | toggle, event, refetch | the summary converges |
| **Rooms, membership, secret rooms** `RoomController.php`, `Domain/Room`, `Jobs/ExpireSecretRooms.php` | members, roles, counts | add, remove, leave, transfer, expire | one owner; counts agree with rows |
| **Public chat** `Domain/PublicChat/*` | visitor rooms | as the message log | as the message log |
| Notifications, Kanban, link previews, search, administration, settings | rows of their own | | not modelled: single-row writes, pure I/O or read-only |

Interaction: a client composes into its *outbox*, which posts to the *message log*; the log commits
and queues broadcast jobs; queue workers publish them over a websocket; the client's *room
synchronisation* applies them and pages of history to the *message window*. The window's rows are
cached and seed the next session.

Hard behaviours: concurrent PHP requests and jobs at READ COMMITTED over stale Eloquent copies;
broadcasts leaving in any order and lost while a client is away; lost HTTP answers and repeated
requests; tabs killed between two saves, saves that reject, several tabs over one database; timers
racing answers. `PROJECT.json` lists each at its line under `hazards`.

## 2. Modules

| Module | Models |
|---|---|
| `RoomFeed` | what a room promises, abstractly: an append-only feed, an author/client-id pair at most once, erasures, read positions |
| `RoomLog` | the server side of one room; implements `RoomFeed` (`Feed == INSTANCE RoomFeed WITH ...`) |
| `Outbox` | the offline outbox, its saved queue, the network to the server, restarts |
| `MessageStore` | the client's window of a room as operators on its fields |
| `RoomView` | one client with the room open: `MessageStore` fed by the channel and by pages |
| `Uploads` | an attachment from its ticket to its purge: objects, row, holders, workers, sweeps |
| `Calls` | the calls of one room: requests, SFU, reconciler, pushes |
| `Sessions` | the login sessions of one user, and the tabs of one browser |
| `AiReply` | one AI conversation: requests, job, Redis list, frames, the client's assembly |
| `MC*` | the instances for TLC: owners of sessions, bounds, symmetry |
| `*Proofs`, `RoomLogRefinement` | inductive invariants and theorems (section 5) |

### RoomLog

State is the three columns of `rooms`, `messages` by id, `last_read_seq`, the row locks, and per
handler a record with its program point and the values it has loaded (`req`). An action is the code
between two statements whose order against other handlers matters:

* `SendLock` / `SendCommit` / `FanOut` are `MessageWriter::write`: `SELECT ... FOR UPDATE` on the room
  with the idempotency lookup and `seq = last_seq + 1`; the inserts, the save of the room, the
  sender's pointer and COMMIT; the broadcast after it. `SystemLock`, `SystemCommit` are
  `SystemMessageWriter::write`, which shares `Insert` and `FanOut`.
* `EditLoad` / `EditSave` are `PATCH /messages/{id}`: the row is loaded and judged, then written.
  Eloquent saves only attributes that differ from the loaded copy, so the body is written if it
  differs from the *loaded* one and `deleted_at` is not touched.
* `DeleteLoad`, `DeleteLoadRoom`, `DeleteRow`, `DeletePick`, `DeleteCommit` are `DELETE`: the row and
  then the room are loaded outside the transaction; the update locks the row; the fallback for
  `last_message_id` is chosen by a query; COMMIT.
* `MarkLoad`, `MarkDecide`, `MarkUpdate`, `MarkBroadcast` are `POST /rooms/{id}/read`.
* `Abort` is any failed statement or a dying worker: the transaction rolls back, nothing is announced.

Abstractions: a body is a model value or null; attachments, mentions, push, the workspace-wide badge
and changes of membership are left out; what decides permission (sender, edit window) is not.

### Outbox

An instance is one `Outbox` object; `Inst` has two when two tabs share a database. JavaScript runs
without interruption between awaits, so an action is the code between two awaits. `Persist` appends
a snapshot to the chain of saves with what awaits it; `SaveLands` and `SaveFails` resume that
(`Continue`). `Flush` is `flush()` up to its first await and one turn of its loop; `Confirmed`,
`Unanswered`, `Rejected` are its three results. A request that timed out stays in `inflight` and may
`Reach` the server later; the server keeps one message per client id, which RoomLog establishes
(`ExactlyOnce`). `dispose` leaves chained saves to land, `Crash` does not. `AwaitRestore` is TRUE for
the web composer, which awaits `ready`; the mobile screen does not.

### MessageStore and RoomView

A message is its seq, how often it was edited and whether it is deleted. `Recompute` is
`recompute()`: the rows after the first hole are withheld, a fill is asked for, the timer starts
anew. RoomView adds the log (`Post`, `Edit`, `Delete`), events as a set, from which they are
delivered in any order or lost while the client is away, and a request of each kind (latest page,
older page, gap fill, refresh) whose page is read from the log in `Serve` and applied in `Receive` /
`ReceiveSync`, with anything in between. The view around a search hit, reaction summaries, sender
stubs and read receipts are left out; the wiring is the web client's.

### Uploads

State is the row of each attachment, its objects by key (`upload` or `wrong` staging bytes,
`original`, `thumb`), the pivot tables as pairs of holder and attachment, the row locks of claims,
the queued jobs and what each worker, each `complete()` and the hourly sweep has read.

* `issue` and `binary` are the ticket and the PUT. `finish`, `copy`, `save`, `answer` are
  `UploadService::complete`, which judges a loaded row, copies and checks the bytes, and saves
  without looking again; `replay` is its early return, `abandon` its failure at any point,
  `copyFails` a copy that fails without being noticed, as the disks do not throw.
* `process`, `storeThumbs`, `ready`, `fail`, `quarantineInfected`, `die` are `ProcessAttachment`.
* `Claim` locks and checks, `Commit` or `Rollback` ends the transaction. A holder is a message, a note,
  a ticket or a public message; each kind has its own conditions (`MayClaim`) and releases
  differently: `deleteMessage` leaves `deleted_at` of the file alone, `deleteNote` and an edited
  ticket (its `Commit`) set it, public messages release nothing. `deleteRollsBack` is a deletion
  that queued its purge and then failed: `MessageEditor::delete` and `ModerationService::deleteNote`
  dispatch inside their transaction.
* `PurgeAttachmentFiles` is the queued purge. `purgeExpiredPending`, `forceDelete`,
  `purgeUnreferencedPublicChat`, `startDelete`, `finishDelete` are `PurgeExpiredUploads`; the last two
  are one conditional DELETE, whose subquery reads the statement's snapshot before it waits for the
  row lock.

`age` is 0, within the hour of a ticket; 1, past it; 2, past the day of the orphan grace. Multipart
assembly is part of `complete()`. The object store answers: a removal in `PurgeAttachmentFiles` that
fails, and its five tries, are left out. `exposed` collects, when it happens, a file one of the six
defects listed at `LiveFilesKept` endangers, so that the invariant speaks of every other file.

### Calls

`call` and `rows` are the tables; `lock` is the row lock of a call a `join()` holds from its count of
seats to its commit. `req[s]` is what the request of session `s` does next, `req["reconciler"]` the
same for the reconciler's `end()`.

* `start` / `startEnds`: the room's row lock is held while the SFU is asked; the insert commits or
  rolls back. `join` / `joinCommits`; `leave`; `end`; `decline`, which judges the copy it has loaded,
  and `declineEnds`, which ends the call although it may have been connected since. `EndCall`, `mark`,
  `deleteRoom` are the three statements of `end()`: `ended_at`, `left_at` of the rows, the SFU's room;
  what follows (`ringEnded`) is part of the last. `requestFails` is an SFU request that throws: what
  followed does not happen.
* `NotifyIncomingCall`, `NotifyMissedCall` are the jobs, which look at the call again.
* `ListRooms`, `load`, `purge`, `ListParticipants`, `sift`, `judge`, `endOver`, `sweep`, `roomFails` are
  one run of `ReconcileCalls`; each reads what it judges some steps before it acts on it. Of the
  clients the SFU lists only some are ACTIVE, and only those make a call connected.
* `connect`, `disconnect`, `closeEmpty` are the clients and the SFU, external; `removeMember` and
  `revokeSession` what other components do.

The ages 30 s and 60 s are nondeterministic (a stale row is any absent one; an unanswered call may
or may not be due), 90 s is `old`. A process that dies between two statements of `end()`, deletion
of the room or its workspace, meetings and the client's reconnection are left out.

### Sessions

`session` and `lineage` are the tables of the user, `store` the refresh token in `localStorage`, which
the tabs share; `tab` has the fields of `TokenManager`, with its epoch and the refresh and the login
under way. Of an access token it keeps the epoch in which it was asked for: `SameEpoch` is the
comparison that `TokenManager.doRefresh` and `ApiClient.requestInner` make when an answer arrives.
`establishSession`, `evictOverflowSessions`, `evict`, `loginIssues` are `LoginAction`, one revocation
per step. `execute`, `rotateRefreshToken`, `issueAccessToken`, `detectReuseOrFail`, `revokeReused` are
`RefreshAction` and `TokenService`: the conditional UPDATE and the lineage row are one transaction,
everything else commits by itself. A request may be lost before or after any of them (`lose`), fail
(`serverFails`), be answered late (`ignored`), be refused (`refused`) or be read in two steps, head
and body (`bodyFollows`, `setTokens`), between which the tab may clear or log in.

Left out: expiry of sessions and of access tokens on the server, the purge of lineage rows older
than a session lives, the lockout after failed logins, a login that dies between creating its
session and evicting others.

### AiReply

`rows` is the conversation; an answer has a job (`job`), a Redis list (`buffer`) and a cancel flag.

* `check`, `commit`, `dispatch`, `respond`, `giveUp`, `requestDies` are `AiController`'s send, regenerate
  and edit: the conversation is judged before the transaction, the job is queued after it.
  `cancelReply` is the cancellation.
* `begin`, `returnAtOnce`, `overflow`, `chunk`, `push`, `publish`, `streamEnds`, `save`, `announce`, `fail`,
  `jobEnds` are `GenerateAiReply::handle` and its `fail()`; `workerDies` loses the worker, or is what
  `handle()` throws itself while it handles an overflow, after which the queue tries once more.
  `retry_after` (730 s) exceeds the job's timeout (660 s), so the attempts
  do not overlap.
* `receive`, `hear`, `reload`, `showMessage`, `askFails` are `ai-stream.ts` and its hook; `frameLost` is
  the websocket, which loses frames but keeps their order.

The text of an answer is a sequence of tokens, one per flush, named by the run of the generator and
its index, so that a repeated or skipped piece shows. Left out: tool steps, quotas, the circuit
breaker, the limit on conversations at a time, memories, compaction, titles, the list of
conversations and its cached pages, `message_count`, the repeat of a send with its client id (for
which no index is unique) and the bot in rooms.

## 3. Runs

| Run | Bounds | States | Shows |
|---|---|---|---|
| `RoomLog` | 2 handlers, 2 members, 2 client ids, 2 rows, 1 edit | 432 K | `LogDense`, `ExactlyOnce`, `AnnouncedOnce`, `BadgeIsRight`, `ReadMonotonic`, `ImplementsFeed` |
| `RoomLogLastMessage` | 3 rows | | **violated**: a delete overwrites `last_message_id` with a stale choice |
| `Outbox` | 1 instance, 2 rooms, 2 messages, 1 restart, 1 attempt, 1 manual retry, saves may fail | 1.13 M | `Durable`, `GoneIsNeverSent` |
| `OutboxLive` | as above with 2 attempts, no failing save, no manual retry | 284 K | `FifoPerRoom`, `SendingIsInFlight`, `Drains` |
| `OutboxShared` | 2 instances | | **violated** `Durable` |
| `RoomView` | 3 messages, pages of 1, 1 edit or deletion, 1 disconnection, 2 requests at a time | 1.05 M | `WithheldHasDeadline`, `CopiesNeverRegress`, `CatchesUp` |
| `Uploads` | 1 file of any origin, a message, a note, a ticket, 2 public messages, 2 `complete()` at a time, 1 worker, 1 purge queued | 239 K | `NeverShared`, `LiveFilesKept`, `ReleasedForGood`, `ReleasedFilesGo`, `AbandonedIsRemoved` |
| `UploadsSwept` | 1 file, 1 public message | | **violated** `DeleteSparesClaimed` |
| `Calls` | 1 call, 4 sessions of 3 users, 3 rows, 2 requests at a time beside the reconciler, capacity 2, 1 removal in a direct room | 2.91 M | `SeatsKept`, `EndedIsEmpty`, `MissedIsTrue` |
| `CallsLive` | 1 call, 2 sessions, 2 rows, 1 request at a time, 1 removal or logout, no ring | 144 K | `RoomsAreDeleted`, `EvictedLoseMedia`, `AbandonedCallsEnd`, `UnansweredEnds` |
| `Sessions` | 2 tabs, 2 refreshes, 2 logins, 3 tokens, 2 clears per tab, 1 session allowed | 1.94 M | `OneHeir`, `ClearedStaysCleared`, `SessionLimit`, `RevokedIsFinal` |
| `AiReply` | 2 requests at a time; either 3 rows, 2 deaths and nobody watching, or 2 rows, 4 flushes, 3 frames and 2 answers under way to a client | 1.0 M | `ShownIsPrefix`, `OneGeneration`, `NoneAbandoned` |

Each passing run also checks its module's `TypeOK` (`OutboxLive` and `CallsLive` leave it to the
other run of their module).

Why the bounds are enough to be interesting:

* RoomLog: two handlers give every pair of overlapping requests, and with both row ids every order
  of send, system row, edit, delete and read on them, each with an `Abort` at any point; no handler
  looks at more than two rows at a time but `DeletePick`, whose run has three.
* Outbox: two messages in one room or in two give head-of-line blocking and its absence, and one
  restart falls between any two of their saves.
* RoomView: three messages with pages of one are the least with a hole that a single page fills, a
  window that grows at both ends, and a refresh of several pages.
* Uploads: conditions and locks are per file, so one file meets every contention; five holders are
  one of each kind and a second public message, and two `complete()` calls are the race in it.
* Calls: a room is direct (two users) or a group (three), with two seats. Three rows of three users,
  one of them with two devices, are enough for a third join to be refused for either reason, the
  seats or the second device; a join that stopped counting seats fills the third. In `Calls`
  somebody is evicted from the direct room only, which keeps the run short; the proofs do without.
  The two devices are interchangeable (symmetry). A second call only repeats the first, as `start`
  requires that none is open; the proofs lift the bound. In `CallsLive` either one user is removed
  or the other logged out, in either kind of room, so that both ways of being evicted happen; no
  push is sent there, as no push changes a call, and what is pushed is the business of `Calls`.
* Sessions: three tokens are a login's, its heir and the second login's. One allowed session makes
  every second login evict, and lets overlapping logins evict each other.
* AiReply: the two bounds are chosen in `Init`; three rows are a question, its answer and a
  regenerated one or a second question. Four flushes and three frames leave room for a lost frame
  between two applied ones and for an answer of API-117 that is older or newer than a frame.

`Next` of every module allows more than the runs do; each bound is a constant and in a guard, except
that a finite `MsgId` bounds the log itself.

Deadlock is checked where the system never stops: handlers can abort and become idle, a client can
always ask again, tickets can always be swept. `Calls`, `CallsLive`, `Sessions` and `AiReply` do stop,
when their calls, tokens or rows are used up and nothing is under way. Symmetry is used in safety
runs only.

Fairness, and why the code justifies it:

* `Outbox`, for `Drains`: a started client restores, comes online again, lands its saves, fires its
  timer, and hears back from each request, as `fetch` settles in the end. Nothing is assumed of the
  user or of the server, which may fail every request: then the entry ends as `failed`, which
  `Drains` allows. `OutboxLive` excludes rejecting saves.
* `RoomView` assumes none: that a refresh catches up (`CatchesUp`) is said of the step that ends it;
  withheld rows have a timer running that releases them (`WithheldHasDeadline`).
* `Uploads`: queue workers and the scheduler run, a transaction ends, time passes. The row lock is
  fair: a waiting statement gets it in its turn (strong fairness). Nothing is assumed of users, and
  nothing of workers that process: `AbandonedIsRemoved` holds though each one dies.
* `CallsLive`: requests end, the scheduler runs the reconciler every ten seconds, the clock advances.
  The SFU may fail any request, but not each time for ever, and a row that is absent each time is
  stale at last (strong fairness).

## 4. Findings

`PROJECT.json` quotes the lines; each has a run whose counterexample shows it.

1. `MessageEditor::delete` reads the room before its transaction: `last_message_id` can be left on
   an older message, or on the deleted one (`RoomLogLastMessage`).
2. Two tabs replace each other's saved outbox (`OutboxShared`).
3. The orphan sweep's DELETE removes a file that a claim committed while the DELETE waited for its row
   lock: PostgreSQL evaluates the WHERE again only for a row that was updated meanwhile, and a claim
   inserts into a pivot table (`UploadsSwept`).

Seen while modelling, part of the models, without a run of their own:

* `MessageEditor::edit` saves over a row deleted since it was loaded: the tombstone has a body, which
  the serializer hides.
* `Outbox.flush`: a save that rejects leaves its entry `sending` with no button to free it, and blocks
  the room until a restart. `enqueue()` may reject though a running flush has picked its entry up:
  the composer shows a failure and the message is sent.
* An edit of a message older than the loaded window makes that message the window
  (`message-store.ts:287-292`).
* Uploads: the six exposures listed at `LiveFilesKept`. Among them: `MessageEditor.php:99` (and
  `ModerationService.php:95`) dispatches `PurgeAttachmentFiles` inside the transaction, and
  `config/queue.php:79` has `after_commit` off; if the rest of the transaction fails, the message is
  live again while its files are purged a day later.
* Calls: the reconciler may end a call under somebody who joined or answered since it looked; a
  decline that crosses the caller's leave may push a missed call to who declined; an SFU failure in
  `end()` or `leave()` skips the missed-call push; `ListRooms` may delete the SFU room of a call whose
  insert has not committed, which the 90 s sweep repairs.
* Sessions: a refusal heard by one tab clears the newer token another stored; a logout with an
  expired access token leaves the session live; two tabs that refresh one token end the session, by
  design of the replay detection.
* AI: `completed` or `failed` frames lost while away are not fetched again when no later frame shows
  a gap; an answer to a POST or a cancel that comes after the final frame puts the entry back to
  streaming; a second attempt appends to the list of the first while its index starts over; an
  exception after the save makes a completed answer failed; a worker that dies twice, or a request
  that dies between commit and dispatch, leaves the conversation refusing questions; overlapping
  requests pass the in-flight check together.

## 5. Proofs

All for every value of the constants, under the `ASSUME`s of each module (null values are not members
of their sets, bounds are numbers), which the runs evaluate. The bounds of section 3 (one call,
three tokens, three rows) are lifted by them. Every invariant and every action property that a
passing run checks is proved, for `Outbox` under the assumptions its paragraph names.

**`RoomLogProofs`**: `TypeCorrect`, `LogStaysDense`, `SendsAreExactlyOnce`, `NothingAnnouncedTwice`,
`UniqueIndexesAreRedundant`, `ReadsStayInLog`, `BadgeStaysRight`, `ReadsNeverMoveBack`, `RowsStay`.
None of the invariants is inductive alone: that an insert keeps the log dense depends on the seq the
handler computed some steps earlier. `IInv` adds to the table-level facts what every handler's local
copy still says about the tables (`LocalOK`): a handler between lock and insert *is* the holder of the
room lock, its seq is `last_seq + 1` and its idempotency lookup is still empty. The lock makes these
stable, since only its holder changes `last_seq` or inserts. `FanOutUnique` and `created = 0` carry a
row from its insert to its one announcement; `UserSeqIsNewest` gives the badge.
The steps fall into four lemmas: `LocalStep` (a handler moves, tables stay), `InsertStep` (both
writers), `FanOutStep`, `MarkStep`; `NextIInv` has one step per action and cites them. `QuietStep`
and `CommitStep` say what a step may change in rows and pointers, from which the two action
properties follow.

**`OutboxProofs`**, all for a composer that awaits `restore()` (`AwaitRestore`, the web client):
`TypesCorrect`, `TypeCorrect` (`TypeOK`), and, without rejected saves, `SendingMarked`
(`SendingIsInFlight`) for any number of instances; `DurableAlways` (`Durable`), `GoneNeverSent`
(`GoneIsNeverSent`) and `FifoAlways` (`FifoPerRoom`) for one, rejected saves and crashes included,
for two replace each other's saved queue (`OutboxShared`). None is inductive: what is lost or sent
is decided by snapshots taken earlier and not yet on disk. `Types` ties the chain of saves to the
flush (`ChainOK`, `MarkOK`). `Keeps` says of an accepted message that is neither delivered nor
removed that it is on disk, in the queue and in *every* chained snapshot, and of a waiting
`enqueue()` that its own save and all later ones hold its entry. `Forgets` is the converse for what
was taken out: it is in no snapshot from its removal on. `Orders` says that whenever a message is
in a request, or is on its way to one, every older due one of its room is already safe, which
`pendingQueue` establishes when the flush picks its head. `Kinds` shows that every step does one of
eight things to queue, chain and disk or is the server's `Reach`, and each invariant has one case
per kind.

**`RoomLogRefinement`**: `RoomImplementsFeed`, that RoomLog implements `RoomFeed`. The feed of the
mapping is the sequence of rows by seq; by `LogDense` each position has one row (`RowAtInverse`), so
a commit of either writer is an append at the end with the sender's pointer (`CommitPosts`), and
`ExactlyOnce` before the step gives the guard of `Post`; `DeleteRow` erases, `MarkUpdate` reads on or
stutters, everything else stutters (`StepRefines`).

**`RoomViewProofs`**: `TypeCorrect`, `WithheldHasADeadline`, `NoRegress` (`CopiesNeverRegress`),
`RefreshCatchesUp` (`CatchesUp`). `CopiesOK` says that every copy in an event, in a page that was
read, and in the window is of the server's row at some time: fewer edits at most, and deleted only
if the row is. So a merge may keep the newer copy by what the two say, and a row that is up to date
stays so through whatever arrives late (`Learns`, which `mergePage`, `fillDelivered`, `markDeleted`
and `timeout` are shown to keep). `SyncOK` follows the refresh page by page: it has caught up with
each wanted row up to its cursor, or has it in the page it has read, or will ask for it. A row that
changes while the refresh runs (`sync.changed`) is not promised, as the code does not promise it.
The operators of `MessageStore` have lemmas of their own: `recompute()` leaves no window without a
deadline, and a window is rows by seq whatever is merged into it.

**`UploadsProofs`**: `ClaimsAreExclusive` (`NeverShared`), `ReleasedStays`, `HeldRowsExist`,
`TypeCorrect`, `LiveFilesAreKept` (`LiveFilesKept`). `ClaimOK` is the strengthening of the first
three: a claim holds the row locks of all it asks for and what it checked of them is still true, as
every other writer of a pivot row or of `deleted_at` waits for those locks. What is live keeps its
bytes for reasons scattered over every actor, which `FilesInv` collects. Of all files it says what
is under way names a file that was issued (`NamesOK`), what may be processed, claimed, purged or
swept is past its upload or has expired (`PastOK`), and what was copied under a pending ticket can
be copied again (`ObjectsOK`). Of a file that none of the six known defects has exposed it says that
what a `complete()` has copied is there until it saves the row (`Staging`), that it has one holder
(`Alone`), that one let go of has none and no other has a purge queued (`LetGo`), that a sweep about
to remove it has judged right (`Swept`), that its object is there unless its one worker refuses it
(`Whole`), and that its holder still has it (`Given`). That the defects are those six is what the
proof adds to the run: no other order of the steps, with any number of holders, workers and
requests, loses a live file.

**`CallsProofs`**: `TypeCorrect`, `SeatsAreKept`, `EndedCallsAreEmpty`, `MissedCallsAreTrue`,
`OneCallAtATime`. `ActorOK` says per actor that what its request checked under a lock is true until
it commits: a start has seen no open call and holds the room, a join has counted a free seat and
holds the call; a decline names a call that was begun. `LocksOK`, `RowsOK`, `RowBound` and
`ReconcilerOK` tie locks, rows and the reconciler's copies to the tables. `QuietStep` covers steps
that leave calls and rows alone; `StartStep`, `JoinStep`, `JoinCommitsStep`, `DeclineStep`, `EndStep`,
`MarkStep`, `LeaveStep`, `LookStep` the others.

**`SessionsProofs`**: `TypeCorrect`, `LogoutHolds` (`ClearedStaysCleared`), `RotationsHaveOneHeir`
(`OneHeir`), `RevocationHolds`. `TableOK`: every issued token is the current one of one session or
is recorded as consumed by one. `ServerOK` and `ClientOK` say per request that what it read is still
true, or was made untrue by a rotation that is recorded, so that the loser of a race finds the
lineage row and never answers "invalid"; `HeirUnique` follows from tokens being fresh. `LimitHolds`
(`SessionLimit`) needs an argument about all logins at once, since eviction takes no lock: `LimitOK`
says that once every login has chosen whom to evict, those that nobody has chosen (`Live \ Doomed`)
are at most `MaxSessions`. The last to choose saw all the others' sessions, and from then on the
rest can only become fewer.

**`AiReplyProofs`**: `TypeCorrect`, `GenerationsAreSingle` (`OneGeneration`),
`AnswersAreNotAbandoned` (`NoneAbandoned`), `ClientShowsAPrefix` (`ShownIsPrefix`). `JobOK` ties the
place of a job to the status of its answer; `JudgedOK` says that what a request judged is true until
another commits, `MadeOK` that the answer it made is not queued yet. `CommitStep` is the one step
that adds rows; `ClientStep`, `WorkerStep` and `RequestStep` the rest. What a client shows depends
on three views of one text that never agree at one moment: the list, the frames and answers under
way, the client's own. `Story` relates them for a first attempt. `Pushed` and `Carried` say that the
list is the run's flushes in order, and frames under way are those of the list in its order. `Told`
says that an answer has the list of some earlier moment, or the row. `Follows` is the point of the
proof: what the client has need not be as long as its index says (a seed leaves an index no frame
has, a final answer of API-117 starts over at -1), but if the frame it waits for *can still come*
(`ToCome`), its text ends right before that frame. A gap is only seen once frame 0 has passed, so
that an answer of API-117 never meets the frame of index 0. `Passing` shows that what is to come
only becomes less. A second attempt breaks `Pushed` (the list has the text of both), which is why
`ShownIsPrefix` is about the first.

Only model-checked: the liveness properties (`Drains`, `ReleasedFilesGo`, `AbandonedIsRemoved`,
`RoomsAreDeleted`, `EvictedLoseMedia`, `AbandonedCallsEnd`, `UnansweredEnds`), as the prover does
not do liveness under fairness. No property rests on a recursive definition.

## 6. Not modelled, and the plan

Not modelled: membership, roles and counts (`RoomController`), secret rooms and their expiry, public
meetings, reactions, public chat (it repeats the message log for visitors), notifications and push,
kanban but for its attachments, link previews, search, administration. Most of the code by lines is
React screens, forms over single rows, type declarations, migrations and test scripts, in which
nothing interleaves; the map names the lines of what does.

Next: membership with secret-room expiry; meetings beside calls; `Delivery`, outbox, log, channel and
window composed; the client's reactions.
