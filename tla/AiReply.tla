--------------------------------- MODULE AiReply ---------------------------------
(***************************************************************************)
(* The AI assistant: one conversation of one user.  A POST (send,          *)
(* regenerate, edit and re-send) adds a question or an answer and queues a *)
(* job, GenerateAiReply, which reads the provider's stream, pushes what it *)
(* read to a Redis list and publishes it as numbered frames.  A client     *)
(* assembles the frames (ai-stream.ts); where one is missing it asks       *)
(* API-117 for the list and goes on from there.                            *)
(*                                                                         *)
(* Requests judge the conversation before their transaction.  A job may be *)
(* tried twice, as its worker may die; the second attempt starts again on  *)
(* the same list.  The websocket keeps the order of frames and loses them  *)
(* while the client is away; answers of requests come whenever they come.  *)
(***************************************************************************)
EXTENDS Integers, Sequences, FiniteSets

CONSTANTS Request,     \* POSTs that may run at a time, from any device
          MaxRows,     \* bound: messages of a conversation
          Bounds       \* bounds, of which a behaviour has one: see Bound

Seqs == 1..MaxRows
tries == 2             \* GenerateAiReply::$tries

(* How many messages the conversation has, how many frames a generation,   *)
(* how many frames and answers are under way to the client (which keeps    *)
(* each answer apart: `watched` are followed to it), and how many workers  *)
(* and requests die.                                                       *)
Bound == [rows : 0..MaxRows, flushes : Nat, ahead : Nat, answers : Nat, watched : SUBSET Seqs, deaths : Nat]

ASSUME AiAssumption == MaxRows \in Nat /\ Bounds \subseteq Bound

VARIABLES
    rows,     \* ai_messages of the conversation, by seq
    last,     \* ai_conversations.last_seq
    request,  \* POSTs under way
    job,      \* the job of each answer, and what its worker has done
    buffer,   \* ai:gen:{id}: what was pushed for each answer
    cancel,   \* ai:cancel:{id}
    channel,  \* frames under way to the client
    stream,   \* the client: AiStreamState of each answer
    asked,    \* the client: API-117 requests not yet served
    answers,  \* what the server answered the client and it has not yet heard
    doubled,  \* answers generated beside another by a known race (see OneGeneration)
    deaths,   \* how often something died
    bound     \* the bounds of this behaviour

server == <<rows, last, request>>
worker == <<job, buffer, cancel>>
client == <<stream, asked>>
vars   == <<server, worker, channel, client, answers, doubled, deaths, bound>>

-------------------------------------------------------------------------------
(* Types *)

Status == {"pending", "streaming", "completed", "failed", "cancelled"}
InFlight == {"pending", "streaming"}
Final == Status \ InFlight

(* What one flush carries, by the run of generate() and its index.         *)
Token == Nat \X Nat
Row == [role : {"user", "assistant"}, status : Status, parent : Seqs, superseded : BOOLEAN,
        text : Seq(Token)]
NoRow == [role |-> "none", status |-> "none", parent |-> 0, superseded |-> FALSE, text |-> <<>>]
Question(n) == [role |-> "user", status |-> "completed", parent |-> n, superseded |-> FALSE, text |-> <<>>]
Answer(u) == [role |-> "assistant", status |-> "pending", parent |-> u, superseded |-> FALSE, text |-> <<>>]

(* A POST that has been judged, and one that has committed; `seen` is      *)
(* last_seq when it was judged, `made` the answer it made.                 *)
Post == [pc : {"idle", "checked", "committed", "dispatched"}, op : {"send", "regenerate", "edit"}, on : 0..MaxRows,
         seen : 0..MaxRows, made : 0..MaxRows]
Idle == [pc |-> "idle", op |-> "send", on |-> 0, seen |-> 0, made |-> 0]

Job == [pc : {"none", "lost", "queued", "stream", "saved", "announced", "failed", "done", "dead"},
        attempt : 1..tries, run : Nat, again : BOOLEAN,
        sent : Nat, pending : BOOLEAN, pushed : BOOLEAN, stop : {"no", "completed", "cancelled"}]
NoJob == [pc |-> "none", attempt |-> 1, run |-> 0, again |-> FALSE,
          sent |-> 0, pending |-> FALSE, pushed |-> FALSE, stop |-> "no"]

Started(m)      == [ev |-> "started", on |-> m, index |-> 0, text |-> <<>>]
Delta(m, i, t)  == [ev |-> "delta", on |-> m, index |-> i, text |-> <<t>>]
Completed(m, t) == [ev |-> "completed", on |-> m, index |-> 0, text |-> t]
Cancelled(m)    == [ev |-> "cancelled", on |-> m, index |-> 0, text |-> <<>>]
Failed(m)       == [ev |-> "failed", on |-> m, index |-> 0, text |-> <<>>]
Frame == [ev : {"started", "delta", "completed", "cancelled", "failed"}, on : Seqs, index : Nat,
          text : Seq(Token)]

Stream == [status : Status, text : Seq(Token), applied : Int, gap : BOOLEAN]
NoStream == [status |-> "none", text |-> <<>>, applied |-> -1, gap |-> FALSE]
Fresh == [status |-> "pending", text |-> <<>>, applied |-> -1, gap |-> FALSE]

(* The answer to a POST of this client, and to API-117. *)
Heard == [kind : {"seed", "sync"}, on : Seqs, status : Status, text : Seq(Token), index : Int]

TypeOK ==
    /\ rows \in [Seqs -> Row \cup {NoRow}]
    /\ last \in 0..MaxRows
    /\ request \in [Request -> Post]
    /\ job \in [Seqs -> Job]
    /\ buffer \in [Seqs -> Seq(Token)]
    /\ cancel \subseteq Seqs
    /\ channel \in Seq(Frame)
    /\ stream \in [Seqs -> Stream \cup {NoStream}]
    /\ asked \subseteq Seqs
    /\ answers \subseteq Heard
    /\ doubled \subseteq Seqs
    /\ bound \in Bounds
    /\ deaths \in 0..bound.deaths

Init ==
    /\ rows = [n \in Seqs |-> NoRow]
    /\ last = 0
    /\ request = [r \in Request |-> Idle]
    /\ job = [n \in Seqs |-> NoJob]
    /\ buffer = [n \in Seqs |-> <<>>]
    /\ cancel = {}
    /\ channel = <<>>
    /\ stream = [n \in Seqs |-> NoStream]
    /\ asked = {} /\ answers = {}
    /\ doubled = {} /\ deaths = 0
    /\ bound \in Bounds

-------------------------------------------------------------------------------
(* The controller.  What a request judges, it reads in one go; quotas, the *)
(* circuit breaker and the limit over all conversations only refuse.       *)

Live == {n \in Seqs : rows[n].status \in InFlight}
Standing(n) == rows[n] # NoRow /\ ~rows[n].superseded

generationGuard == Live = {}

regenerable(on) ==
    /\ rows[on].role = "assistant" /\ ~rows[on].superseded
    /\ rows[on].status \in Final
    /\ ~\E n \in Seqs : n > on /\ Standing(n)

editable(on) ==
    /\ rows[on].role = "user" /\ ~rows[on].superseded
    /\ ~\E n \in Seqs : n > on /\ Standing(n) /\ rows[n].role = "user"

judged(op, on) ==
    \/ op = "send" /\ on = 0
    \/ op = "regenerate" /\ on \in Seqs /\ regenerable(on)
    \/ op = "edit" /\ on \in Seqs /\ editable(on)

check(r, op, on) ==
    /\ request[r].pc = "idle"
    /\ judged(op, on) /\ generationGuard
    /\ last + (IF op = "send" THEN 2 ELSE 1) <= bound.rows
    /\ request' = [request EXCEPT ![r] = [Idle EXCEPT !.pc = "checked", !.op = op, !.on = on, !.seen = last]]
    /\ UNCHANGED <<rows, last, worker, channel, client, answers, doubled, deaths, bound>>

(* Another transaction committed since: the judgement is out of date.      *)
Overtaken(r) == last > request[r].seen

(* Mutant: a regenerated answer is left standing. *)
SupersededNot(r, n) == rows

(* What the transaction retires.  An edit retires what its UPDATE saw,     *)
(* which ran before it waited for the conversation's row.                  *)
Superseded(r, n) ==
    LET q == request[r]
        retired == CASE q.op = "send"       -> {}
                     [] q.op = "regenerate" -> {q.on}
                     [] q.op = "edit"       -> {k \in Seqs : k > q.on /\ k <= n /\ Standing(k)}
    IN [k \in Seqs |-> IF k \in retired THEN [rows[k] EXCEPT !.superseded = TRUE] ELSE rows[k]]

(* The question of the answer to be made. *)
Parent(q) == CASE q.op = "send" -> last + 1 [] q.op = "regenerate" -> rows[q.on].parent [] q.op = "edit" -> q.on

(* The transaction; seq is last_seq of the locked row and one. *)
commit(r) ==
    LET q == request[r]
        a == IF q.op = "send" THEN last + 2 ELSE last + 1
    IN /\ q.pc = "checked"
       /\ a <= bound.rows
       /\ \E n \in q.seen..last :
            rows' = [k \in Seqs |-> CASE k = a                       -> Answer(Parent(q))
                                      [] k # a /\ k > last /\ k < a  -> Question(k)
                                      [] OTHER                       -> Superseded(r, n)[k]]
       /\ last' = a
       /\ request' = [request EXCEPT ![r].pc = "committed", ![r].made = a]
       /\ doubled' = IF Overtaken(r) \/ q.on \in doubled THEN doubled \cup {a} ELSE doubled
       /\ UNCHANGED <<worker, channel, client, answers, deaths, bound>>

(* The job is queued. *)
dispatch(r) ==
    /\ request[r].pc = "committed"
    /\ job' = [job EXCEPT ![request[r].made].pc = "queued"]
    /\ request' = [request EXCEPT ![r].pc = "dispatched"]
    /\ UNCHANGED <<rows, last, buffer, cancel, channel, client, answers, doubled, deaths, bound>>

(* What AiBroadcast::message says of a row's content. *)
Shown(m) == IF rows[m].status = "completed" THEN rows[m].text ELSE <<>>

Respond(kind, m, status, text, index) ==
    /\ Cardinality(answers) < bound.answers
    /\ answers' = answers \cup {[kind |-> kind, on |-> m, status |-> status, text |-> text, index |-> index]}

(* The answer, to this client or to another device; an edit reads its      *)
(* answer's row once more.                                                 *)
respond(r) ==
    LET m == request[r].made IN
    /\ request[r].pc = "dispatched"
    /\ request' = [request EXCEPT ![r] = Idle]
    /\ \/ UNCHANGED answers
       \/ /\ m \in bound.watched
          /\ IF request[r].op = "edit" THEN Respond("seed", m, rows[m].status, Shown(m), -1)
                                       ELSE Respond("seed", m, "pending", <<>>, -1)
    /\ UNCHANGED <<rows, last, worker, channel, client, doubled, deaths, bound>>

(* The request is refused after all, or its transaction fails. *)
giveUp(r) ==
    /\ request[r].pc = "checked"
    /\ request' = [request EXCEPT ![r] = Idle]
    /\ UNCHANGED <<rows, last, worker, channel, client, answers, doubled, deaths, bound>>

(* Its process dies between the commit and the dispatch: nothing then      *)
(* generates the answer.                                                   *)
requestDies(r) ==
    /\ request[r].pc = "committed"
    /\ deaths < bound.deaths /\ deaths' = deaths + 1
    /\ job' = [job EXCEPT ![request[r].made].pc = "lost"]
    /\ request' = [request EXCEPT ![r] = Idle]
    /\ UNCHANGED <<rows, last, buffer, cancel, channel, client, answers, doubled, bound>>

(* cancel(): the flag the job looks for at each chunk. *)
cancelReply(m) ==
    /\ rows[m].status \in InFlight
    /\ m \notin cancel
    /\ cancel' = cancel \cup {m}
    /\ UNCHANGED <<server, job, buffer, channel, client, answers, doubled, deaths, bound>>

-------------------------------------------------------------------------------
(* GenerateAiReply *)

(* A frame joins the channel (where it may be lost).                       *)
Publish(f) ==
    channel' = IF f.on \in bound.watched /\ Len(channel) < bound.ahead THEN Append(channel, f) ELSE channel

Works(m, pc) == job[m].pc = pc

(* generate(), up to its loop: the list keeps what an earlier run pushed.  *)
Generate(m, j) ==
    /\ rows' = [rows EXCEPT ![m].status = "streaming"]
    /\ job' = [job EXCEPT ![m] = [j EXCEPT !.pc = "stream", !.run = @ + 1, !.sent = 0,
                                           !.pending = FALSE, !.pushed = FALSE, !.stop = "no"]]
    /\ Publish(Started(m))

(* Mutant: an answer that has begun is taken for somebody else's. *)
ReturnsAtOnce(status) == status \in {"completed", "cancelled", "streaming"}
Returns(status) == status \in {"completed", "cancelled"}

begin(m) ==
    /\ Works(m, "queued") /\ ~Returns(rows[m].status)
    /\ Generate(m, [job[m] EXCEPT !.again = FALSE])
    /\ doubled' = IF rows[m].status = "failed" THEN doubled \cup {m} ELSE doubled
    /\ UNCHANGED <<last, request, buffer, cancel, client, answers, deaths, bound>>

returnAtOnce(m) ==
    /\ Works(m, "queued") /\ Returns(rows[m].status)
    /\ job' = [job EXCEPT ![m].pc = "done"]
    /\ UNCHANGED <<server, buffer, cancel, channel, client, answers, doubled, deaths, bound>>

(* AI_CONTEXT_OVERFLOW answers the request itself: the conversation is     *)
(* compacted, and generate() runs once more.                               *)
overflow(m) ==
    /\ Works(m, "stream") /\ ~job[m].again
    /\ job[m].sent = 0 /\ ~job[m].pending /\ ~job[m].pushed /\ job[m].stop = "no"
    /\ Generate(m, [job[m] EXCEPT !.again = TRUE])
    /\ UNCHANGED <<last, request, buffer, cancel, client, answers, doubled, deaths, bound>>

Reading(m) == Works(m, "stream") /\ ~job[m].pushed /\ job[m].stop = "no"

(* A chunk of text; one that finds the flag is dropped and ends the loop.  *)
chunk(m) ==
    /\ Reading(m)
    /\ \/ /\ m \notin cancel
          /\ ~job[m].pending /\ job[m].sent < bound.flushes
          /\ job' = [job EXCEPT ![m].pending = TRUE]
       \/ /\ m \in cancel
          /\ job' = [job EXCEPT ![m].stop = "cancelled"]
    /\ UNCHANGED <<server, buffer, cancel, channel, client, answers, doubled, deaths, bound>>

streamEnds(m) ==
    /\ Reading(m)
    /\ job' = [job EXCEPT ![m].stop = "completed"]
    /\ UNCHANGED <<server, buffer, cancel, channel, client, answers, doubled, deaths, bound>>

(* A flush, also of the tail after the loop: the list first, ... *)
push(m) ==
    /\ Works(m, "stream") /\ job[m].pending /\ ~job[m].pushed
    /\ buffer' = [buffer EXCEPT ![m] = Append(@, <<job[m].run, job[m].sent>>)]
    /\ job' = [job EXCEPT ![m].pending = FALSE, ![m].pushed = TRUE]
    /\ UNCHANGED <<server, cancel, channel, client, answers, doubled, deaths, bound>>

(* ... then the frame. *)
publish(m) ==
    /\ Works(m, "stream") /\ job[m].pushed
    /\ Publish(Delta(m, job[m].sent, <<job[m].run, job[m].sent>>))
    /\ job' = [job EXCEPT ![m].pushed = FALSE, ![m].sent = @ + 1]
    /\ UNCHANGED <<server, buffer, cancel, client, answers, doubled, deaths, bound>>

(* $content: all this run has read. *)
Content(m) == [k \in 1..job[m].sent |-> <<job[m].run, k - 1>>]

save(m) ==
    /\ Works(m, "stream") /\ job[m].stop # "no" /\ ~job[m].pending /\ ~job[m].pushed
    /\ rows' = [rows EXCEPT ![m].status = job[m].stop, ![m].text = Content(m)]
    /\ job' = [job EXCEPT ![m].pc = "saved", ![m].sent = 0, ![m].stop = "no"]
    /\ UNCHANGED <<last, request, buffer, cancel, channel, client, answers, doubled, deaths, bound>>

announce(m) ==
    /\ Works(m, "saved")
    /\ cancel' = cancel \ {m}
    /\ Publish(IF rows[m].status = "completed" THEN Completed(m, Shown(m)) ELSE Cancelled(m))
    /\ job' = [job EXCEPT ![m].pc = "announced"]
    /\ UNCHANGED <<server, buffer, client, answers, doubled, deaths, bound>>

(* Whatever throws: no provider, the stream, Redis, or what follows the    *)
(* save of a finished answer.  The job then returns as if it had succeeded. *)
fail(m) ==
    /\ job[m].pc \in {"stream", "saved", "announced"} \/ (Works(m, "queued") /\ ~Returns(rows[m].status))
    /\ rows' = [rows EXCEPT ![m].status = "failed"]
    /\ Publish(Failed(m))
    /\ job' = [job EXCEPT ![m] = [NoJob EXCEPT !.pc = "failed", !.attempt = job[m].attempt, !.run = job[m].run]]
    /\ UNCHANGED <<last, request, buffer, cancel, client, answers, doubled, deaths, bound>>

jobEnds(m) ==
    /\ job[m].pc \in {"announced", "failed"}
    /\ job' = [job EXCEPT ![m].pc = "done"]
    /\ UNCHANGED <<server, buffer, cancel, channel, client, answers, doubled, deaths, bound>>

(* Mutant: the job is handed out however often it was tried. *)
workerDiesAlways(m) ==
    /\ job[m].pc \in {"stream", "saved", "announced", "failed"}
    /\ deaths < bound.deaths /\ deaths' = deaths + 1
    /\ job' = [job EXCEPT ![m] = [NoJob EXCEPT !.pc = "queued", !.attempt = job[m].attempt + 1, !.run = job[m].run]]
    /\ UNCHANGED <<server, buffer, cancel, channel, client, answers, doubled, bound>>

(* The worker dies, or is killed at the timeout: the queue hands the job   *)
(* out again, but no more than `tries` times.  So it does when handle()     *)
(* itself throws, which what fails while an overflow is handled makes it do. *)
workerDies(m) ==
    /\ job[m].pc \in {"stream", "saved", "announced", "failed"}
    /\ deaths < bound.deaths /\ deaths' = deaths + 1
    /\ job' = [job EXCEPT ![m] =
          IF job[m].attempt < tries
          THEN [NoJob EXCEPT !.pc = "queued", !.attempt = job[m].attempt + 1, !.run = job[m].run]
          ELSE [job[m] EXCEPT !.pc = "dead"]]
    /\ UNCHANGED <<server, buffer, cancel, channel, client, answers, doubled, bound>>

-------------------------------------------------------------------------------
(* The client: AiStreamStore and what drives it (state/ai.ts) *)

Ensure(m) == IF stream[m] = NoStream THEN Fresh ELSE stream[m]
Keep(m, s) == stream' = [stream EXCEPT ![m] = s]

(* Mutant: a frame is appended wherever it belongs. *)
DeltaAnywhere(s, f) ==
    IF s.status \in Final \/ f.index <= s.applied THEN s
    ELSE [s EXCEPT !.status = "streaming", !.text = @ \o f.text, !.applied = f.index]

(* A frame of text: known, out of turn, or next. *)
AppliedDelta(s, f) ==
    CASE s.status \in Final \/ f.index <= s.applied -> s
      [] s.status \notin Final /\ f.index > s.applied + 1 -> [s EXCEPT !.gap = TRUE]
      [] OTHER -> [s EXCEPT !.status = "streaming", !.text = @ \o f.text, !.applied = f.index]

apply(s, f) ==
    CASE f.ev = "started"   -> [s EXCEPT !.status = "streaming"]
      [] f.ev = "delta"     -> AppliedDelta(s, f)
      [] f.ev = "completed" -> [s EXCEPT !.status = "completed", !.text = f.text, !.gap = FALSE]
      [] f.ev = "cancelled" -> [s EXCEPT !.status = "cancelled", !.gap = FALSE]
      [] f.ev = "failed"    -> [s EXCEPT !.status = "failed", !.gap = FALSE]

(* applyEvent(): a text frame that finds a gap sends for the list.         *)
receive ==
    /\ channel # <<>>
    /\ channel' = Tail(channel)
    /\ LET f == Head(channel)
           s == apply(Ensure(f.on), f)
       IN /\ Keep(f.on, s)
          /\ asked' = IF f.ev = "delta" /\ s.gap THEN asked \cup {f.on} ELSE asked
    /\ UNCHANGED <<server, worker, answers, doubled, deaths, bound>>

(* The broadcast failed, or the client is away. *)
frameLost ==
    /\ channel # <<>>
    /\ channel' = Tail(channel)
    /\ UNCHANGED <<server, worker, client, answers, doubled, deaths, bound>>

(* showMessage(): the list while the answer is in flight, and how long it  *)
(* is; else the row.  (Read after the row, the list is one of a moment at  *)
(* which the row was still in flight.)                                     *)
streamState(m) == IF rows[m].status \in InFlight THEN [text |-> buffer[m], index |-> Len(buffer[m]) - 1]
                                                 ELSE [text |-> Shown(m), index |-> -1]
showMessage(m) ==
    /\ m \in asked
    /\ asked' = asked \ {m}
    /\ Respond("sync", m, rows[m].status, streamState(m).text, streamState(m).index)
    /\ UNCHANGED <<server, worker, channel, stream, doubled, deaths, bound>>

askFails(m) ==
    /\ m \in asked
    /\ asked' = asked \ {m}
    /\ UNCHANGED <<server, worker, channel, stream, answers, doubled, deaths, bound>>

(* No frame has an index so high (Number.MAX_SAFE_INTEGER in the code). *)
Beyond == bound.flushes

seed(s, a) ==
    IF a.status \in InFlight THEN [s EXCEPT !.status = a.status]
    ELSE [s EXCEPT !.status = a.status, !.text = a.text, !.applied = Beyond]

resync(s, a) == [status |-> a.status, text |-> a.text, applied |-> a.index, gap |-> FALSE]

hear(a) ==
    /\ a \in answers
    /\ answers' = answers \ {a}
    /\ Keep(a.on, IF a.kind = "seed" THEN seed(Ensure(a.on), a) ELSE resync(Ensure(a.on), a))
    /\ UNCHANGED <<server, worker, channel, asked, doubled, deaths, bound>>

(* The page is reloaded, or the user logs out: what was asked is not heard. *)
reload ==
    /\ stream' = [n \in Seqs |-> NoStream]
    /\ asked' = {} /\ answers' = {} /\ channel' = <<>>
    /\ UNCHANGED <<server, worker, doubled, deaths, bound>>

-------------------------------------------------------------------------------
(* Specification *)

Controller(r) ==
    \/ \E op \in {"send", "regenerate", "edit"}, on \in 0..MaxRows : check(r, op, on)
    \/ commit(r) \/ dispatch(r) \/ respond(r) \/ giveUp(r) \/ requestDies(r)

GenerateAiReply(m) ==
    \/ begin(m) \/ returnAtOnce(m) \/ overflow(m) \/ chunk(m) \/ streamEnds(m) \/ push(m) \/ publish(m)
    \/ save(m) \/ announce(m) \/ fail(m) \/ jobEnds(m) \/ workerDies(m)

Client ==
    \/ receive \/ frameLost \/ reload
    \/ (\E m \in bound.watched : showMessage(m) \/ askFails(m))
    \/ \E a \in answers : hear(a)

Next ==
    \/ \E r \in Request : Controller(r)
    \/ \E m \in Seqs : cancelReply(m) \/ GenerateAiReply(m)
    \/ Client

Spec == Init /\ [][Next]_vars

-------------------------------------------------------------------------------
(* Properties *)

(* What a client shows of an answer under way is what the job has pushed   *)
(* so far, from its beginning and without a hole, and what it shows of a   *)
(* completed one is its row, however frames, API-117 and answers to POSTs  *)
(* cross (ai-stream.ts).  Not so once a second attempt generates it: the   *)
(* list then has the text of both, and the indexes begin again.            *)
Prefix(s, t) == Len(s) <= Len(t) /\ \A k \in DOMAIN s : s[k] = t[k]
ShownIsPrefix ==
    \A m \in bound.watched : job[m].attempt = 1 =>
        /\ stream[m].status \in InFlight => Prefix(stream[m].text, buffer[m])
        /\ stream[m].status = "completed" => stream[m].text = rows[m].text

(* A conversation generates one answer at a time, and a question has one   *)
(* answer that stands (FR-AI-003, FR-AI-009), but for two races: a request *)
(* judged before another committed, and a job that was tried again after   *)
(* it had failed, when the user was free to ask on.                        *)
OneInFlight == \A m, n \in Live \ doubled : m = n
OneAnswer ==
    \A m, n \in Seqs \ doubled :
        rows[m].role = "assistant" /\ rows[n].role = "assistant" /\ rows[m].parent = rows[n].parent
          /\ Standing(m) /\ Standing(n) => m = n
OneGeneration == OneInFlight /\ OneAnswer

(* A job that is over leaves its answer in a final state, and an answer in *)
(* flight has a job to come, whatever was tried twice, cancelled, failed   *)
(* after the save or compacted in between: else the conversation refuses   *)
(* every further question.  (Jobs lost with a process, and those whose     *)
(* tries are used up, do leave it so.)                                     *)
NoneAbandoned ==
    \A m \in Live :
        /\ job[m].pc # "done"
        /\ job[m].pc = "none" => \E r \in Request : request[r].pc = "committed" /\ request[r].made = m

===============================================================================
