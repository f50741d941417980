----------------------------- MODULE AiReplyProofs -----------------------------
(***************************************************************************)
(* Proofs about AiReply, for any number of requests, any length of the     *)
(* conversation and any bounds.                                            *)
(*                                                                         *)
(* What a request judged is true until another commits (RequestOK), and    *)
(* the place its job has reached determines the status of an answer        *)
(* (JobOK).  From the first follows that a conversation generates one      *)
(* answer at a time, from the second that no answer is abandoned.          *)
(*                                                                         *)
(* What the client shows needs the story of an answer (Story): its list    *)
(* against the job, the frames and the answers under way against the list, *)
(* and the frame the client waits for against those that may still come.   *)
(***************************************************************************)
EXTENDS AiReply, TLAPS

(* The rows are those up to last_seq, and an answer follows its question.  *)
RowsOK ==
    \A m \in Seqs :
        /\ m > last => rows[m] = NoRow
        /\ m <= last => rows[m] \in Row /\ rows[m].parent <= m
        /\ rows[m].role = "assistant" => rows[m].parent < m

(* What the place of a job says about its answer. *)
JobOK ==
    \A m \in Seqs :
        /\ job[m].pc # "none" => m <= last
        /\ job[m].pc = "stream" => rows[m].status = "streaming"
        /\ job[m].pc \in {"saved", "announced", "failed", "done"} => rows[m].status \in Final

(* Frames and questions of the client are about rows. *)
ClientOK ==
    /\ \A k \in 1..Len(channel) : channel[k].on <= last
    /\ \A m \in asked : m <= last

(* What a request judged, while nobody else has committed; and the answer  *)
(* it made, until it is queued.                                            *)
JudgedOK(r) ==
    request[r].pc = "checked" =>
        /\ request[r].seen <= last /\ request[r].on <= last
        /\ request[r].op # "send" => request[r].on \in Seqs
        /\ ~Overtaken(r) =>
              /\ Live \subseteq doubled
              /\ request[r].op = "regenerate" =>
                    rows[request[r].on].role = "assistant" /\ Standing(request[r].on)
MadeOK(r) ==
    /\ request[r].pc \in {"committed", "dispatched"} => request[r].made \in 1..last
    /\ request[r].pc = "committed" => job[request[r].made].pc = "none"
    /\ \A s \in Request :
          request[r].pc = "committed" /\ request[s].pc = "committed" /\ request[r].made = request[s].made => r = s
RequestOK == \A r \in Request : JudgedOK(r) /\ MadeOK(r)

IInv == TypeOK /\ RowsOK /\ JobOK /\ ClientOK /\ RequestOK /\ OneInFlight /\ OneAnswer /\ NoneAbandoned

-------------------------------------------------------------------------------
(* Types *)

LEMMA BoundTypes == ASSUME TypeOK
                    PROVE  /\ bound.rows \in 0..MaxRows /\ bound.flushes \in Nat /\ bound.ahead \in Nat
                           /\ bound.answers \in Nat /\ bound.watched \subseteq Seqs /\ bound.deaths \in Nat
                           /\ MaxRows \in Nat
BY AiAssumption DEF TypeOK, Bound

LEMMA InitTypes == Init => TypeOK
<1> SUFFICES ASSUME Init PROVE TypeOK
  OBVIOUS
<1>1. Idle \in Post /\ NoJob \in Job
  BY AiAssumption DEF Idle, Post, NoJob, Job, tries
<1>2. bound \in Bounds /\ bound.deaths \in Nat
  BY AiAssumption DEF Init, Bound
<1>3. NoRow \in Row \cup {NoRow} /\ NoStream \in Stream \cup {NoStream} /\ <<>> \in Seq(Token) /\ <<>> \in Seq(Frame)
  OBVIOUS
<1> QED
  BY <1>1, <1>2, <1>3, AiAssumption DEF Init, TypeOK, Seqs

(* A frame joins the channel or does not. *)
LEMMA PublishTypes == ASSUME TypeOK, NEW f \in Frame, Publish(f) PROVE channel' \in Seq(Frame)
BY DEF TypeOK, Publish

LEMMA FrameTypes ==
    ASSUME NEW m \in Seqs, NEW i \in Nat, NEW t \in Token, NEW s \in Seq(Token)
    PROVE  /\ Started(m) \in Frame /\ Delta(m, i, t) \in Frame /\ Completed(m, s) \in Frame
           /\ Cancelled(m) \in Frame /\ Failed(m) \in Frame
<1>1. <<t>> \in Seq(Token) /\ <<>> \in Seq(Token)
  OBVIOUS
<1> QED
  BY <1>1 DEF Started, Delta, Completed, Cancelled, Failed, Frame

(* The record of a job after a step of its worker. *)
LEMMA JobStep ==
    ASSUME TypeOK, NEW m \in Seqs, NEW j \in Job, job' = [job EXCEPT ![m] = j]
    PROVE  job' \in [Seqs -> Job] /\ job'[m] = j /\ \A n \in Seqs \ {m} : job'[n] = job[n]
BY DEF TypeOK

LEMMA RowTypes ==
    ASSUME TypeOK, RowsOK, NEW m \in Seqs, m <= last
    PROVE  rows[m] \in Row /\ Shown(m) \in Seq(Token)
<1>1. rows[m] \in Row
  BY DEF RowsOK
<1>2. <<>> \in Seq(Token)
  OBVIOUS
<1> QED
  BY <1>1, <1>2 DEF Shown, Row

(* The controller.  `a` is the seq of the answer made. *)
LEMMA CommitRows ==
    ASSUME TypeOK, RowsOK, NEW r \in Request, JudgedOK(r), commit(r)
    PROVE  LET q == request[r]
               a == last' IN
           /\ a \in Seqs /\ a > last /\ request'[r].made = a
           /\ rows' \in [Seqs -> Row \cup {NoRow}]
           /\ rows'[a] = Answer(Parent(q)) /\ Parent(q) \in 1..(a - 1)
           /\ q.op = "send" => Parent(q) = last + 1
           /\ \A k \in Seqs : k > a => rows'[k] = NoRow
           /\ \A k \in Seqs : k > last /\ k < a => rows'[k] = Question(k)
           /\ \A k \in Seqs : k <= last =>
                 /\ rows'[k] \in Row /\ rows'[k].role = rows[k].role /\ rows'[k].status = rows[k].status
                 /\ rows'[k].parent = rows[k].parent /\ rows'[k].text = rows[k].text
                 /\ rows[k].superseded => rows'[k].superseded
           /\ ~Overtaken(r) /\ q.op = "regenerate" => rows'[q.on].superseded
           /\ ~Overtaken(r) /\ q.op = "edit" =>
                 \A k \in Seqs : k > q.on /\ k <= last => rows'[k].superseded
<1> DEFINE q == request[r]
<1> DEFINE a == IF q.op = "send" THEN last + 2 ELSE last + 1
<1>1. /\ q.pc = "checked" /\ a <= bound.rows /\ last' = a
      /\ request' = [request EXCEPT ![r].pc = "committed", ![r].made = a]
  BY DEF commit
<1>2. PICK n \in q.seen..last :
        rows' = [k \in Seqs |-> CASE k = a                       -> Answer(Parent(q))
                                  [] k # a /\ k > last /\ k < a  -> Question(k)
                                  [] OTHER                       -> Superseded(r, n)[k]]
  BY DEF commit
<1>3. /\ q \in Post /\ last \in 0..MaxRows /\ bound.rows \in 0..MaxRows /\ MaxRows \in Nat
      /\ q.op \in {"send", "regenerate", "edit"} /\ q.seen \in 0..MaxRows /\ q.on \in 0..MaxRows
  BY BoundTypes DEF TypeOK, Post
<1>4. a \in Seqs /\ a > last /\ a \in last + 1..last + 2
  BY <1>1, <1>3 DEF Seqs
<1>5. request'[r].made = a
  BY <1>1 DEF TypeOK, Post
<1>6. q.op # "send" => q.on \in Seqs /\ q.on <= last
  BY <1>1 DEF JudgedOK
<1>7. Parent(q) \in 1..(a - 1)
  <2>1. CASE q.op = "send"
    BY <2>1, <1>3 DEF Parent
  <2>2. CASE q.op = "regenerate"
    <3>1. rows[q.on] \in Row /\ rows[q.on].parent <= q.on
      BY <2>2, <1>6 DEF RowsOK
    <3>2. q.on \in Seqs /\ q.on <= last
      BY <2>2, <1>6
    <3> QED
      BY <2>2, <1>3, <3>1, <3>2 DEF Parent, Row, Seqs
  <2>3. CASE q.op = "edit"
    BY <2>3, <1>3, <1>6 DEF Parent, Seqs
  <2> QED
    BY <2>1, <2>2, <2>3, <1>3
<1>8. \A k \in Seqs : k <= last =>
        /\ rows'[k] \in Row /\ rows'[k].role = rows[k].role /\ rows'[k].status = rows[k].status
        /\ rows'[k].parent = rows[k].parent /\ rows'[k].text = rows[k].text
        /\ rows[k].superseded => rows'[k].superseded
  <2> SUFFICES ASSUME NEW k \in Seqs, k <= last
               PROVE  /\ rows'[k] \in Row /\ rows'[k].role = rows[k].role /\ rows'[k].status = rows[k].status
                      /\ rows'[k].parent = rows[k].parent /\ rows'[k].text = rows[k].text
                      /\ rows[k].superseded => rows'[k].superseded
    OBVIOUS
  <2>1. rows'[k] = Superseded(r, n)[k]
    BY <1>2, <1>3, <1>4 DEF Seqs
  <2>2. Superseded(r, n)[k] \in {rows[k], [rows[k] EXCEPT !.superseded = TRUE]}
    BY DEF Superseded
  <2>3. rows[k] \in Row
    BY DEF RowsOK
  <2> QED
    BY <2>1, <2>2, <2>3 DEF Row
<1>9. \A k \in Seqs : k > a => rows'[k] = NoRow
  <2> SUFFICES ASSUME NEW k \in Seqs, k > a PROVE rows'[k] = NoRow
    OBVIOUS
  <2>1. rows'[k] = Superseded(r, n)[k]
    BY <1>2, <1>3, <1>4 DEF Seqs
  <2>2. k > last /\ rows[k] = NoRow /\ n <= last
    BY <1>2, <1>3, <1>4 DEF RowsOK, Seqs
  <2>3. Superseded(r, n)[k] = rows[k]
    BY <2>2, <1>3, <1>6 DEF Superseded, Seqs
  <2> QED
    BY <2>1, <2>2, <2>3
<1>10. \A k \in Seqs : k > last /\ k < a => rows'[k] = Question(k)
  BY <1>2, <1>3, <1>4 DEF Seqs
<1>11. rows'[a] = Answer(Parent(q))
  BY <1>2, <1>4
<1>12. Answer(Parent(q)) \in Row
  <2>1. Parent(q) \in Seqs
    BY <1>7, <1>4, <1>3 DEF Seqs
  <2>2. <<>> \in Seq(Token)
    OBVIOUS
  <2> QED
    BY <2>1, <2>2 DEF Answer, Row, Status
<1>13. \A k \in Seqs : Question(k) \in Row
  <2>1. <<>> \in Seq(Token)
    OBVIOUS
  <2> QED
    BY <2>1 DEF Question, Row, Status
<1>14. rows' \in [Seqs -> Row \cup {NoRow}]
  <2>1. \A k \in Seqs : rows'[k] \in Row \cup {NoRow}
    <3> TAKE k \in Seqs
    <3>1. k <= last \/ (k > last /\ k < a) \/ k = a \/ k > a
      BY <1>3, <1>4 DEF Seqs
    <3> QED
      BY <3>1, <1>8, <1>9, <1>10, <1>11, <1>12, <1>13
  <2>2. DOMAIN rows' = Seqs /\ rows' = [k \in Seqs |-> rows'[k]]
    BY <1>2
  <2> QED
    BY <2>1, <2>2
<1>15. ~Overtaken(r) => n = last
  BY <1>2, <1>3 DEF Overtaken
<1>16. ~Overtaken(r) /\ q.op = "regenerate" => rows'[q.on].superseded
  <2> SUFFICES ASSUME q.op = "regenerate" PROVE rows'[q.on].superseded
    OBVIOUS
  <2>1. q.on \in Seqs /\ q.on <= last /\ rows[q.on] \in Row
    BY <1>6 DEF RowsOK
  <2>2. rows'[q.on] = Superseded(r, n)[q.on]
    BY <1>2, <1>3, <1>4, <2>1 DEF Seqs
  <2>3. Superseded(r, n)[q.on] = [rows[q.on] EXCEPT !.superseded = TRUE]
    BY <2>1 DEF Superseded
  <2> QED
    BY <2>1, <2>2, <2>3 DEF Row
<1>17. ~Overtaken(r) /\ q.op = "edit" => \A k \in Seqs : k > q.on /\ k <= last => rows'[k].superseded
  <2> SUFFICES ASSUME q.op = "edit", n = last, NEW k \in Seqs, k > q.on, k <= last
               PROVE  rows'[k].superseded
    BY <1>15
  <2>1. rows'[k] = Superseded(r, n)[k] /\ rows[k] \in Row
    BY <1>2, <1>3, <1>4 DEF Seqs, RowsOK
  <2>2. Superseded(r, n)[k] = IF Standing(k) THEN [rows[k] EXCEPT !.superseded = TRUE] ELSE rows[k]
    BY DEF Superseded
  <2>3. rows[k].superseded \/ Standing(k)
    BY <2>1 DEF Standing, NoRow, Row
  <2> QED
    BY <2>1, <2>2, <2>3 DEF Row
<1>18. q.op = "send" => Parent(q) = last + 1
  BY DEF Parent
<1> QED
  BY <1>1, <1>4, <1>5, <1>7, <1>8, <1>9, <1>10, <1>11, <1>14, <1>16, <1>17, <1>18

(* The job. *)
LEMMA WorkerTypes ==
    ASSUME TypeOK, RowsOK, JobOK, NEW m \in Seqs, GenerateAiReply(m)
    PROVE  TypeOK'
<1> USE DEF server, worker, client
<1>0. bound.deaths \in Nat /\ MaxRows \in Nat /\ m \in Nat
  BY BoundTypes DEF Seqs
<1>a. NoJob \in Job /\ <<>> \in Seq(Token) /\ <<>> \in Seq(Frame) /\ job[m] \in Job
  BY <1>0 DEF NoJob, Job, tries, TypeOK
<1>b. job[m].pc # "none" => rows[m] \in Row /\ Shown(m) \in Seq(Token)
  BY RowTypes DEF JobOK
<1>c. Started(m) \in Frame /\ Cancelled(m) \in Frame /\ Failed(m) \in Frame
  BY <1>a, FrameTypes, <1>0 DEF Started, Cancelled, Failed, Frame
<1>d. ASSUME job[m].pc # "none", NEW b \in BOOLEAN, Generate(m, [job[m] EXCEPT !.again = b])
      PROVE  rows' \in [Seqs -> Row \cup {NoRow}] /\ job' \in [Seqs -> Job] /\ channel' \in Seq(Frame)
  <2>1. [rows[m] EXCEPT !.status = "streaming"] \in Row
    BY <1>b, <1>d DEF Row, Status
  <2>2. channel' \in Seq(Frame)
    BY <1>c, <1>d, PublishTypes DEF Generate
  <2>3. [job[m] EXCEPT !.again = b] \in Job
    BY <1>a DEF Job
  <2>4. PICK j \in Job : j = [job[m] EXCEPT !.again = b]
    BY <2>3
  <2>41. j.run + 1 \in Nat
    BY DEF Job
  <2>5. [j EXCEPT !.pc = "stream", !.run = @ + 1, !.sent = 0, !.pending = FALSE, !.pushed = FALSE, !.stop = "no"] \in Job
    BY <2>41 DEF Job
  <2>6. job' \in [Seqs -> Job]
    BY <1>d, <2>4, <2>5 DEF Generate, TypeOK
  <2>7. rows' \in [Seqs -> Row \cup {NoRow}]
    BY <1>d, <2>1 DEF Generate, TypeOK
  <2> QED
    BY <2>2, <2>6, <2>7
<1>1. CASE begin(m)
  <2>1. job[m].pc # "none" /\ Generate(m, [job[m] EXCEPT !.again = FALSE])
    BY <1>1 DEF begin, Works
  <2> QED
    BY <1>1, <2>1, <1>d DEF begin, TypeOK
<1>2. CASE returnAtOnce(m)
  <2>1. [job[m] EXCEPT !.pc = "done"] \in Job
    BY <1>a DEF Job
  <2> QED
    BY <1>2, <2>1 DEF returnAtOnce, TypeOK
<1>3. CASE overflow(m)
  <2>1. job[m].pc # "none" /\ Generate(m, [job[m] EXCEPT !.again = TRUE])
    BY <1>3 DEF overflow, Works
  <2> QED
    BY <1>3, <2>1, <1>d DEF overflow, TypeOK
<1>4. CASE chunk(m)
  <2>1. [job[m] EXCEPT !.pending = TRUE] \in Job /\ [job[m] EXCEPT !.stop = "cancelled"] \in Job
    BY <1>a DEF Job
  <2> QED
    BY <1>4, <2>1 DEF chunk, TypeOK
<1>5. CASE streamEnds(m)
  <2>1. [job[m] EXCEPT !.stop = "completed"] \in Job
    BY <1>a DEF Job
  <2> QED
    BY <1>5, <2>1 DEF streamEnds, TypeOK
<1>6. CASE push(m)
  <2>1. [[job[m] EXCEPT !.pending = FALSE] EXCEPT !.pushed = TRUE] \in Job
    BY <1>a DEF Job
  <2>2. job' = [job EXCEPT ![m] = [[job[m] EXCEPT !.pending = FALSE] EXCEPT !.pushed = TRUE]]
    BY <1>6 DEF push, TypeOK
  <2>3. <<job[m].run, job[m].sent>> \in Token
    BY <1>a DEF Job, Token
  <2>4. buffer' \in [Seqs -> Seq(Token)]
    BY <1>6, <2>3 DEF push, TypeOK
  <2> QED
    BY <1>6, <2>1, <2>2, <2>4 DEF push, TypeOK
<1>7. CASE publish(m)
  <2>0. job[m].sent + 1 \in Nat
    BY <1>a DEF Job
  <2>1. [[job[m] EXCEPT !.pushed = FALSE] EXCEPT !.sent = @ + 1] \in Job
    BY <2>0, <1>a DEF Job
  <2>2. job' = [job EXCEPT ![m] = [[job[m] EXCEPT !.pushed = FALSE] EXCEPT !.sent = @ + 1]]
    BY <1>7 DEF publish, TypeOK
  <2>3. <<job[m].run, job[m].sent>> \in Token /\ job[m].sent \in Nat
    BY <1>a DEF Job, Token
  <2>4. Delta(m, job[m].sent, <<job[m].run, job[m].sent>>) \in Frame
    BY <2>3, <1>a, FrameTypes
  <2>5. channel' \in Seq(Frame)
    BY <1>7, <2>4, PublishTypes DEF publish
  <2> QED
    BY <1>7, <2>1, <2>2, <2>5 DEF publish, TypeOK
<1>8. CASE save(m)
  <2>1. job[m].run \in Nat /\ job[m].sent \in Nat /\ job[m].stop \in {"completed", "cancelled"}
    BY <1>8, <1>a DEF save, Job
  <2>2. Content(m) \in Seq(Token)
    BY <2>1 DEF Content, Token
  <2>3. rows[m] \in Row
    BY <1>8, <1>b DEF save, Works
  <2>4. [[rows[m] EXCEPT !.status = job[m].stop] EXCEPT !.text = Content(m)] \in Row
    BY <2>1, <2>2, <2>3 DEF Row, Status
  <2>5. rows' = [rows EXCEPT ![m] = [[rows[m] EXCEPT !.status = job[m].stop] EXCEPT !.text = Content(m)]]
    BY <1>8 DEF save, TypeOK
  <2>6. [[[job[m] EXCEPT !.pc = "saved"] EXCEPT !.sent = 0] EXCEPT !.stop = "no"] \in Job
    BY <1>a DEF Job
  <2>7. job' = [job EXCEPT ![m] = [[[job[m] EXCEPT !.pc = "saved"] EXCEPT !.sent = 0] EXCEPT !.stop = "no"]]
    BY <1>8 DEF save, TypeOK
  <2> QED
    BY <1>8, <2>4, <2>5, <2>6, <2>7 DEF save, TypeOK
<1>9. CASE announce(m)
  <2>1. [job[m] EXCEPT !.pc = "announced"] \in Job
    BY <1>a DEF Job
  <2>2. Shown(m) \in Seq(Token)
    BY <1>9, <1>b DEF announce, Works
  <2>3. Completed(m, Shown(m)) \in Frame
    BY <2>2 DEF Completed, Frame
  <2>4. channel' \in Seq(Frame)
    BY <1>9, <2>3, <1>c, PublishTypes DEF announce
  <2> QED
    BY <1>9, <2>1, <2>4 DEF announce, TypeOK
<1>10. CASE fail(m)
  <2>1. job[m].pc # "none"
    BY <1>10 DEF fail, Works
  <2>2. [rows[m] EXCEPT !.status = "failed"] \in Row
    BY <2>1, <1>b DEF Row, Status
  <2>3. [NoJob EXCEPT !.pc = "failed", !.attempt = job[m].attempt, !.run = job[m].run] \in Job
    BY <1>a DEF Job, NoJob
  <2>4. channel' \in Seq(Frame)
    BY <1>10, <1>c, PublishTypes DEF fail
  <2> QED
    BY <1>10, <2>2, <2>3, <2>4 DEF fail, TypeOK
<1>11. CASE jobEnds(m)
  <2>1. [job[m] EXCEPT !.pc = "done"] \in Job
    BY <1>a DEF Job
  <2> QED
    BY <1>11, <2>1 DEF jobEnds, TypeOK
<1>12. CASE workerDies(m)
  <2>1. [job[m] EXCEPT !.pc = "dead"] \in Job
    BY <1>a DEF Job
  <2>0. job[m].run \in Nat /\ (job[m].attempt < tries => job[m].attempt + 1 \in 1..tries)
    BY <1>a DEF Job, tries
  <2>2. job[m].attempt < tries =>
          [NoJob EXCEPT !.pc = "queued", !.attempt = job[m].attempt + 1, !.run = job[m].run] \in Job
    BY <2>0, <1>a DEF Job
  <2>3. deaths' \in 0..bound.deaths
    BY <1>12, <1>0 DEF workerDies, TypeOK
  <2> QED
    BY <1>12, <2>1, <2>2, <2>3 DEF workerDies, TypeOK
<1> QED
  BY <1>1, <1>2, <1>3, <1>4, <1>5, <1>6, <1>7, <1>8, <1>9, <1>10, <1>11, <1>12 DEF GenerateAiReply

(* The client. *)
LEMMA EnsureTypes == ASSUME TypeOK, NEW m \in Seqs PROVE Ensure(m) \in Stream
<1>1. "pending" \in Status /\ -1 \in Int /\ <<>> \in Seq(Token)
  BY DEF Status
<1>2. PICK t \in Seq(Token) : t = <<>>
  BY <1>1
<1>3. PICK i \in Int : i = -1
  BY <1>1
<1>4. [status |-> "pending", text |-> t, applied |-> i, gap |-> FALSE] \in Stream
  BY <1>1 DEF Stream
<1>5. Fresh \in Stream
  BY <1>2, <1>3, <1>4 DEF Fresh
<1> QED
  BY <1>5 DEF Ensure, TypeOK

LEMMA ClientTypes ==
    ASSUME TypeOK, RowsOK, ClientOK, Client
    PROVE  TypeOK'
<1> USE DEF server, worker, client
<1>0. bound.flushes \in Nat /\ bound.watched \subseteq Seqs
  BY BoundTypes
<1>a. NoStream \in Stream \cup {NoStream} /\ <<>> \in Seq(Token) /\ <<>> \in Seq(Frame)
  OBVIOUS
<1>b. ASSUME NEW m \in Seqs PROVE Ensure(m) \in Stream
  BY EnsureTypes
<1>c. ASSUME NEW s \in Stream, NEW f \in Frame PROVE apply(s, f) \in Stream
  <2>0. /\ s.text \in Seq(Token) /\ f.text \in Seq(Token) /\ f.index \in Int
        /\ f.ev \in {"started", "delta", "completed", "cancelled", "failed"}
    BY DEF Stream, Frame
  <2>1. [s EXCEPT !.status = "streaming"] \in Stream
    BY DEF Stream, Status
  <2>2. AppliedDelta(s, f) \in Stream
    <3>1. [s EXCEPT !.gap = TRUE] \in Stream
      BY DEF Stream
    <3>2. s.text \o f.text \in Seq(Token)
      BY <2>0
    <3>3. [s EXCEPT !.status = "streaming", !.text = @ \o f.text, !.applied = f.index] \in Stream
      BY <2>0, <3>2 DEF Stream, Status
    <3> QED
      BY <3>1, <3>3 DEF AppliedDelta
  <2>3. [s EXCEPT !.status = "completed", !.text = f.text, !.gap = FALSE] \in Stream
    BY <2>0 DEF Stream, Status
  <2>4. [s EXCEPT !.status = "cancelled", !.gap = FALSE] \in Stream /\ [s EXCEPT !.status = "failed", !.gap = FALSE] \in Stream
    BY DEF Stream, Status
  <2> QED
    BY <2>0, <2>1, <2>2, <2>3, <2>4 DEF apply
<1>1. CASE receive
  <2>1. PICK f \in Frame : f = Head(channel)
    BY <1>1 DEF receive, TypeOK
  <2>2. f.on \in Seqs
    BY DEF Frame
  <2>3. apply(Ensure(f.on), f) \in Stream
    BY <1>b, <1>c, <2>2
  <2>4. stream' \in [Seqs -> Stream \cup {NoStream}]
    BY <1>1, <2>1, <2>3 DEF receive, Keep, TypeOK
  <2>5. asked' \subseteq Seqs
    BY <1>1, <2>1, <2>2 DEF receive, TypeOK
  <2>6. channel' \in Seq(Frame)
    BY <1>1 DEF receive, TypeOK
  <2> QED
    BY <1>1, <2>4, <2>5, <2>6 DEF receive, TypeOK
<1>2. CASE frameLost
  <2>1. channel' \in Seq(Frame)
    BY <1>2 DEF frameLost, TypeOK
  <2> QED
    BY <1>2, <2>1 DEF frameLost, TypeOK
<1>3. CASE reload
  BY <1>3, <1>a DEF reload, TypeOK
<1>4. ASSUME NEW m \in bound.watched, showMessage(m) PROVE TypeOK'
  <2>1. m \in Seqs
    BY <1>0
  <2>2. streamState(m).text \in Seq(Token) /\ streamState(m).index \in Int
    <3>2. Shown(m) \in Seq(Token)
      BY <2>1, <1>4, RowTypes DEF showMessage, ClientOK
    <3>3. buffer[m] \in Seq(Token) /\ Len(buffer[m]) - 1 \in Int /\ -1 \in Int
      BY <2>1 DEF TypeOK
    <3> QED
      BY <3>2, <3>3 DEF streamState
  <2>3. rows[m].status \in Status
    BY <2>1, <1>4, RowTypes DEF showMessage, ClientOK, Row
  <2>4. [kind |-> "sync", on |-> m, status |-> rows[m].status, text |-> streamState(m).text,
         index |-> streamState(m).index] \in Heard
    BY <2>1, <2>2, <2>3 DEF Heard
  <2>5. answers' \subseteq Heard
    BY <1>4, <2>4 DEF showMessage, Respond, TypeOK
  <2> QED
    BY <1>4, <2>5 DEF showMessage, TypeOK
<1>5. ASSUME NEW m \in bound.watched, askFails(m) PROVE TypeOK'
  BY <1>5 DEF askFails, TypeOK
<1>6. ASSUME NEW a \in answers, hear(a) PROVE TypeOK'
  <2>1. a \in Heard /\ a.on \in Seqs /\ a.text \in Seq(Token) /\ a.status \in Status /\ a.index \in Int
    BY DEF TypeOK, Heard
  <2>2. PICK s \in Stream : s = Ensure(a.on)
    BY <1>b, <2>1
  <2>3. seed(s, a) \in Stream
    <3>1. [s EXCEPT !.status = a.status] \in Stream
      BY <2>1 DEF Stream
    <3>2. Beyond \in Int
      BY <1>0 DEF Beyond
    <3>3. [s EXCEPT !.status = a.status, !.text = a.text, !.applied = Beyond] \in Stream
      BY <2>1, <3>2 DEF Stream
    <3> QED
      BY <3>1, <3>3 DEF seed
  <2>4. resync(s, a) \in Stream
    BY <2>1 DEF resync, Stream
  <2>5. stream' \in [Seqs -> Stream \cup {NoStream}]
    BY <1>6, <2>2, <2>3, <2>4 DEF hear, Keep, TypeOK
  <2> QED
    BY <1>6, <2>5 DEF hear, TypeOK
<1> QED
  BY <1>1, <1>2, <1>3, <1>4, <1>5, <1>6 DEF Client

LEMMA TypeStep ==
    ASSUME TypeOK, RowsOK, JobOK, ClientOK, RequestOK, [Next]_vars
    PROVE  TypeOK'
<1> USE DEF server, worker, client
<1>0. /\ bound.rows \in 0..MaxRows /\ bound.flushes \in Nat /\ bound.ahead \in Nat /\ bound.answers \in Nat
      /\ bound.watched \subseteq Seqs /\ bound.deaths \in Nat /\ MaxRows \in Nat
  BY BoundTypes
<1>a. Idle \in Post /\ NoJob \in Job /\ <<>> \in Seq(Token) /\ <<>> \in Seq(Frame)
  BY <1>0 DEF Idle, Post, NoJob, Job, tries
<1>1. CASE UNCHANGED vars
  BY <1>1 DEF vars, TypeOK
<1>2. ASSUME NEW r \in Request, NEW op \in {"send", "regenerate", "edit"}, NEW on \in 0..MaxRows, check(r, op, on)
      PROVE  TypeOK'
  <2>1. [Idle EXCEPT !.pc = "checked", !.op = op, !.on = on, !.seen = last] \in Post
    <3>1. last \in 0..MaxRows
      BY DEF TypeOK
    <3>2. PICK i \in Post : i = Idle
      BY <1>a
    <3>3. [i EXCEPT !.pc = "checked", !.op = op, !.on = on, !.seen = last] \in Post
      BY <3>1 DEF Post
    <3> QED
      BY <3>2, <3>3
  <2> QED
    BY <1>2, <2>1 DEF check, TypeOK
<1>3. ASSUME NEW r \in Request, commit(r) PROVE TypeOK'
  <2>1. JudgedOK(r)
    BY DEF RequestOK
  <2>2. rows' \in [Seqs -> Row \cup {NoRow}] /\ last' \in Seqs
    BY <1>3, <2>1, CommitRows
  <2>3. [[request[r] EXCEPT !.pc = "committed"] EXCEPT !.made = last'] \in Post
    <3>1. last' \in 0..MaxRows
      BY <2>2, <1>0 DEF Seqs
    <3>2. request[r] \in Post
      BY DEF TypeOK
    <3> QED
      BY <3>1, <3>2 DEF Post
  <2>4. request' = [request EXCEPT ![r] = [[request[r] EXCEPT !.pc = "committed"] EXCEPT !.made = last']]
    BY <1>3 DEF commit, TypeOK
  <2>5. request' \in [Request -> Post]
    BY <2>3, <2>4 DEF TypeOK
  <2>6. doubled' \subseteq Seqs /\ last' \in 0..MaxRows
    BY <1>3, <2>2, <1>0 DEF commit, TypeOK, Seqs
  <2> QED
    BY <1>3, <2>2, <2>5, <2>6 DEF commit, TypeOK
<1>4. ASSUME NEW r \in Request, dispatch(r) PROVE TypeOK'
  <2>1. [request[r] EXCEPT !.pc = "dispatched"] \in Post
    BY DEF TypeOK, Post
  <2>2. request[r].made \in Seqs
    BY <1>4, <1>0 DEF dispatch, RequestOK, MadeOK, TypeOK, Seqs
  <2>3. [job[request[r].made] EXCEPT !.pc = "queued"] \in Job
    <3>1. job[request[r].made] \in Job
      BY <2>2 DEF TypeOK
    <3> QED
      BY <3>1 DEF Job
  <2> QED
    BY <1>4, <2>1, <2>3 DEF dispatch, TypeOK
<1>5. ASSUME NEW r \in Request, respond(r) PROVE TypeOK'
  <2> DEFINE m == request[r].made
  <2>1. m \in Seqs /\ m <= last
    BY <1>5, <1>0 DEF respond, RequestOK, MadeOK, TypeOK, Seqs
  <2>2. rows[m] \in Row /\ Shown(m) \in Seq(Token)
    BY <2>1, RowTypes
  <2>3. /\ [kind |-> "seed", on |-> m, status |-> rows[m].status, text |-> Shown(m), index |-> -1] \in Heard
        /\ [kind |-> "seed", on |-> m, status |-> "pending", text |-> <<>>, index |-> -1] \in Heard
    BY <2>1, <2>2, <1>a DEF Heard, Row, Status
  <2>4. answers' \subseteq Heard
    BY <1>5, <2>3 DEF respond, Respond, TypeOK
  <2> QED
    BY <1>5, <2>4, <1>a DEF respond, TypeOK
<1>6. ASSUME NEW r \in Request, giveUp(r) PROVE TypeOK'
  BY <1>6, <1>a DEF giveUp, TypeOK
<1>7. ASSUME NEW r \in Request, requestDies(r) PROVE TypeOK'
  <2>1. request[r].made \in Seqs
    BY <1>7, <1>0 DEF requestDies, RequestOK, MadeOK, TypeOK, Seqs
  <2>2. [job[request[r].made] EXCEPT !.pc = "lost"] \in Job
    <3>1. job[request[r].made] \in Job
      BY <2>1 DEF TypeOK
    <3> QED
      BY <3>1 DEF Job
  <2>3. deaths' \in 0..bound.deaths
    BY <1>7, <1>0 DEF requestDies, TypeOK
  <2> QED
    BY <1>7, <2>2, <2>3, <1>a DEF requestDies, TypeOK
<1>8. ASSUME NEW m \in Seqs, cancelReply(m) PROVE TypeOK'
  BY <1>8 DEF cancelReply, TypeOK
<1>9. ASSUME NEW m \in Seqs, GenerateAiReply(m) PROVE TypeOK'
  BY <1>9, WorkerTypes
<1>10. ASSUME Client PROVE TypeOK'
  BY <1>10, ClientTypes
<1> QED
  BY <1>1, <1>2, <1>3, <1>4, <1>5, <1>6, <1>7, <1>8, <1>9, <1>10 DEF Next, Controller

-------------------------------------------------------------------------------
(* The control *)

Control == RowsOK /\ JobOK /\ ClientOK /\ RequestOK /\ OneInFlight /\ OneAnswer /\ NoneAbandoned

LEMMA InitControl == Init => Control
<1> SUFFICES ASSUME Init PROVE Control
  OBVIOUS
<1>1. /\ \A m \in Seqs : rows[m] = NoRow /\ job[m].pc = "none"
      /\ \A r \in Request : request[r].pc = "idle"
      /\ last = 0 /\ channel = <<>> /\ asked = {}
  BY DEF Init, NoJob, Idle
<1>2. \A m \in Seqs : rows[m].status = "none" /\ rows[m].role = "none" /\ m > 0
  BY <1>1, AiAssumption DEF NoRow, Seqs
<1>3. Live = {}
  BY <1>2 DEF Live, InFlight
<1>4. RowsOK /\ JobOK
  BY <1>1, <1>2, AiAssumption DEF RowsOK, JobOK, Seqs, NoRow
<1>5. ClientOK /\ RequestOK
  BY <1>1 DEF ClientOK, RequestOK, JudgedOK, MadeOK
<1>6. OneInFlight /\ OneAnswer /\ NoneAbandoned
  BY <1>2, <1>3 DEF OneInFlight, OneAnswer, NoneAbandoned
<1> QED
  BY <1>4, <1>5, <1>6 DEF Control

(* Frames that leave or are lost, and one about a row that joins. *)
LEMMA PublishClient ==
    ASSUME TypeOK, ClientOK, NEW f \in Frame, f.on <= last, last' = last, UNCHANGED asked, Publish(f)
    PROVE  ClientOK'
<1>1. channel \in Seq(Frame) /\ last \in Int
  BY BoundTypes DEF TypeOK
<1>2. channel' = channel \/ channel' = Append(channel, f)
  BY DEF Publish
<1>3. \A k \in 1..Len(channel') : channel'[k].on <= last
  <2> TAKE k \in 1..Len(channel')
  <2>1. CASE channel' = channel
    BY <2>1 DEF ClientOK
  <2>2. CASE channel' = Append(channel, f)
    <3>1. (k \in 1..Len(channel) /\ channel'[k] = channel[k]) \/ channel'[k] = f
      BY <2>2, <1>1
    <3> QED
      BY <3>1 DEF ClientOK
  <2> QED
    BY <1>2, <2>1, <2>2
<1> QED
  BY <1>3 DEF ClientOK

(* Whatever leaves the conversation and its jobs alone. *)
LEMMA QuietStep ==
    ASSUME Control, UNCHANGED <<rows, last, request, job, doubled>>
    PROVE  (RowsOK /\ JobOK /\ RequestOK /\ OneInFlight /\ OneAnswer /\ NoneAbandoned)'
BY DEF Control, RowsOK, JobOK, RequestOK, JudgedOK, MadeOK, Overtaken, OneInFlight, OneAnswer, NoneAbandoned, Live, Standing

(* A step of the client. *)
LEMMA ClientStep == ASSUME TypeOK, Control, Client PROVE Control'
<1>1. UNCHANGED <<rows, last, request, job, doubled>>
  BY DEF Client, receive, frameLost, reload, showMessage, askFails, hear, server, worker
<1>2. channel \in Seq(Frame)
  BY DEF TypeOK
<1>3. ClientOK'
  <2>1. CASE receive
    <3>1. channel' = Tail(channel) /\ channel # <<>>
      BY <2>1 DEF receive
    <3>2. \A k \in 1..Len(channel') : channel'[k] = channel[k + 1] /\ k + 1 \in 1..Len(channel)
      BY <3>1, <1>2
    <3>3. Head(channel) = channel[1] /\ 1 \in 1..Len(channel)
      BY <3>1, <1>2
    <3>4. \A m \in asked' : m <= last
      BY <2>1, <3>3 DEF receive, Control, ClientOK
    <3> QED
      BY <3>2, <3>4, <1>1 DEF Control, ClientOK
  <2>2. CASE frameLost
    <3>1. channel' = Tail(channel) /\ channel # <<>> /\ asked' = asked
      BY <2>2 DEF frameLost, client
    <3>2. \A k \in 1..Len(channel') : channel'[k] = channel[k + 1] /\ k + 1 \in 1..Len(channel)
      BY <3>1, <1>2
    <3> QED
      BY <3>1, <3>2, <1>1 DEF Control, ClientOK
  <2>3. CASE reload
    BY <2>3, <1>1 DEF reload, ClientOK
  <2>4. CASE (\E m \in bound.watched : showMessage(m) \/ askFails(m)) \/ \E a \in answers : hear(a)
    <3>1. channel' = channel /\ asked' \subseteq asked
      BY <2>4 DEF showMessage, askFails, hear
    <3> QED
      BY <3>1, <1>1 DEF Control, ClientOK
  <2> QED
    BY <2>1, <2>2, <2>3, <2>4 DEF Client
<1> QED
  BY <1>1, <1>3, QuietStep DEF Control

(* A step of one request that leaves the rows alone. *)
LEMMA RequestStep ==
    ASSUME TypeOK, Control, NEW r \in Request,
           \/ \E op \in {"send", "regenerate", "edit"}, on \in 0..MaxRows : check(r, op, on)
           \/ dispatch(r) \/ respond(r) \/ giveUp(r) \/ requestDies(r)
    PROVE  Control'
<1> USE DEF server, worker, client
<1>1. /\ UNCHANGED <<rows, last, channel, asked, doubled>>
      /\ \A s \in Request \ {r} : request'[s] = request[s]
      /\ last \in 0..MaxRows /\ MaxRows \in Nat
  BY BoundTypes DEF check, dispatch, respond, giveUp, requestDies, TypeOK
<1>2. RowsOK' /\ ClientOK' /\ OneInFlight' /\ OneAnswer' /\ Live' = Live
  BY <1>1 DEF Control, RowsOK, ClientOK, OneInFlight, OneAnswer, Live, Standing
<1>3. \A s \in Request \ {r} : JudgedOK(s)'
  BY <1>1, <1>2 DEF Control, RequestOK, JudgedOK, Overtaken, Standing
<1>4. ASSUME NEW op \in {"send", "regenerate", "edit"}, NEW on \in 0..MaxRows, check(r, op, on)
      PROVE  Control'
  <2>1. job' = job /\ request'[r].pc = "checked" /\ request'[r].op = op /\ request'[r].on = on /\ request'[r].seen = last
    BY <1>4 DEF check, Idle, TypeOK
  <2>2. request[r].pc = "idle" /\ Live = {} /\ judged(op, on)
    BY <1>4 DEF check, generationGuard
  <2>3. on <= last /\ (op # "send" => on \in Seqs)
    <3>1. op # "send" => on \in Seqs /\ rows[on].role # "none"
      BY <2>2 DEF judged, regenerable, editable
    <3>2. \A k \in Seqs : rows[k].role # "none" => k <= last
      BY <1>1 DEF Control, RowsOK, NoRow, Seqs
    <3> QED
      BY <3>1, <3>2, <2>2, <1>1 DEF judged
  <2>4. op = "regenerate" => rows[on].role = "assistant" /\ Standing(on)
    BY <2>2 DEF judged, regenerable, Standing, NoRow
  <2>5. JudgedOK(r)'
    BY <2>1, <2>2, <2>3, <2>4, <1>1, <1>2 DEF JudgedOK, Overtaken, Standing
  <2>6. \A s \in Request : MadeOK(s)'
    BY <2>1, <1>1 DEF Control, RequestOK, MadeOK
  <2>7. JobOK' /\ NoneAbandoned'
    BY <2>1, <2>2, <1>1, <1>2 DEF Control, JobOK, NoneAbandoned
  <2> QED
    BY <1>2, <1>3, <2>5, <2>6, <2>7 DEF Control, RequestOK
<1>5. CASE dispatch(r) \/ requestDies(r)
  <2> DEFINE m == request[r].made
  <2>1. request[r].pc = "committed" /\ m \in Seqs /\ m <= last /\ job[m].pc = "none"
    BY <1>5, <1>1 DEF dispatch, requestDies, Control, RequestOK, MadeOK, Seqs
  <2>2. /\ job'[m].pc \in {"queued", "lost"} /\ \A n \in Seqs \ {m} : job'[n] = job[n]
        /\ request'[r].pc \in {"dispatched", "idle"} /\ (request'[r].pc = "dispatched" => request'[r].made = m)
    BY <1>5, <2>1 DEF dispatch, requestDies, TypeOK, Idle, Post, Job
  <2>3. JudgedOK(r)'
    BY <2>2 DEF JudgedOK
  <2>4. \A s \in Request : MadeOK(s)'
    <3> SUFFICES ASSUME NEW s \in Request PROVE MadeOK(s)'
      OBVIOUS
    <3>1. CASE s = r
      BY <3>1, <1>1, <2>1, <2>2 DEF MadeOK, Seqs
    <3>2. CASE s # r
      <4>1. request'[s] = request[s] /\ MadeOK(s)
        BY <3>2, <1>1 DEF Control, RequestOK
      <4>2. request[s].pc = "committed" => request[s].made # m /\ request[s].made \in Seqs
        BY <3>2, <2>1, <4>1, <1>1 DEF MadeOK, Seqs
      <4>3. \A t \in Request :
               request'[s].pc = "committed" /\ request'[t].pc = "committed" /\ request'[s].made = request'[t].made => s = t
        BY <4>1, <1>1, <2>2 DEF MadeOK
      <4> QED
        BY <4>1, <4>2, <4>3, <1>1, <2>2 DEF MadeOK
    <3> QED
      BY <3>1, <3>2
  <2>5. JobOK'
    BY <1>1, <2>1, <2>2 DEF Control, JobOK
  <2>6. NoneAbandoned'
    <3> SUFFICES ASSUME NEW n \in Live
                 PROVE  /\ job'[n].pc # "done"
                        /\ job'[n].pc = "none" => \E s \in Request : request'[s].pc = "committed" /\ request'[s].made = n
      BY <1>2 DEF NoneAbandoned
    <3>1. n \in Seqs
      BY DEF Live
    <3>2. CASE n = m
      BY <3>2, <2>2
    <3>3. CASE n # m
      <4>1. job'[n] = job[n] /\ job[n].pc # "done"
        BY <3>1, <3>3, <2>2 DEF Control, NoneAbandoned
      <4>2. ASSUME job[n].pc = "none" PROVE \E s \in Request : request'[s].pc = "committed" /\ request'[s].made = n
        <5>1. PICK s \in Request : request[s].pc = "committed" /\ request[s].made = n
          BY <4>2 DEF Control, NoneAbandoned
        <5>2. request'[s] = request[s]
          BY <5>1, <3>3, <1>1
        <5> QED
          BY <5>1, <5>2
      <4> QED
        BY <4>1, <4>2
    <3> QED
      BY <3>2, <3>3
  <2> QED
    BY <1>2, <1>3, <2>3, <2>4, <2>5, <2>6 DEF Control, RequestOK
<1>6. CASE respond(r) \/ giveUp(r)
  <2>1. job' = job /\ request'[r].pc = "idle" /\ request[r].pc # "committed"
    BY <1>6 DEF respond, giveUp, Idle, TypeOK
  <2>2. JudgedOK(r)'
    BY <2>1 DEF JudgedOK
  <2>3. \A s \in Request : MadeOK(s)'
    BY <2>1, <1>1 DEF Control, RequestOK, MadeOK
  <2>4. JobOK' /\ NoneAbandoned'
    BY <2>1, <1>1, <1>2 DEF Control, JobOK, NoneAbandoned
  <2> QED
    BY <1>2, <1>3, <2>2, <2>3, <2>4 DEF Control, RequestOK
<1> QED
  BY <1>4, <1>5, <1>6

(* A step of a worker: only its own answer changes, and one that comes     *)
(* back into flight is doubled.                                            *)
LEMMA WorkerStep == ASSUME TypeOK, Control, NEW m \in Seqs, GenerateAiReply(m) PROVE Control'
<1> USE DEF server, worker, client
<1>1. /\ UNCHANGED <<last, request, asked>>
      /\ \A n \in Seqs \ {m} : rows'[n] = rows[n] /\ job'[n] = job[n]
      /\ job[m].pc # "none" /\ job[m] \in Job /\ last \in 0..MaxRows /\ MaxRows \in Nat
  <2>1. last \in 0..MaxRows /\ MaxRows \in Nat /\ job[m] \in Job
    BY BoundTypes DEF TypeOK
  <2>2. UNCHANGED <<last, request, asked>> /\ job[m].pc # "none"
    BY DEF GenerateAiReply, begin, returnAtOnce, overflow, chunk, streamEnds, push, publish, save, announce, fail,
           jobEnds, workerDies, Reading, Works
  <2>3. \A n \in Seqs \ {m} : rows'[n] = rows[n] /\ job'[n] = job[n]
    BY DEF GenerateAiReply, begin, returnAtOnce, overflow, chunk, streamEnds, push, publish, save, announce, fail,
           jobEnds, workerDies, Generate, TypeOK
  <2> QED
    BY <2>1, <2>2, <2>3
<1>2. m <= last /\ rows[m] \in Row
  BY <1>1 DEF Control, JobOK, RowsOK
<1>3. /\ rows'[m] \in Row /\ rows'[m].role = rows[m].role /\ rows'[m].parent = rows[m].parent
      /\ rows'[m].superseded = rows[m].superseded
      /\ rows'[m].status \in InFlight => rows[m].status \in InFlight \/ m \in doubled'
      /\ doubled \subseteq doubled'
      /\ job'[m].pc \notin {"none", "lost"}
      /\ job'[m].pc = "stream" => rows'[m].status = "streaming"
      /\ job'[m].pc \in {"saved", "announced", "failed", "done"} => rows'[m].status \in Final
  <2>0. /\ job[m].pc = "stream" => rows[m].status = "streaming"
        /\ job[m].pc \in {"saved", "announced", "failed", "done"} => rows[m].status \in Final
        /\ rows[m].status \in Status
    BY <1>2 DEF Control, JobOK, Row
  <2>1. ASSUME NEW b \in BOOLEAN, Generate(m, [job[m] EXCEPT !.again = b])
        PROVE  /\ rows'[m] = [rows[m] EXCEPT !.status = "streaming"]
               /\ rows'[m] \in Row /\ job'[m].pc = "stream"
    <3>1. rows'[m] = [rows[m] EXCEPT !.status = "streaming"]
      BY <2>1 DEF Generate, TypeOK
    <3>2. rows'[m] \in Row
      BY <3>1, <1>2 DEF Row, Status
    <3>3. [job[m] EXCEPT !.again = b] \in Job
      BY <1>1 DEF Job
    <3>4. PICK j \in Job : j = [job[m] EXCEPT !.again = b]
      BY <3>3
    <3>5. job'[m].pc = "stream"
      BY <2>1, <3>4 DEF Generate, TypeOK, Job
    <3> QED
      BY <3>1, <3>2, <3>5
  <2>2. CASE begin(m)
    <3>1. rows'[m] = [rows[m] EXCEPT !.status = "streaming"] /\ rows'[m] \in Row /\ job'[m].pc = "stream"
      BY <2>2, <2>1 DEF begin
    <3>2. /\ rows[m].status \notin {"completed", "cancelled"}
          /\ doubled' = IF rows[m].status = "failed" THEN doubled \cup {m} ELSE doubled
      BY <2>2 DEF begin, Returns
    <3> QED
      BY <3>1, <3>2, <2>0, <1>2 DEF Row, InFlight, Status
  <2>3. CASE overflow(m)
    <3>1. rows'[m] = [rows[m] EXCEPT !.status = "streaming"] /\ rows'[m] \in Row /\ job'[m].pc = "stream"
      BY <2>3, <2>1 DEF overflow
    <3>2. job[m].pc = "stream" /\ doubled' = doubled
      BY <2>3 DEF overflow, Works
    <3> QED
      BY <3>1, <3>2, <2>0, <1>2 DEF Row, InFlight
  <2>4. CASE returnAtOnce(m)
    <3>1. rows' = rows /\ doubled' = doubled /\ job'[m].pc = "done" /\ rows[m].status \in {"completed", "cancelled"}
      BY <2>4, <1>1 DEF returnAtOnce, Returns, TypeOK, Job
    <3> QED
      BY <3>1, <1>2 DEF Final, InFlight, Status
  <2>5. CASE chunk(m) \/ streamEnds(m) \/ push(m) \/ publish(m)
    <3>1. rows' = rows /\ doubled' = doubled /\ job[m].pc = "stream"
      BY <2>5 DEF chunk, streamEnds, push, publish, Reading, Works
    <3>2. job'[m].pc = "stream"
      BY <2>5, <3>1, <1>1 DEF chunk, streamEnds, push, publish, TypeOK, Job
    <3> QED
      BY <3>1, <3>2, <2>0, <1>2
  <2>6. CASE save(m)
    <3>1. job[m].stop \in {"completed", "cancelled"} /\ doubled' = doubled
      BY <2>6, <1>1 DEF save, Job
    <3>2. rows'[m] \in Row
      <4>1. TypeOK'
        BY WorkerTypes DEF Control
      <4>2. rows'[m] \in Row \cup {NoRow}
        BY <4>1 DEF TypeOK
      <4>3. rows'[m].role = rows[m].role
        BY <2>6, <1>2 DEF save, TypeOK, Row
      <4> QED
        BY <4>2, <4>3, <1>2 DEF Row, NoRow
    <3>3. /\ rows'[m].role = rows[m].role /\ rows'[m].parent = rows[m].parent
          /\ rows'[m].superseded = rows[m].superseded /\ rows'[m].status = job[m].stop
      BY <2>6, <1>2 DEF save, TypeOK, Row
    <3>4. job'[m].pc = "saved"
      BY <2>6, <1>1 DEF save, TypeOK, Job
    <3> QED
      BY <3>1, <3>2, <3>3, <3>4 DEF Final, InFlight, Status
  <2>7. CASE announce(m) \/ jobEnds(m)
    <3>1. rows' = rows /\ doubled' = doubled /\ job[m].pc \in {"saved", "announced", "failed"}
      BY <2>7 DEF announce, jobEnds, Works
    <3>2. job'[m].pc \in {"announced", "done"}
      BY <2>7, <1>1 DEF announce, jobEnds, TypeOK, Job
    <3> QED
      BY <3>1, <3>2, <2>0, <1>2
  <2>8. CASE fail(m)
    <3>1. rows'[m] = [rows[m] EXCEPT !.status = "failed"] /\ doubled' = doubled
      BY <2>8 DEF fail, TypeOK
    <3>2. rows'[m] \in Row /\ rows'[m].status = "failed"
      BY <3>1, <1>2 DEF Row, Status
    <3>3. job'[m].pc = "failed"
      BY <2>8, <1>1 DEF fail, TypeOK, Job, NoJob
    <3> QED
      BY <3>1, <3>2, <3>3, <1>2 DEF Row, Final, InFlight, Status
  <2>9. CASE workerDies(m)
    <3>1. rows' = rows /\ doubled' = doubled
      BY <2>9 DEF workerDies
    <3>2. job'[m].pc \in {"queued", "dead"}
      BY <2>9, <1>1 DEF workerDies, TypeOK, Job, NoJob
    <3> QED
      BY <3>1, <3>2, <1>2
  <2> QED
    BY <2>2, <2>3, <2>4, <2>5, <2>6, <2>7, <2>8, <2>9 DEF GenerateAiReply
<1>4. RowsOK'
  <2> SUFFICES ASSUME NEW n \in Seqs
               PROVE  /\ n > last => rows'[n] = NoRow
                      /\ n <= last => rows'[n] \in Row /\ rows'[n].parent <= n
                      /\ rows'[n].role = "assistant" => rows'[n].parent < n
    BY <1>1 DEF RowsOK
  <2>1. CASE n = m
    BY <2>1, <1>1, <1>2, <1>3 DEF Control, RowsOK, Seqs
  <2>2. CASE n # m
    BY <2>2, <1>1 DEF Control, RowsOK
  <2> QED
    BY <2>1, <2>2
<1>5. JobOK'
  BY <1>1, <1>2, <1>3 DEF Control, JobOK
<1>6. Live' \subseteq Live \cup doubled'
  BY <1>1, <1>3 DEF Live
<1>7. \A n \in Seqs : Standing(n)' = Standing(n) /\ rows'[n].role = rows[n].role /\ rows'[n].parent = rows[n].parent
  <2> TAKE n \in Seqs
  <2>1. CASE n = m
    BY <2>1, <1>2, <1>3 DEF Standing, NoRow, Row
  <2>2. CASE n # m
    BY <2>2, <1>1 DEF Standing
  <2> QED
    BY <2>1, <2>2
<1>8. OneInFlight' /\ OneAnswer'
  BY <1>3, <1>6, <1>7 DEF Control, OneInFlight, OneAnswer
<1>9. NoneAbandoned'
  <2> SUFFICES ASSUME NEW n \in Live'
               PROVE  /\ job'[n].pc # "done"
                      /\ job'[n].pc = "none" => \E r \in Request : request'[r].pc = "committed" /\ request'[r].made = n
    BY DEF NoneAbandoned
  <2>1. n \in Seqs /\ rows'[n].status \in InFlight
    BY DEF Live
  <2>2. CASE n = m
    BY <2>1, <2>2, <1>3 DEF Final
  <2>3. CASE n # m
    BY <2>1, <2>3, <1>1 DEF Control, NoneAbandoned, Live
  <2> QED
    BY <2>2, <2>3
<1>10. RequestOK'
  <2> SUFFICES ASSUME NEW r \in Request PROVE JudgedOK(r)' /\ MadeOK(r)'
    BY DEF RequestOK
  <2>1. JudgedOK(r) /\ MadeOK(r)
    BY DEF Control, RequestOK
  <2>2. JudgedOK(r)'
    BY <2>1, <1>1, <1>3, <1>6, <1>7 DEF JudgedOK, Overtaken
  <2>3. request[r].pc = "committed" => request[r].made \in Seqs /\ request[r].made # m
    BY <2>1, <1>1 DEF MadeOK, Seqs
  <2>4. MadeOK(r)'
    BY <2>1, <2>3, <1>1 DEF MadeOK
  <2> QED
    BY <2>2, <2>4
<1>11. ClientOK'
  <2>1. \/ channel' = channel
        \/ \E f \in Frame : f.on = m /\ Publish(f)
    <3>1. m \in Nat /\ Shown(m) \in Seq(Token)
      BY <1>1, <1>2, RowTypes DEF Control, Seqs
    <3>2. /\ job[m].sent \in Nat /\ <<job[m].run, job[m].sent>> \in Token
      BY <1>1 DEF Job, Token
    <3>3. /\ Started(m) \in Frame /\ Delta(m, job[m].sent, <<job[m].run, job[m].sent>>) \in Frame
          /\ Completed(m, Shown(m)) \in Frame /\ Cancelled(m) \in Frame /\ Failed(m) \in Frame
      BY <3>1, <3>2, FrameTypes
    <3>4. /\ Started(m).on = m /\ Delta(m, job[m].sent, <<job[m].run, job[m].sent>>).on = m
          /\ Completed(m, Shown(m)).on = m /\ Cancelled(m).on = m /\ Failed(m).on = m
      BY DEF Started, Delta, Completed, Cancelled, Failed
    <3>5. \/ channel' = channel
          \/ Publish(Started(m)) \/ Publish(Delta(m, job[m].sent, <<job[m].run, job[m].sent>>))
          \/ Publish(Completed(m, Shown(m))) \/ Publish(Cancelled(m)) \/ Publish(Failed(m))
      BY DEF GenerateAiReply, begin, returnAtOnce, overflow, chunk, streamEnds, push, publish, save, announce, fail,
             jobEnds, workerDies, Generate
    <3> QED
      BY <3>3, <3>4, <3>5
  <2>2. CASE channel' = channel
    BY <2>2, <1>1 DEF Control, ClientOK
  <2>3. ASSUME NEW f \in Frame, f.on = m, Publish(f) PROVE ClientOK'
    BY <2>3, <1>1, <1>2, PublishClient DEF Control
  <2> QED
    BY <2>1, <2>2, <2>3
<1> QED
  BY <1>4, <1>5, <1>8, <1>9, <1>10, <1>11 DEF Control

(* A commit: what it judged holds still, or its answer is doubled.         *)
LEMMA CommitStep == ASSUME TypeOK, Control, NEW r \in Request, commit(r) PROVE Control'
<1> USE DEF server, worker, client
<1> DEFINE q == request[r]
<1> DEFINE a == last'
<1>1. JudgedOK(r) /\ RowsOK
  BY DEF Control, RequestOK
<1>2. /\ a \in Seqs /\ a > last /\ request'[r].made = a
      /\ rows'[a] = Answer(Parent(q)) /\ Parent(q) \in 1..(a - 1)
      /\ q.op = "send" => Parent(q) = last + 1
      /\ \A k \in Seqs : k > a => rows'[k] = NoRow
      /\ \A k \in Seqs : k > last /\ k < a => rows'[k] = Question(k)
      /\ \A k \in Seqs : k <= last =>
            /\ rows'[k] \in Row /\ rows'[k].role = rows[k].role /\ rows'[k].status = rows[k].status
            /\ rows'[k].parent = rows[k].parent
            /\ rows[k].superseded => rows'[k].superseded
      /\ ~Overtaken(r) /\ q.op = "regenerate" => rows'[q.on].superseded
      /\ ~Overtaken(r) /\ q.op = "edit" => \A k \in Seqs : k > q.on /\ k <= last => rows'[k].superseded
  BY <1>1, CommitRows
<1>3. /\ UNCHANGED <<job, channel, asked>> /\ q.pc = "checked" /\ q \in Post
      /\ request'[r].pc = "committed"
      /\ \A s \in Request \ {r} : request'[s] = request[s]
      /\ doubled' = IF Overtaken(r) \/ q.on \in doubled THEN doubled \cup {a} ELSE doubled
      /\ last \in Int /\ a \in Int /\ q.op \in {"send", "regenerate", "edit"}
      /\ \A k \in Seqs : k \in Int
  <2>1. UNCHANGED <<job, channel, asked>> /\ q.pc = "checked" /\ request \in [Request -> Post]
    BY DEF commit, TypeOK
  <2>2. request' = [request EXCEPT ![r].pc = "committed", ![r].made = a]
        /\ doubled' = IF Overtaken(r) \/ q.on \in doubled THEN doubled \cup {a} ELSE doubled
    BY DEF commit
  <2>3. q \in Post
    BY <2>1
  <2>4. last \in Int /\ a \in Int /\ \A k \in Seqs : k \in Int
    BY BoundTypes, <1>2 DEF TypeOK, Seqs
  <2>5. q.op \in {"send", "regenerate", "edit"}
    BY <2>3 DEF Post
  <2>6. request'[r].pc = "committed" /\ \A s \in Request \ {r} : request'[s] = request[s]
    BY <2>1, <2>2, <2>3 DEF Post
  <2> QED
    BY <2>1, <2>2, <2>3, <2>4, <2>5, <2>6
<1>4. \A k \in Seqs : k <= last \/ (k > last /\ k < a) \/ k = a \/ k > a
  BY <1>3
<1>5. /\ rows'[a].role = "assistant" /\ rows'[a].status = "pending" /\ rows'[a].parent = Parent(q)
      /\ ~rows'[a].superseded /\ rows'[a] \in Row
  <2>1. Parent(q) \in Seqs
    BY <1>2, BoundTypes DEF Seqs
  <2>2. <<>> \in Seq(Token)
    OBVIOUS
  <2> QED
    BY <1>2, <2>1, <2>2 DEF Answer, Row, Status
<1>6. \A k \in Seqs : k > last /\ k < a =>
        rows'[k] \in Row /\ rows'[k].role = "user" /\ rows'[k].status = "completed" /\ rows'[k].parent = k
  <2> SUFFICES ASSUME NEW k \in Seqs, k > last, k < a
               PROVE  /\ rows'[k] \in Row /\ rows'[k].role = "user" /\ rows'[k].status = "completed"
                      /\ rows'[k].parent = k
    OBVIOUS
  <2>1. rows'[k] = Question(k)
    BY <1>2
  <2>2. <<>> \in Seq(Token)
    OBVIOUS
  <2>3. Question(k) \in Row
    BY <2>2 DEF Question, Row, Status
  <2> QED
    BY <2>1, <2>3 DEF Question
<1>7. RowsOK'
  <2> SUFFICES ASSUME NEW k \in Seqs
               PROVE  /\ k > a => rows'[k] = NoRow
                      /\ k <= a => rows'[k] \in Row /\ rows'[k].parent <= k
                      /\ rows'[k].role = "assistant" => rows'[k].parent < k
    BY DEF RowsOK
  <2>1. CASE k <= last
    BY <2>1, <1>1, <1>2, <1>3 DEF RowsOK
  <2>2. CASE k > last /\ k < a
    BY <2>2, <1>3, <1>6
  <2>3. CASE k = a
    BY <2>3, <1>2, <1>3, <1>5
  <2>4. CASE k > a
    BY <2>4, <1>2, <1>3 DEF NoRow
  <2> QED
    BY <1>4, <2>1, <2>2, <2>3, <2>4
<1>8. JobOK' /\ job[a].pc = "none"
  <2>1. job[a].pc = "none"
    BY <1>2, <1>3 DEF Control, JobOK
  <2>2. \A k \in Seqs : job[k].pc # "none" => k <= last /\ k <= a /\ rows'[k].status = rows[k].status
    <3> SUFFICES ASSUME NEW k \in Seqs, job[k].pc # "none"
                 PROVE  k <= last /\ k <= a /\ rows'[k].status = rows[k].status
      OBVIOUS
    <3>1. k <= last
      BY DEF Control, JobOK
    <3>2. k <= a
      BY <3>1, <1>2, <1>3
    <3> QED
      BY <3>1, <3>2, <1>2
  <2>3. \A k \in Seqs : job'[k] = job[k]
    BY <1>3
  <2>4. JobOK'
    BY <2>2, <2>3 DEF Control, JobOK
  <2> QED
    BY <2>1, <2>4
<1>9. ClientOK'
  <2>1. channel \in Seq(Frame) /\ asked \subseteq Seqs
    BY DEF TypeOK
  <2>2. \A k \in 1..Len(channel) : channel[k].on \in Int
    <3> TAKE k \in 1..Len(channel)
    <3>1. channel[k] \in Frame
      BY <2>1
    <3>2. channel[k].on \in Seqs
      BY <3>1 DEF Frame
    <3> QED
      BY <3>2, <1>3
  <2> QED
    BY <2>1, <2>2, <1>2, <1>3 DEF Control, ClientOK
<1>10. Live' \subseteq Live \cup {a}
  <2> SUFFICES ASSUME NEW k \in Seqs, rows'[k].status \in InFlight, k # a PROVE k \in Live
    BY DEF Live
  <2>1. k <= last
    BY <1>2, <1>4, <1>6 DEF InFlight, NoRow
  <2> QED
    BY <2>1, <1>2 DEF Live
<1>11. ~Overtaken(r) => Live \subseteq doubled
  BY <1>3 DEF Control, RequestOK, JudgedOK
<1>12. OneInFlight'
  BY <1>3, <1>10, <1>11 DEF Control, OneInFlight
<1>13. \A k \in Seqs : rows'[k].role = "assistant" /\ k # a =>
          k <= last /\ rows[k].role = "assistant" /\ rows'[k].parent = rows[k].parent
            /\ (Standing(k)' => Standing(k))
  <2> SUFFICES ASSUME NEW k \in Seqs, rows'[k].role = "assistant", k # a
               PROVE  k <= last /\ rows[k].role = "assistant" /\ rows'[k].parent = rows[k].parent
                        /\ (Standing(k)' => Standing(k))
    OBVIOUS
  <2>1. k <= last
    BY <1>2, <1>4, <1>6 DEF NoRow
  <2> QED
    BY <2>1, <1>2 DEF Standing, NoRow
<1>14. ASSUME a \notin doubled', NEW k \in Seqs \ doubled', k # a, rows'[k].role = "assistant",
              rows'[k].parent = Parent(q), Standing(k)'
       PROVE  FALSE
  <2>1. ~Overtaken(r) /\ q.on \notin doubled /\ doubled' = doubled
    BY <1>14, <1>3
  <2>2. k <= last /\ rows[k].role = "assistant" /\ rows[k].parent = Parent(q) /\ Standing(k) /\ rows[k].parent < k
    BY <1>14, <1>13, <1>1 DEF RowsOK
  <2>3. CASE q.op = "send"
    BY <2>3, <2>2, <1>2, <1>3
  <2>4. CASE q.op = "regenerate"
    <3>1. q.on \in Seqs /\ rows[q.on].role = "assistant" /\ Standing(q.on) /\ rows'[q.on].superseded
      BY <2>1, <2>4, <1>1, <1>2, <1>3 DEF JudgedOK
    <3>2. rows[q.on].parent = Parent(q)
      BY <2>4 DEF Parent
    <3>3. k = q.on
      BY <3>1, <3>2, <2>1, <2>2, <1>14 DEF Control, OneAnswer
    <3> QED
      BY <3>1, <3>3, <1>14 DEF Standing
  <2>5. CASE q.op = "edit"
    <3>1. Parent(q) = q.on
      BY <2>5 DEF Parent
    <3>2. k > q.on
      BY <2>2, <3>1, <1>3, <1>2
    <3>3. rows'[k].superseded
      BY <2>1, <2>2, <2>5, <3>2, <1>2
    <3> QED
      BY <3>3, <1>14 DEF Standing
  <2> QED
    BY <2>3, <2>4, <2>5, <1>3
<1>15. OneAnswer'
  <2> SUFFICES ASSUME NEW m \in Seqs \ doubled', NEW n \in Seqs \ doubled',
                      rows'[m].role = "assistant", rows'[n].role = "assistant",
                      rows'[m].parent = rows'[n].parent, Standing(m)', Standing(n)'
               PROVE  m = n
    BY DEF OneAnswer
  <2>1. CASE m = a /\ n # a
    BY <2>1, <1>5, <1>14
  <2>2. CASE m # a /\ n = a
    BY <2>2, <1>5, <1>14
  <2>3. CASE m # a /\ n # a
    BY <2>3, <1>3, <1>13 DEF Control, OneAnswer
  <2> QED
    BY <2>1, <2>2, <2>3
<1>16. NoneAbandoned'
  <2> SUFFICES ASSUME NEW n \in Live'
               PROVE  /\ job'[n].pc # "done"
                      /\ job'[n].pc = "none" => \E s \in Request : request'[s].pc = "committed" /\ request'[s].made = n
    BY DEF NoneAbandoned
  <2>1. CASE n = a
    BY <2>1, <1>2, <1>3, <1>8
  <2>2. CASE n \in Live
    <3>1. job[n].pc # "done"
      BY <2>2 DEF Control, NoneAbandoned
    <3>2. ASSUME job[n].pc = "none" PROVE \E s \in Request : request'[s].pc = "committed" /\ request'[s].made = n
      <4>1. PICK s \in Request : request[s].pc = "committed" /\ request[s].made = n
        BY <2>2, <3>2 DEF Control, NoneAbandoned
      <4>2. request'[s] = request[s]
        BY <4>1, <1>3
      <4> QED
        BY <4>1, <4>2
    <3> QED
      BY <3>1, <3>2, <1>3
  <2> QED
    BY <1>10, <2>1, <2>2
<1>17. RequestOK'
  <2> SUFFICES ASSUME NEW s \in Request PROVE JudgedOK(s)' /\ MadeOK(s)'
    BY DEF RequestOK
  <2>0. \A t \in Request : MadeOK(t) /\ JudgedOK(t) /\ request[t] \in Post
    BY DEF Control, RequestOK, TypeOK
  <2>1. CASE s = r
    <3>1. JudgedOK(s)'
      BY <2>1, <1>3 DEF JudgedOK
    <3>2. a \in 1..a
      BY <1>2, <1>3 DEF Seqs
    <3>3. \A t \in Request \ {r} : request'[t].pc = "committed" => request'[t].made # a
      BY <2>0, <1>2, <1>3 DEF MadeOK
    <3>4. MadeOK(s)'
      BY <2>1, <3>2, <3>3, <1>2, <1>3, <1>8 DEF MadeOK
    <3> QED
      BY <3>1, <3>4
  <2>2. CASE s # r
    <3>1. request'[s] = request[s]
      BY <2>2, <1>3
    <3>2. JudgedOK(s)'
      <4>1. request[s].pc = "checked" => request[s].seen <= last /\ request[s].on <= last
                                         /\ request[s].seen \in Int /\ request[s].on \in Int
        <5>1. request[s].seen \in 0..MaxRows /\ request[s].on \in 0..MaxRows /\ MaxRows \in Nat
          BY <2>0, BoundTypes DEF Post
        <5>2. request[s].seen \in Int /\ request[s].on \in Int
          BY <5>1
        <5> QED
          BY <2>0, <5>2 DEF JudgedOK
      <4>2. request[s].pc = "checked" => Overtaken(s)'
        BY <4>1, <3>1, <1>2, <1>3 DEF Overtaken
      <4> QED
        BY <4>1, <4>2, <3>1, <2>0, <1>2, <1>3 DEF JudgedOK
    <3>3. MadeOK(s)'
      <4>1. request[s].pc \in {"committed", "dispatched"} => request[s].made \in 1..last /\ request[s].made \in 1..a
        BY <2>0, <1>2, <1>3 DEF MadeOK
      <4>2. \A t \in Request :
               request'[s].pc = "committed" /\ request'[t].pc = "committed" /\ request'[s].made = request'[t].made => s = t
        <5> TAKE t \in Request
        <5>1. CASE t = r
          <6>1. ASSUME request[s].pc = "committed", request[s].made = a PROVE FALSE
            <7>1. a \in 1..last
              BY <6>1, <4>1
            <7> QED
              BY <7>1, <1>2, <1>3
          <6> QED
            BY <5>1, <6>1, <3>1, <1>2
        <5>2. CASE t # r
          BY <5>2, <3>1, <2>0, <1>3 DEF MadeOK
        <5> QED
          BY <5>1, <5>2
      <4> QED
        BY <4>1, <4>2, <3>1, <2>0, <1>3 DEF MadeOK
    <3> QED
      BY <3>2, <3>3
  <2> QED
    BY <2>1, <2>2
<1> QED
  BY <1>7, <1>8, <1>9, <1>12, <1>15, <1>16, <1>17 DEF Control

-------------------------------------------------------------------------------
(* Theorems *)

LEMMA InvStep == IInv /\ [Next]_vars => IInv'
<1> SUFFICES ASSUME IInv, [Next]_vars PROVE IInv'
  OBVIOUS
<1>1. TypeOK /\ Control
  BY DEF IInv, Control
<1>2. TypeOK'
  BY TypeStep DEF IInv
<1>3. Control'
  <2>1. CASE UNCHANGED vars
    <3>1. UNCHANGED <<rows, last, request, job, doubled, channel, asked>>
      BY <2>1 DEF vars, server, worker, client
    <3> QED
      BY <3>1, <1>1, QuietStep DEF Control, ClientOK
  <2>2. ASSUME NEW r \in Request, Controller(r) PROVE Control'
    BY <2>2, <1>1, RequestStep, CommitStep DEF Controller
  <2>3. ASSUME NEW m \in Seqs, cancelReply(m) PROVE Control'
    <3>1. UNCHANGED <<rows, last, request, job, doubled, channel, asked>>
      BY <2>3 DEF cancelReply, server, client
    <3> QED
      BY <3>1, <1>1, QuietStep DEF Control, ClientOK
  <2>4. ASSUME NEW m \in Seqs, GenerateAiReply(m) PROVE Control'
    BY <2>4, <1>1, WorkerStep
  <2>5. CASE Client
    BY <2>5, <1>1, ClientStep
  <2> QED
    BY <2>1, <2>2, <2>3, <2>4, <2>5 DEF Next
<1> QED
  BY <1>2, <1>3 DEF IInv, Control

(* The inductive invariant holds in every reachable state. *)
THEOREM Invariance == Spec => []IInv
<1>1. Init => IInv
  BY InitTypes, InitControl DEF IInv, Control
<1> QED
  BY <1>1, InvStep, PTL DEF Spec

(* Rows, jobs, frames and the client's streams keep their types; no worker *)
(* gets an answer more often than `tries` (GenerateAiReply.php).           *)
THEOREM TypeCorrect == Spec => []TypeOK
<1>1. IInv => TypeOK
  BY DEF IInv
<1> QED
  BY <1>1, Invariance, PTL

(* Of any number of requests, whatever they judged and whenever they       *)
(* commit, but for the two known races one answer is generated at a time   *)
(* and a question has one answer that stands (AiController.php).           *)
THEOREM GenerationsAreSingle == Spec => []OneGeneration
<1>1. IInv => OneGeneration
  BY DEF IInv, OneGeneration
<1> QED
  BY <1>1, Invariance, PTL

(* No job ends, and none is skipped, with its answer still in flight,      *)
(* however often workers die (GenerateAiReply.php).                        *)
THEOREM AnswersAreNotAbandoned == Spec => []NoneAbandoned
<1>1. IInv => NoneAbandoned
  BY DEF IInv
<1> QED
  BY <1>1, Invariance, PTL

-------------------------------------------------------------------------------
(* The story of an answer *)

(* The worker has begun the answer, and is done with it for good. *)
Begun(m) == job[m].pc \notin {"none", "lost", "queued"}
Over(m)  == job[m].pc \in {"saved", "announced", "failed", "done", "dead"}

(* Text frame i of an answer is on its way, or may still be published. *)
TextFrame(k, m) == channel[k].on = m /\ channel[k].ev = "delta"
ToCome(m, i) ==
    \/ ~Over(m) /\ job[m].sent <= i /\ i < bound.flushes
    \/ \E k \in 1..Len(channel) : TextFrame(k, m) /\ channel[k].index = i

(* The list has each flush of the run at its index, that in hand included, *)
(* and the row at most what the list has.                                  *)
Pushed(m) ==
    /\ \A k \in 1..Len(buffer[m]) : buffer[m][k] = <<job[m].run, k - 1>>
    /\ Prefix(rows[m].text, buffer[m])
    /\ ~Begun(m) => buffer[m] = <<>> /\ job[m].sent = 0
    /\ job[m].pc = "stream" =>
          /\ Len(buffer[m]) = IF job[m].pushed THEN job[m].sent + 1 ELSE job[m].sent
          /\ job[m].pending \/ job[m].pushed => job[m].sent < bound.flushes
          /\ ~(job[m].pending /\ job[m].pushed)
    /\ job[m].pc \in {"lost", "queued"} => rows[m].status = "pending"

(* Frames under way are those of the list, in its order; the one that ends *)
(* the answer has the row's text, and no text follows it.                  *)
Carried(m) ==
    \A k \in 1..Len(channel) :
        /\ TextFrame(k, m) =>
              /\ channel[k].index < Len(buffer[m]) /\ channel[k].index < bound.flushes
              /\ channel[k].text = <<buffer[m][channel[k].index + 1]>>
              /\ Over(m) \/ channel[k].index < job[m].sent
              /\ \A j \in 1..(k - 1) :
                    /\ TextFrame(j, m) => channel[j].index < channel[k].index
                    /\ channel[j].on = m => channel[j].ev # "completed"
        /\ channel[k].on = m /\ channel[k].ev = "completed" => Over(m) /\ channel[k].text = rows[m].text

(* The client asks for the list once the first frame has passed it by; an  *)
(* answer has the list of some moment, or the row.                         *)
Told(a, m) ==
    /\ a.status = "completed" => Over(m) /\ a.text = rows[m].text
    /\ a.status \in {"cancelled", "failed"} => a.text = <<>>
    /\ a.kind = "sync" =>
          /\ ~ToCome(m, 0)
          /\ a.status \in InFlight => Prefix(a.text, buffer[m]) /\ a.index = Len(a.text) - 1
          /\ a.status \in Final => a.index = -1
Answered(m) ==
    /\ m \in asked => job[m].pc # "none" /\ ~ToCome(m, 0)
    /\ \A a \in answers : a.on = m => Told(a, m)

(* What the client shows is a beginning of the list; the frame it waits    *)
(* for, if that can come, is the one after it.                             *)
Follows(s, m) ==
    /\ Prefix(s.text, buffer[m]) /\ s.applied >= -1
    /\ ToCome(m, s.applied + 1) => Len(s.text) = s.applied + 1
    /\ s.gap => ~ToCome(m, 0)
    /\ s.status = "completed" => Over(m) /\ s.text = rows[m].text
Following(m) == stream[m] # NoStream => Follows(stream[m], m)

Story(m) == Pushed(m) /\ Carried(m) /\ Answered(m) /\ Following(m)

(* The answer of a request waits for its job, and has it once dispatched. *)
QueuedOK(r) ==
    /\ request[r].pc = "committed" => rows[request[r].made].status = "pending"
    /\ request[r].pc = "dispatched" => job[request[r].made].pc # "none"

StoryInv ==
    /\ IInv
    /\ \A r \in Request : QueuedOK(r)
    /\ \A m \in Seqs : job[m].attempt = 1 => Story(m)

-------------------------------------------------------------------------------
(* What is to come *)

LEMMA PrefixIsTransitive ==
    ASSUME NEW s \in Seq(Token), NEW t \in Seq(Token), NEW u \in Seq(Token), Prefix(s, t), Prefix(t, u)
    PROVE  Prefix(s, u)
<1>1. Len(s) \in Nat /\ Len(t) \in Nat /\ Len(u) \in Nat /\ DOMAIN s = 1..Len(s) /\ DOMAIN t = 1..Len(t)
  OBVIOUS
<1> QED
  BY <1>1 DEF Prefix

(* Frames only pass: what is to come was to come, and a worker publishes   *)
(* frames in turn.                                                         *)
LEMMA Passing ==
    ASSUME TypeOK, TypeOK', NEW m \in Seqs, bound' = bound,
           ~Over(m)' => ~Over(m) /\ job'[m].sent >= job[m].sent,
           \A k \in 1..Len(channel') : TextFrame(k, m)' =>
              \/ \E j \in 1..Len(channel) : channel[j] = channel'[k]
              \/ ~Over(m) /\ channel'[k].index = job[m].sent /\ job[m].sent < bound.flushes
    PROVE  \A i \in Int : ToCome(m, i)' => ToCome(m, i)
<1>1. job[m].sent \in Nat /\ job'[m].sent \in Nat
  BY DEF TypeOK, Job
<1>2. ASSUME NEW i \in Int, ~Over(m)', job'[m].sent <= i, i < bound'.flushes PROVE ToCome(m, i)
  BY <1>1, <1>2 DEF ToCome
<1>3. ASSUME NEW i \in Int, NEW k \in 1..Len(channel'), TextFrame(k, m)', channel'[k].index = i PROVE ToCome(m, i)
  <2>1. ASSUME NEW j \in 1..Len(channel), channel[j] = channel'[k] PROVE ToCome(m, i)
    BY <1>3, <2>1 DEF ToCome, TextFrame
  <2>2. CASE ~Over(m) /\ channel'[k].index = job[m].sent /\ job[m].sent < bound.flushes
    BY <1>1, <1>3, <2>2 DEF ToCome
  <2> QED
    BY <1>3, <2>1, <2>2
<1> QED
  BY <1>2, <1>3 DEF ToCome

(* What a step leaves of an answer that the client relies on.              *)
Grows(m) ==
    /\ bound' = bound
    /\ Prefix(buffer[m], buffer'[m])
    /\ Over(m) => Over(m)' /\ rows'[m].text = rows[m].text
    /\ job[m].pc # "none" => job'[m].pc # "none"
    /\ \A i \in Int : ToCome(m, i)' => ToCome(m, i)

LEMMA ToldStays ==
    ASSUME TypeOK, TypeOK', NEW m \in Seqs, Grows(m), NEW a \in Heard, Told(a, m)
    PROVE  Told(a, m)'
<1>1. buffer[m] \in Seq(Token) /\ buffer'[m] \in Seq(Token) /\ a.text \in Seq(Token)
  BY DEF TypeOK, Heard
<1>2. a.kind = "sync" => ~ToCome(m, 0)'
  BY DEF Told, Grows
<1>3. Prefix(a.text, buffer[m]) => Prefix(a.text, buffer'[m])
  BY <1>1, PrefixIsTransitive DEF Grows
<1>4. a.status = "completed" => Over(m)' /\ a.text = rows'[m].text
  BY DEF Told, Grows
<1> QED
  BY <1>2, <1>3, <1>4 DEF Told

LEMMA FollowsStays ==
    ASSUME TypeOK, TypeOK', NEW m \in Seqs, Grows(m), NEW s \in Stream, Follows(s, m)
    PROVE  Follows(s, m)'
<1>1. buffer[m] \in Seq(Token) /\ buffer'[m] \in Seq(Token) /\ s.text \in Seq(Token) /\ s.applied \in Int
  BY DEF TypeOK, Stream
<1>2. Prefix(s.text, buffer'[m])
  BY <1>1, PrefixIsTransitive DEF Grows, Follows
<1>3. ToCome(m, s.applied + 1)' => ToCome(m, s.applied + 1)
  BY <1>1 DEF Grows
<1>4. s.gap => ~ToCome(m, 0)'
  BY DEF Grows, Follows
<1>5. s.status = "completed" => Over(m)' /\ s.text = rows'[m].text
  BY DEF Grows, Follows
<1> QED
  BY <1>2, <1>3, <1>4, <1>5 DEF Follows

(* A step that tells the client nothing.                                   *)
LEMMA ClientKeeps ==
    ASSUME TypeOK, TypeOK', NEW m \in Seqs, Grows(m), Answered(m), Following(m),
           stream'[m] = stream[m], m \in asked' => m \in asked, answers' \subseteq answers
    PROVE  Answered(m)' /\ Following(m)'
<1>1. \A a \in answers' : a.on = m => Told(a, m)'
  BY ToldStays DEF Answered, TypeOK
<1>2. m \in asked' => job'[m].pc # "none" /\ ~ToCome(m, 0)'
  BY DEF Answered, Grows
<1>3. stream[m] # NoStream => stream[m] \in Stream /\ Follows(stream[m], m)'
  BY FollowsStays DEF Following, TypeOK
<1>4. Following(m)'
  BY <1>3 DEF Following, Follows
<1> QED
  BY <1>1, <1>2, <1>4 DEF Answered

(* A frame that a worker of the answer may publish.                        *)
Fits(f, m) ==
    f.on = m =>
       /\ f.ev = "delta" =>
             /\ ~Over(m) /\ f.index = job[m].sent /\ job'[m].sent = job[m].sent + 1 /\ job[m].sent < bound.flushes
             /\ job[m].sent < Len(buffer'[m]) /\ f.text = <<buffer'[m][job[m].sent + 1]>>
       /\ f.ev = "completed" => Over(m)' /\ f.text = rows'[m].text

(* A step of the server: at most a frame joins the channel.                *)
LEMMA ServerStep ==
    ASSUME TypeOK, TypeOK', NEW m \in Seqs, Story(m), UNCHANGED <<bound, stream, asked, answers>>,
           Prefix(buffer[m], buffer'[m]),
           Over(m) => Over(m)' /\ rows'[m].text = rows[m].text,
           ~Over(m)' => ~Over(m) /\ job'[m].sent >= job[m].sent,
           job[m].pc # "none" => job'[m].pc # "none",
           \/ channel' = channel
           \/ \E f \in Frame : Fits(f, m) /\ Publish(f)
    PROVE  Carried(m)' /\ Answered(m)' /\ Following(m)'
<1>0. /\ channel \in Seq(Frame) /\ channel' \in Seq(Frame)
      /\ buffer[m] \in Seq(Token) /\ buffer'[m] \in Seq(Token)
      /\ job[m].sent \in Nat /\ job'[m].sent \in Nat
      /\ Len(channel) \in Nat /\ Len(buffer[m]) \in Nat /\ Len(buffer'[m]) \in Nat
  BY DEF TypeOK, Job
<1>1. \A k \in 1..Len(channel) : channel[k] \in Frame /\ channel[k].index \in Nat
  <2>1. \A f \in Frame : f.index \in Nat
    BY DEF Frame
  <2> QED
    BY <1>0, <2>1
<1>2. ASSUME NEW k \in 1..Len(channel)
      PROVE  /\ TextFrame(k, m) =>
                   /\ channel[k].index < Len(buffer'[m]) /\ channel[k].index < bound'.flushes
                   /\ channel[k].text = <<buffer'[m][channel[k].index + 1]>>
                   /\ Over(m)' \/ channel[k].index < job'[m].sent
                   /\ \A j \in 1..(k - 1) :
                         /\ TextFrame(j, m) => channel[j].index < channel[k].index
                         /\ channel[j].on = m => channel[j].ev # "completed"
             /\ channel[k].on = m /\ channel[k].ev = "completed" => Over(m)' /\ channel[k].text = rows'[m].text
  <2>1. ASSUME TextFrame(k, m)
        PROVE  /\ channel[k].index < Len(buffer'[m]) /\ channel[k].text = <<buffer'[m][channel[k].index + 1]>>
               /\ Over(m)' \/ channel[k].index < job'[m].sent
    <3>1. channel[k].index < Len(buffer[m]) /\ channel[k].text = <<buffer[m][channel[k].index + 1]>>
      BY <2>1 DEF Story, Carried
    <3>2. channel[k].index + 1 \in DOMAIN buffer[m]
      BY <1>0, <1>1, <3>1
    <3>3. buffer'[m][channel[k].index + 1] = buffer[m][channel[k].index + 1] /\ Len(buffer[m]) <= Len(buffer'[m])
      BY <3>2 DEF Prefix
    <3>4. Over(m) \/ channel[k].index < job[m].sent
      BY <2>1 DEF Story, Carried
    <3>5. channel[k].index < Len(buffer'[m])
      BY <1>0, <1>1, <3>1, <3>3
    <3>6. Over(m)' \/ channel[k].index < job'[m].sent
      BY <1>0, <1>1, <3>4
    <3> QED
      BY <3>1, <3>3, <3>5, <3>6
  <2> QED
    BY <2>1 DEF Story, Carried
<1>3. CASE channel' = channel
  <2>1. Carried(m)'
    BY <1>2, <1>3 DEF Carried, TextFrame
  <2>2. \A i \in Int : ToCome(m, i)' => ToCome(m, i)
    BY <1>3, Passing
  <2> QED
    BY <2>1, <2>2, ClientKeeps DEF Grows, Story
<1>4. ASSUME NEW f \in Frame, Fits(f, m), channel' = Append(channel, f) PROVE Carried(m)' /\ Answered(m)' /\ Following(m)'
  <2>0. /\ Len(channel') = Len(channel) + 1 /\ channel'[Len(channel) + 1] = f
        /\ \A k \in 1..Len(channel) : channel'[k] = channel[k]
    BY <1>0, <1>4
  <2>1. \A i \in Int : ToCome(m, i)' => ToCome(m, i)
    <3>1. ASSUME NEW k \in 1..Len(channel'), TextFrame(k, m)'
          PROVE  \/ \E j \in 1..Len(channel) : channel[j] = channel'[k]
                 \/ ~Over(m) /\ channel'[k].index = job[m].sent /\ job[m].sent < bound.flushes
      <4>1. CASE k \in 1..Len(channel)
        BY <2>0, <4>1
      <4>2. CASE k = Len(channel) + 1
        BY <1>4, <2>0, <3>1, <4>2 DEF TextFrame, Fits
      <4> QED
        BY <1>0, <2>0, <4>1, <4>2
    <3> QED
      BY <3>1, Passing
  <2>2. Carried(m)'
    <3>1. ASSUME NEW k \in 1..Len(channel')
          PROVE  /\ TextFrame(k, m)' =>
                       /\ channel'[k].index < Len(buffer'[m]) /\ channel'[k].index < bound'.flushes
                       /\ channel'[k].text = <<buffer'[m][channel'[k].index + 1]>>
                       /\ Over(m)' \/ channel'[k].index < job'[m].sent
                       /\ \A j \in 1..(k - 1) :
                             /\ TextFrame(j, m)' => channel'[j].index < channel'[k].index
                             /\ channel'[j].on = m => channel'[j].ev # "completed"
                 /\ channel'[k].on = m /\ channel'[k].ev = "completed" => Over(m)' /\ channel'[k].text = rows'[m].text
      <4>1. CASE k \in 1..Len(channel)
        <5>1. \A j \in 1..(k - 1) : j \in 1..Len(channel)
          BY <1>0, <4>1
        <5>2. channel'[k] = channel[k] /\ \A j \in 1..(k - 1) : channel'[j] = channel[j]
          BY <2>0, <4>1, <5>1
        <5>3. (TextFrame(k, m)' <=> TextFrame(k, m)) /\ \A j \in 1..(k - 1) : (TextFrame(j, m)' <=> TextFrame(j, m))
          BY <5>2 DEF TextFrame
        <5> QED
          BY <1>2, <4>1, <5>2, <5>3
      <4>2. CASE k = Len(channel) + 1
        <5>1. channel'[k] = f /\ \A j \in 1..(k - 1) : j \in 1..Len(channel) /\ channel'[j] = channel[j]
          BY <1>0, <2>0, <4>2
        <5>2. ASSUME f.on = m, f.ev = "delta"
              PROVE  /\ f.index < Len(buffer'[m]) /\ f.index < bound'.flushes
                     /\ f.text = <<buffer'[m][f.index + 1]>> /\ f.index < job'[m].sent
                     /\ \A j \in 1..Len(channel) :
                           /\ TextFrame(j, m) => channel[j].index < f.index
                           /\ channel[j].on = m => channel[j].ev # "completed"
          <6>1. ~Over(m) /\ f.index = job[m].sent
            BY <1>4, <5>2 DEF Fits
          <6>2. \A j \in 1..Len(channel) :
                   /\ TextFrame(j, m) => channel[j].index < f.index
                   /\ channel[j].on = m => channel[j].ev # "completed"
            BY <6>1 DEF Story, Carried
          <6> QED
            BY <1>0, <1>4, <5>2, <6>1, <6>2 DEF Fits
        <5>3. (TextFrame(k, m)' <=> f.on = m /\ f.ev = "delta") /\ \A j \in 1..(k - 1) : (TextFrame(j, m)' <=> TextFrame(j, m))
          BY <5>1 DEF TextFrame
        <5>4. f.on = m /\ f.ev = "completed" => Over(m)' /\ f.text = rows'[m].text
          BY <1>4 DEF Fits
        <5> QED
          BY <5>1, <5>2, <5>3, <5>4
      <4> QED
        BY <1>0, <2>0, <4>1, <4>2
    <3> QED
      BY <3>1 DEF Carried
  <2> QED
    BY <2>1, <2>2, ClientKeeps DEF Grows, Story
<1> QED
  BY <1>3, <1>4 DEF Publish

(* A first attempt, by what its worker does to the answer.                 *)
Starts(m) ==
    /\ job[m].pc = "queued" \/ (job[m].pc = "stream" /\ job[m].sent = 0 /\ ~job[m].pushed)
    /\ job'[m].pc = "stream" /\ job'[m].sent = 0 /\ ~job'[m].pending /\ ~job'[m].pushed
    /\ rows'[m].text = rows[m].text /\ buffer' = buffer /\ Publish(Started(m))
Reads(m) ==
    /\ job[m].pc = "stream" /\ ~job[m].pushed
    /\ job'[m].pc = "stream" /\ job'[m].run = job[m].run /\ job'[m].sent = job[m].sent
    /\ ~job'[m].pushed /\ (job'[m].pending => job[m].pending \/ job[m].sent < bound.flushes)
    /\ rows' = rows /\ buffer' = buffer /\ channel' = channel
Pushes(m) ==
    /\ job[m].pc = "stream" /\ job[m].pending /\ ~job[m].pushed
    /\ job'[m].pc = "stream" /\ job'[m].run = job[m].run /\ job'[m].sent = job[m].sent
    /\ ~job'[m].pending /\ job'[m].pushed
    /\ buffer'[m] = Append(buffer[m], <<job[m].run, job[m].sent>>) /\ rows' = rows /\ channel' = channel
Publishes(m) ==
    /\ job[m].pc = "stream" /\ job[m].pushed
    /\ job'[m].pc = "stream" /\ job'[m].run = job[m].run /\ job'[m].sent = job[m].sent + 1
    /\ job'[m].pending = job[m].pending /\ ~job'[m].pushed
    /\ rows' = rows /\ buffer' = buffer /\ Publish(Delta(m, job[m].sent, <<job[m].run, job[m].sent>>))
Saves(m) ==
    /\ job[m].pc = "stream" /\ ~job[m].pushed
    /\ job'[m].pc = "saved" /\ job'[m].run = job[m].run /\ job'[m].sent = 0
    /\ rows'[m].text = Content(m) /\ buffer' = buffer /\ channel' = channel
Ends(m) ==
    /\ job'[m].pc \in {"announced", "failed", "done"} /\ job'[m].run = job[m].run
    /\ rows'[m].text = rows[m].text /\ buffer' = buffer
    /\ \/ channel' = channel \/ Publish(Failed(m)) \/ Publish(Cancelled(m))
       \/ job[m].pc = "saved" /\ rows' = rows /\ Publish(Completed(m, rows[m].text))

LEMMA WorkerIs ==
    ASSUME TypeOK, RowsOK, JobOK, NEW m \in Seqs, GenerateAiReply(m), job[m].attempt = 1, job'[m].attempt = 1
    PROVE  Starts(m) \/ Reads(m) \/ Pushes(m) \/ Publishes(m) \/ Saves(m) \/ Ends(m)
<1> USE DEF server, worker, client, Works
<1>0. /\ job \in [Seqs -> Job] /\ job[m] \in Job /\ rows \in [Seqs -> Row \cup {NoRow}]
      /\ buffer \in [Seqs -> Seq(Token)]
  BY DEF TypeOK
<1>1. job[m].pc # "none" => rows[m] \in Row
  BY RowTypes DEF JobOK
<1>2. ASSUME NEW s, job[m].pc # "none", rows' = [rows EXCEPT ![m].status = s] PROVE rows'[m].text = rows[m].text
  BY <1>0, <1>1, <1>2 DEF Row
<1>3. ASSUME NEW b \in BOOLEAN, job[m].pc # "none", Generate(m, [job[m] EXCEPT !.again = b])
      PROVE  /\ job'[m].pc = "stream" /\ job'[m].sent = 0 /\ ~job'[m].pending /\ ~job'[m].pushed
             /\ rows'[m].text = rows[m].text /\ Publish(Started(m))
  <2>1. PICK j \in Job : j = [job[m] EXCEPT !.again = b]
    BY <1>0 DEF Job
  <2>2. job' = [job EXCEPT ![m] = [j EXCEPT !.pc = "stream", !.run = @ + 1, !.sent = 0,
                                            !.pending = FALSE, !.pushed = FALSE, !.stop = "no"]]
    BY <1>3, <2>1 DEF Generate
  <2>3. job'[m].pc = "stream" /\ job'[m].sent = 0 /\ ~job'[m].pending /\ ~job'[m].pushed
    BY <1>0, <2>2 DEF Job
  <2>4. rows'[m].text = rows[m].text
    BY <1>2, <1>3 DEF Generate
  <2> QED
    BY <1>3, <2>3, <2>4 DEF Generate
<1>4. CASE begin(m) \/ overflow(m)
  BY <1>3, <1>4 DEF begin, overflow, Starts
<1>5. CASE returnAtOnce(m) \/ jobEnds(m)
  <2>1. job' = [job EXCEPT ![m].pc = "done"] /\ rows' = rows /\ buffer' = buffer /\ channel' = channel
    BY <1>5 DEF returnAtOnce, jobEnds
  <2>2. job'[m].pc = "done" /\ job'[m].run = job[m].run
    BY <1>0, <2>1 DEF Job
  <2> QED
    BY <2>1, <2>2 DEF Ends
<1>6. CASE chunk(m) \/ streamEnds(m)
  <2>1. /\ job[m].pc = "stream" /\ ~job[m].pushed /\ rows' = rows /\ buffer' = buffer /\ channel' = channel
        /\ \/ job' = [job EXCEPT ![m].pending = TRUE] /\ job[m].sent < bound.flushes
           \/ \E s : job' = [job EXCEPT ![m].stop = s]
    BY <1>6 DEF chunk, streamEnds, Reading
  <2>2. /\ job'[m].pc = "stream" /\ job'[m].run = job[m].run /\ job'[m].sent = job[m].sent
        /\ job'[m].pushed = job[m].pushed
    BY <1>0, <2>1 DEF Job
  <2>3. job'[m].pending => job[m].pending \/ job[m].sent < bound.flushes
    <3>1. ASSUME NEW s, job' = [job EXCEPT ![m].stop = s] PROVE job'[m].pending = job[m].pending
      BY <1>0, <3>1 DEF Job
    <3> QED
      BY <2>1, <3>1
  <2> QED
    BY <2>1, <2>2, <2>3 DEF Reads
<1>7. CASE push(m)
  <2>1. /\ job[m].pc = "stream" /\ job[m].pending /\ ~job[m].pushed /\ rows' = rows /\ channel' = channel
        /\ job' = [job EXCEPT ![m].pending = FALSE, ![m].pushed = TRUE]
        /\ buffer' = [buffer EXCEPT ![m] = Append(@, <<job[m].run, job[m].sent>>)]
    BY <1>7 DEF push
  <2>2. /\ job'[m].pc = "stream" /\ job'[m].run = job[m].run /\ job'[m].sent = job[m].sent
        /\ ~job'[m].pending /\ job'[m].pushed
    BY <1>0, <2>1 DEF Job
  <2> QED
    BY <1>0, <2>1, <2>2 DEF Pushes
<1>8. CASE publish(m)
  <2>1. /\ job[m].pc = "stream" /\ job[m].pushed /\ rows' = rows /\ buffer' = buffer
        /\ job' = [job EXCEPT ![m].pushed = FALSE, ![m].sent = @ + 1]
        /\ Publish(Delta(m, job[m].sent, <<job[m].run, job[m].sent>>))
    BY <1>8 DEF publish
  <2>2. /\ job'[m].pc = "stream" /\ job'[m].run = job[m].run /\ job'[m].sent = job[m].sent + 1
        /\ job'[m].pending = job[m].pending /\ ~job'[m].pushed
    BY <1>0, <2>1 DEF Job
  <2> QED
    BY <2>1, <2>2 DEF Publishes
<1>9. CASE save(m)
  <2>1. /\ job[m].pc = "stream" /\ ~job[m].pushed /\ buffer' = buffer /\ channel' = channel
        /\ job' = [job EXCEPT ![m].pc = "saved", ![m].sent = 0, ![m].stop = "no"]
        /\ rows' = [rows EXCEPT ![m].status = job[m].stop, ![m].text = Content(m)]
    BY <1>9 DEF save
  <2>2. job'[m].pc = "saved" /\ job'[m].run = job[m].run /\ job'[m].sent = 0
    BY <1>0, <2>1 DEF Job
  <2>3. rows'[m].text = Content(m)
    BY <1>0, <1>1, <2>1 DEF Row
  <2> QED
    BY <2>1, <2>2, <2>3 DEF Saves
<1>10. CASE announce(m)
  <2>1. /\ job[m].pc = "saved" /\ buffer' = buffer /\ rows' = rows
        /\ job' = [job EXCEPT ![m].pc = "announced"]
        /\ Publish(IF rows[m].status = "completed" THEN Completed(m, Shown(m)) ELSE Cancelled(m))
    BY <1>10 DEF announce
  <2>2. job'[m].pc = "announced" /\ job'[m].run = job[m].run
    BY <1>0, <2>1 DEF Job
  <2>3. Publish(Completed(m, rows[m].text)) \/ Publish(Cancelled(m))
    BY <2>1 DEF Shown
  <2> QED
    BY <2>1, <2>2, <2>3 DEF Ends
<1>11. CASE fail(m)
  <2>1. /\ job[m].pc # "none" /\ buffer' = buffer /\ Publish(Failed(m))
        /\ rows' = [rows EXCEPT ![m].status = "failed"]
        /\ job' = [job EXCEPT ![m] = [NoJob EXCEPT !.pc = "failed", !.attempt = job[m].attempt, !.run = job[m].run]]
    BY <1>11 DEF fail
  <2>2. job'[m].pc = "failed" /\ job'[m].run = job[m].run
    BY <1>0, <2>1 DEF NoJob
  <2>3. rows'[m].text = rows[m].text
    BY <1>2, <2>1
  <2> QED
    BY <2>1, <2>2, <2>3 DEF Ends
<1>12. CASE workerDies(m)
  <2>1. job' = [job EXCEPT ![m] = [NoJob EXCEPT !.pc = "queued", !.attempt = job[m].attempt + 1, !.run = job[m].run]]
    BY <1>12 DEF workerDies, tries
  <2>2. job'[m].attempt = 2
    BY <1>0, <2>1 DEF NoJob
  <2> QED
    BY <2>2
<1> QED
  BY <1>4, <1>5, <1>6, <1>7, <1>8, <1>9, <1>10, <1>11, <1>12 DEF GenerateAiReply

(* The worker of a first attempt goes on with its story.                   *)
LEMMA WorkerTells ==
    ASSUME TypeOK, TypeOK', RowsOK, JobOK, NEW m \in Seqs, GenerateAiReply(m), Story(m),
           job[m].attempt = 1, job'[m].attempt = 1
    PROVE  Story(m)'
<1>0. /\ UNCHANGED <<bound, stream, asked, answers>> /\ job[m].pc # "none"
      /\ bound.flushes \in Nat /\ job[m] \in Job /\ buffer[m] \in Seq(Token) /\ buffer'[m] \in Seq(Token)
      /\ job[m].sent \in Nat /\ job[m].run \in Nat /\ job'[m].sent \in Nat /\ m \in Nat
  <2>1. UNCHANGED <<bound, stream, asked, answers>> /\ job[m].pc # "none"
    BY DEF GenerateAiReply, begin, returnAtOnce, overflow, chunk, streamEnds, push, publish, save, announce, fail,
           jobEnds, workerDies, Reading, Works, client
  <2>2. job[m] \in Job /\ job'[m] \in Job /\ buffer[m] \in Seq(Token) /\ buffer'[m] \in Seq(Token)
    BY DEF TypeOK
  <2>3. \A j \in Job : j.sent \in Nat /\ j.run \in Nat
    BY DEF Job
  <2> QED
    BY <2>1, <2>2, <2>3, BoundTypes DEF Seqs
<1>1. /\ Prefix(buffer[m], buffer[m]) /\ Len(buffer[m]) \in Nat
      /\ DOMAIN buffer[m] = 1..Len(buffer[m])
  BY <1>0 DEF Prefix
<1>2. rows[m].text \in Seq(Token) /\ rows[m] \in Row
  <2>1. rows[m] \in Row
    BY <1>0, RowTypes DEF JobOK
  <2> QED
    BY <2>1 DEF Row
<1>3. Pushed(m) /\ Carried(m)
  BY DEF Story
<1>f. /\ Started(m) \in Frame /\ Cancelled(m) \in Frame /\ Failed(m) \in Frame
      /\ Completed(m, rows[m].text) \in Frame
      /\ Delta(m, job[m].sent, <<job[m].run, job[m].sent>>) \in Frame
  <2>1. PICK i \in Nat, t \in Token, s \in Seq(Token) :
           i = job[m].sent /\ t = <<job[m].run, job[m].sent>> /\ s = rows[m].text
    BY <1>0, <1>2 DEF Token
  <2>2. Delta(m, i, t) \in Frame
    BY FrameTypes
  <2>3. Started(m) \in Frame /\ Cancelled(m) \in Frame /\ Failed(m) \in Frame /\ Completed(m, rows[m].text) \in Frame
    BY <1>2, <2>1, FrameTypes
  <2> QED
    BY <2>1, <2>2, <2>3
<1>4. CASE Starts(m)
  <2>1. buffer[m] = <<>> /\ job[m].sent = 0 /\ ~Over(m) /\ job'[m].sent = 0 /\ buffer' = buffer
    BY <1>0, <1>3, <1>4 DEF Starts, Pushed, Begun, Over
  <2>2. Pushed(m)'
    BY <1>3, <1>4, <2>1 DEF Starts, Pushed, Begun
  <2>3. Fits(Started(m), m)
    BY DEF Fits, Started
  <2> QED
    BY <1>0, <1>1, <1>4, <1>f, <2>1, <2>2, <2>3, ServerStep DEF Starts, Story
<1>5. CASE Reads(m)
  <2>1. ~Over(m) /\ job'[m].sent = job[m].sent /\ buffer' = buffer /\ rows' = rows /\ channel' = channel
    BY <1>5 DEF Reads, Over
  <2>2. Pushed(m)'
    BY <1>0, <1>3, <1>5 DEF Reads, Pushed, Begun
  <2> QED
    BY <1>0, <1>1, <1>5, <2>1, <2>2, ServerStep DEF Reads, Story
<1>6. CASE Pushes(m)
  <2>1. /\ Len(buffer'[m]) = Len(buffer[m]) + 1 /\ buffer'[m][Len(buffer[m]) + 1] = <<job[m].run, job[m].sent>>
        /\ \A k \in 1..Len(buffer[m]) : buffer'[m][k] = buffer[m][k]
    BY <1>0, <1>6 DEF Pushes
  <2>2. Prefix(buffer[m], buffer'[m])
    BY <1>1, <2>1 DEF Prefix
  <2>3. Len(buffer[m]) = job[m].sent /\ job[m].sent < bound.flushes
    BY <1>3, <1>6 DEF Pushes, Pushed
  <2>4. Prefix(rows'[m].text, buffer'[m])
    BY <1>0, <1>2, <1>3, <1>6, <2>2, PrefixIsTransitive DEF Pushes, Pushed
  <2>5. \A k \in 1..Len(buffer'[m]) : buffer'[m][k] = <<job'[m].run, k - 1>>
    <3> SUFFICES ASSUME NEW k \in 1..Len(buffer'[m]) PROVE buffer'[m][k] = <<job'[m].run, k - 1>>
      OBVIOUS
    <3>1. job'[m].run = job[m].run
      BY <1>6 DEF Pushes
    <3>2. CASE k \in 1..Len(buffer[m])
      BY <1>3, <2>1, <3>1, <3>2 DEF Pushed
    <3>3. CASE k = Len(buffer[m]) + 1
      BY <1>1, <2>1, <2>3, <3>1, <3>3
    <3> QED
      BY <1>1, <2>1, <3>2, <3>3
  <2>6. Pushed(m)'
    BY <1>0, <1>6, <2>1, <2>3, <2>4, <2>5 DEF Pushes, Pushed, Begun
  <2>7. /\ ~Over(m) /\ ~Over(m)' /\ job'[m].sent >= job[m].sent /\ job'[m].pc # "none"
        /\ rows' = rows /\ channel' = channel
    BY <1>0, <1>6 DEF Pushes, Over
  <2> QED
    BY <1>0, <2>2, <2>6, <2>7, ServerStep DEF Story
<1>7. CASE Publishes(m)
  <2>1. ~Over(m) /\ job'[m].sent = job[m].sent + 1 /\ buffer' = buffer /\ rows' = rows
    BY <1>7 DEF Publishes, Over
  <2>2. Len(buffer[m]) = job[m].sent + 1 /\ job[m].sent < bound.flushes /\ ~job'[m].pushed /\ ~job'[m].pending
    BY <1>3, <1>7 DEF Publishes, Pushed
  <2>3. Pushed(m)'
    <3>1. job'[m].pc = "stream" /\ job'[m].run = job[m].run
      BY <1>7 DEF Publishes
    <3>2. \A k \in 1..Len(buffer'[m]) : buffer'[m][k] = <<job'[m].run, k - 1>>
      BY <1>3, <2>1, <3>1 DEF Pushed
    <3>3. Prefix(rows'[m].text, buffer'[m])
      BY <1>3, <2>1 DEF Pushed
    <3>4. Len(buffer'[m]) = job'[m].sent
      BY <2>1, <2>2
    <3> QED
      BY ONLY <2>1, <2>2, <3>1, <3>2, <3>3, <3>4 DEF Pushed, Begun
  <2>4. Fits(Delta(m, job[m].sent, <<job[m].run, job[m].sent>>), m)
    <3>1. buffer'[m][job[m].sent + 1] = <<job[m].run, job[m].sent>>
      <4>1. \A k \in 1..Len(buffer[m]) : buffer[m][k] = <<job[m].run, k - 1>>
        BY <1>3 DEF Pushed
      <4>2. job[m].sent + 1 \in 1..Len(buffer[m]) /\ (job[m].sent + 1) - 1 = job[m].sent
        BY <1>0, <2>2
      <4>3. buffer[m][job[m].sent + 1] = <<job[m].run, (job[m].sent + 1) - 1>>
        BY ONLY <4>1, <4>2
      <4> QED
        BY <2>1, <4>2, <4>3
    <3> QED
      BY <1>0, <2>1, <2>2, <3>1 DEF Fits, Delta
  <2> QED
    BY <1>0, <1>1, <1>7, <1>f, <2>1, <2>3, <2>4, ServerStep DEF Publishes, Story
<1>8. CASE Saves(m)
  <2>1. ~Over(m) /\ Over(m)' /\ buffer' = buffer /\ channel' = channel /\ job'[m].run = job[m].run /\ job'[m].pc = "saved"
    BY <1>8 DEF Saves, Over
  <2>2. Len(buffer[m]) = job[m].sent
    BY <1>3, <1>8 DEF Saves, Pushed
  <2>3. Prefix(rows'[m].text, buffer'[m])
    <3>1. Content(m) = [k \in 1..job[m].sent |-> <<job[m].run, k - 1>>]
      BY DEF Content
    <3>2. Len(Content(m)) = job[m].sent /\ DOMAIN Content(m) = 1..job[m].sent
      BY <1>0, <3>1
    <3>3. \A k \in 1..job[m].sent : Content(m)[k] = buffer[m][k]
      BY <1>3, <2>2, <3>1 DEF Pushed
    <3> QED
      BY <1>0, <1>8, <2>1, <2>2, <3>2, <3>3 DEF Saves, Prefix
  <2>4. Pushed(m)'
    BY <1>3, <2>1, <2>3 DEF Pushed, Begun
  <2> QED
    BY <1>0, <1>1, <2>1, <2>4, ServerStep DEF Story
<1>9. CASE Ends(m)
  <2>1. Over(m)' /\ buffer' = buffer /\ rows'[m].text = rows[m].text /\ job'[m].run = job[m].run
    BY <1>9 DEF Ends, Over
  <2>2. Pushed(m)' /\ job'[m].pc # "none"
    BY <1>3, <1>9, <2>1 DEF Ends, Pushed, Begun
  <2>3. \/ channel' = channel
        \/ \E f \in Frame : Fits(f, m) /\ Publish(f)
    <3>1. Fits(Cancelled(m), m) /\ Fits(Failed(m), m)
      BY DEF Fits, Cancelled, Failed
    <3>2. Fits(Completed(m, rows[m].text), m)
      BY <2>1 DEF Fits, Completed
    <3> QED
      BY <1>9, <1>f, <3>1, <3>2 DEF Ends
  <2> QED
    BY <1>0, <1>1, <2>1, <2>2, <2>3, ServerStep DEF Story
<1> QED
  BY <1>4, <1>5, <1>6, <1>7, <1>8, <1>9, WorkerIs

(* What a worker does to its job and to those of others.                   *)
LEMMA WorkerLeaves ==
    ASSUME TypeOK, NEW n \in Seqs, GenerateAiReply(n)
    PROVE  /\ UNCHANGED <<last, request, bound, stream, asked, answers>>
           /\ \A m \in Seqs \ {n} : rows'[m] = rows[m] /\ job'[m] = job[m] /\ buffer'[m] = buffer[m]
           /\ job[n].pc # "none" /\ job'[n].pc # "none"
           /\ job'[n].attempt = 1 => job[n].attempt = 1
<1> USE DEF server, worker, client, Works
<1>0. job \in [Seqs -> Job] /\ job[n] \in Job /\ job[n].attempt \in 1..2
  BY DEF TypeOK, Job, tries
<1>1. UNCHANGED <<last, request, bound, stream, asked, answers>> /\ job[n].pc # "none"
  BY DEF GenerateAiReply, begin, returnAtOnce, overflow, chunk, streamEnds, push, publish, save, announce, fail,
         jobEnds, workerDies, Reading
<1>2. \A m \in Seqs \ {n} : rows'[m] = rows[m] /\ job'[m] = job[m] /\ buffer'[m] = buffer[m]
  BY DEF GenerateAiReply, begin, returnAtOnce, overflow, chunk, streamEnds, push, publish, save, announce, fail,
         jobEnds, workerDies, Generate, TypeOK
<1>3. ASSUME NEW b \in BOOLEAN, Generate(n, [job[n] EXCEPT !.again = b])
      PROVE  job'[n].pc = "stream" /\ job'[n].attempt = job[n].attempt
  <2>1. PICK j \in Job : j = [job[n] EXCEPT !.again = b]
    BY <1>0 DEF Job
  <2>2. job' = [job EXCEPT ![n] = [j EXCEPT !.pc = "stream", !.run = @ + 1, !.sent = 0,
                                            !.pending = FALSE, !.pushed = FALSE, !.stop = "no"]]
    BY <1>3, <2>1 DEF Generate
  <2>3. job'[n].pc = "stream" /\ job'[n].attempt = j.attempt
    BY <1>0, <2>2 DEF Job
  <2>4. j.attempt = job[n].attempt
    BY <1>0, <2>1 DEF Job
  <2> QED
    BY <2>3, <2>4
<1>4. CASE begin(n) \/ overflow(n)
  BY <1>1, <1>2, <1>3, <1>4 DEF begin, overflow
<1>5. CASE returnAtOnce(n) \/ jobEnds(n) \/ announce(n)
  <2>1. PICK c \in {"done", "announced"} : job' = [job EXCEPT ![n].pc = c]
    BY <1>5 DEF returnAtOnce, jobEnds, announce
  <2> QED
    BY <1>0, <1>1, <1>2, <2>1 DEF Job
<1>6. CASE chunk(n) \/ streamEnds(n) \/ push(n) \/ publish(n)
  <2>1. job'[n].attempt = job[n].attempt /\ job'[n].pc = job[n].pc
    BY <1>0, <1>6 DEF chunk, streamEnds, push, publish, Job
  <2> QED
    BY <1>1, <1>2, <2>1
<1>7. CASE save(n)
  <2>1. job'[n].attempt = job[n].attempt /\ job'[n].pc = "saved"
    BY <1>0, <1>7 DEF save, Job
  <2> QED
    BY <1>1, <1>2, <2>1
<1>8. CASE fail(n)
  <2>1. job'[n].attempt = job[n].attempt /\ job'[n].pc = "failed"
    BY <1>0, <1>8 DEF fail, NoJob
  <2> QED
    BY <1>1, <1>2, <2>1
<1>9. CASE workerDies(n)
  <2>1. CASE job[n].attempt < tries
    <3>1. job'[n].attempt = job[n].attempt + 1 /\ job'[n].pc = "queued"
      BY <1>0, <1>9, <2>1 DEF workerDies, NoJob
    <3> QED
      BY <1>0, <1>1, <1>2, <3>1
  <2>2. CASE ~(job[n].attempt < tries)
    <3>1. job'[n].attempt = job[n].attempt /\ job'[n].pc = "dead"
      BY <1>0, <1>9, <2>2 DEF workerDies, Job
    <3> QED
      BY <1>1, <1>2, <3>1
  <2> QED
    BY <2>1, <2>2
<1> QED
  BY <1>4, <1>5, <1>6, <1>7, <1>8, <1>9 DEF GenerateAiReply

(* The worker of another answer.                                           *)
LEMMA OtherWorker ==
    ASSUME TypeOK, TypeOK', RowsOK, JobOK, NEW n \in Seqs, NEW m \in Seqs, m # n, GenerateAiReply(n), Story(m)
    PROVE  Story(m)'
<1>1. /\ rows'[m] = rows[m] /\ job'[m] = job[m] /\ buffer'[m] = buffer[m]
      /\ UNCHANGED <<bound, stream, asked, answers>> /\ job[n].pc # "none"
  BY WorkerLeaves
<1>2. Pushed(m)'
  BY <1>1 DEF Story, Pushed, Begun
<1>3. /\ Prefix(buffer[m], buffer'[m]) /\ job[m].sent \in Nat /\ Over(m)' = Over(m)
  <2>1. job[m] \in Job /\ buffer[m] \in Seq(Token)
    BY DEF TypeOK
  <2> QED
    BY <1>1, <2>1 DEF Prefix, Over, Job
<1>4. \/ channel' = channel
      \/ \E f \in Frame : Fits(f, m) /\ Publish(f)
  <2>1. n \in Nat /\ n <= last
    BY <1>1 DEF JobOK, Seqs
  <2>2. PICK i \in Nat, t \in Token, s \in Seq(Token) :
           i = job[n].sent /\ t = <<job[n].run, job[n].sent>> /\ s = Shown(n)
    <3>1. job[n].sent \in Nat /\ job[n].run \in Nat
      BY DEF TypeOK, Job
    <3>2. Shown(n) \in Seq(Token)
      BY <2>1, RowTypes
    <3> QED
      BY <3>1, <3>2 DEF Token
  <2>3. /\ Started(n) \in Frame /\ Delta(n, i, t) \in Frame
        /\ Completed(n, s) \in Frame /\ Cancelled(n) \in Frame /\ Failed(n) \in Frame
    BY FrameTypes
  <2>4. /\ Started(n).on = n /\ Delta(n, i, t).on = n
        /\ Completed(n, s).on = n /\ Cancelled(n).on = n /\ Failed(n).on = n
    BY DEF Started, Delta, Completed, Cancelled, Failed
  <2>5. \/ channel' = channel
        \/ Publish(Started(n)) \/ Publish(Delta(n, i, t))
        \/ Publish(Completed(n, s)) \/ Publish(Cancelled(n)) \/ Publish(Failed(n))
    BY <2>2 DEF GenerateAiReply, begin, returnAtOnce, overflow, chunk, streamEnds, push, publish, save, announce, fail,
           jobEnds, workerDies, Generate
  <2>6. \A f \in Frame : f.on = n => Fits(f, m)
    BY DEF Fits
  <2> QED
    BY <2>3, <2>4, <2>5, <2>6
<1>5. job'[m].sent >= job[m].sent
  BY <1>1, <1>3
<1>6. Carried(m)' /\ Answered(m)' /\ Following(m)'
  BY <1>1, <1>3, <1>4, <1>5, ServerStep
<1> QED
  BY <1>2, <1>6 DEF Story

(* A status says what the job has done, once there is one.                 *)
LEMMA CompletedIsOver ==
    ASSUME TypeOK, JobOK, NEW m \in Seqs, Pushed(m), job[m].pc # "none", rows[m].status \in Final
    PROVE  Over(m)
<1>1. job[m] \in Job
  BY DEF TypeOK
<1>2. job[m].pc \notin {"stream", "lost", "queued"}
  BY DEF JobOK, Pushed, Final, InFlight
<1> QED
  BY <1>1, <1>2 DEF Over, Job

(* A request: it adds rows without text, or lets the job of its answer     *)
(* come, and answers what the row says.                                    *)
LEMMA RequestJobs ==
    ASSUME TypeOK, RowsOK, JobOK, RequestOK, NEW r \in Request, Controller(r)
    PROVE  /\ UNCHANGED <<buffer, channel, stream, asked, bound>>
           /\ \A s \in Request \ {r} : request'[s] = request[s]
           /\ \A m \in Seqs :
                 /\ m <= last => rows'[m].text = rows[m].text /\ rows'[m].status = rows[m].status
                 /\ m > last => rows[m].text = <<>> /\ rows'[m].text = <<>>
                 /\ \/ job'[m] = job[m]
                    \/ /\ m = request[r].made /\ request[r].pc = "committed" /\ job[m].pc = "none"
                       /\ \E c \in {"queued", "lost"} : job'[m] = [job[m] EXCEPT !.pc = c]
<1> USE DEF server, worker, client
<1>1. UNCHANGED <<buffer, channel, stream, asked, bound>>
  BY DEF Controller, check, commit, dispatch, respond, giveUp, requestDies
<1>2. \A s \in Request \ {r} : request'[s] = request[s]
  BY DEF Controller, check, commit, dispatch, respond, giveUp, requestDies, TypeOK
<1>3. \A m \in Seqs : m > last => rows[m] = NoRow /\ rows[m].text = <<>>
  BY DEF RowsOK, NoRow
<1>4. CASE commit(r)
  <2>1. job' = job
    BY <1>4 DEF commit
  <2>2. ASSUME NEW m \in Seqs
        PROVE  /\ m <= last => rows'[m].text = rows[m].text /\ rows'[m].status = rows[m].status
               /\ m > last => rows'[m].text = <<>>
    <3>0. m \in Int /\ last \in Int /\ last' \in Int
      <4>1. \A k \in Seqs : k \in Int
        BY DEF Seqs
      <4>2. last' \in Seqs
        BY <1>4, CommitRows DEF RequestOK
      <4> QED
        BY <4>1, <4>2, BoundTypes DEF TypeOK
    <3>1. /\ m <= last => rows'[m].text = rows[m].text /\ rows'[m].status = rows[m].status
          /\ m > last /\ m < last' => rows'[m] = Question(m)
          /\ m > last' => rows'[m] = NoRow
          /\ rows'[last'] = Answer(Parent(request[r]))
      BY <1>4, CommitRows DEF RequestOK
    <3> QED
      BY <3>0, <3>1 DEF Question, NoRow, Answer
  <2> QED
    BY <1>1, <1>2, <1>3, <2>1, <2>2
<1>5. CASE dispatch(r) \/ requestDies(r)
  <2>1. /\ request[r].pc = "committed" /\ rows' = rows
        /\ \E c \in {"queued", "lost"} : job' = [job EXCEPT ![request[r].made].pc = c]
    BY <1>5 DEF dispatch, requestDies
  <2>2. job[request[r].made].pc = "none"
    BY <2>1 DEF RequestOK, MadeOK
  <2>3. \A m \in Seqs :
          \/ job'[m] = job[m]
          \/ m = request[r].made /\ \E c \in {"queued", "lost"} : job'[m] = [job[m] EXCEPT !.pc = c]
    BY <2>1 DEF TypeOK
  <2> QED
    BY <1>1, <1>2, <1>3, <2>1, <2>2, <2>3
<1>6. ASSUME job' = job, rows' = rows
      PROVE  \A m \in Seqs :
                /\ m <= last => rows'[m].text = rows[m].text /\ rows'[m].status = rows[m].status
                /\ m > last => rows'[m].text = <<>>
                /\ job'[m] = job[m]
  BY <1>3, <1>6
<1>7. CASE respond(r) \/ giveUp(r) \/ \E op \in {"send", "regenerate", "edit"}, on \in 0..MaxRows : check(r, op, on)
  <2>1. job' = job /\ rows' = rows
    BY <1>7 DEF respond, giveUp, check
  <2> QED
    BY <1>1, <1>2, <1>3, <1>6, <2>1
<1> QED
  BY <1>4, <1>5, <1>7 DEF Controller

LEMMA RequestTells ==
    ASSUME TypeOK, TypeOK', RowsOK, JobOK, RequestOK, \A s \in Request : QueuedOK(s),
           NEW r \in Request, Controller(r), NEW m \in Seqs, Story(m)
    PROVE  Story(m)'
<1> USE DEF server, worker, client
<1>0. /\ UNCHANGED <<buffer, channel, stream, asked, bound>>
      /\ m <= last => rows'[m].text = rows[m].text /\ rows'[m].status = rows[m].status
      /\ m > last => rows[m].text = <<>> /\ rows'[m].text = <<>>
      /\ \/ job'[m] = job[m]
         \/ /\ m = request[r].made /\ request[r].pc = "committed" /\ job[m].pc = "none"
            /\ \E c \in {"queued", "lost"} : job'[m] = [job[m] EXCEPT !.pc = c]
  BY RequestJobs
<1>1. rows'[m].text = rows[m].text /\ m \in Int /\ last \in Int
  <2>1. m \in Int /\ last \in Int
    BY BoundTypes DEF Seqs, TypeOK
  <2> QED
    BY <1>0, <2>1
<1>2. /\ job'[m].sent = job[m].sent /\ job'[m].run = job[m].run /\ job[m].sent \in Nat
      /\ job'[m].pc = job[m].pc \/ (job[m].pc = "none" /\ job'[m].pc \in {"queued", "lost"} /\ rows'[m].status = "pending")
      /\ job'[m].pc = job[m].pc => job'[m] = job[m] /\ (job[m].pc # "none" => rows'[m].status = rows[m].status)
      /\ Over(m)' = Over(m)
  <2>1. job[m] \in Job
    BY DEF TypeOK
  <2>2. job[m].pc # "none" => rows'[m].status = rows[m].status
    BY <1>0 DEF JobOK
  <2>3. CASE job'[m] = job[m]
    BY <2>1, <2>2, <2>3 DEF Job, Over
  <2>4. ASSUME NEW c \in {"queued", "lost"}, m = request[r].made, request[r].pc = "committed", job[m].pc = "none",
               job'[m] = [job[m] EXCEPT !.pc = c]
        PROVE  /\ job'[m].sent = job[m].sent /\ job'[m].run = job[m].run /\ job[m].sent \in Nat
               /\ job'[m].pc \in {"queued", "lost"} /\ rows'[m].status = "pending" /\ Over(m)' = Over(m)
    <3>1. rows[m].status = "pending"
      BY <2>4 DEF QueuedOK
    <3>2. m <= last
      BY <3>1, <1>1 DEF RowsOK, NoRow
    <3> QED
      BY <1>0, <2>1, <2>4, <3>1, <3>2 DEF Job, Over
  <2> QED
    BY <1>0, <2>3, <2>4
<1>3. Pushed(m)'
  BY <1>0, <1>1, <1>2 DEF Story, Pushed, Begun
<1>4. Prefix(buffer[m], buffer'[m]) /\ job'[m].sent >= job[m].sent
  <2>1. buffer[m] \in Seq(Token)
    BY DEF TypeOK
  <2> QED
    BY <1>0, <1>2, <2>1 DEF Prefix
<1>5. CASE answers' = answers
  <2>1. Carried(m)' /\ Answered(m)' /\ Following(m)'
    BY <1>0, <1>1, <1>2, <1>4, <1>5, ServerStep
  <2> QED
    BY <1>3, <2>1 DEF Story
<1>6. CASE answers' # answers
  <2>1. respond(r) /\ UNCHANGED <<rows, job>>
    BY <1>6 DEF Controller, check, commit, dispatch, respond, giveUp, requestDies
  <2>2. PICK a \in Heard : answers' = answers \cup {a} /\ a.on = request[r].made /\ a.kind = "seed"
                           /\ ((a.status = rows[a.on].status /\ a.text = Shown(a.on)) \/ a.status = "pending")
    <3>1. PICK a : /\ answers' = answers \cup {a} /\ a.on = request[r].made /\ a.kind = "seed"
                   /\ ((a.status = rows[a.on].status /\ a.text = Shown(a.on)) \/ a.status = "pending")
      <4> DEFINE k == request[r].made
      <4> DEFINE edited == [kind |-> "seed", on |-> k, status |-> rows[k].status, text |-> Shown(k), index |-> -1]
      <4> DEFINE queued == [kind |-> "seed", on |-> k, status |-> "pending", text |-> <<>>, index |-> -1]
      <4>1. answers' = answers \cup {edited} \/ answers' = answers \cup {queued}
        BY <1>6, <2>1 DEF respond, Respond
      <4>2. edited.on = k /\ edited.kind = "seed" /\ edited.status = rows[k].status /\ edited.text = Shown(k)
        OBVIOUS
      <4>3. queued.on = k /\ queued.kind = "seed" /\ queued.status = "pending"
        OBVIOUS
      <4> HIDE DEF edited, queued
      <4> QED
        BY <4>1, <4>2, <4>3
    <3>2. a \in Heard
      BY <3>1 DEF TypeOK
    <3> QED
      BY <3>1, <3>2
  <2>3. ASSUME a.on = m PROVE Told(a, m)
    <3>1. job[m].pc # "none"
      BY <2>1, <2>2, <2>3 DEF respond, QueuedOK
    <3>2. a.status = "completed" => Over(m) /\ a.text = rows[m].text
      BY <2>2, <2>3, <3>1, CompletedIsOver DEF Story, Shown, Final, Status, InFlight
    <3>3. a.status \in {"cancelled", "failed"} => a.text = <<>>
      BY <2>2, <2>3 DEF Shown
    <3> QED
      BY <2>2, <3>2, <3>3 DEF Told
  <2>4. \A b : Told(b, m)' <=> Told(b, m)
    BY <1>0, <2>1 DEF Told, Over, ToCome, TextFrame
  <2>5. Answered(m)'
    <3>1. \A b \in answers' : b.on = m => Told(b, m)'
      BY <2>2, <2>3, <2>4 DEF Story, Answered
    <3>2. m \in asked' => job'[m].pc # "none" /\ ~ToCome(m, 0)'
      BY <1>0, <2>1 DEF Story, Answered, ToCome, Over, TextFrame
    <3> QED
      BY <3>1, <3>2 DEF Answered
  <2>6. Carried(m)' /\ Following(m)'
    BY <1>0, <2>1 DEF Story, Carried, Following, Follows, Over, ToCome, TextFrame
  <2> QED
    BY <1>3, <2>5, <2>6 DEF Story
<1> QED
  BY <1>5, <1>6

(* What a request keeps of the answers that wait for their jobs.           *)
LEMMA QueuedStep ==
    ASSUME TypeOK, TypeOK', RowsOK, JobOK, RequestOK, \A r \in Request : QueuedOK(r), [Next]_vars
    PROVE  \A r \in Request : QueuedOK(r)'
<1> USE DEF server, worker, client
<1> SUFFICES ASSUME NEW r \in Request PROVE QueuedOK(r)'
  OBVIOUS
<1>0. /\ request[r].pc \in {"committed", "dispatched"} => request[r].made \in Seqs /\ request[r].made <= last
      /\ QueuedOK(r) /\ MadeOK(r) /\ request \in [Request -> Post] /\ request[r] \in Post
  <2>1. last \in 0..MaxRows /\ MaxRows \in Nat
    BY BoundTypes DEF TypeOK
  <2> QED
    BY <2>1 DEF RequestOK, MadeOK, Seqs, TypeOK
<1>1. CASE UNCHANGED <<rows, request, job>>
  BY <1>0, <1>1 DEF QueuedOK
<1>2. ASSUME NEW s \in Request, Controller(s) PROVE QueuedOK(r)'
  <2>1. /\ \A t \in Request \ {s} : request'[t] = request[t]
        /\ \A m \in Seqs : m <= last => rows'[m].status = rows[m].status
        /\ \A m \in Seqs : \/ job'[m] = job[m]
                           \/ \E c \in {"queued", "lost"} : job'[m] = [job[m] EXCEPT !.pc = c]
    BY <1>2, RequestJobs
  <2>2. \A m \in Seqs : job[m].pc # "none" => job'[m].pc # "none"
    <3>1. \A m \in Seqs : job[m] \in Job
      BY DEF TypeOK
    <3> QED
      BY <2>1, <3>1 DEF Job
  <2>3. CASE r # s
    BY <1>0, <2>1, <2>2, <2>3 DEF QueuedOK
  <2>4. CASE r = s /\ commit(r)
    <3>1. request'[r].pc = "committed"
      BY <1>0, <2>4 DEF commit, Post
    <3>2. request'[r].made = last' /\ rows'[last'] = Answer(Parent(request[r]))
      BY <2>4, CommitRows DEF RequestOK
    <3> QED
      BY <3>1, <3>2 DEF QueuedOK, Answer
  <2>5. CASE r = s /\ dispatch(r)
    <3>1. request'[r].pc = "dispatched" /\ request'[r].made = request[r].made /\ request[r].made \in Seqs
      BY <1>0, <2>5 DEF dispatch, Post
    <3>2. PICK m \in Seqs : m = request[r].made
      BY <3>1
    <3>3. job'[m].pc = "queued"
      BY <2>5, <3>2 DEF dispatch, TypeOK, Job
    <3> QED
      BY <3>1, <3>2, <3>3 DEF QueuedOK
  <2>6. CASE r = s /\ (respond(r) \/ giveUp(r) \/ requestDies(r))
    <3>1. request'[r].pc = "idle"
      BY <1>0, <2>6 DEF respond, giveUp, requestDies, Idle
    <3> QED
      BY <3>1 DEF QueuedOK
  <2>7. CASE r = s /\ \E op \in {"send", "regenerate", "edit"}, on \in 0..MaxRows : check(r, op, on)
    <3>1. request'[r].pc = "checked"
      BY <1>0, <2>7 DEF check, Idle
    <3> QED
      BY <3>1 DEF QueuedOK
  <2> QED
    BY <1>2, <2>3, <2>4, <2>5, <2>6, <2>7 DEF Controller
<1>3. ASSUME NEW n \in Seqs, GenerateAiReply(n) PROVE QueuedOK(r)'
  <2>1. /\ request' = request /\ job[n].pc # "none" /\ job'[n].pc # "none"
        /\ \A m \in Seqs \ {n} : rows'[m] = rows[m] /\ job'[m] = job[m]
    BY <1>3, WorkerLeaves
  <2>2. request[r].pc = "committed" => request[r].made # n
    BY <1>0, <2>1 DEF MadeOK
  <2> QED
    BY <1>0, <2>1, <2>2 DEF QueuedOK
<1>4. CASE Client \/ (\E m \in Seqs : cancelReply(m)) \/ UNCHANGED vars
  <2>1. UNCHANGED <<rows, request, job>>
    BY <1>4 DEF Client, receive, frameLost, reload, showMessage, askFails, hear, cancelReply, vars
  <2> QED
    BY <1>1, <2>1
<1> QED
  BY <1>2, <1>3, <1>4 DEF Next

(* A frame that leaves the channel.                                        *)
LEMMA FrameLeaves ==
    ASSUME TypeOK, TypeOK', NEW m \in Seqs, Story(m), channel # <<>>, channel' = Tail(channel),
           UNCHANGED <<server, worker, bound>>
    PROVE  /\ Pushed(m)' /\ Carried(m)' /\ Grows(m)
           /\ channel[1] \in Frame
           /\ TextFrame(1, m) => \A i \in Int : i <= channel[1].index => ~ToCome(m, i)'
           /\ channel[1].on = m /\ channel[1].ev = "completed" => \A i \in Int : ~ToCome(m, i)'
<1> USE DEF server, worker
<1>0. /\ channel \in Seq(Frame) /\ channel' \in Seq(Frame) /\ Len(channel) \in Nat /\ Len(channel') = Len(channel) - 1
      /\ 1 \in 1..Len(channel) /\ channel[1] \in Frame
      /\ \A k \in 1..Len(channel') : channel'[k] = channel[k + 1] /\ k + 1 \in 1..Len(channel)
  BY DEF TypeOK
<1>1. Pushed(m)' /\ buffer[m] \in Seq(Token) /\ job[m].sent \in Nat /\ bound.flushes \in Nat
  BY BoundTypes DEF Story, Pushed, Begun, TypeOK, Job
<1>2. Carried(m)'
  <2>1. ASSUME NEW k \in 1..Len(channel'), TextFrame(k, m)'
        PROVE  /\ channel'[k].index < Len(buffer'[m]) /\ channel'[k].index < bound'.flushes
               /\ channel'[k].text = <<buffer'[m][channel'[k].index + 1]>>
               /\ Over(m)' \/ channel'[k].index < job'[m].sent
               /\ \A j \in 1..(k - 1) :
                     /\ TextFrame(j, m)' => channel'[j].index < channel'[k].index
                     /\ channel'[j].on = m => channel'[j].ev # "completed"
    <3>1. k + 1 \in 1..Len(channel) /\ channel'[k] = channel[k + 1] /\ TextFrame(k + 1, m)
      BY <1>0, <2>1 DEF TextFrame
    <3>2. \A j \in 1..(k - 1) : /\ j + 1 \in 1..((k + 1) - 1) /\ channel'[j] = channel[j + 1]
                                /\ (TextFrame(j, m)' => TextFrame(j + 1, m))
      BY <1>0 DEF TextFrame
    <3>3. \A j \in 1..((k + 1) - 1) :
                     /\ TextFrame(j, m) => channel[j].index < channel[k + 1].index
                     /\ channel[j].on = m => channel[j].ev # "completed"
      BY <3>1 DEF Story, Carried
    <3>4. /\ channel[k + 1].index < Len(buffer[m]) /\ channel[k + 1].index < bound.flushes
          /\ channel[k + 1].text = <<buffer[m][channel[k + 1].index + 1]>>
          /\ Over(m) \/ channel[k + 1].index < job[m].sent
      BY <3>1 DEF Story, Carried
    <3> QED
      BY <3>1, <3>2, <3>3, <3>4 DEF Over
  <2>2. ASSUME NEW k \in 1..Len(channel'), channel'[k].on = m, channel'[k].ev = "completed"
        PROVE  Over(m)' /\ channel'[k].text = rows'[m].text
    BY <1>0, <2>2 DEF Story, Carried, Over
  <2> QED
    BY <2>1, <2>2 DEF Carried
<1>3. Grows(m)
  <2>1. \A k \in 1..Len(channel') : TextFrame(k, m)' => \E j \in 1..Len(channel) : channel[j] = channel'[k]
    BY <1>0
  <2>2. ~Over(m)' => ~Over(m) /\ job'[m].sent >= job[m].sent
    BY <1>1 DEF Over
  <2>3. \A i \in Int : ToCome(m, i)' => ToCome(m, i)
    BY <2>1, <2>2, Passing
  <2>4. Prefix(buffer[m], buffer'[m])
    BY <1>1 DEF Prefix
  <2> QED
    BY <2>3, <2>4 DEF Grows, Over
<1>4. ASSUME TextFrame(1, m), NEW i \in Int, i <= channel[1].index, ToCome(m, i)' PROVE FALSE
  <2>1. Over(m) \/ channel[1].index < job[m].sent
    BY <1>0, <1>4 DEF Story, Carried
  <2>2. \A f \in Frame : f.index \in Int
    BY DEF Frame
  <2>3. channel[1].index \in Int
    BY <1>0, <2>2
  <2>4. CASE ~Over(m) /\ job[m].sent <= i
    BY <1>1, <1>4, <2>1, <2>3, <2>4
  <2>5. ASSUME NEW k \in 1..Len(channel'), TextFrame(k, m)', channel'[k].index = i PROVE FALSE
    <3>1. k + 1 \in 1..Len(channel) /\ 1 \in 1..((k + 1) - 1) /\ TextFrame(k + 1, m) /\ channel[k + 1].index = i
      BY <1>0, <2>5 DEF TextFrame
    <3>2. channel[1].index < channel[k + 1].index
      BY <1>4, <3>1 DEF Story, Carried
    <3> QED
      BY <1>4, <2>3, <3>1, <3>2
  <2> QED
    BY <1>4, <2>4, <2>5 DEF ToCome, Over
<1>5. ASSUME channel[1].on = m, channel[1].ev = "completed", NEW i \in Int, ToCome(m, i)' PROVE FALSE
  <2>1. Over(m)
    BY <1>0, <1>5 DEF Story, Carried
  <2>2. PICK k \in 1..Len(channel') : TextFrame(k, m)'
    BY <1>5, <2>1 DEF ToCome, Over
  <2>3. k + 1 \in 1..Len(channel) /\ 1 \in 1..((k + 1) - 1) /\ TextFrame(k + 1, m)
    BY <1>0, <2>2 DEF TextFrame
  <2>4. channel[1].on = m => channel[1].ev # "completed"
    BY <2>3 DEF Story, Carried
  <2> QED
    BY <1>5, <2>4
<1> QED
  BY <1>0, <1>1, <1>2, <1>3, <1>4, <1>5

LEMMA EnsureFollows ==
    ASSUME TypeOK, NEW m \in Seqs, Following(m)
    PROVE  Ensure(m) \in Stream /\ Follows(Ensure(m), m)
<1>1. Ensure(m) \in Stream
  BY EnsureTypes
<1>2. CASE stream[m] = NoStream
  <2>1. Fresh.text = <<>> /\ Fresh.applied = -1 /\ Fresh.gap = FALSE /\ Fresh.status = "pending"
    BY DEF Fresh
  <2>2. PICK s : s = Fresh
    OBVIOUS
  <2>3. buffer[m] \in Seq(Token)
    BY DEF TypeOK
  <2>4. Follows(s, m)
    BY <2>1, <2>2, <2>3 DEF Follows, Prefix
  <2> QED
    BY <1>1, <1>2, <2>2, <2>4 DEF Ensure
<1>3. CASE stream[m] # NoStream
  BY <1>1, <1>3 DEF Ensure, Following
<1> QED
  BY <1>2, <1>3

(* The client applies the first frame.                                     *)
LEMMA Receives ==
    ASSUME TypeOK, TypeOK', NEW m \in Seqs, Story(m), channel # <<>>, channel' = Tail(channel),
           UNCHANGED <<server, worker, bound>>, NEW f \in Frame, f = channel[1], f.on = m,
           NEW s \in Stream, Follows(s, m)
    PROVE  /\ Follows(apply(s, f), m)'
           /\ f.ev = "delta" /\ apply(s, f).gap => job'[m].pc # "none" /\ ~ToCome(m, 0)'
<1>0. /\ Grows(m) /\ Pushed(m) /\ Pushed(m)' /\ Follows(s, m)'
      /\ TextFrame(1, m) => \A i \in Int : i <= f.index => ~ToCome(m, i)'
      /\ f.ev = "completed" => \A i \in Int : ~ToCome(m, i)'
      /\ 1 \in 1..Len(channel) /\ buffer[m] \in Seq(Token) /\ buffer' = buffer /\ rows' = rows /\ job' = job
  BY FrameLeaves, FollowsStays DEF Story, server, worker, TypeOK
<1>1. /\ f.index \in Nat /\ f.ev \in {"started", "delta", "completed", "cancelled", "failed"}
      /\ s.text \in Seq(Token) /\ s.applied \in Int /\ s.applied >= -1 /\ s.gap \in BOOLEAN
  BY <1>0 DEF Frame, Stream, Follows
<1>2. ASSUME NEW c \in {"streaming", "cancelled", "failed"}, NEW g \in BOOLEAN, g => s.gap, NEW u,
             u.text = s.text, u.applied = s.applied, u.status = c, u.gap = g
      PROVE  Follows(u, m)'
  BY <1>0, <1>2 DEF Follows
<1>3. CASE f.ev \in {"started", "cancelled", "failed"}
  <2>1. PICK u : u = apply(s, f)
    OBVIOUS
  <2>2. /\ u.text = s.text /\ u.applied = s.applied /\ u.status \in {"streaming", "cancelled", "failed"}
        /\ u.gap \in BOOLEAN /\ (u.gap => s.gap)
    BY <1>1, <1>3, <2>1 DEF apply, Stream
  <2> QED
    BY <1>2, <1>3, <2>1, <2>2
<1>4. CASE f.ev = "completed"
  <2>1. PICK u : u = apply(s, f)
    OBVIOUS
  <2>2. u.text = f.text /\ u.applied = s.applied /\ u.status = "completed" /\ u.gap = FALSE
    BY <1>4, <2>1 DEF apply, Stream
  <2>3. Over(m)' /\ f.text = rows'[m].text
    BY <1>0, <1>4 DEF Story, Carried, Over
  <2>4. Prefix(u.text, buffer'[m])
    BY <1>0, <2>2, <2>3 DEF Pushed
  <2>5. s.applied + 1 \in Int /\ ~ToCome(m, s.applied + 1)'
    BY <1>0, <1>1, <1>4
  <2>6. Follows(u, m)'
    BY <1>1, <2>2, <2>3, <2>4, <2>5 DEF Follows
  <2> QED
    BY <1>4, <2>1, <2>6
<1>5. CASE f.ev = "delta"
  <2>0. /\ TextFrame(1, m) /\ apply(s, f) = AppliedDelta(s, f)
        /\ f.text = <<buffer[m][f.index + 1]>> /\ f.index < Len(buffer[m]) /\ ToCome(m, f.index)
        /\ \A i \in Int : i <= f.index => ~ToCome(m, i)'
    <3>1. TextFrame(1, m) /\ apply(s, f) = AppliedDelta(s, f)
      BY <1>5 DEF TextFrame, apply
    <3>2. f.text = <<buffer[m][f.index + 1]>> /\ f.index < Len(buffer[m])
      BY <1>0, <3>1 DEF Story, Carried
    <3> QED
      BY <1>0, <3>1, <3>2 DEF ToCome
  <2>1. job'[m].pc # "none"
    <3>1. Over(m) \/ f.index < job[m].sent
      BY <1>0, <2>0 DEF Story, Carried
    <3>2. job[m].sent \in Nat
      BY DEF TypeOK, Job
    <3> QED
      BY <1>0, <1>1, <3>1, <3>2 DEF Over, Pushed, Begun
  <2>2. ~ToCome(m, 0)'
    BY <1>1, <2>0
  <2>3. CASE s.status \in Final \/ f.index <= s.applied
    <3>1. AppliedDelta(s, f) = s
      BY <1>1, <2>3 DEF AppliedDelta
    <3> QED
      BY <1>0, <2>0, <2>1, <2>2, <3>1
  <2>4. CASE s.status \notin Final /\ f.index > s.applied + 1
    <3>1. PICK u : u = [s EXCEPT !.gap = TRUE]
      OBVIOUS
    <3>2. u.text = s.text /\ u.applied = s.applied /\ u.status = s.status
      BY <3>1 DEF Stream
    <3>3. AppliedDelta(s, f) = u
      BY <1>1, <2>4, <3>1 DEF AppliedDelta
    <3>4. Follows(u, m)'
      BY <1>0, <2>2, <3>2 DEF Follows
    <3> QED
      BY <2>0, <2>1, <2>2, <3>3, <3>4
  <2>5. CASE s.status \notin Final /\ f.index = s.applied + 1
    <3>1. PICK u : u = [s EXCEPT !.status = "streaming", !.text = @ \o f.text, !.applied = f.index]
      OBVIOUS
    <3>2. u.text = s.text \o f.text /\ u.applied = f.index /\ u.status = "streaming"
      BY <3>1 DEF Stream
    <3>3. AppliedDelta(s, f) = u
      BY <1>1, <2>5, <3>1 DEF AppliedDelta
    <3>4. Len(s.text) = f.index /\ Prefix(s.text, buffer[m])
      BY <2>0, <2>5 DEF Follows
    <3>5. Len(u.text) = f.index + 1 /\ Prefix(u.text, buffer'[m])
      <4>1. PICK b \in Token : b = buffer[m][f.index + 1]
        BY <1>0, <1>1, <2>0
      <4>2. u.text = Append(s.text, b)
        BY <1>1, <2>0, <3>2, <4>1
      <4>3. /\ Len(u.text) = f.index + 1 /\ DOMAIN u.text = 1..(f.index + 1) /\ u.text[f.index + 1] = b
            /\ \A k \in 1..f.index : u.text[k] = s.text[k]
        BY <1>1, <3>4, <4>2
      <4>4. \A k \in 1..f.index : s.text[k] = buffer[m][k]
        BY <1>1, <3>4 DEF Prefix
      <4>5. \A k \in 1..(f.index + 1) : u.text[k] = buffer'[m][k]
        <5> SUFFICES ASSUME NEW k \in 1..(f.index + 1) PROVE u.text[k] = buffer'[m][k]
          OBVIOUS
        <5>1. CASE k \in 1..f.index
          BY <1>0, <4>3, <4>4, <5>1
        <5>2. CASE k = f.index + 1
          BY <1>0, <4>1, <4>3, <5>2
        <5> QED
          BY <1>1, <5>1, <5>2
      <4>6. Len(u.text) <= Len(buffer'[m])
        BY <1>0, <1>1, <2>0, <4>3
      <4> QED
        BY <4>3, <4>5, <4>6 DEF Prefix
    <3>6. Follows(u, m)'
      BY <1>1, <2>2, <3>2, <3>5 DEF Follows
    <3> QED
      BY <2>0, <2>1, <2>2, <3>3, <3>6
  <2> QED
    BY <1>1, <2>3, <2>4, <2>5
<1> QED
  BY <1>1, <1>3, <1>4, <1>5

(* The client hears what the server said.                                  *)
LEMMA Hears ==
    ASSUME TypeOK, NEW m \in Seqs, Story(m), NEW a \in Heard, Told(a, m), NEW s \in Stream, Follows(s, m)
    PROVE  Follows(IF a.kind = "seed" THEN seed(s, a) ELSE resync(s, a), m)
<1>0. /\ a.kind \in {"seed", "sync"} /\ a.status \in Status /\ a.text \in Seq(Token) /\ buffer[m] \in Seq(Token)
      /\ bound.flushes \in Nat /\ Len(a.text) \in Nat
  BY BoundTypes DEF Heard, TypeOK
<1>1. Prefix(<<>>, buffer[m])
  BY <1>0 DEF Prefix
<1>2. a.status = "completed" => Over(m) /\ a.text = rows[m].text /\ Prefix(a.text, buffer[m])
  BY DEF Told, Story, Pushed
<1>3. a.status \in {"cancelled", "failed"} => a.text = <<>> /\ Prefix(a.text, buffer[m])
  BY <1>1 DEF Told
<1>4. ~ToCome(m, bound.flushes + 1)
  <2>1. job[m].sent \in Nat /\ \A k \in 1..Len(channel) : channel[k].index \in Nat
    <3>1. \A f \in Frame : f.index \in Nat
      BY DEF Frame
    <3> QED
      BY <3>1 DEF TypeOK, Job
  <2>2. \A k \in 1..Len(channel) : TextFrame(k, m) => channel[k].index < bound.flushes
    BY DEF Story, Carried
  <2> QED
    BY <1>0, <2>1, <2>2 DEF ToCome
<1>5. CASE a.kind = "seed" /\ a.status \in InFlight
  <2>1. PICK u : u = seed(s, a)
    OBVIOUS
  <2>2. u.text = s.text /\ u.applied = s.applied /\ u.gap = s.gap /\ u.status # "completed"
    BY <1>5, <2>1 DEF seed, Stream, InFlight
  <2>3. Follows(u, m)
    BY <2>2 DEF Follows
  <2> QED
    BY <1>5, <2>1, <2>3
<1>6. CASE a.kind = "seed" /\ a.status \in Final
  <2>1. PICK u : u = seed(s, a)
    OBVIOUS
  <2>2. u.text = a.text /\ u.applied = bound.flushes /\ u.gap = s.gap /\ u.status = a.status
    BY <1>6, <2>1 DEF seed, Stream, Beyond, Final
  <2>3. Prefix(a.text, buffer[m])
    BY <1>2, <1>3, <1>6 DEF Final, Status, InFlight
  <2>4. Follows(u, m)
    BY <1>0, <1>2, <1>4, <2>2, <2>3 DEF Follows
  <2> QED
    BY <1>6, <2>1, <2>4
<1>7. CASE a.kind = "sync"
  <2>1. PICK u : u = resync(s, a)
    OBVIOUS
  <2>2. u.text = a.text /\ u.applied = a.index /\ u.gap = FALSE /\ u.status = a.status
    BY <2>1 DEF resync
  <2>3. Prefix(a.text, buffer[m])
    BY <1>0, <1>2, <1>3, <1>7 DEF Told, Status, InFlight
  <2>4. a.index >= -1 /\ (ToCome(m, a.index + 1) => Len(a.text) = a.index + 1)
    <3>1. CASE a.status \in InFlight
      BY <1>0, <1>7, <3>1 DEF Told
    <3>2. CASE a.status \in Final
      <4>1. a.index = -1 /\ ~ToCome(m, 0)
        BY <1>7, <3>2 DEF Told
      <4> QED
        BY <4>1
    <3> QED
      BY <1>0, <3>1, <3>2 DEF Final
  <2>5. Follows(u, m)
    BY <1>2, <2>2, <2>3, <2>4 DEF Follows
  <2> QED
    BY <1>7, <2>1, <2>5
<1> QED
  BY <1>0, <1>5, <1>6, <1>7 DEF Final

LEMMA ClientTells ==
    ASSUME TypeOK, TypeOK', RowsOK, JobOK, ClientOK, Client, NEW m \in Seqs, Story(m)
    PROVE  Story(m)'
<1>0. UNCHANGED <<server, worker, bound>>
  BY DEF Client, receive, frameLost, reload, showMessage, askFails, hear
<1>1. /\ Pushed(m)' /\ Over(m)' = Over(m) /\ rows' = rows /\ buffer' = buffer /\ job' = job /\ bound' = bound
      /\ buffer[m] \in Seq(Token)
  BY <1>0 DEF Story, Pushed, Begun, Over, server, worker, TypeOK
<1>2. CASE receive
  <2>1. channel # <<>> /\ channel' = Tail(channel) /\ answers' = answers
    BY <1>2 DEF receive
  <2>2. Carried(m)' /\ Grows(m) /\ channel[1] \in Frame
    BY <1>0, <2>1, FrameLeaves
  <2>3. PICK f \in Frame : f = channel[1]
    BY <2>2
  <2>4. /\ stream' = [stream EXCEPT ![f.on] = apply(Ensure(f.on), f)]
        /\ asked' = IF f.ev = "delta" /\ apply(Ensure(f.on), f).gap THEN asked \cup {f.on} ELSE asked
    <3>1. Head(channel) = f
      BY <2>1, <2>3 DEF TypeOK
    <3> QED
      BY <1>2, <3>1 DEF receive, Keep
  <2>5. CASE f.on # m
    <3>1. stream'[m] = stream[m] /\ (m \in asked' => m \in asked)
      BY <2>4, <2>5 DEF TypeOK
    <3>2. Answered(m)' /\ Following(m)'
      BY <2>1, <2>2, <3>1, ClientKeeps DEF Story
    <3> QED
      BY <1>1, <2>2, <3>2 DEF Story
  <2>6. CASE f.on = m
    <3>1. PICK s \in Stream : s = Ensure(m) /\ Follows(s, m)
      BY EnsureFollows DEF Story
    <3>2. PICK u : u = apply(s, f)
      OBVIOUS
    <3>3. Follows(u, m)' /\ (f.ev = "delta" /\ u.gap => job'[m].pc # "none" /\ ~ToCome(m, 0)')
      BY <1>0, <2>1, <2>3, <2>6, <3>1, <3>2, Receives
    <3>4. stream'[m] = u
      BY <2>4, <2>6, <3>1, <3>2 DEF TypeOK
    <3>5. Following(m)'
      BY <3>3, <3>4 DEF Following, Follows
    <3>6. m \in asked' => job'[m].pc # "none" /\ ~ToCome(m, 0)'
      BY <2>2, <2>4, <2>6, <3>1, <3>2, <3>3 DEF Story, Answered, Grows
    <3>7. \A a \in answers' : a.on = m => Told(a, m)'
      BY <2>1, <2>2, ToldStays DEF Story, Answered, TypeOK
    <3>8. Answered(m)'
      BY <3>6, <3>7 DEF Answered
    <3> QED
      BY <1>1, <2>2, <3>5, <3>8 DEF Story
  <2> QED
    BY <2>5, <2>6
<1>3. CASE frameLost
  <2>1. channel # <<>> /\ channel' = Tail(channel) /\ UNCHANGED <<stream, asked, answers>>
    BY <1>3 DEF frameLost, client
  <2>2. Carried(m)' /\ Grows(m)
    BY <1>0, <2>1, FrameLeaves
  <2>3. Answered(m)' /\ Following(m)'
    BY <2>1, <2>2, ClientKeeps DEF Story
  <2> QED
    BY <1>1, <2>2, <2>3 DEF Story
<1>4. CASE reload
  <2>1. channel' = <<>> /\ asked' = {} /\ answers' = {} /\ stream'[m] = NoStream
    BY <1>4 DEF reload
  <2>2. Carried(m)' /\ Answered(m)' /\ Following(m)'
    BY <2>1 DEF Carried, Answered, Following
  <2> QED
    BY <1>1, <2>2 DEF Story
<1>5. ASSUME channel' = channel
      PROVE  /\ Carried(m)' /\ (\A s : Follows(s, m)' <=> Follows(s, m)) /\ (\A a : Told(a, m)' <=> Told(a, m))
             /\ ToCome(m, 0)' = ToCome(m, 0)
  BY <1>1, <1>5 DEF Story, Carried, Follows, Told, ToCome, TextFrame, Over
<1>6. ASSUME NEW n \in bound.watched, showMessage(n) PROVE Story(m)'
  <2> DEFINE told == [kind |-> "sync", on |-> n, status |-> rows[n].status, text |-> streamState(n).text,
                      index |-> streamState(n).index]
  <2>1. /\ n \in asked /\ asked' = asked \ {n} /\ answers' = answers \cup {told} /\ channel' = channel /\ stream' = stream
    BY <1>6 DEF showMessage, Respond
  <2>2. PICK a : a = told
    OBVIOUS
  <2>3. a.kind = "sync" /\ a.on = n /\ a.status = rows[n].status /\ a.text = streamState(n).text
        /\ a.index = streamState(n).index
    BY <2>2
  <2> HIDE DEF told
  <2>4. ASSUME n = m PROVE Told(a, m)
    <3>1. job[m].pc # "none" /\ ~ToCome(m, 0)
      BY <2>1, <2>4 DEF Story, Answered
    <3>2. rows[m].status \in Final => Over(m)
      BY <3>1, CompletedIsOver DEF Story
    <3>3. CASE rows[m].status \in InFlight
      <4>1. a.text = buffer[m] /\ a.index = Len(buffer[m]) - 1 /\ a.status \in {"pending", "streaming"}
        BY <2>3, <2>4, <3>3 DEF streamState, InFlight
      <4>2. Prefix(buffer[m], buffer[m])
        BY <1>1 DEF Prefix
      <4> QED
        BY <3>1, <4>1, <4>2 DEF Told, Final, InFlight
    <3>4. CASE rows[m].status \notin InFlight
      <4>1. a.text = Shown(m) /\ a.index = -1 /\ a.status = rows[m].status
        BY <2>3, <2>4, <3>4 DEF streamState
      <4>2. a.status = "completed" => Over(m) /\ a.text = rows[m].text
        BY <3>2, <4>1 DEF Shown, Final, Status, InFlight
      <4>3. a.status \in {"cancelled", "failed"} => a.text = <<>>
        BY <4>1 DEF Shown
      <4> QED
        BY <3>1, <3>4, <4>1, <4>2, <4>3 DEF Told
    <3> QED
      BY <3>3, <3>4
  <2>5. \A b \in answers' : b.on = m => Told(b, m)'
    BY <1>5, <2>1, <2>2, <2>3, <2>4 DEF Story, Answered
  <2>6. Answered(m)'
    BY <1>1, <1>5, <2>1, <2>5 DEF Story, Answered
  <2>7. Following(m)'
    BY <1>5, <2>1 DEF Story, Following
  <2> QED
    BY <1>1, <1>5, <2>1, <2>6, <2>7 DEF Story
<1>7. ASSUME NEW n \in bound.watched, askFails(n) PROVE Story(m)'
  <2>1. asked' \subseteq asked /\ answers' = answers /\ channel' = channel /\ stream' = stream
    BY <1>7 DEF askFails
  <2>2. Answered(m)' /\ Following(m)'
    BY <1>1, <1>5, <2>1 DEF Story, Answered, Following
  <2> QED
    BY <1>1, <1>5, <2>1, <2>2 DEF Story
<1>8. ASSUME NEW a \in answers, hear(a) PROVE Story(m)'
  <2>1. /\ a \in Heard /\ a.on \in Seqs /\ channel' = channel /\ asked' = asked /\ answers' \subseteq answers
        /\ stream' = [stream EXCEPT ![a.on] = IF a.kind = "seed" THEN seed(Ensure(a.on), a) ELSE resync(Ensure(a.on), a)]
    BY <1>8 DEF hear, Keep, TypeOK, Heard
  <2>2. Answered(m)'
    BY <1>1, <1>5, <2>1 DEF Story, Answered
  <2>3. CASE a.on # m
    <3>1. stream'[m] = stream[m]
      BY <2>1, <2>3
    <3>2. Following(m)'
      BY <1>5, <2>1, <3>1 DEF Story, Following
    <3> QED
      BY <1>1, <1>5, <2>1, <2>2, <3>2 DEF Story
  <2>4. CASE a.on = m
    <3>1. PICK s \in Stream : s = Ensure(m) /\ Follows(s, m)
      BY EnsureFollows DEF Story
    <3>2. Told(a, m)
      BY <2>4 DEF Story, Answered
    <3>3. Follows(IF a.kind = "seed" THEN seed(s, a) ELSE resync(s, a), m)
      BY <2>1, <3>1, <3>2, Hears
    <3>4. PICK u : u = IF a.kind = "seed" THEN seed(s, a) ELSE resync(s, a)
      OBVIOUS
    <3>5. stream'[m] = u
      BY <2>1, <2>4, <3>1, <3>4 DEF TypeOK
    <3>6. Follows(u, m)'
      BY <1>5, <2>1, <3>3, <3>4
    <3>7. Following(m)'
      BY <3>5, <3>6 DEF Following, Follows
    <3> QED
      BY <1>1, <1>5, <2>1, <2>2, <3>7 DEF Story
  <2> QED
    BY <2>3, <2>4
<1> QED
  BY <1>2, <1>3, <1>4, <1>6, <1>7, <1>8 DEF Client

LEMMA InitStory == Init => StoryInv
<1> SUFFICES ASSUME Init PROVE StoryInv
  OBVIOUS
<1>1. IInv
  BY InitTypes, InitControl DEF IInv, Control
<1>2. \A r \in Request : QueuedOK(r)
  BY DEF Init, Idle, QueuedOK
<1>3. ASSUME NEW m \in Seqs PROVE Story(m)
  <2>1. /\ rows[m].text = <<>> /\ rows[m].status = "none" /\ job[m].pc = "none" /\ job[m].sent = 0
        /\ buffer[m] = <<>> /\ channel = <<>> /\ stream[m] = NoStream /\ asked = {} /\ answers = {}
    BY DEF Init, NoRow, NoJob
  <2> QED
    BY <2>1 DEF Story, Pushed, Carried, Answered, Following, Begun, Prefix
<1> QED
  BY <1>1, <1>2, <1>3 DEF StoryInv

LEMMA StoryStep == StoryInv /\ [Next]_vars => StoryInv'
<1> SUFFICES ASSUME StoryInv, [Next]_vars PROVE StoryInv'
  OBVIOUS
<1>1. TypeOK /\ RowsOK /\ JobOK /\ ClientOK /\ RequestOK /\ \A r \in Request : QueuedOK(r)
  BY DEF StoryInv, IInv
<1>2. IInv' /\ TypeOK'
  BY InvStep DEF StoryInv, IInv
<1>3. \A r \in Request : QueuedOK(r)'
  BY <1>1, <1>2, QueuedStep
<1>4. ASSUME NEW m \in Seqs, job'[m].attempt = 1 PROVE Story(m)'
  <2>0. job[m].attempt = 1 => Story(m)
    BY DEF StoryInv
  <2>1. CASE UNCHANGED vars
    <3>1. job[m].attempt = 1
      BY <1>4, <2>1 DEF vars, worker
    <3> QED
      BY <2>0, <2>1, <3>1 DEF vars, server, worker, client, Story, Pushed, Carried, Answered, Following, Follows, Told,
                              ToCome, TextFrame, Begun, Over
  <2>2. ASSUME NEW r \in Request, Controller(r) PROVE Story(m)'
    <3>1. job'[m] = job[m] \/ \E c \in {"queued", "lost"} : job'[m] = [job[m] EXCEPT !.pc = c]
      BY <1>1, <2>2, RequestJobs
    <3>2. job'[m].attempt = job[m].attempt
      BY <1>1, <3>1 DEF TypeOK, Job
    <3> QED
      BY <1>1, <1>2, <1>4, <2>0, <2>2, <3>2, RequestTells
  <2>3. ASSUME NEW n \in Seqs, cancelReply(n) PROVE Story(m)'
    <3>1. UNCHANGED <<rows, job, buffer, channel, stream, asked, answers, bound>>
      BY <2>3 DEF cancelReply, server, client
    <3> QED
      BY <1>4, <2>0, <3>1 DEF Story, Pushed, Carried, Answered, Following, Follows, Told, ToCome, TextFrame, Begun, Over
  <2>4. ASSUME NEW n \in Seqs, GenerateAiReply(n) PROVE Story(m)'
    <3>1. CASE n = m
      <4>1. job[m].attempt = 1
        BY <1>1, <1>4, <2>4, <3>1, WorkerLeaves
      <4> QED
        BY <1>1, <1>2, <1>4, <2>0, <2>4, <3>1, <4>1, WorkerTells
    <3>2. CASE n # m
      <4>1. job'[m] = job[m]
        BY <1>1, <2>4, <3>2, WorkerLeaves
      <4> QED
        BY <1>1, <1>2, <1>4, <2>0, <2>4, <3>2, <4>1, OtherWorker
    <3> QED
      BY <3>1, <3>2
  <2>5. CASE Client
    <3>1. job' = job
      BY <2>5 DEF Client, receive, frameLost, reload, showMessage, askFails, hear, worker
    <3> QED
      BY <1>1, <1>2, <1>4, <2>0, <2>5, <3>1, ClientTells
  <2> QED
    BY <2>1, <2>2, <2>3, <2>4, <2>5 DEF Next
<1> QED
  BY <1>2, <1>3, <1>4 DEF StoryInv

(* The story of each first attempt, in every reachable state: its list,    *)
(* the frames and answers under way, and what the client has made of them. *)
THEOREM StoriesHold == Spec => []StoryInv
BY InitStory, StoryStep, PTL DEF Spec

(* However frames, API-117 and the answers to POSTs cross, are lost or     *)
(* late, a client shows of an answer under way a beginning of what its job *)
(* has pushed, and of a completed one its row (ai-stream.ts).              *)
THEOREM ClientShowsAPrefix == Spec => []ShownIsPrefix
<1>1. StoryInv => ShownIsPrefix
  <2> SUFFICES ASSUME StoryInv, NEW m \in bound.watched, job[m].attempt = 1
               PROVE  /\ stream[m].status \in InFlight => Prefix(stream[m].text, buffer[m])
                      /\ stream[m].status = "completed" => stream[m].text = rows[m].text
    BY DEF ShownIsPrefix
  <2>1. m \in Seqs
    BY BoundTypes DEF StoryInv, IInv
  <2>2. Following(m)
    BY <2>1 DEF StoryInv, Story
  <2>3. CASE stream[m] = NoStream
    BY <2>3 DEF NoStream, InFlight
  <2>4. CASE stream[m] # NoStream
    BY <2>2, <2>4 DEF Following, Follows
  <2> QED
    BY <2>3, <2>4
<1> QED
  BY <1>1, StoriesHold, PTL

================================================================================
