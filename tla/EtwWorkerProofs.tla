---------------------------- MODULE EtwWorkerProofs ----------------------------
(***************************************************************************)
(* For every size of the work queue and of the memory of Dedup: nobody      *)
(* waits for a reply that the worker will not give, and a dump that was     *)
(* stopped without an error holds what the capture reported.                *)
(***************************************************************************)
EXTENDS EtwWorker, TLAPS

Party == {"user", "drop"}

Asks(m, w) == m.kind \in {"start", "stop"} /\ m.by = w

QueueInv == queue \in Seq(Message) /\ reply \in [Party -> {NoReply, "wait", "ok", "error"}]

AnswerInv == QueueInv /\ RequestsAreAnswered

(* What is in the queue behind the first message is still in it afterwards.   *)
LEMMA TailKeeps ==
  ASSUME NEW q \in Seq(Message), q # <<>>, NEW w,
         NEW i \in DOMAIN q, Asks(q[i], w), ~Asks(q[1], w)
  PROVE  \E j \in DOMAIN Tail(q) : Asks(Tail(q)[j], w)
<1>1. i \in 2..Len(q)
  OBVIOUS
<1>2. i - 1 \in DOMAIN Tail(q) /\ Tail(q)[i - 1] = q[i]
  BY <1>1
<1> QED BY <1>2

LEMMA AppendKeeps ==
  ASSUME NEW q \in Seq(Message), NEW m \in Message, NEW w, NEW i \in DOMAIN q, Asks(q[i], w)
  PROVE  \E j \in DOMAIN Append(q, m) : Asks(Append(q, m)[j], w)
<1>1. i \in DOMAIN Append(q, m) /\ Append(q, m)[i] = q[i]
  OBVIOUS
<1> QED BY <1>1

LEMMA AppendAsks ==
  ASSUME NEW q \in Seq(Message), NEW m \in Message, NEW w, Asks(m, w)
  PROVE  \E j \in DOMAIN Append(q, m) : Asks(Append(q, m)[j], w)
<1>1. Len(q) + 1 \in DOMAIN Append(q, m) /\ Append(q, m)[Len(q) + 1] = m
  OBVIOUS
<1> QED BY <1>1

(* A party whose reply is no longer awaited, and a queue that lost nothing of *)
(* the others, keep the invariant.                                            *)
LEMMA HandledStep ==
  ASSUME AnswerInv, queue # <<>>, queue' = Tail(queue), worker' = worker,
         reply' \in [Party -> {NoReply, "wait", "ok", "error"}],
         \A w \in Party : reply'[w] = "wait" => reply[w] = "wait" /\ ~Asks(queue[1], w)
  PROVE  AnswerInv'
<1>1. QueueInv'
  BY DEF AnswerInv, QueueInv
<1>2. RequestsAreAnswered'
  <2> SUFFICES ASSUME NEW w \in Party, reply'[w] = "wait"
               PROVE  worker /\ \E j \in DOMAIN Tail(queue) : Asks(Tail(queue)[j], w)
    BY DEF RequestsAreAnswered, Asks, Party
  <2>1. worker /\ \E i \in DOMAIN queue : Asks(queue[i], w)
    BY DEF AnswerInv, RequestsAreAnswered, Asks, Party
  <2> QED BY <2>1, TailKeeps DEF AnswerInv, QueueInv
<1> QED BY <1>1, <1>2 DEF AnswerInv

(* A message joins the queue, and its sender waits; the others wait as before. *)
LEMMA SentStep ==
  ASSUME AnswerInv, NEW m \in Message, queue' = Append(queue, m), worker' = worker,
         reply' \in [Party -> {NoReply, "wait", "ok", "error"}],
         \A w \in Party : reply'[w] = "wait" => reply[w] = "wait" \/ (worker /\ Asks(m, w))
  PROVE  AnswerInv'
<1>1. QueueInv'
  BY DEF AnswerInv, QueueInv
<1>2. RequestsAreAnswered'
  <2> SUFFICES ASSUME NEW w \in Party, reply'[w] = "wait"
               PROVE  worker /\ \E j \in DOMAIN Append(queue, m) : Asks(Append(queue, m)[j], w)
    BY DEF RequestsAreAnswered, Asks, Party
  <2>1. CASE reply[w] = "wait"
    <3>1. worker /\ \E i \in DOMAIN queue : Asks(queue[i], w)
      BY <2>1 DEF AnswerInv, RequestsAreAnswered, Asks, Party
    <3> QED BY <3>1, AppendKeeps DEF AnswerInv, QueueInv
  <2>2. CASE worker /\ Asks(m, w)
    BY <2>2, AppendAsks DEF AnswerInv, QueueInv
  <2> QED BY <2>1, <2>2
<1> QED BY <1>1, <1>2 DEF AnswerInv

(* The queue is as it was, and nobody has begun to wait.                      *)
LEMMA RestStep ==
  ASSUME AnswerInv, queue' = queue, worker' = worker,
         reply' \in [Party -> {NoReply, "wait", "ok", "error"}],
         \A w \in Party : reply'[w] = "wait" => reply[w] = "wait"
  PROVE  AnswerInv'
BY DEF AnswerInv, QueueInv, RequestsAreAnswered, Party

LEMMA RequestStep ==
  ASSUME AnswerInv, NEW kind \in {"start", "stop"}, NEW by \in Party,
         Request(kind, by), worker' = worker
  PROVE  AnswerInv'
<1> DEFINE m == [kind |-> kind, by |-> by]
<1>1. CASE worker /\ queue' = Append(queue, m) /\ reply' = [reply EXCEPT ![by] = "wait"]
  <2>1. m \in Message /\ Asks(m, by)
    BY DEF Message, Asks, Party
  <2> HIDE DEF m
  <2>2. reply' \in [Party -> {NoReply, "wait", "ok", "error"}]
    BY <1>1 DEF AnswerInv, QueueInv
  <2>3. \A w \in Party : reply'[w] = "wait" => reply[w] = "wait" \/ (worker /\ Asks(m, w))
    BY <1>1, <2>1 DEF AnswerInv, QueueInv
  <2> QED BY <1>1, <2>1, <2>2, <2>3, SentStep
<1>2. CASE reply' = [reply EXCEPT ![by] = "error"] /\ UNCHANGED queue
  BY <1>2, RestStep DEF AnswerInv, QueueInv
<1> QED BY <1>1, <1>2 DEF Request

LEMMA WorkerStep ==
  ASSUME AnswerInv, NEW ok \in BOOLEAN, WorkFrame(ok) \/ WorkStart(ok) \/ WorkStop(ok)
  PROVE  AnswerInv'
<1>1. CASE WorkFrame(ok)
  BY <1>1, HandledStep DEF WorkFrame, Handles, Asks, AnswerInv, QueueInv
<1>2. CASE WorkStart(ok) \/ WorkStop(ok)
  <2>1. /\ queue # <<>> /\ queue' = Tail(queue) /\ worker' = worker
        /\ queue[1].kind \in {"start", "stop"}
        /\ \/ reply' = [reply EXCEPT ![queue[1].by] = "ok"]
           \/ reply' = [reply EXCEPT ![queue[1].by] = "error"]
    BY <1>2 DEF WorkStart, WorkStop, Handles
  <2>2. reply' \in [Party -> {NoReply, "wait", "ok", "error"}]
    BY <2>1 DEF AnswerInv, QueueInv
  <2>3. \A w \in Party : reply'[w] = "wait" => reply[w] = "wait" /\ ~Asks(queue[1], w)
    BY <2>1 DEF AnswerInv, QueueInv, Asks
  <2> QED BY <2>1, <2>2, <2>3, HandledStep
<1> QED BY <1>1, <1>2

(* The worker takes its queue with it, and tells everyone in it.              *)
LEMMA ShutdownStep == ASSUME AnswerInv, WorkShutdown PROVE AnswerInv'
<1>1. /\ worker /\ queue' = <<>>
      /\ reply' = [w \in Party |->
                    IF \E i \in DOMAIN queue : Asks(queue[i], w) THEN "error" ELSE reply[w]]
  BY DEF WorkShutdown, AnswerInv, QueueInv, Asks
<1>2. reply' \in [Party -> {NoReply, "wait", "ok", "error"}]
  BY <1>1 DEF AnswerInv, QueueInv
<1>3. \A w \in Party : reply[w] = "wait" => \E i \in DOMAIN queue : Asks(queue[i], w)
  BY DEF AnswerInv, RequestsAreAnswered, Asks, Party
<1>4. \A w \in Party : reply'[w] # "wait"
  BY <1>1, <1>3
<1>5. RequestsAreAnswered'
  BY <1>4 DEF RequestsAreAnswered, Party
<1> QED BY <1>1, <1>2, <1>5 DEF AnswerInv, QueueInv

LEMMA SessionStep ==
  ASSUME AnswerInv,
         \/ ThreadOpens \/ ThreadFails \/ TraceEnds \/ StartReturns \/ StartFails
         \/ DropBegins \/ DropStopsDump \/ DropStopsTrace \/ DropJoinsThread
         \/ DropStopsWorker \/ DropEnds
  PROVE  AnswerInv'
<1>1. CASE DropStopsDump
  BY <1>1, RequestStep DEF DropStopsDump, work, Party
<1>2. CASE DropStopsWorker
  <2>1. [kind |-> "shutdown"] \in Message
    BY DEF Message
  <2> QED BY <1>2, <2>1, SentStep DEF DropStopsWorker, work, AnswerInv, QueueInv
<1>3. CASE \/ ThreadOpens \/ ThreadFails \/ TraceEnds \/ StartReturns \/ StartFails
           \/ DropBegins \/ DropStopsTrace \/ DropJoinsThread \/ DropEnds
  BY <1>3, RestStep DEF ThreadOpens, ThreadFails, TraceEnds, StartReturns, StartFails, DropBegins,
       DropStopsTrace, DropJoinsThread, DropEnds, work, AnswerInv, QueueInv
<1> QED BY <1>1, <1>2, <1>3

LEMMA UserStep ==
  ASSUME AnswerInv,
         \/ UserStart \/ UserSendsStart \/ UserStarted
         \/ UserStop \/ UserSendsStop \/ UserStopped
  PROVE  AnswerInv'
<1>1. CASE UserSendsStart \/ UserSendsStop
  BY <1>1, RequestStep DEF UserSendsStart, UserSendsStop, work, Party
<1>2. CASE UserStart \/ UserStop
  BY <1>2, RestStep DEF UserStart, UserStop, work, AnswerInv, QueueInv
<1>3. CASE UserStarted \/ UserStopped
  <2>1. UNCHANGED <<queue, worker>> /\ reply' = [reply EXCEPT !["user"] = NoReply]
    BY <1>3 DEF UserStarted, UserStopped, work
  <2> QED BY <2>1, RestStep DEF AnswerInv, QueueInv, NoReply
<1> QED BY <1>1, <1>2, <1>3

(* Whoever waits for the worker has a request in the queue of a running one.  *)
THEOREM AnswersCome == EtwSpec => []RequestsAreAnswered
<1>1. EtwInit => AnswerInv
  BY DEF EtwInit, AnswerInv, QueueInv, RequestsAreAnswered, Party, NoReply
<1>2. AnswerInv /\ [EtwNext]_etwVars => AnswerInv'
  <2> SUFFICES ASSUME AnswerInv, [EtwNext]_etwVars PROVE AnswerInv'
    OBVIOUS
  <2>1. ASSUME NEW f \in Frame, NEW form \in Form, OnEvent(f, form)
        PROVE  AnswerInv'
    <3> DEFINE m == [kind |-> "frame", id |-> f, form |-> form]
    <3>1. m \in Message
      BY DEF Message
    <3>2. UNCHANGED <<worker, reply>> /\ (queue' = Append(queue, m) \/ queue' = queue)
      BY <2>1 DEF OnEvent, work
    <3> HIDE DEF m
    <3> QED BY <3>1, <3>2, SentStep, RestStep DEF AnswerInv, QueueInv
  <2>2. ASSUME NEW ok \in BOOLEAN, WorkFrame(ok) \/ WorkStart(ok) \/ WorkStop(ok)
        PROVE  AnswerInv'
    BY <2>2, WorkerStep
  <2>3. CASE WorkShutdown
    BY <2>3, ShutdownStep
  <2>4. CASE UNCHANGED etwVars
    BY <2>4, RestStep DEF etwVars, AnswerInv, QueueInv
  <2> QED BY <2>1, <2>2, <2>3, <2>4, UserStep, SessionStep DEF EtwNext
<1>3. AnswerInv => RequestsAreAnswered
  BY DEF AnswerInv
<1> QED BY <1>1, <1>2, <1>3, PTL DEF EtwSpec

-----------------------------------------------------------------------------
(* Dedup holds packets once, however it is rotated.                           *)

Distinct(s) == \A i, j \in DOMAIN s : s[i] = s[j] => i = j

LEMMA RememberedIs ==
  ASSUME EtwParameters, NEW f \in Frame, dedup \in Seq(Frame), Len(dedup) <= SeenSize,
         Distinct(dedup), ~Seen(f)
  PROVE  /\ Remembered(f) \in Seq(Frame) /\ Len(Remembered(f)) <= SeenSize
         /\ Distinct(Remembered(f))
         /\ \A i \in DOMAIN Remembered(f) :
              \/ Remembered(f)[i] = f
              \/ \E j \in DOMAIN dedup : dedup[j] = Remembered(f)[i]
<1>1. \A i \in DOMAIN dedup : dedup[i] # f
  BY DEF Seen
<1>2. SeenSize \in Nat \ {0}
  BY DEF EtwParameters
<1>3. CASE Len(dedup) < SeenSize
  <2>1. Remembered(f) = Append(dedup, f)
    BY <1>3 DEF Remembered
  <2>2. /\ Append(dedup, f) \in Seq(Frame) /\ Len(Append(dedup, f)) = Len(dedup) + 1
        /\ DOMAIN Append(dedup, f) = 1..Len(dedup) + 1
        /\ \A i \in 1..Len(dedup) : Append(dedup, f)[i] = dedup[i]
        /\ Append(dedup, f)[Len(dedup) + 1] = f
    OBVIOUS
  <2>3. DOMAIN dedup = 1..Len(dedup) /\ Len(dedup) \in Nat
    OBVIOUS
  <2>4. Distinct(Append(dedup, f))
    BY <1>1, <2>2, <2>3 DEF Distinct
  <2> QED BY <1>2, <1>3, <2>1, <2>2, <2>3, <2>4
<1>4. CASE ~(Len(dedup) < SeenSize)
  <2> DEFINE t == Tail(dedup)
  <2>1. Remembered(f) = Append(t, f)
    BY <1>4 DEF Remembered
  <2>2. dedup # <<>> /\ Len(dedup) = SeenSize /\ Len(dedup) \in Nat /\ DOMAIN dedup = 1..Len(dedup)
    BY <1>2, <1>4
  <2>3. /\ t \in Seq(Frame) /\ Len(t) = Len(dedup) - 1 /\ Len(t) \in Nat
        /\ \A i \in 1..Len(t) : t[i] = dedup[i + 1]
    BY <2>2
  <2> HIDE DEF t
  <2>4. /\ Append(t, f) \in Seq(Frame) /\ Len(Append(t, f)) = Len(t) + 1
        /\ DOMAIN Append(t, f) = 1..Len(t) + 1
        /\ \A i \in 1..Len(t) : Append(t, f)[i] = t[i]
        /\ Append(t, f)[Len(t) + 1] = f
    BY <2>3
  <2>5. \A i \in 1..Len(t) : i + 1 \in DOMAIN dedup /\ Append(t, f)[i] = dedup[i + 1]
    BY <2>2, <2>3, <2>4
  <2>6. Distinct(Append(t, f))
    <3> SUFFICES ASSUME NEW i \in 1..Len(t) + 1, NEW j \in 1..Len(t) + 1,
                        Append(t, f)[i] = Append(t, f)[j]
                 PROVE  i = j
      BY <2>4 DEF Distinct
    <3>1. CASE i \in 1..Len(t) /\ j \in 1..Len(t)
      <4>1. dedup[i + 1] = dedup[j + 1] => i + 1 = j + 1
        BY <3>1, <2>5 DEF Distinct
      <4> QED BY <3>1, <4>1, <2>5
    <3>2. CASE i = Len(t) + 1 /\ j \in 1..Len(t)
      BY <3>2, <1>1, <2>4, <2>5
    <3>3. CASE j = Len(t) + 1 /\ i \in 1..Len(t)
      BY <3>3, <1>1, <2>4, <2>5
    <3> QED BY <3>1, <3>2, <3>3, <2>3
  <2>7. \A i \in 1..Len(t) + 1 : \/ Append(t, f)[i] = f
                                 \/ \E j \in DOMAIN dedup : dedup[j] = Append(t, f)[i]
    <3> SUFFICES ASSUME NEW i \in 1..Len(t) + 1, i # Len(t) + 1
                 PROVE  \E j \in DOMAIN dedup : dedup[j] = Append(t, f)[i]
      BY <2>4
    <3>1. i \in 1..Len(t)
      BY <2>3
    <3> QED BY <3>1, <2>5
  <2>8. Len(Append(t, f)) <= SeenSize
    BY <1>2, <2>2, <2>3, <2>4
  <2> QED BY <2>1, <2>4, <2>6, <2>7, <2>8
<1> QED BY <1>3, <1>4

Writer == [frames : SUBSET Frame, failed : BOOLEAN]
Reply == {NoReply, "wait", "ok", "error"}

(* EtwTypeOK without its sets of state variables.                             *)
Types ==
  /\ events \in 0..MaxEvents /\ queue \in Seq(Message) /\ Len(queue) <= QueueSize
  /\ active \in BOOLEAN /\ worker \in BOOLEAN /\ failed \in BOOLEAN /\ error \in BOOLEAN
  /\ thread \in {"opening", "failed", "reading", "done"} /\ (active => thread = "reading")
  /\ dedup \in Seq(Frame) /\ Len(dedup) <= SeenSize /\ Distinct(dedup)
  /\ dump \in Writer \cup {NoDump}
  /\ session \in {"starting", "up", "asking", "stopping", "joining", "joined", "shut", "gone"}
  /\ user \in {"absent", "idle", "checked", "starting", "recording", "closing", "stopping"}
  /\ reply \in [Party -> Reply] /\ outcome \in {"none", "saved", "error"}
  /\ known \subseteq Frame /\ reported \subseteq Frame /\ file \subseteq Frame
  /\ lost \subseteq Frame

LEMMA EtwTypesAre == Types <=> EtwTypeOK
BY DEF Types, EtwTypeOK, Distinct, Writer, Party, Reply

LEMMA WriterIs ==
  /\ [frames |-> {}, failed |-> FALSE] \in Writer
  /\ \A d \in Writer :
       /\ d.frames \subseteq Frame /\ d.failed \in BOOLEAN
       /\ \A f \in Frame : [d EXCEPT !.frames = @ \cup {f}] \in Writer
       /\ [d EXCEPT !.failed = TRUE] \in Writer
BY DEF Writer

LEMMA MessageIs ==
  /\ \A f \in Frame, form \in Form : [kind |-> "frame", id |-> f, form |-> form] \in Message
  /\ \A kind \in {"start", "stop"}, by \in Party : [kind |-> kind, by |-> by] \in Message
  /\ [kind |-> "shutdown"] \in Message
  /\ \A m \in Message :
       /\ m.kind \in {"frame", "start", "stop", "shutdown"}
       /\ m.kind = "frame" => m.id \in Frame /\ m.form \in Form
       /\ m.kind \in {"start", "stop"} => m.by \in Party
BY DEF Message, Party

LEMMA QueueIs ==
  ASSUME queue \in Seq(Message), Len(queue) <= QueueSize, EtwParameters
  PROVE  /\ queue # <<>> => /\ Tail(queue) \in Seq(Message) /\ Len(Tail(queue)) <= QueueSize
                            /\ queue[1] \in Message
         /\ Len(queue) < QueueSize =>
              \A m \in Message : Append(queue, m) \in Seq(Message) /\ Len(Append(queue, m)) <= QueueSize
BY DEF EtwParameters

(* The worker keeps the types.                                                *)
LEMMA WorkerTypes ==
  ASSUME EtwParameters, Types, NEW ok \in BOOLEAN,
         WorkFrame(ok) \/ WorkStart(ok) \/ WorkStop(ok) \/ WorkShutdown
  PROVE  Types'
<1> USE DEF Types
<1>1. CASE WorkFrame(ok)
  <2>1. /\ queue # <<>> /\ queue[1].kind = "frame" /\ queue' = Tail(queue) /\ queue[1].id \in Frame
        /\ queue' \in Seq(Message) /\ Len(queue') <= QueueSize
    BY <1>1, QueueIs, MessageIs DEF WorkFrame, Handles
  <2>2. /\ UNCHANGED <<events, known, thread, active, session, worker, file, user, error,
                       outcome, reported, reply>>
    BY <1>1 DEF WorkFrame, capture, dumping
  <2>3. lost' \subseteq Frame /\ failed' \in BOOLEAN
    BY <1>1, <2>1 DEF WorkFrame
  <2>4. dedup' \in Seq(Frame) /\ Len(dedup') <= SeenSize /\ Distinct(dedup')
    <3>1. dedup' = dedup \/ (dedup' = Remembered(queue[1].id) /\ ~Seen(queue[1].id))
      BY <1>1 DEF WorkFrame
    <3> QED BY <3>1, <2>1, RememberedIs
  <2>5. dump' \in Writer \cup {NoDump}
    <3>1. \/ dump' = dump
          \/ /\ dump # NoDump
             /\ \/ dump' = [dump EXCEPT !.frames = @ \cup {queue[1].id}]
                \/ dump' = [dump EXCEPT !.failed = TRUE]
      BY <1>1 DEF WorkFrame
    <3>2. dump \in Writer \cup {NoDump}
      BY DEF Types
    <3> HIDE DEF Types
    <3>3. CASE dump # NoDump
      <4>1. dump \in Writer
        BY <3>2, <3>3
      <4>2. /\ [dump EXCEPT !.frames = @ \cup {queue[1].id}] \in Writer
            /\ [dump EXCEPT !.failed = TRUE] \in Writer
        BY <2>1, <4>1, WriterIs
      <4> QED BY <3>1, <4>1, <4>2
    <3>4. CASE dump = NoDump
      BY <3>1, <3>4
    <3> QED BY <3>3, <3>4
  <2> QED BY <2>1, <2>2, <2>3, <2>4, <2>5
<1>2. CASE WorkStart(ok) \/ WorkStop(ok)
  <2>1. /\ queue # <<>> /\ queue[1].kind \in {"start", "stop"} /\ queue[1].by \in Party
        /\ queue' \in Seq(Message) /\ Len(queue') <= QueueSize
    BY <1>2, QueueIs, MessageIs DEF WorkStart, WorkStop, Handles
  <2>2. UNCHANGED <<events, known, thread, active, session, worker, dedup, user, error,
                    outcome, reported, lost>>
    BY <1>2 DEF WorkStart, WorkStop, capture, dumping
  <2>3. reply' \in [Party -> Reply]
    BY <1>2, <2>1 DEF WorkStart, WorkStop, Reply
  <2>4. /\ dump' \in Writer \cup {NoDump} /\ file' \subseteq Frame /\ failed' \in BOOLEAN
    <3>1. /\ dump' \in {dump, NoDump, [frames |-> {}, failed |-> FALSE]}
          /\ failed' \in {failed, FALSE} /\ (file' = file \/ (dump # NoDump /\ file' = dump.frames))
      BY <1>2 DEF WorkStart, WorkStop
    <3>2. dump \in Writer \cup {NoDump} /\ file \subseteq Frame /\ failed \in BOOLEAN
      BY DEF Types
    <3> HIDE DEF Types
    <3>3. dump # NoDump => dump.frames \subseteq Frame
      BY <3>2, WriterIs
    <3>4. [frames |-> {}, failed |-> FALSE] \in Writer
      BY WriterIs
    <3>5. dump' \in Writer \cup {NoDump}
      BY <3>1, <3>2, <3>4
    <3>6. file' \subseteq Frame
      BY <3>1, <3>2, <3>3
    <3>7. failed' \in BOOLEAN
      BY <3>1, <3>2
    <3> QED BY <3>5, <3>6, <3>7
  <2> QED BY <2>1, <2>2, <2>3, <2>4
<1>3. CASE WorkShutdown
  <2>1. /\ worker' \in BOOLEAN
        /\ UNCHANGED <<events, known, thread, active, session, dedup, dump, failed, file,
                       user, error, outcome, reported, lost>>
    BY <1>3 DEF WorkShutdown, capture, dumping
  <2>2. reply' \in [Party -> Reply]
    BY <1>3 DEF WorkShutdown, Reply
  <2>3. queue' \in Seq(Message) /\ Len(queue') <= QueueSize
    <3>1. queue' = <<>>
      BY <1>3 DEF WorkShutdown
    <3> QED BY <3>1 DEF EtwParameters
  <2> QED BY <2>1, <2>2, <2>3
<1> QED BY <1>1, <1>2, <1>3

LEMMA RequestTypes ==
  ASSUME EtwParameters, Types, NEW kind \in {"start", "stop"}, NEW by \in Party,
         Request(kind, by)
  PROVE  queue' \in Seq(Message) /\ Len(queue') <= QueueSize /\ reply' \in [Party -> Reply]
<1>1. [kind |-> kind, by |-> by] \in Message
  BY MessageIs
<1>2. \/ Len(queue) < QueueSize /\ queue' = Append(queue, [kind |-> kind, by |-> by])
      \/ queue' = queue
  BY DEF Request
<1>3. reply' = [reply EXCEPT ![by] = "wait"] \/ reply' = [reply EXCEPT ![by] = "error"]
  BY DEF Request
<1> QED BY <1>1, <1>2, <1>3, QueueIs, EtwTypesAre DEF Types, Reply

LEMMA UserTypes ==
  ASSUME EtwParameters, Types,
         \/ UserStart \/ UserSendsStart \/ UserStarted
         \/ UserStop \/ UserSendsStop \/ UserStopped
  PROVE  Types'
<1> USE DEF Types
<1>1. CASE UserSendsStart \/ UserSendsStop
  <2>1. queue' \in Seq(Message) /\ Len(queue') <= QueueSize /\ reply' \in [Party -> Reply]
    BY <1>1, RequestTypes DEF UserSendsStart, UserSendsStop, Party
  <2>2. user' \in {"starting", "stopping"}
        /\ UNCHANGED <<events, known, thread, active, session, worker, dedup, dump, failed, file,
                       error, outcome, reported, lost>>
    BY <1>1 DEF UserSendsStart, UserSendsStop, capture, work
  <2> QED BY <2>1, <2>2
<1>2. CASE UserStart \/ UserStop
  <2>1. error' \in BOOLEAN
    BY <1>2 DEF UserStart, UserStop
  <2>2. /\ user' \in {"checked", "closing"} /\ outcome' \in {outcome, "none"}
        /\ UNCHANGED <<events, known, thread, active, session, worker, dedup, dump, failed, file,
                       queue, reported, reply, lost>>
    BY <1>2 DEF UserStart, UserStop, capture, work
  <2> QED BY <2>1, <2>2
<1>3. CASE UserStarted \/ UserStopped
  <2>1. reply' \in [Party -> Reply]
    BY <1>3 DEF UserStarted, UserStopped, Reply
  <2>2. /\ user' \in {"recording", "idle"} /\ outcome' \in {outcome, "saved", "error"}
        /\ reported' \subseteq reported /\ lost' \subseteq lost
        /\ UNCHANGED <<events, known, thread, active, session, worker, dedup, dump, failed, file,
                       error, queue>>
    BY <1>3 DEF UserStarted, UserStopped, capture, work
  <2> QED BY <2>1, <2>2
<1> QED BY <1>1, <1>2, <1>3

LEMMA SessionTypes ==
  ASSUME EtwParameters, Types,
         \/ ThreadOpens \/ ThreadFails \/ TraceEnds \/ StartReturns \/ StartFails
         \/ DropBegins \/ DropStopsDump \/ DropStopsTrace \/ DropJoinsThread
         \/ DropStopsWorker \/ DropEnds
  PROVE  Types'
<1> USE DEF Types
<1>1. CASE ThreadOpens \/ ThreadFails \/ TraceEnds
  <2>1. active' \in BOOLEAN /\ (active' => thread' = "reading")
    <3>1. \/ active' = TRUE /\ thread' = "reading"
          \/ active' = FALSE
          \/ active' = active /\ ~(active)
      BY <1>1 DEF ThreadOpens, ThreadFails, TraceEnds
    <3>2. active \in BOOLEAN
      OBVIOUS
    <3> HIDE DEF Types
    <3>3. CASE active' = TRUE /\ thread' = "reading"
      BY <3>3
    <3>4. CASE active' = FALSE
      BY <3>4
    <3>5. CASE active' = active /\ ~active
      BY <3>2, <3>5
    <3> QED BY <3>1, <3>3, <3>4, <3>5
  <2>2. /\ thread' \in {"reading", "failed", "done"}
        /\ UNCHANGED <<events, known, session, queue, worker, dedup, dump, failed, file,
                       user, error, outcome, reported, reply, lost>>
    BY <1>1 DEF ThreadOpens, ThreadFails, TraceEnds, work, dumping
  <2> QED BY <2>1, <2>2
<1>2. CASE StartReturns \/ StartFails \/ DropBegins
  <2>1. active' \in BOOLEAN /\ (active' => thread' = "reading")
    <3>1. \/ active' = FALSE
          \/ active' = active /\ thread' = thread
      BY <1>2 DEF StartReturns, StartFails, DropBegins
    <3>2. active \in BOOLEAN /\ (active => thread = "reading")
      OBVIOUS
    <3> HIDE DEF Types
    <3>3. CASE active' = FALSE
      BY <3>3
    <3>4. CASE active' = active /\ thread' = thread
      BY <3>2, <3>4
    <3> QED BY <3>1, <3>3, <3>4
  <2>2. /\ session' \in {"up", "asking"} /\ user' \in {"idle", user}
        /\ UNCHANGED <<events, known, thread, queue, worker, dedup, dump, failed, file,
                       error, outcome, reported, reply, lost>>
    BY <1>2 DEF StartReturns, StartFails, DropBegins, work, dumping
  <2> QED BY <2>1, <2>2
<1>3. CASE DropStopsDump
  <2>1. queue' \in Seq(Message) /\ Len(queue') <= QueueSize /\ reply' \in [Party -> Reply]
    BY <1>3, RequestTypes DEF DropStopsDump, Party
  <2> QED BY <1>3, <2>1 DEF DropStopsDump, work, dumping
<1>4. CASE DropStopsTrace \/ DropJoinsThread \/ DropEnds
  BY <1>4 DEF DropStopsTrace, DropJoinsThread, DropEnds, work, dumping
<1>5. CASE DropStopsWorker
  BY <1>5, QueueIs, MessageIs DEF DropStopsWorker, work, dumping
<1> QED BY <1>1, <1>2, <1>3, <1>4, <1>5

LEMMA EventTypes ==
  ASSUME EtwParameters, Types, NEW f \in Frame, NEW form \in Form, OnEvent(f, form)
  PROVE  Types'
<1> USE DEF Types
<1>1. queue' \in Seq(Message) /\ Len(queue') <= QueueSize
  BY QueueIs, MessageIs DEF OnEvent
<1>2. events' \in 0..MaxEvents
  BY DEF OnEvent, EtwParameters
<1>3. known' \subseteq Frame /\ reported' \subseteq Frame /\ lost' \subseteq Frame
  BY DEF OnEvent
<1> QED BY <1>1, <1>2, <1>3 DEF OnEvent, work

LEMMA TypesKept ==
  ASSUME EtwParameters, Types, [EtwNext]_etwVars
  PROVE  Types'
<1>1. CASE UNCHANGED etwVars
  BY <1>1 DEF etwVars, Types
<1> QED BY <1>1, EventTypes, WorkerTypes, UserTypes, SessionTypes DEF EtwNext

LEMMA InitTypes == ASSUME EtwParameters, EtwInit PROVE Types
<1>1. reply \in [Party -> Reply]
  BY DEF EtwInit, Party, Reply
<1>2. active \in BOOLEAN /\ worker \in BOOLEAN /\ failed \in BOOLEAN /\ error \in BOOLEAN
      /\ (active => thread = "reading")
  BY DEF EtwInit
<1>3. dedup \in Seq(Frame) /\ Len(dedup) <= SeenSize /\ Distinct(dedup)
      /\ queue \in Seq(Message) /\ Len(queue) <= QueueSize /\ events \in 0..MaxEvents
  BY DEF EtwInit, Distinct, EtwParameters
<1> QED BY <1>1, <1>2, <1>3 DEF EtwInit, Types

(* The state has its type: the queue of work and the memory of Dedup keep to  *)
(* their limits, and the program is active only while the trace is read.      *)
THEOREM EtwTypes == ASSUME EtwParameters PROVE EtwSpec => []EtwTypeOK
<1>1. EtwInit => Types
  BY InitTypes
<1>2. Types /\ [EtwNext]_etwVars => Types'
  BY TypesKept
<1>3. Types => EtwTypeOK
  BY EtwTypesAre
<1> QED BY <1>1, <1>2, <1>3, PTL DEF EtwSpec

-----------------------------------------------------------------------------
(* What keeps a dump whole.  The session, the user and the worker:            *)
(*   - Dedup and the queue hold only packets the trace has reported;          *)
(*   - a capture that starts has no user, one that is up reads or is done,    *)
(*     and when it is dropped while a dump runs there are no more events;     *)
(*   - who has not asked has no reply;                                        *)
(*   - a request in the queue belongs to a party that waits, at the place     *)
(*     where it sent it, and each party has one;                              *)
(*   - a recording whose writer is gone gets no more packets.                 *)

Elems(q) == {q[i] : i \in DOMAIN q}
Once(q, w) == \A i, j \in DOMAIN q : Asks(q[i], w) /\ Asks(q[j], w) => i = j

KnownInv ==
  /\ \A i \in DOMAIN dedup : dedup[i] \in known
  /\ \A m \in Elems(queue) : m.kind = "frame" => m.id \in known

SessionInv ==
  /\ session = "starting" => user = "absent" /\ (thread = "reading" => active)
  /\ session = "up" =>
       user # "absent" /\ thread \in {"reading", "done"} /\ (thread = "reading" => active)
  /\ session \notin {"starting", "up"} =>
       \/ user = "absent"
       \/ ~active /\ thread # "opening" /\ (user = "idle" \/ thread = "done")
  /\ session \notin {"shut", "gone"} => worker

ReplyInv ==
  /\ user \notin {"starting", "stopping"} => reply["user"] = NoReply
  /\ session \in {"starting", "up", "asking"} => reply["drop"] = NoReply
  /\ session \in {"joining", "joined", "shut", "gone"} => reply["drop"] \in {"ok", "error"}

Placed(m) ==
  /\ Asks(m, "user") => /\ reply["user"] = "wait"
                        /\ m.kind = "start" => user = "starting"
                        /\ m.kind = "stop" => user = "stopping"
  /\ Asks(m, "drop") => reply["drop"] = "wait" /\ session = "stopping" /\ m.kind = "stop"
  /\ m.kind = "shutdown" => session = "shut" /\ worker

RequestInv ==
  /\ \A m \in Elems(queue) : Placed(m)
  /\ \A w \in Party : Once(queue, w)

StartedInv ==
  dump = NoDump /\ (user = "recording" \/ (user = "starting" /\ reply["user"] = "ok"))
    => thread = "done"

ControlInv == KnownInv /\ SessionInv /\ ReplyInv /\ RequestInv /\ StartedInv

LEMMA ElemsIs ==
  ASSUME NEW q \in Seq(Message)
  PROVE  /\ Elems(q) \subseteq Message /\ Elems(<<>>) = {}
         /\ q # <<>> => q[1] \in Elems(q) /\ Elems(Tail(q)) \subseteq Elems(q)
         /\ \A m \in Message : Elems(Append(q, m)) = Elems(q) \cup {m}
<1>1. Elems(q) \subseteq Message /\ Elems(<<>>) = {}
  BY DEF Elems
<1>2. ASSUME q # <<>>
      PROVE  q[1] \in Elems(q) /\ Elems(Tail(q)) \subseteq Elems(q)
  <2>1. 1 \in DOMAIN q
    BY <1>2
  <2>2. \A i \in DOMAIN Tail(q) : i + 1 \in DOMAIN q /\ Tail(q)[i] = q[i + 1]
    BY <1>2
  <2> QED BY <2>1, <2>2 DEF Elems
<1>3. ASSUME NEW m \in Message
      PROVE  Elems(Append(q, m)) = Elems(q) \cup {m}
  <2> DEFINE r == Append(q, m)
             n == Len(q)
  <2>1. n \in Nat /\ DOMAIN q = 1..n /\ DOMAIN r = 1..n + 1 /\ r[n + 1] = m
        /\ \A i \in 1..n : r[i] = q[i]
    OBVIOUS
  <2> HIDE DEF r, n
  <2>2. \A i \in DOMAIN r : r[i] = m \/ \E j \in DOMAIN q : q[j] = r[i]
    <3> SUFFICES ASSUME NEW i \in 1..n + 1, i # n + 1 PROVE i \in 1..n
      BY <2>1
    <3> QED BY <2>1
  <2>3. (\A i \in DOMAIN q : i \in DOMAIN r /\ r[i] = q[i]) /\ n + 1 \in DOMAIN r
    BY <2>1
  <2>4. Elems(r) = Elems(q) \cup {m}
    BY <2>1, <2>2, <2>3 DEF Elems
  <2> QED BY <2>4 DEF r
<1> QED BY <1>1, <1>2, <1>3

LEMMA OnceIs ==
  ASSUME NEW q \in Seq(Message), NEW w, Once(q, w)
  PROVE  /\ q # <<>> => /\ Once(Tail(q), w)
                        /\ Asks(q[1], w) => \A m \in Elems(Tail(q)) : ~Asks(m, w)
         /\ \A m \in Message : (~Asks(m, w) \/ \A x \in Elems(q) : ~Asks(x, w))
                                 => Once(Append(q, m), w)
<1>1. ASSUME q # <<>>
      PROVE  /\ Once(Tail(q), w)
             /\ Asks(q[1], w) => \A m \in Elems(Tail(q)) : ~Asks(m, w)
  <2>1. /\ 1 \in DOMAIN q /\ DOMAIN Tail(q) \subseteq Nat \ {0}
        /\ \A i \in DOMAIN Tail(q) : i + 1 \in DOMAIN q /\ Tail(q)[i] = q[i + 1]
    BY <1>1
  <2>2. Once(Tail(q), w)
    <3> SUFFICES ASSUME NEW i \in DOMAIN Tail(q), NEW j \in DOMAIN Tail(q),
                        Asks(Tail(q)[i], w), Asks(Tail(q)[j], w)
                 PROVE  i = j
      BY DEF Once
    <3>1. i + 1 = j + 1
      BY <2>1 DEF Once
    <3> QED BY <2>1, <3>1
  <2>3. ASSUME Asks(q[1], w), NEW i \in DOMAIN Tail(q)
        PROVE  ~Asks(Tail(q)[i], w)
    <3>1. i + 1 # 1
      BY <2>1
    <3> QED BY <2>1, <2>3, <3>1 DEF Once
  <2> QED BY <2>2, <2>3 DEF Elems
<1>2. ASSUME NEW m \in Message, ~Asks(m, w) \/ \A x \in Elems(q) : ~Asks(x, w)
      PROVE  Once(Append(q, m), w)
  <2> DEFINE r == Append(q, m)
             n == Len(q)
  <2>1. n \in Nat /\ DOMAIN q = 1..n /\ DOMAIN r = 1..n + 1 /\ r[n + 1] = m
        /\ \A i \in 1..n : r[i] = q[i]
    OBVIOUS
  <2> HIDE DEF r, n
  <2>2. \A i \in 1..n : ~Asks(m, w) \/ ~Asks(r[i], w)
    BY <1>2, <2>1 DEF Elems
  <2>3. \A i, j \in 1..n + 1 : Asks(r[i], w) /\ Asks(r[j], w) => i = j
    <3> SUFFICES ASSUME NEW i \in 1..n + 1, NEW j \in 1..n + 1, Asks(r[i], w), Asks(r[j], w)
                 PROVE  i = j
      OBVIOUS
    <3>1. CASE i = n + 1 \/ j = n + 1
      BY <3>1, <2>1, <2>2
    <3>2. CASE i # n + 1 /\ j # n + 1
      <4>1. i \in 1..n /\ j \in 1..n
        BY <2>1, <3>2
      <4> QED BY <4>1, <2>1 DEF Once
    <3> QED BY <3>1, <3>2
  <2>4. Once(r, w)
    BY <2>1, <2>3 DEF Once
  <2> QED BY <2>4 DEF r
<1> QED BY <1>1, <1>2

(* A message keeps its place when the party that sent it does.                *)
LEMMA StaysPlaced ==
  ASSUME NEW m, Placed(m), worker' = worker,
         Asks(m, "user") => reply'["user"] = reply["user"] /\ user' = user,
         Asks(m, "drop") => reply'["drop"] = reply["drop"] /\ session' = session,
         session = "shut" => session' = session \/ ~worker
  PROVE  (Placed(m))'
BY DEF Placed

LEMMA RequestsRest ==
  ASSUME Types, RequestInv, queue' = queue, worker' = worker,
         reply["user"] = "wait" => reply'["user"] = reply["user"] /\ user' = user,
         reply["drop"] = "wait" => reply'["drop"] = reply["drop"] /\ session' = session,
         session = "shut" => session' = session \/ ~worker
  PROVE  RequestInv'
<1>1. ASSUME NEW m \in Elems(queue) PROVE (Placed(m))'
  <2>1. Placed(m)
    BY DEF RequestInv
  <2>2. /\ Asks(m, "user") => reply["user"] = "wait"
        /\ Asks(m, "drop") => reply["drop"] = "wait"
    BY <2>1 DEF Placed
  <2> QED BY <2>1, <2>2, StaysPlaced
<1> QED BY <1>1 DEF RequestInv

LEMMA RequestsTail ==
  ASSUME Types, RequestInv, queue # <<>>, queue' = Tail(queue),
         UNCHANGED <<worker, user, session>>,
         \A w \in Party : reply'[w] = reply[w] \/ Asks(queue[1], w)
  PROVE  RequestInv'
<1>1. queue \in Seq(Message)
  BY DEF Types
<1>2. ASSUME NEW m \in Elems(Tail(queue)) PROVE (Placed(m))'
  <2>1. Placed(m)
    BY <1>1, ElemsIs DEF RequestInv
  <2>2. \A w \in Party : Asks(m, w) => reply'[w] = reply[w]
    BY <1>1, OnceIs DEF RequestInv
  <2> QED BY <2>1, <2>2, StaysPlaced DEF Party
<1>3. \A w \in Party : Once(Tail(queue), w)
  BY <1>1, OnceIs DEF RequestInv
<1> QED BY <1>2, <1>3 DEF RequestInv

LEMMA RequestsAppend ==
  ASSUME Types, RequestInv, NEW m \in Message, queue' = Append(queue, m), worker' = worker,
         (Placed(m))',
         \A w \in Party : Asks(m, w) => reply[w] # "wait",
         reply["user"] = "wait" => reply'["user"] = reply["user"] /\ user' = user,
         reply["drop"] = "wait" => reply'["drop"] = reply["drop"] /\ session' = session,
         session = "shut" => session' = session
  PROVE  RequestInv'
<1>1. queue \in Seq(Message)
  BY DEF Types
<1>2. ASSUME NEW x \in Elems(queue)
      PROVE  /\ (Placed(x))'
             /\ \A w \in Party : Asks(x, w) => reply[w] = "wait"
  <2>1. Placed(x)
    BY DEF RequestInv
  <2>2. /\ Asks(x, "user") => reply["user"] = "wait"
        /\ Asks(x, "drop") => reply["drop"] = "wait"
    BY <2>1 DEF Placed
  <2>3. (Placed(x))'
    BY <2>1, <2>2, StaysPlaced
  <2> QED BY <2>2, <2>3 DEF Party
<1>3. \A w \in Party : Once(Append(queue, m), w)
  <2> SUFFICES ASSUME NEW w \in Party PROVE Once(Append(queue, m), w)
    OBVIOUS
  <2>1. Once(queue, w) /\ (~Asks(m, w) \/ \A x \in Elems(queue) : ~Asks(x, w))
    BY <1>2 DEF RequestInv
  <2> QED BY <1>1, <2>1, OnceIs
<1>4. \A x \in Elems(Append(queue, m)) : (Placed(x))'
  BY <1>1, <1>2, ElemsIs
<1> QED BY <1>3, <1>4 DEF RequestInv

(* Who may ask has no request in the queue yet.                               *)
LEMMA RequestPlaces ==
  ASSUME Types, RequestInv, NEW kind \in {"start", "stop"}, NEW by \in Party,
         Request(kind, by), worker' = worker, reply[by] # "wait",
         by = "user" => /\ session' = session
                        /\ user' = IF kind = "start" THEN "starting" ELSE "stopping",
         by = "drop" => /\ user' = user /\ session = "asking" /\ session' = "stopping"
                        /\ kind = "stop"
  PROVE  RequestInv'
<1> DEFINE m == [kind |-> kind, by |-> by]
<1>0. m \in Message /\ m.kind = kind /\ m.by = by
  BY MessageIs
<1>1. CASE worker /\ queue' = Append(queue, m) /\ reply' = [reply EXCEPT ![by] = "wait"]
  <2> HIDE DEF m
  <2>1. reply'[by] = "wait" /\ \A w \in Party : w # by => reply'[w] = reply[w]
    BY <1>1 DEF Types
  <2>2. (Placed(m))'
    BY <1>0, <2>1 DEF Placed, Asks, Party
  <2>3. \A w \in Party : Asks(m, w) => reply[w] # "wait"
    BY <1>0 DEF Asks
  <2> QED BY <1>0, <1>1, <2>1, <2>2, <2>3, RequestsAppend DEF Party
<1>2. CASE reply' = [reply EXCEPT ![by] = "error"] /\ UNCHANGED queue
  <2>1. \A w \in Party : w # by => reply'[w] = reply[w]
    BY <1>2 DEF Types
  <2> QED BY <1>2, <2>1, RequestsRest DEF Party
<1> QED BY <1>1, <1>2 DEF Request

LEMMA WorkerRequests ==
  ASSUME EtwParameters, Types, ControlInv, NEW ok \in BOOLEAN,
         WorkFrame(ok) \/ WorkStart(ok) \/ WorkStop(ok) \/ WorkShutdown
  PROVE  RequestInv'
<1>1. RequestInv
  BY DEF ControlInv
<1>2. CASE WorkFrame(ok)
  BY <1>1, <1>2, RequestsTail DEF WorkFrame, Handles, capture, dumping
<1>3. CASE WorkStart(ok) \/ WorkStop(ok)
  <2>1. /\ queue # <<>> /\ queue' = Tail(queue) /\ queue[1].kind \in {"start", "stop"}
        /\ UNCHANGED <<worker, user, session>>
        /\ \/ reply' = [reply EXCEPT ![queue[1].by] = "ok"]
           \/ reply' = [reply EXCEPT ![queue[1].by] = "error"]
    BY <1>3 DEF WorkStart, WorkStop, Handles, capture, dumping
  <2>2. \A w \in Party : reply'[w] = reply[w] \/ Asks(queue[1], w)
    BY <2>1 DEF Types, Asks
  <2> QED BY <1>1, <2>1, <2>2, RequestsTail
<1>4. CASE WorkShutdown
  <2>1. queue' = <<>>
    BY <1>4 DEF WorkShutdown
  <2> QED BY <2>1 DEF RequestInv, Elems, Once
<1> QED BY <1>2, <1>3, <1>4

LEMMA UserRequests ==
  ASSUME EtwParameters, Types, ControlInv,
         \/ UserStart \/ UserSendsStart \/ UserStarted
         \/ UserStop \/ UserSendsStop \/ UserStopped
  PROVE  RequestInv'
<1>1. RequestInv /\ ReplyInv
  BY DEF ControlInv
<1>2. CASE UserSendsStart \/ UserSendsStop
  <2>1. reply["user"] # "wait"
    BY <1>1, <1>2 DEF ReplyInv, UserSendsStart, UserSendsStop, NoReply
  <2>2. UNCHANGED <<worker, session>>
    BY <1>2 DEF UserSendsStart, UserSendsStop, work, capture
  <2> QED BY <1>1, <1>2, <2>1, <2>2, RequestPlaces DEF UserSendsStart, UserSendsStop, Party
<1>3. CASE UserStart \/ UserStop \/ UserStarted \/ UserStopped
  <2>1. reply["user"] # "wait"
    BY <1>1, <1>3 DEF ReplyInv, UserStart, UserStop, UserStarted, UserStopped, NoReply
  <2>2. UNCHANGED <<queue, worker, session>> /\ reply'["drop"] = reply["drop"]
    BY <1>3 DEF UserStart, UserStop, UserStarted, UserStopped, work, capture, Types, Party
  <2> QED BY <1>1, <2>1, <2>2, RequestsRest
<1> QED BY <1>2, <1>3

LEMMA SessionRequests ==
  ASSUME EtwParameters, Types, ControlInv,
         \/ ThreadOpens \/ ThreadFails \/ TraceEnds \/ StartReturns \/ StartFails
         \/ DropBegins \/ DropStopsDump \/ DropStopsTrace \/ DropJoinsThread
         \/ DropStopsWorker \/ DropEnds
  PROVE  RequestInv'
<1>1. RequestInv /\ ReplyInv /\ SessionInv
  BY DEF ControlInv
<1>2. CASE ThreadOpens \/ ThreadFails \/ TraceEnds
  BY <1>1, <1>2, RequestsRest DEF ThreadOpens, ThreadFails, TraceEnds, work, dumping
<1>3. CASE StartReturns \/ StartFails \/ DropBegins \/ DropStopsTrace \/ DropJoinsThread \/ DropEnds
  <2>1. UNCHANGED <<queue, worker, reply>>
    BY <1>3 DEF StartReturns, StartFails, DropBegins, DropStopsTrace, DropJoinsThread, DropEnds, work
  <2>2. user' = user \/ (session = "starting" /\ user = "absent")
    BY <1>1, <1>3 DEF StartReturns, StartFails, DropBegins, DropStopsTrace, DropJoinsThread,
         DropEnds, dumping, SessionInv
  <2>3. reply["drop"] # "wait"
    BY <1>1, <1>3 DEF StartReturns, StartFails, DropBegins, DropStopsTrace, DropJoinsThread,
         DropEnds, ReplyInv, NoReply
  <2>4. session = "shut" => ~worker
    BY <1>3 DEF StartReturns, StartFails, DropBegins, DropStopsTrace, DropJoinsThread, DropEnds
  <2>5. reply["user"] = "wait" => user' = user
    BY <1>1, <2>2 DEF ReplyInv, NoReply
  <2> QED BY <1>1, <2>1, <2>3, <2>4, <2>5, RequestsRest
<1>4. CASE DropStopsDump
  <2>1. reply["drop"] # "wait"
    BY <1>1, <1>4 DEF DropStopsDump, ReplyInv, NoReply
  <2> QED BY <1>1, <1>4, <2>1, RequestPlaces DEF DropStopsDump, work, dumping, Party
<1>5. CASE DropStopsWorker
  <2> DEFINE m == [kind |-> "shutdown"]
  <2>1. m \in Message /\ m.kind = "shutdown"
    BY MessageIs
  <2>2. queue' = Append(queue, m) /\ UNCHANGED <<worker, reply, user>> /\ worker
        /\ session = "joined" /\ session' = "shut"
    BY <1>5 DEF DropStopsWorker, work, dumping
  <2> HIDE DEF m
  <2>3. reply["drop"] # "wait"
    BY <1>1, <2>2 DEF ReplyInv
  <2>4. (Placed(m))' /\ \A w \in Party : ~Asks(m, w)
    BY <2>1, <2>2 DEF Placed, Asks
  <2> QED BY <1>1, <2>1, <2>2, <2>3, <2>4, RequestsAppend
<1> QED BY <1>2, <1>3, <1>4, <1>5

LEMMA EventRequests ==
  ASSUME EtwParameters, Types, ControlInv, NEW f \in Frame, NEW form \in Form, OnEvent(f, form)
  PROVE  RequestInv'
<1> DEFINE m == [kind |-> "frame", id |-> f, form |-> form]
<1>1. m \in Message /\ m.kind = "frame"
  BY MessageIs
<1>2. UNCHANGED <<worker, reply, user, session>> /\ (queue' = Append(queue, m) \/ queue' = queue)
  BY DEF OnEvent, work
<1> HIDE DEF m
<1>3. (Placed(m))' /\ \A w \in Party : ~Asks(m, w)
  BY <1>1 DEF Placed, Asks
<1> QED BY <1>1, <1>2, <1>3, RequestsAppend, RequestsRest DEF ControlInv

LEMMA KnownStep ==
  ASSUME EtwParameters, Types, ControlInv, [EtwNext]_etwVars
  PROVE  KnownInv'
<1>1. KnownInv /\ queue \in Seq(Message) /\ dedup \in Seq(Frame)
  BY DEF ControlInv, Types
<1>2. ASSUME dedup' = dedup, known' = known,
             \/ queue' \in {queue, <<>>} \/ (queue # <<>> /\ queue' = Tail(queue))
             \/ \E m \in Message : m.kind # "frame" /\ queue' = Append(queue, m)
      PROVE  KnownInv'
  <2>1. ASSUME NEW m \in Elems(queue'), m.kind = "frame" PROVE m \in Elems(queue)
    <3>1. CASE queue' \in {queue, <<>>}
      BY <2>1, <3>1, <1>1, ElemsIs
    <3>2. CASE queue # <<>> /\ queue' = Tail(queue)
      BY <2>1, <3>2, <1>1, ElemsIs
    <3>3. CASE \E x \in Message : x.kind # "frame" /\ queue' = Append(queue, x)
      <4>1. PICK x \in Message : x.kind # "frame" /\ queue' = Append(queue, x)
        BY <3>3
      <4>2. Elems(Append(queue, x)) = Elems(queue) \cup {x}
        BY <1>1, ElemsIs
      <4> QED BY <2>1, <4>1, <4>2
    <3> QED BY <1>2, <3>1, <3>2, <3>3
  <2> QED BY <1>1, <1>2, <2>1 DEF KnownInv
<1>3. ASSUME NEW kind \in {"start", "stop"}, NEW by \in Party, Request(kind, by)
      PROVE  \/ queue' = queue
             \/ \E m \in Message : m.kind # "frame" /\ queue' = Append(queue, m)
  BY <1>3, MessageIs DEF Request
<1>4. ASSUME NEW f \in Frame, NEW form \in Form, OnEvent(f, form) PROVE KnownInv'
  <2> DEFINE m == [kind |-> "frame", id |-> f, form |-> form]
  <2>1. m \in Message /\ m.id = f
    BY MessageIs
  <2>2. dedup' = dedup /\ known' = known \cup {f} /\ (queue' = Append(queue, m) \/ queue' = queue)
    BY <1>4 DEF OnEvent, work
  <2> HIDE DEF m
  <2>3. Elems(queue') \subseteq Elems(queue) \cup {m}
    <3>1. Elems(Append(queue, m)) = Elems(queue) \cup {m}
      BY <1>1, <2>1, ElemsIs
    <3> QED BY <2>2, <3>1
  <2> QED BY <1>1, <2>1, <2>2, <2>3 DEF KnownInv
<1>5. ASSUME NEW ok \in BOOLEAN, WorkFrame(ok) PROVE KnownInv'
  <2>1. queue # <<>> /\ queue' = Tail(queue) /\ known' = known /\ queue[1].kind = "frame"
    BY <1>5 DEF WorkFrame, Handles, capture
  <2>2. queue[1] \in Elems(queue) /\ Elems(queue') \subseteq Elems(queue)
        /\ queue[1] \in Message
    BY <1>1, <2>1, ElemsIs
  <2>3. queue[1].id \in known /\ queue[1].id \in Frame
    BY <1>1, <2>1, <2>2, MessageIs DEF KnownInv
  <2>4. dedup' = dedup \/ (dedup' = Remembered(queue[1].id) /\ ~Seen(queue[1].id))
    BY <1>5 DEF WorkFrame
  <2>5. \A i \in DOMAIN dedup' : dedup'[i] = queue[1].id \/ \E j \in DOMAIN dedup : dedup[j] = dedup'[i]
    BY <2>3, <2>4, RememberedIs DEF Types
  <2>6. \A i \in DOMAIN dedup' : dedup'[i] \in known
    BY <1>1, <2>3, <2>5 DEF KnownInv
  <2> QED BY <1>1, <2>1, <2>2, <2>6 DEF KnownInv
<1>6. ASSUME NEW ok \in BOOLEAN, WorkStart(ok) \/ WorkStop(ok) \/ WorkShutdown PROVE KnownInv'
  BY <1>2, <1>6 DEF WorkStart, WorkStop, WorkShutdown, Handles, capture
<1>7. CASE \/ UserStart \/ UserSendsStart \/ UserStarted \/ UserStop \/ UserSendsStop \/ UserStopped
  <2>1. CASE UserSendsStart \/ UserSendsStop
    BY <1>2, <1>3, <2>1 DEF UserSendsStart, UserSendsStop, capture, work, Party
  <2>2. CASE UserStart \/ UserStarted \/ UserStop \/ UserStopped
    BY <1>2, <2>2 DEF UserStart, UserStarted, UserStop, UserStopped, capture, work
  <2> QED BY <1>7, <2>1, <2>2
<1>8. CASE \/ ThreadOpens \/ ThreadFails \/ TraceEnds \/ StartReturns \/ StartFails
           \/ DropBegins \/ DropStopsTrace \/ DropJoinsThread \/ DropEnds
  BY <1>2, <1>8 DEF ThreadOpens, ThreadFails, TraceEnds, StartReturns, StartFails, DropBegins,
       DropStopsTrace, DropJoinsThread, DropEnds, work
<1>9. CASE DropStopsDump
  BY <1>2, <1>3, <1>9 DEF DropStopsDump, work, Party
<1>10. CASE DropStopsWorker
  BY <1>2, <1>10, MessageIs DEF DropStopsWorker, work
<1>11. CASE UNCHANGED etwVars
  BY <1>2, <1>11 DEF etwVars
<1> QED BY <1>4, <1>5, <1>6, <1>7, <1>8, <1>9, <1>10, <1>11 DEF EtwNext

LEMMA SessionKept ==
  ASSUME EtwParameters, Types, ControlInv, [EtwNext]_etwVars
  PROVE  SessionInv'
<1>1. SessionInv /\ active \in BOOLEAN /\ (active => thread = "reading")
  BY DEF ControlInv, Types
<1>2. ASSUME UNCHANGED <<session, user, thread, active, worker>> PROVE SessionInv'
  BY <1>1, <1>2 DEF SessionInv
<1>3. ASSUME NEW f \in Frame, NEW form \in Form, OnEvent(f, form) PROVE SessionInv'
  BY <1>2, <1>3 DEF OnEvent, work
<1>4. ASSUME NEW ok \in BOOLEAN, WorkFrame(ok) \/ WorkStart(ok) \/ WorkStop(ok) PROVE SessionInv'
  BY <1>2, <1>4 DEF WorkFrame, WorkStart, WorkStop, capture, dumping
<1>5. CASE WorkShutdown
  <2>1. queue[1] \in Elems(queue) /\ queue[1].kind = "shutdown"
    BY <1>5, ElemsIs DEF WorkShutdown, Types
  <2>2. session = "shut"
    BY <2>1 DEF ControlInv, RequestInv, Placed
  <2>3. UNCHANGED <<session, user, thread, active>>
    BY <1>5 DEF WorkShutdown, capture, dumping
  <2> QED BY <1>1, <2>2, <2>3 DEF SessionInv
<1>6. CASE UserStart
  BY <1>1, <1>6 DEF UserStart, capture, work, SessionInv
<1>7. CASE UserSendsStart \/ UserStarted \/ UserStop \/ UserSendsStop \/ UserStopped
  <2>1. /\ user \notin {"absent", "idle"} /\ user' # "absent"
        /\ UNCHANGED <<session, thread, active, worker>>
    BY <1>7 DEF UserSendsStart, UserStarted, UserStop, UserSendsStop, UserStopped, capture, work
  <2> QED BY <1>1, <2>1 DEF SessionInv
<1>8. CASE ThreadOpens \/ ThreadFails \/ TraceEnds
  <2>1. UNCHANGED <<session, user, worker>>
    BY <1>8 DEF ThreadOpens, ThreadFails, TraceEnds, work, dumping
  <2>2. CASE ThreadOpens
    <3>1. thread = "opening" /\ thread' = "reading" /\ active' = TRUE
      BY <2>2 DEF ThreadOpens
    <3> QED BY <1>1, <2>1, <3>1 DEF SessionInv
  <2>3. CASE ThreadFails
    <3>1. thread = "opening" /\ thread' = "failed" /\ active' = active
      BY <2>3 DEF ThreadFails
    <3> QED BY <1>1, <2>1, <3>1 DEF SessionInv
  <2>4. CASE TraceEnds
    <3>1. thread = "reading" /\ thread' = "done" /\ active' = FALSE
      BY <2>4 DEF TraceEnds
    <3> QED BY <1>1, <2>1, <3>1 DEF SessionInv
  <2> QED BY <1>8, <2>2, <2>3, <2>4
<1>9. CASE StartReturns
  BY <1>1, <1>9 DEF StartReturns, work, SessionInv
<1>10. CASE StartFails \/ DropBegins
  <2>1. /\ session' = "asking" /\ active' = FALSE /\ UNCHANGED <<user, worker, thread>>
        /\ session = "starting" \/ (session = "up" /\ (~active \/ user = "idle"))
    BY <1>10 DEF StartFails, DropBegins, work, dumping
  <2> QED BY <1>1, <2>1 DEF SessionInv
<1>11. CASE DropStopsDump \/ DropStopsTrace \/ DropJoinsThread \/ DropStopsWorker \/ DropEnds
  <2>1. /\ session \in {"asking", "stopping", "joining", "joined", "shut"}
        /\ session' \in {"stopping", "joining", "joined", "shut", "gone"}
        /\ UNCHANGED <<user, worker, thread, active>>
        /\ (session = "shut" => session' = "gone")
    BY <1>11 DEF DropStopsDump, DropStopsTrace, DropJoinsThread, DropStopsWorker, DropEnds,
         work, dumping
  <2> QED BY <1>1, <2>1 DEF SessionInv
<1>12. CASE UNCHANGED etwVars
  BY <1>2, <1>12 DEF etwVars
<1> QED BY <1>3, <1>4, <1>5, <1>6, <1>7, <1>8, <1>9, <1>10, <1>11, <1>12 DEF EtwNext

(* What the first message of the queue says of its sender.                    *)
LEMMA FirstPlaced ==
  ASSUME Types, ControlInv, queue # <<>>
  PROVE  /\ Placed(queue[1]) /\ queue[1] \in Message /\ queue[1] \in Elems(queue)
         /\ queue[1].kind \in {"start", "stop"} => queue[1].by \in Party
<1>1. queue[1] \in Elems(queue) /\ queue[1] \in Message
  BY ElemsIs DEF Types
<1> QED BY <1>1, MessageIs DEF ControlInv, RequestInv

LEMMA ReplyKept ==
  ASSUME EtwParameters, Types, ControlInv, [EtwNext]_etwVars
  PROVE  ReplyInv'
<1>1. ReplyInv /\ SessionInv /\ reply \in [Party -> Reply]
  BY DEF ControlInv, Types
<1>2. ASSUME UNCHANGED <<session, user, reply>> PROVE ReplyInv'
  BY <1>1, <1>2 DEF ReplyInv
<1>3. ASSUME NEW f \in Frame, NEW form \in Form, OnEvent(f, form) PROVE ReplyInv'
  BY <1>2, <1>3 DEF OnEvent
<1>4. ASSUME NEW ok \in BOOLEAN, WorkFrame(ok) PROVE ReplyInv'
  BY <1>2, <1>4 DEF WorkFrame, capture, dumping
<1>5. ASSUME NEW ok \in BOOLEAN, WorkStart(ok) \/ WorkStop(ok) PROVE ReplyInv'
  <2>1. /\ queue # <<>> /\ queue[1].kind \in {"start", "stop"} /\ UNCHANGED <<session, user>>
        /\ \/ reply' = [reply EXCEPT ![queue[1].by] = "ok"]
           \/ reply' = [reply EXCEPT ![queue[1].by] = "error"]
    BY <1>5 DEF WorkStart, WorkStop, Handles, capture, dumping
  <2>2. Placed(queue[1]) /\ queue[1].by \in Party
    BY <2>1, FirstPlaced
  <2>3. CASE queue[1].by = "user"
    <3>1. user \in {"starting", "stopping"} /\ reply'["drop"] = reply["drop"]
      BY <1>1, <2>1, <2>2, <2>3 DEF Placed, Asks, Party
    <3> QED BY <1>1, <2>1, <3>1 DEF ReplyInv
  <2>4. CASE queue[1].by = "drop"
    <3>1. session = "stopping" /\ reply'["user"] = reply["user"]
      BY <1>1, <2>1, <2>2, <2>4 DEF Placed, Asks, Party
    <3> QED BY <1>1, <2>1, <3>1 DEF ReplyInv
  <2> QED BY <2>2, <2>3, <2>4 DEF Party
<1>6. CASE WorkShutdown
  <2>1. /\ queue # <<>> /\ queue[1].kind = "shutdown" /\ UNCHANGED <<session, user>>
        /\ reply' = [w \in Party |->
                      IF \E i \in DOMAIN queue : Asks(queue[i], w) THEN "error" ELSE reply[w]]
    BY <1>6 DEF WorkShutdown, capture, dumping, Types, Asks, Party
  <2>2. session = "shut"
    BY <2>1, FirstPlaced DEF Placed
  <2>3. ASSUME user \notin {"starting", "stopping"} PROVE reply'["user"] = NoReply
    <3>1. reply["user"] # "wait"
      BY <1>1, <2>3 DEF ReplyInv, NoReply
    <3>2. \A i \in DOMAIN queue : ~Asks(queue[i], "user")
      BY <3>1 DEF ControlInv, RequestInv, Placed, Elems
    <3> QED BY <1>1, <2>1, <2>3, <3>2 DEF ReplyInv, Party
  <2>4. reply'["drop"] \in {"ok", "error"}
    BY <1>1, <2>1, <2>2 DEF ReplyInv, Party
  <2> QED BY <2>1, <2>2, <2>3, <2>4 DEF ReplyInv
<1>7. ASSUME NEW kind \in {"start", "stop"}, NEW by \in Party, Request(kind, by)
      PROVE  \A w \in Party : w # by => reply'[w] = reply[w]
  BY <1>1, <1>7 DEF Request
<1>8. CASE \/ UserStart \/ UserSendsStart \/ UserStarted \/ UserStop \/ UserSendsStop \/ UserStopped
  <2>1. session' = session /\ reply'["drop"] = reply["drop"]
    <3>1. CASE UserSendsStart \/ UserSendsStop
      BY <1>7, <3>1 DEF UserSendsStart, UserSendsStop, capture, Party
    <3>2. CASE UserStart \/ UserStarted \/ UserStop \/ UserStopped
      BY <1>1, <3>2 DEF UserStart, UserStarted, UserStop, UserStopped, capture, Party
    <3> QED BY <1>8, <3>1, <3>2
  <2>2. user' \notin {"starting", "stopping"} => reply'["user"] = NoReply
    BY <1>1, <1>8 DEF UserStart, UserSendsStart, UserStarted, UserStop, UserSendsStop, UserStopped,
         ReplyInv, Party
  <2> QED BY <1>1, <2>1, <2>2 DEF ReplyInv
<1>9. CASE \/ ThreadOpens \/ ThreadFails \/ TraceEnds
  BY <1>2, <1>9 DEF ThreadOpens, ThreadFails, TraceEnds, dumping
<1>10. CASE StartReturns \/ StartFails \/ DropBegins \/ DropStopsTrace \/ DropJoinsThread
            \/ DropStopsWorker \/ DropEnds
  <2>1. reply' = reply /\ (user' = user \/ (user = "absent" /\ user' = "idle"))
    BY <1>1, <1>10 DEF StartReturns, StartFails, DropBegins, DropStopsTrace, DropJoinsThread,
         DropStopsWorker, DropEnds, dumping, SessionInv
  <2>2. \/ session \in {"starting", "up"} /\ session' \in {"up", "asking"}
        \/ reply["drop"] \in {"ok", "error"} /\ session' \in {"joining", "joined", "shut", "gone"}
    BY <1>1, <1>10 DEF StartReturns, StartFails, DropBegins, DropStopsTrace, DropJoinsThread,
         DropStopsWorker, DropEnds, ReplyInv
  <2> QED BY <1>1, <2>1, <2>2 DEF ReplyInv, NoReply
<1>11. CASE DropStopsDump
  <2>1. /\ session' = "stopping" /\ user' = user /\ reply'["user"] = reply["user"]
    BY <1>7, <1>11 DEF DropStopsDump, dumping, Party
  <2> QED BY <1>1, <2>1 DEF ReplyInv
<1>12. CASE UNCHANGED etwVars
  BY <1>2, <1>12 DEF etwVars
<1> QED BY <1>3, <1>4, <1>5, <1>6, <1>8, <1>9, <1>10, <1>11, <1>12 DEF EtwNext

LEMMA StartedKept ==
  ASSUME EtwParameters, Types, ControlInv, [EtwNext]_etwVars
  PROVE  StartedInv'
<1>1. StartedInv /\ SessionInv /\ ReplyInv /\ reply \in [Party -> Reply]
  BY DEF ControlInv, Types
<1> DEFINE Begun == user = "recording" \/ (user = "starting" /\ reply["user"] = "ok")
<1>2. ASSUME Begun' => Begun, dump' = NoDump => dump = NoDump, thread = "done" => thread' = "done"
      PROVE  StartedInv'
  BY <1>1, <1>2 DEF StartedInv
<1>3. ASSUME NEW f \in Frame, NEW form \in Form, OnEvent(f, form) PROVE StartedInv'
  BY <1>2, <1>3 DEF OnEvent, work
<1>4. ASSUME NEW ok \in BOOLEAN, WorkFrame(ok) PROVE StartedInv'
  <2>1. dump' = NoDump => dump = NoDump
    <3>1. dump' = dump \/ (/\ dump # NoDump
                           /\ \/ dump' = [dump EXCEPT !.frames = @ \cup {queue[1].id}]
                              \/ dump' = [dump EXCEPT !.failed = TRUE])
      BY <1>4 DEF WorkFrame
    <3>2. queue[1].id \in Frame
      BY <1>4, FirstPlaced, MessageIs DEF WorkFrame, Handles
    <3>3. dump # NoDump => dump \in Writer /\ NoDump \notin Writer
      BY DEF Types, EtwParameters, Writer
    <3>4. ASSUME dump # NoDump PROVE dump' # NoDump
      <4>1. dump \in Writer /\ NoDump \notin Writer
        BY <3>3, <3>4
      <4>2. [dump EXCEPT !.frames = @ \cup {queue[1].id}] \in Writer
            /\ [dump EXCEPT !.failed = TRUE] \in Writer
        BY <3>2, <4>1, WriterIs
      <4> QED BY <3>1, <4>1, <4>2
    <3> QED BY <3>4
  <2> QED BY <1>2, <1>4, <2>1 DEF WorkFrame, capture, dumping
<1>5. ASSUME NEW ok \in BOOLEAN, WorkStart(ok) PROVE StartedInv'
  <2>1. /\ queue # <<>> /\ queue[1].kind = "start" /\ UNCHANGED <<session, user, thread>>
    BY <1>5 DEF WorkStart, Handles, capture, dumping
  <2>2. queue[1].by = "user" /\ user = "starting"
    BY <2>1, FirstPlaced DEF Placed, Asks, Party
  <2>3. reply'["user"] = "ok" => dump' # NoDump
    <3>1. \/ dump' = [frames |-> {}, failed |-> FALSE]
          \/ reply' = [reply EXCEPT !["user"] = "error"]
      BY <1>5, <2>2 DEF WorkStart
    <3>2. NoDump \notin Writer
      BY DEF EtwParameters, Writer
    <3> QED BY <1>1, <3>1, <3>2, WriterIs DEF Party
  <2> QED BY <2>1, <2>2, <2>3 DEF StartedInv
<1>6. ASSUME NEW ok \in BOOLEAN, WorkStop(ok) PROVE StartedInv'
  <2>1. /\ queue # <<>> /\ queue[1].kind = "stop" /\ UNCHANGED <<session, user, thread>>
        /\ \/ reply' = [reply EXCEPT ![queue[1].by] = "ok"]
           \/ reply' = [reply EXCEPT ![queue[1].by] = "error"]
    BY <1>6 DEF WorkStop, Handles, capture, dumping
  <2>2. Placed(queue[1]) /\ queue[1].by \in Party
    BY <2>1, FirstPlaced
  <2>3. user = "stopping" \/ session = "stopping"
    BY <2>1, <2>2 DEF Placed, Asks, Party
  <2>4. user \in {"recording", "starting"} => thread = "done"
    BY <1>1, <2>3 DEF SessionInv
  <2> QED BY <2>1, <2>4 DEF StartedInv
<1>7. CASE WorkShutdown
  <2>1. /\ UNCHANGED <<dump, user, thread>>
        /\ reply' = [w \in Party |->
                      IF \E i \in DOMAIN queue : Asks(queue[i], w) THEN "error" ELSE reply[w]]
    BY <1>7 DEF WorkShutdown, capture, dumping, Types, Asks, Party
  <2>2. reply'["user"] = "ok" => reply["user"] = "ok"
    BY <2>1 DEF Party
  <2> QED BY <1>2, <2>1, <2>2
<1>8. CASE \/ UserStart \/ UserStarted \/ UserStop \/ UserStopped
  BY <1>2, <1>8 DEF UserStart, UserStarted, UserStop, UserStopped, capture, work
<1>9. CASE UserSendsStart \/ UserSendsStop
  <2>1. reply'["user"] \in {"wait", "error"} /\ user' \in {"starting", "stopping"}
    BY <1>1, <1>9 DEF UserSendsStart, UserSendsStop, Request, Party
  <2> QED BY <2>1 DEF StartedInv
<1>10. CASE ThreadOpens \/ ThreadFails \/ TraceEnds
  BY <1>2, <1>10 DEF ThreadOpens, ThreadFails, TraceEnds, work, dumping
<1>11. CASE StartReturns \/ StartFails \/ DropBegins \/ DropStopsTrace \/ DropJoinsThread
            \/ DropStopsWorker \/ DropEnds
  BY <1>2, <1>11 DEF StartReturns, StartFails, DropBegins, DropStopsTrace, DropJoinsThread,
       DropStopsWorker, DropEnds, work, dumping
<1>12. CASE DropStopsDump
  <2>1. reply'["user"] = reply["user"]
    BY <1>1, <1>12 DEF DropStopsDump, Request, Party
  <2> QED BY <1>2, <1>12, <2>1 DEF DropStopsDump, work, dumping
<1>13. CASE UNCHANGED etwVars
  BY <1>2, <1>13 DEF etwVars
<1> QED BY <1>3, <1>4, <1>5, <1>6, <1>7, <1>8, <1>9, <1>10, <1>11, <1>12, <1>13 DEF EtwNext

LEMMA ControlKept ==
  ASSUME EtwParameters, Types, ControlInv, [EtwNext]_etwVars
  PROVE  ControlInv'
<1>1. RequestInv'
  <2>1. CASE UNCHANGED etwVars
    BY <2>1, RequestsRest DEF etwVars, ControlInv
  <2> QED BY <2>1, EventRequests, WorkerRequests, UserRequests, SessionRequests DEF EtwNext
<1> QED BY <1>1, KnownStep, SessionKept, ReplyKept, StartedKept DEF ControlInv

-----------------------------------------------------------------------------
(* Where a reported packet can be while a dump is written: counted as         *)
(* dropped, in the file, or in the queue ahead of the request to stop and not *)
(* taken for a repetition.  A writer that failed says so when it is stopped.  *)

Ahead(q) == {q[i].id : i \in {k \in DOMAIN q : /\ q[k].kind = "frame"
                                               /\ \A j \in 1..k : q[j].kind # "stop"}}

FileIsWhole ==
  \/ dump.failed
  \/ reported \subseteq lost \cup dump.frames \cup (Ahead(queue) \ Elems(dedup))

Closed == reply["drop"] = "error" \/ reported \subseteq file \cup lost

Writing == user \in {"recording", "closing"} \/ (user = "stopping" /\ reply["user"] = "wait")

Answered == user = "stopping" /\ reply["user"] = "ok"

DropAnswered == reply["drop"] \in {"ok", "error"}

DumpInv ==
  /\ Writing /\ dump # NoDump => FileIsWhole
  /\ Writing /\ dump = NoDump => Closed
  \* A writer that was opened after Session::drop closed the dump gets nothing.
  /\ Writing /\ dump # NoDump /\ DropAnswered => reported = {}
  /\ Answered => dump = NoDump /\ Closed
  /\ outcome = "saved" => user = "idle" /\ dump = NoDump /\ Closed

LEMMA AheadAppend ==
  ASSUME NEW q \in Seq(Message), NEW m \in Message
  PROVE  /\ Ahead(q) \subseteq Ahead(Append(q, m))
         /\ m.kind = "frame" /\ (\A x \in Elems(q) : x.kind # "stop")
              => m.id \in Ahead(Append(q, m))
<1> DEFINE r == Append(q, m)
           n == Len(q)
<1>1. n \in Nat /\ DOMAIN q = 1..n /\ DOMAIN r = 1..n + 1 /\ r[n + 1] = m
      /\ \A i \in 1..n : r[i] = q[i]
  OBVIOUS
<1> HIDE DEF r, n
<1>2. ASSUME NEW i \in 1..n, q[i].kind = "frame", \A j \in 1..i : q[j].kind # "stop"
      PROVE  q[i].id \in Ahead(r)
  <2>1. i \in DOMAIN r /\ r[i] = q[i] /\ \A j \in 1..i : r[j].kind # "stop"
    BY <1>1, <1>2
  <2> QED BY <1>2, <2>1 DEF Ahead
<1>3. Ahead(q) \subseteq Ahead(r)
  BY <1>1, <1>2 DEF Ahead
<1>4. ASSUME m.kind = "frame", \A x \in Elems(q) : x.kind # "stop"
      PROVE  m.id \in Ahead(r)
  <2>1. \A j \in 1..n : q[j].kind # "stop"
    BY <1>1, <1>4 DEF Elems
  <2>2. \A j \in 1..n + 1 : r[j].kind # "stop"
    <3> SUFFICES ASSUME NEW j \in 1..n + 1, j # n + 1 PROVE r[j].kind # "stop"
      BY <1>1, <1>4
    <3>1. j \in 1..n
      BY <1>1
    <3> QED BY <1>1, <2>1, <3>1
  <2>3. n + 1 \in DOMAIN r
    BY <1>1
  <2> QED BY <1>1, <1>4, <2>2, <2>3 DEF Ahead
<1> QED BY <1>3, <1>4 DEF r

LEMMA AheadTail ==
  ASSUME NEW q \in Seq(Message), q # <<>>
  PROVE  /\ q[1].kind = "stop" => Ahead(q) = {}
         /\ q[1].kind = "start" => Ahead(q) \subseteq Ahead(Tail(q))
         /\ q[1].kind = "frame" => Ahead(q) \subseteq Ahead(Tail(q)) \cup {q[1].id}
<1> DEFINE n == Len(q)
           t == Tail(q)
<1>1. /\ n \in Nat \ {0} /\ DOMAIN q = 1..n /\ DOMAIN t = 1..n - 1
      /\ \A i \in 1..n - 1 : t[i] = q[i + 1]
  OBVIOUS
<1> HIDE DEF n, t
<1>2. q[1].kind = "stop" => Ahead(q) = {}
  <2>1. \A i \in DOMAIN q : 1 \in 1..i
    BY <1>1
  <2> QED BY <2>1 DEF Ahead
<1>3. ASSUME NEW i \in DOMAIN q, q[i].kind = "frame", \A j \in 1..i : q[j].kind # "stop", i # 1
      PROVE  q[i].id \in Ahead(t)
  <2>1. i - 1 \in 1..n - 1 /\ t[i - 1] = q[i]
    BY <1>1, <1>3
  <2>2. ASSUME NEW j \in 1..i - 1 PROVE t[j].kind # "stop"
    <3>1. j \in 1..n - 1 /\ j + 1 \in 1..i
      BY <1>1, <1>3
    <3> QED BY <1>1, <1>3, <3>1
  <2> QED BY <1>1, <1>3, <2>1, <2>2 DEF Ahead
<1>4. q[1].kind # "frame" => Ahead(q) \subseteq Ahead(t)
  BY <1>3 DEF Ahead
<1>5. Ahead(q) \subseteq Ahead(t) \cup {q[1].id}
  BY <1>3 DEF Ahead
<1> QED BY <1>2, <1>4, <1>5 DEF t

(* A step that only sends, or only moves the session and the user on.         *)
LEMMA DumpRest ==
  ASSUME DumpInv, UNCHANGED <<dedup, dump, file, reported>>,
         lost \subseteq lost', Ahead(queue) \subseteq Ahead(queue'),
         Writing' => Writing, Answered' => Answered,
         outcome' = "saved" => outcome = "saved" /\ user' = user,
         reply["drop"] = "error" => reply'["drop"] = "error",
         DropAnswered' => DropAnswered
  PROVE  DumpInv'
<1>1. FileIsWhole => FileIsWhole'
  BY DEF FileIsWhole, Elems
<1>2. Closed => Closed'
  BY DEF Closed
<1> HIDE DEF FileIsWhole, Closed, Writing, Answered, DropAnswered
<1> QED BY <1>1, <1>2 DEF DumpInv

LEMMA EventDump ==
  ASSUME EtwParameters, Types, ControlInv, DumpInv,
         NEW f \in Frame, NEW form \in Form, OnEvent(f, form)
  PROVE  DumpInv'
<1> DEFINE m == [kind |-> "frame", id |-> f, form |-> form]
<1>1. m \in Message /\ m.kind = "frame" /\ m.id = f
  BY MessageIs
<1>2. /\ thread = "reading" /\ UNCHANGED <<dedup, dump, file, user, reply, session, outcome>>
      /\ \/ queue' = Append(queue, m) /\ lost' = lost
         \/ queue' = queue /\ lost' = lost \cup {f}
      /\ \/ reported' = reported
         \/ user = "recording" /\ f \notin known /\ reported' = reported \cup {f}
  BY DEF OnEvent, work
<1> HIDE DEF m
<1>3. queue \in Seq(Message)
  BY DEF Types
<1>4. Ahead(queue) \subseteq Ahead(queue') /\ lost \subseteq lost'
  <2>1. Ahead(queue) \subseteq Ahead(Append(queue, m))
    BY <1>1, <1>3, AheadAppend
  <2> QED BY <1>2, <2>1
<1>5. CASE reported' = reported
  <2>1. (Writing' => Writing) /\ (Answered' => Answered) /\ (DropAnswered' => DropAnswered)
    BY <1>2 DEF Writing, Answered, DropAnswered
  <2> QED BY <1>2, <1>4, <1>5, <2>1, DumpRest
<1>6. CASE user = "recording" /\ f \notin known /\ reported' = reported \cup {f}
  <2>1. session \in {"up"} /\ dump # NoDump
    BY <1>2, <1>6 DEF ControlInv, SessionInv, StartedInv, Types
  <2>2. ~DropAnswered
    BY <2>1 DEF ControlInv, ReplyInv, DropAnswered, NoReply
  <2>3. \A x \in Elems(queue) : x.kind # "stop"
    <3> SUFFICES ASSUME NEW x \in Elems(queue), x.kind = "stop" PROVE FALSE
      OBVIOUS
    <3>1. Placed(x) /\ x \in Message
      BY <1>3, ElemsIs DEF ControlInv, RequestInv
    <3> QED BY <1>6, <2>1, <3>1, MessageIs DEF Placed, Asks, Party
  <2>4. f \notin Elems(dedup)
    BY <1>6 DEF ControlInv, KnownInv, Elems
  <2>5. f \in lost' \/ f \in Ahead(queue')
    <3>1. f \in Ahead(Append(queue, m))
      BY <1>1, <1>3, <2>3, AheadAppend
    <3> QED BY <1>2, <3>1
  <2>6. Writing /\ ~Answered /\ outcome # "saved"
    BY <1>6 DEF Writing, Answered, DumpInv
  <2>7. FileIsWhole
    BY <2>1, <2>6 DEF DumpInv
  <2>8. Elems(dedup)' = Elems(dedup)
    BY <1>2 DEF Elems
  <2>9. FileIsWhole'
    BY <1>2, <1>4, <1>6, <2>4, <2>5, <2>7, <2>8 DEF FileIsWhole
  <2>10. Writing' /\ ~Answered' /\ ~DropAnswered' /\ outcome' # "saved" /\ dump' # NoDump
    BY <1>2, <2>1, <2>2, <2>6 DEF Writing, Answered, DropAnswered
  <2> QED BY <2>9, <2>10 DEF DumpInv
<1> QED BY <1>2, <1>5, <1>6

LEMMA FrameDump ==
  ASSUME EtwParameters, Types, ControlInv, DumpInv, NEW ok \in BOOLEAN, WorkFrame(ok)
  PROVE  DumpInv'
<1> DEFINE f == queue[1].id
<1>1. /\ queue # <<>> /\ queue[1].kind = "frame" /\ queue' = Tail(queue)
      /\ UNCHANGED <<user, reply, session, outcome, file, reported>>
  BY DEF WorkFrame, Handles, capture, dumping
<1>2. queue \in Seq(Message) /\ f \in Frame /\ dedup \in Seq(Frame)
      /\ dump \in Writer \cup {NoDump} /\ NoDump \notin Writer
  BY <1>1, FirstPlaced, MessageIs DEF Types, EtwParameters, Writer
<1>3. Ahead(queue) \subseteq Ahead(queue') \cup {f}
  <2>1. Ahead(queue) \subseteq Ahead(Tail(queue)) \cup {queue[1].id}
    BY <1>1, <1>2, AheadTail
  <2> QED BY <1>1, <2>1
<1>4. Elems(dedup') \subseteq Elems(dedup) \cup {f}
  <2>1. dedup' = dedup \/ (dedup' = Remembered(f) /\ ~Seen(f))
    BY DEF WorkFrame
  <2>2. \A i \in DOMAIN dedup' : dedup'[i] = f \/ \E j \in DOMAIN dedup : dedup[j] = dedup'[i]
    BY <1>2, <2>1, RememberedIs DEF Types
  <2> QED BY <2>2 DEF Elems
<1>5. Seen(f) => f \in Elems(dedup)
  BY DEF Seen, Elems
<1>6. lost \subseteq lost' /\ (queue[1].form # "ok" => f \in lost')
  BY DEF WorkFrame
<1>7. dump = NoDump => dump' = NoDump
  BY DEF WorkFrame
<1>8. ASSUME dump # NoDump
      PROVE  /\ dump' # NoDump /\ dump.frames \subseteq dump'.frames
             /\ dump.failed => dump'.failed
             /\ queue[1].form = "ok" /\ ~Seen(f) => dump'.failed \/ f \in dump'.frames
  <2>1. dump \in Writer
    BY <1>2, <1>8
  <2>2. \/ /\ dump' = dump
           /\ ~(queue[1].form = "ok" /\ ~Seen(f) /\ ~dump.failed)
        \/ dump' = [dump EXCEPT !.frames = @ \cup {f}]
        \/ dump' = [dump EXCEPT !.failed = TRUE]
    BY <1>8 DEF WorkFrame
  <2>3. CASE dump' = dump /\ ~(queue[1].form = "ok" /\ ~Seen(f) /\ ~dump.failed)
    BY <1>8, <2>3
  <2>4. CASE dump' = [dump EXCEPT !.frames = @ \cup {f}]
    <3>1. dump'.frames = dump.frames \cup {f} /\ dump'.failed = dump.failed
      BY <2>1, <2>4 DEF Writer
    <3>2. dump' \in Writer
      BY <1>2, <2>1, <2>4, WriterIs
    <3> QED BY <1>2, <3>1, <3>2
  <2>5. CASE dump' = [dump EXCEPT !.failed = TRUE]
    <3>1. dump'.frames = dump.frames /\ dump'.failed = TRUE
      BY <2>1, <2>5 DEF Writer
    <3>2. dump' \in Writer
      BY <1>2, <2>1, <2>5, WriterIs
    <3> QED BY <1>2, <3>1, <3>2
  <2> QED BY <2>2, <2>3, <2>4, <2>5
<1>9. ASSUME dump # NoDump, FileIsWhole PROVE FileIsWhole'
  <2>1. CASE dump.failed
    BY <1>8, <1>9, <2>1 DEF FileIsWhole
  <2>2. CASE dump'.failed
    BY <2>2 DEF FileIsWhole
  <2>3. CASE ~dump.failed /\ ~dump'.failed
    <3> SUFFICES ASSUME NEW g \in reported
                 PROVE  g \in lost' \cup dump'.frames \cup (Ahead(queue') \ Elems(dedup'))
      BY <1>1 DEF FileIsWhole
    <3>1. g \in lost \cup dump.frames \cup (Ahead(queue) \ Elems(dedup))
      BY <1>9, <2>3 DEF FileIsWhole
    <3>2. CASE g \in lost \cup dump.frames
      BY <1>6, <1>8, <1>9, <3>2
    <3>3. CASE g = f /\ g \notin Elems(dedup)
      BY <1>5, <1>6, <1>8, <1>9, <2>3, <3>3
    <3>4. CASE g # f /\ g \in Ahead(queue) \ Elems(dedup)
      BY <1>3, <1>4, <3>4
    <3> QED BY <3>1, <3>2, <3>3, <3>4
  <2> QED BY <2>1, <2>2, <2>3
<1>10. Closed => Closed'
  BY <1>1, <1>6 DEF Closed
<1>11. (Writing' => Writing) /\ (Answered' => Answered) /\ (DropAnswered' => DropAnswered)
  BY <1>1 DEF Writing, Answered, DropAnswered
<1> HIDE DEF f, FileIsWhole, Closed, Writing, Answered, DropAnswered
<1>12. dump' = NoDump <=> dump = NoDump
  BY <1>7, <1>8
<1> QED BY <1>1, <1>9, <1>10, <1>11, <1>12 DEF DumpInv

LEMMA StartDumpStep ==
  ASSUME EtwParameters, Types, ControlInv, DumpInv, NEW ok \in BOOLEAN, WorkStart(ok)
  PROVE  DumpInv'
<1>1. queue # <<>> /\ queue[1].kind = "start" /\ UNCHANGED <<user, outcome>>
  BY DEF WorkStart, Handles, dumping
<1>2. user = "starting"
  BY <1>1, FirstPlaced DEF Placed, Asks, Party
<1>3. outcome # "saved"
  BY <1>2 DEF DumpInv
<1> QED BY <1>1, <1>2, <1>3 DEF DumpInv, Writing, Answered

LEMMA StopDumpStep ==
  ASSUME EtwParameters, Types, ControlInv, DumpInv, NEW ok \in BOOLEAN, WorkStop(ok)
  PROVE  DumpInv'
<1>1. /\ queue # <<>> /\ queue[1].kind = "stop" /\ queue[1].by \in Party
      /\ queue' = Tail(queue) /\ Placed(queue[1])
      /\ UNCHANGED <<user, session, outcome, reported, lost>>
  <2>1. queue # <<>> /\ queue[1].kind = "stop"
    BY DEF WorkStop, Handles
  <2> QED BY <2>1, FirstPlaced DEF WorkStop, Handles, capture, dumping
<1>2. reply \in [Party -> Reply] /\ queue \in Seq(Message)
  BY DEF Types
<1>3. dump' = NoDump
  BY DEF WorkStop
<1>4. Ahead(queue) = {}
  BY <1>1, <1>2, AheadTail
<1>5. ASSUME dump # NoDump, FileIsWhole
      PROVE  reply'[queue[1].by] = "error" \/ reported' \subseteq file' \cup lost'
  <2>1. CASE dump.failed
    <3>1. reply' = [reply EXCEPT ![queue[1].by] = "error"]
      BY <1>5, <2>1 DEF WorkStop
    <3> QED BY <1>1, <1>2, <3>1
  <2>2. CASE ~dump.failed
    <3>1. file' = dump.frames
      BY <1>5 DEF WorkStop
    <3> QED BY <1>1, <1>4, <1>5, <2>2, <3>1 DEF FileIsWhole
  <2> QED BY <2>1, <2>2
<1>6. ASSUME dump = NoDump
      PROVE  /\ reply' = [reply EXCEPT ![queue[1].by] = "ok"] /\ file' = file
  BY <1>6 DEF WorkStop
<1>7. \A w \in Party : w # queue[1].by => reply'[w] = reply[w]
  BY <1>1, <1>2 DEF WorkStop
<1>8. CASE queue[1].by = "user"
  <2>1. user = "stopping" /\ reply["user"] = "wait" /\ Writing
    BY <1>1, <1>8 DEF Placed, Asks, Writing
  <2>2. reply'["user"] # "wait" /\ reply'["drop"] = reply["drop"]
    BY <1>1, <1>2, <1>7, <1>8 DEF WorkStop, Party
  <2>3. ~Writing'
    BY <1>1, <2>1, <2>2 DEF Writing
  <2>4. ASSUME Answered' PROVE Closed'
    <3>1. reply'["user"] = "ok"
      BY <2>4 DEF Answered
    <3>2. CASE dump # NoDump
      BY <1>5, <1>8, <2>1, <3>1, <3>2 DEF Closed, DumpInv
    <3>3. CASE dump = NoDump
      <4>1. Closed /\ file' = file
        BY <1>6, <2>1, <3>3 DEF DumpInv
      <4> QED BY <1>1, <2>2, <4>1 DEF Closed
    <3> QED BY <3>2, <3>3
  <2>5. outcome' # "saved"
    BY <1>1, <2>1 DEF DumpInv
  <2> QED BY <1>3, <2>3, <2>4, <2>5 DEF DumpInv
<1>9. CASE queue[1].by = "drop"
  <2>1. reply'["user"] = reply["user"] /\ reply["drop"] = "wait"
    BY <1>1, <1>7, <1>9 DEF Placed, Asks, Party
  <2>2. (Writing' => Writing) /\ (Answered' => Answered)
    BY <1>1, <2>1 DEF Writing, Answered
  <2>3. ASSUME dump = NoDump, Closed PROVE Closed'
    BY <1>1, <1>6, <2>1, <2>3 DEF Closed
  <2>4. ASSUME dump # NoDump, FileIsWhole PROVE Closed'
    BY <1>5, <1>9, <2>4 DEF Closed
  <2> HIDE DEF Closed, FileIsWhole, Writing, Answered, DropAnswered
  <2> QED BY <1>1, <1>3, <2>2, <2>3, <2>4 DEF DumpInv
<1> QED BY <1>1, <1>8, <1>9 DEF Party

LEMMA ShutdownDump ==
  ASSUME EtwParameters, Types, ControlInv, DumpInv, WorkShutdown
  PROVE  DumpInv'
<1>1. /\ queue # <<>> /\ queue[1].kind = "shutdown"
      /\ UNCHANGED <<dump, file, user, outcome, reported, lost>>
      /\ reply' = [w \in Party |->
                    IF \E i \in DOMAIN queue : Asks(queue[i], w) THEN "error" ELSE reply[w]]
  BY DEF WorkShutdown, capture, dumping, Types, Asks, Party
<1>2. session = "shut"
  BY <1>1, FirstPlaced DEF Placed
<1>3. DropAnswered
  BY <1>2 DEF ControlInv, ReplyInv, DropAnswered
<1>4. \A i \in DOMAIN queue : ~Asks(queue[i], "drop")
  BY <1>2 DEF ControlInv, RequestInv, Placed, Elems
<1>5. /\ reply'["drop"] = reply["drop"]
      /\ reply'["user"] \in {reply["user"], "error"}
  BY <1>1, <1>4 DEF Party
<1>6. (Writing' => Writing) /\ (Answered' => Answered)
  BY <1>1, <1>5 DEF Writing, Answered
<1>7. Closed => Closed'
  BY <1>1, <1>5 DEF Closed
<1>8. reported = {} => FileIsWhole'
  BY <1>1 DEF FileIsWhole
<1> HIDE DEF Closed, FileIsWhole, Writing, Answered, DropAnswered
<1> QED BY <1>1, <1>3, <1>6, <1>7, <1>8 DEF DumpInv

LEMMA UserDump ==
  ASSUME EtwParameters, Types, ControlInv, DumpInv,
         \/ UserStart \/ UserSendsStart \/ UserStarted
         \/ UserStop \/ UserSendsStop \/ UserStopped
  PROVE  DumpInv'
<1>1. queue \in Seq(Message) /\ reply \in [Party -> Reply]
  BY DEF Types
<1>2. ASSUME NEW kind \in {"start", "stop"}, Request(kind, "user")
      PROVE  /\ Ahead(queue) \subseteq Ahead(queue') /\ reply'["drop"] = reply["drop"]
             /\ reply'["user"] \in {"wait", "error"}
  <2>1. [kind |-> kind, by |-> "user"] \in Message
    BY MessageIs DEF Party
  <2>2. Ahead(queue) \subseteq Ahead(Append(queue, [kind |-> kind, by |-> "user"]))
    BY <1>1, <2>1, AheadAppend
  <2> QED BY <1>1, <1>2, <2>2 DEF Request, Party
<1>3. CASE UserStart \/ UserSendsStart
  <2>1. user' \in {"checked", "starting"} /\ outcome' # "saved"
    BY <1>3 DEF UserStart, UserSendsStart, DumpInv
  <2> QED BY <2>1 DEF DumpInv, Writing, Answered
<1>4. CASE UserStarted
  <2>1. /\ user = "starting" /\ user' \in {"recording", "idle"} /\ reported' = {}
        /\ outcome' = outcome
    BY <1>4 DEF UserStarted
  <2>2. outcome # "saved"
    BY <2>1 DEF DumpInv
  <2>3. FileIsWhole' /\ Closed' /\ ~Answered'
    BY <2>1 DEF FileIsWhole, Closed, Answered
  <2> QED BY <2>1, <2>2, <2>3 DEF DumpInv
<1>5. CASE UserStop \/ UserSendsStop
  <2>1. /\ user \in {"recording", "closing"} /\ user' \in {"closing", "stopping"}
        /\ UNCHANGED <<dedup, dump, file, reported, lost, outcome>>
        /\ Ahead(queue) \subseteq Ahead(queue') /\ reply'["drop"] = reply["drop"]
        /\ (user' = "stopping" => reply'["user"] # "ok")
    BY <1>2, <1>5 DEF UserStop, UserSendsStop, work, capture
  <2>2. outcome # "saved"
    BY <2>1 DEF DumpInv
  <2>3. Writing /\ ~Answered' /\ (DropAnswered' => DropAnswered)
    BY <2>1 DEF Writing, Answered, DropAnswered
  <2> QED BY <2>1, <2>2, <2>3, DumpRest
<1>6. CASE UserStopped
  <2>1. /\ user = "stopping" /\ user' = "idle"
        /\ UNCHANGED <<dump, file, reported, lost>> /\ reply'["drop"] = reply["drop"]
        /\ (outcome' = "saved" => reply["user"] = "ok")
    BY <1>1, <1>6 DEF UserStopped, work, capture, Party
  <2>2. outcome' = "saved" => Answered
    BY <2>1 DEF Answered
  <2>3. Closed => Closed'
    BY <2>1 DEF Closed
  <2>4. ~Writing' /\ ~Answered'
    BY <2>1 DEF Writing, Answered
  <2> HIDE DEF Closed, Answered, Writing
  <2> QED BY <2>1, <2>2, <2>3, <2>4 DEF DumpInv
<1> QED BY <1>3, <1>4, <1>5, <1>6

LEMMA SessionDump ==
  ASSUME EtwParameters, Types, ControlInv, DumpInv,
         \/ ThreadOpens \/ ThreadFails \/ TraceEnds \/ StartReturns \/ StartFails
         \/ DropBegins \/ DropStopsDump \/ DropStopsTrace \/ DropJoinsThread
         \/ DropStopsWorker \/ DropEnds
  PROVE  DumpInv'
<1>1. queue \in Seq(Message) /\ reply \in [Party -> Reply]
  BY DEF Types
<1>2. CASE ThreadOpens \/ ThreadFails \/ TraceEnds \/ StartFails \/ DropBegins
           \/ DropStopsTrace \/ DropJoinsThread \/ DropEnds
  <2>1. UNCHANGED <<dedup, dump, file, reported, lost, outcome, queue, user, reply>>
    BY <1>2 DEF ThreadOpens, ThreadFails, TraceEnds, StartFails, DropBegins,
         DropStopsTrace, DropJoinsThread, DropEnds, work, dumping
  <2> QED BY <2>1, DumpRest DEF Writing, Answered, DropAnswered
<1>3. CASE StartReturns
  <2>1. /\ UNCHANGED <<dedup, dump, file, reported, lost, outcome, queue, reply>>
        /\ user = "absent" /\ user' = "idle"
    BY <1>3 DEF StartReturns, work, ControlInv, SessionInv
  <2>2. outcome # "saved"
    BY <2>1 DEF DumpInv
  <2> QED BY <2>1, <2>2, DumpRest DEF Writing, Answered, DropAnswered
<1>4. CASE DropStopsDump
  <2> DEFINE m == [kind |-> "stop", by |-> "drop"]
  <2>1. m \in Message
    BY MessageIs DEF Party
  <2>2. session = "asking" /\ worker /\ reply["drop"] = NoReply
    BY <1>4 DEF DropStopsDump, ControlInv, SessionInv, ReplyInv
  <2>3. /\ UNCHANGED <<dedup, dump, file, reported, lost, outcome, user>>
        /\ queue' = Append(queue, m) /\ reply' = [reply EXCEPT !["drop"] = "wait"]
    BY <1>4, <2>2 DEF DropStopsDump, Request, work, dumping
  <2>4. Ahead(queue) \subseteq Ahead(queue')
    <3>1. Ahead(queue) \subseteq Ahead(Append(queue, m))
      BY <1>1, <2>1, AheadAppend
    <3> QED BY <2>3, <3>1
  <2>5. reply'["drop"] = "wait" /\ reply'["user"] = reply["user"]
    BY <1>1, <2>3 DEF Party
  <2> QED BY <2>2, <2>3, <2>4, <2>5, DumpRest DEF Writing, Answered, DropAnswered, NoReply
<1>5. CASE DropStopsWorker
  <2> DEFINE m == [kind |-> "shutdown"]
  <2>1. m \in Message
    BY MessageIs
  <2>2. /\ UNCHANGED <<dedup, dump, file, reported, lost, outcome, user, reply>>
        /\ queue' = Append(queue, m)
    BY <1>5 DEF DropStopsWorker, work, dumping
  <2>3. Ahead(queue) \subseteq Ahead(queue')
    <3>1. Ahead(queue) \subseteq Ahead(Append(queue, m))
      BY <1>1, <2>1, AheadAppend
    <3> QED BY <2>2, <3>1
  <2> QED BY <2>2, <2>3, DumpRest DEF Writing, Answered, DropAnswered
<1> QED BY <1>2, <1>3, <1>4, <1>5

(* Along every behaviour: the invariants of control and of the dump.          *)
THEOREM CaptureInvariant ==
  ASSUME EtwParameters PROVE EtwSpec => [](Types /\ ControlInv /\ DumpInv)
<1>1. EtwInit => Types
  BY InitTypes
<1>2. EtwInit => ControlInv
  BY DEF EtwInit, ControlInv, KnownInv, SessionInv, ReplyInv, RequestInv, StartedInv, Elems, Once,
       Party
<1>3. EtwInit => DumpInv
  BY DEF EtwInit, DumpInv, Writing, Answered
<1>4. Types /\ ControlInv /\ DumpInv /\ [EtwNext]_etwVars => (Types /\ ControlInv /\ DumpInv)'
  <2> SUFFICES ASSUME Types, ControlInv, DumpInv, [EtwNext]_etwVars
               PROVE  (Types /\ ControlInv /\ DumpInv)'
    OBVIOUS
  <2>1. Types'
    BY TypesKept
  <2>2. ControlInv'
    BY ControlKept
  <2>3. DumpInv'
    <3>1. CASE UNCHANGED etwVars
      BY <3>1, DumpRest DEF etwVars, Writing, Answered, DropAnswered
    <3>2. ASSUME NEW ok \in BOOLEAN, WorkFrame(ok) \/ WorkStart(ok) \/ WorkStop(ok)
          PROVE  DumpInv'
      BY <3>2, FrameDump, StartDumpStep, StopDumpStep
    <3> QED BY <3>1, <3>2, EventDump, ShutdownDump, UserDump, SessionDump DEF EtwNext
  <2> QED BY <2>1, <2>2, <2>3
<1> QED BY <1>1, <1>2, <1>3, <1>4, PTL DEF EtwSpec

(* A dump that was stopped without an error is whole: what the capture        *)
(* reported while it ran is in the file or was counted as dropped, or         *)
(* Session::drop had closed the file and logged its failure.                  *)
THEOREM SavedDumpsAreWhole == ASSUME EtwParameters PROVE EtwSpec => []SavedIsWhole
<1>1. Types /\ ControlInv /\ DumpInv => SavedIsWhole
  BY DEF DumpInv, Closed, SavedIsWhole
<1> QED BY <1>1, CaptureInvariant, PTL
=============================================================================
