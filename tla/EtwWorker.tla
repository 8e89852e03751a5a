------------------------------- MODULE EtwWorker -------------------------------
(***************************************************************************)
(* Capture and dumps on Windows (src/src/etw.rs, src/src/capture/windows.rs):*)
(* the callback of the trace puts copies of packet events into a bounded    *)
(* queue, where they wait in line with the requests to start and stop a     *)
(* dump, and one worker thread handles them.  The capture session may end,  *)
(* and be dropped, at any time, also while it starts.                       *)
(***************************************************************************)
EXTENDS Integers, Sequences, FiniteSets

CONSTANTS
  Frame,      \* identities of packets (group and number)
  NoDump,     \* the writer in consume is None
  QueueSize,  \* sync_channel(256)
  SeenSize,   \* Dedup remembers 8192
  MaxEvents   \* bound: a packet may be reported by several components

EtwParameters ==
  /\ QueueSize \in Nat \ {0} /\ SeenSize \in Nat \ {0} /\ MaxEvents \in Nat
  /\ NoDump \notin [frames : SUBSET Frame, failed : BOOLEAN]

VARIABLES
  events, known,  \* history: how many events there were, and of which packets
  queue,
  thread,   \* the thread that reads the trace: the callback runs on it
  active,   \* ACTIVE
  worker,   \* consume is running
  dedup,    \* Dedup, oldest first
  dump,     \* the writer in consume: its frames and whether a write failed
  failed,   \* Sink::error is set
  session,  \* how far start or Session::drop has got
  user,     \* how far Dump::start or Dump::stop has got
  error,    \* Dump::stop: an error was known before the request
  reply,    \* the reply to the user's request and to that of Session::drop
  outcome,  \* what the last Dump::stop has returned
  reported, \* history: packets first reported between Start's reply and Stop
  file,     \* history: packets in the file that was closed last
  lost      \* history: packets of which an event was counted as dropped

etwVars == <<events, known, queue, thread, active, worker, dedup, dump, failed, session, user,
          error, reply, outcome, reported, file, lost>>

capture == <<events, known, thread, active, session>>
work == <<worker, dedup, dump, failed, file>>
dumping == <<user, error, outcome, reported>>

Form == {"ok", "otherLink", "unknown"}
Message == [kind : {"frame"}, id : Frame, form : Form]
           \cup [kind : {"start", "stop"}, by : {"user", "drop"}] \cup [kind : {"shutdown"}]
NoReply == "none"

EtwTypeOK ==
  /\ events \in 0..MaxEvents /\ queue \in Seq(Message) /\ Len(queue) <= QueueSize
  /\ {active, worker, failed, error} \subseteq BOOLEAN
  /\ thread \in {"opening", "failed", "reading", "done"}
  /\ active => thread = "reading"
  /\ dedup \in Seq(Frame) /\ Len(dedup) <= SeenSize
  /\ \A i, j \in DOMAIN dedup : dedup[i] = dedup[j] => i = j
  /\ dump \in [frames : SUBSET Frame, failed : BOOLEAN] \cup {NoDump}
  /\ session \in {"starting", "up", "asking", "stopping", "joining", "joined", "shut", "gone"}
  /\ user \in {"absent", "idle", "checked", "starting", "recording", "closing", "stopping"}
  /\ reply \in [{"user", "drop"} -> {NoReply, "wait", "ok", "error"}]
  /\ outcome \in {"none", "saved", "error"}
  /\ {known, reported, file, lost} \subseteq SUBSET Frame

EtwInit ==
  /\ events = 0 /\ queue = <<>> /\ thread = "opening" /\ active = FALSE /\ worker = TRUE
  /\ dedup = <<>> /\ dump = NoDump /\ failed = FALSE /\ session = "starting" /\ user = "absent"
  /\ error = FALSE /\ reply = [w \in {"user", "drop"} |-> NoReply] /\ outcome = "none"
  /\ known = {} /\ reported = {} /\ file = {} /\ lost = {}
-----------------------------------------------------------------------------
\* on_event, the callback of ProcessTrace: try_send.
OnEvent(f, form) ==
  /\ thread = "reading" /\ events < MaxEvents /\ events' = events + 1 /\ known' = known \cup {f}
  /\ reported' = IF user = "recording" /\ f \notin known THEN reported \cup {f} ELSE reported
  /\ IF Len(queue) < QueueSize
     THEN queue' = Append(queue, [kind |-> "frame", id |-> f, form |-> form]) /\ UNCHANGED lost
     ELSE lost' = lost \cup {f} /\ UNCHANGED queue
  /\ UNCHANGED <<thread, active, session, work, user, error, outcome, reply>>

Handles(kind) == worker /\ queue # <<>> /\ queue[1].kind = kind /\ queue' = Tail(queue)

\* Dedup::first for a new packet.
Remembered(f) ==
  IF Len(dedup) < SeenSize THEN Append(dedup, f) ELSE Append(Tail(dedup), f)

Seen(f) == \E i \in DOMAIN dedup : dedup[i] = f

\* Work::Frame; writes says whether the disk takes it.
WorkFrame(writes) ==
  /\ Handles("frame")
  /\ LET f       == queue[1].id
         usable  == queue[1].form = "ok"
         new     == usable /\ ~Seen(f)
         written == new /\ dump # NoDump /\ ~dump.failed
     IN /\ lost' = IF usable THEN lost ELSE lost \cup {f}
        /\ dedup' = IF new THEN Remembered(f) ELSE dedup
        /\ failed' = (failed \/ (written /\ ~writes))
        /\ dump' = IF ~written THEN dump
                   ELSE IF writes THEN [dump EXCEPT !.frames = @ \cup {f}]
                   ELSE [dump EXCEPT !.failed = TRUE]
  /\ UNCHANGED <<capture, worker, file, dumping, reply>>

\* Work::Start; a dump is running, the file is made, or it cannot be.
WorkStart(opens) ==
  /\ Handles("start")
  /\ IF dump = NoDump /\ opens
     THEN /\ dump' = [frames |-> {}, failed |-> FALSE] /\ failed' = FALSE
          /\ reply' = [reply EXCEPT ![queue[1].by] = "ok"]
     ELSE reply' = [reply EXCEPT ![queue[1].by] = "error"] /\ UNCHANGED <<dump, failed>>
  /\ UNCHANGED <<capture, worker, dedup, file, dumping, lost>>

\* Mutant: an error of an earlier write is forgotten.
WorkStopForgetful(flushes) ==
  /\ Handles("stop")
  /\ IF dump = NoDump
     THEN reply' = [reply EXCEPT ![queue[1].by] = "ok"] /\ UNCHANGED <<dump, file>>
     ELSE /\ dump' = NoDump /\ file' = dump.frames
          /\ reply' = [reply EXCEPT ![queue[1].by] = IF flushes THEN "ok" ELSE "error"]
  /\ UNCHANGED <<capture, worker, dedup, failed, dumping, lost>>

\* Work::Stop.
WorkStop(flushes) ==
  /\ Handles("stop")
  /\ IF dump = NoDump
     THEN reply' = [reply EXCEPT ![queue[1].by] = "ok"] /\ UNCHANGED <<dump, file>>
     ELSE /\ dump' = NoDump /\ file' = dump.frames
          /\ reply' = [reply EXCEPT ![queue[1].by] =
                         IF flushes /\ ~dump.failed THEN "ok" ELSE "error"]
  /\ UNCHANGED <<capture, worker, dedup, failed, dumping, lost>>

\* Mutant: the receiver outlives the loop.
WorkShutdownKeepsQueue ==
  /\ Handles("shutdown") /\ worker' = FALSE
  /\ UNCHANGED <<capture, dedup, dump, failed, file, dumping, reply, lost>>

\* Work::Shutdown: the receiver is dropped with what is still queued, and who
\* waits for a reply learns that there will be none.
WorkShutdown ==
  /\ worker /\ queue # <<>> /\ queue[1].kind = "shutdown"
  /\ worker' = FALSE /\ queue' = <<>>
  /\ reply' = [w \in DOMAIN reply |->
                IF \E i \in DOMAIN queue : queue[i].kind \in {"start", "stop"} /\ queue[i].by = w
                THEN "error" ELSE reply[w]]
  /\ UNCHANGED <<capture, dedup, dump, failed, file, dumping, lost>>

\* A blocking send of a request, by the user or by Session::drop.
Request(kind, by) ==
  \/ /\ worker /\ Len(queue) < QueueSize
     /\ queue' = Append(queue, [kind |-> kind, by |-> by])
     /\ reply' = [reply EXCEPT ![by] = "wait"]
  \/ ~worker /\ reply' = [reply EXCEPT ![by] = "error"] /\ UNCHANGED queue
-----------------------------------------------------------------------------
\* Dump::start: dump_start sees that the capture is active, or fails.
UserStart ==
  /\ user = "idle" /\ active /\ user' = "checked" /\ outcome' = "none"
  /\ UNCHANGED <<capture, queue, work, error, reported, reply, lost>>

UserSendsStart ==
  /\ user = "checked" /\ Request("start", "user") /\ user' = "starting"
  /\ UNCHANGED <<capture, work, error, outcome, reported, lost>>

UserStarted ==
  /\ user = "starting" /\ reply["user"] \in {"ok", "error"}
  /\ user' = IF reply["user"] = "ok" THEN "recording" ELSE "idle"
  /\ reported' = {} /\ lost' = {}
  /\ reply' = [reply EXCEPT !["user"] = NoReply]
  /\ UNCHANGED <<capture, queue, work, error, outcome>>

\* Dump::stop reads dump_error, then sends its request.
UserStop ==
  /\ user = "recording" /\ user' = "closing" /\ error' = (~active \/ failed)
  /\ UNCHANGED <<capture, queue, work, outcome, reported, reply, lost>>

UserSendsStop ==
  /\ user = "closing" /\ Request("stop", "user") /\ user' = "stopping"
  /\ UNCHANGED <<capture, work, error, outcome, reported, lost>>

UserStopped ==
  /\ user = "stopping" /\ reply["user"] \in {"ok", "error"} /\ user' = "idle"
  /\ outcome' = IF reply["user"] = "ok" /\ ~error THEN "saved" ELSE "error"
  /\ reply' = [reply EXCEPT !["user"] = NoReply]
  /\ UNCHANGED <<capture, queue, work, error, reported, lost>>
-----------------------------------------------------------------------------
\* The thread opens the trace and reports it to start, or an error.
ThreadOpens ==
  /\ thread = "opening" /\ thread' = "reading" /\ active' = TRUE
  /\ UNCHANGED <<events, known, session, queue, work, dumping, reply, lost>>

ThreadFails ==
  /\ thread = "opening" /\ thread' = "failed"
  /\ UNCHANGED <<events, known, active, session, queue, work, dumping, reply, lost>>

\* ProcessTrace returns, by itself or because the session was stopped.
TraceEnds ==
  /\ thread = "reading" /\ thread' = "done" /\ active' = FALSE
  /\ UNCHANGED <<events, known, session, queue, work, dumping, reply, lost>>

\* start returns the session, and the program goes on to serve requests; or it
\* drops the session when the thread has failed or not answered for five seconds.
StartReturns ==
  /\ session = "starting" /\ thread \in {"reading", "done"}
  /\ session' = "up" /\ user' = "idle"
  /\ UNCHANGED <<events, known, thread, active, queue, work, error, outcome, reported, reply, lost>>

StartFails ==
  /\ session = "starting" /\ thread \in {"opening", "failed"}
  /\ session' = "asking" /\ active' = FALSE
  /\ UNCHANGED <<events, known, thread, queue, work, dumping, reply, lost>>

\* Session::drop, when the capture was seen to have stopped, or at the exit,
\* when no dump is running any more.
DropBegins ==
  /\ session = "up" /\ (~active \/ user = "idle")
  /\ session' = "asking" /\ active' = FALSE
  /\ UNCHANGED <<events, known, thread, queue, work, dumping, reply, lost>>

DropStopsDump ==
  /\ session = "asking" /\ Request("stop", "drop") /\ session' = "stopping"
  /\ UNCHANGED <<events, known, thread, active, work, dumping, lost>>

DropStopsTrace ==
  /\ session = "stopping" /\ reply["drop"] \in {"ok", "error"} /\ session' = "joining"
  /\ UNCHANGED <<events, known, thread, active, queue, work, dumping, reply, lost>>

DropJoinsThread ==
  /\ session = "joining" /\ thread \in {"failed", "done"} /\ session' = "joined"
  /\ UNCHANGED <<events, known, thread, active, queue, work, dumping, reply, lost>>

DropStopsWorker ==
  /\ session = "joined" /\ worker /\ Len(queue) < QueueSize
  /\ session' = "shut" /\ queue' = Append(queue, [kind |-> "shutdown"])
  /\ UNCHANGED <<events, known, thread, active, work, dumping, reply, lost>>

DropEnds ==
  /\ session = "shut" /\ ~worker /\ session' = "gone"
  /\ UNCHANGED <<events, known, thread, active, queue, work, dumping, reply, lost>>

EtwNext ==
  \/ \E f \in Frame, form \in Form : OnEvent(f, form)
  \/ \E ok \in BOOLEAN : WorkFrame(ok) \/ WorkStart(ok) \/ WorkStop(ok)
  \/ WorkShutdown
  \/ UserStart \/ UserSendsStart \/ UserStarted
  \/ UserStop \/ UserSendsStop \/ UserStopped
  \/ ThreadOpens \/ ThreadFails \/ TraceEnds \/ StartReturns \/ StartFails
  \/ DropBegins \/ DropStopsDump \/ DropStopsTrace \/ DropJoinsThread
  \/ DropStopsWorker \/ DropEnds

EtwSpec == EtwInit /\ [][EtwNext]_etwVars
-----------------------------------------------------------------------------
(* A dump that Dump::stop returns without an error is whole: every packet     *)
(* that the capture reported between the two requests is in the file, unless  *)
(* the counter that its caller compares says that packets were dropped.  Only *)
(* when the capture stops just then, Session::drop may have closed the file   *)
(* and have logged that it failed.                                            *)
SavedIsWhole ==
  outcome = "saved" => reported \subseteq file \cup lost \/ reply["drop"] = "error"

(* Nobody waits for the worker in vain: a request without a reply is in the   *)
(* queue of a worker that runs.                                               *)
RequestsAreAnswered ==
  \A w \in {"user", "drop"} :
    reply[w] = "wait" =>
      worker /\ \E i \in DOMAIN queue : queue[i].kind \in {"start", "stop"} /\ queue[i].by = w
=============================================================================
