---------------------------- MODULE DumpLifecycle ----------------------------
(***************************************************************************)
(* The recording controls of SocketTrail (src/src/main.rs) on Linux: the    *)
(* HTTP requests that start and stop a dump, the poll loop that stops it by *)
(* itself, the shutdown of the program, the second dumpcap that writes the  *)
(* file, and the packet accounting a finished dump is judged by.            *)
(*                                                                          *)
(* Every action is one section of code between two awaits.  A section that  *)
(* runs under the application lock is one step; what other tasks may do     *)
(* while the lock is free is interleaved.                                   *)
(***************************************************************************)
EXTENDS PacketQueue

CONSTANTS Request,      \* HTTP requests, each with a task of its own
          Poller,         \* the task the poll loop spawns on every tick
          Main,         \* main() itself, which finishes a dump on shutdown
          File,         \* dump paths: the nanosecond suffix makes each fresh
          NoFile, NoMeta,
          LiveMayDie    \* bound of the model: whether live capture can fail

ASSUME LifecycleAssumption ==
  /\ Poller \notin Request /\ Main \notin Request /\ Poller # Main
  /\ NoFile \notin File
  /\ NoMeta \notin [only : BOOLEAN, limit : BOOLEAN, idle : BOOLEAN,
                     droppedAtStart : Nat]
  /\ LiveMayDie \in BOOLEAN

VARIABLES
  phase,      \* App::dump_phase
  slot,       \* App::dump: the file whose capture child it holds
  meta,       \* App::dump_meta
  captureOn,  \* App::capture_on
  pc,         \* per task: where it is
  hold,       \* per task: the file of the dump it took or starts
  taken,      \* per task: the meta it took or prepares
  ok,         \* per task: no error so far
  target,     \* per task: the accounting target it waits for
  clients,    \* requests whose HTTP connection still waits for the answer
  child,      \* per file: the dumpcap process that writes it
  file,       \* per file: what is on the disk
  sidecars,   \* files with a .json map beside them
  told,       \* per file: the dump_outcome announced for it
  unfiltered, \* files whose outcome says unfiltered
  app,        \* how far main() is
  scoped,     \* history: files recorded with "process only"
  lost,       \* history: files recorded while packet tracking lost data
  mark        \* history: packets accepted when the last capture stopped

recordVars == <<phase, slot, meta>>
diskVars   == <<child, file, sidecars>>
reportVars == <<told, unfiltered>>
job        == <<hold, taken, ok, target>>
history    == <<scoped, lost, mark>>
vars == <<queueVars, recordVars, captureOn, pc, job, clients, diskVars,
          reportVars, app, history>>

Task == Request \cup {Poller, Main}

StartPcs   == {"starting", "waiting", "unwinding"}
StopPcs    == {"stopping", "terminating"}
FinishPcs  == StopPcs \cup {"stopped", "draining", "merging", "tallying",
                            "processing", "reporting"}
AwaitPcs   == {"waiting", "terminating", "draining", "processing"}
AskedPcs   == {"asked_start", "asked_stop"}
Pcs        == {"idle", "gone"} \cup AskedPcs \cup StartPcs \cup FinishPcs

Alive == {"spawned", "recording"}   \* the capture child runs
Dead  == {"clean", "failed", "killed"}

Active(t) == pc[t] \in StartPcs \cup FinishPcs

Meta == [only : BOOLEAN, limit : BOOLEAN, idle : BOOLEAN, droppedAtStart : Nat]
Serving == app = "serving"   \* connections are accepted
Running == app \notin {"dropped", "exited"}   \* the tokio runtime is alive

TypeOK ==
  /\ QueueTypeOK
  /\ phase \in {"Idle", "Starting", "Recording", "Finishing"}
  /\ slot \in File \cup {NoFile}
  /\ meta \in Meta \cup {NoMeta}
  /\ captureOn \in BOOLEAN
  /\ pc \in [Task -> Pcs]
  /\ hold \in [Task -> File \cup {NoFile}]
  /\ taken \in [Task -> Meta \cup {NoMeta}]
  /\ ok \in [Task -> BOOLEAN]
  /\ target \in [Task -> Nat]
  /\ clients \subseteq Request
  /\ child \in [File -> {"none"} \cup Alive \cup Dead]
  /\ file \in [File -> {"absent", "raw", "labeled", "filtered"}]
  /\ told \in [File -> {"none", "aborted", "ok", "failed"}]
  /\ app \in {"serving", "quitting", "closed", "finishing", "saving",
              "leaving", "dropped", "exited"}
  /\ sidecars \subseteq File /\ unfiltered \subseteq File
  /\ scoped \subseteq File /\ lost \subseteq File
  /\ mark \in Nat

Init ==
  /\ QueueInit
  /\ phase = "Idle" /\ slot = NoFile /\ meta = NoMeta
  /\ captureOn = TRUE
  /\ pc = [t \in Task |-> "idle"]
  /\ hold = [t \in Task |-> NoFile] /\ taken = [t \in Task |-> NoMeta]
  /\ ok = [t \in Task |-> TRUE] /\ target = [t \in Task |-> 0]
  /\ clients = {}
  /\ child = [f \in File |-> "none"] /\ file = [f \in File |-> "absent"]
  /\ sidecars = {}
  /\ told = [f \in File |-> "none"] /\ unfiltered = {}
  /\ app = "serving"
  /\ scoped = {} /\ lost = {} /\ mark = 0
-----------------------------------------------------------------------------
(* Packets.  A loss counts against a recording while its child runs, and    *)
(* for packets accepted by the time the child had stopped until they are    *)
(* processed.                                                               *)

Untracked(f) == \/ child[f] \in Alive
                \/ processed < mark /\ \E t \in Task :
                     pc[t] \in FinishPcs \ StopPcs /\ hold[t] = f

\* record_dump, record_dump_conn: the merge may run into MAX_DUMP_CONNS.
Remembered(m) == IF m = NoMeta THEN {NoMeta}
                               ELSE {m, [m EXCEPT !.limit = TRUE]}

Reading == /\ Running
           /\ \/ SendQueued \/ SendCounted \/ PumpTake
           /\ UNCHANGED <<recordVars, captureOn, pc, job, clients, diskVars,
                          reportVars, app, history>>

LosePacket == /\ Running
              /\ SendFull
              /\ lost' = lost \cup {f \in File : Untracked(f)}
              /\ UNCHANGED <<recordVars, captureOn, pc, job, clients, diskVars,
                             reportVars, app, scoped, mark>>

\* The pump's critical section: apply_packet and record_dump_conn per packet.
ApplyBatch == /\ Running
              /\ \/ PumpApply /\ lost' = lost
                 \/ PumpPanic /\ lost' = lost \cup {f \in File : Untracked(f)}
              /\ meta' \in Remembered(meta)
              /\ UNCHANGED <<phase, slot, captureOn, pc, job, clients, diskVars,
                             reportVars, app, scoped, mark>>

LiveDies == /\ Running /\ LiveMayDie
            /\ ReaderEnds
            /\ UNCHANGED <<recordVars, captureOn, pc, job, clients, diskVars,
                           reportVars, app, history>>

\* capture_watch: Live::check reports the end of the stream.
CaptureWatch == /\ Running
                /\ reader = "closed" /\ captureOn
                /\ captureOn' = FALSE
                /\ UNCHANGED <<queueVars, recordVars, pc, job, clients, diskVars,
                               reportVars, app, history>>
-----------------------------------------------------------------------------
(* The capture child.  Ctrl+C in a terminal and SIGTERM from systemd reach  *)
(* it as well as the program, so it may exit cleanly without being asked.   *)

ChildHeader(f) == /\ child[f] = "spawned"
                  /\ child' = [child EXCEPT ![f] = "recording"]
                  /\ file' = [file EXCEPT ![f] = "raw"]
                  /\ UNCHANGED <<queueVars, recordVars, captureOn, pc, job, clients,
                                 sidecars, reportVars, app, history>>

ChildExits(f) == /\ child[f] \in Alive
                 /\ \E how \in {"clean", "failed"} :
                      child' = [child EXCEPT ![f] = how]
                 /\ UNCHANGED <<queueVars, recordVars, captureOn, pc, job, clients,
                                file, sidecars, reportVars, app, history>>
-----------------------------------------------------------------------------
(* A request spawns a task and waits for it, so the task outlives a page    *)
(* that goes away.                                                          *)

\* api_dump_start, api_dump_stop.
Ask(r) == /\ Serving
          /\ pc[r] = "idle"
          /\ \E what \in AskedPcs : pc' = [pc EXCEPT ![r] = what]
          /\ clients' = clients \cup {r}
          /\ UNCHANGED <<queueVars, recordVars, captureOn, job, diskVars,
                         reportVars, app, history>>

\* The early returns: busy, no capture, no live process selected, a group that
\* is too large; for a stop, no recording.
Refuse(r) == /\ \/ pc[r] = "asked_start"
                \/ pc[r] = "asked_stop" /\ phase # "Recording"
             /\ pc' = [pc EXCEPT ![r] = "idle"]
             /\ clients' = clients \ {r}
             /\ UNCHANGED <<queueVars, recordVars, captureOn, job, diskVars,
                            reportVars, app, history>>
-----------------------------------------------------------------------------
(* start_dump                                                               *)

Unstarted(f) == child[f] = "none" /\ told[f] = "none"

\* A task answers its request and its local state is gone.
TaskEnds(t) == /\ pc' = [pc EXCEPT ![t] = "idle"]
               /\ hold' = [hold EXCEPT ![t] = NoFile]
               /\ taken' = [taken EXCEPT ![t] = NoMeta]
               /\ ok' = [ok EXCEPT ![t] = TRUE]
               /\ target' = [target EXCEPT ![t] = 0]
               /\ clients' = clients \ {t}

\* Mutant: the phase is not checked before a start.
StartUnchecked(r, f, only) ==
  /\ pc[r] = "asked_start"
  /\ captureOn
  /\ Unstarted(f)
  /\ phase' = "Starting" /\ slot' = NoFile
  /\ pc' = [pc EXCEPT ![r] = "starting"]
  /\ hold' = [hold EXCEPT ![r] = f]
  /\ taken' = [taken EXCEPT ![r] = [only |-> only, limit |-> FALSE, idle |-> FALSE,
                                     droppedAtStart |-> dropped]]
  /\ scoped' = IF only THEN scoped \cup {f} ELSE scoped
  /\ UNCHANGED <<queueVars, meta, captureOn, ok, target, clients, diskVars, reportVars,
                 app, lost, mark>>

\* The first critical section.
StartBegin(r, f, only) ==
  /\ pc[r] = "asked_start"
  /\ phase = "Idle" /\ captureOn
  /\ Unstarted(f)
  /\ phase' = "Starting" /\ slot' = NoFile
  /\ pc' = [pc EXCEPT ![r] = "starting"]
  /\ hold' = [hold EXCEPT ![r] = f]
  /\ taken' = [taken EXCEPT ![r] = [only |-> only, limit |-> FALSE, idle |-> FALSE,
                                     droppedAtStart |-> dropped]]
  /\ scoped' = IF only THEN scoped \cup {f} ELSE scoped
  /\ UNCHANGED <<queueVars, meta, captureOn, ok, target, clients, diskVars, reportVars,
                 app, lost, mark>>

\* create_dir_all and Dump::start up to the first await.
StartSpawn(t) ==
  /\ pc[t] = "starting"
  /\ \/ /\ pc' = [pc EXCEPT ![t] = "waiting"]
        /\ child' = [child EXCEPT ![hold[t]] = "spawned"]
     \/ /\ pc' = [pc EXCEPT ![t] = "unwinding"]
        /\ UNCHANGED child
  /\ UNCHANGED <<queueVars, recordVars, captureOn, job, clients, file, sidecars,
                 reportVars, app, history>>

\* Mutant: a child that is not ready in time is left running.
StartLeavesChild(t) ==
  /\ pc[t] = "waiting"
  /\ pc' = [pc EXCEPT ![t] = "unwinding"]
  /\ file' = [file EXCEPT ![hold[t]] = "absent"]
  /\ UNCHANGED <<queueVars, recordVars, captureOn, job, clients, child, sidecars,
                 reportVars, app, history>>

\* The child exited or was not ready in three seconds: kill it, remove the file.
StartGivesUp(t) ==
  /\ pc[t] = "waiting"
  /\ pc' = [pc EXCEPT ![t] = "unwinding"]
  /\ child' = [child EXCEPT ![hold[t]] = IF @ \in Alive THEN "killed" ELSE @]
  /\ file' = [file EXCEPT ![hold[t]] = "absent"]
  /\ UNCHANGED <<queueVars, recordVars, captureOn, job, clients, sidecars,
                 reportVars, app, history>>

\* Mutant: the loss counter is read when the recording is published.
PublishLateBaseline(t) ==
  /\ pc[t] = "waiting" /\ child[hold[t]] = "recording"
  /\ slot' = hold[t]
  /\ meta' \in Remembered([taken[t] EXCEPT !.droppedAtStart = dropped])
  /\ phase' = "Recording"
  /\ TaskEnds(t)
  /\ UNCHANGED <<queueVars, captureOn, diskVars, reportVars, app, history>>

\* Process::ready found the file header: the last critical section of a
\* successful start, record_dump included.
Publish(t) ==
  /\ pc[t] = "waiting" /\ child[hold[t]] = "recording"
  /\ slot' = hold[t]
  /\ meta' \in Remembered(taken[t])
  /\ phase' = "Recording"
  /\ TaskEnds(t)
  /\ UNCHANGED <<queueVars, captureOn, diskVars, reportVars, app, history>>

\* Mutant: a failed start leaves the phase as it is.
UnwindKeepsPhase(t) ==
  /\ pc[t] = "unwinding"
  /\ told' = [told EXCEPT ![hold[t]] = "aborted"]
  /\ TaskEnds(t)
  /\ UNCHANGED <<queueVars, phase, slot, meta, captureOn, diskVars, unfiltered,
                 app, history>>

\* The last critical section after a failed start.
Unwind(t) ==
  /\ pc[t] = "unwinding"
  /\ phase' = "Idle"
  /\ told' = [told EXCEPT ![hold[t]] = "aborted"]
  /\ TaskEnds(t)
  /\ UNCHANGED <<queueVars, slot, meta, captureOn, diskVars, unfiltered, app,
                 history>>
-----------------------------------------------------------------------------
(* poll_loop and finish_dump                                                *)

\* track_dump and record_dump of one tick: a limit may be reached, and a
\* scoped recording may have had no live process for DUMP_IDLE_MS.
PollTick ==
  /\ Running /\ meta # NoMeta
  /\ \E gone \in BOOLEAN :
       meta' \in Remembered([meta EXCEPT !.idle = @ \/ (gone /\ meta.only)])
  /\ UNCHANGED <<queueVars, phase, slot, captureOn, pc, job, clients, diskVars,
                 reportVars, app, history>>

\* Mutant: a capture child that exited by itself is not noticed.
MustStopIgnoringChild == meta.limit \/ (meta.only /\ meta.idle)

\* What makes a recording stop by itself: Dump::poll_error, an exited group,
\* the metadata limit.
MustStop == \/ child[slot] \notin Alive
            \/ meta.only /\ meta.idle
            \/ meta.limit

\* Mutant: the recording is copied and stays where it is.
TakeCopies(t) ==
  /\ phase = "Recording"
  /\ hold' = [hold EXCEPT ![t] = slot]
  /\ \E m \in Remembered(meta) : taken' = [taken EXCEPT ![t] = m]
  /\ pc' = [pc EXCEPT ![t] = "stopping"]
  /\ UNCHANGED <<queueVars, recordVars, captureOn, ok, target, diskVars, reportVars, history>>

\* finish_dump, the first critical section: the task takes dump and meta.
TakeRecording(t) ==
  /\ phase = "Recording"
  /\ phase' = "Finishing"
  /\ hold' = [hold EXCEPT ![t] = slot]
  /\ \E m \in Remembered(meta) : taken' = [taken EXCEPT ![t] = m]
  /\ slot' = NoFile /\ meta' = NoMeta
  /\ pc' = [pc EXCEPT ![t] = "stopping"]
  /\ UNCHANGED <<queueVars, captureOn, ok, target, diskVars, reportVars, history>>

StopRequested(r) == /\ pc[r] = "asked_stop"
                    /\ TakeRecording(r)
                    /\ UNCHANGED <<clients, app>>

AutoStop == /\ pc[Poller] = "idle"
            /\ phase = "Recording" /\ MustStop
            /\ TakeRecording(Poller)
            /\ UNCHANGED <<clients, app>>

\* Process::stop up to its first await: a child that has exited tells how,
\* one that still runs gets SIGTERM.
StopChild(t) ==
  /\ pc[t] = "stopping"
  /\ IF child[hold[t]] \in Alive
     THEN /\ pc' = [pc EXCEPT ![t] = "terminating"]
          /\ UNCHANGED <<ok, mark>>
     ELSE /\ pc' = [pc EXCEPT ![t] = "stopped"]
          /\ ok' = [ok EXCEPT ![t] = @ /\ child[hold[t]] = "clean"]
          /\ mark' = accepted
  /\ UNCHANGED <<queueVars, recordVars, captureOn, hold, taken, target, clients,
                 diskVars, reportVars, app, scoped, lost>>

\* Process::stop, the five seconds' wait: the child exits or is killed.
ChildStopped(t) ==
  /\ pc[t] = "terminating"
  /\ child' = [child EXCEPT ![hold[t]] = IF @ \in Alive THEN "killed" ELSE @]
  /\ ok' = [ok EXCEPT ![t] = @ /\ child[hold[t]] = "clean"]
  /\ pc' = [pc EXCEPT ![t] = "stopped"]
  /\ mark' = accepted
  /\ UNCHANGED <<queueVars, recordVars, captureOn, hold, taken, target, clients,
                 file, sidecars, reportVars, app, scoped, lost>>

\* Mutant: the wait aims at what was processed already.
DrainNothing(t) ==
  /\ pc[t] = "stopped"
  /\ target' = [target EXCEPT ![t] = processed]
  /\ pc' = [pc EXCEPT ![t] = "draining"]
  /\ UNCHANGED <<queueVars, recordVars, captureOn, hold, taken, ok, clients,
                 diskVars, reportVars, app, history>>

\* wait_packet_accounting reads its target.
DrainBegin(t) ==
  /\ pc[t] = "stopped"
  /\ target' = [target EXCEPT ![t] = accepted]
  /\ pc' = [pc EXCEPT ![t] = "draining"]
  /\ UNCHANGED <<queueVars, recordVars, captureOn, hold, taken, ok, clients,
                 diskVars, reportVars, app, history>>

DrainDone(t) ==
  /\ pc[t] = "draining" /\ processed >= target[t]
  /\ pc' = [pc EXCEPT ![t] = "merging"]
  /\ UNCHANGED <<queueVars, recordVars, captureOn, job, clients, diskVars,
                 reportVars, app, history>>

\* Mutant: the wait has no deadline.
DrainNoDeadline(t) == pc[t] = "draining" /\ FALSE /\ UNCHANGED vars

\* Two seconds passed: "Packet accounting did not finish".
DrainTimeout(t) ==
  /\ pc[t] = "draining" /\ processed < target[t]
  /\ pc' = [pc EXCEPT ![t] = "merging"]
  /\ ok' = [ok EXCEPT ![t] = FALSE]
  /\ UNCHANGED <<queueVars, recordVars, captureOn, hold, taken, target, clients,
                 diskVars, reportVars, app, history>>

\* The connections seen until now go into the taken meta.
Merge(t) ==
  /\ pc[t] = "merging"
  /\ \E m \in Remembered(taken[t]) : taken' = [taken EXCEPT ![t] = m]
  /\ pc' = [pc EXCEPT ![t] = "tallying"]
  /\ UNCHANGED <<queueVars, recordVars, captureOn, hold, ok, target, clients,
                 diskVars, reportVars, app, history>>

\* The limit and the losses become errors; then dump_plan, and spawn_blocking
\* of process_dump_file.
Tally(t) ==
  /\ pc[t] = "tallying"
  /\ ok' = [ok EXCEPT ![t] = @ /\ ~taken[t].limit
                               /\ dropped <= taken[t].droppedAtStart]
  /\ pc' = [pc EXCEPT ![t] = "processing"]
  /\ UNCHANGED <<queueVars, recordVars, captureOn, hold, taken, target, clients,
                 diskVars, reportVars, app, history>>

\* What process_dump_file leaves behind.  The outcome is still the task's own;
\* its flag is kept in unfiltered, which means something once told is set.
Processed(t, rewritten, mapped) ==
  LET f == hold[t]
      only == taken[t].only
  IN /\ file' = [file EXCEPT ![f] = IF ~rewritten THEN @
                                    ELSE IF only THEN "filtered" ELSE "labeled"]
     /\ sidecars' = IF mapped THEN sidecars \cup {f} ELSE sidecars
     /\ ok' = [ok EXCEPT ![t] = @ /\ rewritten /\ mapped]
     /\ pc' = [pc EXCEPT ![t] = IF Running THEN "reporting" ELSE "gone"]
     /\ UNCHANGED <<queueVars, recordVars, captureOn, hold, taken, target, clients,
                    child, told, app, history>>

\* Mutant: an incomplete process-only dump is filtered all the same.
ProcessIncomplete(t, rewritten, mapped) ==
  /\ pc[t] = "processing"
  /\ unfiltered' = IF taken[t].only /\ ~rewritten THEN unfiltered \cup {hold[t]}
                                                   ELSE unfiltered
  /\ Processed(t, rewritten, mapped)

\* Mutant: the outcome says unfiltered only if the capture was complete.
ProcessSilently(t, rewritten, mapped) ==
  /\ pc[t] = "processing"
  /\ rewritten => ok[t] \/ ~taken[t].only
  /\ unfiltered' = IF taken[t].only /\ ok[t] /\ ~rewritten
                   THEN unfiltered \cup {hold[t]} ELSE unfiltered
  /\ Processed(t, rewritten, mapped)

\* process_dump_file on the blocking pool: a process-only dump is rewritten only
\* when the capture is complete.  A blocking job outlives the runtime's tasks:
\* the runtime waits for it when it is dropped.
ProcessFile(t, rewritten, mapped) ==
  /\ pc[t] = "processing"
  /\ rewritten => ok[t] \/ ~taken[t].only
  /\ unfiltered' = IF taken[t].only /\ ~rewritten THEN unfiltered \cup {hold[t]}
                                                   ELSE unfiltered
  /\ Processed(t, rewritten, mapped)

\* The last critical section of finish_dump; the caller gets the outcome.
Report(t) ==
  /\ pc[t] = "reporting"
  /\ told' = [told EXCEPT ![hold[t]] = IF ok[t] THEN "ok" ELSE "failed"]
  /\ phase' = "Idle"
  /\ TaskEnds(t)
  /\ app' = IF t = Main THEN "saving" ELSE app
  /\ UNCHANGED <<queueVars, slot, meta, captureOn, diskVars, unfiltered, history>>
-----------------------------------------------------------------------------
(* The end of the program                                                   *)

\* The window closed, Ctrl+C or SIGTERM: quit_rx receives.
Quit == /\ Serving
        /\ app' = "quitting"
        /\ UNCHANGED <<queueVars, recordVars, captureOn, pc, job, clients, diskVars,
                       reportVars, history>>

\* The page that waits for an answer goes away.  Its handler is dropped, the
\* task it spawned goes on.
ClientLeaves(r) ==
  /\ r \in clients
  /\ clients' = clients \ {r}
  /\ UNCHANGED <<queueVars, recordVars, captureOn, pc, job, diskVars, reportVars,
                 app, history>>

\* axum's graceful shutdown waits for the requests that are being answered.
ServeReturns ==
  /\ app = "quitting" /\ clients = {}
  /\ app' = "closed"
  /\ UNCHANGED <<queueVars, recordVars, captureOn, pc, job, clients, diskVars,
                 reportVars, history>>

\* shutdown reads the phase under the lock and lets the lock go.
ShutdownCheck ==
  /\ app = "closed"
  /\ app' = IF phase = "Recording" THEN "finishing" ELSE "saving"
  /\ UNCHANGED <<queueVars, recordVars, captureOn, pc, job, clients, diskVars,
                 reportVars, history>>

\* shutdown's finish_dump, which checks the phase again.
ShutdownFinish ==
  /\ app = "finishing" /\ pc[Main] = "idle"
  /\ UNCHANGED clients
  /\ \/ TakeRecording(Main) /\ UNCHANGED app
     \/ /\ phase # "Recording"
        /\ app' = "saving"
        /\ UNCHANGED <<queueVars, recordVars, captureOn, pc, job, diskVars,
                       reportVars, history>>

\* cache::save; capture_quit and the wait for capture_watch end live capture.
StopCapture ==
  /\ app = "saving"
  /\ app' = "leaving"
  /\ UNCHANGED <<queueVars, recordVars, captureOn, pc, job, clients, diskVars,
                 reportVars, history>>

\* main() returns and the runtime is dropped: every task ends at the await it
\* has reached, a blocking job runs on, and kill_on_drop ends the children.
RuntimeDropped ==
  /\ app = "leaving"
  /\ \A t \in Task : Active(t) => pc[t] \in AwaitPcs
  /\ app' = "dropped"
  /\ pc' = [t \in Task |-> IF pc[t] = "processing" THEN "processing" ELSE "gone"]
  /\ child' = [f \in File |-> IF child[f] \in Alive THEN "killed" ELSE child[f]]
  /\ UNCHANGED <<queueVars, recordVars, captureOn, job, clients, file, sidecars,
                 reportVars, history>>

Exit ==
  /\ app = "dropped" /\ \A t \in Task : pc[t] = "gone"
  /\ app' = "exited"
  /\ UNCHANGED <<queueVars, recordVars, captureOn, pc, job, clients, diskVars,
                 reportVars, history>>

Exited == app = "exited" /\ UNCHANGED vars
-----------------------------------------------------------------------------
StartStep(t) == \/ StartSpawn(t) \/ Publish(t) \/ StartGivesUp(t)
                \/ Unwind(t)

FinishStep(t) == \/ StopChild(t) \/ ChildStopped(t)
                 \/ DrainBegin(t) \/ DrainDone(t) \/ DrainTimeout(t)
                 \/ Merge(t) \/ Tally(t)
                 \/ \E rewritten, mapped \in BOOLEAN :
                      ProcessFile(t, rewritten, mapped)
                 \/ Report(t)

TaskStep(t) == StartStep(t) \/ FinishStep(t)

MainStep == \/ ServeReturns \/ ShutdownCheck \/ ShutdownFinish
            \/ StopCapture \/ RuntimeDropped \/ Exit

RequestStep(r) == \/ \E f \in File, only \in BOOLEAN : StartBegin(r, f, only)
                  \/ StopRequested(r) \/ Refuse(r)

Next == \/ Reading \/ LosePacket \/ ApplyBatch \/ LiveDies \/ CaptureWatch
        \/ PollTick \/ AutoStop
        \/ \E f \in File : ChildHeader(f) \/ ChildExits(f)
        \/ \E r \in Request : Ask(r) \/ RequestStep(r) \/ ClientLeaves(r)
        \/ \E t \in Task : TaskStep(t)
        \/ Quit \/ MainStep \/ Exited

Spec == Init /\ [][Next]_vars

\* The scheduler runs every task and the poll loop goes on ticking; nothing is
\* assumed of the user, of dumpcap, of the packets or of the pump.
Fairness == /\ \A t \in Task : WF_vars(TaskStep(t))
            /\ \A r \in Request : WF_vars(RequestStep(r))
            /\ WF_vars(AutoStop)
            /\ WF_vars(MainStep)

FairSpec == Spec /\ Fairness
-----------------------------------------------------------------------------
Holds(t, f) == Active(t) /\ hold[t] = f

(* A dumpcap that writes a dump always has exactly one owner that will stop  *)
(* it, the application or one task, through start, stop, stop by itself,     *)
(* shutdown and every failure between; none is ever left running unowned.    *)
EveryChildHasOneOwner ==
  \A f \in File : child[f] \in Alive =>
    /\ slot = f \/ \E t \in Task : Holds(t, f)
    /\ \A t \in Task : Holds(t, f) => slot # f
    /\ \A t, u \in Task : Holds(t, f) /\ Holds(u, f) => t = u

(* Two dumps are never captured at once, however starts, stops and failures  *)
(* of several requests overlap.                                              *)
OneCapture ==
  \A f, g \in File : child[f] \in Alive /\ child[g] \in Alive => f = g

(* A successful outcome is earned: packet tracking lost nothing that the     *)
(* recording could have seen, from before its capture started until the      *)
(* packets accepted when it stopped were processed, and the file was         *)
(* rewritten with a map beside it.                                           *)
OkMeansComplete ==
  \A f \in File : told[f] = "ok" =>
    /\ f \notin lost
    /\ f \in sidecars
    /\ file[f] = IF f \in scoped THEN "filtered" ELSE "labeled"

(* Packets are dropped from a process-only dump only when ownership data is  *)
(* complete, also when the rewriting ends after the program has left.        *)
FilteredMeansComplete ==
  \A f \in File : file[f] = "filtered" => f \in scoped /\ f \notin lost

(* A task that goes on without an error has waited for every packet that     *)
(* was accepted when its capture stopped: what is in flight came later.      *)
AcceptedBeforeMerge ==
  \A t \in Task :
    pc[t] \in FinishPcs \ (StopPcs \cup {"stopped", "draining"}) /\ ok[t]
      => batch + queue <= accepted + uncounted - mark

(* A process-only dump that was finished and still holds the traffic of the  *)
(* whole host is announced as unfiltered and failed; no other dump is.       *)
UnfilteredIsAnnounced ==
  \A f \in File : told[f] \in {"ok", "failed"} =>
    (f \in unfiltered <=> f \in scoped /\ file[f] = "raw")

\* What Recorder calls the state of a recording.
Unannounced(f) ==
  LET holders == {t \in Task : hold[t] = f}
  IN IF slot # f /\ holders = {} THEN "unused"
     ELSE IF ~Running THEN "abandoned"
     ELSE IF slot = f THEN "open"
     ELSE IF \E t \in holders : pc[t] \in StartPcs THEN "starting"
     ELSE "closing"

StatusOf(f) == IF told[f] = "ok" THEN "saved"
               ELSE IF told[f] = "failed" THEN "failed"
               ELSE IF told[f] = "aborted" THEN "discarded"
               ELSE Unannounced(f)

Abstract == INSTANCE Recorder WITH status <- [f \in File |-> StatusOf(f)],
                                   up <- Running
(* Recordings follow the abstract Recorder: one at a time, each through its  *)
(* states in order, each reported at most once and for good, whatever        *)
(* requests, failures and the end of the program interleave.                 *)
ImplementsRecorder == Abstract!RecorderSpec

(* Starting and finalizing always end, with a recording or an idle recorder, *)
(* unless the program leaves; a pump that hangs does not hold them up.       *)
OperationsEnd ==
  phase \in {"Starting", "Finishing"} ~> phase \in {"Idle", "Recording"} \/ ~Running

\* A recording that cannot go on.
Broken == IF phase = "Recording"
          THEN child[slot] \notin Alive \/ meta.idle \/ meta.limit
          ELSE FALSE

(* A recording that cannot go on, because its dumpcap died, its process      *)
(* group exited or a limit was reached, is finalized without being asked.    *)
BrokenRecordingEnds == Broken ~> phase = "Idle" \/ ~Running

(* Once told to quit, the program leaves.                                    *)
QuitLeads == app = "quitting" ~> app = "exited"

(* docs/usage.md: closing the window finalizes an unfinished dump.  A dump   *)
(* recorded while the window was there has the map of its connections when   *)
(* the program has exited, unless its finalization was reported as failed.   *)
ExitFinalizes ==
  \A f \in File :
    [](slot = f /\ Serving =>
         [](app = "exited" => f \in sidecars \/ told[f] = "failed"))

(* docs/usage.md: capture failures show an error instead of a successful     *)
(* save message.  A recording during which the program has seen packet       *)
(* capture fail is never announced as saved.                                 *)
CaptureFailureIsReported ==
  \A f \in File : [](slot = f /\ ~captureOn => [](told[f] # "ok"))
=============================================================================
