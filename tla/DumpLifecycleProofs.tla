------------------------- MODULE DumpLifecycleProofs -------------------------
(***************************************************************************)
(* For any number of requests, dumps and packets, and any queue: the state  *)
(* of the recording controls keeps its type, one task at a time works on a  *)
(* recording, every dumpcap that runs has exactly one owner, and what the   *)
(* outcome of a recording says of it is so.                                 *)
(***************************************************************************)
EXTENDS DumpLifecycle, TLAPS

(* The queue: its counters always account for every packet in the channel.  *)

\* The type invariant and Conservation are inductive together.
QueueInv == QueueTypeOK /\ Conservation

LEMMA QueueInitInv == QueueInit => QueueInv
  BY QueueAssumption DEF QueueInit, QueueInv, QueueTypeOK, Conservation

LEMMA QueueStepInv == QueueInv /\ [QueueNext]_queueVars => QueueInv'
<1> SUFFICES ASSUME QueueInv, [QueueNext]_queueVars PROVE QueueInv'
  OBVIOUS
<1> USE QueueAssumption DEF QueueInv, QueueTypeOK, Conservation, counters
<1>1. CASE SendQueued   BY <1>1 DEF SendQueued, MayOffer
<1>2. CASE SendCounted  BY <1>2 DEF SendCounted
<1>3. CASE SendFull     BY <1>3 DEF SendFull, MayOffer
<1>4. CASE ReaderEnds   BY <1>4 DEF ReaderEnds
<1>5. CASE PumpTake     BY <1>5 DEF PumpTake
<1>6. CASE PumpApply    BY <1>6 DEF PumpApply
<1>7. CASE PumpPanic    BY <1>7 DEF PumpPanic
<1>8. CASE UNCHANGED queueVars  BY <1>8 DEF queueVars
<1> QED
  BY <1>1, <1>2, <1>3, <1>4, <1>5, <1>6, <1>7, <1>8 DEF QueueNext

\* The counters never lose a packet of the channel nor count one twice
\* (capture.rs, PacketSender::send and the pump task of main.rs).
THEOREM QueueConservation == QueueSpec => []Conservation
<1>1. QueueInv => Conservation
  BY DEF QueueInv
<1> QED
  BY <1>1, QueueInitInv, QueueStepInv, PTL DEF QueueSpec
-----------------------------------------------------------------------------
(* The recording controls.                                                  *)

\* The task that starts or finishes a recording is alone, agrees with the
\* phase, and has the file and the meta of its recording.
Control ==
  /\ \A t, u \in Task : Active(t) /\ Active(u) => t = u
  /\ \A t \in Task : pc[t] \in StartPcs => phase = "Starting"
  /\ \A t \in Task : pc[t] \in FinishPcs => phase = "Finishing"
  /\ \A t \in Task : Active(t) => hold[t] \in File /\ taken[t] \in Meta
  /\ phase = "Recording" <=> slot \in File
  /\ phase = "Recording" <=> meta \in Meta
  /\ ~Running => \A t \in Task : pc[t] \in {"gone", "processing"}

LEMMA PcFacts ==
  /\ \A p \in StartPcs : p \in Pcs /\ p \notin FinishPcs
  /\ \A p \in FinishPcs : p \in Pcs
  /\ StopPcs \subseteq FinishPcs
  /\ AskedPcs \subseteq Pcs /\ \A p \in AskedPcs : p \notin StartPcs \cup FinishPcs
  BY DEF Pcs, StartPcs, FinishPcs, StopPcs, AskedPcs

\* Remembering connections changes nothing but the limit.
LEMMA RememberedMeta ==
  ASSUME NEW m \in Meta \cup {NoMeta}, NEW n \in Remembered(m)
  PROVE  /\ m = NoMeta => n = NoMeta
         /\ m \in Meta => /\ n \in Meta
                          /\ n.only = m.only
                          /\ n.droppedAtStart = m.droppedAtStart
<1>1. CASE m = NoMeta
  BY <1>1, LifecycleAssumption DEF Remembered, Meta
<1>2. CASE m \in Meta
  <2>1. m # NoMeta
    BY <1>2, LifecycleAssumption DEF Meta
  <2>2. [m EXCEPT !.limit = TRUE] \in Meta
    BY <1>2 DEF Meta
  <2>3. /\ [m EXCEPT !.limit = TRUE].only = m.only
        /\ [m EXCEPT !.limit = TRUE].droppedAtStart = m.droppedAtStart
    BY <1>2 DEF Meta
  <2> QED
    BY <2>1, <2>2, <2>3, <1>2 DEF Remembered
<1> QED
  BY <1>1, <1>2

\* The queue moves as in PacketQueue or not at all.
LEMMA QueueStep == [Next]_vars => [QueueNext]_queueVars
<1>1. ASSUME NEW t \in Task, TaskStep(t) PROVE UNCHANGED queueVars
  BY <1>1 DEF TaskStep, StartStep, StartSpawn, Publish, StartGivesUp, Unwind,
              FinishStep, StopChild, ChildStopped, DrainBegin, DrainDone, DrainTimeout,
              Merge, Tally, ProcessFile, Processed, Report
<1>2. ASSUME NEW r \in Request, Ask(r) \/ RequestStep(r) \/ ClientLeaves(r)
      PROVE  UNCHANGED queueVars
  BY <1>2 DEF Ask, RequestStep, StartBegin, StopRequested, TakeRecording, Refuse,
              ClientLeaves
<1>3. ASSUME NEW f \in File, ChildHeader(f) \/ ChildExits(f) PROVE UNCHANGED queueVars
  BY <1>3 DEF ChildHeader, ChildExits
<1>4. CASE CaptureWatch \/ PollTick \/ AutoStop \/ Quit \/ MainStep \/ Exited \/ UNCHANGED vars
  BY <1>4 DEF CaptureWatch, PollTick, AutoStop, TakeRecording, Quit, MainStep, ServeReturns,
              ShutdownCheck, ShutdownFinish, StopCapture, RuntimeDropped, Exit, Exited, vars
<1>5. CASE Reading \/ LosePacket \/ ApplyBatch \/ LiveDies
  BY <1>5 DEF Reading, LosePacket, ApplyBatch, LiveDies, QueueNext
<1> QED
  BY <1>1, <1>2, <1>3, <1>4, <1>5 DEF Next

-----------------------------------------------------------------------------
\* Every action keeps the type.
LEMMA TypeStep ==
  ASSUME TypeOK, Conservation, Control, [Next]_vars
  PROVE  (TypeOK /\ Conservation)'
<1>q. QueueTypeOK /\ (QueueTypeOK /\ Conservation)'
  BY QueueStep, QueueStepInv DEF TypeOK, QueueInv
<1>1. CASE Reading
  BY <1>1, <1>q DEF TypeOK, Reading, recordVars, job, diskVars, reportVars, history
<1>2. CASE LosePacket
  BY <1>2, <1>q DEF TypeOK, LosePacket, recordVars, job, diskVars, reportVars
<1>3. CASE ApplyBatch
  <2>1. meta' \in Meta \cup {NoMeta}
    BY <1>3, RememberedMeta DEF TypeOK, ApplyBatch
  <2> QED
    BY <1>3, <1>q, <2>1 DEF TypeOK, ApplyBatch, job, diskVars, reportVars
<1>4. CASE LiveDies
  BY <1>4, <1>q DEF TypeOK, LiveDies, recordVars, job, diskVars, reportVars, history
<1>5. CASE CaptureWatch
  BY <1>5, <1>q DEF TypeOK, CaptureWatch, recordVars, job, diskVars, reportVars, history
<1>6. CASE PollTick
  <2>1. meta \in Meta
    BY <1>6 DEF TypeOK, PollTick
  <2>2. PICK gone \in BOOLEAN :
          meta' \in Remembered([meta EXCEPT !.idle = @ \/ (gone /\ meta.only)])
    BY <1>6 DEF PollTick
  <2>3. [meta EXCEPT !.idle = @ \/ (gone /\ meta.only)] \in Meta
    BY <2>1 DEF Meta
  <2>4. meta' \in Meta \cup {NoMeta}
    BY <2>2, <2>3, RememberedMeta
  <2> QED
    BY <1>6, <1>q, <2>4 DEF TypeOK, PollTick, job, diskVars, reportVars, history
<1>7. ASSUME NEW f \in File, ChildHeader(f) PROVE TypeOK'
  BY <1>7, <1>q
  DEF TypeOK, ChildHeader, Alive, recordVars, job, reportVars, history
<1>8. ASSUME NEW f \in File, ChildExits(f) PROVE TypeOK'
  BY <1>8, <1>q
  DEF TypeOK, ChildExits, Dead, recordVars, job, reportVars, history
<1>9. ASSUME NEW r \in Request, Ask(r) PROVE TypeOK'
  BY <1>9, <1>q, PcFacts
  DEF TypeOK, Ask, Task, recordVars, job, diskVars, reportVars, history
<1>10. ASSUME NEW r \in Request, Refuse(r) PROVE TypeOK'
  BY <1>10, <1>q
  DEF TypeOK, Refuse, Task, Pcs, recordVars, job, diskVars, reportVars, history
<1>11. ASSUME NEW r \in Request, NEW f \in File, NEW only \in BOOLEAN, StartBegin(r, f, only)
       PROVE  TypeOK'
  <2>1. [only |-> only, limit |-> FALSE, idle |-> FALSE, droppedAtStart |-> dropped] \in Meta
    BY <1>q DEF Meta, QueueTypeOK
  <2> QED
    BY <1>11, <1>q, <2>1
    DEF TypeOK, StartBegin, Pcs, StartPcs, diskVars, reportVars
<1>12. ASSUME NEW t \in Task, StartSpawn(t) PROVE TypeOK'
  BY <1>12, <1>q
  DEF TypeOK, StartSpawn, Pcs, StartPcs, Alive, recordVars, job, reportVars, history
<1>13. ASSUME NEW t \in Task, StartGivesUp(t) PROVE TypeOK'
  BY <1>13, <1>q
  DEF TypeOK, StartGivesUp, Pcs, StartPcs, Dead, recordVars, job, reportVars, history
<1>14. ASSUME NEW t \in Task, Publish(t) PROVE TypeOK'
  <2>1. meta' \in Meta \cup {NoMeta}
    BY <1>14, RememberedMeta DEF TypeOK, Publish
  <2> QED
    BY <1>14, <1>q, <2>1
    DEF TypeOK, Publish, TaskEnds, Pcs, diskVars, reportVars, history
<1>15. ASSUME NEW t \in Task, Unwind(t) PROVE TypeOK'
  BY <1>15, <1>q
  DEF TypeOK, Unwind, TaskEnds, Pcs, diskVars, history
<1>16. ASSUME NEW t \in Task, TakeRecording(t), UNCHANGED clients, app' = app PROVE TypeOK'
  <2>1. PICK m \in Remembered(meta) : taken' = [taken EXCEPT ![t] = m]
    BY <1>16 DEF TakeRecording
  <2>2. m \in Meta \cup {NoMeta}
    BY RememberedMeta DEF TypeOK
  <2> QED
    BY <1>16, <1>q, <2>1, <2>2
    DEF TypeOK, TakeRecording, Pcs, FinishPcs, StopPcs, diskVars, reportVars, history
<1>17. ASSUME NEW t \in Task, StopChild(t) PROVE TypeOK'
  BY <1>17, <1>q
  DEF TypeOK, StopChild, Pcs, FinishPcs, StopPcs, QueueTypeOK, recordVars, diskVars, reportVars
<1>18. ASSUME NEW t \in Task, ChildStopped(t) PROVE TypeOK'
  BY <1>18, <1>q
  DEF TypeOK, ChildStopped, Dead, Pcs, FinishPcs, QueueTypeOK, recordVars, reportVars
<1>19. ASSUME NEW t \in Task, DrainBegin(t) PROVE TypeOK'
  BY <1>19, <1>q
  DEF TypeOK, DrainBegin, Pcs, FinishPcs, QueueTypeOK, recordVars, diskVars, reportVars, history
<1>20. ASSUME NEW t \in Task, DrainDone(t) \/ DrainTimeout(t) PROVE TypeOK'
  BY <1>20, <1>q
  DEF TypeOK, DrainDone, DrainTimeout, Pcs, FinishPcs, recordVars, job, diskVars, reportVars, history
<1>21. ASSUME NEW t \in Task, Merge(t) PROVE TypeOK'
  <2>1. PICK m \in Remembered(taken[t]) : taken' = [taken EXCEPT ![t] = m]
    BY <1>21 DEF Merge
  <2>2. m \in Meta \cup {NoMeta}
    BY RememberedMeta DEF TypeOK
  <2> QED
    BY <1>21, <1>q, <2>1, <2>2
    DEF TypeOK, Merge, Pcs, FinishPcs, recordVars, diskVars, reportVars, history
<1>22. ASSUME NEW t \in Task, Tally(t) PROVE TypeOK'
  BY <1>22, <1>q
  DEF TypeOK, Tally, Pcs, FinishPcs, recordVars, diskVars, reportVars, history
<1>23. ASSUME NEW t \in Task, NEW rewritten \in BOOLEAN, NEW mapped \in BOOLEAN,
              ProcessFile(t, rewritten, mapped)
       PROVE  TypeOK'
  <2>1. hold[t] \in File
    BY <1>23, PcFacts DEF Control, Active, ProcessFile, FinishPcs
  <2> QED
    BY <1>23, <1>q, <2>1
    DEF TypeOK, ProcessFile, Processed, Pcs, FinishPcs, recordVars, history
<1>24. ASSUME NEW t \in Task, Report(t) PROVE TypeOK'
  BY <1>24, <1>q
  DEF TypeOK, Report, TaskEnds, Pcs, diskVars, history
<1>25. ASSUME NEW r \in Request, ClientLeaves(r) PROVE TypeOK'
  BY <1>25, <1>q
  DEF TypeOK, ClientLeaves, recordVars, job, diskVars, reportVars, history
<1>26. CASE Quit \/ ServeReturns \/ ShutdownCheck \/ StopCapture \/ Exit
  BY <1>26, <1>q
  DEF TypeOK, Quit, ServeReturns, ShutdownCheck, StopCapture, Exit,
      recordVars, job, diskVars, reportVars, history
<1>27. CASE app' = "saving" /\ UNCHANGED <<queueVars, recordVars, captureOn, pc, job, clients,
                                           diskVars, reportVars, history>>
  BY <1>27, <1>q DEF TypeOK, recordVars, job, diskVars, reportVars, history
<1>28. CASE RuntimeDropped
  BY <1>28, <1>q
  DEF TypeOK, RuntimeDropped, Pcs, FinishPcs, Dead, recordVars, job, reportVars, history
<1>29. CASE UNCHANGED vars
  BY <1>29, <1>q
  DEF TypeOK, vars, recordVars, job, diskVars, reportVars, history
<1> QED
  BY <1>q, <1>1, <1>2, <1>3, <1>4, <1>5, <1>6, <1>7, <1>8, <1>9, <1>10, <1>11, <1>12, <1>13,
     <1>14, <1>15, <1>16, <1>17, <1>18, <1>19, <1>20, <1>21, <1>22, <1>23, <1>24, <1>25,
     <1>26, <1>27, <1>28, <1>29
  DEF Next, RequestStep, StopRequested, TaskStep, StartStep, FinishStep, AutoStop,
      MainStep, ShutdownFinish, Exited, Task
-----------------------------------------------------------------------------
\* A step inside a start or a finish that keeps the phase, the slot, the file
\* and the meta of its task, and only moves the task on.
LEMMA TaskMovesOn ==
  ASSUME TypeOK, Control, NEW t \in Task, Active(t), NEW p \in Pcs,
         pc' = [pc EXCEPT ![t] = p],
         pc[t] \in StartPcs => p \in StartPcs,
         pc[t] \in FinishPcs => p \in FinishPcs,
         UNCHANGED <<phase, slot, meta, hold, app>>,
         \A u \in Task : taken[u] \in Meta => taken'[u] \in Meta,
         Running
  PROVE  Control'
<1>1. \A u \in Task : /\ pc'[u] = IF u = t THEN p ELSE pc[u]
                      /\ Active(u)' => Active(u)
                      /\ pc'[u] \in StartPcs => pc[u] \in StartPcs
                      /\ pc'[u] \in FinishPcs => pc[u] \in FinishPcs
  BY PcFacts DEF TypeOK, Active
<1> QED
  BY <1>1 DEF Control, Running

\* The end of an operation: no task is active any more.
LEMMA TaskIsDone ==
  ASSUME TypeOK, Control, NEW t \in Task, Active(t), TaskEnds(t),
         phase' = "Recording" <=> slot' \in File,
         phase' = "Recording" <=> meta' \in Meta,
         Running'
  PROVE  Control'
<1>1. \A u \in Task : ~Active(u)'
  BY PcFacts DEF TypeOK, Active, TaskEnds, Control, StartPcs, FinishPcs, StopPcs
<1> QED
  BY <1>1 DEF Active, Control

\* Only the task's own steps and its start can make it active.
LEMMA ControlFrame ==
  ASSUME Control, UNCHANGED <<phase, slot, hold, taken>>,
         meta' \in Meta <=> meta \in Meta,
         \A t \in Task : pc'[t] = pc[t] \/ pc'[t] \notin StartPcs \cup FinishPcs,
         ~Running' => \A t \in Task : pc'[t] \in {"gone", "processing"}
  PROVE  Control'
  BY DEF Control, Active

LEMMA ActiveRuns ==
  ASSUME Control, NEW t \in Task, pc[t] \notin {"gone", "processing"}
  PROVE  Running
  BY DEF Control

\* Every action keeps Control.
LEMMA ControlStep ==
  ASSUME TypeOK, Control, [Next]_vars
  PROVE  Control'
<1>1. ASSUME UNCHANGED <<phase, slot, meta, pc, hold, taken, app>> PROVE Control'
  <2>1. ~Running' => \A t \in Task : pc'[t] \in {"gone", "processing"}
    BY <1>1 DEF Control, Running
  <2> QED
    BY <1>1, <2>1, ControlFrame
<1>2. CASE Reading \/ LosePacket \/ LiveDies \/ CaptureWatch \/ Exited \/ UNCHANGED vars
  BY <1>2, <1>1 DEF Reading, LosePacket, LiveDies, CaptureWatch, Exited, vars, recordVars, job
<1>3. CASE ApplyBatch
  <2>1. meta' \in Meta <=> meta \in Meta
    BY <1>3, RememberedMeta, LifecycleAssumption DEF ApplyBatch, TypeOK, Meta
  <2>2. UNCHANGED <<phase, slot, pc, hold, taken, app>>
    BY <1>3 DEF ApplyBatch, job
  <2>3. ~Running' => \A t \in Task : pc'[t] \in {"gone", "processing"}
    BY <2>2 DEF Control, Running
  <2> QED
    BY <2>1, <2>2, <2>3, ControlFrame
<1>4. CASE PollTick
  <2>1. meta \in Meta
    BY <1>4 DEF TypeOK, PollTick
  <2>2. PICK gone \in BOOLEAN :
          meta' \in Remembered([meta EXCEPT !.idle = @ \/ (gone /\ meta.only)])
    BY <1>4 DEF PollTick
  <2>3. [meta EXCEPT !.idle = @ \/ (gone /\ meta.only)] \in Meta
    BY <2>1 DEF Meta
  <2>4. meta' \in Meta
    BY <2>2, <2>3, RememberedMeta
  <2>5. UNCHANGED <<phase, slot, pc, hold, taken, app>>
    BY <1>4 DEF PollTick, job
  <2>6. ~Running' => \A t \in Task : pc'[t] \in {"gone", "processing"}
    BY <2>5 DEF Control, Running
  <2> QED
    BY <2>1, <2>4, <2>5, <2>6, ControlFrame
<1>5. ASSUME NEW f \in File, ChildHeader(f) \/ ChildExits(f) PROVE Control'
  BY <1>5, <1>1 DEF ChildHeader, ChildExits, recordVars, job
<1>6. ASSUME NEW r \in Request, Ask(r) \/ Refuse(r) PROVE Control'
  <2>1. r \in Task /\ pc[r] \in {"idle"} \cup AskedPcs /\ app' = app
    BY <1>6 DEF Ask, Refuse, Task, AskedPcs
  <2>2. Running
    BY <2>1, ActiveRuns DEF AskedPcs
  <2>3. pc' = [pc EXCEPT ![r] = pc'[r]] /\ pc'[r] \in {"idle"} \cup AskedPcs
    BY <1>6, <2>1 DEF Ask, Refuse, TypeOK
  <2>4. \A t \in Task : pc'[t] = pc[t] \/ pc'[t] \notin StartPcs \cup FinishPcs
    BY <2>3, PcFacts DEF TypeOK, StartPcs, FinishPcs, StopPcs
  <2>5. UNCHANGED <<phase, slot, meta, hold, taken, app>>
    BY <1>6 DEF Ask, Refuse, recordVars, job
  <2> QED
    BY <2>2, <2>4, <2>5, ControlFrame DEF Running
<1>7. ASSUME NEW r \in Request, ClientLeaves(r) PROVE Control'
  BY <1>7, <1>1 DEF ClientLeaves, recordVars, job
<1>8. ASSUME NEW r \in Request, NEW f \in File, NEW only \in BOOLEAN, StartBegin(r, f, only)
      PROVE  Control'
  <2> DEFINE m == [only |-> only, limit |-> FALSE, idle |-> FALSE,
                   droppedAtStart |-> dropped]
  <2>1. m \in Meta /\ r \in Task
    BY DEF Meta, Task, TypeOK, QueueTypeOK
  <2>2. \A t \in Task : ~Active(t)
    BY <1>8 DEF StartBegin, Control, Active
  <2>3. Running'
    BY <1>8, <2>1, ActiveRuns DEF StartBegin, Running
  <2>4. /\ pc' = [pc EXCEPT ![r] = "starting"] /\ hold' = [hold EXCEPT ![r] = f]
        /\ taken' = [taken EXCEPT ![r] = m]
        /\ phase' = "Starting" /\ phase = "Idle" /\ slot' = NoFile /\ meta' = meta
    BY <1>8 DEF StartBegin
  <2>5. \A t \in Task : /\ Active(t)' => t = r
                        /\ pc'[t] \notin FinishPcs
                        /\ t = r => hold'[t] = f /\ taken'[t] = m
    BY <2>1, <2>2, <2>4, PcFacts DEF TypeOK, Active, StartPcs
  <2> HIDE DEF m
  <2> QED
    BY <2>1, <2>3, <2>4, <2>5, LifecycleAssumption DEF Control
<1>9. ASSUME NEW t \in Task, StartSpawn(t) \/ StartGivesUp(t) PROVE Control'
  <2>1. Running /\ Active(t)
    BY <1>9, ActiveRuns DEF StartSpawn, StartGivesUp, Active, StartPcs
  <2>2. pc' = [pc EXCEPT ![t] = pc'[t]] /\ pc'[t] \in StartPcs /\ pc[t] \in StartPcs
    BY <1>9 DEF StartSpawn, StartGivesUp, StartPcs, TypeOK
  <2> QED
    BY <1>9, <2>1, <2>2, PcFacts, TaskMovesOn
    DEF StartSpawn, StartGivesUp, recordVars, job
<1>10. ASSUME NEW t \in Task, Publish(t) PROVE Control'
  <2>1. Running /\ Active(t)
    BY <1>10, ActiveRuns DEF Publish, Active, StartPcs
  <2>2. hold[t] \in File /\ meta' \in Meta
    BY <1>10, <2>1, RememberedMeta DEF Publish, Control
  <2> QED
    BY <1>10, <2>1, <2>2, TaskIsDone DEF Publish, Running
<1>11. ASSUME NEW t \in Task, Unwind(t) PROVE Control'
  <2>1. Running /\ Active(t)
    BY <1>11, ActiveRuns DEF Unwind, Active, StartPcs
  <2>2. TaskEnds(t) /\ phase' = "Idle" /\ slot' = slot /\ meta' = meta /\ app' = app
    BY <1>11 DEF Unwind
  <2>4. slot \notin File /\ meta \notin Meta
    BY <2>1 DEF Control, Active
  <2>3. Running'
    BY <2>1, <2>2 DEF Running
  <2> QED
    BY <2>1, <2>2, <2>3, <2>4, TaskIsDone
<1>12. ASSUME NEW t \in Task, TakeRecording(t), pc[t] \in {"idle"} \cup AskedPcs, app' = app
       PROVE  Control'
  <2>1. Running'
    BY <1>12, ActiveRuns DEF AskedPcs, Running
  <2>2. \A u \in Task : ~Active(u)
    BY <1>12 DEF TakeRecording, Control, Active
  <2>3. slot \in File /\ meta \in Meta
    BY <1>12 DEF TakeRecording, Control
  <2>4. PICK m \in Meta : taken' = [taken EXCEPT ![t] = m]
    BY <1>12, <2>3, RememberedMeta DEF TakeRecording
  <2>5. /\ pc' = [pc EXCEPT ![t] = "stopping"] /\ hold' = [hold EXCEPT ![t] = slot]
        /\ phase' = "Finishing" /\ slot' = NoFile /\ meta' = NoMeta
    BY <1>12 DEF TakeRecording
  <2>6. \A u \in Task : /\ Active(u)' => u = t
                        /\ pc'[u] \notin StartPcs
                        /\ u = t => hold'[u] \in File /\ taken'[u] \in Meta
    BY <2>2, <2>3, <2>4, <2>5, PcFacts DEF TypeOK, Active, FinishPcs, StopPcs
  <2> QED
    BY <2>1, <2>5, <2>6, LifecycleAssumption DEF Control, Meta
<1>13. ASSUME NEW t \in Task,
              \/ StopChild(t) \/ ChildStopped(t) \/ DrainBegin(t) \/ DrainDone(t)
              \/ DrainTimeout(t) \/ Tally(t)
       PROVE  Control'
  <2>1. /\ pc[t] \in FinishPcs \ {"processing"} /\ pc' = [pc EXCEPT ![t] = pc'[t]]
        /\ pc'[t] \in FinishPcs
        /\ UNCHANGED <<phase, slot, meta, hold, taken, app>>
    BY <1>13 DEF StopChild, ChildStopped, DrainBegin, DrainDone, DrainTimeout, Tally,
                 FinishPcs, StopPcs, TypeOK, recordVars, job
  <2>2. Running /\ Active(t)
    BY <2>1, ActiveRuns DEF Active, FinishPcs, StopPcs
  <2> QED
    BY <2>1, <2>2, PcFacts, TaskMovesOn
<1>14. ASSUME NEW t \in Task, Merge(t) PROVE Control'
  <2>1. Running /\ Active(t) /\ pc[t] \in FinishPcs /\ "tallying" \in FinishPcs
    BY <1>14, ActiveRuns DEF Merge, Active, FinishPcs
  <2>2. PICK m \in Remembered(taken[t]) : taken' = [taken EXCEPT ![t] = m]
    BY <1>14 DEF Merge
  <2>3. m \in Meta
    BY <2>1, RememberedMeta DEF Control
  <2>4. \A u \in Task : taken[u] \in Meta => taken'[u] \in Meta
    BY <2>2, <2>3 DEF TypeOK
  <2> QED
    BY <1>14, <2>1, <2>4, PcFacts, TaskMovesOn DEF Merge, recordVars
<1>15. ASSUME NEW t \in Task, NEW rewritten \in BOOLEAN, NEW mapped \in BOOLEAN,
              ProcessFile(t, rewritten, mapped)
       PROVE  Control'
  <2>1. Active(t) /\ pc[t] \in FinishPcs /\ "reporting" \in FinishPcs
    BY <1>15 DEF ProcessFile, Active, FinishPcs
  <2>2. UNCHANGED <<phase, slot, meta, hold, taken, app>>
    BY <1>15 DEF ProcessFile, Processed, recordVars
  <2>3. CASE Running
    BY <1>15, <2>1, <2>2, <2>3, PcFacts, TaskMovesOn DEF ProcessFile, Processed
  <2>4. CASE ~Running
    <3>1. pc' = [pc EXCEPT ![t] = "gone"]
      BY <1>15, <2>4 DEF ProcessFile, Processed
    <3>2. \A u \in Task : pc'[u] = pc[u] \/ pc'[u] \notin StartPcs \cup FinishPcs
      BY <3>1 DEF TypeOK, StartPcs, FinishPcs, StopPcs
    <3>3. \A u \in Task : pc'[u] \in {"gone", "processing"}
      BY <3>1, <2>4 DEF TypeOK, Control
    <3>4. UNCHANGED <<phase, slot, hold, taken>> /\ meta' = meta
      BY <2>2
    <3> QED
      BY <3>2, <3>3, <3>4, ControlFrame
  <2> QED
    BY <2>3, <2>4
<1>16. ASSUME NEW t \in Task, Report(t) PROVE Control'
  <2>1. Running /\ Active(t)
    BY <1>16, ActiveRuns DEF Report, Active, FinishPcs
  <2>2. TaskEnds(t) /\ phase' = "Idle" /\ slot' = slot /\ meta' = meta
    BY <1>16 DEF Report
  <2>4. slot \notin File /\ meta \notin Meta
    BY <2>1 DEF Control, Active
  <2>3. Running'
    BY <1>16, <2>1 DEF Running, Report
  <2> QED
    BY <2>1, <2>2, <2>3, <2>4, TaskIsDone
<1>17. CASE \/ Quit \/ ServeReturns \/ ShutdownCheck \/ StopCapture \/ Exit
            \/ app' = "saving" /\ UNCHANGED <<recordVars, pc, job>>
  <2>1. UNCHANGED <<phase, slot, meta, pc, hold, taken>>
    BY <1>17 DEF Quit, ServeReturns, ShutdownCheck, StopCapture, Exit, recordVars, job
  <2>2. ~Running' => ~Running
    BY <1>17 DEF Quit, ServeReturns, ShutdownCheck, StopCapture, Exit, Running, Serving
  <2>3. ~Running' => \A t \in Task : pc'[t] \in {"gone", "processing"}
    BY <2>1, <2>2 DEF Control
  <2>4. \A t \in Task : pc'[t] = pc[t] \/ pc'[t] \notin StartPcs \cup FinishPcs
    BY <2>1
  <2> QED
    BY <2>1, <2>3, <2>4, ControlFrame
<1>18. CASE RuntimeDropped
  <2>1. \A t \in Task : pc'[t] = IF pc[t] = "processing" THEN "processing" ELSE "gone"
    BY <1>18 DEF RuntimeDropped
  <2>2. UNCHANGED <<phase, slot, meta, hold, taken>>
    BY <1>18 DEF RuntimeDropped, recordVars, job
  <2>3. /\ \A t \in Task : pc'[t] = pc[t] \/ pc'[t] \notin StartPcs \cup FinishPcs
        /\ \A t \in Task : pc'[t] \in {"gone", "processing"}
    BY <2>1 DEF StartPcs, FinishPcs, StopPcs
  <2> QED
    BY <2>2, <2>3, ControlFrame
<1> QED
  BY <1>2, <1>3, <1>4, <1>5, <1>6, <1>7, <1>8, <1>9, <1>10, <1>11, <1>12, <1>13, <1>14,
     <1>15, <1>16, <1>17, <1>18
  DEF Next, RequestStep, StopRequested, TaskStep, StartStep, FinishStep, AutoStop,
      MainStep, ShutdownFinish, Task, AskedPcs
-----------------------------------------------------------------------------
Guardian(t, f) == pc[t] \in {"waiting"} \cup StopPcs /\ hold[t] = f

\* Who has a running child, while the program runs: the slot, the task that
\* waits for its file header, or the task that stops it.
Owned == \A f \in File : child[f] \in Alive =>
           Running /\ (slot = f \/ \E t \in Task : Guardian(t, f))

LEMMA GuardianIsActive ==
  ASSUME NEW t \in Task, NEW f \in File, Guardian(t, f)
  PROVE  Active(t)
  BY DEF Guardian, Active, StartPcs, FinishPcs

\* No child starts, and nobody lets go of one.
LEMMA OwnedFrame ==
  ASSUME Owned, slot' = slot, Running' = Running,
         \A f \in File : child'[f] \in Alive => child[f] \in Alive,
         \A t \in Task : pc[t] \in {"waiting"} \cup StopPcs => pc'[t] = pc[t] /\ hold'[t] = hold[t]
  PROVE  Owned'
<1> SUFFICES ASSUME NEW f \in File, child'[f] \in Alive
             PROVE  Running' /\ (slot' = f \/ \E t \in Task : Guardian(t, f)')
  BY DEF Owned
<1>1. Running /\ (slot = f \/ \E t \in Task : Guardian(t, f))
  BY DEF Owned
<1>2. ASSUME NEW t \in Task, Guardian(t, f) PROVE Guardian(t, f)'
  BY <1>2 DEF Guardian
<1> QED
  BY <1>1, <1>2

\* A task that had or gets a child works on it alone, so after its step every
\* child still running is its own, in the state the step left it in.
LEMMA OwnedByTask ==
  ASSUME TypeOK, Control, Owned, NEW t \in Task, Active(t), slot \notin File,
         NEW f \in File, child[f] \in Alive
  PROVE  Guardian(t, f)
<1>1. PICK u \in Task : Guardian(u, f)
  BY DEF Owned
<1>2. u = t
  BY <1>1, GuardianIsActive DEF Control
<1> QED
  BY <1>1, <1>2

LEMMA ActiveHasNoSlot ==
  ASSUME Control, NEW t \in Task, Active(t)
  PROVE  slot \notin File /\ meta \notin Meta
  BY DEF Control, Active

\* Every action keeps Owned.
LEMMA OwnedStep ==
  ASSUME TypeOK, Control, Owned, [Next]_vars
  PROVE  Owned'
<1>1. ASSUME UNCHANGED <<slot, pc, hold, app>>,
             \A f \in File : child'[f] \in Alive => child[f] \in Alive
      PROVE  Owned'
  BY <1>1, OwnedFrame DEF Running
<1>2. CASE Reading \/ LosePacket \/ ApplyBatch \/ LiveDies \/ CaptureWatch \/ PollTick \/ Exited
           \/ UNCHANGED vars
  BY <1>2, <1>1 DEF Reading, LosePacket, ApplyBatch, LiveDies, CaptureWatch, PollTick, Exited,
                    vars, recordVars, job, diskVars
<1>3. ASSUME NEW f \in File, ChildHeader(f) \/ ChildExits(f) PROVE Owned'
  <2>1. \A g \in File : child'[g] \in Alive => child[g] \in Alive
    BY <1>3 DEF TypeOK, ChildHeader, ChildExits, Alive, Dead
  <2> QED
    BY <1>3, <2>1, <1>1 DEF ChildHeader, ChildExits, recordVars, job
<1>4. ASSUME NEW r \in Request, Ask(r) \/ Refuse(r) PROVE Owned'
  <2>1. \A t \in Task : pc[t] \in {"waiting"} \cup StopPcs => pc'[t] = pc[t]
    BY <1>4 DEF TypeOK, Ask, Refuse, Task, StopPcs
  <2>2. UNCHANGED <<slot, hold, app, child>>
    BY <1>4 DEF Ask, Refuse, recordVars, job, diskVars
  <2> QED
    BY <2>1, <2>2, OwnedFrame DEF Running
<1>5. ASSUME NEW r \in Request, ClientLeaves(r) PROVE Owned'
  BY <1>5, <1>1 DEF ClientLeaves, recordVars, job, diskVars
<1>6. ASSUME NEW r \in Request, NEW g \in File, NEW only \in BOOLEAN, StartBegin(r, g, only)
      PROVE  Owned'
  <2>1. \A f \in File : child[f] \notin Alive
    <3>1. \A t \in Task : ~Active(t)
      BY <1>6 DEF StartBegin, Control, Active
    <3>2. slot \notin File
      BY <1>6 DEF StartBegin, Control
    <3> QED
      BY <3>1, <3>2, GuardianIsActive DEF Owned
  <2>2. child' = child
    BY <1>6 DEF StartBegin, diskVars
  <2> QED
    BY <2>1, <2>2 DEF Owned
<1>7. ASSUME NEW t \in Task, StartSpawn(t) PROVE Owned'
  <2>1. Active(t) /\ Running /\ hold[t] \in File
    BY <1>7, ActiveRuns DEF StartSpawn, Active, StartPcs, Control
  <2>2. \A f \in File : child[f] \notin Alive
    BY <1>7, <2>1, OwnedByTask, ActiveHasNoSlot DEF StartSpawn, Guardian, StopPcs
  <2>3. hold' = hold /\ app' = app
    BY <1>7 DEF StartSpawn, job
  <2>4. CASE child' = child
    BY <2>2, <2>4 DEF Owned
  <2>5. CASE pc' = [pc EXCEPT ![t] = "waiting"] /\ child' = [child EXCEPT ![hold[t]] = "spawned"]
    <3>1. Guardian(t, hold[t])'
      BY <2>3, <2>5 DEF TypeOK, Guardian
    <3>2. \A f \in File : child'[f] \in Alive => f = hold[t]
      BY <2>2, <2>5 DEF TypeOK
    <3> QED
      BY <2>1, <2>3, <3>1, <3>2 DEF Owned, Running
  <2> QED
    BY <1>7, <2>4, <2>5 DEF StartSpawn
<1>8. ASSUME NEW t \in Task, StartGivesUp(t) \/ ChildStopped(t) PROVE Owned'
  <2>1. Active(t)
    BY <1>8 DEF StartGivesUp, ChildStopped, Active, StartPcs, FinishPcs, StopPcs
  <2>2. \A f \in File : child[f] \in Alive => hold[t] = f
    BY <2>1, OwnedByTask, ActiveHasNoSlot DEF Guardian
  <2>3. child' = [child EXCEPT ![hold[t]] = IF @ \in Alive THEN "killed" ELSE @]
    BY <1>8 DEF StartGivesUp, ChildStopped
  <2>4. \A f \in File : child'[f] \notin Alive
    BY <2>2, <2>3 DEF TypeOK, Alive
  <2> QED
    BY <2>4 DEF Owned
<1>9. ASSUME NEW t \in Task, Publish(t) PROVE Owned'
  <2>1. Active(t) /\ Running
    BY <1>9, ActiveRuns DEF Publish, Active, StartPcs
  <2>2. \A f \in File : child[f] \in Alive => hold[t] = f
    BY <2>1, OwnedByTask, ActiveHasNoSlot DEF Guardian
  <2>3. slot' = hold[t] /\ child' = child /\ app' = app
    BY <1>9 DEF Publish, diskVars
  <2> QED
    BY <2>1, <2>2, <2>3 DEF Owned, Running
<1>10. ASSUME NEW t \in Task, TakeRecording(t), app' = app PROVE Owned'
  <2>1. \A u \in Task : ~Active(u)
    BY <1>10 DEF TakeRecording, Control, Active
  <2>2. \A f \in File : child[f] \in Alive => Running /\ slot = f
    BY <2>1, GuardianIsActive DEF Owned
  <2>3. pc' = [pc EXCEPT ![t] = "stopping"] /\ hold' = [hold EXCEPT ![t] = slot] /\ child' = child
    BY <1>10 DEF TakeRecording, diskVars
  <2>4. pc'[t] \in StopPcs /\ hold'[t] = slot
    BY <2>3 DEF TypeOK, StopPcs
  <2> QED
    BY <1>10, <2>2, <2>3, <2>4 DEF Owned, Running, Guardian
<1>11. ASSUME NEW t \in Task, StopChild(t) PROVE Owned'
  <2>1. Active(t) /\ Running
    BY <1>11, ActiveRuns DEF StopChild, Active, FinishPcs, StopPcs
  <2>2. \A f \in File : child[f] \in Alive => hold[t] = f
    BY <2>1, OwnedByTask, ActiveHasNoSlot DEF Guardian
  <2>3. UNCHANGED <<hold, child, app>>
    BY <1>11 DEF StopChild, diskVars
  <2>4. child[hold[t]] \in Alive => pc'[t] = "terminating"
    BY <1>11 DEF StopChild, TypeOK
  <2> QED
    BY <2>1, <2>2, <2>3, <2>4 DEF Owned, Guardian, Running, StopPcs
<1>12. ASSUME NEW t \in Task,
              \/ DrainBegin(t) \/ DrainDone(t) \/ DrainTimeout(t) \/ Merge(t) \/ Tally(t)
              \/ Unwind(t) \/ Report(t)
              \/ \E rewritten, mapped \in BOOLEAN : ProcessFile(t, rewritten, mapped)
       PROVE  Owned'
  <2>1. pc[t] \in FinishPcs \cup {"unwinding"} /\ pc[t] \notin {"waiting"} \cup StopPcs
    BY <1>12 DEF DrainBegin, DrainDone, DrainTimeout, Merge, Tally, Unwind, Report, ProcessFile,
                 FinishPcs, StopPcs
  <2>2. \A f \in File : child[f] \notin Alive
    BY <2>1, OwnedByTask, ActiveHasNoSlot DEF Guardian, Active, StartPcs
  <2>3. child' = child
    BY <1>12 DEF DrainBegin, DrainDone, DrainTimeout, Merge, Tally, Unwind, Report, ProcessFile,
                 Processed, diskVars
  <2> QED
    BY <2>2, <2>3 DEF Owned
<1>13. CASE \/ Quit \/ ServeReturns \/ ShutdownCheck \/ StopCapture \/ Exit
            \/ app \in {"finishing"} /\ app' = "saving" /\ UNCHANGED <<recordVars, pc, job, diskVars>>
  <2>1. UNCHANGED <<slot, pc, hold, child>> /\ Running' = Running
    BY <1>13 DEF Quit, ServeReturns, ShutdownCheck, StopCapture, Exit, recordVars, job, diskVars,
                 Running, Serving
  <2> QED
    BY <2>1, OwnedFrame
<1>14. CASE RuntimeDropped
  <2>1. \A f \in File : child'[f] \notin Alive
    BY <1>14 DEF RuntimeDropped, Alive
  <2> QED
    BY <2>1 DEF Owned
<1> QED
  BY <1>2, <1>3, <1>4, <1>5, <1>6, <1>7, <1>8, <1>9, <1>10, <1>11, <1>12, <1>13, <1>14
  DEF Next, RequestStep, StopRequested, TaskStep, StartStep, FinishStep, AutoStop,
      MainStep, ShutdownFinish, Task
-----------------------------------------------------------------------------
LifecycleInv == TypeOK /\ Conservation /\ Control /\ Owned

LEMMA LifecycleInit == Init => LifecycleInv
<1> SUFFICES ASSUME Init PROVE LifecycleInv
  OBVIOUS
<1>1. QueueTypeOK /\ Conservation
  BY QueueInitInv DEF Init, QueueInv
<1>2. TypeOK
  BY <1>1 DEF Init, TypeOK, Pcs
<1>3. Control
  BY LifecycleAssumption
  DEF Init, Control, Active, StartPcs, FinishPcs, StopPcs, Running, Meta
<1>4. Owned
  BY DEF Init, Owned, Alive
<1> QED
  BY <1>1, <1>2, <1>3, <1>4 DEF LifecycleInv

LEMMA LifecycleStep == LifecycleInv /\ [Next]_vars => LifecycleInv'
  BY TypeStep, ControlStep, OwnedStep DEF LifecycleInv

THEOREM LifecycleInvariant == Spec => []LifecycleInv
  BY LifecycleInit, LifecycleStep, PTL DEF Spec

\* The state of the recording controls always has its type.
THEOREM LifecycleTypeOK == Spec => []TypeOK
<1>1. LifecycleInv => TypeOK
  BY DEF LifecycleInv
<1> QED
  BY <1>1, LifecycleInvariant, PTL

\* However requests, the poll loop, shutdown and failures interleave, at most
\* one capture child runs (start_dump and finish_dump of main.rs).
THEOREM LifecycleOneCapture == Spec => []OneCapture
<1>1. LifecycleInv => OneCapture
  <2> SUFFICES ASSUME LifecycleInv, NEW f \in File, NEW g \in File,
                      child[f] \in Alive, child[g] \in Alive
               PROVE  f = g
    BY DEF OneCapture
  <2>1. CASE slot \in File
    BY <2>1, GuardianIsActive, ActiveHasNoSlot DEF LifecycleInv, Owned
  <2>2. CASE slot \notin File
    <3>1. PICK t \in Task : Guardian(t, f)
      BY <2>2 DEF LifecycleInv, Owned
    <3>2. Guardian(t, g)
      BY <2>2, <3>1, GuardianIsActive, OwnedByTask DEF LifecycleInv
    <3> QED
      BY <3>1, <3>2 DEF Guardian
  <2> QED
    BY <2>1, <2>2
<1> QED
  BY <1>1, LifecycleInvariant, PTL

\* Every capture child that runs has exactly one owner that will stop it.
THEOREM LifecycleOneOwner == Spec => []EveryChildHasOneOwner
<1>1. LifecycleInv => EveryChildHasOneOwner
  <2> SUFFICES ASSUME LifecycleInv, NEW f \in File, child[f] \in Alive
               PROVE  /\ slot = f \/ \E t \in Task : Holds(t, f)
                      /\ \A t \in Task : Holds(t, f) => slot # f
                      /\ \A t, u \in Task : Holds(t, f) /\ Holds(u, f) => t = u
    BY DEF EveryChildHasOneOwner
  <2>1. slot = f \/ \E t \in Task : Holds(t, f)
    BY GuardianIsActive DEF LifecycleInv, Owned, Holds, Guardian
  <2>2. \A t \in Task : Holds(t, f) => slot # f
    BY ActiveHasNoSlot DEF LifecycleInv, Holds
  <2>3. \A t, u \in Task : Holds(t, f) /\ Holds(u, f) => t = u
    BY DEF LifecycleInv, Control, Holds
  <2> QED
    BY <2>1, <2>2, <2>3
<1> QED
  BY <1>1, LifecycleInvariant, PTL
-----------------------------------------------------------------------------
(***************************************************************************)
(* What the outcome of a dump means: a dump announced as saved lost no      *)
(* packet and was rewritten with its map, packets are filtered out only     *)
(* with complete ownership data, and what stays unfiltered is announced as  *)
(* such.                                                                    *)
(***************************************************************************)

(***************************************************************************)
(* Accounting: the counters are read without a lock while the reader and    *)
(* the pump move on, and a task that goes on without an error has still     *)
(* waited for every packet accepted when its capture stopped.               *)
(***************************************************************************)
MergedPcs == FinishPcs \ (StopPcs \cup {"stopped", "draining"})

\* Why the wait suffices: its target is read after the capture has stopped.
Accounted ==
  /\ mark <= accepted
  /\ \A t \in Task : pc[t] = "draining" => mark <= target[t]
  /\ \A t \in Task : pc[t] \in MergedPcs /\ ok[t] => mark <= processed

\* Packets and counters only move forward.
LEMMA CountersGrow ==
  ASSUME TypeOK, [Next]_vars
  PROVE  accepted <= accepted' /\ processed <= processed'
<1>1. CASE UNCHANGED queueVars
  BY <1>1 DEF TypeOK, QueueTypeOK, queueVars
<1>2. CASE QueueNext
  BY <1>2 DEF TypeOK, QueueTypeOK, QueueNext, SendQueued, SendCounted, SendFull, ReaderEnds,
              PumpTake, PumpApply, PumpPanic, MayOffer, counters, QueueAssumption
<1> QED
  BY <1>1, <1>2, QueueStep

\* Nobody stops a capture, and no task enters the wait or leaves it.
LEMMA AccountedFrame ==
  ASSUME TypeOK, Accounted, TypeOK', accepted <= accepted', processed <= processed',
         mark' = mark,
         \A t \in Task : pc'[t] = "draining" => pc[t] = "draining" /\ target'[t] = target[t],
         \A t \in Task : pc'[t] \in MergedPcs /\ ok'[t] => pc[t] \in MergedPcs /\ ok[t]
  PROVE  Accounted'
<1>1. mark \in Nat /\ accepted \in Nat /\ processed \in Nat /\ accepted' \in Nat /\ processed' \in Nat
  BY DEF TypeOK, QueueTypeOK
<1>2. \A t \in Task : target[t] \in Nat
  BY DEF TypeOK
<1>3. mark' <= accepted'
  BY <1>1 DEF Accounted
<1>4. ASSUME NEW t \in Task, pc'[t] = "draining" PROVE mark' <= target'[t]
  BY <1>4 DEF Accounted
<1>5. ASSUME NEW t \in Task, pc'[t] \in MergedPcs, ok'[t] PROVE mark' <= processed'
  BY <1>1, <1>5 DEF Accounted
<1> QED
  BY <1>3, <1>4, <1>5 DEF Accounted

\* Every action keeps Accounted.
LEMMA AccountedStep ==
  ASSUME LifecycleInv, LifecycleInv', Accounted, [Next]_vars
  PROVE  Accounted'
<1>t. TypeOK /\ TypeOK' /\ Control
  BY DEF LifecycleInv
<1>c. accepted <= accepted' /\ processed <= processed'
  BY <1>t, CountersGrow
<1>n. mark \in Nat /\ accepted \in Nat /\ processed \in Nat /\ accepted' \in Nat /\ processed' \in Nat
  BY <1>t DEF TypeOK, QueueTypeOK
<1>0. ASSUME UNCHANGED <<pc, ok, target, mark>> PROVE Accounted'
  BY <1>0, <1>t, <1>c, AccountedFrame
<1>1. CASE \/ Reading \/ LosePacket \/ ApplyBatch \/ LiveDies \/ CaptureWatch \/ PollTick
           \/ Exited \/ UNCHANGED vars
  BY <1>1, <1>0 DEF Reading, LosePacket, ApplyBatch, LiveDies, CaptureWatch, PollTick, Exited,
                    vars, job, history
<1>2. ASSUME NEW f \in File, ChildHeader(f) \/ ChildExits(f) PROVE Accounted'
  BY <1>2, <1>0 DEF ChildHeader, ChildExits, job, history
<1>3. ASSUME NEW r \in Request, ClientLeaves(r) PROVE Accounted'
  BY <1>3, <1>0 DEF ClientLeaves, job, history
<1>4. CASE \/ Quit \/ ServeReturns \/ ShutdownCheck \/ StopCapture \/ Exit
           \/ app' = "saving" /\ UNCHANGED <<pc, job, history>>
  BY <1>4, <1>0 DEF Quit, ServeReturns, ShutdownCheck, StopCapture, Exit, job, history
<1>5. ASSUME NEW t \in Task, pc' = [pc EXCEPT ![t] = pc'[t]],
             pc'[t] \notin {"draining"} \cup MergedPcs,
             \A u \in Task \ {t} : ok'[u] = ok[u] /\ target'[u] = target[u],
             mark' = mark
      PROVE  Accounted'
  <2>1. \A u \in Task : pc'[u] = "draining" => pc[u] = "draining" /\ target'[u] = target[u]
    BY <1>5, <1>t DEF TypeOK
  <2>2. \A u \in Task : pc'[u] \in MergedPcs /\ ok'[u] => pc[u] \in MergedPcs /\ ok[u]
    BY <1>5, <1>t DEF TypeOK
  <2> QED
    BY <1>5, <1>t, <1>c, <2>1, <2>2, AccountedFrame
<1>6. ASSUME NEW r \in Request, Ask(r) \/ Refuse(r) PROVE Accounted'
  <2>1. pc' = [pc EXCEPT ![r] = pc'[r]] /\ pc'[r] \in {"idle"} \cup AskedPcs /\ r \in Task
    BY <1>6, <1>t DEF Ask, Refuse, TypeOK, Task
  <2> QED
    BY <1>6, <1>5, <2>1 DEF Ask, Refuse, job, history, MergedPcs, FinishPcs, StopPcs, AskedPcs
<1>7. ASSUME NEW r \in Request, NEW f \in File, NEW only \in BOOLEAN, StartBegin(r, f, only)
      PROVE  Accounted'
  <2>1. pc' = [pc EXCEPT ![r] = pc'[r]] /\ pc'[r] = "starting" /\ r \in Task
    BY <1>7, <1>t DEF StartBegin, TypeOK, Task
  <2> QED
    BY <1>7, <1>5, <2>1 DEF StartBegin, MergedPcs, FinishPcs, StopPcs
<1>8. ASSUME NEW t \in Task, StartSpawn(t) \/ StartGivesUp(t) PROVE Accounted'
  <2>1. pc' = [pc EXCEPT ![t] = pc'[t]] /\ pc'[t] \in StartPcs
    BY <1>8, <1>t DEF StartSpawn, StartGivesUp, TypeOK, StartPcs
  <2> QED
    BY <1>8, <1>5, <2>1
    DEF StartSpawn, StartGivesUp, job, history, MergedPcs, FinishPcs, StopPcs, StartPcs
<1>9. ASSUME NEW t \in Task, Publish(t) \/ Unwind(t) \/ Report(t) PROVE Accounted'
  <2>1. TaskEnds(t) /\ mark' = mark
    BY <1>9 DEF Publish, Unwind, Report, history
  <2>2. pc' = [pc EXCEPT ![t] = pc'[t]] /\ pc'[t] = "idle"
    BY <2>1, <1>t DEF TaskEnds, TypeOK
  <2>3. \A u \in Task \ {t} : ok'[u] = ok[u] /\ target'[u] = target[u]
    BY <2>1, <1>t DEF TaskEnds, TypeOK
  <2> QED
    BY <1>5, <2>1, <2>2, <2>3 DEF MergedPcs, FinishPcs, StopPcs
<1>10. ASSUME NEW t \in Task, TakeRecording(t) PROVE Accounted'
  <2>1. pc' = [pc EXCEPT ![t] = pc'[t]] /\ pc'[t] = "stopping"
    BY <1>10, <1>t DEF TakeRecording, TypeOK
  <2> QED
    BY <1>10, <1>5, <2>1 DEF TakeRecording, history, MergedPcs, StopPcs
<1>11. ASSUME NEW t \in Task, StopChild(t) \/ ChildStopped(t) PROVE Accounted'
  <2>1. /\ pc[t] \in StopPcs /\ pc' = [pc EXCEPT ![t] = pc'[t]]
        /\ pc'[t] \in {"terminating", "stopped"}
        /\ mark' \in {mark, accepted} /\ accepted' = accepted
    BY <1>11, <1>t DEF StopChild, ChildStopped, StopPcs, TypeOK, queueVars
  <2>2. \A u \in Task : pc'[u] \notin {"draining"} \cup MergedPcs
    BY <2>1, <1>t DEF Control, Active, TypeOK, MergedPcs, FinishPcs, StopPcs
  <2>3. mark' <= accepted'
    BY <2>1, <1>n DEF Accounted
  <2> QED
    BY <2>2, <2>3 DEF Accounted
<1>12. ASSUME NEW t \in Task, DrainBegin(t) PROVE Accounted'
  <2>1. /\ pc' = [pc EXCEPT ![t] = "draining"] /\ target' = [target EXCEPT ![t] = accepted]
        /\ mark' = mark /\ ok' = ok
    BY <1>12 DEF DrainBegin, history
  <2>2. \A u \in Task : pc'[u] = "draining" => mark' <= target'[u]
    BY <2>1, <1>t DEF TypeOK, Accounted
  <2>3. \A u \in Task : pc'[u] \in MergedPcs => pc[u] \in MergedPcs
    BY <2>1, <1>t DEF TypeOK, MergedPcs
  <2>4. \A u \in Task : pc'[u] \in MergedPcs /\ ok'[u] => mark' <= processed'
    BY <2>1, <2>3, <1>n, <1>c DEF Accounted
  <2>5. mark' <= accepted'
    BY <2>1, <1>n, <1>c DEF Accounted
  <2> QED
    BY <2>2, <2>4, <2>5 DEF Accounted
<1>13. ASSUME NEW t \in Task, DrainDone(t) \/ DrainTimeout(t) PROVE Accounted'
  <2>1. /\ pc[t] = "draining" /\ pc' = [pc EXCEPT ![t] = "merging"]
        /\ target[t] <= processed \/ ok' = [ok EXCEPT ![t] = FALSE]
        /\ \A u \in Task \ {t} : ok'[u] = ok[u]
        /\ UNCHANGED <<target, mark>>
    BY <1>13, <1>t DEF DrainDone, DrainTimeout, job, history, TypeOK, QueueTypeOK
  <2>2. target[t] \in Nat /\ mark <= target[t]
    BY <2>1, <1>t DEF TypeOK, Accounted
  <2>3. ok'[t] => mark <= processed'
    BY <2>1, <2>2, <1>t, <1>n, <1>c DEF TypeOK
  <2>4. \A u \in Task : pc'[u] \in MergedPcs /\ ok'[u] => mark' <= processed'
    BY <2>1, <2>3, <1>t, <1>n, <1>c DEF TypeOK, Accounted
  <2>5. \A u \in Task : pc'[u] = "draining" => mark' <= target'[u]
    BY <2>1, <1>t DEF TypeOK, Accounted
  <2>6. mark' <= accepted'
    BY <2>1, <1>n, <1>c DEF Accounted
  <2> QED
    BY <2>4, <2>5, <2>6 DEF Accounted
<1>14. ASSUME NEW t \in Task,
              Merge(t) \/ Tally(t) \/ \E rewritten, mapped \in BOOLEAN :
                                        ProcessFile(t, rewritten, mapped)
       PROVE  Accounted'
  <2>1. /\ pc[t] \in MergedPcs /\ pc' = [pc EXCEPT ![t] = pc'[t]] /\ pc'[t] # "draining"
        /\ \A u \in Task : ok'[u] => ok[u]
        /\ UNCHANGED <<target, mark>>
    BY <1>14, <1>t DEF Merge, Tally, ProcessFile, Processed, history, TypeOK, MergedPcs, FinishPcs,
                       StopPcs
  <2>2. \A u \in Task : pc'[u] = "draining" => pc[u] = "draining" /\ target'[u] = target[u]
    BY <2>1, <1>t DEF TypeOK
  <2>3. \A u \in Task : pc'[u] \in MergedPcs /\ ok'[u] => pc[u] \in MergedPcs /\ ok[u]
    BY <2>1, <1>t DEF TypeOK
  <2> QED
    BY <2>1, <2>2, <2>3, <1>t, <1>c, AccountedFrame
<1>15. CASE RuntimeDropped
  <2>1. \A t \in Task : pc'[t] = IF pc[t] = "processing" THEN "processing" ELSE "gone"
    BY <1>15 DEF RuntimeDropped
  <2>2. UNCHANGED <<ok, target, mark>>
    BY <1>15 DEF RuntimeDropped, job, history
  <2>3. "gone" \notin MergedPcs
    BY DEF MergedPcs, FinishPcs, StopPcs
  <2> QED
    BY <2>1, <2>2, <2>3, <1>t, <1>c, AccountedFrame
<1> QED
  BY <1>1, <1>2, <1>3, <1>4, <1>6, <1>7, <1>8, <1>9, <1>10, <1>11, <1>12, <1>13, <1>14, <1>15
  DEF Next, RequestStep, StopRequested, TaskStep, StartStep, FinishStep, AutoStop,
      MainStep, ShutdownFinish, Task
-----------------------------------------------------------------------------
LEMMA AccountedInit == Init => Accounted
  BY DEF Init, QueueInit, Accounted, MergedPcs, FinishPcs, StopPcs

THEOREM AccountedInvariant == Spec => []Accounted
<1>1. LifecycleInv /\ LifecycleInv' /\ Accounted /\ [Next]_vars => Accounted'
  BY AccountedStep
<1> QED
  BY <1>1, AccountedInit, LifecycleInvariant, PTL DEF Spec

\* A dump goes on without an error only when every packet accepted by the time
\* its capture stopped is processed: no packet of the recording is in flight
\* (wait_packet_accounting and finish_dump of main.rs).
THEOREM LifecycleAccounting == Spec => []AcceptedBeforeMerge
<1>1. LifecycleInv /\ Accounted => AcceptedBeforeMerge
  <2> SUFFICES ASSUME LifecycleInv, Accounted, NEW t \in Task, pc[t] \in MergedPcs, ok[t]
               PROVE  batch + queue <= accepted + uncounted - mark
    BY DEF AcceptedBeforeMerge, MergedPcs
  <2>1. /\ mark \in Nat /\ accepted \in Nat /\ processed \in Nat
        /\ batch \in Nat /\ queue \in Nat /\ uncounted \in Nat
    BY QueueAssumption DEF LifecycleInv, TypeOK, QueueTypeOK
  <2>2. accepted + uncounted = processed + batch + queue
    BY DEF LifecycleInv, Conservation
  <2>3. mark <= processed
    BY DEF Accounted
  <2> QED
    BY <2>1, <2>2, <2>3
<1> QED
  BY <1>1, AccountedInvariant, LifecycleInvariant, PTL
-----------------------------------------------------------------------------
(* What the outcome means.                                                  *)

\* The meta of a recording: the loss counter only passes its value at the
\* start when something was lost since.
Describes(m, f) == /\ m.droppedAtStart <= dropped
                   /\ f \in lost => m.droppedAtStart < dropped
                   /\ m.only <=> f \in scoped
                   /\ told[f] = "none"

\* The file as dumpcap wrote it.
Raw(f) == child[f] # "none" /\ file[f] = "raw" /\ f \notin unfiltered

\* A file whose dumpcap was never spawned.
Fresh(f) == /\ f \notin lost /\ f \notin unfiltered /\ file[f] = "absent"
            /\ f \in scoped => \/ told[f] # "none"
                               \/ \E t \in Task : pc[t] \in {"starting", "unwinding"} /\ hold[t] = f

Complete(f) == /\ f \in sidecars
               /\ file[f] = IF f \in scoped THEN "filtered" ELSE "labeled"

Flagged(f) == f \in unfiltered <=> f \in scoped /\ file[f] = "raw"

StepFacts(t) ==
  /\ Active(t) => Describes(taken[t], hold[t])
  /\ pc[t] = "starting" => child[hold[t]] = "none"
  /\ pc[t] = "waiting" => /\ child[hold[t]] # "none" /\ hold[t] \notin unfiltered
                          /\ file[hold[t]] \in {"absent", "raw"}
  /\ pc[t] \in FinishPcs \ {"reporting"} => Raw(hold[t])
  /\ pc[t] \in {"processing", "reporting"} /\ ok[t] => hold[t] \notin lost
  /\ pc[t] = "reporting" => /\ child[hold[t]] # "none" /\ Flagged(hold[t])
                            /\ ok[t] => Complete(hold[t])
                            /\ file[hold[t]] = "filtered" => mark <= processed

FileFacts(f) ==
  /\ child[f] = "none" => Fresh(f)
  /\ child[f] = "recording" => file[f] = "raw"
  /\ slot = f => Describes(meta, f) /\ Raw(f)
  /\ file[f] = "filtered" => f \in scoped /\ f \notin lost
  /\ told[f] \in {"ok", "failed"} => Flagged(f) /\ child[f] # "none"
  /\ told[f] = "ok" => Complete(f) /\ f \notin lost

OutcomeInv == /\ \A t \in Task : StepFacts(t)
              /\ \A f \in File : FileFacts(f)
-----------------------------------------------------------------------------
\* Frames.

SameFile(f) == /\ child'[f] = child[f] /\ file'[f] = file[f] /\ told'[f] = told[f]
               /\ f \in lost' <=> f \in lost
               /\ f \in scoped' <=> f \in scoped
               /\ f \in unfiltered' <=> f \in unfiltered
               /\ f \in sidecars' <=> f \in sidecars

SameMeta(m, n) == n.only = m.only /\ n.droppedAtStart = m.droppedAtStart

Opening(f) == \E t \in Task : pc[t] \in {"starting", "unwinding"} /\ hold[t] = f

LEMMA DroppedGrows ==
  ASSUME TypeOK, [Next]_vars
  PROVE  dropped \in Nat /\ dropped' \in Nat /\ dropped <= dropped'
<1>0. QueueTypeOK
  BY DEF TypeOK
<1>1. CASE UNCHANGED queueVars
  BY <1>0, <1>1 DEF QueueTypeOK, queueVars
<1>2. CASE QueueNext
  BY <1>0, <1>2 DEF QueueTypeOK, QueueNext, SendQueued, SendCounted, SendFull, ReaderEnds,
              PumpTake, PumpApply, PumpPanic, MayOffer, counters, QueueAssumption
<1> QED
  BY <1>1, <1>2, QueueStep

LEMMA DescribesFrame ==
  ASSUME dropped \in Nat, dropped' \in Nat, dropped <= dropped', NEW f \in File, SameFile(f),
         NEW m \in Meta, NEW n \in Meta, SameMeta(m, n), Describes(m, f)
  PROVE  /\ n.droppedAtStart <= dropped'
         /\ f \in lost' => n.droppedAtStart < dropped'
         /\ n.only <=> f \in scoped'
         /\ told'[f] = "none"
<1>1. m.droppedAtStart \in Nat
  BY DEF Meta
<1> QED
  BY <1>1 DEF Describes, SameFile, SameMeta

LEMMA FileFrame ==
  ASSUME dropped \in Nat, dropped' \in Nat, dropped <= dropped', NEW f \in File, SameFile(f),
         FileFacts(f), Opening(f) => Opening(f)',
         slot' = f => slot = f /\ meta \in Meta /\ meta' \in Meta /\ SameMeta(meta, meta')
  PROVE  FileFacts(f)'
<1>1. slot' = f => Describes(meta, f)'
  BY DescribesFrame DEF FileFacts, Describes
<1>2. /\ Raw(f) <=> Raw(f)'
      /\ Complete(f) <=> Complete(f)'
      /\ Flagged(f) <=> Flagged(f)'
      /\ Fresh(f) => Fresh(f)'
  BY DEF SameFile, Raw, Complete, Flagged, Fresh, Opening
<1> QED
  BY <1>1, <1>2 DEF FileFacts, SameFile

LEMMA StepFrame ==
  ASSUME dropped \in Nat, dropped' \in Nat, dropped <= dropped',
         mark \in Nat, processed \in Nat, processed' \in Nat,
         mark' = mark, processed <= processed',
         NEW t \in Task, StepFacts(t), pc'[t] = pc[t], hold'[t] = hold[t], ok'[t] = ok[t],
         Active(t) => /\ hold[t] \in File /\ SameFile(hold[t])
                      /\ taken[t] \in Meta /\ taken'[t] \in Meta /\ SameMeta(taken[t], taken'[t])
  PROVE  StepFacts(t)'
<1>1. CASE ~Active(t)
  <2>1. pc'[t] \notin StartPcs \cup FinishPcs
    BY <1>1 DEF Active
  <2> QED
    BY <2>1 DEF StepFacts, Active, StartPcs, FinishPcs, StopPcs
<1>2. CASE Active(t)
  <2>1. SameFile(hold[t]) /\ hold[t] \in File
    BY <1>2
  <2>2. Describes(taken[t], hold[t])'
    BY <1>2, DescribesFrame DEF StepFacts, Describes
  <2>3. /\ Raw(hold[t]) <=> Raw(hold[t])'
        /\ Complete(hold[t]) <=> Complete(hold[t])'
        /\ Flagged(hold[t]) <=> Flagged(hold[t])'
    BY <2>1 DEF SameFile, Raw, Complete, Flagged
  <2> QED
    BY <2>1, <2>2, <2>3 DEF StepFacts, SameFile
<1> QED
  BY <1>1, <1>2

LEMMA InactiveFacts ==
  ASSUME NEW t \in Task, pc'[t] \notin StartPcs \cup FinishPcs
  PROVE  StepFacts(t)'
  BY DEF StepFacts, Active, StartPcs, FinishPcs, StopPcs

LEMMA OthersIdle ==
  ASSUME TypeOK, Control, NEW t \in Task, Active(t) \/ \A u \in Task : ~Active(u),
         pc' = [pc EXCEPT ![t] = pc'[t]]
  PROVE  \A u \in Task \ {t} : StepFacts(u)'
<1> SUFFICES ASSUME NEW u \in Task \ {t} PROVE StepFacts(u)'
  OBVIOUS
<1>1. ~Active(u) /\ pc'[u] = pc[u]
  BY DEF Control, TypeOK
<1> QED
  BY <1>1, InactiveFacts DEF Active

LEMMA OtherFiles ==
  ASSUME TypeOK, Control, OutcomeInv, dropped \in Nat, dropped' \in Nat, dropped <= dropped',
         NEW t \in Task, NEW h \in File,
         (Active(t) /\ hold[t] = h) \/ \A u \in Task : ~Active(u),
         slot' \notin File \ {h},
         \A f \in File \ {h} : SameFile(f)
  PROVE  \A f \in File \ {h} : FileFacts(f)'
<1> SUFFICES ASSUME NEW f \in File \ {h} PROVE FileFacts(f)'
  OBVIOUS
<1>1. ~Opening(f)
  BY DEF Opening, Control, Active, StartPcs
<1>2. FileFacts(f) /\ slot' # f
  BY DEF OutcomeInv
<1> QED
  BY <1>1, <1>2, FileFrame

\* One task works on the file h: its step is all there is to look at.
LEMMA OneTask ==
  ASSUME TypeOK, Control, OutcomeInv, dropped \in Nat, dropped' \in Nat, dropped <= dropped',
         NEW t \in Task, NEW h \in File,
         (Active(t) /\ hold[t] = h) \/ \A u \in Task : ~Active(u),
         pc' = [pc EXCEPT ![t] = pc'[t]],
         slot' \notin File \ {h},
         \A f \in File \ {h} : SameFile(f),
         StepFacts(t)', FileFacts(h)'
  PROVE  OutcomeInv'
<1>1. \A u \in Task \ {t} : StepFacts(u)'
  BY OthersIdle
<1>2. \A f \in File \ {h} : FileFacts(f)'
  BY OtherFiles
<1> QED
  BY <1>1, <1>2 DEF OutcomeInv

\* A recording that a loss counts against has a child, is not announced yet
\* and not filtered, and no task has found it complete.
LEMMA UntrackedFacts ==
  ASSUME LifecycleInv, Accounted, OutcomeInv, NEW f \in File, Untracked(f)
  PROVE  /\ child[f] # "none" /\ told[f] = "none" /\ file[f] # "filtered"
         /\ \A t \in Task : pc[t] \in {"processing", "reporting"} /\ ok[t] => hold[t] # f
<1>1. CASE child[f] \in Alive /\ slot = f
  <2>1. FileFacts(f) /\ slot = f
    BY <1>1 DEF OutcomeInv
  <2>2. \A t \in Task : ~Active(t)
    BY <1>1, ActiveHasNoSlot DEF LifecycleInv
  <2> QED
    BY <2>1, <2>2 DEF FileFacts, Describes, Raw, Active, FinishPcs
<1>2. CASE child[f] \in Alive /\ slot # f
  <2>1. PICK t \in Task : Guardian(t, f)
    BY <1>2 DEF LifecycleInv, Owned
  <2>2. Active(t) /\ StepFacts(t) /\ hold[t] = f /\ pc[t] \in {"waiting"} \cup StopPcs
    BY <2>1, GuardianIsActive DEF Guardian, OutcomeInv
  <2>3. \A u \in Task : Active(u) => u = t
    BY <2>2 DEF LifecycleInv, Control
  <2>4. child[f] # "none"
    BY <1>2 DEF Alive
  <2>5. told[f] = "none" /\ file[f] # "filtered"
    BY <2>2 DEF StepFacts, Describes, Raw, FinishPcs, StopPcs
  <2> QED
    BY <2>2, <2>3, <2>4, <2>5 DEF Active, FinishPcs, StopPcs
<1>3. CASE child[f] \notin Alive
  <2>1. processed < mark
    BY <1>3 DEF Untracked
  <2>2. PICK t \in Task : pc[t] \in FinishPcs \ StopPcs /\ hold[t] = f
    BY <1>3 DEF Untracked
  <2>3. Active(t) /\ StepFacts(t)
    BY <2>2 DEF Active, OutcomeInv
  <2>4. processed \in Nat /\ mark \in Nat
    BY DEF LifecycleInv, TypeOK, QueueTypeOK
  <2>5. child[f] # "none" /\ told[f] = "none" /\ file[f] # "filtered"
    BY <2>1, <2>2, <2>3, <2>4 DEF StepFacts, Describes, Raw
  <2>6. \A u \in Task : pc[u] \in {"processing", "reporting"} /\ ok[u] => FALSE
    BY <2>1, <2>4 DEF Accounted, MergedPcs, FinishPcs, StopPcs
  <2> QED
    BY <2>5, <2>6
<1> QED
  BY <1>1, <1>2, <1>3

\* Packets are lost: counted in dropped, and against what they belong to.
LEMMA LossKeepsOutcome ==
  ASSUME LifecycleInv, Accounted, OutcomeInv,
         dropped \in Nat, dropped' \in Nat, dropped < dropped',
         processed' \in Nat, processed <= processed', mark' = mark,
         lost' = lost \cup {f \in File : Untracked(f)},
         UNCHANGED <<slot, pc, hold, taken, ok, child, file, sidecars, told, unfiltered, scoped>>,
         meta \in Meta => meta' \in Meta /\ SameMeta(meta, meta')
  PROVE  OutcomeInv'
<1>1. ASSUME NEW f \in File PROVE FileFacts(f)'
  <2>1. FileFacts(f)
    BY DEF OutcomeInv
  <2>2. Untracked(f) => child[f] # "none" /\ told[f] = "none" /\ file[f] # "filtered"
    BY UntrackedFacts
  <2>3. slot' = f => Describes(meta, f)'
    <3> SUFFICES ASSUME slot = f PROVE Describes(meta, f)'
      OBVIOUS
    <3>1. meta \in Meta /\ meta.droppedAtStart \in Nat
      BY DEF LifecycleInv, Control, Meta
    <3>2. Describes(meta, f)
      BY <2>1 DEF FileFacts
    <3> QED
      BY <3>1, <3>2 DEF Describes, SameMeta
  <2>4. /\ Raw(f) <=> Raw(f)'
        /\ Complete(f) <=> Complete(f)'
        /\ Flagged(f) <=> Flagged(f)'
        /\ child[f] = "none" /\ Fresh(f) => Fresh(f)'
    BY <2>2 DEF Raw, Complete, Flagged, Fresh
  <2> QED
    BY <2>1, <2>2, <2>3, <2>4 DEF FileFacts
<1>2. ASSUME NEW t \in Task PROVE StepFacts(t)'
  <2>1. CASE ~Active(t)
    BY <2>1, InactiveFacts DEF Active
  <2>2. CASE Active(t)
    <3>1. StepFacts(t) /\ hold[t] \in File /\ taken[t] \in Meta /\ taken[t].droppedAtStart \in Nat
      BY <2>2 DEF OutcomeInv, LifecycleInv, Control, Meta
    <3>2. Describes(taken[t], hold[t])'
      BY <2>2, <3>1 DEF StepFacts, Describes
    <3>3. pc[t] \in {"processing", "reporting"} /\ ok[t] => hold[t] \notin lost'
      BY <3>1, UntrackedFacts DEF StepFacts
    <3>4. processed \in Nat /\ mark \in Nat
      BY DEF LifecycleInv, TypeOK, QueueTypeOK
    <3>5. /\ Raw(hold[t]) <=> Raw(hold[t])'
          /\ Complete(hold[t]) <=> Complete(hold[t])'
          /\ Flagged(hold[t]) <=> Flagged(hold[t])'
      BY DEF Raw, Complete, Flagged
    <3> QED
      BY <3>1, <3>2, <3>3, <3>4, <3>5 DEF StepFacts
  <2> QED
    BY <2>1, <2>2
<1> QED
  BY <1>1, <1>2 DEF OutcomeInv
-----------------------------------------------------------------------------
\* Every action keeps OutcomeInv.
LEMMA OutcomeStep ==
  ASSUME LifecycleInv, LifecycleInv', Accounted, OutcomeInv, [Next]_vars
  PROVE  OutcomeInv'
<1>t. TypeOK /\ TypeOK' /\ Control
  BY DEF LifecycleInv
<1>d. dropped \in Nat /\ dropped' \in Nat /\ dropped <= dropped'
  BY <1>t, DroppedGrows
<1>n. /\ mark \in Nat /\ processed \in Nat /\ processed' \in Nat /\ processed <= processed'
  BY <1>t, CountersGrow DEF TypeOK, QueueTypeOK
<1>a. \A t \in Task : Active(t) => hold[t] \in File /\ taken[t] \in Meta /\ slot \notin File
  BY <1>t, ActiveHasNoSlot DEF Control
<1>0. ASSUME UNCHANGED <<slot, hold, taken, ok, mark, child, file, sidecars, told, unfiltered,
                         lost, scoped>>,
             \A t \in Task : pc'[t] \in StartPcs \cup FinishPcs \/ Active(t) => pc'[t] = pc[t],
             meta \in Meta => meta' \in Meta /\ SameMeta(meta, meta')
      PROVE  OutcomeInv'
  <2>1. ASSUME NEW f \in File PROVE SameFile(f)
    BY <1>0 DEF SameFile
  <2>2. ASSUME NEW f \in File PROVE FileFacts(f)'
    <3>1. slot' = f => slot = f /\ meta \in Meta /\ meta' \in Meta /\ SameMeta(meta, meta')
      BY <1>0, <1>t DEF Control
    <3>2. Opening(f) => Opening(f)'
      BY <1>0 DEF Opening, Active, StartPcs
    <3> QED
      BY <1>d, <2>1, <3>1, <3>2, FileFrame DEF OutcomeInv
  <2>3. ASSUME NEW t \in Task PROVE StepFacts(t)'
    <3>1. CASE pc'[t] = pc[t]
      <4>1. hold'[t] = hold[t] /\ ok'[t] = ok[t] /\ mark' = mark
        BY <1>0
      <4>2. Active(t) => /\ hold[t] \in File /\ SameFile(hold[t])
                         /\ taken[t] \in Meta /\ taken'[t] \in Meta /\ SameMeta(taken[t], taken'[t])
        BY <1>0, <1>a, <2>1 DEF SameMeta
      <4> QED
        BY <1>d, <1>n, <3>1, <4>1, <4>2, StepFrame DEF OutcomeInv
    <3>2. CASE pc'[t] \notin StartPcs \cup FinishPcs
      BY <3>2, InactiveFacts
    <3> QED
      BY <1>0, <3>1, <3>2
  <2> QED
    BY <2>2, <2>3 DEF OutcomeInv
<1>1. CASE Reading \/ LiveDies \/ CaptureWatch \/ Exited \/ UNCHANGED vars
  <2>1. UNCHANGED <<slot, meta, pc, hold, taken, ok, mark, child, file, sidecars, told, unfiltered,
                    lost, scoped>>
    BY <1>1 DEF Reading, LiveDies, CaptureWatch, Exited, vars, recordVars, job, diskVars,
                reportVars, history
  <2>2. /\ \A t \in Task : pc'[t] = pc[t]
        /\ meta \in Meta => meta' \in Meta /\ SameMeta(meta, meta')
    BY <2>1 DEF SameMeta
  <2> QED
    BY <2>1, <2>2, <1>0
<1>2. CASE LosePacket
  <2>1. dropped' = dropped + 1
    BY <1>2 DEF LosePacket, SendFull
  <2>2. UNCHANGED <<slot, meta, pc, hold, taken, ok, mark, child, file, sidecars, told, unfiltered,
                    scoped>>
    BY <1>2 DEF LosePacket, recordVars, job, diskVars, reportVars
  <2>3. lost' = lost \cup {f \in File : Untracked(f)}
    BY <1>2 DEF LosePacket
  <2> QED
    BY <1>d, <1>n, <2>1, <2>2, <2>3, LossKeepsOutcome DEF SameMeta
<1>3. CASE ApplyBatch
  <2>1. meta \in Meta => meta' \in Meta /\ SameMeta(meta, meta')
    BY <1>3, <1>t, RememberedMeta DEF ApplyBatch, TypeOK, SameMeta
  <2>2. UNCHANGED <<slot, pc, hold, taken, ok, mark, child, file, sidecars, told, unfiltered, scoped>>
    BY <1>3 DEF ApplyBatch, job, diskVars, reportVars
  <2>3. CASE lost' = lost
    <3>1. \A t \in Task : pc'[t] = pc[t]
      BY <2>2
    <3> QED
      BY <2>1, <2>2, <2>3, <3>1, <1>0
  <2>4. CASE PumpPanic /\ lost' = lost \cup {f \in File : Untracked(f)}
    <3>1. dropped < dropped'
      BY <2>4, <1>t, QueueAssumption DEF PumpPanic, TypeOK, QueueTypeOK
    <3> QED
      BY <1>d, <1>n, <2>1, <2>2, <2>4, <3>1, LossKeepsOutcome
  <2> QED
    BY <1>3, <2>3, <2>4 DEF ApplyBatch
<1>4. CASE PollTick
  <2>1. meta \in Meta
    BY <1>4, <1>t DEF TypeOK, PollTick
  <2>2. PICK gone \in BOOLEAN :
          meta' \in Remembered([meta EXCEPT !.idle = @ \/ (gone /\ meta.only)])
    BY <1>4 DEF PollTick
  <2> DEFINE n == [meta EXCEPT !.idle = @ \/ (gone /\ meta.only)]
  <2>3. n \in Meta /\ SameMeta(meta, n)
    BY <2>1 DEF Meta, SameMeta
  <2>4. meta' \in Meta /\ SameMeta(meta, meta')
    <3> HIDE DEF n
    <3> QED
      BY <2>2, <2>3, RememberedMeta DEF SameMeta, n
  <2>5. UNCHANGED <<slot, pc, hold, taken, ok, mark, child, file, sidecars, told, unfiltered,
                    lost, scoped>>
    BY <1>4 DEF PollTick, job, diskVars, reportVars, history
  <2>6. \A t \in Task : pc'[t] = pc[t]
    BY <2>5
  <2> QED
    BY <2>4, <2>5, <2>6, <1>0
<1>5. ASSUME NEW r \in Request, Ask(r) \/ Refuse(r) \/ ClientLeaves(r) PROVE OutcomeInv'
  <2>1. UNCHANGED <<slot, meta, hold, taken, ok, mark, child, file, sidecars, told, unfiltered,
                    lost, scoped>>
    BY <1>5 DEF Ask, Refuse, ClientLeaves, recordVars, job, diskVars, reportVars, history
  <2>2. \/ pc' = pc
        \/ /\ pc[r] \in {"idle"} \cup AskedPcs
           /\ pc' = [pc EXCEPT ![r] = pc'[r]] /\ pc'[r] \in {"idle"} \cup AskedPcs
    <3>1. CASE Ask(r)
      BY <3>1, <1>t DEF Ask, TypeOK, AskedPcs, Task
    <3>2. CASE Refuse(r)
      BY <3>2, <1>t DEF Refuse, TypeOK, AskedPcs, Task
    <3>3. CASE ClientLeaves(r)
      BY <3>3 DEF ClientLeaves
    <3> QED
      BY <1>5, <3>1, <3>2, <3>3
  <2>3. \A t \in Task : pc'[t] \in StartPcs \cup FinishPcs \/ Active(t) => pc'[t] = pc[t]
    BY <2>2, <1>t DEF TypeOK, Active, StartPcs, FinishPcs, StopPcs, AskedPcs
  <2>4. meta \in Meta => meta' \in Meta /\ SameMeta(meta, meta')
    BY <2>1 DEF SameMeta
  <2> QED
    BY <2>1, <2>3, <2>4, <1>0
<1>6. CASE \/ Quit \/ ServeReturns \/ ShutdownCheck \/ StopCapture \/ Exit
           \/ app' = "saving" /\ UNCHANGED <<recordVars, pc, job, diskVars, reportVars, history>>
  <2>1. UNCHANGED <<slot, meta, pc, hold, taken, ok, mark, child, file, sidecars, told, unfiltered,
                    lost, scoped>>
    BY <1>6 DEF Quit, ServeReturns, ShutdownCheck, StopCapture, Exit, recordVars, job, diskVars,
                reportVars, history
  <2>2. /\ \A t \in Task : pc'[t] = pc[t]
        /\ meta \in Meta => meta' \in Meta /\ SameMeta(meta, meta')
    BY <2>1 DEF SameMeta
  <2> QED
    BY <2>1, <2>2, <1>0
<1>7. ASSUME NEW g \in File, ChildHeader(g) \/ ChildExits(g) PROVE OutcomeInv'
  <2>1. UNCHANGED <<slot, meta, pc, hold, taken, ok, mark, sidecars, told, unfiltered, lost, scoped>>
    BY <1>7 DEF ChildHeader, ChildExits, recordVars, job, reportVars, history
  <2>2. \A f \in File \ {g} : SameFile(f)
    BY <1>7, <1>t, <2>1 DEF ChildHeader, ChildExits, TypeOK, SameFile
  <2>3. /\ child[g] \in Alive /\ child'[g] # "none"
        /\ file'[g] = "raw" \/ (file'[g] = file[g] /\ child'[g] # "recording")
    <3>1. CASE ChildHeader(g)
      <4>1. /\ child[g] = "spawned" /\ child' = [child EXCEPT ![g] = "recording"]
            /\ file' = [file EXCEPT ![g] = "raw"]
        BY <3>1 DEF ChildHeader
      <4>2. child'[g] = "recording" /\ file'[g] = "raw"
        BY <4>1, <1>t DEF TypeOK
      <4> QED
        BY <4>1, <4>2 DEF Alive
    <3>2. CASE ChildExits(g)
      BY <3>2, <1>t DEF ChildExits, TypeOK, Alive
    <3> QED
      BY <1>7, <3>1, <3>2
  <2>4. /\ told[g] = "none"
        /\ \A t \in Task : Active(t) /\ hold[t] = g => pc[t] \in {"waiting"} \cup StopPcs
    <3>1. CASE slot = g
      BY <3>1, <1>a DEF OutcomeInv, FileFacts, Describes
    <3>2. CASE slot # g
      <4>1. PICK t \in Task : Guardian(t, g)
        BY <2>3, <3>2 DEF LifecycleInv, Owned
      <4> QED
        BY <4>1, <1>t, GuardianIsActive DEF OutcomeInv, StepFacts, Describes, Guardian, Control
    <3> QED
      BY <3>1, <3>2
  <2>5. ASSUME NEW f \in File PROVE FileFacts(f)'
    <3>1. CASE f = g
      <4>1. slot' = g => Describes(meta, g)'
        <5> SUFFICES ASSUME slot = g PROVE Describes(meta, g)'
          BY <2>1
        <5>1. meta \in Meta /\ meta.droppedAtStart \in Nat /\ Describes(meta, g)
          BY <1>t DEF Control, Meta, OutcomeInv, FileFacts
        <5> QED
          BY <5>1, <2>1, <1>d DEF Describes
      <4>2. slot' = g => Raw(g)'
        BY <2>1, <2>3 DEF OutcomeInv, FileFacts, Raw
      <4>3. file'[g] = "filtered" => file[g] = "filtered"
        BY <2>3
      <4>4. file'[g] = "filtered" => g \in scoped' /\ g \notin lost'
        BY <2>1, <4>3 DEF OutcomeInv, FileFacts
      <4>5. child'[g] = "recording" => file'[g] = "raw"
        BY <2>3
      <4>6. FileFacts(g)'
        BY <2>1, <2>3, <2>4, <4>1, <4>2, <4>4, <4>5 DEF FileFacts
      <4> QED
        BY <3>1, <4>6
    <3>2. CASE f # g
      <4>1. slot' = f => slot = f /\ meta \in Meta /\ meta' \in Meta /\ SameMeta(meta, meta')
        BY <2>1, <1>t DEF Control, SameMeta
      <4>2. Opening(f) => Opening(f)'
        BY <2>1 DEF Opening
      <4> QED
        BY <1>d, <2>2, <3>2, <4>1, <4>2, FileFrame DEF OutcomeInv
    <3> QED
      BY <3>1, <3>2
  <2>6. ASSUME NEW t \in Task PROVE StepFacts(t)'
    <3>1. CASE Active(t) /\ hold[t] = g
      <4>1. pc[t] \in {"waiting"} \cup StopPcs
        BY <2>4, <3>1
      <4>2. StepFacts(t) /\ taken[t].droppedAtStart \in Nat
        BY <3>1, <1>a DEF OutcomeInv, Meta
      <4>3. Describes(taken[t], hold[t])'
        BY <2>1, <3>1, <4>2, <1>d DEF StepFacts, Describes
      <4>4. pc[t] \in StopPcs => Raw(hold[t])'
        BY <2>1, <2>3, <3>1, <4>2 DEF StepFacts, Raw, StopPcs, FinishPcs
      <4>5. pc[t] = "waiting" => /\ child'[hold[t]] # "none" /\ hold[t] \notin unfiltered
                                 /\ file'[hold[t]] \in {"absent", "raw"}
        BY <2>3, <3>1, <4>2 DEF StepFacts
      <4> QED
        BY <2>1, <4>1, <4>3, <4>4, <4>5 DEF StepFacts, StopPcs, FinishPcs
    <3>2. CASE ~(Active(t) /\ hold[t] = g)
      <4>1. pc'[t] = pc[t] /\ hold'[t] = hold[t] /\ ok'[t] = ok[t] /\ mark' = mark
        BY <2>1
      <4>2. Active(t) => /\ hold[t] \in File /\ SameFile(hold[t])
                         /\ taken[t] \in Meta /\ taken'[t] \in Meta /\ SameMeta(taken[t], taken'[t])
        BY <1>a, <2>1, <2>2, <3>2 DEF SameMeta
      <4> QED
        BY <1>d, <1>n, <4>1, <4>2, StepFrame DEF OutcomeInv
    <3> QED
      BY <3>1, <3>2
  <2> QED
    BY <2>5, <2>6 DEF OutcomeInv
<1>8. ASSUME NEW r \in Request, NEW h \in File, NEW only \in BOOLEAN, StartBegin(r, h, only)
      PROVE  OutcomeInv'
  <2> DEFINE m == [only |-> only, limit |-> FALSE, idle |-> FALSE,
                   droppedAtStart |-> dropped]
  <2>1. /\ r \in Task /\ m.only = only /\ m.droppedAtStart = dropped
        /\ \A u \in Task : ~Active(u)
        /\ child[h] = "none" /\ told[h] = "none"
    BY <1>8, <1>t DEF Task, StartBegin, Unstarted, Control, Active
  <2>2. /\ pc' = [pc EXCEPT ![r] = "starting"] /\ hold' = [hold EXCEPT ![r] = h]
        /\ taken' = [taken EXCEPT ![r] = m] /\ slot' = NoFile /\ dropped' = dropped
        /\ scoped' = IF only THEN scoped \cup {h} ELSE scoped
        /\ UNCHANGED <<child, file, sidecars, told, unfiltered, lost>>
    BY <1>8 DEF StartBegin, diskVars, reportVars, queueVars
  <2> HIDE DEF m
  <2>3. FileFacts(h) /\ Fresh(h) /\ h \notin scoped
    BY <2>1 DEF OutcomeInv, FileFacts, Fresh, Active, StartPcs
  <2>4. pc'[r] = "starting" /\ hold'[r] = h /\ taken'[r] = m /\ pc' = [pc EXCEPT ![r] = pc'[r]]
    BY <2>1, <2>2, <1>t DEF TypeOK
  <2>5. slot' \notin File
    BY <2>2, LifecycleAssumption
  <2>6. StepFacts(r)'
    <3>1. Describes(taken[r], hold[r])'
      BY <2>1, <2>2, <2>3, <2>4, <1>d DEF Describes, Fresh
    <3> QED
      BY <2>1, <2>2, <2>4, <3>1 DEF StepFacts, FinishPcs, StopPcs
  <2>7. FileFacts(h)'
    <3>1. Fresh(h)'
      BY <2>1, <2>2, <2>3, <2>4 DEF Fresh
    <3> QED
      BY <2>1, <2>2, <2>3, <2>5, <3>1 DEF FileFacts, Fresh
  <2>8. \A f \in File \ {h} : SameFile(f)
    BY <2>2 DEF SameFile
  <2> QED
    BY <1>d, <1>t, <2>1, <2>4, <2>5, <2>6, <2>7, <2>8, OneTask
<1>9. ASSUME NEW t \in Task, StartSpawn(t) PROVE OutcomeInv'
  <2> PICK h \in File : h = hold[t]
    BY <1>9, <1>a DEF StartSpawn, Active, StartPcs
  <2>1. /\ Active(t) /\ h \in File /\ slot \notin File /\ pc[t] = "starting"
    BY <1>9, <1>a DEF StartSpawn, Active, StartPcs
  <2>2. UNCHANGED <<slot, hold, taken, ok, dropped, file, sidecars, told, unfiltered, lost, scoped>>
    BY <1>9 DEF StartSpawn, recordVars, job, reportVars, history, queueVars
  <2>3. StepFacts(t) /\ FileFacts(h) /\ child[h] = "none" /\ Fresh(h) /\ told[h] = "none"
    BY <2>1 DEF OutcomeInv, StepFacts, FileFacts, Describes
  <2>4. \/ pc' = [pc EXCEPT ![t] = "waiting"] /\ child' = [child EXCEPT ![h] = "spawned"]
        \/ pc' = [pc EXCEPT ![t] = "unwinding"] /\ child' = child
    BY <1>9 DEF StartSpawn
  <2>5. Describes(taken[t], hold[t])'
    BY <2>1, <2>2, <2>3 DEF StepFacts, Describes
  <2>6. ASSUME pc'[t] = "waiting", child'[h] = "spawned" PROVE StepFacts(t)' /\ FileFacts(h)'
    <3>1. StepFacts(t)'
      BY <2>2, <2>3, <2>5, <2>6 DEF StepFacts, Fresh, FinishPcs, StopPcs
    <3>2. FileFacts(h)'
      BY <2>1, <2>2, <2>3, <2>6 DEF FileFacts, Fresh
    <3> QED
      BY <3>1, <3>2
  <2>7. ASSUME pc'[t] = "unwinding", child'[h] = "none" PROVE StepFacts(t)' /\ FileFacts(h)'
    <3>1. StepFacts(t)'
      BY <2>5, <2>7 DEF StepFacts, FinishPcs, StopPcs
    <3>2. Fresh(h)'
      BY <2>2, <2>3, <2>7 DEF Fresh
    <3>3. FileFacts(h)'
      BY <2>1, <2>2, <2>3, <2>7, <3>2 DEF FileFacts, Fresh
    <3> QED
      BY <3>1, <3>3
  <2>8. StepFacts(t)' /\ FileFacts(h)' /\ pc' = [pc EXCEPT ![t] = pc'[t]]
    BY <2>1, <2>3, <2>4, <2>6, <2>7, <1>t DEF TypeOK
  <2>9. \A f \in File \ {h} : SameFile(f)
    BY <2>2, <2>4, <1>t DEF SameFile, TypeOK
  <2> QED
    BY <1>d, <1>t, <2>1, <2>2, <2>8, <2>9, OneTask
<1>10. ASSUME NEW t \in Task, StartGivesUp(t) PROVE OutcomeInv'
  <2> PICK h \in File : h = hold[t]
    BY <1>10, <1>a DEF StartGivesUp, Active, StartPcs
  <2>1. /\ Active(t) /\ h \in File /\ slot \notin File /\ pc[t] = "waiting"
    BY <1>10, <1>a DEF StartGivesUp, Active, StartPcs
  <2>2. /\ UNCHANGED <<slot, hold, taken, ok, dropped, sidecars, told, unfiltered, lost, scoped>>
        /\ pc' = [pc EXCEPT ![t] = "unwinding"]
        /\ child' = [child EXCEPT ![h] = IF @ \in Alive THEN "killed" ELSE @]
        /\ file' = [file EXCEPT ![h] = "absent"]
    BY <1>10 DEF StartGivesUp, recordVars, job, reportVars, history, queueVars
  <2>3. StepFacts(t) /\ FileFacts(h) /\ child[h] # "none" /\ told[h] = "none"
    BY <2>1 DEF OutcomeInv, StepFacts, Describes
  <2>4. /\ pc'[t] = "unwinding" /\ pc' = [pc EXCEPT ![t] = pc'[t]] /\ file'[h] = "absent"
        /\ child'[h] \notin {"none", "recording"}
    BY <2>1, <2>2, <2>3, <1>t DEF TypeOK, Alive
  <2>5. Describes(taken[t], hold[t])'
    BY <2>1, <2>2, <2>3 DEF StepFacts, Describes
  <2>6. StepFacts(t)'
    BY <2>4, <2>5 DEF StepFacts, FinishPcs, StopPcs
  <2>7. FileFacts(h)'
    BY <2>1, <2>2, <2>3, <2>4 DEF FileFacts
  <2>8. \A f \in File \ {h} : SameFile(f)
    BY <2>2, <1>t DEF SameFile, TypeOK
  <2> QED
    BY <1>d, <1>t, <2>1, <2>2, <2>4, <2>6, <2>7, <2>8, OneTask
<1>11. ASSUME NEW t \in Task, Publish(t) PROVE OutcomeInv'
  <2> PICK h \in File : h = hold[t]
    BY <1>11, <1>a DEF Publish, Active, StartPcs
  <2>1. /\ Active(t) /\ h \in File /\ slot \notin File /\ taken[t] \in Meta
        /\ pc[t] = "waiting" /\ child[h] = "recording"
    BY <1>11, <1>a DEF Publish, Active, StartPcs
  <2>2. /\ UNCHANGED <<dropped, child, file, sidecars, told, unfiltered, lost, scoped>>
        /\ slot' = h /\ meta' \in Remembered(taken[t]) /\ TaskEnds(t)
    BY <1>11 DEF Publish, diskVars, reportVars, history, queueVars
  <2>3. StepFacts(t) /\ FileFacts(h) /\ Describes(taken[t], h) /\ h \notin unfiltered
    BY <2>1 DEF OutcomeInv, StepFacts
  <2>4. pc'[t] = "idle" /\ pc' = [pc EXCEPT ![t] = pc'[t]]
    BY <2>2, <1>t DEF TaskEnds, TypeOK
  <2>5. meta' \in Meta /\ SameMeta(taken[t], meta')
    BY <2>1, <2>2, RememberedMeta DEF SameMeta
  <2>6. Describes(meta, h)'
    BY <2>1, <2>2, <2>3, <2>5 DEF Describes, SameMeta
  <2>7. Raw(h)'
    BY <2>1, <2>2, <2>3 DEF FileFacts, Raw
  <2>8. FileFacts(h)'
    BY <2>1, <2>2, <2>3, <2>6, <2>7 DEF FileFacts, Describes
  <2>9. StepFacts(t)'
    BY <2>4, InactiveFacts DEF StartPcs, FinishPcs, StopPcs
  <2>10. \A f \in File \ {h} : SameFile(f)
    BY <2>2 DEF SameFile
  <2> QED
    BY <1>d, <1>t, <2>1, <2>2, <2>4, <2>8, <2>9, <2>10, OneTask
<1>12. ASSUME NEW t \in Task, Unwind(t) PROVE OutcomeInv'
  <2> PICK h \in File : h = hold[t]
    BY <1>12, <1>a DEF Unwind, Active, StartPcs
  <2>1. Active(t) /\ h \in File /\ slot \notin File /\ pc[t] = "unwinding"
    BY <1>12, <1>a DEF Unwind, Active, StartPcs
  <2>2. /\ UNCHANGED <<slot, dropped, child, file, sidecars, unfiltered, lost, scoped>>
        /\ told' = [told EXCEPT ![h] = "aborted"] /\ TaskEnds(t)
    BY <1>12 DEF Unwind, diskVars, history, queueVars
  <2>3. FileFacts(h) /\ told'[h] = "aborted"
    BY <2>1, <2>2, <1>t DEF OutcomeInv, TypeOK
  <2>4. pc'[t] = "idle" /\ pc' = [pc EXCEPT ![t] = pc'[t]]
    BY <2>2, <1>t DEF TaskEnds, TypeOK
  <2>5. child'[h] = "none" => Fresh(h)'
    BY <2>2, <2>3 DEF FileFacts, Fresh
  <2>6. FileFacts(h)'
    BY <2>1, <2>2, <2>3, <2>5 DEF FileFacts
  <2>7. StepFacts(t)'
    BY <2>4, InactiveFacts DEF StartPcs, FinishPcs, StopPcs
  <2>8. \A f \in File \ {h} : SameFile(f)
    BY <2>2, <1>t DEF SameFile, TypeOK
  <2> QED
    BY <1>d, <1>t, <2>1, <2>2, <2>4, <2>6, <2>7, <2>8, OneTask
<1>13. ASSUME NEW t \in Task, TakeRecording(t) PROVE OutcomeInv'
  <2> PICK h \in File : h = slot
    BY <1>13, <1>t DEF TakeRecording, Control
  <2>1. h \in File /\ meta \in Meta /\ \A u \in Task : ~Active(u)
    BY <1>13, <1>t DEF TakeRecording, Control, Active
  <2>2. /\ UNCHANGED <<ok, dropped, child, file, sidecars, told, unfiltered, lost, scoped>>
        /\ pc' = [pc EXCEPT ![t] = "stopping"] /\ hold' = [hold EXCEPT ![t] = h]
        /\ slot' = NoFile
    BY <1>13 DEF TakeRecording, diskVars, reportVars, history, queueVars
  <2>3. PICK m \in Remembered(meta) : taken' = [taken EXCEPT ![t] = m]
    BY <1>13 DEF TakeRecording
  <2>4. FileFacts(h) /\ Describes(meta, h) /\ Raw(h)
    BY <2>1 DEF OutcomeInv, FileFacts
  <2>5. m \in Meta /\ SameMeta(meta, m)
    BY <2>1, <2>3, RememberedMeta DEF SameMeta
  <2>6. /\ pc'[t] = "stopping" /\ pc' = [pc EXCEPT ![t] = pc'[t]]
        /\ hold'[t] = h /\ taken'[t] = m /\ slot' \notin File
    BY <2>2, <2>3, <1>t, LifecycleAssumption DEF TypeOK
  <2>7. Describes(taken[t], hold[t])'
    BY <2>2, <2>4, <2>5, <2>6 DEF Describes, SameMeta
  <2>8. Raw(hold[t])'
    BY <2>2, <2>4, <2>6 DEF Raw
  <2>9. StepFacts(t)'
    BY <2>6, <2>7, <2>8 DEF StepFacts
  <2>10. FileFacts(h)'
    BY <2>1, <2>2, <2>4, <2>6 DEF FileFacts, Raw, Describes
  <2>11. \A f \in File \ {h} : SameFile(f)
    BY <2>2 DEF SameFile
  <2> QED
    BY <1>d, <1>t, <2>1, <2>6, <2>9, <2>10, <2>11, OneTask
<1>14. ASSUME NEW t \in Task, pc[t] \in FinishPcs \ {"reporting"},
              pc' = [pc EXCEPT ![t] = pc'[t]], pc'[t] \in FinishPcs \ {"reporting", "processing"},
              hold' = hold, dropped' = dropped, taken'[t] \in Remembered(taken[t]),
              UNCHANGED <<slot, file, sidecars, told, unfiltered, lost, scoped>>,
              \/ child' = child
              \/ child' = [child EXCEPT ![hold[t]] = IF @ \in Alive THEN "killed" ELSE @]
       PROVE  OutcomeInv'
  <2> PICK h \in File : h = hold[t]
    BY <1>14, <1>a DEF Active
  <2>1. Active(t) /\ h \in File /\ slot \notin File /\ taken[t] \in Meta
    BY <1>14, <1>a DEF Active
  <2>2. StepFacts(t) /\ FileFacts(h) /\ Describes(taken[t], h) /\ Raw(h)
    BY <1>14, <2>1 DEF OutcomeInv, StepFacts
  <2>3. SameMeta(taken[t], taken'[t])
    BY <1>14, <2>1, RememberedMeta DEF SameMeta
  <2>4. child'[h] = child[h] \/ child'[h] = "killed"
    BY <1>14, <2>1, <1>t DEF TypeOK
  <2>5. Describes(taken[t], hold[t])'
    BY <1>14, <2>2, <2>3 DEF Describes, SameMeta
  <2>6. Raw(hold[t])'
    BY <1>14, <2>2, <2>4 DEF Raw
  <2>7. StepFacts(t)'
    BY <1>14, <2>5, <2>6 DEF StepFacts, FinishPcs, StartPcs, StopPcs
  <2>8. FileFacts(h)'
    BY <1>14, <2>1, <2>2, <2>4 DEF FileFacts, Raw, Describes
  <2>9. \A f \in File \ {h} : SameFile(f)
    BY <1>14, <1>t DEF SameFile, TypeOK
  <2>10. slot' \notin File \ {h}
    BY <1>14, <2>1
  <2> QED
    BY <1>14, <1>d, <1>t, <2>1, <2>7, <2>8, <2>9, <2>10, OneTask
<1>15. ASSUME NEW t \in Task,
              \/ StopChild(t) \/ ChildStopped(t) \/ DrainBegin(t) \/ DrainDone(t)
              \/ DrainTimeout(t) \/ Merge(t)
       PROVE  OutcomeInv'
  <2>1. /\ pc[t] \in FinishPcs \ {"reporting"} /\ pc' = [pc EXCEPT ![t] = pc'[t]]
        /\ pc'[t] \in FinishPcs \ {"reporting", "processing"}
    BY <1>15, <1>t DEF StopChild, ChildStopped, DrainBegin, DrainDone, DrainTimeout, Merge,
                       TypeOK, FinishPcs, StopPcs
  <2>2. hold' = hold /\ dropped' = dropped
        /\ UNCHANGED <<slot, file, sidecars, told, unfiltered, lost, scoped>>
    BY <1>15 DEF StopChild, ChildStopped, DrainBegin, DrainDone, DrainTimeout, Merge,
                 recordVars, job, diskVars, reportVars, history, queueVars
  <2>3. taken'[t] \in Remembered(taken[t])
    <3>1. CASE Merge(t)
      BY <3>1, <1>t DEF Merge, TypeOK
    <3>2. CASE taken' = taken
      BY <3>2 DEF Remembered
    <3> QED
      BY <1>15, <3>1, <3>2 DEF StopChild, ChildStopped, DrainBegin, DrainDone, DrainTimeout, job
  <2>4. \/ child' = child
        \/ child' = [child EXCEPT ![hold[t]] = IF @ \in Alive THEN "killed" ELSE @]
    BY <1>15 DEF StopChild, ChildStopped, DrainBegin, DrainDone, DrainTimeout, Merge, diskVars
  <2> QED
    BY <1>14, <2>1, <2>2, <2>3, <2>4
<1>16. ASSUME NEW t \in Task, Tally(t) PROVE OutcomeInv'
  <2> PICK h \in File : h = hold[t]
    BY <1>16, <1>a DEF Tally, Active, FinishPcs
  <2>1. Active(t) /\ h \in File /\ slot \notin File /\ taken[t] \in Meta /\ pc[t] = "tallying"
    BY <1>16, <1>a DEF Tally, Active, FinishPcs
  <2>2. /\ UNCHANGED <<slot, hold, taken, dropped, child, file, sidecars, told, unfiltered, lost,
                       scoped>>
        /\ pc' = [pc EXCEPT ![t] = "processing"]
        /\ ok' = [ok EXCEPT ![t] = @ /\ ~taken[t].limit /\ dropped <= taken[t].droppedAtStart]
    BY <1>16 DEF Tally, recordVars, diskVars, reportVars, history, queueVars
  <2>3. StepFacts(t) /\ FileFacts(h) /\ Describes(taken[t], h) /\ Raw(h)
    BY <2>1 DEF OutcomeInv, StepFacts, FinishPcs, StopPcs
  <2>4. pc'[t] = "processing" /\ pc' = [pc EXCEPT ![t] = pc'[t]]
    BY <2>2, <1>t DEF TypeOK
  <2>5. ok'[t] => dropped <= taken[t].droppedAtStart
    BY <2>2, <1>t DEF TypeOK
  <2>6. taken[t].droppedAtStart \in Nat
    BY <2>1 DEF Meta
  <2>7. ok'[t] => h \notin lost'
    BY <1>d, <2>2, <2>3, <2>5, <2>6 DEF Describes
  <2>8. Describes(taken[t], hold[t])' /\ Raw(hold[t])'
    BY <2>2, <2>3 DEF Describes, Raw
  <2>9. StepFacts(t)'
    BY <2>2, <2>4, <2>7, <2>8 DEF StepFacts, FinishPcs, StopPcs
  <2>10. \A f \in File : SameFile(f)
    BY <2>2 DEF SameFile
  <2>11. FileFacts(h)'
    BY <2>1, <2>2, <2>3 DEF FileFacts, Raw, Describes
  <2> QED
    BY <1>d, <1>t, <2>1, <2>2, <2>4, <2>9, <2>10, <2>11, OneTask
<1>17. ASSUME NEW t \in Task, NEW rewritten \in BOOLEAN, NEW mapped \in BOOLEAN,
              ProcessFile(t, rewritten, mapped)
       PROVE  OutcomeInv'
  <2> PICK h \in File : h = hold[t]
    BY <1>17, <1>a DEF ProcessFile, Active, FinishPcs
  <2>1. Active(t) /\ h \in File /\ slot \notin File /\ taken[t] \in Meta /\ pc[t] = "processing"
    BY <1>17, <1>a DEF ProcessFile, Active, FinishPcs
  <2>2. /\ UNCHANGED <<slot, hold, taken, mark, processed, dropped, child, told, lost, scoped>>
        /\ file' = [file EXCEPT ![h] = IF ~rewritten THEN @
                                       ELSE IF taken[t].only THEN "filtered" ELSE "labeled"]
        /\ sidecars' = IF mapped THEN sidecars \cup {h} ELSE sidecars
        /\ ok' = [ok EXCEPT ![t] = @ /\ rewritten /\ mapped]
        /\ pc' = [pc EXCEPT ![t] = IF Running THEN "reporting" ELSE "gone"]
        /\ rewritten => ok[t] \/ ~taken[t].only
        /\ unfiltered' = IF taken[t].only /\ ~rewritten THEN unfiltered \cup {h} ELSE unfiltered
    BY <1>17 DEF ProcessFile, Processed, recordVars, history, queueVars
  <2>3. StepFacts(t) /\ FileFacts(h) /\ Describes(taken[t], h) /\ Raw(h)
    BY <2>1 DEF OutcomeInv, StepFacts, FinishPcs, StopPcs
  <2>4. /\ pc'[t] \in {"reporting", "gone"} /\ pc' = [pc EXCEPT ![t] = pc'[t]]
        /\ ok'[t] => ok[t] /\ rewritten /\ mapped
    BY <2>2, <1>t DEF TypeOK
  <2>5. /\ ok[t] => h \notin lost
        /\ taken[t].only <=> h \in scoped
        /\ child[h] # "none" /\ file[h] = "raw" /\ h \notin unfiltered /\ told[h] = "none"
    BY <2>1, <2>3 DEF StepFacts, Describes, Raw
  <2>6. /\ file'[h] = IF ~rewritten THEN "raw"
                      ELSE IF taken[t].only THEN "filtered" ELSE "labeled"
        /\ h \in unfiltered' <=> taken[t].only /\ ~rewritten
        /\ mapped => h \in sidecars'
    BY <2>1, <2>2, <2>5, <1>t DEF TypeOK
  <2>7. ok[t] => mark <= processed
    BY <2>1, <2>2 DEF Accounted, MergedPcs, FinishPcs, StopPcs
  <2>8. Describes(taken[t], hold[t])' /\ Flagged(hold[t])'
    BY <2>2, <2>3, <2>5, <2>6 DEF Describes, Flagged
  <2>9. ok'[t] => Complete(hold[t])'
    BY <2>2, <2>4, <2>5, <2>6 DEF Complete
  <2>10. file'[h] = "filtered" => rewritten /\ taken[t].only
    BY <2>6
  <2>11. StepFacts(t)'
    <3>1. CASE pc'[t] = "reporting"
      BY <3>1, <2>2, <2>4, <2>5, <2>7, <2>8, <2>9, <2>10 DEF StepFacts, FinishPcs, StopPcs
    <3>2. CASE pc'[t] = "gone"
      BY <3>2, InactiveFacts DEF StartPcs, FinishPcs, StopPcs
    <3> QED
      BY <2>4, <3>1, <3>2
  <2>12. FileFacts(h)'
    <3>1. file'[h] = "filtered" => h \in scoped' /\ h \notin lost'
      BY <2>2, <2>5, <2>10
    <3>2. child'[h] # "none" /\ child'[h] # "recording" /\ slot' # h /\ told'[h] = "none"
      <4>1. child[h] \notin Alive
        BY <2>1, <1>t, OwnedByTask DEF LifecycleInv, Guardian, StopPcs
      <4> QED
        BY <2>1, <2>2, <2>5, <4>1 DEF Alive
    <3> QED
      BY <3>1, <3>2 DEF FileFacts
  <2>13. \A f \in File \ {h} : SameFile(f)
    BY <2>2, <1>t DEF SameFile, TypeOK
  <2> QED
    BY <1>d, <1>t, <2>1, <2>2, <2>4, <2>11, <2>12, <2>13, OneTask
<1>18. ASSUME NEW t \in Task, Report(t) PROVE OutcomeInv'
  <2> PICK h \in File : h = hold[t]
    BY <1>18, <1>a DEF Report, Active, FinishPcs
  <2>1. Active(t) /\ h \in File /\ slot \notin File /\ pc[t] = "reporting"
    BY <1>18, <1>a DEF Report, Active, FinishPcs
  <2>2. /\ UNCHANGED <<slot, dropped, child, file, sidecars, unfiltered, lost, scoped>>
        /\ told' = [told EXCEPT ![h] = IF ok[t] THEN "ok" ELSE "failed"] /\ TaskEnds(t)
    BY <1>18 DEF Report, diskVars, history, queueVars
  <2>3. StepFacts(t) /\ FileFacts(h)
    BY <2>1 DEF OutcomeInv
  <2>4. /\ pc'[t] = "idle" /\ pc' = [pc EXCEPT ![t] = pc'[t]]
        /\ told'[h] = IF ok[t] THEN "ok" ELSE "failed"
    BY <2>1, <2>2, <1>t DEF TaskEnds, TypeOK
  <2>5. /\ child[h] # "none" /\ Flagged(h)' /\ (ok[t] => h \notin lost)
        /\ ok[t] => Complete(h)'
    BY <2>1, <2>2, <2>3 DEF StepFacts, Flagged, Complete
  <2>6. FileFacts(h)'
    BY <2>1, <2>2, <2>3, <2>4, <2>5 DEF FileFacts
  <2>7. StepFacts(t)'
    BY <2>4, InactiveFacts DEF StartPcs, FinishPcs, StopPcs
  <2>8. \A f \in File \ {h} : SameFile(f)
    BY <2>2, <1>t DEF SameFile, TypeOK
  <2> QED
    BY <1>d, <1>t, <2>1, <2>2, <2>4, <2>6, <2>7, <2>8, OneTask
<1>19. CASE RuntimeDropped
  <2>1. UNCHANGED <<slot, meta, hold, taken, ok, mark, dropped, file, sidecars, told, unfiltered,
                    lost, scoped>>
    BY <1>19 DEF RuntimeDropped, recordVars, job, reportVars, history, queueVars
  <2>2. /\ \A t \in Task : pc'[t] = IF pc[t] = "processing" THEN "processing" ELSE "gone"
        /\ \A f \in File : child'[f] = IF child[f] \in Alive THEN "killed" ELSE child[f]
        /\ \A t \in Task : pc[t] \notin {"starting", "unwinding"}
    BY <1>19 DEF RuntimeDropped, AwaitPcs, Active, StartPcs
  <2>3. ASSUME NEW f \in File PROVE FileFacts(f)'
    <3>1. FileFacts(f)
      BY DEF OutcomeInv
    <3>2. /\ child'[f] = "none" <=> child[f] = "none"
          /\ child'[f] # "recording"
      BY <2>2 DEF Alive
    <3>3. Fresh(f) => Fresh(f)'
      BY <2>1, <2>2 DEF Fresh
    <3>4. /\ Raw(f) => Raw(f)'
          /\ Complete(f) <=> Complete(f)'
          /\ Flagged(f) <=> Flagged(f)'
          /\ Describes(meta, f) => Describes(meta, f)'
      BY <2>1, <3>2 DEF Raw, Complete, Flagged, Describes
    <3> QED
      BY <2>1, <3>1, <3>2, <3>3, <3>4 DEF FileFacts
  <2>4. ASSUME NEW t \in Task PROVE StepFacts(t)'
    <3>1. CASE pc[t] = "processing"
      <4>1. StepFacts(t) /\ hold[t] \in File /\ pc'[t] = "processing"
        BY <3>1, <2>2, <1>a DEF OutcomeInv, Active, FinishPcs
      <4>2. Describes(taken[t], hold[t]) /\ Raw(hold[t]) /\ (ok[t] => hold[t] \notin lost)
        BY <3>1, <4>1 DEF StepFacts, Active, FinishPcs
      <4>3. Describes(taken[t], hold[t])' /\ Raw(hold[t])'
        BY <2>1, <2>2, <4>1, <4>2 DEF Describes, Raw
      <4> QED
        BY <2>1, <4>1, <4>2, <4>3 DEF StepFacts
    <3>2. CASE pc[t] # "processing"
      BY <2>2, <3>2, InactiveFacts DEF StartPcs, FinishPcs, StopPcs
    <3> QED
      BY <3>1, <3>2
  <2> QED
    BY <2>3, <2>4 DEF OutcomeInv
<1> QED
  BY <1>1, <1>2, <1>3, <1>4, <1>5, <1>6, <1>7, <1>8, <1>9, <1>10, <1>11, <1>12, <1>13, <1>15,
     <1>16, <1>17, <1>18, <1>19
  DEF Next, RequestStep, StopRequested, TaskStep, StartStep, FinishStep, AutoStop,
      MainStep, ShutdownFinish, Task
-----------------------------------------------------------------------------
LEMMA OutcomeInit == Init => OutcomeInv
<1> SUFFICES ASSUME Init PROVE OutcomeInv
  OBVIOUS
<1>1. ASSUME NEW t \in Task PROVE StepFacts(t)
  BY DEF Init, StepFacts, Active, StartPcs, FinishPcs, StopPcs
<1>2. ASSUME NEW f \in File PROVE FileFacts(f)
  BY LifecycleAssumption DEF Init, FileFacts, Fresh
<1> QED
  BY <1>1, <1>2 DEF OutcomeInv

THEOREM OutcomeInvariant == Spec => []OutcomeInv
<1>1. LifecycleInv /\ LifecycleInv' /\ Accounted /\ OutcomeInv /\ [Next]_vars => OutcomeInv'
  BY OutcomeStep
<1> QED
  BY <1>1, OutcomeInit, LifecycleInvariant, AccountedInvariant, PTL DEF Spec

\* A dump announced as saved lost no packet and is rewritten, with its map
\* (finish_dump and process_dump_file of main.rs).
THEOREM LifecycleOkMeansComplete == Spec => []OkMeansComplete
<1>1. OutcomeInv => OkMeansComplete
  BY DEF OutcomeInv, FileFacts, Complete, OkMeansComplete
<1> QED
  BY <1>1, OutcomeInvariant, PTL

\* Packets are dropped from a process-only dump only with complete ownership
\* data (process_dump_file of main.rs).
THEOREM LifecycleFilteredMeansComplete == Spec => []FilteredMeansComplete
<1>1. OutcomeInv => FilteredMeansComplete
  BY DEF OutcomeInv, FileFacts, FilteredMeansComplete
<1> QED
  BY <1>1, OutcomeInvariant, PTL

\* The outcome says unfiltered exactly for process-only dumps that still hold
\* the traffic of the whole host (process_dump_file of main.rs).
THEOREM LifecycleUnfiltered == Spec => []UnfilteredIsAnnounced
<1>1. OutcomeInv => UnfilteredIsAnnounced
  BY DEF OutcomeInv, FileFacts, Flagged, UnfilteredIsAnnounced
<1> QED
  BY <1>1, OutcomeInvariant, PTL
-----------------------------------------------------------------------------
(***************************************************************************)
(* Recordings follow Recorder.  A file's recording is known by what was     *)
(* announced of it, and until then by who has it: the application, a task   *)
(* that starts it, or a task that finishes it.                              *)
(***************************************************************************)

\* While the program runs, only a task at work has a file.
HoldInv == Running => \A t \in Task : hold[t] \in File => Active(t)

LEMMA HoldFrame ==
  ASSUME HoldInv, UNCHANGED hold, Running' => Running,
         \A t \in Task : Active(t) => Active(t)'
  PROVE  HoldInv'
  BY DEF HoldInv

LEMMA HoldIdle == ASSUME HoldInv, Running, NEW t \in Task, ~Active(t) PROVE hold[t] \notin File
  BY DEF HoldInv

\* A step by which a task goes on, takes a file or is done.
LEMMA HoldMoves ==
  ASSUME TypeOK, HoldInv, Running' => Running, NEW t \in Task,
         NEW p \in Pcs, pc' = [pc EXCEPT ![t] = p],
         NEW h \in File \cup {NoFile}, hold' = [hold EXCEPT ![t] = h],
         h = NoFile \/ p \in StartPcs \cup FinishPcs
  PROVE  HoldInv'
<1> SUFFICES ASSUME Running', NEW u \in Task, hold'[u] \in File PROVE Active(u)'
  BY DEF HoldInv
<1>1. CASE u = t
  BY <1>1, LifecycleAssumption DEF TypeOK, Active
<1>2. CASE u # t
  BY <1>2 DEF TypeOK, HoldInv, Active
<1> QED
  BY <1>1, <1>2

LEMMA HoldStep ==
  ASSUME TypeOK, Control, HoldInv, [Next]_vars
  PROVE  HoldInv'
<1>1. ASSUME UNCHANGED <<pc, hold>>, Running' => Running PROVE HoldInv'
  BY <1>1, HoldFrame DEF Active
<1>2. CASE \/ Reading \/ LosePacket \/ ApplyBatch \/ LiveDies \/ CaptureWatch \/ PollTick
           \/ Exited \/ UNCHANGED vars
  BY <1>2, <1>1
  DEF Reading, LosePacket, ApplyBatch, LiveDies, CaptureWatch, PollTick, Exited, vars, job,
      Running
<1>3. ASSUME NEW f \in File, ChildHeader(f) \/ ChildExits(f) PROVE HoldInv'
  BY <1>3, <1>1 DEF ChildHeader, ChildExits, job, Running
<1>4. ASSUME NEW r \in Request, Ask(r) \/ Refuse(r) PROVE HoldInv'
  <2>1. /\ pc[r] \notin StartPcs \cup FinishPcs /\ UNCHANGED <<hold, app>>
        /\ pc' = [pc EXCEPT ![r] = pc'[r]] /\ r \in Task
    BY <1>4
    DEF Ask, Refuse, TypeOK, Task, job, StartPcs, FinishPcs, StopPcs
  <2>2. \A t \in Task : Active(t) => Active(t)'
    BY <2>1 DEF TypeOK, Active
  <2>3. Running' => Running
    BY <2>1 DEF Running
  <2> QED
    BY <2>1, <2>2, <2>3, HoldFrame
<1>5. ASSUME NEW r \in Request, ClientLeaves(r) PROVE HoldInv'
  BY <1>5, <1>1 DEF ClientLeaves, job, Running
<1>6. ASSUME NEW r \in Request, NEW f \in File, NEW only \in BOOLEAN, StartBegin(r, f, only)
      PROVE  HoldInv'
  BY <1>6, HoldMoves, PcFacts DEF StartBegin, Task, StartPcs, Running
<1>7. ASSUME NEW t \in Task, Publish(t) \/ Unwind(t) \/ Report(t) PROVE HoldInv'
  <2>1. Running
    BY <1>7, ActiveRuns DEF Publish, Unwind, Report
  <2> QED
    BY <1>7, <2>1, HoldMoves, LifecycleAssumption DEF Publish, Unwind, Report, TaskEnds, Pcs
<1>8. ASSUME NEW t \in Task, TakeRecording(t), app' = app PROVE HoldInv'
  <2>1. slot \in File
    BY <1>8 DEF TakeRecording, Control
  <2> QED
    BY <1>8, <2>1, HoldMoves, PcFacts DEF TakeRecording, FinishPcs, StopPcs, Running
<1>9. ASSUME NEW t \in Task,
             \/ StartSpawn(t) \/ StartGivesUp(t) \/ StopChild(t) \/ ChildStopped(t)
             \/ DrainBegin(t) \/ DrainDone(t) \/ DrainTimeout(t) \/ Merge(t) \/ Tally(t)
      PROVE  HoldInv'
  <2>1. /\ pc' = [pc EXCEPT ![t] = pc'[t]] /\ pc'[t] \in StartPcs \cup FinishPcs
        /\ UNCHANGED <<hold, app>>
    BY <1>9
    DEF StartSpawn, StartGivesUp, StopChild, ChildStopped, DrainBegin, DrainDone,
        DrainTimeout, Merge, Tally, TypeOK, job, StartPcs, FinishPcs, StopPcs
  <2>2. \A u \in Task : Active(u) => Active(u)'
    BY <2>1 DEF TypeOK, Active
  <2>3. Running' => Running
    BY <2>1 DEF Running
  <2> QED
    BY <2>1, <2>2, <2>3, HoldFrame
<1>10. ASSUME NEW t \in Task, NEW rewritten \in BOOLEAN, NEW mapped \in BOOLEAN,
              ProcessFile(t, rewritten, mapped)
       PROVE  HoldInv'
  <2>1. pc' = [pc EXCEPT ![t] = pc'[t]] /\ (Running => pc'[t] = "reporting")
        /\ UNCHANGED <<hold, app>>
    BY <1>10 DEF ProcessFile, Processed, TypeOK
  <2>2. Running' => Running
    BY <2>1 DEF Running
  <2>3. Running => \A u \in Task : Active(u) => Active(u)'
    BY <2>1 DEF TypeOK, Active, FinishPcs
  <2> QED
    BY <2>1, <2>2, <2>3 DEF HoldInv
<1>11. CASE \/ Quit \/ ServeReturns \/ ShutdownCheck \/ StopCapture \/ Exit \/ RuntimeDropped
            \/ app = "finishing" /\ app' = "saving" /\ UNCHANGED <<pc, job>>
  <2>1. UNCHANGED hold /\ (Running' => Running /\ UNCHANGED pc)
    BY <1>11
    DEF Quit, ServeReturns, ShutdownCheck, StopCapture, Exit, RuntimeDropped, job, Running,
        Serving
  <2> QED
    BY <2>1 DEF HoldInv, Active
<1> QED
  BY <1>2, <1>3, <1>4, <1>5, <1>6, <1>7, <1>8, <1>9, <1>10, <1>11
  DEF Next, RequestStep, StopRequested, TaskStep, StartStep, FinishStep, AutoStop,
      MainStep, ShutdownFinish, Task

THEOREM HoldInvariant == Spec => []HoldInv
<1>1. Init => HoldInv
  BY LifecycleAssumption DEF Init, HoldInv
<1>2. LifecycleInv /\ HoldInv /\ [Next]_vars => HoldInv'
  BY HoldStep DEF LifecycleInv
<1> QED
  BY <1>1, <1>2, LifecycleInvariant, PTL DEF Spec
-----------------------------------------------------------------------------
\* What the state of a recording is read from.
LEMMA StatusFrame ==
  ASSUME NEW f \in File, told'[f] = told[f], slot' = f <=> slot = f, Running' <=> Running,
         \A t \in Task : hold'[t] = f <=> hold[t] = f,
         Running => \A t \in Task :
                      hold[t] = f => (pc'[t] \in StartPcs <=> pc[t] \in StartPcs)
  PROVE  StatusOf(f)' = StatusOf(f)
<1>1. {t \in Task : hold'[t] = f} = {t \in Task : hold[t] = f}
  OBVIOUS
<1>2. Unannounced(f)' = Unannounced(f)
  BY <1>1 DEF Unannounced
<1> QED
  BY <1>2 DEF StatusOf

LEMMA StatusFacts ==
  ASSUME TypeOK, Running, NEW f \in File, told[f] = "none"
  PROVE  /\ slot = f => StatusOf(f) = "open"
         /\ (slot # f /\ \A t \in Task : hold[t] # f) => StatusOf(f) = "unused"
         /\ \A t \in Task : (slot # f /\ hold[t] = f /\ pc[t] \in StartPcs)
                              => StatusOf(f) = "starting"
         /\ \A t \in Task : (/\ slot # f /\ hold[t] = f
                             /\ \A u \in Task : hold[u] = f => pc[u] \notin StartPcs)
                              => StatusOf(f) = "closing"
<1> DEFINE holders == {t \in Task : hold[t] = f}
<1>1. StatusOf(f) = IF slot # f /\ holders = {} THEN "unused"
                    ELSE IF slot = f THEN "open"
                    ELSE IF \E t \in holders : pc[t] \in StartPcs THEN "starting"
                    ELSE "closing"
  BY DEF StatusOf, Unannounced
<1>2. \A t \in Task : hold[t] = f => t \in holders
  OBVIOUS
<1>3. \A t \in holders : t \in Task /\ hold[t] = f
  OBVIOUS
<1> HIDE DEF holders
<1>4. slot = f => StatusOf(f) = "open"
  BY <1>1
<1>5. (slot # f /\ \A t \in Task : hold[t] # f) => StatusOf(f) = "unused"
  BY <1>1, <1>3
<1>6. ASSUME NEW t \in Task, slot # f, hold[t] = f, pc[t] \in StartPcs
      PROVE  StatusOf(f) = "starting"
  BY <1>1, <1>2, <1>6
<1>7. ASSUME NEW t \in Task, slot # f, hold[t] = f,
             \A u \in Task : hold[u] = f => pc[u] \notin StartPcs
      PROVE  StatusOf(f) = "closing"
  BY <1>1, <1>2, <1>3, <1>7
<1> QED
  BY <1>4, <1>5, <1>6, <1>7

\* The same of the state after a step.
LEMMA StatusNext ==
  ASSUME NEW f \in File
  PROVE  /\ told'[f] = "ok" => StatusOf(f)' = "saved"
         /\ told'[f] = "failed" => StatusOf(f)' = "failed"
         /\ told'[f] = "aborted" => StatusOf(f)' = "discarded"
         /\ (told'[f] = "none" /\ Running' /\ slot' = f) => StatusOf(f)' = "open"
         /\ \A t \in Task : (/\ told'[f] = "none" /\ Running'
                             /\ slot' # f /\ hold'[t] = f /\ pc'[t] \in StartPcs)
                              => StatusOf(f)' = "starting"
         /\ \A t \in Task : (/\ told'[f] = "none" /\ Running'
                             /\ slot' # f /\ hold'[t] = f
                             /\ \A u \in Task : hold'[u] = f => pc'[u] \notin StartPcs)
                              => StatusOf(f)' = "closing"
<1> DEFINE holders == {t \in Task : hold'[t] = f}
<1>1. /\ told'[f] = "ok" => StatusOf(f)' = "saved"
      /\ told'[f] = "failed" => StatusOf(f)' = "failed"
      /\ told'[f] = "aborted" => StatusOf(f)' = "discarded"
  BY DEF StatusOf
<1>2. ASSUME told'[f] = "none", Running'
      PROVE  StatusOf(f)' = IF slot' # f /\ holders = {} THEN "unused"
                            ELSE IF slot' = f THEN "open"
                            ELSE IF \E t \in holders : pc'[t] \in StartPcs THEN "starting"
                            ELSE "closing"
  BY <1>2 DEF StatusOf, Unannounced
<1>3. \A t \in Task : hold'[t] = f => t \in holders
  OBVIOUS
<1>4. \A t \in holders : t \in Task /\ hold'[t] = f
  OBVIOUS
<1> HIDE DEF holders
<1>5. ASSUME told'[f] = "none", Running', slot' = f PROVE StatusOf(f)' = "open"
  BY <1>2, <1>5
<1>6. ASSUME NEW t \in Task, told'[f] = "none", Running', slot' # f, hold'[t] = f,
             pc'[t] \in StartPcs
      PROVE  StatusOf(f)' = "starting"
  BY <1>2, <1>3, <1>6
<1>7. ASSUME NEW t \in Task, told'[f] = "none", Running', slot' # f, hold'[t] = f,
             \A u \in Task : hold'[u] = f => pc'[u] \notin StartPcs
      PROVE  StatusOf(f)' = "closing"
  BY <1>2, <1>3, <1>4, <1>7
<1> QED
  BY <1>1, <1>5, <1>6, <1>7

LEMMA StatusIsAnnounced ==
  ASSUME TypeOK, NEW f \in File
  PROVE  /\ told[f] = "ok" => StatusOf(f) = "saved"
         /\ told[f] = "failed" => StatusOf(f) = "failed"
         /\ told[f] = "aborted" => StatusOf(f) = "discarded"
         /\ told[f] # "none" => StatusOf(f) \in {"saved", "failed", "discarded"}
  BY DEF StatusOf, TypeOK

\* While no task is at work, a recording that is not the application's is over
\* or was never begun.
LEMMA IdleStatus ==
  ASSUME TypeOK, HoldInv, Running, slot \notin File, \A t \in Task : ~Active(t),
         NEW f \in File
  PROVE  StatusOf(f) \in {"unused", "saved", "failed", "discarded"}
<1>1. slot # f /\ \A t \in Task : hold[t] # f
  BY DEF HoldInv
<1> QED
  BY <1>1, StatusFacts, StatusIsAnnounced

\* A task's step leaves the recordings of other files as they are.
LEMMA OtherStatus ==
  ASSUME TypeOK, Running, Running', NEW t \in Task, NEW h \in File,
         pc' = [pc EXCEPT ![t] = pc'[t]], hold' = [hold EXCEPT ![t] = hold'[t]],
         hold[t] \notin File \ {h}, hold'[t] \notin File \ {h},
         slot \notin File \ {h}, slot' \notin File \ {h},
         \A g \in File \ {h} : told'[g] = told[g]
  PROVE  \A g \in File \ {h} : StatusOf(g)' = StatusOf(g)
<1> SUFFICES ASSUME NEW g \in File \ {h} PROVE StatusOf(g)' = StatusOf(g)
  OBVIOUS
<1>1. \A u \in Task : hold'[u] = g <=> hold[u] = g
  BY DEF TypeOK
<1>2. \A u \in Task : hold[u] = g => pc'[u] = pc[u]
  BY DEF TypeOK
<1> QED
  BY <1>1, <1>2, StatusFrame

\* A step that takes one recording from a state to the next.
LEMMA MoveMaps ==
  ASSUME NEW f \in File, NEW from, NEW to, Running, Running',
         StatusOf(f) = from, StatusOf(f)' = to,
         \A g \in File \ {f} : StatusOf(g)' = StatusOf(g)
  PROVE  Abstract!Move(f, from, to)
<1> DEFINE s == [g \in File |-> StatusOf(g)]
<1>1. s' = [g \in File |-> StatusOf(g)']
  OBVIOUS
<1>2. [g \in File |-> StatusOf(g)'] = [s EXCEPT ![f] = to]
  OBVIOUS
<1> QED
  BY <1>1, <1>2 DEF Abstract!Move

LEMMA StaysMaps ==
  ASSUME \A g \in File : StatusOf(g)' = StatusOf(g), Running' <=> Running
  PROVE  UNCHANGED Abstract!recorderVars
  BY DEF Abstract!recorderVars
-----------------------------------------------------------------------------
\* StartBegin is Recorder's Begin.
LEMMA BeginMaps ==
  ASSUME LifecycleInv, HoldInv, NEW r \in Request, NEW f \in File, NEW only \in BOOLEAN,
         StartBegin(r, f, only)
  PROVE  Abstract!Begin(f)
<1>1. /\ pc[r] = "asked_start" /\ phase = "Idle" /\ slot' = NoFile /\ told[f] = "none"
      /\ pc' = [pc EXCEPT ![r] = "starting"] /\ hold' = [hold EXCEPT ![r] = f]
      /\ told' = told /\ app' = app
  BY DEF StartBegin, Unstarted, reportVars
<1>2. TypeOK /\ Control /\ r \in Task
  BY DEF LifecycleInv, Task
<1>3. Running /\ Running' /\ slot \notin File /\ \A t \in Task : ~Active(t)
  BY <1>1, <1>2, ActiveRuns DEF Running, Control, Active
<1>4. \A g \in File : StatusOf(g) \in {"unused", "saved", "failed", "discarded"}
  BY <1>2, <1>3, IdleStatus
<1>5. slot # f /\ \A t \in Task : hold[t] # f
  BY <1>3 DEF HoldInv
<1>6. StatusOf(f) = "unused"
  BY <1>1, <1>2, <1>3, <1>5, StatusFacts
<1>7. StatusOf(f)' = "starting"
  <2>1. told'[f] = "none" /\ slot' # f /\ hold'[r] = f /\ pc'[r] \in StartPcs
    BY <1>1, <1>2, LifecycleAssumption DEF TypeOK, StartPcs
  <2> QED
    BY <1>2, <1>3, <2>1, StatusNext
<1>8. hold[r] \notin File /\ hold'[r] = f /\ pc'[r] = "starting"
  BY <1>1, <1>2, <1>3, HoldIdle DEF TypeOK
<1>9. \A g \in File \ {f} : StatusOf(g)' = StatusOf(g)
  BY <1>1, <1>2, <1>3, <1>8, OtherStatus, LifecycleAssumption
<1>10. Abstract!Move(f, "unused", "starting")
  BY <1>3, <1>6, <1>7, <1>9, MoveMaps
<1>11. \A g \in File : [h \in File |-> StatusOf(h)][g] \notin Abstract!Busy
  BY <1>4 DEF Abstract!Busy
<1> QED
  BY <1>10, <1>11 DEF Abstract!Begin
\* Publish is Recorder's Open.
LEMMA OpenMaps ==
  ASSUME LifecycleInv, OutcomeInv, HoldInv, NEW t \in Task, Publish(t),
         NEW f \in File, f = hold[t]
  PROVE  Abstract!Open(f)
<1>1. /\ pc[t] = "waiting" /\ slot' = f /\ told' = told /\ app' = app
      /\ pc' = [pc EXCEPT ![t] = "idle"] /\ hold' = [hold EXCEPT ![t] = NoFile]
  BY DEF Publish, TaskEnds, reportVars
<1>2. TypeOK /\ Control /\ StepFacts(t)
  BY DEF LifecycleInv, OutcomeInv
<1>3. Running /\ Running' /\ Active(t)
  BY <1>1, <1>2, ActiveRuns DEF Running, Active, StartPcs
<1>4. slot \notin File /\ told[f] = "none"
  BY <1>2, <1>3, ActiveHasNoSlot DEF Control, StepFacts, Describes, TypeOK
<1>5. hold'[t] = NoFile /\ pc'[t] = "idle"
  BY <1>1, <1>2 DEF TypeOK
<1>6. StatusOf(f) = "starting"
  BY <1>1, <1>2, <1>3, <1>4, StatusFacts DEF StartPcs
<1>7. StatusOf(f)' = "open"
  BY <1>1, <1>3, <1>4, StatusNext
<1>8. \A g \in File \ {f} : StatusOf(g)' = StatusOf(g)
  BY <1>1, <1>2, <1>3, <1>4, <1>5, OtherStatus, LifecycleAssumption
<1>9. Abstract!Move(f, "starting", "open")
  BY <1>3, <1>4, <1>6, <1>7, <1>8, MoveMaps
<1> QED
  BY <1>4, <1>9 DEF Abstract!Open

\* Unwind is Recorder's Discard.
LEMMA DiscardMaps ==
  ASSUME LifecycleInv, OutcomeInv, HoldInv, NEW t \in Task, Unwind(t),
         NEW f \in File, f = hold[t]
  PROVE  Abstract!Discard(f)
<1>1. /\ pc[t] = "unwinding" /\ slot' = slot /\ told' = [told EXCEPT ![f] = "aborted"]
      /\ pc' = [pc EXCEPT ![t] = "idle"] /\ hold' = [hold EXCEPT ![t] = NoFile]
      /\ app' = app
  BY DEF Unwind, TaskEnds
<1>2. TypeOK /\ Control /\ StepFacts(t)
  BY DEF LifecycleInv, OutcomeInv
<1>3. Running /\ Running' /\ Active(t)
  BY <1>1, <1>2, ActiveRuns DEF Running, Active, StartPcs
<1>4. slot \notin File /\ told[f] = "none"
  BY <1>2, <1>3, ActiveHasNoSlot DEF Control, StepFacts, Describes, TypeOK
<1>5. hold'[t] = NoFile /\ pc'[t] = "idle"
  BY <1>1, <1>2 DEF TypeOK
<1>6. StatusOf(f) = "starting"
  BY <1>1, <1>2, <1>3, <1>4, StatusFacts DEF StartPcs
<1>7. told'[f] = "aborted" /\ \A g \in File \ {f} : told'[g] = told[g]
  BY <1>1, <1>2, <1>4 DEF TypeOK
<1>8. StatusOf(f)' = "discarded"
  BY <1>4, <1>7, StatusNext
<1>9. \A g \in File \ {f} : StatusOf(g)' = StatusOf(g)
  <2>1. /\ hold[t] \notin File \ {f} /\ hold'[t] \notin File \ {f}
        /\ slot \notin File \ {f} /\ slot' \notin File \ {f}
    BY <1>1, <1>4, <1>5, LifecycleAssumption
  <2>2. pc' = [pc EXCEPT ![t] = pc'[t]] /\ hold' = [hold EXCEPT ![t] = hold'[t]]
    BY <1>1, <1>5
  <2> QED
    BY <1>2, <1>3, <1>7, <2>1, <2>2, OtherStatus
<1>10. Abstract!Move(f, "starting", "discarded")
  BY <1>3, <1>4, <1>6, <1>8, <1>9, MoveMaps
<1> QED
  BY <1>4, <1>10 DEF Abstract!Discard

\* TakeRecording is Recorder's Close, whoever stops the recording.
LEMMA CloseMaps ==
  ASSUME LifecycleInv, OutcomeInv, HoldInv, Running, NEW t \in Task, TakeRecording(t),
         app' = app, NEW f \in File, f = slot
  PROVE  Abstract!Close(f)
<1>1. /\ phase = "Recording" /\ slot' = NoFile /\ told' = told
      /\ pc' = [pc EXCEPT ![t] = "stopping"] /\ hold' = [hold EXCEPT ![t] = f]
  BY DEF TakeRecording, reportVars
<1>2. TypeOK /\ Control
  BY DEF LifecycleInv
<1>3. told[f] = "none"
  BY <1>2 DEF OutcomeInv, FileFacts, Describes
<1>4. Running' /\ \A u \in Task : ~Active(u)
  BY <1>1, <1>2 DEF Running, Control, Active
<1>5. \A u \in Task : hold[u] \notin File
  BY <1>4, HoldIdle
<1>6. hold'[t] = f /\ pc'[t] = "stopping" /\ slot' # f
  BY <1>1, <1>2, LifecycleAssumption DEF TypeOK
<1>7. \A u \in Task : hold'[u] = f => u = t
  BY <1>1, <1>2, <1>5 DEF TypeOK
<1>o. StatusOf(f) = "open"
  BY <1>2, <1>3, StatusFacts
<1>8. StatusOf(f)' = "closing"
  BY <1>1, <1>2, <1>3, <1>4, <1>6, <1>7, StatusNext DEF StartPcs
<1>9. \A g \in File \ {f} : StatusOf(g)' = StatusOf(g)
  BY <1>1, <1>2, <1>4, <1>5, <1>6, OtherStatus, LifecycleAssumption
<1>10. Abstract!Move(f, "open", "closing")
  BY <1>2, <1>4, <1>o, <1>8, <1>9, MoveMaps
<1> QED
  BY <1>2, <1>10 DEF Abstract!Close

\* Report is Recorder's Finish.
LEMMA FinishMaps ==
  ASSUME LifecycleInv, OutcomeInv, HoldInv, NEW t \in Task, Report(t),
         NEW f \in File, f = hold[t]
  PROVE  Abstract!Finish(f)
<1>1. /\ pc[t] = "reporting" /\ slot' = slot
      /\ told' = [told EXCEPT ![f] = IF ok[t] THEN "ok" ELSE "failed"]
      /\ pc' = [pc EXCEPT ![t] = "idle"] /\ hold' = [hold EXCEPT ![t] = NoFile]
  BY DEF Report, TaskEnds
<1>2. TypeOK /\ Control /\ StepFacts(t)
  BY DEF LifecycleInv, OutcomeInv
<1>3. Running /\ Running' /\ Active(t)
  BY <1>1, <1>2, ActiveRuns DEF Report, Running, Active, FinishPcs
<1>4. slot \notin File /\ told[f] = "none"
  BY <1>2, <1>3, ActiveHasNoSlot DEF Control, StepFacts, Describes, TypeOK
<1>5. hold'[t] = NoFile /\ pc'[t] = "idle"
  BY <1>1, <1>2 DEF TypeOK
<1>6. \A u \in Task : hold[u] = f => pc[u] \notin StartPcs
  BY <1>1, <1>2, <1>3 DEF Control, Active, StartPcs
<1>7. StatusOf(f) = "closing"
  BY <1>2, <1>3, <1>4, <1>6, StatusFacts
<1>8. told'[f] \in {"ok", "failed"} /\ \A g \in File \ {f} : told'[g] = told[g]
  BY <1>1, <1>2, <1>4 DEF TypeOK
<1>9. PICK to \in {"saved", "failed"} : StatusOf(f)' = to
  BY <1>4, <1>8, StatusNext
<1>10. \A g \in File \ {f} : StatusOf(g)' = StatusOf(g)
  BY <1>1, <1>2, <1>3, <1>4, <1>5, <1>8, OtherStatus, LifecycleAssumption
<1>11. Abstract!Move(f, "closing", to)
  BY <1>3, <1>4, <1>7, <1>9, <1>10, MoveMaps
<1> QED
  BY <1>4, <1>11 DEF Abstract!Finish

\* RuntimeDropped is Recorder's Halt: what is in progress is abandoned.
LEMMA HaltMaps ==
  ASSUME LifecycleInv, RuntimeDropped
  PROVE  Abstract!Halt
<1>1. Running /\ ~Running' /\ UNCHANGED <<told, slot, hold>>
  BY DEF RuntimeDropped, Running, recordVars, job, reportVars
<1>2. ASSUME NEW f \in File
      PROVE  StatusOf(f)' = IF StatusOf(f) \in Abstract!Busy THEN "abandoned" ELSE StatusOf(f)
  <2>1. CASE told[f] # "none"
    BY <1>1, <2>1 DEF LifecycleInv, TypeOK, StatusOf, Abstract!Busy
  <2>2. CASE told[f] = "none"
    <3>1. StatusOf(f)' = IF slot # f /\ {t \in Task : hold[t] = f} = {} THEN "unused"
                                                                       ELSE "abandoned"
      BY <1>1, <2>2 DEF StatusOf, Unannounced
    <3>2. IF slot # f /\ {t \in Task : hold[t] = f} = {}
          THEN StatusOf(f) = "unused" ELSE StatusOf(f) \in {"open", "starting", "closing"}
      BY <1>1, <2>2 DEF StatusOf, Unannounced
    <3> QED
      BY <3>1, <3>2 DEF Abstract!Busy
  <2> QED
    BY <2>1, <2>2
<1>3. [f \in File |-> StatusOf(f)]' = [f \in File |-> StatusOf(f)']
  OBVIOUS
<1>4. [f \in File |-> StatusOf(f)'] =
        [f \in File |-> IF [g \in File |-> StatusOf(g)][f] \in Abstract!Busy
                        THEN "abandoned" ELSE [g \in File |-> StatusOf(g)][f]]
  BY <1>2
<1> QED
  BY <1>1, <1>3, <1>4 DEF Abstract!Halt
-----------------------------------------------------------------------------
\* A step that changes no recording: the tasks that start one still do.
LEMMA Stutters ==
  ASSUME UNCHANGED <<told, slot, hold>>, Running' <=> Running,
         Running => \A t \in Task : pc'[t] \in StartPcs <=> pc[t] \in StartPcs
  PROVE  UNCHANGED Abstract!recorderVars
<1>1. \A f \in File : StatusOf(f)' = StatusOf(f)
  BY StatusFrame
<1> QED
  BY <1>1, StaysMaps

\* Every step of the controls is a step of Recorder or changes nothing of it.
LEMMA RefinementStep ==
  ASSUME LifecycleInv, OutcomeInv, HoldInv, [Next]_vars
  PROVE  [Abstract!RecorderNext]_(Abstract!recorderVars)
<1>t. TypeOK /\ Control
  BY DEF LifecycleInv
<1>1. ASSUME UNCHANGED <<told, slot, hold, pc>>, Running' <=> Running
      PROVE  UNCHANGED Abstract!recorderVars
  BY <1>1, Stutters
<1>2. CASE \/ Reading \/ LosePacket \/ ApplyBatch \/ LiveDies \/ CaptureWatch \/ PollTick
           \/ Exited \/ UNCHANGED vars
  BY <1>2, <1>1
  DEF Reading, LosePacket, ApplyBatch, LiveDies, CaptureWatch, PollTick, Exited, vars,
      recordVars, job, reportVars, Running
<1>3. ASSUME NEW f \in File, ChildHeader(f) \/ ChildExits(f)
      PROVE  UNCHANGED Abstract!recorderVars
  BY <1>3, <1>1 DEF ChildHeader, ChildExits, recordVars, job, reportVars, Running
<1>4. ASSUME NEW r \in Request, Ask(r) \/ Refuse(r)
      PROVE  UNCHANGED Abstract!recorderVars
  <2>1. UNCHANGED <<told, slot, hold, app>> /\ r \in Task
    BY <1>4 DEF Ask, Refuse, recordVars, job, reportVars, Task
  <2>2. \A t \in Task : pc'[t] \in StartPcs <=> pc[t] \in StartPcs
    BY <1>4, <1>t, <2>1 DEF Ask, Refuse, TypeOK, StartPcs, AskedPcs
  <2> QED
    BY <2>1, <2>2, Stutters DEF Running
<1>5. ASSUME NEW r \in Request, ClientLeaves(r) PROVE UNCHANGED Abstract!recorderVars
  BY <1>5, <1>1 DEF ClientLeaves, recordVars, job, reportVars, Running
<1>6. ASSUME NEW t \in Task, StartSpawn(t) \/ StartGivesUp(t)
      PROVE  UNCHANGED Abstract!recorderVars
  <2>1. UNCHANGED <<told, slot, hold, app>>
    BY <1>6 DEF StartSpawn, StartGivesUp, recordVars, job, reportVars
  <2>2. \A u \in Task : pc'[u] \in StartPcs <=> pc[u] \in StartPcs
    BY <1>6, <1>t DEF StartSpawn, StartGivesUp, TypeOK, StartPcs
  <2> QED
    BY <2>1, <2>2, Stutters DEF Running
<1>7. ASSUME NEW t \in Task,
             \/ StopChild(t) \/ ChildStopped(t) \/ DrainBegin(t) \/ DrainDone(t)
             \/ DrainTimeout(t) \/ Merge(t) \/ Tally(t)
      PROVE  UNCHANGED Abstract!recorderVars
  <2>1. UNCHANGED <<told, slot, hold, app>>
    BY <1>7
    DEF StopChild, ChildStopped, DrainBegin, DrainDone, DrainTimeout, Merge, Tally,
        recordVars, job, reportVars
  <2>2. /\ pc' = [pc EXCEPT ![t] = pc'[t]]
        /\ pc'[t] \notin StartPcs /\ pc[t] \notin StartPcs
    BY <1>7, <1>t
    DEF StopChild, ChildStopped, DrainBegin, DrainDone, DrainTimeout, Merge, Tally, TypeOK,
        StartPcs
  <2>3. \A u \in Task : pc'[u] \in StartPcs <=> pc[u] \in StartPcs
    BY <2>2, <1>t DEF TypeOK
  <2> QED
    BY <2>1, <2>3, Stutters DEF Running
<1>8. ASSUME NEW t \in Task, NEW rewritten \in BOOLEAN, NEW mapped \in BOOLEAN,
             ProcessFile(t, rewritten, mapped)
      PROVE  UNCHANGED Abstract!recorderVars
  <2>1. UNCHANGED <<told, slot, hold, app>>
    BY <1>8 DEF ProcessFile, Processed, recordVars
  <2>2. \A u \in Task : pc'[u] \in StartPcs <=> pc[u] \in StartPcs
    BY <1>8, <1>t DEF ProcessFile, Processed, TypeOK, StartPcs
  <2> QED
    BY <2>1, <2>2, Stutters DEF Running
<1>9. CASE \/ Quit \/ ServeReturns \/ ShutdownCheck \/ StopCapture \/ Exit
           \/ app = "finishing" /\ app' = "saving" /\ UNCHANGED <<pc, recordVars, job, reportVars>>
  <2>1. UNCHANGED <<told, slot, hold, pc>>
    BY <1>9
    DEF Quit, ServeReturns, ShutdownCheck, StopCapture, Exit, recordVars, job, reportVars
  <2>2. Running' <=> Running
    BY <1>9 DEF Quit, ServeReturns, ShutdownCheck, StopCapture, Exit, Running, Serving
  <2> QED
    BY <2>1, <2>2, <1>1
<1>10. ASSUME NEW t \in Task, Publish(t) \/ Unwind(t) \/ Report(t)
       PROVE  Abstract!RecorderNext
  <2>1. hold[t] \in File
    BY <1>10, <1>t
    DEF Publish, Unwind, Report, Control, Active, StartPcs, FinishPcs
  <2>2. PICK f \in File : f = hold[t]
    BY <2>1
  <2>3. Abstract!Open(f) \/ Abstract!Discard(f) \/ Abstract!Finish(f)
    BY <1>10, <2>2, OpenMaps, DiscardMaps, FinishMaps
  <2> QED
    BY <2>3 DEF Abstract!RecorderNext
<1>11. ASSUME NEW t \in Task, TakeRecording(t), Running, app' = app
       PROVE  Abstract!RecorderNext
  <2>1. PICK f \in File : f = slot
    BY <1>11, <1>t DEF TakeRecording, Control
  <2>2. Abstract!Close(f)
    BY <1>11, <2>1, CloseMaps
  <2> QED
    BY <2>2 DEF Abstract!RecorderNext
<1>12. CASE AutoStop
  BY <1>12, <1>11, <1>t, ActiveRuns DEF AutoStop, Task
<1>13. ASSUME NEW r \in Request, RequestStep(r)
       PROVE  Abstract!RecorderNext \/ UNCHANGED Abstract!recorderVars
  <2>1. CASE Refuse(r)
    BY <2>1, <1>4
  <2>2. CASE StopRequested(r)
    BY <2>2, <1>11, <1>t, ActiveRuns DEF StopRequested, Task
  <2>3. ASSUME NEW f \in File, NEW only \in BOOLEAN, StartBegin(r, f, only)
        PROVE  Abstract!RecorderNext
    BY <2>3, BeginMaps DEF Abstract!RecorderNext
  <2> QED
    BY <1>13, <2>1, <2>2, <2>3 DEF RequestStep
<1>14. CASE MainStep
  <2>1. CASE ShutdownFinish
    <3>1. Running /\ Main \in Task
      BY <2>1 DEF ShutdownFinish, Running, Task
    <3> QED
      BY <2>1, <3>1, <1>9, <1>11 DEF ShutdownFinish
  <2>2. CASE RuntimeDropped
    BY <2>2, HaltMaps DEF Abstract!RecorderNext
  <2> QED
    BY <1>14, <2>1, <2>2, <1>9 DEF MainStep
<1>15. ASSUME NEW t \in Task, TaskStep(t)
       PROVE  Abstract!RecorderNext \/ UNCHANGED Abstract!recorderVars
  BY <1>15, <1>6, <1>7, <1>8, <1>10 DEF TaskStep, StartStep, FinishStep
<1> QED
  BY <1>2, <1>3, <1>4, <1>5, <1>9, <1>12, <1>13, <1>14, <1>15 DEF Next

LEMMA RefinementInit == Init => Abstract!RecorderInit
<1> SUFFICES ASSUME Init PROVE Abstract!RecorderInit
  OBVIOUS
<1>1. Running /\ TypeOK
  BY LifecycleInit DEF Init, Running, LifecycleInv
<1>2. \A f \in File : StatusOf(f) = "unused"
  BY <1>1, StatusFacts, LifecycleAssumption DEF Init
<1>3. Running = TRUE
  BY <1>1
<1> QED
  BY <1>2, <1>3 DEF Abstract!RecorderInit

\* The recording controls implement Recorder (start_dump, finish_dump and
\* shutdown of main.rs): one recording at a time, each through its states in
\* order, each announced at most once and for good.
THEOREM RecorderIsImplemented == Spec => ImplementsRecorder
<1>1. LifecycleInv /\ OutcomeInv /\ HoldInv /\ [Next]_vars
        => [Abstract!RecorderNext]_(Abstract!recorderVars)
  BY RefinementStep
<1> QED
  BY <1>1, RefinementInit, LifecycleInvariant, OutcomeInvariant, HoldInvariant, PTL
  DEF Spec, ImplementsRecorder, Abstract!RecorderSpec
=============================================================================
