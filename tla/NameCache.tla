------------------------------ MODULE NameCache ------------------------------
(***************************************************************************)
(* The cache of names on the disk (src/src/cache.rs) and the runs of the    *)
(* program that load and save it: a periodic save and the save on exit, the *)
(* temporary file and the rename, failed writes, and crashes at any step.   *)
(*                                                                          *)
(* An instance is one run of the program.  The port keeps a second one out  *)
(* only while the first serves it: it is free again before shutdown has     *)
(* finished a dump and saved.  Expiry of names is left out.                 *)
(***************************************************************************)
CONSTANTS Instance, Name,
          Free,   \* nobody's turn to write
          Torn    \* what a file that is not a whole snapshot holds

ASSUME CacheAssumption ==
  /\ Free \notin {"timer", "exit"}
  /\ Torn \notin Name

VARIABLES
  life,    \* per instance: how far it is
  known,   \* per instance: names in Store::dns and App::whois
  turn,    \* per instance: the save that holds WRITING
  stage,   \* per save: how far save_to is
  shot,    \* per save: the snapshot it writes
  tmp,     \* per save: its temporary file on the disk
  file,    \* names.json; an absent file loads like one without names
  writer,  \* history: the instance that wrote the file last, if any
  failed,  \* history: instances with a failed save
  owed,    \* history, per instance: the names it knew when its last save was called
  before   \* history, per instance: those that had ended when it began

vars == <<life, known, turn, stage, shot, tmp, file, writer, failed, owed, before>>

Save == Instance \X {"timer", "exit"}

Serving(i) == life[i] \in {"bound", "swept", "up"}
Ended(i)   == life[i] \in {"exited", "crashed"}

TypeOK ==
  /\ life \in [Instance -> {"off", "bound", "swept", "up", "closing", "saving",
                            "leaving", "exited", "crashed"}]
  /\ known \in [Instance -> SUBSET Name]
  /\ turn \in [Instance -> {"timer", "exit", Free}]
  /\ stage \in [Save -> {"idle", "queued", "snapped", "created", "written"}]
  /\ shot \in [Save -> SUBSET Name]
  /\ tmp \in [Save -> {"none", "partial", "whole"}]
  /\ file \in (SUBSET Name) \cup {{Torn}}
  /\ writer \subseteq Instance /\ failed \subseteq Instance
  /\ owed \in [Instance -> SUBSET Name]
  /\ before \in [Instance -> SUBSET Instance]
  /\ \A i \in Instance, kind \in {"timer", "exit"} :
       turn[i] = kind <=> stage[<<i, kind>>] \in {"snapped", "created", "written"}

Init ==
  /\ life = [i \in Instance |-> "off"] /\ known = [i \in Instance |-> {}]
  /\ turn = [i \in Instance |-> Free]
  /\ stage = [s \in Save |-> "idle"] /\ shot = [s \in Save |-> {}]
  /\ tmp = [s \in Save |-> "none"]
  /\ file = {} /\ writer = {} /\ failed = {}
  /\ owed = [i \in Instance |-> {}] /\ before = [i \in Instance |-> {}]
-----------------------------------------------------------------------------
(* The start of an instance.                                                *)

\* bind_port: an instance that serves is asked to show its window instead.
Bind(i) ==
  /\ life[i] = "off" /\ \A j \in Instance : ~Serving(j)
  /\ life' = [life EXCEPT ![i] = "bound"]
  /\ before' = [before EXCEPT ![i] = {j \in Instance : Ended(j)}]
  /\ UNCHANGED <<known, turn, stage, shot, tmp, file, writer, failed, owed>>

\* remove_stale_tmp: whatever looks like a temporary file of the cache.
Sweep(i) ==
  /\ life[i] = "bound"
  /\ life' = [life EXCEPT ![i] = "swept"]
  /\ tmp' = [s \in Save |-> "none"]
  /\ UNCHANGED <<known, turn, stage, shot, file, writer, failed, owed, before>>

\* load_from: a file that cannot be parsed is an empty cache.
Load(i) ==
  /\ life[i] = "swept"
  /\ life' = [life EXCEPT ![i] = "up"]
  /\ known' = [known EXCEPT ![i] = IF file \subseteq Name THEN file ELSE {}]
  /\ UNCHANGED <<turn, stage, shot, tmp, file, writer, failed, owed, before>>

\* A DNS answer or a lookup; packets are read until the runtime is dropped.
Learn(i, n) ==
  /\ life[i] \in {"up", "closing", "saving"}
  /\ known' = [known EXCEPT ![i] = @ \cup {n}]
  /\ UNCHANGED <<life, turn, stage, shot, tmp, file, writer, failed, owed, before>>
-----------------------------------------------------------------------------
(* save_to                                                                  *)

Queue(i, kind) == /\ stage[<<i, kind>>] = "idle"
                  /\ stage' = [stage EXCEPT ![<<i, kind>>] = "queued"]

\* cache_loop spawns a blocking job.  Bound: none while the last one is queued.
Tick(i) ==
  /\ life[i] \in {"up", "closing", "saving"}
  /\ Queue(i, "timer")
  /\ UNCHANGED <<life, known, turn, shot, tmp, file, writer, failed, owed, before>>

\* Mutant: a save takes its snapshot while another one is written.
SnapshotAtOnce(i, kind) ==
  /\ stage[<<i, kind>>] = "queued"
  /\ turn' = [turn EXCEPT ![i] = kind]
  /\ shot' = [shot EXCEPT ![<<i, kind>>] = known[i]]
  /\ stage' = [stage EXCEPT ![<<i, kind>>] = "snapped"]
  /\ UNCHANGED <<life, known, tmp, file, writer, failed, owed, before>>

\* WRITING is taken, then the snapshot, under the application lock.
Snapshot(i, kind) ==
  /\ stage[<<i, kind>>] = "queued" /\ turn[i] = Free
  /\ turn' = [turn EXCEPT ![i] = kind]
  /\ shot' = [shot EXCEPT ![<<i, kind>>] = known[i]]
  /\ stage' = [stage EXCEPT ![<<i, kind>>] = "snapped"]
  /\ UNCHANGED <<life, known, tmp, file, writer, failed, owed, before>>

\* write_atomic: create_new under a name of its own.
Create(i, kind) ==
  /\ stage[<<i, kind>>] = "snapped"
  /\ stage' = [stage EXCEPT ![<<i, kind>>] = "created"]
  /\ tmp' = [tmp EXCEPT ![<<i, kind>>] = "partial"]
  /\ UNCHANGED <<life, known, turn, shot, file, writer, failed, owed, before>>

\* write_atomic: write_all and sync_all, also into a file that was removed.
Write(i, kind) ==
  /\ stage[<<i, kind>>] = "created"
  /\ stage' = [stage EXCEPT ![<<i, kind>>] = "written"]
  /\ tmp' = [tmp EXCEPT ![<<i, kind>>] = IF @ = "partial" THEN "whole" ELSE @]
  /\ UNCHANGED <<life, known, turn, shot, file, writer, failed, owed, before>>

SaveEnds(i, kind) == /\ stage' = [stage EXCEPT ![<<i, kind>>] = "idle"]
                     /\ turn' = [turn EXCEPT ![i] = Free]
                     /\ shot' = [shot EXCEPT ![<<i, kind>>] = {}]
                     /\ tmp' = [tmp EXCEPT ![<<i, kind>>] = "none"]

\* Mutant: the file is renamed as soon as it exists.
RenameEarly(i, kind) ==
  /\ stage[<<i, kind>>] \in {"created", "written"} /\ tmp[<<i, kind>>] # "none"
  /\ file' = IF tmp[<<i, kind>>] = "whole" THEN shot[<<i, kind>>] ELSE {Torn}
  /\ writer' = {i}
  /\ SaveEnds(i, kind)
  /\ UNCHANGED <<life, known, failed, owed, before>>

\* write_atomic: rename.
Rename(i, kind) ==
  /\ stage[<<i, kind>>] = "written" /\ tmp[<<i, kind>>] # "none"
  /\ file' = IF tmp[<<i, kind>>] = "whole" THEN shot[<<i, kind>>] ELSE {Torn}
  /\ writer' = {i}
  /\ SaveEnds(i, kind)
  /\ UNCHANGED <<life, known, failed, owed, before>>

\* An error, of the file system or because the temporary file has been removed.
Fail(i, kind) ==
  /\ stage[<<i, kind>>] \in {"snapped", "created", "written"}
  /\ failed' = failed \cup {i}
  /\ SaveEnds(i, kind)
  /\ UNCHANGED <<life, known, file, writer, owed, before>>

SaveStep(i, kind) == \/ Snapshot(i, kind) \/ Create(i, kind) \/ Write(i, kind)
                     \/ Rename(i, kind) \/ Fail(i, kind)
-----------------------------------------------------------------------------
(* The end of an instance.                                                  *)

\* The server returns; a dump may be finished before the save.
Close(i) ==
  /\ life[i] = "up"
  /\ life' = [life EXCEPT ![i] = "closing"]
  /\ UNCHANGED <<known, turn, stage, shot, tmp, file, writer, failed, owed, before>>

\* shutdown calls cache::save.
ExitSave(i) ==
  /\ life[i] = "closing"
  /\ life' = [life EXCEPT ![i] = "saving"]
  /\ Queue(i, "exit")
  /\ owed' = [owed EXCEPT ![i] = known[i]]
  /\ UNCHANGED <<known, turn, shot, tmp, file, writer, failed, before>>

\* Mutant: the last save is a job that nobody waits for.
LeaveEarly(i) ==
  /\ life[i] = "saving"
  /\ life' = [life EXCEPT ![i] = "leaving"]
  /\ stage' = [stage EXCEPT ![<<i, "exit">>] = IF @ = "queued" THEN "idle" ELSE @]
  /\ UNCHANGED <<known, turn, shot, tmp, file, writer, failed, owed, before>>

\* main returns: a job of the timer that has not begun may never begin.
Leave(i) ==
  /\ life[i] = "saving" /\ stage[<<i, "exit">>] = "idle"
  /\ life' = [life EXCEPT ![i] = "leaving"]
  /\ \/ UNCHANGED stage
     \/ stage' = [stage EXCEPT ![<<i, "timer">>] = IF @ = "queued" THEN "idle" ELSE @]
  /\ UNCHANGED <<known, turn, shot, tmp, file, writer, failed, owed, before>>

\* The runtime waits for the blocking jobs that have begun.
Exit(i) ==
  /\ life[i] = "leaving" /\ \A s \in Save : s[1] = i => stage[s] = "idle"
  /\ life' = [life EXCEPT ![i] = "exited"]
  /\ known' = [known EXCEPT ![i] = {}]
  /\ UNCHANGED <<turn, stage, shot, tmp, file, writer, failed, owed, before>>

\* The program is killed; files stay as they are.
Crash(i) ==
  /\ life[i] # "off" /\ ~Ended(i)
  /\ life' = [life EXCEPT ![i] = "crashed"]
  /\ stage' = [s \in Save |-> IF s[1] = i THEN "idle" ELSE stage[s]]
  /\ shot' = [s \in Save |-> IF s[1] = i THEN {} ELSE shot[s]]
  /\ turn' = [turn EXCEPT ![i] = Free]
  /\ known' = [known EXCEPT ![i] = {}]
  /\ UNCHANGED <<tmp, file, writer, failed, owed, before>>

InstanceStep(i) ==
  \/ Bind(i) \/ Sweep(i) \/ Load(i) \/ Tick(i)
  \/ \E n \in Name : Learn(i, n)
  \/ \E kind \in {"timer", "exit"} : SaveStep(i, kind)
  \/ Close(i) \/ ExitSave(i) \/ Leave(i) \/ Exit(i) \/ Crash(i)

Next == \E i \in Instance : InstanceStep(i)

Spec == Init /\ [][Next]_vars
-----------------------------------------------------------------------------
(* cache.rs, write_atomic: whatever fails or crashes, in one instance or in  *)
(* two, the file is absent or a whole snapshot.                              *)
FileIsWhole == file \subseteq Name

(* cache.rs, save: the periodic save and the save on exit may end in any     *)
(* order only if the newer snapshot stays: within one instance the file      *)
(* never loses names.                                                        *)
SavesInOrder == [][writer' = writer /\ writer # {} => file \subseteq file']_vars

Overlap(i, j) == /\ life[i] # "off" /\ j \notin before[i]
                 /\ life[j] # "off" /\ i \notin before[j]

(* main.rs, shutdown: whatever periodic save is on its way, and whatever      *)
(* ran and crashed before, an instance that has exited without a failed save  *)
(* has left what it knew when its last save was called, and it stays there,   *)
(* provided that no other instance ran at the same time.                      *)
ExitIsKept ==
  \A i \in Instance :
    life[i] = "exited" /\ i \notin failed /\ (\A j \in Instance \ {i} : ~Overlap(i, j))
      => owed[i] \subseteq file
=============================================================================
