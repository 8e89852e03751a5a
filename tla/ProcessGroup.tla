------------------------------ MODULE ProcessGroup ------------------------------
(***************************************************************************)
(* The selected process, its group and the processes of a recording: the    *)
(* scanner of src/src/procs/linux.rs, which reads /proc entry by entry, and *)
(* what the poll loop, api_select and start_dump of src/src/main.rs make of *)
(* the list.                                                                *)
(*                                                                          *)
(* Start times are numbers that no two processes share, so one names a      *)
(* process; its pid may be used again.                                      *)
(***************************************************************************)
EXTENDS Integers, FiniteSets, Functions

CONSTANTS
  MaxPid, MaxBirths,  \* bounds: pids and processes
  FullEvery,          \* every so many polls read all processes
  MaxDumpProcs

GroupParameters ==
  /\ MaxPid \in Nat \ {0} /\ MaxBirths \in Nat
  /\ FullEvery \in Nat \ {0} /\ MaxDumpProcs \in Nat \ {0}

Pid == 1..MaxPid
Start == 1..MaxBirths
Nobody == 0           \* no pid, no process, and the parent of orphans

VARIABLES
  proc,     \* kernel, per pid: start time of its process, or Nobody
  parent,   \* kernel, per pid: pid of the parent
  origin,   \* history, per process started so far: the process that forked it
  stale,    \* kernel: pids that are not used again yet
  absent,   \* kernel: those of them that this full poll cannot find
  tick,     \* poll_loop: polls so far, modulo FullEvery
  scan,     \* poll_loop: pids this poll reads, NoScan between polls
  todo,     \* poll_loop: pids of the scan not read yet
  read,     \* poll_loop: what was read
  atBegin,  \* history: processes that ran when the poll began
  followed, \* history: the recording was there when the poll began
  procs,    \* App::procs
  selected, instance, group,  \* App::selected, selected_instance, group
  starting, \* start_dump: what it read before dumpcap started, or NoMeta
  meta      \* App::dump_meta of a recording of a process, or NoMeta

kernelVars == <<proc, parent, origin, stale, absent>>
scanVars   == <<tick, scan, todo, read, atBegin, followed>>
appVars    == <<procs, selected, instance, group, starting, meta>>
groupVars == <<kernelVars, scanVars, appVars>>

NoScan  == {Nobody}
Entry   == [started : Start, ppid : Pid \cup {Nobody}]
Listing == UNION {[S -> Entry] : S \in SUBSET Pid}
Empty   == [p \in {} |-> Nobody]
Identity == Pid \X Start
NoMeta == [instances |-> {}, pids |-> {}, roots |-> {}, alive |-> FALSE, limit |-> FALSE]
\* DumpMeta; roots is history: the processes it began with.
Meta == [instances : SUBSET Identity, pids : SUBSET Pid, roots : SUBSET Start,
         alive : BOOLEAN, limit : BOOLEAN]

GroupTypeOK ==
  /\ proc \in [Pid -> Start \cup {Nobody}] /\ parent \in [Pid -> Pid \cup {Nobody}]
  /\ \E n \in 0..MaxBirths : origin \in [1..n -> 0..n]
  /\ stale \subseteq Pid /\ absent \subseteq stale /\ tick \in 0..FullEvery - 1
  /\ scan = NoScan \/ scan \subseteq Pid
  /\ todo \subseteq scan \ {Nobody} /\ read \in Listing /\ DOMAIN read \subseteq scan \ todo
  /\ atBegin \subseteq Start /\ followed \in BOOLEAN
  /\ procs \in Listing /\ selected \in Pid \cup {Nobody} /\ instance \in Start \cup {Nobody}
  /\ group \subseteq Pid
  /\ starting \in Meta /\ meta \in Meta /\ NoMeta \in {starting, meta}
  /\ Cardinality(meta.instances) <= MaxDumpProcs

Recording == meta # NoMeta
Living == {proc[p] : p \in Pid} \ {Nobody}
Births  == Cardinality(DOMAIN origin)

GroupInit ==
  /\ proc = [p \in Pid |-> Nobody] /\ parent = [p \in Pid |-> Nobody]
  /\ origin = Empty /\ stale = {} /\ absent = {}
  /\ tick = 0 /\ scan = NoScan /\ todo = {} /\ read = Empty
  /\ atBegin = {} /\ followed = FALSE
  /\ procs = Empty /\ selected = Nobody /\ instance = Nobody /\ group = {}
  /\ starting = NoMeta /\ meta = NoMeta
-----------------------------------------------------------------------------
(* The kernel.  A pid is not used again before one full poll has begun and   *)
(* ended without its process: pids are handed out in turn, and the counter   *)
(* does not come round within the two seconds between full polls.            *)

Birth(p, by) ==
  /\ proc[p] = Nobody /\ p \notin stale /\ Births < MaxBirths
  /\ by # Nobody => proc[by] # Nobody
  /\ proc' = [proc EXCEPT ![p] = Births + 1]
  /\ parent' = [parent EXCEPT ![p] = by]
  /\ origin' = [s \in 1..Births + 1 |->
                  IF s <= Births THEN origin[s] ELSE IF by = Nobody THEN Nobody ELSE proc[by]]
  /\ UNCHANGED <<stale, absent, scanVars, appVars>>

\* Children of the dead are given to init.
Death(p) ==
  /\ proc[p] # Nobody
  /\ proc' = [proc EXCEPT ![p] = Nobody]
  /\ parent' = [q \in Pid |-> IF q = p \/ parent[q] = p THEN Nobody ELSE parent[q]]
  /\ stale' = stale \cup {p}
  /\ UNCHANGED <<origin, absent, scanVars, appVars>>
-----------------------------------------------------------------------------
(* The scanner.                                                              *)

Full == tick = 1 % FullEvery

\* Mutant: the partial polls read the selected group only.
ScanOfGroup == IF (tick + 1) % FullEvery = 1 % FullEvery THEN Pid ELSE group

\* The pids of a poll: all of /proc, or the group and the recorded processes.
ScanOf == IF (tick + 1) % FullEvery = 1 % FullEvery THEN Pid ELSE group \cup meta.pids

PollBegin ==
  /\ scan = NoScan
  /\ tick' = (tick + 1) % FullEvery
  /\ scan' = ScanOf /\ todo' = scan'
  /\ atBegin' = Living /\ followed' = Recording
  /\ absent' = IF tick' = 1 % FullEvery THEN stale ELSE {}
  /\ UNCHANGED <<proc, parent, origin, stale, read, appVars>>

\* Scanner::update: pids are read in turn.  The cache saves reading the command
\* line again; the start time and the parent are always read.
ScanPid(p) ==
  /\ p \in todo /\ \A q \in todo : p <= q
  /\ todo' = todo \ {p}
  /\ read' = [q \in DOMAIN read \cup (IF proc[p] = Nobody THEN {} ELSE {p}) |->
                IF q = p THEN [started |-> proc[p], ppid |-> parent[p]] ELSE read[q]]
  /\ UNCHANGED <<kernelVars, tick, scan, atBegin, followed, appVars>>
-----------------------------------------------------------------------------
(* Groups.                                                                   *)

\* procs::descendants_from: the roots, listed or not, and what is below them.  Its
\* loop ends with the least set that has them and the children of its members.
Children(list, S) == {p \in DOMAIN list : list[p].ppid \in S}
Descendants(list, roots) ==
  {p \in Pid : \A S \in SUBSET Pid : roots \subseteq S /\ Children(list, S) \subseteq S => p \in S}

Identities(list, S) == {<<p, list[p].started>> : p \in S \cap DOMAIN list}

\* Mutant: a process that is listed under the selected pid is the selected one.
GroupByPid(list, full) ==
  /\ UNCHANGED <<selected, instance>>
  /\ group' = CASE selected = Nobody -> group
                [] selected # Nobody /\ selected \notin DOMAIN list -> {}
                [] OTHER -> IF full THEN Descendants(list, {selected}) ELSE group

\* refresh_selected_group.
RefreshGroup(list, full) ==
  \/ selected = Nobody /\ UNCHANGED <<selected, instance, group>>
  \/ /\ selected # Nobody /\ selected \notin DOMAIN list
     /\ group' = {} /\ UNCHANGED <<selected, instance>>
  \/ /\ selected \in DOMAIN list /\ list[selected].started = instance
     /\ group' = IF full THEN Descendants(list, {selected}) ELSE group
     /\ UNCHANGED <<selected, instance>>
  \/ /\ selected \in DOMAIN list /\ list[selected].started # instance
     /\ selected' = Nobody /\ instance' = Nobody /\ group' = {}

\* Mutant: recorded pids are followed whoever has them.
LivePids(m, list) == {id[1] : id \in m.instances} \cap DOMAIN list

\* The recorded processes that the list still shows.
LiveRoots(m, list) == {id[1] : id \in m.instances \cap Identities(list, DOMAIN list)}

\* Mutant: the limit on recorded processes is not applied.
TrackAll(list) ==
  IF ~Recording THEN UNCHANGED meta
  ELSE LET roots  == LiveRoots(meta, list)
           joined == meta.instances \cup Identities(list, Descendants(list, roots))
       IN meta' = [meta EXCEPT !.instances = joined, !.pids = @ \cup {id[1] : id \in joined},
                               !.alive = roots # {}]

\* track_dump: descendants of recorded processes join, up to the limit.
TrackDump(list) ==
  IF ~Recording THEN UNCHANGED meta
  ELSE LET roots  == LiveRoots(meta, list)
           joined == meta.instances \cup Identities(list, Descendants(list, roots))
           over   == Cardinality(joined) > MaxDumpProcs
       IN \E kept \in IF over
                      THEN {k \in SUBSET joined : meta.instances \subseteq k /\
                                                  Cardinality(k) = MaxDumpProcs}
                      ELSE {joined} :
            meta' = [meta EXCEPT !.instances = kept, !.pids = @ \cup {id[1] : id \in kept},
                                 !.alive = roots # {}, !.limit = @ \/ over]

\* The end of a poll: what a partial poll read is merged with the last list.
PollApply ==
  /\ scan # NoScan /\ todo = {}
  /\ procs' = [p \in DOMAIN read \cup (DOMAIN procs \ scan) |->
                 IF p \in scan THEN read[p] ELSE procs[p]]
  /\ RefreshGroup(procs', Full) /\ TrackDump(procs')
  /\ stale' = stale \ absent /\ absent' = {}
  /\ scan' = NoScan /\ read' = Empty /\ atBegin' = {} /\ followed' = FALSE
  /\ UNCHANGED <<proc, parent, origin, tick, todo, starting>>

\* api_select.
Select(pid) ==
  /\ selected' = pid
  /\ instance' = IF pid \in DOMAIN procs THEN procs[pid].started ELSE Nobody
  /\ group' = IF pid = Nobody THEN {} ELSE Descendants(procs, {pid})
  /\ UNCHANGED <<kernelVars, scanVars, procs, starting, meta>>

\* start_dump, before dumpcap starts: the selected process is the one selected.
StartDump ==
  /\ starting = NoMeta /\ ~Recording
  /\ selected \in DOMAIN procs /\ procs[selected].started = instance
  /\ Cardinality(group) <= MaxDumpProcs
  /\ LET members == Identities(procs, group)
     IN starting' = [instances |-> members, pids |-> group, alive |-> TRUE, limit |-> FALSE,
                     roots |-> {id[2] : id \in members}]
  /\ UNCHANGED <<kernelVars, scanVars, procs, selected, instance, group, meta>>

\* start_dump, after it: the recording is there, or dumpcap did not start.
Publish ==
  /\ starting # NoMeta
  /\ starting' = NoMeta /\ meta' \in {starting, NoMeta}
  /\ UNCHANGED <<kernelVars, scanVars, procs, selected, instance, group>>

\* finish_dump takes the recording, asked to or by itself.
StopDump ==
  /\ Recording
  /\ meta' = NoMeta /\ followed' = FALSE
  /\ UNCHANGED <<kernelVars, tick, scan, todo, read, atBegin,
                 procs, selected, instance, group, starting>>

GroupNext ==
  \/ \E p \in Pid, by \in Pid \cup {Nobody} : Birth(p, by)
  \/ \E p \in Pid : Death(p) \/ ScanPid(p)
  \/ PollBegin \/ PollApply
  \/ \E pid \in Pid \cup {Nobody} : Select(pid)
  \/ StartDump \/ Publish \/ StopDump

GroupSpec == GroupInit /\ [][GroupNext]_groupVars
-----------------------------------------------------------------------------
\* A process and all that it descends from: the least set that has it and, for
\* each of its members, the process that forked it.
LineOf(o, s) ==
  {r \in DOMAIN o : \A S \in SUBSET DOMAIN o :
     s \in S /\ (\A t \in S : o[t] # Nobody => o[t] \in S) => r \in S}
Line(s) == LineOf(origin, s)

(* docs/how-it-works.md: a reused PID cannot join an existing recording       *)
(* group.  Whoever is recorded was there when the recording began or descends *)
(* from one who was, although lists are read entry by entry, are merged from  *)
(* polls of different times, and name parents by pid.                         *)
MembersDescend ==
  \A id \in meta.instances : Line(id[2]) \cap meta.roots # {}

(* A reused PID cannot keep its old selection: what the list shows of the     *)
(* selected pid and its group is the process that was selected and its        *)
(* descendants, also while only the group is polled (a pid that is not listed *)
(* when it is selected is given up as soon as it is).                         *)
GroupIsOfSelected ==
  instance # Nobody =>
    /\ selected \in DOMAIN procs => procs[selected].started = instance
    /\ \A p \in group \cap DOMAIN procs : instance \in Line(procs[p].started)

(* A process-only recording ends by itself when its group has exited, and not *)
(* before: a poll finds the group alive if a recorded process ran all the     *)
(* while, and only if one ran when the poll began.                            *)
GroupEndIsSeen ==
  [][PollApply /\ followed /\ Recording =>
       LET members == {id[2] : id \in meta.instances} IN
       /\ members \cap atBegin \cap Living # {} => meta'.alive
       /\ meta'.alive => members \cap atBegin # {}]_groupVars
=============================================================================
