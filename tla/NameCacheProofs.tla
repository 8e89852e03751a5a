--------------------------- MODULE NameCacheProofs ---------------------------
(***************************************************************************)
(* The cache of names for any number of runs of the program and any set of  *)
(* names: the file is always a whole snapshot, one run never replaces its   *)
(* own snapshot by an older one, and a run leaves what it knew on exit.     *)
(***************************************************************************)
EXTENDS NameCache, TLAPS

Kind == {"timer", "exit"}

\* A written temporary file is whole, unless it has been removed.
WholeOnceWritten ==
  /\ \A s \in Save : stage[s] = "written" => tmp[s] # "partial"
  /\ FileIsWhole

\* An instance saves only while it runs.
OnlyRunningSaves ==
  \A i \in Instance : life[i] \in {"off", "bound", "swept", "exited", "crashed"} =>
    \A kind \in Kind : stage[<<i, kind>>] = "idle"

\* The instance that wrote last knows what is in the file, and so does the
\* save of it that is under way.
WriterKnows(i) ==
  /\ life[i] \in {"off", "bound", "swept"} => writer # {i}
  /\ writer = {i} /\ ~Ended(i) => file \subseteq known[i]
  /\ \A kind \in Kind : turn[i] = kind =>
       /\ shot[<<i, kind>>] \subseteq known[i]
       /\ writer = {i} => file \subseteq shot[<<i, kind>>]

CacheInv ==
  /\ TypeOK
  /\ WholeOnceWritten
  /\ OnlyRunningSaves
  /\ \A i \in Instance : WriterKnows(i)
  /\ writer = {} \/ \E i \in Instance : writer = {i}
-----------------------------------------------------------------------------
(* Types.                                                                   *)

LEMMA CacheTypeInit == Init => TypeOK
  BY CacheAssumption DEF Init, TypeOK, Save

LEMMA StartTypes ==
  ASSUME TypeOK, NEW i \in Instance,
         Bind(i) \/ Sweep(i) \/ Load(i) \/ \E n \in Name : Learn(i, n)
  PROVE  TypeOK'
<1>1. CASE Bind(i)
  BY <1>1 DEF TypeOK, Bind
<1>2. CASE Sweep(i)
  BY <1>2 DEF TypeOK, Sweep
<1>3. CASE Load(i)
  BY <1>3 DEF TypeOK, Load
<1>4. CASE \E n \in Name : Learn(i, n)
  BY <1>4 DEF TypeOK, Learn
<1> QED
  BY <1>1, <1>2, <1>3, <1>4

LEMMA SaveTypes ==
  ASSUME TypeOK, NEW i \in Instance, NEW kind \in Kind, SaveStep(i, kind)
  PROVE  TypeOK'
<1> <<i, kind>> \in Save
  BY DEF Save, Kind
<1>1. CASE Snapshot(i, kind)
  BY <1>1, CacheAssumption DEF TypeOK, Snapshot, Save, Kind
<1>2. CASE Create(i, kind)
  BY <1>2, CacheAssumption DEF TypeOK, Create, Save, Kind
<1>3. CASE Write(i, kind)
  BY <1>3, CacheAssumption DEF TypeOK, Write, Save, Kind
<1>4. CASE Rename(i, kind)
  BY <1>4, CacheAssumption DEF TypeOK, Rename, SaveEnds, Save, Kind
<1>5. CASE Fail(i, kind)
  BY <1>5, CacheAssumption DEF TypeOK, Fail, SaveEnds, Save, Kind
<1> QED
  BY <1>1, <1>2, <1>3, <1>4, <1>5 DEF SaveStep

LEMMA EndTypes ==
  ASSUME TypeOK, NEW i \in Instance,
         Tick(i) \/ Close(i) \/ ExitSave(i) \/ Leave(i) \/ Exit(i) \/ Crash(i)
  PROVE  TypeOK'
<1> <<i, "timer">> \in Save /\ <<i, "exit">> \in Save
  BY DEF Save
<1>1. CASE Tick(i)
  BY <1>1 DEF TypeOK, Tick, Queue, Save
<1>2. CASE Close(i)
  BY <1>2 DEF TypeOK, Close
<1>3. CASE ExitSave(i)
  BY <1>3 DEF TypeOK, ExitSave, Queue, Save
<1>4. CASE Leave(i)
  <2>1. CASE UNCHANGED stage
    BY <1>4, <2>1 DEF TypeOK, Leave
  <2>2. CASE stage' = [stage EXCEPT ![<<i, "timer">>] = IF @ = "queued" THEN "idle" ELSE @]
    <3>1. /\ stage' \in [Save -> {"idle", "queued", "snapped", "created", "written"}]
          /\ \A s \in Save : stage'[s] \in {"snapped", "created", "written"}
                              <=> stage[s] \in {"snapped", "created", "written"}
      BY <2>2 DEF TypeOK
    <3>2. \A j \in Instance, kind \in {"timer", "exit"} :
            turn'[j] = kind <=> stage'[<<j, kind>>] \in {"snapped", "created", "written"}
      <4>1. turn' = turn
        BY <1>4 DEF Leave
      <4>2. \A j \in Instance, kind \in {"timer", "exit"} : <<j, kind>> \in Save
        BY DEF Save
      <4>3. \A j \in Instance, kind \in {"timer", "exit"} :
              turn[j] = kind <=> stage[<<j, kind>>] \in {"snapped", "created", "written"}
        BY DEF TypeOK
      <4> QED
        BY <3>1, <4>1, <4>2, <4>3
    <3> QED
      BY <1>4, <3>1, <3>2 DEF TypeOK, Leave
  <2> QED
    BY <1>4, <2>1, <2>2 DEF Leave
<1>5. CASE Exit(i)
  BY <1>5 DEF TypeOK, Exit
<1>6. CASE Crash(i)
  BY <1>6, CacheAssumption DEF TypeOK, Crash, Save
<1> QED
  BY <1>1, <1>2, <1>3, <1>4, <1>5, <1>6

\* The actions of one instance, in the three groups the lemmas are about.
LEMMA InstanceActions ==
  ASSUME [Next]_vars
  PROVE  \/ UNCHANGED vars
         \/ \E i \in Instance :
              \/ Bind(i) \/ Sweep(i) \/ Load(i) \/ \E n \in Name : Learn(i, n)
              \/ \E kind \in Kind : SaveStep(i, kind)
              \/ Tick(i) \/ Close(i) \/ ExitSave(i) \/ Leave(i) \/ Exit(i) \/ Crash(i)
  BY DEF Next, InstanceStep, Kind

-----------------------------------------------------------------------------
(* The file is whole, and only instances that run save.                     *)

LEMMA WholeStep ==
  ASSUME TypeOK, TypeOK', WholeOnceWritten, [Next]_vars
  PROVE  WholeOnceWritten'
<1> USE DEF WholeOnceWritten, FileIsWhole
<1>0. CASE UNCHANGED vars
  BY <1>0 DEF vars
<1>1. ASSUME NEW i \in Instance,
             Bind(i) \/ Load(i) \/ (\E n \in Name : Learn(i, n)) \/ Close(i) \/ Exit(i)
      PROVE  WholeOnceWritten'
  BY <1>1 DEF Bind, Load, Learn, Close, Exit
<1>2. ASSUME NEW i \in Instance, Sweep(i) PROVE WholeOnceWritten'
  BY <1>2 DEF Sweep
<1>3. ASSUME NEW i \in Instance, Tick(i) \/ ExitSave(i) \/ Leave(i) \/ Crash(i)
      PROVE  WholeOnceWritten'
  <2>1. \A s \in Save : stage'[s] = "written" => stage[s] = "written"
    BY <1>3 DEF TypeOK, Tick, ExitSave, Queue, Leave, Crash
  <2>2. tmp' = tmp /\ file' = file
    BY <1>3 DEF Tick, ExitSave, Leave, Crash
  <2> QED
    BY <2>1, <2>2
<1>4. ASSUME NEW i \in Instance, NEW kind \in Kind, SaveStep(i, kind) PROVE WholeOnceWritten'
  <2> DEFINE s0 == <<i, kind>>
  <2> s0 \in Save
    BY DEF Save, Kind
  <2>1. CASE Snapshot(i, kind)
    BY <2>1 DEF TypeOK, Snapshot
  <2>2. CASE Create(i, kind)
    BY <2>2 DEF TypeOK, Create
  <2>3. CASE Write(i, kind)
    BY <2>3 DEF TypeOK, Write
  <2>4. CASE Rename(i, kind)
    BY <2>4 DEF TypeOK, Rename, SaveEnds
  <2>5. CASE Fail(i, kind)
    BY <2>5 DEF TypeOK, Fail, SaveEnds
  <2> QED
    BY <1>4, <2>1, <2>2, <2>3, <2>4, <2>5 DEF SaveStep
<1> QED
  BY <1>0, <1>1, <1>2, <1>3, <1>4, InstanceActions

LEMMA RunningStep ==
  ASSUME TypeOK, OnlyRunningSaves, [Next]_vars
  PROVE  OnlyRunningSaves'
<1> DEFINE NoSave == {"off", "bound", "swept", "exited", "crashed"}
<1>0. CASE UNCHANGED vars
  BY <1>0 DEF vars, OnlyRunningSaves
<1>1. ASSUME NEW i \in Instance,
             Bind(i) \/ Sweep(i) \/ Load(i) \/ (\E n \in Name : Learn(i, n)) \/ Close(i) \/ Exit(i)
      PROVE  OnlyRunningSaves'
  <2>1. /\ stage' = stage
        /\ \A j \in Instance : life'[j] \in NoSave =>
             \/ life[j] \in NoSave
             \/ \A kind \in Kind : stage[<<j, kind>>] = "idle"
    BY <1>1 DEF TypeOK, Bind, Sweep, Load, Learn, Close, Exit, Save, Kind
  <2> QED
    BY <2>1 DEF OnlyRunningSaves
<1>2. ASSUME NEW i \in Instance, NEW kind \in Kind, SaveStep(i, kind) PROVE OnlyRunningSaves'
  <2>1. /\ life' = life /\ stage[<<i, kind>>] # "idle"
        /\ \A s \in Save : s # <<i, kind>> => stage'[s] = stage[s]
    BY <1>2 DEF TypeOK, SaveStep, Snapshot, Create, Write, Rename, Fail, SaveEnds
  <2> QED
    BY <2>1 DEF OnlyRunningSaves, Save, Kind
<1>3. ASSUME NEW i \in Instance, Tick(i) \/ ExitSave(i) \/ Leave(i) PROVE OnlyRunningSaves'
  <2>1. /\ life[i] \notin NoSave /\ life'[i] \notin NoSave
        /\ \A j \in Instance \ {i} : life'[j] = life[j]
    BY <1>3 DEF TypeOK, Tick, ExitSave, Leave
  <2>2. \A s \in Save : s[1] # i => stage'[s] = stage[s]
    BY <1>3 DEF TypeOK, Tick, ExitSave, Queue, Leave, Save
  <2> QED
    BY <2>1, <2>2 DEF OnlyRunningSaves, Save, Kind
<1>4. ASSUME NEW i \in Instance, Crash(i) PROVE OnlyRunningSaves'
  <2>1. \A j \in Instance \ {i} : life'[j] = life[j]
    BY <1>4 DEF TypeOK, Crash
  <2>2. \A s \in Save : stage'[s] = IF s[1] = i THEN "idle" ELSE stage[s]
    BY <1>4 DEF Crash
  <2> QED
    BY <2>1, <2>2 DEF OnlyRunningSaves, Save, Kind
<1> QED
  BY <1>0, <1>1, <1>2, <1>3, <1>4, InstanceActions
-----------------------------------------------------------------------------
(* The last writer knows what is in the file.                               *)

\* What holds in CacheInv when an instance has saved or may save.
LEMMA Knowing ==
  ASSUME CacheInv, NEW i \in Instance
  PROVE  /\ WriterKnows(i)
         /\ \A kind \in Kind : <<i, kind>> \in Save
         /\ \A kind \in Kind : stage[<<i, kind>>] # "idle" => ~Ended(i) /\ life[i] \notin {"off", "bound", "swept"}
         /\ \A kind \in Kind : turn[i] = kind <=> stage[<<i, kind>>] \in {"snapped", "created", "written"}
  BY DEF CacheInv, TypeOK, OnlyRunningSaves, Ended, Save, Kind

LEMMA WriterKnowsStep ==
  ASSUME CacheInv, [Next]_vars, NEW w \in Instance
  PROVE  WriterKnows(w)'
<1>t. TypeOK /\ WriterKnows(w) /\ FileIsWhole
  BY DEF CacheInv, WholeOnceWritten
<1>0. CASE UNCHANGED vars
  BY <1>t, <1>0 DEF vars, WriterKnows, Ended
<1>1. ASSUME NEW i \in Instance, Bind(i) \/ Sweep(i) \/ Tick(i) \/ Close(i) \/ ExitSave(i) \/ Leave(i)
      PROVE  WriterKnows(w)'
  <2>1. /\ UNCHANGED <<known, turn, shot, file, writer>>
        /\ life'[w] \in {"off", "bound", "swept"} => life[w] \in {"off", "bound", "swept"}
        /\ life[w] \in {"exited", "crashed"} => life'[w] \in {"exited", "crashed"}
    BY <1>1, <1>t DEF TypeOK, Bind, Sweep, Tick, Close, ExitSave, Leave
  <2> QED
    BY <1>t, <2>1 DEF WriterKnows, Ended
<1>2. ASSUME NEW i \in Instance, Load(i) PROVE WriterKnows(w)'
  <2>1. i = w => turn[w] \notin Kind
    BY <1>2, Knowing DEF Load
  <2>2. i = w => known'[w] = file /\ writer # {w}
    BY <1>2, <1>t DEF Load, TypeOK, FileIsWhole, WriterKnows
  <2> QED
    BY <1>2, <1>t, <2>1, <2>2 DEF Load, TypeOK, WriterKnows, Ended
<1>3. ASSUME NEW i \in Instance, NEW n \in Name, Learn(i, n) PROVE WriterKnows(w)'
  <2>1. known[w] \subseteq known'[w]
    BY <1>3, <1>t DEF TypeOK, Learn
  <2> QED
    BY <1>3, <1>t, <2>1 DEF Learn, WriterKnows, Ended
<1>4. ASSUME NEW i \in Instance, Exit(i) \/ Crash(i) PROVE WriterKnows(w)'
  <2>1. CASE i = w
    <3>1. life'[w] \in {"exited", "crashed"} /\ writer' = writer
      BY <1>4, <1>t, <2>1 DEF TypeOK, Exit, Crash
    <3>2. turn'[w] \notin Kind
      <4>1. CASE Exit(i)
        BY <2>1, <4>1, Knowing DEF Exit
      <4>2. CASE Crash(i)
        BY <1>t, <2>1, <4>2, CacheAssumption DEF TypeOK, Crash, Kind
      <4> QED
        BY <1>4, <4>1, <4>2
    <3> QED
      BY <3>1, <3>2 DEF WriterKnows, Ended
  <2>2. CASE i # w
    <3>1. /\ life'[w] = life[w] /\ known'[w] = known[w] /\ turn'[w] = turn[w]
          /\ UNCHANGED <<file, writer>>
          /\ \A kind \in Kind : shot'[<<w, kind>>] = shot[<<w, kind>>]
      BY <1>4, <1>t, <2>2 DEF TypeOK, Exit, Crash, Save, Kind
    <3> QED
      BY <1>t, <3>1 DEF WriterKnows, Ended
  <2> QED
    BY <2>1, <2>2
<1>5. ASSUME NEW i \in Instance, NEW kind \in Kind, SaveStep(i, kind) PROVE WriterKnows(w)'
  <2>k. /\ <<i, kind>> \in Save /\ life' = life /\ known' = known
        /\ ~Ended(i) /\ life[i] \notin {"off", "bound", "swept"}
    BY <1>5, Knowing DEF SaveStep, Snapshot, Create, Write, Rename, Fail
  <2>1. CASE Snapshot(i, kind)
    BY <1>t, <2>k, <2>1 DEF TypeOK, Snapshot, WriterKnows, Ended, Save, Kind
  <2>2. CASE Create(i, kind) \/ Write(i, kind)
    BY <1>t, <2>k, <2>2 DEF Create, Write, WriterKnows, Ended
  <2>3. CASE Fail(i, kind)
    BY <1>t, <2>k, <2>3, CacheAssumption DEF TypeOK, Fail, SaveEnds, WriterKnows, Ended, Save, Kind
  <2>4. CASE Rename(i, kind)
    <3>1. turn[i] = kind /\ shot[<<i, kind>>] \subseteq known[i]
      BY <2>4, Knowing DEF Rename, WriterKnows
    <3>2. file' = shot[<<i, kind>>] /\ writer' = {i}
      BY <1>t, <2>k, <2>4 DEF CacheInv, TypeOK, WholeOnceWritten, Rename
    <3>3. turn' = [turn EXCEPT ![i] = Free] /\ shot' = [shot EXCEPT ![<<i, kind>>] = {}]
      BY <2>4 DEF Rename, SaveEnds
    <3>4. CASE w = i
      BY <1>t, <2>k, <3>1, <3>2, <3>3, <3>4, CacheAssumption DEF TypeOK, WriterKnows, Ended, Kind
    <3>5. CASE w # i
      <4>1. writer' # {w} /\ turn'[w] = turn[w] /\ \A k \in Kind : shot'[<<w, k>>] = shot[<<w, k>>]
        <5>1. writer' # {w} /\ turn'[w] = turn[w]
          BY <1>t, <3>2, <3>3, <3>5 DEF TypeOK
        <5>2. ASSUME NEW k \in Kind PROVE shot'[<<w, k>>] = shot[<<w, k>>]
          <6>1. <<w, k>> \in Save /\ <<w, k>> # <<i, kind>>
            BY <3>5 DEF Save, Kind
          <6> QED
            BY <1>t, <3>3, <6>1 DEF TypeOK
        <5> QED
          BY <5>1, <5>2
      <4> QED
        BY <1>t, <2>k, <4>1 DEF WriterKnows, Ended
    <3> QED
      BY <3>4, <3>5
  <2> QED
    BY <1>5, <2>1, <2>2, <2>3, <2>4 DEF SaveStep
<1> QED
  BY <1>0, <1>1, <1>2, <1>3, <1>4, <1>5, InstanceActions

LEMMA CacheInvInit == Init => CacheInv
<1> SUFFICES ASSUME Init PROVE CacheInv
  OBVIOUS
<1>1. TypeOK
  BY CacheTypeInit
<1>2. WholeOnceWritten /\ OnlyRunningSaves
  BY DEF Init, WholeOnceWritten, FileIsWhole, OnlyRunningSaves, Save, Kind
<1>3. \A i \in Instance : WriterKnows(i)
  BY CacheAssumption DEF Init, WriterKnows, Kind
<1> QED
  BY <1>1, <1>2, <1>3 DEF CacheInv, Init

LEMMA CacheInvStep ==
  ASSUME CacheInv, [Next]_vars
  PROVE  CacheInv'
<1>1. TypeOK'
  <2>1. CASE UNCHANGED vars
    BY <2>1 DEF CacheInv, TypeOK, vars
  <2> QED
    BY <2>1, InstanceActions, StartTypes, SaveTypes, EndTypes DEF CacheInv
<1>2. WholeOnceWritten' /\ OnlyRunningSaves'
  BY <1>1, WholeStep, RunningStep DEF CacheInv
<1>3. \A i \in Instance : WriterKnows(i)'
  BY WriterKnowsStep
<1>4. writer' = writer \/ \E i \in Instance : writer' = {i}
  BY InstanceActions DEF vars, Bind, Sweep, Load, Learn, Tick, Close, ExitSave, Leave, Exit, Crash,
                         SaveStep, Snapshot, Create, Write, Rename, Fail
<1> QED
  BY <1>1, <1>2, <1>3, <1>4 DEF CacheInv

THEOREM CacheInvariant == Spec => []CacheInv
  BY CacheInvInit, CacheInvStep, PTL DEF Spec

\* Types: a save that has begun, and no other, holds the turn to write (WRITING).
THEOREM CacheTypes == Spec => []TypeOK
<1>1. CacheInv => TypeOK
  BY DEF CacheInv
<1> QED
  BY <1>1, CacheInvariant, PTL

\* Whatever fails or crashes, names.json is absent or a whole snapshot
\* (write_atomic of cache.rs).
THEOREM CacheFileIsWhole == Spec => []FileIsWhole
<1>1. CacheInv => FileIsWhole
  BY DEF CacheInv, WholeOnceWritten
<1> QED
  BY <1>1, CacheInvariant, PTL

\* A save that ends later within one instance never takes names from the file
\* (save of cache.rs, which takes the snapshot when it is its turn).
THEOREM CacheSavesInOrder == Spec => SavesInOrder
<1>1. ASSUME CacheInv, [Next]_vars
      PROVE  [writer' = writer /\ writer # {} => file \subseteq file']_vars
  <2>0. CASE file' = file
    BY <2>0
  <2>1. ASSUME NEW i \in Instance, NEW kind \in Kind, Rename(i, kind), writer' = writer
        PROVE  file \subseteq file'
    <3>1. /\ <<i, kind>> \in Save /\ writer = {i} /\ turn[i] = kind
          /\ file \subseteq shot[<<i, kind>>]
      BY <1>1, <2>1, Knowing DEF Rename, WriterKnows
    <3> QED
      BY <1>1, <2>1, <3>1 DEF CacheInv, TypeOK, WholeOnceWritten, Rename
  <2>2. file' = file \/ \E i \in Instance, kind \in Kind : Rename(i, kind)
    BY <1>1, InstanceActions DEF vars, Bind, Sweep, Load, Learn, Tick, Close, ExitSave, Leave, Exit,
                                 Crash, SaveStep, Snapshot, Create, Write, Fail
  <2> QED
    BY <2>0, <2>1, <2>2
<1> QED
  BY <1>1, CacheInvariant, PTL DEF Spec, SavesInOrder
-----------------------------------------------------------------------------
(* What an instance leaves behind.                                          *)

\* Only instances that had ended were found ended.
BeforeEnded == \A i, k \in Instance : k \in before[i] => Ended(k) /\ life[i] # "off"

Alone(i) == i \notin failed /\ \A j \in Instance \ {i} : ~Overlap(i, j)

\* What an instance owes is in its memory, then in the snapshot of its last
\* save, then in the file and in every later snapshot of its own.
Pays(i) ==
  /\ life[i] = "saving" =>
       /\ owed[i] \subseteq known[i]
       /\ turn[i] = "exit" => owed[i] \subseteq shot[<<i, "exit">>]
  /\ life[i] \in {"saving", "leaving"} /\ stage[<<i, "exit">>] = "idle" =>
       /\ owed[i] \subseteq file
       /\ turn[i] = "timer" => owed[i] \subseteq shot[<<i, "timer">>]
  /\ life[i] = "leaving" =>
       /\ stage[<<i, "exit">>] = "idle"
       /\ stage[<<i, "timer">>] = "queued" => owed[i] \subseteq known[i]

\* Whoever comes later knows it and writes it.
Inherits(i, k) ==
  i \in before[k] /\ ~Ended(k) =>
    /\ life[k] \notin {"bound", "swept"} => owed[i] \subseteq known[k]
    /\ \A kind \in Kind : turn[k] = kind => owed[i] \subseteq shot[<<k, kind>>]

Left(i) == life[i] = "exited" =>
             /\ owed[i] \subseteq file
             /\ \A k \in Instance : Inherits(i, k)

ExitInv == /\ CacheInv /\ BeforeEnded
           /\ \A i \in Instance : Alone(i) => Pays(i) /\ Left(i)

\* Who acts beside an instance that has begun, and is alone, came after it.
LEMMA Successor ==
  ASSUME CacheInv, BeforeEnded, NEW i \in Instance, Alone(i), life[i] # "off",
         NEW k \in Instance, k # i, life[k] # "off", ~Ended(k)
  PROVE  i \in before[k] /\ Ended(i)
  BY DEF Alone, Overlap, BeforeEnded

LEMMA BeforeEndedStep ==
  ASSUME CacheInv, BeforeEnded, [Next]_vars
  PROVE  BeforeEnded'
<1>t. TypeOK
  BY DEF CacheInv
<1>1. ASSUME NEW i \in Instance, Bind(i) PROVE BeforeEnded'
  BY <1>t, <1>1 DEF BeforeEnded, TypeOK, Bind, Ended
<1>2. ASSUME UNCHANGED before, \A k \in Instance : Ended(k) => life'[k] = life[k],
             \A k \in Instance : life[k] # "off" => life'[k] # "off"
      PROVE  BeforeEnded'
  BY <1>2 DEF BeforeEnded, Ended
<1>3. CASE UNCHANGED vars
  BY <1>2, <1>3 DEF vars
<1>4. ASSUME NEW i \in Instance, NEW kind \in Kind, SaveStep(i, kind) PROVE BeforeEnded'
  BY <1>2, <1>4 DEF SaveStep, Snapshot, Create, Write, Rename, Fail
<1>5. ASSUME NEW i \in Instance,
             \/ Sweep(i) \/ Load(i) \/ (\E n \in Name : Learn(i, n)) \/ Tick(i)
             \/ Close(i) \/ ExitSave(i) \/ Leave(i) \/ Exit(i) \/ Crash(i)
      PROVE  BeforeEnded'
  BY <1>t, <1>2, <1>5 DEF TypeOK, Sweep, Load, Learn, Tick, Close, ExitSave, Leave, Exit, Crash, Ended
<1> QED
  BY <1>1, <1>3, <1>4, <1>5, InstanceActions

\* Instances that have run at the same time stay so.
LEMMA AloneStep ==
  ASSUME CacheInv, [Next]_vars, NEW i \in Instance, Alone(i)'
  PROVE  Alone(i)
<1>t. TypeOK
  BY DEF CacheInv
<1>1. failed \subseteq failed'
  BY InstanceActions DEF vars, Bind, Sweep, Load, Learn, Tick, Close, ExitSave, Leave, Exit, Crash,
                         SaveStep, Snapshot, Create, Write, Rename, Fail
<1>2. \A k \in Instance : life[k] # "off" => life'[k] # "off" /\ before'[k] = before[k]
  <2>1. CASE \E k \in Instance : Bind(k)
    BY <1>t, <2>1 DEF TypeOK, Bind
  <2>2. CASE ~\E k \in Instance : Bind(k)
    <3>1. before' = before
      BY <2>2, InstanceActions DEF vars, Sweep, Load, Learn, Tick, Close, ExitSave, Leave, Exit, Crash,
                                   SaveStep, Snapshot, Create, Write, Rename, Fail
    <3>2. \A k \in Instance : life[k] # "off" => life'[k] # "off"
      <4>1. CASE life' = life
        BY <4>1
      <4>2. ASSUME NEW j \in Instance, Sweep(j) \/ Load(j) \/ Close(j) \/ ExitSave(j) \/ Leave(j)
                                        \/ Exit(j) \/ Crash(j)
            PROVE  \A k \in Instance : life[k] # "off" => life'[k] # "off"
        BY <1>t, <4>2 DEF TypeOK, Sweep, Load, Close, ExitSave, Leave, Exit, Crash
      <4> QED
        BY <2>2, <4>1, <4>2, InstanceActions DEF vars, Learn, Tick, SaveStep, Snapshot, Create, Write,
                                                 Rename, Fail
    <3> QED
      BY <3>1, <3>2
  <2> QED
    BY <2>1, <2>2
<1> QED
  BY <1>1, <1>2 DEF Alone, Overlap

\* Its own save: what it owes goes from memory to the file.
LEMMA OwnSave ==
  ASSUME CacheInv, BeforeEnded, NEW i \in Instance, Alone(i)', Pays(i), Left(i),
         NEW kind \in Kind, SaveStep(i, kind)
  PROVE  Pays(i)' /\ Left(i)'
<1>t. TypeOK /\ OnlyRunningSaves
  BY DEF CacheInv
<1>s. /\ <<i, kind>> \in Save /\ <<i, "timer">> \in Save /\ <<i, "exit">> \in Save
      /\ kind = "timer" \/ kind = "exit"
  BY DEF Save, Kind
<1>l. life[i] \in {"up", "closing", "saving", "leaving"}
  BY <1>t, <1>s DEF OnlyRunningSaves, TypeOK, SaveStep, Snapshot, Create, Write, Rename, Fail
<1>f. life' = life /\ owed' = owed /\ known' = known
  BY DEF SaveStep, Snapshot, Create, Write, Rename, Fail
<1>0. Left(i)'
  BY <1>l, <1>f DEF Left
<1>1. CASE Snapshot(i, kind)
  BY <1>t, <1>s, <1>f, <1>0, <1>1, CacheAssumption DEF TypeOK, Snapshot, Pays
<1>2. CASE Create(i, kind)
  BY <1>t, <1>s, <1>f, <1>0, <1>2 DEF TypeOK, Create, Pays
<1>3. CASE Write(i, kind)
  BY <1>t, <1>s, <1>f, <1>0, <1>3 DEF TypeOK, Write, Pays
<1>4. CASE Rename(i, kind)
  <2>1. tmp[<<i, kind>>] = "whole" /\ file' = shot[<<i, kind>>]
    BY <1>s, <1>t, <1>4 DEF CacheInv, WholeOnceWritten, TypeOK, Rename
  <2>2. turn[i] = kind /\ turn'[i] = Free
    BY <1>s, <1>t, <1>4 DEF TypeOK, Rename, SaveEnds, Kind
  <2>3. stage' = [stage EXCEPT ![<<i, kind>>] = "idle"]
    BY <1>4 DEF Rename, SaveEnds
  <2>4. CASE kind = "exit"
    BY <1>t, <1>s, <1>f, <1>0, <2>1, <2>2, <2>3, <2>4, CacheAssumption DEF TypeOK, Pays
  <2>5. CASE kind = "timer"
    BY <1>t, <1>s, <1>f, <1>0, <2>1, <2>2, <2>3, <2>5, CacheAssumption DEF TypeOK, Pays
  <2> QED
    BY <1>s, <2>4, <2>5
<1>5. CASE Fail(i, kind)
  BY <1>5 DEF Fail, Alone
<1> QED
  BY <1>1, <1>2, <1>3, <1>4, <1>5 DEF SaveStep

\* Its other steps.
LEMMA OwnStep ==
  ASSUME CacheInv, BeforeEnded, NEW i \in Instance, Alone(i)', Pays(i), Left(i), InstanceStep(i)
  PROVE  Pays(i)' /\ Left(i)'
<1>t. TypeOK /\ OnlyRunningSaves
  BY DEF CacheInv
<1>s. <<i, "timer">> \in Save /\ <<i, "exit">> \in Save
  BY DEF Save
<1>1. CASE Bind(i) \/ Sweep(i) \/ Load(i) \/ Close(i)
  <2>1. life'[i] \in {"bound", "swept", "up", "closing"}
    BY <1>t, <1>1 DEF TypeOK, Bind, Sweep, Load, Close
  <2> QED
    BY <2>1 DEF Pays, Left
<1>2. CASE \E n \in Name : Learn(i, n)
  <2>1. /\ life[i] \in {"up", "closing", "saving"} /\ known[i] \subseteq known'[i]
        /\ UNCHANGED <<life, turn, stage, shot, file, owed>>
    BY <1>t, <1>2 DEF TypeOK, Learn
  <2> QED
    BY <2>1 DEF Pays, Left
<1>3. CASE Tick(i)
  BY <1>t, <1>s, <1>3 DEF TypeOK, Tick, Queue, Pays, Left
<1>4. ASSUME NEW kind \in Kind, SaveStep(i, kind) PROVE Pays(i)' /\ Left(i)'
  BY <1>4, OwnSave
<1>5. CASE ExitSave(i)
  <2>1. /\ life'[i] = "saving" /\ owed'[i] = known[i] /\ known' = known /\ turn' = turn
        /\ stage[<<i, "exit">>] = "idle" /\ stage'[<<i, "exit">>] = "queued"
    BY <1>t, <1>s, <1>5 DEF TypeOK, ExitSave, Queue
  <2>2. turn[i] # "exit"
    BY <1>t, <2>1 DEF TypeOK
  <2> QED
    BY <2>1, <2>2 DEF Pays, Left
<1>6. CASE Leave(i)
  BY <1>t, <1>s, <1>6 DEF TypeOK, Leave, Pays, Left
<1>7. CASE Exit(i)
  <2>1. life[i] = "leaving" /\ life'[i] = "exited" /\ UNCHANGED <<file, owed, before>>
    BY <1>t, <1>7 DEF TypeOK, Exit
  <2>2. owed[i] \subseteq file /\ \A k \in Instance : i \notin before[k]
    BY <2>1 DEF Pays, BeforeEnded, Ended
  <2> QED
    BY <2>1, <2>2 DEF Pays, Left, Inherits
<1>8. CASE Crash(i)
  BY <1>t, <1>8 DEF TypeOK, Crash, Pays, Left
<1> QED
  BY <1>1, <1>2, <1>3, <1>4, <1>5, <1>6, <1>7, <1>8 DEF InstanceStep, Kind

\* What a step of another instance leaves alone.
LEMMA OtherFrame ==
  ASSUME TypeOK, NEW i \in Instance, NEW k \in Instance, i # k, InstanceStep(k)
  PROVE  /\ life'[i] = life[i] /\ owed'[i] = owed[i] /\ known'[i] = known[i]
         /\ before'[i] = before[i] /\ turn'[i] = turn[i]
         /\ \A kind \in Kind : shot'[<<i, kind>>] = shot[<<i, kind>>]
<1>1. CASE Bind(k) \/ Sweep(k) \/ Load(k) \/ Tick(k) \/ \E n \in Name : Learn(k, n)
  BY <1>1 DEF TypeOK, Bind, Sweep, Load, Tick, Learn
<1>2. ASSUME NEW j \in Kind, SaveStep(k, j)
      PROVE  /\ life'[i] = life[i] /\ owed'[i] = owed[i] /\ known'[i] = known[i]
             /\ before'[i] = before[i] /\ turn'[i] = turn[i]
             /\ \A kind \in Kind : shot'[<<i, kind>>] = shot[<<i, kind>>]
  <2>1. \A kind \in Kind : <<i, kind>> \in Save /\ <<i, kind>> # <<k, j>>
    BY DEF Save, Kind
  <2>2. /\ UNCHANGED <<life, owed, known, before>>
        /\ turn' = turn \/ \E x : turn' = [turn EXCEPT ![k] = x]
        /\ shot' = shot \/ \E x : shot' = [shot EXCEPT ![<<k, j>>] = x]
    BY <1>2 DEF SaveStep, Snapshot, Create, Write, Rename, Fail, SaveEnds
  <2>3. turn'[i] = turn[i]
    BY <2>2 DEF TypeOK
  <2>4. \A kind \in Kind : shot'[<<i, kind>>] = shot[<<i, kind>>]
    BY <2>1, <2>2 DEF TypeOK
  <2> QED
    BY <2>2, <2>3, <2>4
<1>3. CASE Close(k) \/ ExitSave(k) \/ Leave(k) \/ Exit(k)
  BY <1>3 DEF TypeOK, Close, ExitSave, Leave, Exit
<1>4. CASE Crash(k)
  <2>1. \A kind \in Kind : <<i, kind>> \in Save /\ <<i, kind>>[1] # k
    BY DEF Save, Kind
  <2> QED
    BY <1>4, <2>1 DEF TypeOK, Crash
<1> QED
  BY <1>1, <1>2, <1>3, <1>4 DEF InstanceStep, Kind

\* A later instance keeps in the file what it found there.
LEMMA SuccessorKeeps ==
  ASSUME CacheInv, NEW i \in Instance, NEW k \in Instance, i # k, InstanceStep(k),
         i \in before[k], owed[i] \subseteq file, Inherits(i, k), life[k] # "off"
  PROVE  owed[i] \subseteq file' /\ Inherits(i, k)'
<1>t. TypeOK /\ OnlyRunningSaves
  BY DEF CacheInv
<1>o. owed'[i] = owed[i]
  BY <1>t, OtherFrame
<1>e. ~Ended(k)
  BY <1>t DEF OnlyRunningSaves, TypeOK, Ended, InstanceStep, Bind, Sweep, Load, Tick, Learn, Close,
              ExitSave, Leave, Exit, Crash, SaveStep, Snapshot, Create, Write, Rename, Fail, Kind
<1>1. CASE Sweep(k)
  BY <1>t, <1>o, <1>e, <1>1 DEF TypeOK, Sweep, Inherits, Ended
<1>2. CASE Load(k)
  <2>1. file \subseteq Name /\ file' = file
    BY <1>2 DEF CacheInv, WholeOnceWritten, FileIsWhole, Load
  <2>2. known'[k] = file /\ UNCHANGED <<turn, shot, before>>
    BY <1>t, <1>2, <2>1 DEF TypeOK, Load
  <2> QED
    BY <1>o, <1>e, <2>1, <2>2 DEF Inherits
<1>3. CASE \E n \in Name : Learn(k, n)
  <2>1. /\ known[k] \subseteq known'[k] /\ UNCHANGED <<life, turn, shot, file, before>>
    BY <1>t, <1>3 DEF TypeOK, Learn
  <2> QED
    BY <1>o, <2>1 DEF Inherits, Ended
<1>4. CASE Tick(k)
  BY <1>o, <1>4 DEF Tick, Inherits, Ended
<1>5. ASSUME NEW kind \in Kind, SaveStep(k, kind)
      PROVE  owed[i] \subseteq file' /\ Inherits(i, k)'
  <2>s. <<k, kind>> \in Save /\ \A j \in Kind : <<k, j>> \in Save
    BY DEF Save, Kind
  <2>l. life[k] \notin {"bound", "swept"} /\ life' = life /\ known' = known /\ before' = before
    BY <1>t, <1>5 DEF OnlyRunningSaves, SaveStep, Snapshot, Create, Write, Rename, Fail
  <2>1. CASE Snapshot(k, kind)
    <3>1. turn'[k] = kind /\ shot'[<<k, kind>>] = known[k] /\ file' = file
      BY <1>t, <2>s, <2>1 DEF TypeOK, Snapshot
    <3> QED
      BY <1>o, <1>e, <2>l, <3>1 DEF Inherits, Ended
  <2>2. CASE Create(k, kind) \/ Write(k, kind)
    BY <1>o, <2>l, <2>2 DEF Create, Write, Inherits, Ended
  <2>3. CASE Rename(k, kind)
    <3>1. tmp[<<k, kind>>] = "whole" /\ file' = shot[<<k, kind>>]
      BY <1>t, <2>s, <2>3 DEF CacheInv, WholeOnceWritten, TypeOK, Rename
    <3>2. turn[k] = kind /\ turn'[k] = Free
      BY <1>t, <2>s, <2>3 DEF TypeOK, Rename, SaveEnds, Kind
    <3>3. owed[i] \subseteq shot[<<k, kind>>]
      BY <1>e, <3>2 DEF Inherits
    <3>4. \A j \in Kind : turn'[k] # j
      BY <3>2, CacheAssumption DEF Kind
    <3> QED
      BY <1>o, <2>l, <3>1, <3>3, <3>4 DEF Inherits, Ended
  <2>4. CASE Fail(k, kind)
    <3>1. turn'[k] = Free /\ file' = file
      BY <1>t, <2>4 DEF TypeOK, Fail, SaveEnds
    <3>2. \A j \in Kind : turn'[k] # j
      BY <3>1, CacheAssumption DEF Kind
    <3> QED
      BY <1>o, <2>l, <3>1, <3>2 DEF Inherits, Ended
  <2> QED
    BY <1>5, <2>1, <2>2, <2>3, <2>4 DEF SaveStep
<1>6. CASE Close(k) \/ ExitSave(k) \/ Leave(k)
  BY <1>t, <1>o, <1>e, <1>6 DEF TypeOK, Close, ExitSave, Leave, Inherits, Ended
<1>7. CASE Exit(k) \/ Crash(k)
  BY <1>t, <1>7 DEF TypeOK, Exit, Crash, Inherits, Ended
<1> QED
  BY <1>1, <1>2, <1>3, <1>4, <1>5, <1>6, <1>7 DEF InstanceStep, Bind, Kind


\* A step of another instance.
LEMMA OtherStep ==
  ASSUME CacheInv, BeforeEnded, NEW i \in Instance, Alone(i), Alone(i)', Left(i),
         NEW k \in Instance, i # k, InstanceStep(k)
  PROVE  Pays(i)' /\ Left(i)'
<1>t. TypeOK /\ OnlyRunningSaves
  BY DEF CacheInv
<1>f. \A j \in Instance \ {k} :
        /\ life'[j] = life[j] /\ owed'[j] = owed[j] /\ known'[j] = known[j]
        /\ before'[j] = before[j] /\ turn'[j] = turn[j]
        /\ \A kind \in Kind : shot'[<<j, kind>>] = shot[<<j, kind>>]
  BY <1>t, OtherFrame
<1>1. CASE life[i] = "off"
  BY <1>f, <1>1 DEF Pays, Left
<1>2. CASE life[i] # "off" /\ life[k] # "off"
  <2>1. ~Ended(k)
    BY <1>t DEF OnlyRunningSaves, TypeOK, Ended, InstanceStep, Bind, Sweep, Load, Tick, Learn, Close,
                ExitSave, Leave, Exit, Crash, SaveStep, Snapshot, Create, Write, Rename, Fail, Kind
  <2>2. i \in before[k] /\ Ended(i)
    BY <1>2, <2>1, Successor
  <2>3. CASE life[i] = "exited"
    <3>1. owed[i] \subseteq file' /\ Inherits(i, k)'
      BY <1>2, <2>2, <2>3, SuccessorKeeps DEF Left
    <3>2. \A j \in Instance \ {k} : Inherits(i, j) => Inherits(i, j)'
      BY <1>f DEF Inherits, Ended
    <3> QED
      BY <1>f, <2>3, <3>1, <3>2 DEF Pays, Left
  <2> QED
    BY <1>f, <2>2, <2>3 DEF Ended, Pays, Left
<1>3. CASE life[i] # "off" /\ life[k] = "off"
  <2>1. Bind(k)
    BY <1>t, <1>3 DEF OnlyRunningSaves, TypeOK, Ended, InstanceStep, Bind, Sweep, Load, Tick, Learn, Close,
                      ExitSave, Leave, Exit, Crash, SaveStep, Snapshot, Create, Write, Rename, Fail, Kind
  <2>2. life'[k] = "bound" /\ before'[k] = {j \in Instance : Ended(j)} /\ UNCHANGED <<turn, stage, file>>
    BY <1>t, <2>1 DEF TypeOK, Bind
  <2>3. k \notin before'[i]
    BY <1>f, <1>3 DEF BeforeEnded, Ended
  <2>4. Ended(i)
    BY <1>f, <1>3, <2>2, <2>3 DEF Alone, Overlap
  <2>5. CASE life[i] = "exited"
    <3>1. \A kind \in Kind : turn'[k] # kind
      BY <1>t, <1>3, <2>2 DEF OnlyRunningSaves, TypeOK, Kind
    <3>2. Inherits(i, k)'
      BY <2>2, <3>1 DEF Inherits
    <3>3. \A j \in Instance \ {k} : Inherits(i, j) => Inherits(i, j)'
      BY <1>f DEF Inherits, Ended
    <3> QED
      BY <1>f, <2>2, <2>5, <3>2, <3>3 DEF Pays, Left
  <2> QED
    BY <1>f, <2>4, <2>5 DEF Ended, Pays, Left
<1> QED
  BY <1>1, <1>2, <1>3

LEMMA ExitInvInit == Init => ExitInv
  BY CacheInvInit DEF ExitInv, Init, BeforeEnded, Pays, Left

LEMMA ExitInvStep == ExitInv /\ [Next]_vars => ExitInv'
<1> SUFFICES ASSUME ExitInv, [Next]_vars PROVE ExitInv'
  OBVIOUS
<1>c. CacheInv /\ BeforeEnded
  BY DEF ExitInv
<1>1. CacheInv' /\ BeforeEnded'
  BY <1>c, CacheInvStep, BeforeEndedStep
<1>2. ASSUME NEW i \in Instance, Alone(i)' PROVE Pays(i)' /\ Left(i)'
  <2>1. Alone(i) /\ Pays(i) /\ Left(i)
    BY <1>c, <1>2, AloneStep DEF ExitInv
  <2>2. CASE UNCHANGED vars
    BY <2>1, <2>2 DEF vars, Pays, Left, Inherits, Ended
  <2>3. CASE InstanceStep(i)
    BY <1>c, <1>2, <2>1, <2>3, OwnStep
  <2>4. ASSUME NEW k \in Instance, i # k, InstanceStep(k) PROVE Pays(i)' /\ Left(i)'
    BY <1>c, <1>2, <2>1, <2>4, OtherStep
  <2> QED
    BY <2>2, <2>3, <2>4 DEF Next
<1> QED
  BY <1>1, <1>2 DEF ExitInv

(* For any number of runs, before, after and during one another: one that    *)
(* exited without a failed save, and that no other overlapped, has left what *)
(* it knew when its last save was called (cache.rs, save; main.rs, shutdown). *)
THEOREM CacheExitIsKept == Spec => []ExitIsKept
<1>1. ExitInv => ExitIsKept
  BY DEF ExitInv, ExitIsKept, Alone, Left
<1> QED
  BY <1>1, ExitInvInit, ExitInvStep, PTL DEF Spec
=============================================================================
