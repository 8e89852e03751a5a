-------------------------- MODULE RecordingOwnership --------------------------
(***************************************************************************)
(* What a recording knows of the owner of one connection tuple: the copy of *)
(* its row that DumpMeta::conns keeps (src/src/main.rs), updated after every *)
(* packet and every poll, and the verdict dump_plan passes on the traffic of *)
(* the tuple when the recording ends, which may be at any moment.           *)
(***************************************************************************)
EXTENDS SocketOwnership

VARIABLES
  recording,  \* a dump_meta exists
  scoped,     \* DumpMeta::only_group
  members,    \* DumpMeta::instances: <<pid, start time>>
  rec,        \* DumpMeta::conns at the tuple
  lives,      \* history: sockets known to have carried the tuple's traffic
  forgot      \* history: a row of the recording was lost before it was copied

recordingVars == <<recording, scoped, members, rec, lives, forgot>>
allVars == <<vars, recordingVars>>

RecordingTypeOK ==
  /\ TypeOK
  /\ recording \in BOOLEAN /\ scoped \in BOOLEAN /\ forgot \in BOOLEAN
  /\ members \subseteq Pid \X (Start \ {None})
  /\ rec \in Conn \cup {NoConn} /\ Row(rec)
  /\ lives \subseteq Inode

RecordingInit ==
  /\ Init
  /\ recording = FALSE /\ scoped = FALSE /\ members = {} /\ rec = NoConn
  /\ lives = {} /\ forgot = FALSE
-----------------------------------------------------------------------------
\* Mutant: a row that was forgotten and began again is taken for the old one.
UpdateBlindly(old, c) ==
  IF old.disputed \/ c.disputed THEN Dispute(c) ELSE c

\* Mutant: a disputed copy keeps its owner.
UpdateKeepsOwner(old, c) ==
  IF old.disputed \/ old.first # c.first THEN [c EXCEPT !.disputed = TRUE] ELSE c

\* Conn::update_recording: any doubt about the copied row stays.
Update(old, c) ==
  LET sameUdpSocket == old.gen # None /\ old.gen = c.gen
  IN IF \/ old.disputed \/ c.disputed
        \/ old.first # c.first /\ ~sameUdpSocket
        \/ old.pid # None /\ old.pid # c.pid
        \/ old.started # None /\ old.started # c.started
        \/ old.gen # None /\ old.gen # c.gen
     THEN Dispute(c)
     ELSE c

\* dump_owns.
Owns(group, c) == <<c.pid, c.started>> \in group

\* Mutant: a process-only recording copies every row.
RememberAll(old, c, group, only) ==
  CASE c = NoConn \/ ~c.recent -> old
    [] old # NoConn -> Update(old, c)
    [] OTHER -> c

\* remember_dump_conn.
Remember(old, c, group, only) ==
  IF c = NoConn \/ ~c.recent THEN old
  ELSE IF old # NoConn THEN Update(old, c)
  ELSE IF only /\ ~Owns(group, c) THEN old ELSE c

\* dump_plan: the copy brought up to date, or the row itself.
Plan == IF conn = NoConn \/ ~conn.recent THEN rec
        ELSE IF rec = NoConn THEN conn ELSE Update(rec, conn)

Listings(ps) == {<<p, ps[p]>> : p \in {q \in Pid : ps[q] # None}}

\* start_dump: rows last seen before it began do not belong to it.
StartRecording ==
  /\ ~recording
  /\ recording' = TRUE
  /\ \/ scoped' = FALSE /\ members' = {}
     \/ scoped' = TRUE /\ members' \in SUBSET Listings(proc) \ {{}}
  /\ conn' = IF conn = NoConn THEN conn ELSE [conn EXCEPT !.recent = FALSE]
  /\ UNCHANGED <<proto, kernelVars, scanVars, udp, gens, clock, socketsAt, predates,
                 rec, lives, forgot>>

\* track_dump: while a member lives, listed processes may be its descendants.
Joins == IF scoped /\ members \cap Listings(list) # {}
         THEN {members \cup more : more \in SUBSET Listings(list)}
         ELSE {members}

RememberConn == rec' = IF recording THEN Remember(rec, conn', members', scoped) ELSE rec

\* The pump: apply_packet, then record_dump_conn.
HandlePacket ==
  /\ ApplyPacket
  /\ UNCHANGED <<recording, scoped, members, forgot>>
  /\ RememberConn
  /\ lives' = IF recording THEN lives \cup {u.ino : u \in {v \in udp : udp = {v}}} ELSE lives

\* poll_loop: track_dump, apply_sockets, record_dump.
PollApplied ==
  /\ ApplySockets
  /\ members' \in Joins
  /\ UNCHANGED <<recording, scoped, forgot>>
  /\ RememberConn
  /\ lives' = IF recording /\ proto = "TCP"
              THEN lives \cup {i \in Present : rows[i].kind = "connected"} ELSE lives

HistoryLost ==
  /\ Forget
  /\ forgot' = (forgot \/ (recording /\ rec = NoConn /\ conn.recent))
  /\ UNCHANGED <<recording, scoped, members, rec, lives>>

RecordingNext ==
  \/ StartRecording \/ HandlePacket \/ PollApplied \/ HistoryLost
  \/ (KernelStep \/ ScanStep) /\ UNCHANGED recordingVars

RecordingSpec == RecordingInit /\ [][RecordingNext]_allVars
-----------------------------------------------------------------------------
\* The packets of the tuple are labelled with the process or, in a recording of
\* a process, kept in the file.
Claims(c) == c # NoConn /\ IF scoped THEN Owns(members, c) ELSE c.pid # None

(* docs/how-it-works.md: unknown or disputed ownership is excluded.  At the   *)
(* end of a recording the traffic of a tuple is ascribed to a process only if *)
(* one socket is known to have carried it, also when rows of the live history *)
(* were forgotten on the way, unless one was forgotten before it was copied.  *)
ClaimHasOneLifetime ==
  recording /\ ~forgot /\ Cardinality(lives) > 1 => ~Claims(Plan)

(* A process-only recording keeps no history of connections of others: a copy *)
(* belongs to the recorded group, or has become disputed since it was made.   *)
ScopedCopyIsOurs ==
  scoped /\ rec # NoConn => rec.disputed \/ Owns(members, rec)

OneSocket == /\ ~passed'
             /\ Cardinality({i \in Inode : sock'[i] # "unused"}) = 1

(* docs/how-it-works.md: confirmed ownership is retained during recording     *)
(* even when the live history evicts an old connection.  While the tuple has  *)
(* only had one socket, of one process, what was confirmed stays confirmed.   *)
ConfirmedIsRetained ==
  [][recording /\ Claims(rec) /\ OneSocket => Claims(rec')]_allVars
=============================================================================
