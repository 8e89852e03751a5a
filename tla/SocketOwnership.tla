--------------------------- MODULE SocketOwnership ---------------------------
(***************************************************************************)
(* Who owns a connection: the Store of src/src/state.rs on Linux, fed by    *)
(* the socket polls and by the packets, for one connection tuple whose      *)
(* local address belongs to this computer.                                  *)
(*                                                                          *)
(* A poll reads the process list, the socket table with the descriptors of  *)
(* the scanned processes, and only then takes the lock and applies what it  *)
(* read: the kernel and the packets go on meanwhile.  Time advances with    *)
(* what is dated, so no two dates fall into one millisecond.                *)
(***************************************************************************)
EXTENDS Integers, FiniteSets

CONSTANTS Pid, None, NoConn,
          MaxBirths, MaxSockets, MaxTime   \* bounds of the model

Inode == 1..MaxSockets

VARIABLES
  proto,     \* the protocol of the tuple
  proc,      \* kernel, per pid: start time of the process that runs under it, or None
  births,    \* kernel: processes started so far, the clock of start times
  sock,      \* kernel, per inode: its row in the socket table
  held,      \* kernel, per inode: pids with a descriptor of the socket
  passed,    \* history: a socket has passed to a second process
  list,      \* the poll: start times by pid, NoList between polls
  rows,      \* the poll: rows and owners read, NoRows between polls
  udp,       \* Store::udp_sockets that match the tuple
  gens,      \* Store::socket_generation
  clock,     \* now_ms when something was last dated
  socketsAt, \* Store::sockets_at
  conn,      \* Store::conns at the tuple
  predates   \* history: sockets that a poll did not see although conn was there

kernelVars == <<proc, births, sock, held, passed>>
scanVars   == <<list, rows>>
storeVars  == <<udp, gens, clock, socketsAt, conn, predates>>
vars == <<proto, kernelVars, scanVars, storeVars>>

Start == 1..MaxBirths \cup {None}
NoRows      == [i \in {} |-> None]
NoList      == [p \in {} |-> None]
Conn == [pid : Pid \cup {None}, started : Start, first : Nat, gen : Nat \cup {None},
         cookie : Inode \cup {None}, disputed : BOOLEAN, closed : BOOLEAN,
         polled : BOOLEAN, recent : BOOLEAN]

ASSUME OwnershipAssumption ==
  /\ None \notin Pid \cup Int /\ NoConn \notin Conn /\ IsFiniteSet(Pid)
  /\ MaxBirths \in Nat /\ MaxSockets \in Nat /\ MaxTime \in Nat

\* A row that is dated, and disowned when it is disputed.
Row(c) == c # NoConn => c.first <= clock /\ (c.disputed => c.pid = None /\ c.started = None)
UdpSocket == [ino : Inode, pid : Pid \cup {None}, started : Start,
              shared : BOOLEAN, gen : Nat, since : Nat]
TableRow == [kind : {"none", "wildcard", "connected", "orphan", "time_wait"},
             owners : SUBSET Pid]

TypeOK ==
  /\ proto \in {"TCP", "UDP"}
  /\ proc \in [Pid -> Start] /\ births \in 0..MaxBirths
  /\ sock \in [Inode -> {"unused", "wildcard", "connected", "orphan", "time_wait", "gone"}]
  /\ held \in [Inode -> SUBSET Pid]
  /\ passed \in BOOLEAN
  /\ list \in {NoList} \cup [Pid -> Start]
  /\ rows \in {NoRows} \cup [Inode -> TableRow]
  /\ udp \subseteq UdpSocket
  /\ \A u \in udp : u.gen <= gens /\ u.since <= socketsAt
  /\ gens \in Nat /\ clock \in Nat /\ socketsAt \in Nat
  /\ conn \in Conn \cup {NoConn} /\ Row(conn)
  /\ predates \subseteq Inode

Init ==
  /\ proto \in {"TCP", "UDP"}
  /\ proc = [p \in Pid |-> None] /\ births = 0
  /\ sock = [i \in Inode |-> "unused"] /\ held = [i \in Inode |-> {}]
  /\ passed = FALSE
  /\ list = NoList /\ rows = NoRows
  /\ udp = {} /\ gens = 0 /\ clock = 0 /\ socketsAt = 0
  /\ conn = NoConn /\ predates = {}
-----------------------------------------------------------------------------
(* The kernel.                                                              *)

InUse(i) == sock[i] \notin {"unused", "gone", "time_wait"}

\* The bound of time: kernel, polls and forgetting stand still at MaxTime.
Kernel == clock < MaxTime /\ UNCHANGED <<proto, scanVars, storeVars>>

\* A closed TCP socket stays in the table without an inode, a UDP one goes.
Closed(s, h) == [i \in Inode |->
  IF s[i] \in {"wildcard", "connected"} /\ h[i] = {}
  THEN IF proto = "TCP" THEN "orphan" ELSE "gone"
  ELSE s[i]]

\* A process starts, by itself or forked with every socket of its parent.
Birth(p) ==
  /\ proc[p] = None /\ births < MaxBirths
  /\ births' = births + 1
  /\ proc' = [proc EXCEPT ![p] = births + 1]
  /\ \/ UNCHANGED <<held, passed>>
     \/ \E parent \in Pid :
          /\ held' = [i \in Inode |-> IF parent \in held[i] THEN held[i] \cup {p} ELSE held[i]]
          /\ held' # held /\ passed' = TRUE
  /\ UNCHANGED sock
  /\ Kernel

Death(p) ==
  /\ proc[p] # None
  /\ proc' = [proc EXCEPT ![p] = None]
  /\ held' = [i \in Inode |-> held[i] \ {p}]
  /\ sock' = Closed(sock, held')
  /\ UNCHANGED <<births, passed>>
  /\ Kernel

\* One TCP socket at a time can have the tuple; UDP endpoints can be shared.
OpenSocket(p, i) ==
  /\ proc[p] # None
  /\ sock[i] = "unused" /\ \A j \in Inode : j < i => sock[j] # "unused"
  /\ proto = "TCP" => \A j \in Inode : ~InUse(j)
  /\ \E kind \in IF proto = "TCP" THEN {"connected"} ELSE {"wildcard", "connected"} :
       sock' = [j \in Inode |-> IF j = i THEN kind
                                ELSE IF sock[j] = "time_wait" THEN "gone" ELSE sock[j]]
  /\ held' = [held EXCEPT ![i] = {p}]
  /\ UNCHANGED <<proc, births, passed>>
  /\ Kernel

CloseSocket(p, i) ==
  /\ p \in held[i]
  /\ held' = [held EXCEPT ![i] = @ \ {p}]
  /\ sock' = Closed(sock, held')
  /\ UNCHANGED <<proc, births, passed>>
  /\ Kernel

\* The rest of a TCP socket's life after its last descriptor.
Linger(i) ==
  /\ \/ sock[i] = "orphan" /\ sock' = [sock EXCEPT ![i] = "time_wait"]
     \/ sock[i] \in {"orphan", "time_wait"} /\ sock' = [sock EXCEPT ![i] = "gone"]
  /\ UNCHANGED <<proc, births, held, passed>>
  /\ Kernel

KernelStep == \/ \E p \in Pid : Birth(p) \/ Death(p)
              \/ \E p \in Pid, i \in Inode : OpenSocket(p, i) \/ CloseSocket(p, i)
              \/ \E i \in Inode : Linger(i)
-----------------------------------------------------------------------------
(* Ownership.                                                               *)

\* Store::entry, a row that did not exist.
NewConn(now) == [pid |-> None, started |-> None, first |-> now, gen |-> None, cookie |-> None,
                 disputed |-> FALSE, closed |-> FALSE, polled |-> FALSE, recent |-> TRUE]

Entry(c, now) == IF c = NoConn THEN NewConn(now) ELSE c

Dispute(c) == [c EXCEPT !.disputed = TRUE, !.pid = None, !.started = None]

\* Mutant: a socket may claim packets from before it was seen.
UniqueIgnoringSince(table, c) ==
  {u \in table : table = {u} /\ ~u.shared /\ c.gen \in {None, u.gen}}

\* Store::udp_owner and the guard of attribute_udp: the sockets, at most one,
\* that may own the row.
Unique(table, c) ==
  {u \in table : table = {u} /\ ~u.shared /\ c.first >= u.since /\ c.gen \in {None, u.gen}}

Known(new, old) == IF new # None THEN new ELSE old

\* Mutant: a row keeps its owner when the endpoint has another socket.
AttributeUndisputed(c, table) ==
  CASE c.disputed \/ Unique(table, c) = {} -> c
    [] OTHER -> LET u == CHOOSE u \in Unique(table, c) : TRUE
                IN [c EXCEPT !.gen = u.gen, !.pid = Known(u.pid, @),
                             !.started = IF u.pid # None THEN Known(u.started, @) ELSE @]

\* Store::attribute_udp.
Attribute(c, table) ==
  IF c.disputed \/ (table = {} /\ c.gen = None) THEN c
  ELSE IF Unique(table, c) = {} THEN Dispute(c)
  ELSE LET u == CHOOSE u \in Unique(table, c) : TRUE
       IN [c EXCEPT !.gen = u.gen, !.pid = Known(u.pid, @),
                    !.started = IF u.pid # None THEN Known(u.started, @) ELSE @]

\* Store::apply_packet, whoever sent it: the packet may have waited for long.
ApplyPacket ==
  /\ \E i \in Inode : sock[i] # "unused"
  /\ clock' = IF conn = NoConn THEN clock + 1 ELSE clock
  /\ LET c == Entry(conn, clock + 1) IN
     conn' = IF proto = "UDP"
             THEN [Attribute(c, udp) EXCEPT !.closed = FALSE, !.recent = TRUE]
             ELSE [c EXCEPT !.closed = @ /\ c.polled, !.recent = TRUE]
  /\ UNCHANGED <<proto, kernelVars, scanVars, udp, gens, socketsAt, predates>>

\* The history is cleared (api_clear), or Store::evict needs the room.
Forget ==
  /\ conn # NoConn /\ clock < MaxTime
  /\ conn' = NoConn /\ predates' = {}
  /\ UNCHANGED <<proto, kernelVars, scanVars, udp, gens, clock, socketsAt>>
-----------------------------------------------------------------------------
(* A poll.                                                                  *)

\* sockets::snapshot, with the descriptors it looks at and can read: those of
\* every process on a full poll, of the selected group on the others.  The list
\* is read just before, or just after: it may miss the process born last.  What
\* a poll of the group remembers of other processes is taken to be current.
Snapshot(readable) ==
  /\ rows = NoRows /\ clock < MaxTime
  /\ rows' = [i \in Inode |->
       [kind   |-> IF sock[i] \in {"unused", "gone"} THEN "none" ELSE sock[i],
        owners |-> held[i] \cap readable]]
  /\ list' \in {proc, [p \in Pid |-> IF proc[p] = births THEN None ELSE proc[p]]}
  /\ UNCHANGED <<proto, kernelVars, storeVars>>

Present   == {i \in DOMAIN rows : rows[i].kind # "none"}
Shared(i) == Cardinality(rows[i].owners) > 1
Owner(i)  == IF Cardinality(rows[i].owners) = 1
             THEN CHOOSE p \in Pid : p \in rows[i].owners ELSE None

StartOf(p) == IF p = None THEN None ELSE list[p]

Agree(a, b) == a = None \/ b = None \/ a = b

\* The socket the table had before under this inode, if it is still the same.
SameSocket(u, i) == /\ u.ino = i
                    /\ Agree(u.pid, Owner(i))
                    /\ Agree(u.started, StartOf(Owner(i)))

\* Store::refresh_udp_sockets.
Seen(i)   == \E u \in udp : SameSocket(u, i)
Rank(i)   == Cardinality({j \in Present : j <= i /\ ~Seen(j)})
Refreshed(i) ==
  IF Seen(i)
  THEN LET u == CHOOSE u \in udp : SameSocket(u, i)
           pid == Known(Owner(i), u.pid)
           shared == Shared(i) \/ u.shared
       IN [u EXCEPT !.ino = i, !.shared = shared, !.pid = IF shared THEN None ELSE pid,
                    !.started = Known(StartOf(pid), @)]
  ELSE [ino |-> i, pid |-> Owner(i), started |-> StartOf(Owner(i)),
        shared |-> Shared(i), gen |-> gens + Rank(i), since |-> socketsAt]

Table == IF proto = "UDP" THEN {Refreshed(i) : i \in Present} ELSE {}

\* Mutant: only the inode tells the sockets of a TCP tuple apart.
ReusedByInodeOnly(c, i) ==
  \/ Shared(i)
  \/ rows[i].kind = "connected" /\ ~Agree(c.cookie, i)
  \/ c.closed /\ rows[i].kind # "time_wait" /\ c.polled

\* apply_sockets: the row of a TCP tuple is not the socket seen before.
Reused(c, i) ==
  \/ ~Agree(c.pid, Owner(i)) \/ ~Agree(c.started, StartOf(Owner(i)))
  \/ Shared(i)
  \/ rows[i].kind = "connected" /\ ~Agree(c.cookie, i)
  \/ c.closed /\ rows[i].kind # "time_wait" /\ c.polled

\* Mutant: a disputed row takes the next owner the table names.
OwnedAgain(c, i) ==
  IF Owner(i) = None THEN c
  ELSE [c EXCEPT !.pid = Owner(i), !.started = Known(StartOf(Owner(i)), @)]

Owned(c, i) ==
  IF Owner(i) = None \/ c.disputed THEN c
  ELSE [c EXCEPT !.pid = Owner(i), !.started = Known(StartOf(Owner(i)), @)]

\* A row of the table with the tuple itself.
TcpPolled(c, i) ==
  LET judged == IF Reused(c, i) THEN Dispute(c) ELSE c
      known  == [judged EXCEPT !.cookie = IF rows[i].kind = "connected" THEN i ELSE @,
                               !.closed = rows[i].kind = "time_wait",
                               !.polled = TRUE, !.recent = TRUE]
  IN Owned(known, i)

UdpPolled(c) == [Attribute(c, Table) EXCEPT !.closed = FALSE, !.polled = TRUE, !.recent = TRUE]

\* No such row.  A UDP row lives on a bound socket; a TCP row that was polled
\* closes, one known from packets only after PACKET_ONLY_IDLE_MS of silence.
UdpUnpolled(c) ==
  IF ~\E u \in Table : Table = {u} /\ ~u.shared /\ c.gen \in {None, u.gen}
  THEN [c EXCEPT !.closed = TRUE]
  ELSE IF c.closed THEN c ELSE Attribute(c, Table)

TcpUnpolled(c, silent) ==
  IF c.closed \/ (~c.polled /\ ~silent) THEN c ELSE [c EXCEPT !.closed = TRUE]

Tuple == {i \in Present : rows[i].kind # "wildcard"}

\* A TIME_WAIT row without history is skipped.
Polled(c, silent) ==
  LET history == {i \in Tuple : c # NoConn \/ rows[i].kind # "time_wait"}
      row     == Entry(c, clock + 1)
  IN IF history # {}
     THEN IF proto = "UDP" THEN UdpPolled(row) ELSE TcpPolled(row, CHOOSE i \in history : TRUE)
     ELSE IF c = NoConn THEN c
     ELSE IF proto = "UDP" THEN UdpUnpolled(c) ELSE TcpUnpolled(c, silent)

\* Store::apply_sockets with the list that poll_loop stored before it.
ApplySockets ==
  /\ rows # NoRows
  /\ udp' = Table
  /\ gens' = IF proto = "UDP" THEN gens + Cardinality({i \in Present : ~Seen(i)}) ELSE gens
  /\ clock' = clock + 1 /\ socketsAt' = clock + 1
  /\ \E silent \in BOOLEAN : conn' = Polled(conn, silent)
  /\ predates' = IF conn = NoConn THEN predates ELSE predates \cup (Inode \ Present)
  /\ list' = NoList /\ rows' = NoRows
  /\ UNCHANGED <<proto, kernelVars>>

ScanStep == \E readable \in SUBSET Pid : Snapshot(readable)

Next == KernelStep \/ ScanStep \/ ApplyPacket \/ Forget \/ ApplySockets

Spec == Init /\ [][Next]_vars
-----------------------------------------------------------------------------
(* The traffic counted in one row is never moved from one process to         *)
(* another: however processes, sockets and pids are replaced, a row with     *)
(* an owner keeps it or becomes disputed.  A TCP row also keeps the start    *)
(* time that tells the process from a later one under the same pid.          *)
SameOwner(c, d) == /\ c.pid # None /\ d.pid # None => d.pid = c.pid
                   /\ c.started # None /\ d.started # None /\ proto = "TCP" => d.started = c.started

OwnerIsFinal ==
  [][conn # NoConn /\ conn' # NoConn => SameOwner(conn, conn')]_vars

(* A UDP row that is shown as live and owned belongs to a socket of the      *)
(* latest poll, and to the process that poll knows for it.                   *)
LiveOwnerIsCurrent ==
  conn # NoConn /\ proto = "UDP" =>
    (~conn.closed /\ conn.pid # None =>
       \E u \in udp : u.gen = conn.gen /\ u.pid = conn.pid /\ ~u.shared)

(* docs/how-it-works.md: a new socket cannot claim packets from before its   *)
(* observed lifetime.  A row that a poll found without socket i, whatever    *)
(* else had the port then, is never attributed to i.                         *)
NewSocketClaimsNothingOld ==
  conn # NoConn =>
    (conn.pid # None => \A u \in udp : u.gen = conn.gen => u.ino \notin predates)

(* state.rs on UdpSocket::since: a socket may be bound to packets of the     *)
(* last polling interval.  When the port has only ever had one socket, held  *)
(* by one process, the flow through it has nothing that could be disputed.   *)
OnlySocketIsNotDisputed ==
  proto = "UDP" /\ conn # NoConn /\ ~passed =>
    (Cardinality({i \in Inode : sock[i] # "unused"}) = 1 => ~conn.disputed)
=============================================================================
