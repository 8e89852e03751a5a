--------------------------- MODULE OwnershipProofs ---------------------------
(***************************************************************************)
(* For any set of pids and any number of processes, sockets and dates: the  *)
(* row of a tuple never passes from one process to another, and what a      *)
(* recording ascribes to a process was carried by one socket.               *)
(***************************************************************************)
EXTENDS RecordingOwnership, FiniteSetTheorems, TLAPS

\* A poll keeps the process list it read together with the table.
ReadTogether == rows # NoRows => list \in [Pid -> Start]

\* Generations and dates only grow, so a row never bears one yet to come.
Numbered(c) == c # NoConn /\ c.gen # None => c.gen <= gens

\* An owned UDP row is bound to a generation, and no other process has held it.
Holds(c, table) == c.pid # None =>
  /\ c.gen # None
  /\ \A u \in table : u.gen = c.gen => u.shared \/ u.pid = c.pid

KnownOwner == proto = "UDP" /\ conn # NoConn => Holds(conn, udp)

\* The row is not older than the socket it is bound to.
Younger(c, table) == \A u \in table : u.gen = c.gen => u.since <= c.first

\* What a poll did not see while the row was there is dated after the row.
Lifetimes ==
  /\ conn = NoConn => predates = {}
  /\ conn # NoConn =>
       /\ predates # {} => conn.first < socketsAt
       /\ \A u \in udp : u.ino \in predates => conn.first < u.since
       /\ Younger(conn, udp)

StoreInv == /\ TypeOK /\ ReadTogether /\ socketsAt <= clock /\ Numbered(conn)
            /\ KnownOwner /\ Lifetimes /\ LiveOwnerIsCurrent

\* A TCP tuple has one socket at a time, and a poll reads at most one.
Listed(i) == sock[i] \notin {"unused", "gone"}

OneTcpSocket == proto = "TCP" =>
  /\ \A i, j \in Inode : Listed(i) /\ Listed(j) => i = j
  /\ \A i, j \in Present : i = j

\* Sockets are numbered for UDP only.
TcpUnnumbered == proto = "TCP" =>
  /\ udp = {}
  /\ conn # NoConn => conn.gen = None
  /\ rec # NoConn => rec.gen = None

\* Nothing is copied before a recording.
NoCopyBefore == ~recording => rec = NoConn /\ lives = {}

\* The copy and the row have the same first packet only if they are one row:
\* the row still has the cookie the copy has, or is disputed since.
Continues == rec # NoConn /\ conn # NoConn /\ proto = "TCP" =>
  (rec.first = conn.first /\ rec.cookie # None => conn.disputed \/ conn.cookie = rec.cookie)

\* The row c knows the sockets that carried the tuple to be one.
Bound(c, table, sockets) ==
  \/ c.disputed
  \/ \E i \in Inode : /\ sockets = {i}
                      /\ IF proto = "TCP" THEN c.cookie = i
                         ELSE c.gen # None /\ \A u \in table : u.gen = c.gen => u.ino = i

\* What the recording has, or will copy, tells whether there were several.
Carried == lives # {} /\ ~forgot =>
  IF rec # NoConn THEN Bound(rec, udp, lives)
  ELSE conn # NoConn /\ conn.recent /\ Bound(conn, udp, lives)

RecordingInv == /\ StoreInv /\ RecordingTypeOK /\ ScopedCopyIsOurs /\ Numbered(rec)
                /\ OneTcpSocket /\ TcpUnnumbered /\ NoCopyBefore /\ Continues /\ Carried
-----------------------------------------------------------------------------
(* The operators on rows.                                                   *)

\* The fields of a row, one by one.
LEMMA RowFields ==
  ASSUME NEW c \in Conn
  PROVE  /\ c.pid \in Pid \cup {None} /\ c.started \in Start /\ c.first \in Nat
         /\ c.gen \in Nat \cup {None} /\ c.cookie \in Inode \cup {None}
         /\ c.disputed \in BOOLEAN /\ c.closed \in BOOLEAN
         /\ c.polled \in BOOLEAN /\ c.recent \in BOOLEAN
  BY DEF Conn

\* A row that is disputed has no owner.
Disowned(c) == c.disputed => c.pid = None /\ c.started = None

\* d is the row c later: the same first packet, and no dispute is ever settled.
Later(c, d) == /\ d \in Conn /\ Disowned(d) /\ d.first = c.first
               /\ c.disputed => d.disputed

LEMMA DisputeFacts ==
  ASSUME NEW c \in Conn
  PROVE  LET d == Dispute(c)
         IN  /\ d \in Conn /\ Disowned(d) /\ d.disputed
             /\ d.first = c.first /\ d.gen = c.gen /\ d.cookie = c.cookie
             /\ d.closed = c.closed /\ d.polled = c.polled /\ d.recent = c.recent
  BY DEF Dispute, Conn, Disowned, Start

\* A new row has neither owner nor socket.
LEMMA NewConnFacts ==
  ASSUME NEW now \in Nat
  PROVE  LET d == NewConn(now)
         IN  /\ d \in Conn /\ Disowned(d) /\ d.first = now /\ d.pid = None /\ d.gen = None
             /\ ~d.disputed /\ ~d.closed /\ d.cookie = None /\ d.recent
  BY DEF NewConn, Conn, Disowned, Start

LEMMA AttributeCases ==
  ASSUME NEW c, NEW table
  PROVE  LET u == CHOOSE u \in Unique(table, c) : TRUE
         IN  /\ c.disputed \/ (table = {} /\ c.gen = None) => Attribute(c, table) = c
             /\ ~(c.disputed \/ (table = {} /\ c.gen = None)) =>
                  /\ Unique(table, c) = {} => Attribute(c, table) = Dispute(c)
                  /\ Unique(table, c) # {} => Attribute(c, table) =
                       [c EXCEPT !.gen = u.gen, !.pid = Known(u.pid, @),
                                 !.started = IF u.pid # None THEN Known(u.started, @) ELSE @]
  BY DEF Attribute

\* What Store::attribute_udp may make of a row: the owner of the row is that of
\* the only socket, or the row is disputed unless nothing is known of sockets.
Attributed(c, d, table) ==
  \/ d.disputed /\ d.gen = c.gen
  \/ /\ ~c.disputed /\ ~d.disputed /\ table = {}
     /\ c.gen = None /\ d.gen = None /\ d.pid = c.pid
  \/ /\ ~c.disputed /\ ~d.disputed
     /\ \E u \in Unique(table, c) : d.gen = u.gen /\ d.pid = Known(u.pid, c.pid)

LEMMA AttributeFacts ==
  ASSUME NEW c \in Conn, Disowned(c), NEW table \in SUBSET UdpSocket
  PROVE  LET d == Attribute(c, table)
         IN  /\ Later(c, d) /\ Attributed(c, d, table)
             /\ d.closed = c.closed /\ d.polled = c.polled /\ d.recent = c.recent
             /\ d.cookie = c.cookie
<1>1. CASE c.disputed \/ (table = {} /\ c.gen = None)
  <2>1. Attribute(c, table) = c
    BY <1>1, AttributeCases
  <2> QED
    BY <1>1, <2>1, RowFields DEF Later, Attributed
<1>2. CASE ~(c.disputed \/ (table = {} /\ c.gen = None)) /\ Unique(table, c) = {}
  <2>1. Attribute(c, table) = Dispute(c)
    BY <1>2, AttributeCases
  <2> QED
    BY <1>2, <2>1, DisputeFacts DEF Later, Attributed
<1>3. CASE ~(c.disputed \/ (table = {} /\ c.gen = None)) /\ Unique(table, c) # {}
  <2> DEFINE u == CHOOSE u \in Unique(table, c) : TRUE
  <2> DEFINE d == [c EXCEPT !.gen = u.gen, !.pid = Known(u.pid, @),
                            !.started = IF u.pid # None THEN Known(u.started, @) ELSE @]
  <2>1. Attribute(c, table) = d
    BY <1>3, AttributeCases
  <2>2. u \in Unique(table, c)
    BY <1>3
  <2>3. u \in UdpSocket
    BY <2>2 DEF Unique
  <2> HIDE DEF u
  <2>4. /\ d \in Conn /\ d.gen = u.gen /\ d.pid = Known(u.pid, c.pid) /\ ~d.disputed
        /\ d.first = c.first /\ d.closed = c.closed /\ d.polled = c.polled
        /\ d.recent = c.recent /\ d.cookie = c.cookie
    BY <1>3, <2>3 DEF Conn, UdpSocket, Known, Start
  <2> QED
    BY <1>3, <2>1, <2>2, <2>4 DEF Later, Attributed, Disowned
<1> QED
  BY <1>1, <1>2, <1>3

\* The row after a packet or a poll, whether the row existed before or not.
LEMMA EntryFacts ==
  ASSUME TypeOK
  PROVE  LET c == Entry(conn, clock + 1)
         IN  /\ c \in Conn /\ Disowned(c) /\ c # NoConn
             /\ conn # NoConn => c = conn
             /\ conn = NoConn => c = NewConn(clock + 1)
  BY NewConnFacts, OwnershipAssumption DEF Entry, TypeOK, Row, Disowned
-----------------------------------------------------------------------------
(* What a poll makes of the table of UDP sockets.                           *)

Unseen == {i \in Present : ~Seen(i)}

LEMMA PresentFacts ==
  ASSUME TypeOK, rows # NoRows
  PROVE  /\ rows \in [Inode -> TableRow] /\ Present \subseteq Inode
         /\ IsFiniteSet(Present) /\ IsFiniteSet(Unseen)
<1>1. rows \in [Inode -> TableRow] /\ Present \subseteq Inode
  BY DEF TypeOK, Present
<1>2. IsFiniteSet(Inode)
  BY FS_Interval, OwnershipAssumption DEF Inode
<1>3. IsFiniteSet(Present)
  BY <1>1, <1>2, FS_Subset
<1>4. Unseen \subseteq Present
  BY DEF Unseen
<1> QED
  BY <1>1, <1>3, <1>4, FS_Subset

LEMMA OwnerFacts ==
  ASSUME TypeOK, ReadTogether, rows # NoRows, NEW i \in Present
  PROVE  /\ Owner(i) \in Pid \cup {None} /\ StartOf(Owner(i)) \in Start
         /\ Shared(i) \in BOOLEAN
<1>1. rows[i].owners \subseteq Pid
  BY PresentFacts DEF TableRow
<1>2. ASSUME Cardinality(rows[i].owners) = 1 PROVE Owner(i) \in Pid
  <2>1. IsFiniteSet(rows[i].owners)
    BY <1>1, FS_Subset, OwnershipAssumption
  <2>2. \E p : rows[i].owners = {p}
    BY <1>2, <2>1, FS_Singleton
  <2>3. \E p \in Pid : p \in rows[i].owners
    BY <1>1, <2>2
  <2>4. (CHOOSE p \in Pid : p \in rows[i].owners) \in Pid
    BY <2>3
  <2> QED
    BY <1>2, <2>4 DEF Owner
<1>3. Owner(i) \in Pid \cup {None}
  BY <1>2 DEF Owner
<1>4. list \in [Pid -> Start]
  BY DEF ReadTogether
<1>5. StartOf(Owner(i)) \in Start
  BY <1>3, <1>4 DEF StartOf, Start
<1> QED
  BY <1>3, <1>5 DEF Shared

LEMMA RankFacts ==
  ASSUME TypeOK, rows # NoRows, NEW i \in Present, ~Seen(i)
  PROVE  /\ Cardinality(Unseen) \in Nat /\ Rank(i) \in Nat
         /\ Rank(i) # 0 /\ Rank(i) <= Cardinality(Unseen)
<1> DEFINE S == {j \in Present : j <= i /\ ~Seen(j)}
<1>1. i \in S /\ S \subseteq Unseen
  BY PresentFacts DEF Unseen, Inode
<1>2. IsFiniteSet(S) /\ Cardinality(S) <= Cardinality(Unseen)
  BY <1>1, PresentFacts, FS_Subset
<1>3. Cardinality(S) \in Nat /\ Cardinality(Unseen) \in Nat
  BY <1>2, PresentFacts, FS_CardinalityType
<1>4. Cardinality(S) # 0
  BY <1>1, <1>2, FS_EmptySet
<1> QED
  BY <1>2, <1>3, <1>4 DEF Rank

\* A socket of the new table is one of the old, which keeps its generation and
\* may lose its owner but not change it, or has a generation of its own.
LEMMA RefreshedFacts ==
  ASSUME TypeOK, ReadTogether, rows # NoRows, NEW i \in Present
  PROVE  LET r == Refreshed(i)
         IN  /\ r \in UdpSocket /\ r.ino = i
             /\ \/ \E u \in udp : /\ u.ino = i /\ r.gen = u.gen /\ r.since = u.since
                                  /\ u.shared => r.shared
                                  /\ u.pid # None => r.shared \/ r.pid = u.pid
                \/ /\ gens < r.gen /\ r.gen <= gens + Cardinality(Unseen)
                   /\ r.since = socketsAt
<1> DEFINE r == Refreshed(i)
<1>0. /\ i \in Inode /\ udp \in SUBSET UdpSocket /\ gens \in Nat /\ socketsAt \in Nat
      /\ Owner(i) \in Pid \cup {None} /\ StartOf(Owner(i)) \in Start /\ Shared(i) \in BOOLEAN
  BY OwnerFacts, PresentFacts DEF TypeOK
<1>l. list \in [Pid -> Start]
  BY DEF ReadTogether
<1>1. CASE Seen(i)
  <2> DEFINE u == CHOOSE u \in udp : SameSocket(u, i)
             pid == Known(Owner(i), u.pid)
             shared == Shared(i) \/ u.shared
             d == [u EXCEPT !.ino = i, !.shared = shared, !.pid = IF shared THEN None ELSE pid,
                            !.started = Known(StartOf(pid), @)]
  <2>1. r = d
    BY <1>1 DEF Refreshed
  <2>2. u \in udp /\ SameSocket(u, i)
    BY <1>1 DEF Seen
  <2>3. u \in UdpSocket
    BY <1>0, <2>2
  <2> HIDE DEF u
  <2>4. pid \in Pid \cup {None}
    BY <1>0, <2>3 DEF Known, UdpSocket
  <2>5. StartOf(pid) \in Start
    BY <1>l, <2>4 DEF StartOf, Start
  <2>6. shared \in BOOLEAN
    BY <1>0, <2>3 DEF UdpSocket
  <2>7. u.ino = i /\ (u.pid # None => pid = u.pid)
    BY <2>2 DEF SameSocket, Agree, Known
  <2>8. u.shared => shared
    BY <1>0, <2>3
  <2> HIDE DEF pid, shared
  <2>9. /\ d \in UdpSocket /\ d.ino = i /\ d.shared = shared /\ d.gen = u.gen
        /\ d.since = u.since /\ d.pid = IF shared THEN None ELSE pid
    BY <1>0, <2>3, <2>4, <2>5, <2>6 DEF UdpSocket, Known, Start
  <2> HIDE DEF d
  <2> QED
    BY <2>1, <2>2, <2>6, <2>7, <2>8, <2>9
<1>2. CASE ~Seen(i)
  <2>1. r = [ino |-> i, pid |-> Owner(i), started |-> StartOf(Owner(i)),
             shared |-> Shared(i), gen |-> gens + Rank(i), since |-> socketsAt]
    BY <1>2 DEF Refreshed
  <2>2. /\ Rank(i) \in Nat /\ Rank(i) # 0 /\ Rank(i) <= Cardinality(Unseen)
        /\ Cardinality(Unseen) \in Nat
    BY <1>2, RankFacts
  <2>3. gens + Rank(i) \in Nat /\ gens < gens + Rank(i)
        /\ gens + Rank(i) <= gens + Cardinality(Unseen)
    BY <1>0, <2>2
  <2> QED
    BY <1>0, <2>1, <2>3 DEF UdpSocket
<1> QED
  BY <1>1, <1>2

LEMMA TableFacts ==
  ASSUME TypeOK, ReadTogether, ApplySockets
  PROVE  /\ udp' \subseteq UdpSocket /\ gens' \in Nat /\ gens <= gens'
         /\ \A r \in udp' :
              /\ r.ino \in Present /\ r.gen <= gens' /\ r.since <= socketsAt
              /\ \/ \E u \in udp : /\ u.ino = r.ino /\ r.gen = u.gen /\ r.since = u.since
                                   /\ u.shared => r.shared
                                   /\ u.pid # None => r.shared \/ r.pid = u.pid
                 \/ gens < r.gen /\ r.since = socketsAt
<1>0. rows # NoRows /\ gens \in Nat /\ socketsAt \in Nat /\ udp' = Table /\ proto \in {"TCP", "UDP"}
  BY DEF TypeOK, ApplySockets
<1>1. Cardinality(Unseen) \in Nat
  BY <1>0, PresentFacts, FS_CardinalityType
<1>2. gens' = IF proto = "UDP" THEN gens + Cardinality(Unseen) ELSE gens
  BY DEF ApplySockets, Unseen
<1>3. gens' \in Nat /\ gens <= gens'
  BY <1>0, <1>1, <1>2
<1>4. CASE proto = "TCP"
  BY <1>0, <1>3, <1>4 DEF Table
<1>5. CASE proto = "UDP"
  <2>1. ASSUME NEW r \in udp'
        PROVE  /\ r \in UdpSocket /\ r.ino \in Present /\ r.gen <= gens' /\ r.since <= socketsAt
               /\ \/ \E u \in udp : /\ u.ino = r.ino /\ r.gen = u.gen /\ r.since = u.since
                                    /\ u.shared => r.shared
                                    /\ u.pid # None => r.shared \/ r.pid = u.pid
                  \/ gens < r.gen /\ r.since = socketsAt
    <3>1. PICK i \in Present : r = Refreshed(i)
      BY <1>0, <1>5 DEF Table
    <3>2. /\ r \in UdpSocket /\ r.ino = i
          /\ \/ \E u \in udp : /\ u.ino = i /\ r.gen = u.gen /\ r.since = u.since
                               /\ u.shared => r.shared
                               /\ u.pid # None => r.shared \/ r.pid = u.pid
             \/ /\ gens < r.gen /\ r.gen <= gens + Cardinality(Unseen)
                /\ r.since = socketsAt
      BY <1>0, <3>1, RefreshedFacts
    <3>3. \A u \in udp : u.gen \in Nat /\ u.since \in Nat /\ u.gen <= gens /\ u.since <= socketsAt
      BY DEF TypeOK, UdpSocket
    <3>4. r.gen \in Nat /\ r.since \in Nat
      BY <3>2 DEF UdpSocket
    <3>5. r.gen <= gens' /\ r.since <= socketsAt
      BY <1>0, <1>1, <1>2, <1>3, <1>5, <3>2, <3>3, <3>4
    <3> QED
      BY <3>2, <3>5
  <2> QED
    BY <1>3, <2>1
<1> QED
  BY <1>0, <1>4, <1>5
-----------------------------------------------------------------------------
(* What a packet and a poll make of the row.                                *)

\* The row before, as the code sees it: created when there was none.
Before == Entry(conn, clock + 1)

LEMMA PacketRow ==
  ASSUME TypeOK, ApplyPacket
  PROVE  /\ Later(Before, conn') /\ conn'.recent
         /\ IF proto = "UDP" THEN Attributed(Before, conn', udp)
            ELSE /\ conn'.pid = Before.pid /\ conn'.started = Before.started
                 /\ conn'.gen = Before.gen /\ conn'.cookie = Before.cookie
<1> DEFINE c == Before
<1>1. c \in Conn /\ Disowned(c)
  BY EntryFacts DEF Before
<1>2. CASE proto = "UDP"
  <2> DEFINE d == Attribute(c, udp)
  <2>1. udp \in SUBSET UdpSocket
    BY DEF TypeOK
  <2>2. Later(c, d) /\ Attributed(c, d, udp)
    BY <1>1, <2>1, AttributeFacts
  <2>3. conn' = [d EXCEPT !.closed = FALSE, !.recent = TRUE]
    BY <1>2 DEF ApplyPacket, Before
  <2> HIDE DEF d, c
  <2>4. /\ conn' \in Conn /\ conn'.first = d.first /\ conn'.disputed = d.disputed
        /\ conn'.pid = d.pid /\ conn'.started = d.started /\ conn'.gen = d.gen /\ conn'.recent
    BY <2>2, <2>3 DEF Later, Conn
  <2>5. Later(c, conn') /\ Attributed(c, conn', udp)
    BY <2>2, <2>4 DEF Later, Attributed, Disowned
  <2> QED
    BY <1>2, <2>4, <2>5 DEF c
<1>3. CASE proto # "UDP"
  <2>1. conn' = [c EXCEPT !.closed = @ /\ c.polled, !.recent = TRUE]
    BY <1>3 DEF ApplyPacket, Before
  <2> HIDE DEF c
  <2>2. c.polled \in BOOLEAN /\ c.closed \in BOOLEAN
    BY <1>1, RowFields
  <2>3. /\ conn' \in Conn /\ conn'.first = c.first /\ conn'.disputed = c.disputed
        /\ conn'.pid = c.pid /\ conn'.started = c.started /\ conn'.gen = c.gen
        /\ conn'.cookie = c.cookie /\ conn'.recent
    BY <1>1, <2>1, <2>2 DEF Conn
  <2>4. Later(c, conn')
    BY <1>1, <2>3 DEF Later, Disowned
  <2> QED
    BY <1>3, <2>3, <2>4 DEF c
<1> QED
  BY <1>2, <1>3

\* A row of a TCP tuple in the table: another owner or another socket than the
\* row had disputes it.
LEMMA TcpPolledFacts ==
  ASSUME TypeOK, ReadTogether, rows # NoRows, proto = "TCP",
         NEW c \in Conn, Disowned(c), NEW i \in Present
  PROVE  LET d == TcpPolled(c, i)
         IN  /\ Later(c, d) /\ SameOwner(c, d) /\ d.gen = c.gen /\ d.recent
             /\ c.cookie # None => d.disputed \/ d.cookie = c.cookie
             /\ rows[i].kind = "connected" => d.cookie = i
<1> DEFINE judged == IF Reused(c, i) THEN Dispute(c) ELSE c
           known  == [judged EXCEPT !.cookie = IF rows[i].kind = "connected" THEN i ELSE @,
                                    !.closed = rows[i].kind = "time_wait",
                                    !.polled = TRUE, !.recent = TRUE]
           d == Owned(known, i)
<1>0. d = TcpPolled(c, i)
  BY DEF TcpPolled
<1>1. i \in Inode /\ Owner(i) \in Pid \cup {None} /\ StartOf(Owner(i)) \in Start
  BY OwnerFacts, PresentFacts
<1>2. /\ judged \in Conn /\ Disowned(judged) /\ judged.first = c.first /\ judged.gen = c.gen
      /\ judged.cookie = c.cookie
      /\ Reused(c, i) => judged.disputed
      /\ ~Reused(c, i) => judged = c
      /\ c.disputed => judged.disputed
  BY DisputeFacts
<1> HIDE DEF judged
<1>3. /\ known \in Conn /\ known.pid = judged.pid /\ known.started = judged.started
      /\ known.first = judged.first /\ known.gen = judged.gen
      /\ known.disputed = judged.disputed /\ known.recent
      /\ known.cookie = IF rows[i].kind = "connected" THEN i ELSE judged.cookie
  BY <1>1, <1>2 DEF Conn
<1> HIDE DEF known
<1>c. c.cookie # None => known.disputed \/ known.cookie = c.cookie
  <2>1. i # None
    BY <1>1, OwnershipAssumption DEF Inode
  <2> QED
    BY <1>2, <1>3, <2>1 DEF Reused, Agree
<1>4. CASE Owner(i) = None \/ known.disputed
  <2>1. d = known
    BY <1>4 DEF Owned
  <2>2. Later(c, d)
    BY <1>2, <1>3, <2>1 DEF Later, Disowned
  <2>3. SameOwner(c, d)
    BY <1>2, <1>3, <2>1 DEF SameOwner, Disowned
  <2> HIDE DEF d
  <2> QED
    BY <1>0, <1>2, <1>3, <1>c, <2>1, <2>2, <2>3
<1>5. CASE Owner(i) # None /\ ~known.disputed
  <2>1. d = [known EXCEPT !.pid = Owner(i), !.started = Known(StartOf(Owner(i)), @)]
    BY <1>5 DEF Owned
  <2>2. /\ d \in Conn /\ d.pid = Owner(i) /\ d.started = Known(StartOf(Owner(i)), known.started)
        /\ d.first = known.first /\ d.gen = known.gen /\ d.disputed = known.disputed
        /\ d.cookie = known.cookie /\ d.recent
    BY <1>1, <1>3, <2>1 DEF Conn, Known
  <2> HIDE DEF d
  <2>3. ~Reused(c, i) /\ judged = c
    BY <1>2, <1>3, <1>5
  <2>4. Agree(c.pid, Owner(i)) /\ Agree(c.started, StartOf(Owner(i)))
    BY <2>3 DEF Reused
  <2>5. SameOwner(c, d)
    BY <1>3, <2>2, <2>3, <2>4 DEF SameOwner, Agree, Known
  <2>6. Later(c, d)
    BY <1>2, <1>3, <1>5, <2>2 DEF Later, Disowned
  <2> QED
    BY <1>0, <1>3, <1>c, <2>2, <2>3, <2>5, <2>6
<1> QED
  BY <1>4, <1>5

\* A poll never drops the row.  It attributes a UDP row to the sockets it found
\* or closes it, and compares a TCP row with the row of the table.
LEMMA PolledRow ==
  ASSUME TypeOK, ReadTogether, ApplySockets, conn # NoConn \/ conn' # NoConn
  PROVE  /\ Later(Before, conn') /\ (conn = NoConn \/ conn.recent => conn'.recent)
         /\ IF proto = "UDP"
            THEN \/ Attributed(Before, conn', udp')
                 \/ /\ conn'.closed /\ conn'.pid = Before.pid
                    /\ conn'.gen = Before.gen /\ conn'.disputed = Before.disputed
            ELSE /\ SameOwner(Before, conn') /\ conn'.gen = Before.gen
                 /\ Before.cookie # None => conn'.disputed \/ conn'.cookie = Before.cookie
<1> DEFINE c == Before
<1>0. rows # NoRows /\ udp' = Table /\ Table \in SUBSET UdpSocket /\ proto \in {"TCP", "UDP"}
  BY TableFacts DEF ApplySockets, TypeOK
<1>1. /\ c \in Conn /\ Disowned(c) /\ (conn # NoConn => c = conn) /\ (conn = NoConn => c.recent)
      /\ Later(c, c)
  <2>1. clock + 1 \in Nat
    BY DEF TypeOK
  <2> QED
    BY <2>1, EntryFacts, NewConnFacts DEF Before, Later
<1>2. PICK silent \in BOOLEAN : conn' = Polled(conn, silent)
  BY DEF ApplySockets
<1> DEFINE history == {i \in Tuple : conn # NoConn \/ rows[i].kind # "time_wait"}
<1>3. CASE history # {} /\ proto = "UDP"
  <2> DEFINE d == Attribute(c, Table)
  <2>1. conn' = [d EXCEPT !.closed = FALSE, !.polled = TRUE, !.recent = TRUE]
    BY <1>2, <1>3 DEF Polled, UdpPolled, Before
  <2>2. Later(c, d) /\ Attributed(c, d, Table)
    BY <1>0, <1>1, AttributeFacts
  <2> HIDE DEF d, c
  <2>3. /\ conn' \in Conn /\ conn'.first = d.first /\ conn'.disputed = d.disputed
        /\ conn'.pid = d.pid /\ conn'.started = d.started /\ conn'.gen = d.gen /\ conn'.recent
    BY <2>1, <2>2 DEF Later, Conn
  <2>4. Later(c, conn') /\ Attributed(c, conn', Table)
    BY <2>2, <2>3 DEF Later, Attributed, Disowned
  <2> QED
    BY <1>0, <1>3, <2>3, <2>4 DEF c
<1>4. CASE history # {} /\ proto = "TCP"
  <2> DEFINE i == CHOOSE i \in history : TRUE
  <2>1. conn' = TcpPolled(c, i)
    BY <1>2, <1>4 DEF Polled, Before
  <2>2. i \in Present
    BY <1>4 DEF Tuple
  <2> HIDE DEF i, c
  <2>3. /\ Later(c, conn') /\ SameOwner(c, conn') /\ conn'.gen = c.gen /\ conn'.recent
        /\ c.cookie # None => conn'.disputed \/ conn'.cookie = c.cookie
    BY <1>0, <1>1, <1>4, <2>1, <2>2, TcpPolledFacts
  <2> QED
    BY <1>4, <2>3 DEF c
<1>5. CASE history = {} /\ proto = "UDP"
  <2> DEFINE d == [c EXCEPT !.closed = TRUE]
             e == Attribute(c, Table)
  <2>1. conn # NoConn /\ conn' = UdpUnpolled(c)
    BY <1>1, <1>2, <1>5 DEF Polled
  <2>2. conn' = d \/ (conn' = c /\ c.closed) \/ conn' = e
    BY <2>1 DEF UdpUnpolled
  <2>3. /\ d \in Conn /\ d.first = c.first /\ d.disputed = c.disputed
        /\ d.pid = c.pid /\ d.started = c.started /\ d.gen = c.gen /\ d.closed /\ d.recent = c.recent
    BY <1>1 DEF Conn
  <2>4. Later(c, d)
    BY <1>1, <2>3 DEF Later, Disowned
  <2>5. Later(c, e) /\ Attributed(c, e, Table) /\ e.recent = c.recent
    BY <1>0, <1>1, AttributeFacts
  <2> HIDE DEF d, e, c
  <2> QED
    BY <1>0, <1>1, <1>5, <2>1, <2>2, <2>3, <2>4, <2>5 DEF c
<1>6. CASE history = {} /\ proto = "TCP"
  <2> DEFINE d == [c EXCEPT !.closed = TRUE]
  <2>1. conn # NoConn /\ conn' \in {c, d}
    BY <1>1, <1>2, <1>6 DEF Polled, TcpUnpolled
  <2>2. /\ d \in Conn /\ d.first = c.first /\ d.disputed = c.disputed /\ d.cookie = c.cookie
        /\ d.pid = c.pid /\ d.started = c.started /\ d.gen = c.gen /\ d.recent = c.recent
    BY <1>1 DEF Conn
  <2>3. Later(c, d)
    BY <1>1, <2>2 DEF Later, Disowned
  <2> HIDE DEF d, c
  <2> QED
    BY <1>1, <1>6, <2>1, <2>2, <2>3 DEF c, SameOwner
<1> QED
  BY <1>0, <1>3, <1>4, <1>5, <1>6

\* An attributed row agrees with the only socket of the table, keeps the owner
\* it had, and is live and owned only while that socket is known for it.
LEMMA AttributedFacts ==
  ASSUME NEW c \in Conn, NEW d, Later(c, d), NEW table \in SUBSET UdpSocket,
         Attributed(c, d, table), Holds(c, table), Younger(c, table)
  PROVE  /\ Holds(d, table) /\ Younger(d, table)
         /\ d.pid # None => \E u \in table : u.gen = d.gen /\ u.pid = d.pid /\ ~u.shared
         /\ c.pid # None /\ d.pid # None => d.pid = c.pid
         /\ d.gen = c.gen \/ \E u \in table : d.gen = u.gen
<1>1. d.disputed => d.pid = None
  BY DEF Later, Disowned
<1>2. CASE d.disputed /\ d.gen = c.gen
  BY <1>1, <1>2 DEF Holds, Younger, Later
<1>3. CASE /\ ~c.disputed /\ ~d.disputed /\ table = {}
           /\ c.gen = None /\ d.gen = None /\ d.pid = c.pid
  BY <1>3 DEF Holds, Younger
<1>4. CASE /\ ~c.disputed /\ ~d.disputed
           /\ \E u \in Unique(table, c) : d.gen = u.gen /\ d.pid = Known(u.pid, c.pid)
  <2>1. PICK u \in table : /\ table = {u} /\ ~u.shared /\ c.first >= u.since
                           /\ c.gen \in {None, u.gen} /\ d.gen = u.gen
                           /\ d.pid = Known(u.pid, c.pid)
    BY <1>4 DEF Unique
  <2>2. c.first \in Nat /\ u.since \in Nat /\ u.gen \in Nat /\ d.first = c.first
    BY RowFields DEF UdpSocket, Later
  <2>3. d.gen # None
    BY <2>1, <2>2, OwnershipAssumption
  <2>4. c.pid # None => u.pid = c.pid
    BY <2>1 DEF Holds
  <2>5. d.pid = u.pid
    BY <2>1, <2>4 DEF Known
  <2> QED
    BY <2>1, <2>2, <2>3, <2>4, <2>5 DEF Holds, Younger
<1> QED
  BY <1>2, <1>3, <1>4 DEF Attributed

\* What holds between a row and the table holds for the next table as well: the
\* sockets that stay keep what the row depends on, the others are new to it.
LEMMA NextTable ==
  ASSUME TypeOK, ReadTogether, ApplySockets, NEW c \in Conn, c.gen # None => c.gen <= gens
  PROVE  /\ Holds(c, udp) => Holds(c, udp')
         /\ Younger(c, udp) => Younger(c, udp')
         /\ \A i : (\A u \in udp : u.gen = c.gen => u.ino = i)
                     => \A u \in udp' : u.gen = c.gen => u.ino = i
<1>1. gens \in Nat /\ udp' \subseteq UdpSocket
  BY TableFacts DEF TypeOK
<1>2. ASSUME NEW r \in udp', r.gen = c.gen
      PROVE  \E u \in udp : /\ u.ino = r.ino /\ u.gen = c.gen /\ r.since = u.since
                            /\ u.shared => r.shared
                            /\ u.pid # None => r.shared \/ r.pid = u.pid
  <2>1. r.gen \in Nat
    BY <1>1 DEF UdpSocket
  <2>2. c.gen # None
    BY <1>2, <2>1, OwnershipAssumption
  <2>3. ~(gens < r.gen)
    BY <1>1, <1>2, <2>1, <2>2
  <2> QED
    BY <1>2, <2>3, TableFacts
<1>3. ASSUME Holds(c, udp) PROVE Holds(c, udp')
  <2>1. ASSUME NEW r \in udp', r.gen = c.gen, c.pid # None PROVE r.shared \/ r.pid = c.pid
    BY <1>2, <1>3, <2>1 DEF Holds
  <2> QED
    BY <1>3, <2>1 DEF Holds
<1>4. ASSUME Younger(c, udp) PROVE Younger(c, udp')
  BY <1>2, <1>4 DEF Younger
<1> QED
  BY <1>2, <1>3, <1>4
-----------------------------------------------------------------------------
(* The steps of the kernel, the polls and the packets.                      *)

LEMMA StartFacts ==
  /\ None \in Start /\ \A n \in 1..MaxBirths : n \in Start
  BY DEF Start

LEMMA KernelTypes ==
  ASSUME TypeOK, KernelStep
  PROVE  /\ proc' \in [Pid -> Start] /\ births' \in 0..MaxBirths /\ passed' \in BOOLEAN
         /\ sock' \in [Inode -> {"unused", "wildcard", "connected", "orphan", "time_wait", "gone"}]
         /\ held' \in [Inode -> SUBSET Pid]
         /\ UNCHANGED <<proto, scanVars, storeVars>>
<1> DEFINE Kinds == {"unused", "wildcard", "connected", "orphan", "time_wait", "gone"}
<1>0. /\ proc \in [Pid -> Start] /\ births \in 0..MaxBirths /\ passed \in BOOLEAN
      /\ sock \in [Inode -> Kinds] /\ held \in [Inode -> SUBSET Pid]
      /\ proto \in {"TCP", "UDP"}
  BY DEF TypeOK
<1>1. ASSUME NEW h \in [Inode -> SUBSET Pid]
      PROVE  Closed(sock, h) \in [Inode -> Kinds]
  BY <1>0 DEF Closed
<1>2. ASSUME NEW p \in Pid, Birth(p)
      PROVE  /\ proc' \in [Pid -> Start] /\ births' \in 0..MaxBirths /\ passed' \in BOOLEAN
             /\ held' \in [Inode -> SUBSET Pid] /\ sock' \in [Inode -> Kinds]
  <2>1. births + 1 \in 1..MaxBirths /\ births' = births + 1
    BY <1>0, <1>2, OwnershipAssumption DEF Birth
  <2>2. proc' \in [Pid -> Start]
    BY <1>0, <1>2, <2>1, StartFacts DEF Birth
  <2>3. held' \in [Inode -> SUBSET Pid] /\ passed' \in BOOLEAN
    BY <1>0, <1>2 DEF Birth
  <2> QED
    BY <1>0, <1>2, <2>1, <2>2, <2>3 DEF Birth
<1>3. ASSUME NEW p \in Pid, Death(p)
      PROVE  /\ proc' \in [Pid -> Start] /\ held' \in [Inode -> SUBSET Pid]
             /\ sock' \in [Inode -> Kinds] /\ UNCHANGED <<births, passed>>
  <2>1. held' \in [Inode -> SUBSET Pid]
    BY <1>0, <1>3 DEF Death
  <2> QED
    BY <1>0, <1>1, <1>3, <2>1, StartFacts DEF Death
<1>4. ASSUME NEW p \in Pid, NEW i \in Inode, OpenSocket(p, i)
      PROVE  /\ held' \in [Inode -> SUBSET Pid] /\ sock' \in [Inode -> Kinds]
             /\ UNCHANGED <<proc, births, passed>>
  BY <1>0, <1>4 DEF OpenSocket
<1>5. ASSUME NEW p \in Pid, NEW i \in Inode, CloseSocket(p, i)
      PROVE  /\ held' \in [Inode -> SUBSET Pid] /\ sock' \in [Inode -> Kinds]
             /\ UNCHANGED <<proc, births, passed>>
  <2>1. held' \in [Inode -> SUBSET Pid]
    BY <1>0, <1>5 DEF CloseSocket
  <2> QED
    BY <1>1, <1>5, <2>1 DEF CloseSocket
<1>6. ASSUME NEW i \in Inode, Linger(i)
      PROVE  sock' \in [Inode -> Kinds] /\ UNCHANGED <<proc, births, held, passed>>
  BY <1>0, <1>6 DEF Linger
<1>7. UNCHANGED <<proto, scanVars, storeVars>>
  BY DEF KernelStep, Birth, Death, OpenSocket, CloseSocket, Linger, Kernel
<1> QED
  BY <1>0, <1>2, <1>3, <1>4, <1>5, <1>6, <1>7 DEF KernelStep

LEMMA StoreInit == Init => StoreInv
<1> SUFFICES ASSUME Init PROVE StoreInv
  OBVIOUS
<1>1. proc \in [Pid -> Start] /\ births \in 0..MaxBirths
  BY OwnershipAssumption DEF Init, Start
<1>2. /\ sock \in [Inode -> {"unused", "wildcard", "connected", "orphan", "time_wait", "gone"}]
      /\ held \in [Inode -> SUBSET Pid] /\ passed \in BOOLEAN /\ predates \subseteq Inode
  BY DEF Init
<1>3. TypeOK
  BY <1>1, <1>2 DEF Init, TypeOK, Row
<1> QED
  BY <1>3 DEF Init, StoreInv, ReadTogether, Numbered, KnownOwner, Lifetimes, LiveOwnerIsCurrent

\* The store stands still: the kernel, the reading of a snapshot, or nothing.
LEMMA StillStep ==
  ASSUME StoreInv, TypeOK', ReadTogether', UNCHANGED <<proto, storeVars>>
  PROVE  StoreInv' /\ (conn # NoConn /\ conn' # NoConn => SameOwner(conn, conn'))
  BY DEF StoreInv, storeVars, Numbered, KnownOwner, Lifetimes, LiveOwnerIsCurrent,
         Holds, Younger, SameOwner

LEMMA KernelKeeps ==
  ASSUME StoreInv, KernelStep
  PROVE  StoreInv' /\ (conn # NoConn /\ conn' # NoConn => SameOwner(conn, conn'))
<1>1. TypeOK' /\ ReadTogether' /\ UNCHANGED <<proto, storeVars>>
  BY KernelTypes DEF StoreInv, TypeOK, ReadTogether, scanVars, storeVars, Row
<1> QED
  BY <1>1, StillStep

LEMMA ScanKeeps ==
  ASSUME StoreInv, ScanStep
  PROVE  StoreInv' /\ (conn # NoConn /\ conn' # NoConn => SameOwner(conn, conn'))
<1>1. PICK readable \in SUBSET Pid : Snapshot(readable)
  BY DEF ScanStep
<1>2. list' \in [Pid -> Start]
  BY <1>1, StartFacts DEF Snapshot, StoreInv, TypeOK
<1>3. rows' \in [Inode -> TableRow]
  <2>1. sock \in [Inode -> {"unused", "wildcard", "connected", "orphan", "time_wait", "gone"}]
        /\ held \in [Inode -> SUBSET Pid]
    BY DEF StoreInv, TypeOK
  <2>2. ASSUME NEW i \in Inode
        PROVE  [kind   |-> IF sock[i] \in {"unused", "gone"} THEN "none" ELSE sock[i],
                owners |-> held[i] \cap readable] \in TableRow
    BY <2>1 DEF TableRow
  <2> QED
    BY <1>1, <2>2 DEF Snapshot
<1>4. UNCHANGED <<proto, kernelVars, storeVars>>
  BY <1>1 DEF Snapshot
<1>5. TypeOK' /\ ReadTogether'
  BY <1>2, <1>3, <1>4 DEF StoreInv, TypeOK, ReadTogether, kernelVars, storeVars, Row
<1> QED
  BY <1>4, <1>5, StillStep

LEMMA PacketKeeps ==
  ASSUME StoreInv, ApplyPacket
  PROVE  StoreInv' /\ (conn # NoConn /\ conn' # NoConn => SameOwner(conn, conn'))
<1> DEFINE c == Before
<1>0. /\ TypeOK /\ clock \in Nat /\ udp \in SUBSET UdpSocket /\ gens \in Nat
      /\ UNCHANGED <<proto, kernelVars, scanVars, udp, gens, socketsAt, predates>>
      /\ clock' = (IF conn = NoConn THEN clock + 1 ELSE clock) /\ socketsAt \in Nat
      /\ proto \in {"TCP", "UDP"} /\ socketsAt <= clock
  BY DEF StoreInv, TypeOK, ApplyPacket
<1>1. /\ c \in Conn /\ Disowned(c) /\ (conn # NoConn => c = conn)
      /\ (conn = NoConn => c = NewConn(clock + 1) /\ c.first = clock + 1
                           /\ c.pid = None /\ c.gen = None)
  BY <1>0, EntryFacts, NewConnFacts DEF Before
<1>2. /\ Later(c, conn') /\ conn' # NoConn
      /\ IF proto = "UDP" THEN Attributed(c, conn', udp)
         ELSE /\ conn'.pid = c.pid /\ conn'.started = c.started
              /\ conn'.gen = c.gen /\ conn'.cookie = c.cookie
  BY <1>0, PacketRow, OwnershipAssumption DEF Later
<1>3. Younger(c, udp) /\ (proto = "UDP" => Holds(c, udp)) /\ (c.gen # None => c.gen <= gens)
  <2>1. CASE conn = NoConn
    <3>1. \A u \in udp : u.gen # None
      BY <1>0, OwnershipAssumption DEF UdpSocket
    <3> QED
      BY <1>1, <2>1, <3>1 DEF Younger, Holds
  <2>2. CASE conn # NoConn
    BY <1>1, <2>2 DEF StoreInv, Lifetimes, KnownOwner, Numbered
  <2> QED
    BY <2>1, <2>2
<1>4. c.first <= clock' /\ c.first \in Nat /\ clock' \in Nat /\ socketsAt' <= clock'
  BY <1>0, <1>1, RowFields DEF StoreInv, TypeOK, Row
<1>5. TypeOK'
  BY <1>0, <1>2, <1>4 DEF TypeOK, Row, Later, Disowned, kernelVars, scanVars
<1> HIDE DEF c
<1>6. CASE proto = "UDP"
  <2>1. /\ Holds(conn', udp) /\ Younger(conn', udp)
        /\ conn'.pid # None => \E u \in udp : u.gen = conn'.gen /\ u.pid = conn'.pid /\ ~u.shared
        /\ c.pid # None /\ conn'.pid # None => conn'.pid = c.pid
        /\ conn'.gen = c.gen \/ \E u \in udp : conn'.gen = u.gen
    BY <1>0, <1>1, <1>2, <1>3, <1>6, AttributedFacts
  <2>2. conn'.gen # None => conn'.gen <= gens
    BY <1>0, <1>3, <2>1 DEF TypeOK
  <2>3. conn # NoConn => SameOwner(conn, conn')
    BY <1>1, <1>6, <2>1 DEF SameOwner
  <2> QED
    BY <1>0, <1>1, <1>2, <1>4, <1>5, <1>6, <2>1, <2>2, <2>3
    DEF StoreInv, ReadTogether, Numbered, KnownOwner, Lifetimes, LiveOwnerIsCurrent,
        Later, scanVars, Younger, Holds
<1>7. CASE proto = "TCP"
  <2>1. Younger(conn', udp) /\ (conn'.gen # None => conn'.gen <= gens)
    BY <1>2, <1>3, <1>7 DEF Younger, Later
  <2>2. conn # NoConn => SameOwner(conn, conn')
    BY <1>1, <1>2, <1>7 DEF SameOwner
  <2> QED
    BY <1>0, <1>1, <1>2, <1>4, <1>5, <1>7, <2>1, <2>2
    DEF StoreInv, ReadTogether, Numbered, KnownOwner, Lifetimes, LiveOwnerIsCurrent,
        Later, scanVars, Younger
<1> QED
  BY <1>0, <1>6, <1>7

LEMMA ForgetKeeps ==
  ASSUME StoreInv, Forget
  PROVE  StoreInv' /\ (conn # NoConn /\ conn' # NoConn => SameOwner(conn, conn'))
  BY DEF StoreInv, Forget, TypeOK, Row, ReadTogether, Numbered, KnownOwner, Lifetimes,
         LiveOwnerIsCurrent, kernelVars, scanVars

LEMMA PollKeeps ==
  ASSUME StoreInv, ApplySockets
  PROVE  StoreInv' /\ (conn # NoConn /\ conn' # NoConn => SameOwner(conn, conn'))
<1> DEFINE c == Before
<1>0. /\ TypeOK /\ ReadTogether /\ clock \in Nat /\ gens \in Nat /\ socketsAt \in Nat
      /\ UNCHANGED <<proto, kernelVars>> /\ udp \in SUBSET UdpSocket
      /\ clock' = clock + 1 /\ socketsAt' = clock + 1 /\ rows # NoRows
      /\ list' = NoList /\ rows' = NoRows
      /\ proto \in {"TCP", "UDP"} /\ socketsAt <= clock /\ Present \subseteq Inode
      /\ predates' = IF conn = NoConn THEN predates ELSE predates \cup (Inode \ Present)
  BY PresentFacts DEF StoreInv, TypeOK, ApplySockets
<1>t. /\ udp' \in SUBSET UdpSocket /\ gens' \in Nat /\ gens <= gens'
      /\ \A r \in udp' : r.ino \in Present /\ r.gen <= gens' /\ r.since <= socketsAt
                         /\ r.gen \in Nat /\ r.since \in Nat
  BY <1>0, TableFacts DEF UdpSocket
<1>1. /\ c \in Conn /\ Disowned(c) /\ (conn # NoConn => c = conn)
      /\ (conn = NoConn => c = NewConn(clock + 1) /\ c.first = clock + 1
                           /\ c.pid = None /\ c.gen = None)
  BY <1>0, EntryFacts, NewConnFacts DEF Before
<1>2. c.gen # None => c.gen <= gens
  BY <1>1 DEF StoreInv, Numbered
<1>3. Younger(c, udp') /\ (proto = "UDP" => Holds(c, udp'))
  <2>1. CASE conn = NoConn
    BY <1>1, <1>t, <2>1, OwnershipAssumption DEF Younger, Holds
  <2>2. CASE conn # NoConn
    <3>1. Younger(c, udp) /\ (proto = "UDP" => Holds(c, udp))
      BY <1>1, <2>2 DEF StoreInv, Lifetimes, KnownOwner
    <3> QED
      BY <1>0, <1>1, <1>2, <3>1, NextTable
  <2> QED
    BY <2>1, <2>2
<1>4. c.first <= clock' /\ c.first \in Nat /\ (conn # NoConn => c.first < socketsAt')
  BY <1>0, <1>1, RowFields DEF StoreInv, TypeOK, Row
<1> HIDE DEF c
<1>5. CASE conn = NoConn /\ conn' = NoConn
  BY <1>0, <1>t, <1>5
  DEF StoreInv, TypeOK, ReadTogether, Numbered, KnownOwner, Lifetimes, LiveOwnerIsCurrent,
      Row, kernelVars
<1>6. CASE ~(conn = NoConn /\ conn' = NoConn)
  <2>1. /\ Later(c, conn') /\ conn' # NoConn
        /\ IF proto = "UDP"
           THEN \/ Attributed(c, conn', udp')
                \/ /\ conn'.closed /\ conn'.pid = c.pid
                   /\ conn'.gen = c.gen /\ conn'.disputed = c.disputed
           ELSE SameOwner(c, conn') /\ conn'.gen = c.gen
    BY <1>0, <1>6, PolledRow, OwnershipAssumption DEF Later, c
  <2>2. TypeOK'
    BY <1>0, <1>t, <1>4, <2>1 DEF TypeOK, Row, Later, Disowned, kernelVars
  <2>3. /\ Younger(conn', udp') /\ (conn'.gen # None => conn'.gen <= gens')
        /\ proto = "UDP" =>
             /\ Holds(conn', udp')
             /\ ~conn'.closed /\ conn'.pid # None =>
                  \E u \in udp' : u.gen = conn'.gen /\ u.pid = conn'.pid /\ ~u.shared
        /\ SameOwner(c, conn')
    <3>1. CASE proto = "UDP" /\ Attributed(c, conn', udp')
      <4>1. /\ Holds(conn', udp') /\ Younger(conn', udp')
            /\ conn'.pid # None =>
                 \E u \in udp' : u.gen = conn'.gen /\ u.pid = conn'.pid /\ ~u.shared
            /\ c.pid # None /\ conn'.pid # None => conn'.pid = c.pid
            /\ conn'.gen = c.gen \/ \E u \in udp' : conn'.gen = u.gen
        BY <1>1, <1>3, <1>t, <2>1, <3>1, AttributedFacts
      <4>2. conn'.gen # None => conn'.gen <= gens'
        BY <1>0, <1>1, <1>2, <1>t, <4>1, RowFields
      <4> QED
        BY <3>1, <4>1, <4>2 DEF SameOwner
    <3>2. CASE ~(proto = "UDP" /\ Attributed(c, conn', udp'))
      <4>1. conn'.gen = c.gen /\ conn'.first = c.first /\ SameOwner(c, conn')
            /\ (proto = "UDP" => conn'.closed /\ conn'.pid = c.pid)
        BY <1>0, <2>1, <3>2 DEF Later, SameOwner
      <4>2. conn'.gen # None => conn'.gen <= gens'
        BY <1>0, <1>1, <1>2, <1>t, <4>1, RowFields
      <4> QED
        BY <1>3, <4>1, <4>2 DEF Younger, Holds
    <3> QED
      BY <3>1, <3>2
  <2>4. /\ predates' # {} => conn'.first < socketsAt'
        /\ \A u \in udp' : u.ino \in predates' => conn'.first < u.since
    <3>1. CASE conn = NoConn
      <4>1. predates' = {}
        BY <1>0, <3>1 DEF StoreInv, Lifetimes
      <4> QED
        BY <4>1
    <3>2. CASE conn # NoConn
      <4>1. conn'.first = conn.first /\ conn.first \in Nat /\ conn.first < socketsAt'
        BY <1>0, <1>1, <1>4, <2>1, <3>2 DEF Later
      <4>2. ASSUME NEW r \in udp', r.ino \in predates' PROVE conn.first < r.since
        <5>1. r.ino \in predates
          BY <1>0, <1>t, <3>2, <4>2
        <5>2. CASE \E u \in udp : u.ino = r.ino /\ r.since = u.since
          BY <3>2, <5>1, <5>2 DEF StoreInv, Lifetimes
        <5>3. CASE r.since = socketsAt
          BY <3>2, <5>1, <5>3 DEF StoreInv, Lifetimes
        <5> QED
          BY <1>0, <5>2, <5>3, TableFacts
      <4> QED
        BY <4>1, <4>2
    <3> QED
      BY <3>1, <3>2
  <2>5. conn # NoConn => SameOwner(conn, conn')
    BY <1>1, <2>3
  <2>6. ReadTogether' /\ socketsAt' <= clock'
    BY <1>0 DEF ReadTogether
  <2> QED
    BY <1>0, <2>1, <2>2, <2>3, <2>4, <2>5, <2>6
    DEF StoreInv, Numbered, KnownOwner, Lifetimes, LiveOwnerIsCurrent
<1> QED
  BY <1>5, <1>6

LEMMA StoreStep ==
  ASSUME StoreInv, [Next]_vars
  PROVE  StoreInv' /\ (conn # NoConn /\ conn' # NoConn => SameOwner(conn, conn'))
<1>1. CASE UNCHANGED vars
  <2>1. TypeOK' /\ ReadTogether' /\ UNCHANGED <<proto, storeVars>>
    BY <1>1 DEF vars, kernelVars, scanVars, storeVars, StoreInv, TypeOK, ReadTogether, Row
  <2> QED
    BY <2>1, StillStep
<1> QED
  BY <1>1, KernelKeeps, ScanKeeps, PacketKeeps, ForgetKeeps, PollKeeps DEF Next

\* In every reachable state a UDP row that is bound to a socket agrees with what
\* the polls know of its owner, is not older than the socket, and what was open
\* before the row is dated after it (Store::udp_sockets of state.rs).
THEOREM StoreInvariant == Spec => []StoreInv
  BY StoreInit, StoreStep, PTL DEF Spec

\* Rows and sockets of the store are well-formed, and no generation is above the
\* last one that was given out (Conn and UdpSocket of state.rs).
THEOREM StoreTypes == Spec => []TypeOK
<1>1. StoreInv => TypeOK
  BY DEF StoreInv
<1> QED
  BY <1>1, StoreInvariant, PTL

\* The traffic counted in one row is never moved from one process to another,
\* whatever the kernel, the packets and the polls do (Store::attribute_udp and
\* Store::apply_sockets of state.rs).
THEOREM OwnersAreFinal == Spec => OwnerIsFinal
<1>1. StoreInv /\ [Next]_vars => [conn # NoConn /\ conn' # NoConn => SameOwner(conn, conn')]_vars
  BY StoreStep
<1> QED
  BY <1>1, StoreInvariant, PTL DEF Spec, OwnerIsFinal

\* A UDP row that is shown as live and owned belongs to a socket of the latest
\* poll and to the process that poll knows for it.
THEOREM LiveOwnersAreCurrent == Spec => []LiveOwnerIsCurrent
<1>1. StoreInv => LiveOwnerIsCurrent
  BY DEF StoreInv
<1> QED
  BY <1>1, StoreInvariant, PTL

\* No row is attributed to a socket that a poll did not find while the row was
\* already there: the date the socket was first seen at is compared.
THEOREM NothingOldIsClaimed == Spec => []NewSocketClaimsNothingOld
<1>1. StoreInv => NewSocketClaimsNothingOld
  <2> SUFFICES ASSUME StoreInv, conn # NoConn, NEW u \in udp, u.gen = conn.gen, u.ino \in predates
               PROVE  FALSE
    BY DEF NewSocketClaimsNothingOld
  <2>1. conn.first < u.since /\ u.since <= conn.first
    BY DEF StoreInv, Lifetimes, Younger
  <2>2. conn.first \in Nat /\ u.since \in Nat
    BY RowFields DEF StoreInv, TypeOK, UdpSocket
  <2> QED
    BY <2>1, <2>2
<1> QED
  BY <1>1, StoreInvariant, PTL
-----------------------------------------------------------------------------
(* The recording.                                                           *)

\* A TCP row of the table is the one the row of the tuple is compared with.
LEMMA ConnectedRow ==
  ASSUME TypeOK, ReadTogether, ApplySockets, OneTcpSocket, proto = "TCP",
         NEW i \in Present, rows[i].kind = "connected"
  PROVE  conn' # NoConn /\ conn'.recent /\ conn'.cookie = i
<1> DEFINE history == {j \in Tuple : conn # NoConn \/ rows[j].kind # "time_wait"}
<1>0. PICK silent \in BOOLEAN : conn' = Polled(conn, silent)
  BY DEF ApplySockets
<1>1. i \in history /\ \A j \in history : j = i
  BY DEF Tuple, OneTcpSocket
<1>2. (CHOOSE j \in history : TRUE) = i
  BY <1>1
<1>3. conn' = TcpPolled(Before, i)
  BY <1>0, <1>1, <1>2 DEF Polled, Before
<1>4. Before \in Conn /\ Disowned(Before)
  BY EntryFacts DEF Before
<1>5. rows # NoRows
  BY DEF ApplySockets
<1>6. conn' \in Conn /\ conn'.recent /\ conn'.cookie = i
  BY <1>3, <1>4, <1>5, TcpPolledFacts DEF Later
<1> QED
  BY <1>6, OwnershipAssumption

\* An update keeps the copied row as it was seen, or disputes it.
LEMMA UpdateFacts ==
  ASSUME NEW old \in Conn, NEW c \in Conn, Disowned(c)
  PROVE  LET d == Update(old, c)
         IN  /\ d \in Conn /\ Disowned(d) /\ d.first = c.first
             /\ d.gen = c.gen /\ d.cookie = c.cookie
             /\ old.disputed \/ c.disputed => d.disputed
             /\ ~d.disputed =>
                  /\ d = c /\ ~c.disputed /\ ~old.disputed
                  /\ old.first = c.first \/ (old.gen # None /\ old.gen = c.gen)
                  /\ old.pid # None => c.pid = old.pid
                  /\ old.started # None => c.started = old.started
                  /\ old.gen # None => c.gen = old.gen
<1> DEFINE doubt == \/ old.disputed \/ c.disputed
                    \/ old.first # c.first /\ ~(old.gen # None /\ old.gen = c.gen)
                    \/ old.pid # None /\ old.pid # c.pid
                    \/ old.started # None /\ old.started # c.started
                    \/ old.gen # None /\ old.gen # c.gen
<1>1. Update(old, c) = IF doubt THEN Dispute(c) ELSE c
  BY DEF Update
<1>2. CASE doubt
  BY <1>1, <1>2, DisputeFacts
<1>3. CASE ~doubt
  BY <1>1, <1>3
<1> QED
  BY <1>2, <1>3

\* The copy after a packet or a poll.
Copied == rec' = IF recording THEN Remember(rec, conn', members', scoped) ELSE rec

LEMMA CopyFacts ==
  ASSUME rec \in Conn \cup {NoConn}, conn' \in Conn \cup {NoConn}, Copied
  PROVE  \/ rec' = rec /\ (conn' # NoConn /\ conn'.recent /\ recording => rec = NoConn)
         \/ /\ conn' # NoConn /\ conn'.recent /\ recording /\ rec # NoConn
            /\ rec' = Update(rec, conn')
         \/ /\ conn' # NoConn /\ conn'.recent /\ recording /\ rec = NoConn
            /\ rec' = conn' /\ (scoped => Owns(members', conn'))
  BY DEF Copied, Remember

LEMMA CopyKeeps ==
  ASSUME StoreInv', RecordingInv, Copied, members \subseteq members',
         UNCHANGED <<proto, recording, scoped>>, clock <= clock', gens <= gens',
         proto = "TCP" /\ conn' # NoConn => conn'.gen = None
  PROVE  /\ rec' \in Conn \cup {NoConn} /\ Row(rec)' /\ Numbered(rec)'
         /\ ScopedCopyIsOurs' /\ (~recording => rec' = NoConn)
         /\ proto = "TCP" /\ rec' # NoConn => rec'.gen = None
<1>0. /\ rec \in Conn \cup {NoConn} /\ Row(rec) /\ Numbered(rec) /\ ScopedCopyIsOurs
      /\ conn' \in Conn \cup {NoConn} /\ Row(conn)' /\ Numbered(conn)'
      /\ members \subseteq Pid \X (Start \ {None})
      /\ clock \in Nat /\ clock' \in Nat /\ gens \in Nat /\ gens' \in Nat
      /\ ~recording => rec = NoConn
      /\ proto = "TCP" /\ rec # NoConn => rec.gen = None
  BY DEF StoreInv, RecordingInv, RecordingTypeOK, TypeOK, NoCopyBefore, TcpUnnumbered
<1>1. CASE rec' = rec
  <2>1. rec # NoConn => /\ rec.first \in Nat /\ rec.gen \in Nat \cup {None}
                        /\ Owns(members, rec) => Owns(members', rec)
    BY <1>0, RowFields DEF Owns
  <2> QED
    BY <1>0, <1>1, <2>1 DEF Row, Numbered, ScopedCopyIsOurs, Owns
<1>2. CASE /\ conn' # NoConn /\ conn'.recent /\ recording /\ rec # NoConn
           /\ rec' = Update(rec, conn')
  <2>1. Disowned(conn')
    BY <1>0, <1>2 DEF Row, Disowned
  <2>2. /\ rec' \in Conn /\ Disowned(rec') /\ rec'.first = conn'.first /\ rec'.gen = conn'.gen
        /\ ~rec'.disputed => /\ rec' = conn' /\ ~rec.disputed
                             /\ rec.pid # None => conn'.pid = rec.pid
                             /\ rec.started # None => conn'.started = rec.started
    BY <1>0, <1>2, <2>1, UpdateFacts
  <2>3. ASSUME scoped, ~rec'.disputed PROVE Owns(members', rec')
    <3>1. <<rec.pid, rec.started>> \in members
      BY <1>0, <1>2, <2>2, <2>3 DEF ScopedCopyIsOurs, Owns
    <3>2. rec.pid \in Pid /\ rec.started # None
      BY <1>0, <3>1
    <3>3. conn'.pid = rec.pid /\ conn'.started = rec.started
      BY <2>2, <2>3, <3>2, OwnershipAssumption
    <3> QED
      BY <2>2, <2>3, <3>1, <3>3 DEF Owns
  <2> QED
    BY <1>0, <1>2, <2>2, <2>3 DEF Row, Numbered, ScopedCopyIsOurs, Disowned, Owns
<1>3. CASE /\ conn' # NoConn /\ conn'.recent /\ recording /\ rec = NoConn
           /\ rec' = conn' /\ (scoped => Owns(members', conn'))
  BY <1>0, <1>3 DEF Row, Numbered, ScopedCopyIsOurs, Owns
<1> QED
  BY <1>0, <1>1, <1>2, <1>3, CopyFacts

\* The kernel keeps one TCP socket on the tuple: the next one is opened when
\* the last is gone or in TIME_WAIT, which ends with it.
LEMMA OneTcpSocketKept ==
  ASSUME StoreInv, OneTcpSocket, KernelStep
  PROVE  OneTcpSocket'
<1>0. UNCHANGED <<proto, rows>> /\ sock \in [Inode ->
        {"unused", "wildcard", "connected", "orphan", "time_wait", "gone"}]
  BY KernelTypes DEF StoreInv, TypeOK, scanVars
<1>1. Present' = Present
  BY <1>0 DEF Present
<1> SUFFICES ASSUME proto = "TCP"
             PROVE  \A i, j \in Inode : Listed(i)' /\ Listed(j)' => i = j
  BY <1>0, <1>1 DEF OneTcpSocket
<1>2. \A i, j \in Inode : Listed(i) /\ Listed(j) => i = j
  BY DEF OneTcpSocket
<1>3. ASSUME \A i \in Inode : Listed(i)' => Listed(i)
      PROVE  \A i, j \in Inode : Listed(i)' /\ Listed(j)' => i = j
  BY <1>2, <1>3
<1>4. ASSUME NEW h, sock' = Closed(sock, h) PROVE \A i \in Inode : Listed(i)' => Listed(i)
  BY <1>0, <1>4 DEF Closed, Listed
<1>5. ASSUME NEW p \in Pid, Birth(p) \/ Death(p)
      PROVE  \A i \in Inode : Listed(i)' => Listed(i)
  BY <1>4, <1>5 DEF Birth, Death, Listed
<1>6. ASSUME NEW p \in Pid, NEW i \in Inode, CloseSocket(p, i)
      PROVE  \A j \in Inode : Listed(j)' => Listed(j)
  BY <1>4, <1>6 DEF CloseSocket
<1>7. ASSUME NEW p \in Pid, NEW i \in Inode, OpenSocket(p, i)
      PROVE  \A j, k \in Inode : Listed(j)' /\ Listed(k)' => j = k
  <2>1. \A j \in Inode : sock[j] \in {"unused", "gone", "time_wait"}
    BY <1>7 DEF OpenSocket, InUse
  <2>2. PICK kind \in {"connected"} :
          sock' = [j \in Inode |-> IF j = i THEN kind
                                   ELSE IF sock[j] = "time_wait" THEN "gone" ELSE sock[j]]
    BY <1>7 DEF OpenSocket
  <2>3. \A j \in Inode : Listed(j)' => j = i
    BY <2>1, <2>2 DEF Listed
  <2> QED
    BY <2>3
<1>8. ASSUME NEW i \in Inode, Linger(i) PROVE \A j \in Inode : Listed(j)' => Listed(j)
  BY <1>0, <1>8 DEF Linger, Listed
<1> QED
  BY <1>3, <1>5, <1>6, <1>7, <1>8 DEF KernelStep

LEMMA SnapshotHasOne ==
  ASSUME StoreInv, OneTcpSocket, ScanStep
  PROVE  OneTcpSocket'
<1>1. PICK readable \in SUBSET Pid : Snapshot(readable)
  BY DEF ScanStep
<1>2. UNCHANGED <<proto, sock>> /\ rows' = [i \in Inode |->
        [kind   |-> IF sock[i] \in {"unused", "gone"} THEN "none" ELSE sock[i],
         owners |-> held[i] \cap readable]]
  BY <1>1 DEF Snapshot, kernelVars
<1>3. \A i \in Present' : i \in Inode /\ Listed(i)
  BY <1>2 DEF Present, Listed
<1> QED
  BY <1>2, <1>3 DEF OneTcpSocket, Listed

\* What a packet or a poll makes of the row, as far as recordings go by it.
RowStep ==
  /\ conn # NoConn => conn' # NoConn /\ Later(conn, conn')
  /\ conn' # NoConn /\ (conn = NoConn \/ conn.recent) => conn'.recent
  /\ conn = NoConn /\ conn' # NoConn => clock < conn'.first
  /\ proto = "TCP" /\ conn' # NoConn => conn'.gen = None
  /\ proto = "TCP" /\ conn # NoConn /\ conn.cookie # None =>
       conn'.disputed \/ conn'.cookie = conn.cookie
  /\ proto = "UDP" /\ conn # NoConn /\ conn.gen # None =>
       conn'.disputed \/ conn'.gen = conn.gen

\* The row the copy was made of is the row, unless the row began again since.
LEMMA ContinuesKept ==
  ASSUME RecordingInv, StoreInv', Copied, UNCHANGED proto, RowStep
  PROVE  Continues'
<1>0. /\ rec \in Conn \cup {NoConn} /\ Row(rec) /\ Continues
      /\ conn' \in Conn \cup {NoConn} /\ Row(conn)' /\ clock \in Nat
  BY DEF StoreInv, RecordingInv, RecordingTypeOK, TypeOK
<1> SUFFICES ASSUME rec' # NoConn, conn' # NoConn, proto = "TCP",
                    rec'.first = conn'.first, rec'.cookie # None
             PROVE  conn'.disputed \/ conn'.cookie = rec'.cookie
  BY DEF Continues
<1>1. CASE rec' = rec
  <2>1. rec.first <= clock /\ rec.first \in Nat /\ conn'.first \in Nat
    BY <1>0, <1>1, RowFields DEF Row
  <2>2. conn # NoConn
    BY <1>0, <1>1, <2>1 DEF RowStep
  <2>3. conn.first = rec.first /\ (conn.disputed => conn'.disputed)
    BY <1>1, <2>2 DEF Later, RowStep
  <2>4. conn.disputed \/ conn.cookie = rec.cookie
    BY <1>0, <1>1, <2>2, <2>3 DEF Continues
  <2> QED
    BY <1>1, <2>2, <2>3, <2>4 DEF RowStep
<1>2. CASE rec # NoConn /\ rec' = Update(rec, conn')
  <2>1. Disowned(conn')
    BY <1>0 DEF Row, Disowned
  <2> QED
    BY <1>0, <1>2, <2>1, UpdateFacts
<1>3. CASE rec' = conn'
  BY <1>3
<1> QED
  BY <1>0, <1>1, <1>2, <1>3, CopyFacts

\* The row c is that of the one socket that carried traffic in a step.
Carries(c, table, sockets) == \E i \in Inode :
  /\ sockets = {i}
  /\ IF proto = "TCP" THEN c.cookie = i
     ELSE \E u \in table : c.gen = u.gen /\ c.gen # None /\ u.ino = i /\ table = {u}

\* Sockets that the row before knew to be one, and those that carried traffic
\* since, are one for the row after, or the row is disputed.
LEMMA CarriedKept ==
  ASSUME RecordingInv, StoreInv', Copied, RowStep, UNCHANGED <<proto, forgot>>,
         \A c \in {rec, conn} \cap Conn, i \in Inode :
           proto = "UDP" /\ (\A u \in udp : u.gen = c.gen => u.ino = i)
             => \A u \in udp' : u.gen = c.gen => u.ino = i,
         NEW more, lives' = lives \cup more,
         more # {} => /\ recording /\ conn' # NoConn /\ conn'.recent
                      /\ conn'.disputed \/ Carries(conn', udp', more)
  PROVE  Carried'
<1>0. /\ rec \in Conn \cup {NoConn} /\ Row(rec) /\ Continues /\ Carried /\ TcpUnnumbered
      /\ conn \in Conn \cup {NoConn} /\ conn' \in Conn \cup {NoConn} /\ Row(conn)'
      /\ clock \in Nat /\ (~recording => lives = {} /\ rec = NoConn) /\ proto \in {"TCP", "UDP"}
  BY DEF StoreInv, RecordingInv, RecordingTypeOK, TypeOK, NoCopyBefore
<1>n. \A i \in Inode : i # None
  BY OwnershipAssumption DEF Inode
<1> SUFFICES ASSUME lives' # {}, ~forgot
             PROVE  IF rec' # NoConn THEN Bound(rec', udp', lives')
                    ELSE conn' # NoConn /\ conn'.recent /\ Bound(conn', udp', lives')
  BY DEF Carried, Bound
<1>1. ASSUME conn' # NoConn, lives = {} \/ (conn # NoConn /\ Bound(conn, udp, lives))
      PROVE  Bound(conn', udp', lives')
  <2>1. CASE conn'.disputed
    BY <2>1 DEF Bound
  <2>2. CASE lives = {} /\ ~conn'.disputed
    BY <2>2 DEF Bound, Carries
  <2>3. CASE conn # NoConn /\ Bound(conn, udp, lives) /\ ~conn'.disputed
    <3>1. ~conn.disputed
      BY <2>3 DEF RowStep, Later
    <3>2. PICK i \in Inode : /\ lives = {i}
                             /\ IF proto = "TCP" THEN conn.cookie = i
                                ELSE conn.gen # None /\ \A u \in udp : u.gen = conn.gen => u.ino = i
      BY <2>3, <3>1 DEF Bound
    <3>3. CASE proto = "TCP"
      <4>1. conn'.cookie = i
        BY <1>n, <2>3, <3>2, <3>3 DEF RowStep
      <4>2. more \subseteq {i}
        BY <2>3, <3>3, <4>1 DEF Carries
      <4> QED
        BY <3>2, <3>3, <4>1, <4>2 DEF Bound
    <3>4. CASE proto = "UDP"
      <4>1. conn'.gen = conn.gen /\ conn.gen # None
        BY <2>3, <3>2, <3>4 DEF RowStep
      <4>2. \A u \in udp' : u.gen = conn.gen => u.ino = i
        BY <1>0, <2>3, <3>2, <3>4
      <4>3. more \subseteq {i}
        BY <2>3, <3>4, <4>1, <4>2 DEF Carries
      <4>4. lives' = {i}
        BY <3>2, <4>3
      <4> QED
        BY <3>4, <4>1, <4>2, <4>4 DEF Bound
    <3> QED
      BY <1>0, <3>3, <3>4
  <2> QED
    BY <1>1, <2>1, <2>2, <2>3
<1>2. CASE rec = NoConn
  <2>1. conn' # NoConn /\ conn'.recent /\ (lives = {} \/ (conn # NoConn /\ Bound(conn, udp, lives)))
    BY <1>0, <1>2 DEF Carried, RowStep
  <2>2. rec' \in {NoConn, conn'}
    BY <1>0, <1>2, CopyFacts
  <2> QED
    BY <1>1, <2>1, <2>2
<1>3. CASE rec # NoConn /\ rec' = rec /\ more = {}
  <2>1. lives' = lives /\ Bound(rec, udp, lives)
    BY <1>0, <1>3 DEF Carried
  <2> QED
    BY <1>0, <1>3, <2>1 DEF Bound
<1>4. CASE rec # NoConn /\ conn' # NoConn /\ rec' = Update(rec, conn')
  <2>1. Disowned(conn')
    BY <1>0, <1>4 DEF Row, Disowned
  <2>2. /\ rec' \in Conn
        /\ ~rec'.disputed =>
             /\ rec' = conn' /\ ~conn'.disputed /\ ~rec.disputed
             /\ rec.first = conn'.first \/ (rec.gen # None /\ rec.gen = conn'.gen)
             /\ rec.gen # None => conn'.gen = rec.gen
    BY <1>0, <1>4, <2>1, UpdateFacts
  <2>3. rec' # NoConn
    BY <2>2, OwnershipAssumption
  <2>4. CASE rec'.disputed
    BY <2>3, <2>4 DEF Bound
  <2>5. CASE ~rec'.disputed /\ lives = {}
    BY <1>1, <1>4, <2>2, <2>3, <2>5
  <2>6. CASE ~rec'.disputed /\ lives # {}
    <3>1. PICK i \in Inode : /\ lives = {i}
                             /\ IF proto = "TCP" THEN rec.cookie = i
                                ELSE rec.gen # None /\ \A u \in udp : u.gen = rec.gen => u.ino = i
      BY <1>0, <1>4, <2>2, <2>6 DEF Carried, Bound
    <3>2. CASE proto = "TCP"
      <4>1. rec.first = conn'.first
        BY <1>0, <1>4, <2>2, <2>6, <3>2 DEF TcpUnnumbered
      <4>2. rec.first <= clock /\ rec.first \in Nat
        BY <1>0, <1>4, RowFields DEF Row
      <4>3. conn # NoConn
        BY <1>0, <1>4, <4>1, <4>2 DEF RowStep
      <4>4. conn.first = rec.first /\ ~conn.disputed
        BY <2>2, <2>6, <4>1, <4>3 DEF RowStep, Later
      <4>5. conn.cookie = i
        BY <1>0, <1>4, <1>n, <3>1, <3>2, <4>3, <4>4 DEF Continues
      <4>6. Bound(conn, udp, lives)
        BY <3>1, <3>2, <4>5 DEF Bound
      <4> QED
        BY <1>1, <1>4, <2>2, <2>3, <2>6, <4>3, <4>6
    <3>3. CASE proto = "UDP"
      <4>1. conn'.gen = rec.gen /\ rec.gen # None /\ rec' = conn'
        BY <2>2, <2>6, <3>1, <3>3
      <4>2. \A u \in udp' : u.gen = rec.gen => u.ino = i
        BY <1>0, <1>4, <3>1, <3>3
      <4>3. more \subseteq {i}
        BY <2>2, <2>6, <3>3, <4>1, <4>2 DEF Carries
      <4>4. lives' = {i}
        BY <3>1, <4>3
      <4> QED
        BY <2>3, <3>3, <4>1, <4>2, <4>4 DEF Bound
    <3> QED
      BY <1>0, <3>2, <3>3
  <2> QED
    BY <2>4, <2>5, <2>6
<1> QED
  BY <1>0, <1>2, <1>3, <1>4, CopyFacts

LEMMA RecordingStart == RecordingInit => RecordingInv
<1> SUFFICES ASSUME RecordingInit PROVE RecordingInv
  OBVIOUS
<1>1. StoreInv /\ TypeOK
  BY StoreInit DEF RecordingInit, StoreInv
<1>2. RecordingTypeOK
  BY <1>1 DEF RecordingInit, RecordingTypeOK, Row
<1>3. OneTcpSocket
  BY DEF RecordingInit, Init, OneTcpSocket, Present, Listed, NoRows
<1>4. TcpUnnumbered
  BY DEF RecordingInit, Init, TcpUnnumbered
<1> QED
  BY <1>1, <1>2, <1>3, <1>4
  DEF RecordingInit, RecordingInv, ScopedCopyIsOurs, Numbered, NoCopyBefore, Continues, Carried

LEMMA ListingTypes ==
  ASSUME NEW ps \in [Pid -> Start]
  PROVE  Listings(ps) \subseteq Pid \X (Start \ {None})
  BY DEF Listings

\* The kernel and the reading of a snapshot touch neither row nor copy.
LEMMA OutsideKeeps ==
  ASSUME RecordingInv, KernelStep \/ ScanStep, UNCHANGED recordingVars
  PROVE  RecordingInv'
<1>1. StoreInv' /\ OneTcpSocket'
  BY KernelKeeps, ScanKeeps, OneTcpSocketKept, SnapshotHasOne DEF RecordingInv
<1>2. UNCHANGED <<proto, storeVars>>
  BY KernelTypes DEF RecordingInv, StoreInv, ScanStep, Snapshot
<1> QED
  BY <1>1, <1>2
  DEF RecordingInv, RecordingTypeOK, StoreInv, recordingVars, storeVars, Row, Numbered,
      ScopedCopyIsOurs, Owns, TcpUnnumbered, NoCopyBefore, Continues, Carried, Bound

\* A recording begins: nothing is copied, and the row no longer counts as seen.
LEMMA StartKeeps ==
  ASSUME RecordingInv, StartRecording
  PROVE  RecordingInv'
<1>0. /\ TypeOK /\ conn \in Conn \cup {NoConn} /\ rec = NoConn /\ lives = {}
      /\ UNCHANGED <<proto, kernelVars, scanVars, udp, gens, clock, socketsAt, predates,
                     rec, lives, forgot>>
      /\ proc \in [Pid -> Start] /\ recording' = TRUE
  BY DEF RecordingInv, StoreInv, TypeOK, StartRecording, NoCopyBefore
<1>1. members' \subseteq Pid \X (Start \ {None}) /\ scoped' \in BOOLEAN
  BY <1>0, ListingTypes DEF StartRecording
<1>2. CASE conn = NoConn
  <2>1. conn' = NoConn
    BY <1>2 DEF StartRecording
  <2> QED
    BY <1>0, <1>1, <1>2, <2>1
    DEF RecordingInv, RecordingTypeOK, StoreInv, TypeOK, ReadTogether, KnownOwner, Lifetimes,
        LiveOwnerIsCurrent, kernelVars, scanVars, Row, Numbered, ScopedCopyIsOurs,
        TcpUnnumbered, NoCopyBefore, Continues, Carried, OneTcpSocket, Listed, Present
<1>3. CASE conn # NoConn
  <2>1. conn' = [conn EXCEPT !.recent = FALSE]
    BY <1>3 DEF StartRecording
  <2>2. /\ conn' \in Conn /\ conn'.pid = conn.pid /\ conn'.started = conn.started
        /\ conn'.first = conn.first /\ conn'.gen = conn.gen /\ conn'.closed = conn.closed
        /\ conn'.disputed = conn.disputed
    BY <1>0, <1>3, <2>1 DEF Conn
  <2>3. TypeOK' /\ ReadTogether' /\ socketsAt' <= clock' /\ Numbered(conn)'
    BY <1>0, <1>3, <2>2
    DEF RecordingInv, StoreInv, TypeOK, ReadTogether, kernelVars, scanVars, Row, Numbered
  <2>4. KnownOwner' /\ Lifetimes'
    <3>1. conn' # NoConn
      BY <2>2, OwnershipAssumption
    <3>2. KnownOwner /\ Lifetimes
      BY DEF RecordingInv, StoreInv
    <3>3. KnownOwner'
      BY <1>0, <1>3, <2>2, <3>2 DEF KnownOwner, Holds
    <3>4. Lifetimes'
      BY <1>0, <1>3, <2>2, <3>1, <3>2 DEF Lifetimes, Younger
    <3> QED
      BY <3>3, <3>4
  <2>5. LiveOwnerIsCurrent'
    BY <1>0, <1>3, <2>2 DEF RecordingInv, StoreInv, LiveOwnerIsCurrent
  <2>6. StoreInv'
    BY <2>3, <2>4, <2>5 DEF StoreInv
  <2> QED
    BY <1>0, <1>1, <1>3, <2>2, <2>6
    DEF RecordingInv, RecordingTypeOK, StoreInv, Row, Numbered, ScopedCopyIsOurs, kernelVars,
        scanVars, TcpUnnumbered, NoCopyBefore, Continues, Carried, OneTcpSocket, Listed, Present
<1> QED
  BY <1>2, <1>3

\* What the copy, the row and the sockets keep, put together.
LEMMA RecordedStep ==
  ASSUME RecordingInv, StoreInv', OneTcpSocket', Copied, RowStep, Continues', Carried',
         UNCHANGED <<proto, recording, scoped, forgot>>,
         clock <= clock', gens <= gens', proto = "TCP" => udp' = {},
         members \subseteq members', members' \subseteq Pid \X (Start \ {None}),
         lives' \subseteq Inode, ~recording => lives' = {}
  PROVE  RecordingInv'
<1>1. /\ rec' \in Conn \cup {NoConn} /\ Row(rec)' /\ Numbered(rec)'
      /\ ScopedCopyIsOurs' /\ (~recording => rec' = NoConn)
      /\ proto = "TCP" /\ rec' # NoConn => rec'.gen = None
  BY CopyKeeps DEF RowStep
<1>2. RecordingTypeOK'
  BY <1>1 DEF RecordingInv, RecordingTypeOK, StoreInv
<1>3. TcpUnnumbered' /\ NoCopyBefore'
  BY <1>1 DEF TcpUnnumbered, NoCopyBefore, RowStep
<1> QED
  BY <1>1, <1>2, <1>3 DEF RecordingInv

LEMMA HandleKeeps ==
  ASSUME RecordingInv, HandlePacket
  PROVE  RecordingInv'
<1>0. /\ StoreInv /\ TypeOK /\ ApplyPacket /\ clock \in Nat /\ gens \in Nat
      /\ UNCHANGED <<proto, kernelVars, scanVars, udp, gens, socketsAt, predates,
                     recording, scoped, members, forgot>>
      /\ clock' = (IF conn = NoConn THEN clock + 1 ELSE clock)
      /\ udp \subseteq UdpSocket /\ proto \in {"TCP", "UDP"}
  BY DEF RecordingInv, StoreInv, TypeOK, HandlePacket, ApplyPacket
<1>1. StoreInv'
  BY <1>0, PacketKeeps
<1>2. Copied
  BY <1>0 DEF HandlePacket, RememberConn, Copied
<1>3. /\ Before \in Conn /\ (conn # NoConn => Before = conn)
      /\ (conn = NoConn => Before.first = clock + 1 /\ Before.gen = None /\ ~Before.disputed)
  BY <1>0, EntryFacts, NewConnFacts DEF Before
<1>4. /\ Later(Before, conn') /\ conn'.recent /\ conn' # NoConn
      /\ IF proto = "UDP" THEN Attributed(Before, conn', udp)
         ELSE conn'.gen = Before.gen /\ conn'.cookie = Before.cookie
  BY <1>0, PacketRow, OwnershipAssumption DEF Later
<1>5. RowStep
  <2>1. conn = NoConn => clock < conn'.first
    BY <1>0, <1>3, <1>4 DEF Later
  <2>2. proto = "TCP" => conn'.gen = None
    BY <1>3, <1>4 DEF RecordingInv, TcpUnnumbered
  <2>3. proto = "UDP" /\ Before.gen # None => conn'.disputed \/ conn'.gen = Before.gen
    BY <1>4 DEF Attributed, Unique
  <2> QED
    BY <1>0, <1>3, <1>4, <2>1, <2>2, <2>3 DEF RowStep
<1> DEFINE more == IF recording THEN {u.ino : u \in {v \in udp : udp = {v}}} ELSE {}
<1>6. lives' = lives \cup more
  BY DEF HandlePacket
<1>7. ASSUME more # {}
      PROVE  /\ recording /\ conn' # NoConn /\ conn'.recent
             /\ conn'.disputed \/ Carries(conn', udp', more)
  <2>1. PICK u \in udp : udp = {u} /\ more = {u.ino} /\ recording
    BY <1>7
  <2>2. proto = "UDP"
    BY <1>0, <2>1 DEF RecordingInv, TcpUnnumbered
  <2>3. u.ino \in Inode /\ u.gen \in Nat /\ u.gen # None
    BY <1>0, <2>1, OwnershipAssumption DEF UdpSocket
  <2>4. conn'.disputed \/ conn'.gen = u.gen
    BY <1>4, <2>1, <2>2 DEF Attributed, Unique
  <2> QED
    BY <1>0, <1>4, <2>1, <2>2, <2>3, <2>4 DEF Carries
<1> HIDE DEF more
<1>8. Continues' /\ Carried'
  BY <1>0, <1>1, <1>2, <1>5, <1>6, <1>7, ContinuesKept, CarriedKept
<1>9. OneTcpSocket'
  BY <1>0 DEF RecordingInv, OneTcpSocket, Listed, Present, kernelVars, scanVars
<1>10. lives' \subseteq Inode /\ (~recording => lives' = {})
  BY <1>0, <1>6 DEF more, RecordingInv, RecordingTypeOK, NoCopyBefore, UdpSocket
<1>11. /\ proto = "TCP" => udp' = {}
       /\ members' \subseteq Pid \X (Start \ {None})
  BY <1>0 DEF RecordingInv, TcpUnnumbered, RecordingTypeOK
<1> QED
  BY <1>0, <1>1, <1>2, <1>5, <1>8, <1>9, <1>10, <1>11, RecordedStep

LEMMA PollAppliedKeeps ==
  ASSUME RecordingInv, PollApplied
  PROVE  RecordingInv'
<1>0. /\ StoreInv /\ TypeOK /\ ReadTogether /\ ApplySockets /\ clock \in Nat /\ rows # NoRows
      /\ UNCHANGED <<proto, kernelVars, recording, scoped, forgot>>
      /\ clock' = clock + 1 /\ rows' = NoRows
      /\ proto \in {"TCP", "UDP"} /\ OneTcpSocket /\ Present \subseteq Inode
  BY PresentFacts DEF RecordingInv, StoreInv, TypeOK, PollApplied, ApplySockets
<1>1. StoreInv' /\ gens <= gens'
  BY <1>0, PollKeeps, TableFacts
<1>2. Copied
  BY DEF PollApplied, RememberConn, Copied
<1>3. /\ Before \in Conn /\ (conn # NoConn => Before = conn)
      /\ (conn = NoConn => Before.first = clock + 1 /\ Before.gen = None /\ ~Before.disputed)
  BY <1>0, EntryFacts, NewConnFacts DEF Before
<1>4. ASSUME conn # NoConn \/ conn' # NoConn
      PROVE  /\ Later(Before, conn') /\ (conn = NoConn \/ conn.recent => conn'.recent)
             /\ conn' # NoConn
             /\ IF proto = "UDP"
                THEN \/ Attributed(Before, conn', udp')
                     \/ conn'.gen = Before.gen
                ELSE /\ conn'.gen = Before.gen
                     /\ Before.cookie # None => conn'.disputed \/ conn'.cookie = Before.cookie
  BY <1>0, <1>4, PolledRow, OwnershipAssumption DEF Later
<1>5. RowStep
  <2>1. conn = NoConn /\ conn' # NoConn => clock < conn'.first
    BY <1>0, <1>3, <1>4 DEF Later
  <2>2. proto = "TCP" /\ conn' # NoConn => conn'.gen = None
    BY <1>3, <1>4 DEF RecordingInv, TcpUnnumbered
  <2>3. proto = "UDP" /\ conn # NoConn /\ conn.gen # None => conn'.disputed \/ conn'.gen = conn.gen
    BY <1>3, <1>4 DEF Attributed, Unique
  <2> QED
    BY <1>0, <1>3, <1>4, <2>1, <2>2, <2>3 DEF RowStep
<1> DEFINE more == IF recording /\ proto = "TCP"
                   THEN {i \in Present : rows[i].kind = "connected"} ELSE {}
<1>6. lives' = lives \cup more
  BY DEF PollApplied
<1>7. ASSUME more # {}
      PROVE  /\ recording /\ conn' # NoConn /\ conn'.recent
             /\ conn'.disputed \/ Carries(conn', udp', more)
  <2>1. PICK i \in Present : rows[i].kind = "connected" /\ recording /\ proto = "TCP"
    BY <1>7
  <2>2. more = {i}
    BY <1>0, <2>1 DEF OneTcpSocket
  <2>3. conn' # NoConn /\ conn'.recent /\ conn'.cookie = i
    BY <1>0, <2>1, ConnectedRow
  <2> QED
    BY <1>0, <2>1, <2>2, <2>3 DEF Carries
<1>8. ASSUME NEW c \in {rec, conn} \cap Conn, NEW i \in Inode,
             \A u \in udp : u.gen = c.gen => u.ino = i
      PROVE  \A u \in udp' : u.gen = c.gen => u.ino = i
  <2>1. c.gen # None => c.gen <= gens
    BY <1>8, OwnershipAssumption DEF RecordingInv, StoreInv, Numbered
  <2> QED
    BY <1>0, <1>8, <2>1, NextTable
<1>m. more \subseteq Inode /\ (~recording => more = {})
  BY <1>0
<1> HIDE DEF more
<1>9. Continues' /\ Carried'
  BY <1>0, <1>1, <1>2, <1>5, <1>6, <1>7, <1>8, ContinuesKept, CarriedKept
<1>10. OneTcpSocket'
  BY <1>0 DEF OneTcpSocket, Listed, Present, NoRows, kernelVars
<1>11. lives' \subseteq Inode /\ (~recording => lives' = {})
  BY <1>0, <1>6, <1>m DEF RecordingInv, RecordingTypeOK, NoCopyBefore
<1>12. proto = "TCP" => udp' = {}
  BY DEF PollApplied, ApplySockets, Table
<1>13. members \subseteq members' /\ members' \subseteq Pid \X (Start \ {None})
  <2>1. Listings(list) \subseteq Pid \X (Start \ {None})
    BY <1>0, ListingTypes DEF ReadTogether
  <2>2. members' \in Joins /\ members \subseteq Pid \X (Start \ {None})
    BY DEF PollApplied, RecordingInv, RecordingTypeOK
  <2> QED
    BY <2>1, <2>2 DEF Joins
<1>14. clock <= clock'
  BY <1>0
<1> QED
  BY <1>0, <1>1, <1>2, <1>5, <1>9, <1>10, <1>11, <1>12, <1>13, <1>14, RecordedStep

\* The row is forgotten; what is lost before it was copied is noted.
LEMMA LostKeeps ==
  ASSUME RecordingInv, HistoryLost
  PROVE  RecordingInv'
<1>0. /\ StoreInv' /\ conn' = NoConn /\ conn # NoConn
      /\ UNCHANGED <<proto, kernelVars, scanVars, udp, gens, clock, socketsAt>>
      /\ UNCHANGED <<recording, scoped, members, rec, lives>>
      /\ forgot' = (forgot \/ (recording /\ rec = NoConn /\ conn.recent))
  BY ForgetKeeps DEF RecordingInv, HistoryLost, Forget
<1>1. Carried'
  <2> SUFFICES ASSUME lives # {}, ~forgot' PROVE rec # NoConn /\ Bound(rec, udp, lives)
    BY <1>0 DEF Carried, Bound
  <2>1. recording /\ ~forgot /\ ~(rec = NoConn /\ conn.recent)
    BY <1>0 DEF RecordingInv, NoCopyBefore
  <2> QED
    BY <1>0, <2>1 DEF RecordingInv, Carried
<1>2. forgot' \in BOOLEAN
  BY <1>0 DEF RecordingInv, RecordingTypeOK
<1> QED
  BY <1>0, <1>1, <1>2
  DEF RecordingInv, RecordingTypeOK, StoreInv, Row, Numbered, ScopedCopyIsOurs, Owns, kernelVars,
      scanVars, TcpUnnumbered, NoCopyBefore, Continues, OneTcpSocket, Listed, Present

LEMMA RecordingStep ==
  ASSUME RecordingInv, [RecordingNext]_allVars
  PROVE  RecordingInv'
<1>1. CASE UNCHANGED allVars
  <2>1. StoreInv'
    BY <1>1, StoreStep DEF allVars, RecordingInv
  <2> QED
    BY <1>1, <2>1
    DEF allVars, vars, kernelVars, scanVars, storeVars, recordingVars, RecordingInv,
        RecordingTypeOK, StoreInv, Row, Numbered, ScopedCopyIsOurs, Owns, TcpUnnumbered,
        NoCopyBefore, Continues, Carried, Bound, OneTcpSocket, Listed, Present
<1> QED
  BY <1>1, OutsideKeeps, StartKeeps, HandleKeeps, PollAppliedKeeps, LostKeeps DEF RecordingNext

\* In every reachable state the copy continues the row of the store, and either of
\* them tells whether the recorded packets were carried by one socket
\* (remember_dump_conn of main.rs).
THEOREM RecordingInvariant == RecordingSpec => []RecordingInv
  BY RecordingStart, RecordingStep, PTL DEF RecordingSpec

\* The copy of the recording is a well-formed row, too, and its members are
\* processes whose start time is known (remember_dump_conn of main.rs).
THEOREM RecordingTypes == RecordingSpec => []RecordingTypeOK
<1>1. RecordingInv => RecordingTypeOK
  BY DEF RecordingInv
<1> QED
  BY <1>1, RecordingInvariant, PTL

\* A process-only recording copies the rows of its group: a copy belongs to a
\* member, or is disputed since (remember_dump_conn of main.rs).
THEOREM ScopedCopiesAreOurs == RecordingSpec => []ScopedCopyIsOurs
<1>1. RecordingInv => ScopedCopyIsOurs
  BY DEF RecordingInv
<1> QED
  BY <1>1, RecordingInvariant, PTL

\* What dump_plan ascribes to a process was carried by one socket, also when
\* the live history lost the row on the way.
THEOREM ClaimsHaveOneLifetime == RecordingSpec => []ClaimHasOneLifetime
<1>1. RecordingInv => ClaimHasOneLifetime
  <2> SUFFICES ASSUME RecordingInv, recording, ~forgot, Cardinality(lives) > 1, Claims(Plan)
               PROVE  FALSE
    BY DEF ClaimHasOneLifetime
  <2>0. /\ rec \in Conn \cup {NoConn} /\ conn \in Conn \cup {NoConn}
        /\ Row(rec) /\ Row(conn) /\ Carried /\ members \subseteq Pid \X (Start \ {None})
    BY DEF RecordingInv, RecordingTypeOK, StoreInv, TypeOK
  <2>1. lives # {} /\ \A i \in Inode : lives # {i}
    <3>1. Cardinality({}) = 0
      BY FS_EmptySet
    <3>2. \A i \in Inode : Cardinality({i}) = 1
      BY FS_Singleton
    <3> QED
      BY <3>1, <3>2
  <2>2. \A c, table : Bound(c, table, lives) => c.disputed
    BY <2>1 DEF Bound
  <2>3. Plan # NoConn /\ Plan.pid # None
    BY <2>0, OwnershipAssumption DEF Claims, Owns
  <2>4. CASE rec # NoConn
    <3>1. rec.disputed /\ rec.pid = None
      BY <2>0, <2>1, <2>2, <2>4 DEF Carried, Row
    <3>2. conn # NoConn => Update(rec, conn).pid = None
      <4>1. ASSUME conn # NoConn PROVE Disowned(conn)
        BY <2>0, <4>1 DEF Row, Disowned
      <4> QED
        BY <2>0, <2>4, <3>1, <4>1, UpdateFacts DEF Disowned
    <3> QED
      BY <2>3, <2>4, <3>1, <3>2 DEF Plan
  <2>5. CASE rec = NoConn
    <3>1. conn # NoConn /\ conn.recent /\ conn.disputed
      BY <2>0, <2>1, <2>2, <2>5 DEF Carried
    <3>2. conn.pid = None
      BY <2>0, <3>1 DEF Row
    <3> QED
      BY <2>3, <2>5, <3>1, <3>2 DEF Plan
  <2> QED
    BY <2>4, <2>5
<1> QED
  BY <1>1, RecordingInvariant, PTL
=============================================================================
