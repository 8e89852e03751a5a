------------------------------- MODULE TlsAssembly -------------------------------
(***************************************************************************)
(* How src/src/tls.rs puts a ClientHello together from TCP segments: one    *)
(* direction of one address and port pair, used by one connection after     *)
(* another.  The capture may miss segments and see them in any order, more  *)
(* than once, split in other ways, and late.                                *)
(*                                                                          *)
(* A hello is one record of RecordLen bytes: a type, a version, bytes that  *)
(* may look like a type (position 2), and at the end the name.              *)
(***************************************************************************)
EXTENDS Integers, Sequences, FiniteSets

CONSTANTS
  Tcp, Isn,    \* connections and their initial sequence numbers
  NoName,
  SeqSpace,    \* sequence numbers are counted modulo this
  RecordLen, MaxStream, MaxPending

\* What a byte may be: the name of its connection, or one of these.
Plain == {"type", "version", "altered"}
Octet == Tcp \cup Plain

TlsParameters ==
  /\ Isn \in [Tcp -> 0..SeqSpace - 1] /\ Tcp \cap Plain = {}
  /\ NoName \notin Octet \cup [by : Tcp, name : Octet]
  /\ RecordLen \in 3..MaxStream /\ MaxStream \in Nat /\ MaxPending \in Nat
  \* TCP keeps the streams of successive connections apart.
  /\ SeqSpace \in Nat /\ SeqSpace >= MaxStream + RecordLen
  /\ \A c, d \in Tcp : c # d => (Isn[c] - Isn[d]) % SeqSpace >= MaxStream + RecordLen

VARIABLES
  tlsFlow, \* Assembler::flows at the key, or NoTlsFlow
  named,   \* history: the name this flow has delivered
  out,     \* the packet that delivered a name last, and the name
  heard    \* history: bytes the flow was given, by connection and position

tlsVars == <<tlsFlow, named, out, heard>>

RecordOffset == 0..RecordLen - 1
NoBase == -1
NoTlsFlow == [open |-> FALSE]

\* A byte of the stream of a connection, as sent or altered on the way.
Byte(c, i, bad) == IF i = 0 \/ (i = 2 /\ i < RecordLen - 1) THEN "type"
                   ELSE IF i = 1 THEN "version"
                   ELSE IF bad THEN "altered" ELSE c

\* A segment, as data and sequence number, and bytes at their offsets.
Segment == Seq(Octet) \X (0..SeqSpace - 1)
Octets == UNION {[S -> Octet] : S \in SUBSET (0..MaxStream - 1)}

TlsFlows == [open : {TRUE}, base : 0..SeqSpace - 1 \cup {NoBase}, buf : Octets,
             pending : Seq(Segment), done : BOOLEAN]

TlsTypeOK ==
  /\ tlsFlow \in TlsFlows \cup {NoTlsFlow}
  /\ tlsFlow # NoTlsFlow => /\ Len(tlsFlow.pending) <= MaxPending
                           /\ (tlsFlow.done => tlsFlow.pending = <<>>)
  /\ named \in Octet \cup {NoName}
  /\ out \in [by : Tcp, name : Octet] \cup {NoName}
  /\ heard \subseteq Tcp \X RecordOffset \X Octet

TlsInit == tlsFlow = NoTlsFlow /\ named = NoName /\ out = NoName /\ heard = {}
-----------------------------------------------------------------------------
NoOctets == [i \in {} |-> NoName]

\* Flow::finish.
TlsFinish(f) == [f EXCEPT !.done = TRUE, !.pending = <<>>, !.buf = NoOctets]

\* The bytes of a segment at their offsets, over what is there.
Written(buf, offset, data) ==
  LET new == offset..offset + Len(data) - 1
  IN [p \in DOMAIN buf \cup new |-> IF p \in new THEN data[p - offset + 1] ELSE buf[p]]

\* Mutant: the bytes that came last are kept.
PlaceLast(f, seq, data) ==
  LET offset == (seq - f.base) % SeqSpace
  IN IF offset + Len(data) > MaxStream THEN f
     ELSE [f EXCEPT !.buf = Written(f.buf, offset, data)]

\* Flow::place: a segment beyond the limit is ignored, and one that contradicts
\* what is there ends the assembly.  It does not ask whether the flow is done: a
\* flow that ends while held back segments are placed keeps the bytes of the rest.
Place(f, seq, data) ==
  LET offset == (seq - f.base) % SeqSpace
      clash  == \E i \in DOMAIN data :
                  offset + i - 1 \in DOMAIN f.buf /\ f.buf[offset + i - 1] # data[i]
  IN IF offset + Len(data) > MaxStream THEN f
     ELSE IF clash THEN TlsFinish(f)
     ELSE [f EXCEPT !.buf = Written(f.buf, offset, data)]

\* Mutant: segments that came before the start of the record are forgotten.
BasedAlone(f, seq) == [f EXCEPT !.base = seq, !.pending = <<>>]

\* The flow as the segments that were held back are placed, one after the other.
Placing(f, seq) ==
  LET start == [f EXCEPT !.base = seq, !.pending = <<>>]
      placed[n \in 0..Len(f.pending)] ==
        IF n = 0 THEN start ELSE Place(placed[n - 1], f.pending[n][2], f.pending[n][1])
  IN placed

\* The start of the record is known: what was held back is placed.
Based(f, seq) == Placing(f, seq)[Len(f.pending)]

Held(f) == Cardinality(UNION {{<<n, i>> : i \in DOMAIN f.pending[n][1]} : n \in DOMAIN f.pending})

Room(f, data) == Len(f.pending) < MaxPending /\ Held(f) + Len(data) <= MaxStream

\* Flow::add up to the placing of the segment.
Taken(f, seq, data) ==
  IF f.done \/ data = <<>> THEN f
  ELSE IF f.base # NoBase THEN Place(f, seq, data)
  ELSE IF data[1] = "type" THEN Place(Based(f, seq), seq, data)
  ELSE IF Room(f, data) THEN [f EXCEPT !.pending = Append(@, <<data, seq>>)]
  ELSE f

\* The rest of Flow::add: the bytes without a gap from the start.
Gapless(f) == {i \in RecordOffset : 0..i \subseteq DOMAIN f.buf}
Wrong(f) == 1 \in Gapless(f) /\ (f.buf[0] # "type" \/ f.buf[1] # "version")
Whole(f) == ~f.done /\ f.base # NoBase /\ Gapless(f) = RecordOffset /\ ~Wrong(f)
Parsed(f) == IF Whole(f) \/ (~f.done /\ Wrong(f)) THEN TlsFinish(f) ELSE f
-----------------------------------------------------------------------------
NewTlsFlow(base) == [open |-> TRUE, base |-> base, buf |-> NoOctets, pending |-> <<>>,
                     done |-> FALSE]

\* Held back without room, a segment is as good as lost.
Kept(f, data) == f.base # NoBase \/ f.done \/ data[1] = "type" \/ Room(f, data)

\* The bytes first..last of the stream of a connection (none if last < first),
\* possibly with the last one of the record altered.
Sent(c, first, last, bad) ==
  [i \in 1..last - first + 1 |-> Byte(c, first + i - 1, bad /\ first + i - 1 = RecordLen - 1)]

SeqOf(c, first) == (Isn[c] + 1 + first) % SeqSpace

\* What the flow is given with a segment.
Offered(c, first, data) == {<<c, first + i - 1, data[i]>> : i \in DOMAIN data}

\* Assembler::feed for such a segment.
TlsFeed(c, first, last, bad, flag) ==
  LET data  == Sent(c, first, last, bad)
      seq   == SeqOf(c, first)
      fresh == tlsFlow = NoTlsFlow \/ flag = "syn"
      begun == IF fresh THEN NewTlsFlow(IF flag = "syn" THEN seq ELSE NoBase) ELSE tlsFlow
      taken == Taken(begun, seq, data)
      name  == IF Whole(taken) THEN taken.buf[RecordLen - 1] ELSE NoName
      past  == IF fresh THEN {} ELSE heard
  IN /\ flag # "syn" => data # <<>>
     /\ tlsFlow' = IF flag = "fin" THEN NoTlsFlow ELSE Parsed(taken)
     /\ out' = IF name = NoName THEN out ELSE [by |-> c, name |-> name]
     /\ named' = IF flag = "fin" THEN NoName
                 ELSE IF name # NoName THEN name
                 ELSE IF fresh THEN NoName ELSE named
     /\ heard' = IF flag = "fin" THEN {}
                 ELSE IF data # <<>> /\ Kept(begun, data)
                 THEN past \cup Offered(c, first, data) ELSE past

\* A reset, 10 seconds of silence, or 256 other flows seen since.
TlsDrop ==
  /\ tlsFlow # NoTlsFlow
  /\ tlsFlow' = NoTlsFlow /\ named' = NoName /\ heard' = {}
  /\ UNCHANGED out

TlsNext ==
  \/ \E c \in Tcp, first, last \in RecordOffset, bad \in BOOLEAN, flag \in {"none", "syn", "fin"} :
       /\ flag = "syn" => first = 0
       /\ first <= last
       /\ TlsFeed(c, first, last, bad, flag)
  \/ \E c \in Tcp : TlsFeed(c, 0, -1, FALSE, "syn")
  \/ TlsDrop

TlsSpec == TlsInit /\ [][TlsNext]_tlsVars
-----------------------------------------------------------------------------
HeardAt(c, i, given) == {b \in Octet : <<c, i, b>> \in given}

(* The name that a packet delivers is the one its own connection sent: not    *)
(* that of an earlier connection of the same ports whose segments are late,   *)
(* and none when the bytes of the hello were seen in two versions             *)
(* (contradictory retransmits do not give a reliable name).                   *)
NameIsOfItsConnection ==
  [][out' # out =>
       /\ out'.name \in {out'.by, "altered"}
       /\ tlsFlow' # NoTlsFlow => \A i \in RecordOffset :
            HeardAt(out'.by, i, heard') \subseteq
              {Byte(out'.by, i, i = RecordLen - 1 /\ out'.name = "altered")}]_tlsVars

(* Reordered segments, retransmissions and the wrap of sequence numbers are   *)
(* supported: once every byte of a hello was seen, and no byte in two         *)
(* versions, its name has been delivered, if the flow begins where it does.   *)
TlsHelloIsNamed ==
  \A c \in Tcp :
    (/\ tlsFlow # NoTlsFlow /\ tlsFlow.base = SeqOf(c, 0)
     /\ \A i \in RecordOffset : \E b \in Octet : HeardAt(c, i, heard) = {b})
    => named # NoName
=============================================================================
