------------------------------- MODULE QuicAssembly -------------------------------
(***************************************************************************)
(* How src/src/quic.rs puts a ClientHello together from QUIC Initial        *)
(* packets: one flow, that is one client port and connection id.  A packet  *)
(* can only be opened with the number it was sent with, of which it shows   *)
(* the last digits.  Packets are missed, seen twice and in any order; the   *)
(* fragments they carry overlap and are shuffled, but cannot be altered.    *)
(***************************************************************************)
EXTENDS Integers, QuicNumber

CONSTANTS HelloLen, MaxHello, MaxPacket

QuicParameters ==
  /\ MaxHello \in Nat /\ HelloLen \in 1..MaxHello
  /\ MaxPacket \in 0..NumberSpace - 1

VARIABLES
  flow,    \* Assembler::flows at the key, or NoFlow
  opened,  \* history: bytes of the hello in packets that were opened
  names    \* history: how often this flow has delivered its name

quicVars == <<flow, opened, names>>

Position == 0..HelloLen - 1
NoFlow == [open |-> FALSE]

QuicTypeOK ==
  /\ flow \in [open : {TRUE}, filled : SUBSET (0..MaxHello - 1), done : BOOLEAN,
                largest : 0..MaxPacket] \cup {NoFlow}
  /\ (flow # NoFlow /\ flow.done) => flow.filled = {}
  /\ opened \subseteq Position /\ names \in 0..1

QuicInit == flow = NoFlow /\ opened = {} /\ names = 0

Largest == IF flow = NoFlow THEN NoNumber ELSE flow.largest
-----------------------------------------------------------------------------
\* Flow::finish.
Finish(f) == [f EXCEPT !.done = TRUE, !.filled = {}]

Ready(f) == {i \in Position : 0..i \subseteq f.filled}
Complete(f) == ~f.done /\ Ready(f) = Position

\* Mutant: a fragment is only taken where the last one ended.
AddInOrder(f, off, len) ==
  LET end == IF off + len < MaxHello THEN off + len ELSE MaxHello
      got == IF off \in f.filled \cup {0} \cup {i + 1 : i \in f.filled}
             THEN [f EXCEPT !.filled = @ \cup (off..end - 1)] ELSE f
  IN IF f.done THEN f ELSE got

\* Flow::add: the bytes of a fragment, up to the limit, whatever was there; the
\* caller takes no more of them once the flow is done.
Add(f, off, len) ==
  LET end == IF off + len < MaxHello THEN off + len ELSE MaxHello
  IN IF f.done THEN f ELSE [f EXCEPT !.filled = @ \cup (off..end - 1)]

Settled(f) == IF Complete(f) THEN Finish(f) ELSE f

NewFlow == [open |-> TRUE, filled |-> {}, done |-> FALSE, largest |-> 0]

\* crypto_frames: the fragments of a packet, one after the other; bound: there
\* are two of them, and either may be empty.
Fragment == {a \in Position \X (0..HelloLen) : a[1] + a[2] <= HelloLen}
Bytes(a) == a[1]..a[1] + a[2] - 1

Given(f, a) == Settled(Add(f, a[1], a[2]))

\* Assembler::feed for the packet with this number and these fragments.
Feed(pn, a, b) ==
  LET begun  == IF flow = NoFlow THEN NewFlow ELSE flow
      marked == [begun EXCEPT !.largest =
                   IF flow = NoFlow \/ pn > begun.largest THEN pn ELSE begun.largest]
      after  == Given(Given(marked, a), b)
  IN /\ Opens(pn, Largest)
     /\ IF begun.done
        THEN flow' = begun /\ UNCHANGED <<opened, names>>
        ELSE /\ flow' = after
             /\ opened' = opened \cup Bytes(a) \cup Bytes(b)
             /\ names' = IF after.done THEN names + 1 ELSE names

\* A packet whose number is taken for another one fails its check; the server's
\* packets, with other keys, fail it as well.
FeedOpaque(pn) == ~Opens(pn, Largest) /\ UNCHANGED quicVars

\* 10 seconds of silence, or 256 other flows seen since.
Drop ==
  /\ flow # NoFlow
  /\ flow' = NoFlow /\ opened' = {} /\ names' = 0

QuicNext ==
  \/ \E pn \in 0..MaxPacket, a, b \in Fragment : Feed(pn, a, b)
  \/ \E pn \in 0..MaxPacket : FeedOpaque(pn)
  \/ Drop

QuicSpec == QuicInit /\ [][QuicNext]_quicVars
-----------------------------------------------------------------------------
(* The pieces are put together by offset: once packets that could be opened   *)
(* have carried every byte of the hello, in whatever order and packets, its   *)
(* name has been delivered, and it is delivered once.                         *)
QuicHelloIsNamed == flow # NoFlow /\ opened = Position => names = 1

(* Packets are opened although only the end of their number is sent: a packet *)
(* less than half a window from the next number expected is read as itself,   *)
(* at the ends of the number space too.                                       *)
NearPacketIsOpened ==
  \A pn \in 0..MaxPacket : Near(pn, Largest) => Opens(pn, Largest)
=============================================================================
