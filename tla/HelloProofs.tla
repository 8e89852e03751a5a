------------------------------ MODULE HelloProofs ------------------------------
(***************************************************************************)
(* What is proved of the two assemblies of a ClientHello.                   *)
(*                                                                          *)
(* QUIC: for every width of the packet number, every space of numbers, and  *)
(* hellos and packets without limit, numbers near the expected one are      *)
(* decoded to themselves, and the fragments of the packets give the name,   *)
(* once.                                                                    *)
(*                                                                          *)
(* TCP: for every set of connections with streams that are apart, every     *)
(* space of sequence numbers, and hellos of any length, segments in any     *)
(* order give the name of the connection that sent them, and no other.      *)
(***************************************************************************)
EXTENDS QuicAssembly, TlsAssembly, WellFoundedInduction, TLAPS

Number == 0..NumberSpace - 1

(* A number is so many whole windows and the digits that are sent.            *)
LEMMA Digits ==
  ASSUME NumberParameters, NEW n \in Nat
  PROVE  /\ Window \in Nat \ {0} /\ n % Window \in 0..Window - 1
         /\ n \div Window \in Nat
         /\ n = Window * (n \div Window) + (n % Window)
<1>1. Window \in Nat \ {0}
  BY DEF Window, NumberParameters
<1>2. \A w \in Nat \ {0} : /\ n % w \in 0..w - 1 /\ n \div w \in Nat
                           /\ n = w * (n \div w) + (n % w)
  BY SMT
<1> QED BY <1>1, <1>2

(* Numbers with the same whole windows differ by their digits, and by at      *)
(* least one window more for each window between them.                        *)
LEMMA WindowsApart ==
  ASSUME NEW w \in Nat \ {0}, NEW p \in Nat, NEW q \in Nat
  PROVE  /\ p = q \/ p = q + 1 \/ q = p + 1 \/ p >= q + 2 \/ q >= p + 2
         /\ p = q + 1 => w * p = w * q + w
         /\ p >= q + 2 => w * p >= w * q + 2 * w
<1>1. p = q \/ p = q + 1 \/ q = p + 1 \/ p >= q + 2 \/ q >= p + 2
  OBVIOUS
<1>2. p = q + 1 => w * p = w * q + w
  BY SMT
<1>3. ASSUME p >= q + 2
      PROVE  w * p >= w * q + 2 * w
  <2>1. PICK d \in Nat : p = q + 2 + d
    <3>1. p - (q + 2) \in Nat /\ p = q + 2 + (p - (q + 2))
      BY <1>3
    <3> QED BY <3>1
  <2>2. w * p = w * q + 2 * w + w * d
    BY <2>1, SMT
  <2>3. w * d \in Nat
    BY <2>1, SMT
  <2> QED BY <2>2, <2>3, SMT
<1> QED BY <1>1, <1>2, <1>3

(* decode_number finds the number a packet was sent with (RFC 9000, A.3): a   *)
(* packet less than half a window from the expected number, or the first one  *)
(* of a flow, can be opened, at the ends of the number space too.             *)
THEOREM NearNumbersOpen ==
  ASSUME NumberParameters, NEW pn \in Number, NEW largest \in Number \cup {NoNumber},
         Near(pn, largest)
  PROVE  Opens(pn, largest)
<1> DEFINE w == Window
           E == Expected(largest)
           p == pn \div Window
           q == E \div Window
           r == pn % Window
           e == E % Window
           c == (E - e) + r
<1>1. /\ w = 2 * Half /\ Half \in Nat \ {0} /\ NumberSpace \in Nat
      /\ E \in Nat /\ pn \in Nat /\ pn < NumberSpace
  BY DEF NumberParameters, Window, Number, NoNumber, Expected
<1>2. /\ w \in Nat \ {0} /\ r \in 0..w - 1 /\ p \in Nat /\ pn = w * p + r
      /\ e \in 0..w - 1 /\ q \in Nat /\ E = w * q + e
  BY <1>1, Digits
<1>3. c = w * q + r
  <2>1. w * q \in Nat
    BY <1>2, SMT
  <2> HIDE DEF w, E, p, q, r, e
  <2> QED BY <1>2, <2>1
<1>4. Decode(r, largest) = IF c + Half <= E /\ c < NumberSpace - w THEN c + w
                            ELSE IF c > E + Half /\ c >= w THEN c - w ELSE c
  BY DEF Decode
<1>5. Opens(pn, largest) <=> Decode(r, largest) = pn
  BY DEF Opens, Truncated
<1>6. \/ E - Half < pn /\ pn <= E + Half
      \/ E = 0 /\ pn < w
  BY <1>1 DEF Near, Expected, NoNumber
<1>7. w * p \in Nat /\ w * q \in Nat
  BY <1>2, SMT
<1> HIDE DEF w, E, p, q, r, e
<1>8. CASE E - Half < pn /\ pn <= E + Half
  <2>1. CASE p = q
    <3>1. c = pn
      BY <1>2, <1>3, <2>1
    <3>2. ~(c + Half <= E) /\ ~(c > E + Half)
      BY <3>1, <1>8, <1>1
    <3> QED BY <3>1, <3>2, <1>4, <1>5
  <2>2. CASE p = q + 1
    <3>1. w * p = w * q + w
      BY <1>2, <2>2, WindowsApart
    <3>2. pn = c + w
      BY <1>2, <1>3, <1>7, <3>1
    <3>3. c + Half <= E /\ c < NumberSpace - w /\ c \in Nat
      BY <3>2, <1>1, <1>2, <1>3, <1>7, <1>8
    <3> QED BY <3>2, <3>3, <1>4, <1>5
  <2>3. CASE q = p + 1
    <3>1. w * q = w * p + w
      BY <1>2, <2>3, WindowsApart
    <3>2. c = pn + w
      BY <1>2, <1>3, <1>7, <3>1
    <3>3. ~(c + Half <= E) /\ c > E + Half /\ c >= w
      BY <3>2, <1>1, <1>2, <1>8
    <3>4. c - w = pn
      BY <3>2, <1>1, <1>2
    <3> QED BY <3>3, <3>4, <1>4, <1>5
  <2>4. ~(p >= q + 2)
    <3>1. SUFFICES ASSUME p >= q + 2 PROVE FALSE
      OBVIOUS
    <3>2. w * p >= w * q + 2 * w
      BY <1>2, <3>1, WindowsApart
    <3> QED BY <3>2, <1>1, <1>2, <1>7, <1>8
  <2>5. ~(q >= p + 2)
    <3>1. SUFFICES ASSUME q >= p + 2 PROVE FALSE
      OBVIOUS
    <3>2. w * q >= w * p + 2 * w
      BY <1>2, <3>1, WindowsApart
    <3> QED BY <3>2, <1>1, <1>2, <1>7, <1>8
  <2> QED BY <2>1, <2>2, <2>3, <2>4, <2>5, <1>2, WindowsApart
<1>9. CASE E = 0 /\ pn < w
  <2>1. p = 0 /\ q = 0
    <3>1. \A k \in Nat : k # 0 => w * k >= w
      BY <1>2, SMT
    <3> QED BY <3>1, <1>2, <1>7, <1>9
  <2>2. c = pn
    BY <2>1, <1>2, <1>3
  <2>3. ~(c + Half <= E) /\ ~(c >= w)
    BY <2>2, <1>1, <1>2, <1>9
  <2> QED BY <2>2, <2>3, <1>4, <1>5
<1> QED BY <1>6, <1>8, <1>9

-----------------------------------------------------------------------------
FlowSet == [open : {TRUE}, filled : SUBSET (0..MaxHello - 1), done : BOOLEAN,
            largest : 0..MaxPacket]

(* A flow that delivered its name keeps no bytes; one that did not lacks some. *)
QuicFlowInv(f) == IF f.done THEN f.filled = {} ELSE ~(Position \subseteq f.filled)

(* What was opened is kept until the hello is complete, and then it has been  *)
(* given its name.                                                            *)
HelloInv ==
  /\ flow \in FlowSet \cup {NoFlow} /\ opened \subseteq Position /\ names \in 0..1
  /\ flow = NoFlow => names = 0 /\ opened = {}
  /\ flow # NoFlow => QuicFlowInv(flow)
  /\ flow # NoFlow /\ flow.done => names = 1
  /\ flow # NoFlow /\ ~flow.done => names = 0 /\ opened \subseteq flow.filled

LEMMA NoFlowIsNone == NoFlow \notin FlowSet
<1>1. \A f \in FlowSet : f.open = TRUE
  BY DEF FlowSet
<1>2. NoFlow.open = FALSE
  BY DEF NoFlow
<1> QED BY <1>1, <1>2

LEMMA BytesIs ==
  ASSUME QuicParameters, NumberParameters, NEW a \in Fragment
  PROVE  /\ Bytes(a) \subseteq Position /\ Bytes(a) \subseteq 0..MaxHello - 1
         /\ Position \subseteq 0..MaxHello - 1
         /\ a[1] \in Nat /\ a[2] \in Nat /\ a[1] + a[2] <= MaxHello /\ MaxHello \in Nat
<1>1. /\ HelloLen \in Nat /\ MaxHello \in Nat /\ HelloLen <= MaxHello
      /\ a[1] \in 0..HelloLen - 1 /\ a[2] \in 0..HelloLen /\ a[1] + a[2] <= HelloLen
  BY DEF QuicParameters, Fragment, Position
<1> QED BY <1>1 DEF Bytes, Position

(* Flow::add of one fragment: the flow is complete exactly when no byte of    *)
(* the hello is missing, wherever the fragment lies.                          *)
LEMMA GivenIs ==
  ASSUME QuicParameters, NumberParameters, NEW f \in FlowSet, QuicFlowInv(f), NEW a \in Fragment
  PROVE  /\ Given(f, a) \in FlowSet /\ QuicFlowInv(Given(f, a))
         /\ f.done => Given(f, a) = f
         /\ ~f.done /\ ~Given(f, a).done => f.filled \cup Bytes(a) \subseteq Given(f, a).filled
<1>1. CASE f.done
  <2>1. Add(f, a[1], a[2]) = f
    BY <1>1 DEF Add
  <2>2. Settled(f) = f
    BY <1>1 DEF Settled, Complete
  <2> QED BY <1>1, <2>1, <2>2 DEF Given
<1>2. CASE ~f.done
  <2> DEFINE g == [f EXCEPT !.filled = @ \cup Bytes(a)]
  <2>1. Add(f, a[1], a[2]) = g
    <3>1. /\ a[1] \in Nat /\ a[2] \in Nat /\ MaxHello \in Nat /\ a[1] + a[2] <= MaxHello
      BY BytesIs
    <3> DEFINE end == IF a[1] + a[2] < MaxHello THEN a[1] + a[2] ELSE MaxHello
    <3>2. end = a[1] + a[2]
      BY <3>1
    <3>3. Add(f, a[1], a[2]) = [f EXCEPT !.filled = @ \cup (a[1]..end - 1)]
      BY <1>2, Zenon DEF Add
    <3> HIDE DEF end
    <3>4. a[1]..end - 1 = Bytes(a)
      BY <3>1, <3>2 DEF Bytes
    <3> QED BY <3>3, <3>4
  <2>2. /\ g \in FlowSet /\ g.filled = f.filled \cup Bytes(a) /\ g.done = f.done
    BY BytesIs DEF FlowSet
  <2>3. Given(f, a) = Settled(g)
    BY <2>1 DEF Given
  <2> HIDE DEF g
  <2>4. CASE Position \subseteq g.filled
    <3>1. Complete(g)
      <4>1. \A i \in Position : 0..i \subseteq Position
        BY DEF Position, QuicParameters
      <4> QED BY <1>2, <2>2, <2>4, <4>1 DEF Complete, Ready
    <3>2. Given(f, a) = Finish(g)
      BY <2>3, <3>1 DEF Settled
    <3>3. Finish(g) \in FlowSet /\ Finish(g).done = TRUE /\ Finish(g).filled = {}
      BY <2>2 DEF Finish, FlowSet
    <3> QED BY <1>2, <3>2, <3>3 DEF QuicFlowInv
  <2>5. CASE ~(Position \subseteq g.filled)
    <3>1. ~Complete(g)
      <4>1. PICK i \in Position : i \notin g.filled
        BY <2>5
      <4>2. i \in 0..i
        BY DEF Position
      <4> QED BY <4>1, <4>2 DEF Complete, Ready
    <3>2. Given(f, a) = g
      BY <2>3, <3>1 DEF Settled
    <3> QED BY <1>2, <2>2, <2>5, <3>2 DEF QuicFlowInv
  <2> QED BY <2>4, <2>5
<1> QED BY <1>1, <1>2

LEMMA FeedStep ==
  ASSUME QuicParameters, NumberParameters, HelloInv,
         NEW pn \in 0..MaxPacket, NEW a \in Fragment, NEW b \in Fragment, Feed(pn, a, b)
  PROVE  HelloInv'
<1> DEFINE begun  == IF flow = NoFlow THEN NewFlow ELSE flow
           top    == IF flow = NoFlow \/ pn > begun.largest THEN pn ELSE begun.largest
           marked == [begun EXCEPT !.largest = top]
           first  == Given(marked, a)
           after  == Given(first, b)
<1>1. NewFlow \in FlowSet /\ NewFlow.done = FALSE /\ NewFlow.filled = {}
  <2>1. 0 \in 0..MaxPacket
    BY DEF QuicParameters, NumberParameters
  <2> QED BY <2>1 DEF NewFlow, FlowSet
<1>2. begun \in FlowSet
  BY <1>1 DEF HelloInv
<1>3. CASE begun.done
  <2>1. flow # NoFlow
    BY <1>1, <1>3
  <2>2. UNCHANGED <<flow, opened, names>>
    BY <1>3, <2>1 DEF Feed
  <2> QED BY <2>2 DEF HelloInv
<1>4. CASE ~begun.done
  <2>1. /\ flow' = after /\ opened' = opened \cup Bytes(a) \cup Bytes(b)
        /\ names' = IF after.done THEN names + 1 ELSE names
    BY <1>4 DEF Feed
  <2>2. names = 0 /\ opened \subseteq begun.filled /\ ~(Position \subseteq begun.filled)
    <3>1. CASE flow = NoFlow
      <4>1. ~(Position \subseteq {})
        BY DEF Position, QuicParameters
      <4> QED BY <1>1, <3>1, <4>1 DEF HelloInv
    <3>2. CASE flow # NoFlow
      BY <1>4, <3>2 DEF HelloInv, QuicFlowInv
    <3> QED BY <3>1, <3>2
  <2>3. top \in 0..MaxPacket
    BY <1>2 DEF FlowSet
  <2>4. /\ marked \in FlowSet /\ marked.done = begun.done /\ marked.filled = begun.filled
    <3> HIDE DEF begun, top
    <3> QED BY <1>2, <2>3 DEF FlowSet
  <2> HIDE DEF begun, top, marked, first, after
  <2>5. QuicFlowInv(marked)
    BY <1>4, <2>2, <2>4 DEF QuicFlowInv
  <2>6. /\ first \in FlowSet /\ QuicFlowInv(first)
        /\ ~first.done => marked.filled \cup Bytes(a) \subseteq first.filled
    BY <1>4, <2>4, <2>5, GivenIs DEF first
  <2>7. /\ after \in FlowSet /\ QuicFlowInv(after) /\ (first.done => after = first)
        /\ ~first.done /\ ~after.done => first.filled \cup Bytes(b) \subseteq after.filled
    BY <2>6, GivenIs DEF after
  <2>8. ~after.done => opened' \subseteq after.filled
    BY <2>1, <2>2, <2>4, <2>6, <2>7
  <2>9. opened' \subseteq Position
    BY <2>1, BytesIs DEF HelloInv
  <2>10. after # NoFlow
    BY <2>7, NoFlowIsNone
  <2>11. (after.done => names' = 1) /\ (~after.done => names' = 0)
    BY <2>1, <2>2
  <2>12. names' \in 0..1
    BY <2>11
  <2> QED BY <2>1, <2>7, <2>8, <2>9, <2>10, <2>11, <2>12 DEF HelloInv
<1> QED BY <1>3, <1>4

LEMMA HelloInvariant ==
  ASSUME QuicParameters, NumberParameters PROVE QuicSpec => []HelloInv
<1>1. QuicInit => HelloInv
  BY DEF QuicInit, HelloInv
<1>2. HelloInv /\ [QuicNext]_quicVars => HelloInv'
  <2> SUFFICES ASSUME HelloInv, [QuicNext]_quicVars PROVE HelloInv'
    OBVIOUS
  <2>1. ASSUME NEW pn \in 0..MaxPacket, FeedOpaque(pn) PROVE HelloInv'
    BY <2>1 DEF FeedOpaque, quicVars, HelloInv
  <2>2. CASE Drop
    BY <2>2 DEF Drop, HelloInv
  <2>3. CASE UNCHANGED quicVars
    BY <2>3 DEF quicVars, HelloInv
  <2> QED BY <2>1, <2>2, <2>3, FeedStep DEF QuicNext
<1> QED BY <1>1, <1>2, PTL DEF QuicSpec

(* The state of a flow has its type.                                          *)
THEOREM QuicTypes ==
  ASSUME QuicParameters, NumberParameters PROVE QuicSpec => []QuicTypeOK
<1>1. HelloInv => QuicTypeOK
  BY DEF HelloInv, QuicFlowInv, FlowSet, QuicTypeOK
<1> QED BY <1>1, HelloInvariant, PTL

(* Packets opened in any order, with fragments that lie anywhere and overlap, *)
(* have delivered the name once they have carried the whole hello.            *)
THEOREM HellosAreNamed ==
  ASSUME QuicParameters, NumberParameters PROVE QuicSpec => []QuicHelloIsNamed
<1>1. HelloInv => QuicHelloIsNamed
  BY DEF HelloInv, QuicFlowInv, QuicHelloIsNamed
<1> QED BY <1>1, HelloInvariant, PTL

(* Whatever was opened before, a packet less than half a window from the one  *)
(* that is expected is opened.                                                *)
THEOREM NearPacketsOpen ==
  ASSUME QuicParameters, NumberParameters PROVE QuicSpec => []NearPacketIsOpened
<1>1. HelloInv => NearPacketIsOpened
  <2> SUFFICES ASSUME HelloInv, NEW pn \in 0..MaxPacket, Near(pn, Largest)
               PROVE  Opens(pn, Largest)
    BY DEF NearPacketIsOpened
  <2>1. NumberSpace \in Nat /\ 0..MaxPacket \subseteq Number
    BY DEF QuicParameters, NumberParameters, Number
  <2>2. Largest \in Number \cup {NoNumber}
    BY <2>1 DEF HelloInv, Largest, FlowSet
  <2> QED BY <2>1, <2>2, NearNumbersOpen
<1> QED BY <1>1, HelloInvariant, PTL
-----------------------------------------------------------------------------
(* A number is a multiple of s and a rest below s in one way only.            *)
LEMMA RestIsUnique ==
  ASSUME NEW s \in Nat \ {0}, NEW q \in Int, NEW r \in 0..s - 1
  PROVE  (s * q + r) % s = r
<1> DEFINE a == s * q + r
<1>1. s * q \in Int
  BY SMT
<1>2. a \in Int
  BY <1>1
<1>3. \A x \in Int : x % s \in 0..s - 1 /\ x \div s \in Int /\ x = s * (x \div s) + (x % s)
  BY SMT
<1>4. PICK p \in Int, m \in 0..s - 1 : a = s * p + m /\ a % s = m
  BY <1>2, <1>3
<1>5. s * (p - q) = r - m
  <2>1. s * (p - q) = s * p - s * q
    BY SMT
  <2>2. s * p \in Int
    BY SMT
  <2> QED BY <2>1, <2>2, <1>1, <1>4
<1>6. \A d \in Int : (d >= 1 => s * d >= s) /\ (d <= -1 => s * d <= -s)
  <2>1. \A d \in Nat \ {0} : s * d >= s
    <3> TAKE d \in Nat \ {0}
    <3>1. s * d = s + s * (d - 1) /\ d - 1 \in Nat
      BY SMT
    <3>2. s * (d - 1) \in Nat
      BY <3>1, SMT
    <3> QED BY <3>1, <3>2
  <2>2. \A d \in Int : s * d = -(s * (-d)) /\ s * d \in Int
    BY SMT
  <2>3. TAKE d \in Int
  <2>4. d >= 1 => s * d >= s
    BY <2>1
  <2>5. d <= -1 => s * (-d) >= s
    <3>1. SUFFICES ASSUME d <= -1 PROVE s * (-d) >= s
      OBVIOUS
    <3>2. -d \in Nat \ {0}
      BY <3>1
    <3> QED BY <2>1, <3>2
  <2>6. s * d = -(s * (-d)) /\ s * d \in Int /\ s * (-d) \in Int
    BY <2>2
  <2> QED BY <2>4, <2>5, <2>6
<1>7. p - q = 0
  <2>1. p - q \in Int /\ s * (p - q) < s /\ s * (p - q) > -s
    BY <1>5
  <2>2. ~(p - q >= 1) /\ ~(p - q <= -1)
    BY <2>1, <1>5, <1>6
  <2> QED BY <2>1, <2>2
<1>8. s * (p - q) = 0
  BY <1>7
<1> QED BY <1>4, <1>5, <1>8

(* Every number is such a multiple and rest.                                  *)
LEMMA Rest ==
  ASSUME NEW s \in Nat \ {0}, NEW x \in Int
  PROVE  \E q \in Int : x = s * q + (x % s) /\ x % s \in 0..s - 1
<1>1. x % s \in 0..s - 1 /\ x \div s \in Int /\ x = s * (x \div s) + (x % s)
  BY SMT
<1> QED BY <1>1

(* The difference of two rests leaves the rest of the difference.             *)
LEMMA RestOfDifference ==
  ASSUME NEW s \in Nat \ {0}, NEW x \in Int, NEW y \in Int
  PROVE  ((x % s) - (y % s)) % s = (x - y) % s
<1>1. PICK p \in Int : x = s * p + (x % s) /\ x % s \in 0..s - 1
  BY Rest
<1>2. PICK q \in Int : y = s * q + (y % s) /\ y % s \in 0..s - 1
  BY Rest
<1>3. PICK t \in Int : x - y = s * t + ((x - y) % s) /\ (x - y) % s \in 0..s - 1
  <2>1. x - y \in Int
    OBVIOUS
  <2> QED BY <2>1, Rest
<1> DEFINE d == (t - p) + q
           m == (x - y) % s
<1>4. s * d = s * t - s * p + s * q /\ s * t \in Int /\ s * p \in Int /\ s * q \in Int
  BY SMT
<1>5. s * d + m = (x - s * p) - (y - s * q)
  <2>1. m \in Int /\ x - y = s * t + m
    BY <1>3
  <2> HIDE DEF d, m
  <2> QED BY <2>1, <1>4
<1>6. (x % s) - (y % s) = (x - s * p) - (y - s * q)
  <2>1. x % s = x - s * p
    BY <1>1, <1>4
  <2>2. y % s = y - s * q
    BY <1>2, <1>4
  <2> QED BY <2>1, <2>2
<1>7. (s * d + m) % s = m
  <2>1. m \in 0..s - 1 /\ d \in Int
    BY <1>3
  <2> HIDE DEF d, m
  <2> QED BY <2>1, RestIsUnique
<1> QED BY <1>5, <1>6, <1>7

(* The rest of the opposite number.                                           *)
LEMMA RestOfOpposite ==
  ASSUME NEW s \in Nat \ {0}, NEW x \in Int, x % s # 0
  PROVE  (-x) % s = s - (x % s)
<1>1. PICK p \in Int : x = s * p + (x % s) /\ x % s \in 0..s - 1
  BY Rest
<1> DEFINE m == x % s
           d == (-p) - 1
<1>2. s * d = -(s * p) - s /\ s * p \in Int
  BY SMT
<1>3. s - m \in 0..s - 1 /\ d \in Int
  BY <1>1
<1>4. -x = s * d + (s - m)
  BY <1>1, <1>2
<1> HIDE DEF d, m
<1>5. (s * d + (s - m)) % s = s - m
  BY <1>3, RestIsUnique
<1> QED BY <1>4, <1>5 DEF m

(* What the assumptions say of the types of the constants.                    *)
LEMMA SpaceType ==
  ASSUME TlsParameters
  PROVE  /\ SeqSpace \in Nat \ {0} /\ MaxStream \in Nat /\ RecordLen \in Nat
         /\ RecordLen >= 3 /\ MaxStream >= RecordLen
         /\ \A c \in Tcp : Isn[c] \in Int
         /\ RecordOffset \subseteq Int
BY DEF TlsParameters, RecordOffset

(* A segment of the connection that the flow belongs to lies at its distance  *)
(* from the start; one from before the start, or of another connection, lies  *)
(* beyond the limit of the stream.                                            *)
LEMMA Offsets ==
  ASSUME TlsParameters, NEW c \in Tcp, NEW d \in Tcp, NEW k \in RecordOffset, NEW j \in RecordOffset
  PROVE  /\ SeqOf(d, j) \in 0..SeqSpace - 1
         /\ d = c /\ j >= k => (SeqOf(d, j) - SeqOf(c, k)) % SeqSpace = j - k
         /\ d # c \/ j < k => (SeqOf(d, j) - SeqOf(c, k)) % SeqSpace > MaxStream
<1> DEFINE s == SeqSpace
           x == Isn[d] + 1 + j
           y == Isn[c] + 1 + k
<1>1. /\ s \in Nat \ {0} /\ MaxStream \in Nat /\ RecordLen \in Nat /\ s >= MaxStream + RecordLen
      /\ x \in Int /\ y \in Int /\ x - y = (Isn[d] - Isn[c]) + (j - k)
      /\ j \in Nat /\ k \in Nat /\ j < RecordLen /\ k < RecordLen
      /\ Isn[d] \in Int /\ Isn[c] \in Int
  BY SpaceType DEF TlsParameters, RecordOffset
<1>2. /\ SeqOf(d, j) \in 0..SeqSpace - 1
      /\ (SeqOf(d, j) - SeqOf(c, k)) % s = (x - y) % s
  <2>1. SeqOf(d, j) = x % s /\ SeqOf(c, k) = y % s
    BY DEF SeqOf
  <2>2. x % s \in 0..s - 1
    BY <1>1, Rest
  <2>3. ((x % s) - (y % s)) % s = (x - y) % s
    BY <1>1, RestOfDifference
  <2> QED BY <2>1, <2>2, <2>3
<1>3. \A q \in Int, r \in 0..s - 1 : (s * q + r) % s = r
  BY <1>1, RestIsUnique
<1>4. ASSUME d = c, j >= k
      PROVE  (x - y) % s = j - k
  <2>1. j - k \in 0..s - 1 /\ x - y = s * 0 + (j - k)
    BY <1>1, <1>4
  <2>2. (s * 0 + (j - k)) % s = j - k
    BY <2>1, <1>3
  <2> QED BY <2>1, <2>2
<1>5. ASSUME d = c, j < k
      PROVE  (x - y) % s > MaxStream
  <2>1. s + (j - k) \in 0..s - 1 /\ x - y = s * (-1) + (s + (j - k)) /\ s + (j - k) > MaxStream
    BY <1>1, <1>5
  <2>2. (s * (-1) + (s + (j - k))) % s = s + (j - k)
    BY <2>1, <1>3
  <2> QED BY <2>1, <2>2
<1>6. ASSUME d # c
      PROVE  (x - y) % s > MaxStream
  <2> DEFINE m == (Isn[d] - Isn[c]) % s
  <2>1. m >= MaxStream + RecordLen /\ (Isn[c] - Isn[d]) % s >= MaxStream + RecordLen
    BY <1>6 DEF TlsParameters
  <2>2. PICK t \in Int : Isn[d] - Isn[c] = s * t + m /\ m \in 0..s - 1
    <3>1. Isn[d] - Isn[c] \in Int
      BY <1>1
    <3> QED BY <1>1, <3>1, Rest
  <2>3. s - m >= MaxStream + RecordLen
    <3>1. Isn[d] - Isn[c] \in Int /\ m # 0 /\ -(Isn[d] - Isn[c]) = Isn[c] - Isn[d]
      BY <1>1, <2>1, <2>2
    <3>2. (-(Isn[d] - Isn[c])) % s = s - m
      BY <1>1, <3>1, RestOfOpposite
    <3> QED BY <2>1, <3>1, <3>2
  <2>4. s * t \in Int
    BY <1>1, SMT
  <2> HIDE DEF m
  <2>5. m + (j - k) \in 0..s - 1 /\ x - y = s * t + (m + (j - k)) /\ m + (j - k) > MaxStream
    BY <1>1, <2>1, <2>2, <2>3, <2>4
  <2>6. (s * t + (m + (j - k))) % s = m + (j - k)
    BY <2>2, <2>5, <1>3
  <2> QED BY <2>5, <2>6
<1> QED BY <1>1, <1>2, <1>4, <1>5, <1>6

(* No other connection starts where this one does.                            *)
LEMMA StartIsUnique ==
  ASSUME TlsParameters, NEW c \in Tcp, NEW d \in Tcp, NEW k \in RecordOffset,
         SeqOf(c, 0) = SeqOf(d, k)
  PROVE  c = d /\ k = 0
<1>1. 0 \in RecordOffset /\ k \in Nat /\ MaxStream \in Nat /\ SeqSpace \in Nat \ {0}
  BY SpaceType DEF RecordOffset
<1>2. (SeqOf(c, 0) - SeqOf(d, k)) % SeqSpace = 0
  <2>1. SeqOf(c, 0) \in 0..SeqSpace - 1
    BY <1>1, Offsets
  <2>2. SeqOf(c, 0) - SeqOf(d, k) = 0
    BY <2>1
  <2>3. 0 = SeqSpace * 0 + 0 /\ 0 \in 0..SeqSpace - 1
    BY <1>1
  <2>4. (SeqSpace * 0 + 0) % SeqSpace = 0
    BY <1>1, <2>3, RestIsUnique
  <2> QED BY <2>2, <2>3, <2>4
<1>3. ~((SeqOf(c, 0) - SeqOf(d, k)) % SeqSpace > MaxStream)
  BY <1>1, <1>2
<1>4. ~(c # d \/ 0 < k)
  BY <1>1, <1>3, Offsets
<1> QED BY <1>1, <1>4
-----------------------------------------------------------------------------
\* What may be seen of a connection at a position.
SentAt(c, i) == {Byte(c, i, FALSE), Byte(c, i, i = RecordLen - 1)}

\* A segment with bytes of c from position j on.
SegmentOf(data, seq, c, j) ==
  /\ data \in Seq(Octet) /\ data # <<>>
  /\ c \in Tcp /\ j \in RecordOffset /\ seq = SeqOf(c, j)
  /\ \A i \in 1..Len(data) : j + i - 1 \in RecordOffset /\ data[i] \in SentAt(c, j + i - 1)

\* All bytes of the segment were heard.
GivenTo(data, c, j, h) == \A i \in 1..Len(data) : <<c, j + i - 1, data[i]>> \in h

\* Before the start of the record is known, all that was heard is held back.
PendingInv(f, h) ==
  /\ ~f.done /\ f.buf = NoOctets
  /\ \A n \in 1..Len(f.pending) : \E c \in Tcp, j \in RecordOffset :
       /\ SegmentOf(f.pending[n][1], f.pending[n][2], c, j)
       /\ GivenTo(f.pending[n][1], c, j, h)
  /\ \A e \in h : \E n \in 1..Len(f.pending), j \in RecordOffset :
       /\ SegmentOf(f.pending[n][1], f.pending[n][2], e[1], j)
       /\ \E i \in 1..Len(f.pending[n][1]) : e[2] = j + i - 1 /\ e[3] = f.pending[n][1][i]

\* The flow holds bytes of connection c, whose position k it takes for the start.
HoldsOf(f, h, c, k) ==
  /\ c \in Tcp /\ k \in RecordOffset /\ f.base = SeqOf(c, k)
  /\ \A p \in DOMAIN f.buf : k + p \in RecordOffset /\ <<c, k + p, f.buf[p]>> \in h

\* Every byte heard of c is where it belongs.
HasHeard(f, h, c) == \A e \in h : e[1] = c => e[2] \in DOMAIN f.buf /\ f.buf[e[2]] = e[3]

\* A byte of c was heard in two versions.
Contradicted(h, c) == \E d, e \in h : d[1] = c /\ e[1] = c /\ d[2] = e[2] /\ d[3] # e[3]

\* A flow whose start is known belongs to one connection.  When that start is the
\* start of the record, no byte is missing before the name was delivered, unless
\* one came in two versions.
BasedInv(f, h, name, c, k) ==
  /\ HoldsOf(f, h, c, k)
  /\ k = 0 /\ ~f.done => HasHeard(f, h, c)
  /\ k = 0 /\ f.done /\ name = NoName => Contradicted(h, c)

\* A flow that is not done has neither a whole record nor a wrong one.
FlowInv(f, h, name) ==
  /\ f.base = NoBase => PendingInv(f, h)
  /\ f.base # NoBase => \E c \in Tcp, k \in RecordOffset : BasedInv(f, h, name, c, k)
  /\ ~f.done => ~Wrong(f) /\ ~Whole(f)

\* Nothing was heard but what may be seen.
HeardInv(h) == \A e \in h : e[3] \in SentAt(e[1], e[2])

TlsInv == /\ TlsTypeOK /\ HeardInv(heard)
          /\ tlsFlow # NoTlsFlow => FlowInv(tlsFlow, heard, named)
-----------------------------------------------------------------------------
(* No bytes and no segments are of their types.                               *)
LEMMA NoOctetsType ==
  NoOctets \in Octets /\ DOMAIN NoOctets = {} /\ <<>> \in Seq(Segment)
BY DEF NoOctets, Octets

(* What writing a segment does to the bytes.                                  *)
LEMMA WrittenBytes ==
  ASSUME MaxStream \in Nat, NEW buf \in Octets, NEW data \in Seq(Octet), NEW o \in Nat,
         o + Len(data) <= MaxStream
  PROVE  /\ Written(buf, o, data) \in Octets
         /\ DOMAIN Written(buf, o, data) = DOMAIN buf \cup (o..o + Len(data) - 1)
         /\ \A i \in 1..Len(data) : /\ o + i - 1 \in DOMAIN Written(buf, o, data)
                                    /\ Written(buf, o, data)[o + i - 1] = data[i]
         /\ \A p \in DOMAIN buf : p \notin o..o + Len(data) - 1 => Written(buf, o, data)[p] = buf[p]
<1> DEFINE new == o..o + Len(data) - 1
           g == Written(buf, o, data)
<1>1. PICK S \in SUBSET (0..MaxStream - 1) : buf \in [S -> Octet]
  BY DEF Octets
<1>2. g = [p \in S \cup new |-> IF p \in new THEN data[p - o + 1] ELSE buf[p]]
  BY <1>1 DEF Written
<1>3. new \subseteq 0..MaxStream - 1
  OBVIOUS
<1>4. \A p \in new : p - o + 1 \in 1..Len(data) /\ data[p - o + 1] \in Octet
  OBVIOUS
<1>5. g \in [S \cup new -> Octet]
  BY <1>1, <1>2, <1>4
<1>6. g \in Octets
  <2>1. S \cup new \in SUBSET (0..MaxStream - 1)
    BY <1>3
  <2> HIDE DEF g, new
  <2> QED BY <1>5, <2>1 DEF Octets
<1>7. \A i \in 1..Len(data) : o + i - 1 \in new /\ (o + i - 1) - o + 1 = i
  OBVIOUS
<1> HIDE DEF new
<1>8. \A i \in 1..Len(data) : o + i - 1 \in DOMAIN g /\ g[o + i - 1] = data[i]
  BY <1>2, <1>7
<1> QED BY <1>1, <1>2, <1>6, <1>8 DEF new

\* Some byte of the segment is not the one that is there.
Clash(buf, o, data) ==
  \E i \in DOMAIN data : o + i - 1 \in DOMAIN buf /\ buf[o + i - 1] # data[i]

(* What place does with a segment.                                            *)
LEMMA PlaceCases ==
  ASSUME TlsParameters, NEW f \in TlsFlows, NEW c \in Tcp, NEW k \in RecordOffset,
         f.base = SeqOf(c, k), NEW data, NEW seq, NEW d, NEW j, SegmentOf(data, seq, d, j)
  PROVE  /\ d # c \/ j < k => Place(f, seq, data) = f
         /\ d = c /\ j >= k =>
              /\ j - k \in Nat /\ j - k + Len(data) <= MaxStream
              /\ Clash(f.buf, j - k, data) => Place(f, seq, data) = TlsFinish(f)
              /\ ~Clash(f.buf, j - k, data) =>
                   Place(f, seq, data) = [f EXCEPT !.buf = Written(f.buf, j - k, data)]
<1> DEFINE o == (seq - f.base) % SeqSpace
<1>1. /\ d \in Tcp /\ j \in RecordOffset /\ data \in Seq(Octet) /\ data # <<>>
      /\ Len(data) \in Nat \ {0} /\ seq = SeqOf(d, j)
      /\ j + Len(data) - 1 \in RecordOffset
  BY DEF SegmentOf
<1>2. /\ MaxStream \in Nat /\ RecordLen \in Nat /\ MaxStream >= RecordLen
      /\ RecordOffset = 0..RecordLen - 1
  BY SpaceType DEF RecordOffset
<1>3. Place(f, seq, data) = IF o + Len(data) > MaxStream THEN f
                            ELSE IF Clash(f.buf, o, data) THEN TlsFinish(f)
                            ELSE [f EXCEPT !.buf = Written(f.buf, o, data)]
  BY DEF Place, Clash
<1>4. /\ d = c /\ j >= k => o = j - k
      /\ d # c \/ j < k => o > MaxStream
  BY <1>1, Offsets
<1>5. o \in Nat
  <2>1. SeqOf(d, j) \in Int /\ SeqOf(c, k) \in Int /\ SeqSpace \in Nat \ {0}
    BY <1>1, Offsets, SpaceType
  <2>2. (SeqOf(d, j) - SeqOf(c, k)) % SeqSpace \in 0..SeqSpace - 1
    <3>1. SeqOf(d, j) - SeqOf(c, k) \in Int
      BY <2>1
    <3> QED BY <2>1, <3>1, Rest
  <2> QED BY <1>1, <2>2
<1> HIDE DEF o
<1>6. d # c \/ j < k => Place(f, seq, data) = f
  BY <1>1, <1>2, <1>3, <1>4, <1>5
<1>7. d = c /\ j >= k => o = j - k /\ o + Len(data) <= MaxStream
  BY <1>1, <1>2, <1>4
<1> QED BY <1>2, <1>3, <1>5, <1>6, <1>7

(* Placing a segment that the flow was given keeps it to the bytes of its     *)
(* connection, keeps every byte unless it ends the assembly, and ends it only *)
(* for a byte in two versions.                                                *)
LEMMA PlaceKeeps ==
  ASSUME TlsParameters, NEW f \in TlsFlows, NEW c, NEW k, NEW h, HoldsOf(f, h, c, k),
         NEW data, NEW seq, NEW d, NEW j, SegmentOf(data, seq, d, j), GivenTo(data, d, j, h),
         NEW g, g = Place(f, seq, data)
  PROVE  /\ g \in TlsFlows /\ HoldsOf(g, h, c, k)
         /\ g.pending = f.pending \/ (g.pending = <<>> /\ g.done)
         /\ f.done => g.done
         /\ g.done /\ ~f.done => Contradicted(h, c) /\ g.pending = <<>>
         /\ d # c => g = f
         /\ ~g.done => \A p \in DOMAIN f.buf : p \in DOMAIN g.buf /\ g.buf[p] = f.buf[p]
<1>1. /\ c \in Tcp /\ k \in RecordOffset /\ f.base = SeqOf(c, k)
      /\ \A p \in DOMAIN f.buf : k + p \in RecordOffset /\ <<c, k + p, f.buf[p]>> \in h
  BY DEF HoldsOf
<1>2. /\ d \in Tcp /\ j \in RecordOffset /\ data \in Seq(Octet)
      /\ \A i \in 1..Len(data) : j + i - 1 \in RecordOffset
  BY DEF SegmentOf
<1>3. /\ f.buf \in Octets /\ MaxStream \in Nat /\ k \in Nat /\ j \in Nat
      /\ \A x \in RecordOffset : x \in Int
  BY <1>1, <1>2, SpaceType DEF TlsFlows, RecordOffset
<1>4. DOMAIN f.buf \subseteq Int
  BY <1>3 DEF Octets
<1>5. CASE d # c \/ j < k
  BY <1>5, <1>1, PlaceCases
<1>6. CASE d = c /\ j >= k /\ Clash(f.buf, j - k, data)
  <2>1. g = TlsFinish(f)
    BY <1>6, <1>1, PlaceCases
  <2>2. NoOctets \in Octets /\ DOMAIN NoOctets = {} /\ <<>> \in Seq(Segment)
    BY NoOctetsType
  <2>3. g \in TlsFlows /\ g.done /\ g.pending = <<>> /\ g.buf = NoOctets /\ g.base = f.base
    BY <2>1, <2>2 DEF TlsFinish, TlsFlows
  <2>4. HoldsOf(g, h, c, k)
    BY <2>2, <2>3, <1>1 DEF HoldsOf
  <2>5. Contradicted(h, c)
    <3>1. PICK i \in 1..Len(data) :
            j - k + i - 1 \in DOMAIN f.buf /\ f.buf[j - k + i - 1] # data[i]
      BY <1>6, <1>2 DEF Clash
    <3>2. <<c, k + (j - k + i - 1), f.buf[j - k + i - 1]>> \in h
      BY <1>1, <3>1
    <3>3. k + (j - k + i - 1) = j + i - 1
      BY <1>3
    <3>4. <<c, j + i - 1, data[i]>> \in h
      BY <1>6 DEF GivenTo
    <3> QED BY <3>1, <3>2, <3>3, <3>4 DEF Contradicted
  <2> QED BY <2>3, <2>4, <2>5, <1>6
<1>7. CASE d = c /\ j >= k /\ ~Clash(f.buf, j - k, data)
  <2> DEFINE o == j - k
             b == Written(f.buf, o, data)
  <2>1. g = [f EXCEPT !.buf = b] /\ o \in Nat /\ o + Len(data) <= MaxStream
    BY <1>7, <1>1, PlaceCases
  <2>2. /\ b \in Octets /\ DOMAIN b = DOMAIN f.buf \cup (o..o + Len(data) - 1)
        /\ \A i \in 1..Len(data) : b[o + i - 1] = data[i]
        /\ \A p \in DOMAIN f.buf : p \notin o..o + Len(data) - 1 => b[p] = f.buf[p]
    <3>1. o \in Nat /\ o + Len(data) <= MaxStream
      BY <2>1
    <3>2. data \in Seq(Octet) /\ f.buf \in Octets /\ MaxStream \in Nat
      BY <1>2, <1>3
    <3> HIDE DEF o
    <3> QED BY <3>1, <3>2, WrittenBytes
  <2>3. \A p \in o..o + Len(data) - 1 :
          /\ p - o + 1 \in 1..Len(data) /\ o + (p - o + 1) - 1 = p
          /\ j + (p - o + 1) - 1 = k + p
    <3>1. o = j - k /\ Len(data) \in Nat /\ o \in Nat /\ j \in Nat /\ k \in Nat
      BY <1>2, <1>3, <2>1
    <3> HIDE DEF b, o
    <3> TAKE p \in o..o + Len(data) - 1
    <3>2. p \in Int /\ o <= p /\ p <= o + Len(data) - 1
      BY <3>1
    <3> QED BY <3>1, <3>2
  <2> HIDE DEF b, o
  <2>4. \A p \in DOMAIN f.buf : p \in DOMAIN b /\ b[p] = f.buf[p]
    <3> TAKE p \in DOMAIN f.buf
    <3>1. CASE p \in o..o + Len(data) - 1
      <4>1. b[p] = data[p - o + 1]
        BY <3>1, <2>2, <2>3
      <4>2. f.buf[o + (p - o + 1) - 1] = data[p - o + 1]
        BY <3>1, <1>7, <1>2, <2>3 DEF Clash, o
      <4> QED BY <3>1, <4>1, <4>2, <2>2, <2>3
    <3> QED BY <3>1, <2>2
  <2>5. \A p \in DOMAIN b : k + p \in RecordOffset /\ <<c, k + p, b[p]>> \in h
    <3> TAKE p \in DOMAIN b
    <3>1. CASE p \in DOMAIN f.buf
      BY <3>1, <2>4, <1>1
    <3>2. CASE p \in o..o + Len(data) - 1
      <4>1. p - o + 1 \in 1..Len(data) /\ b[p] = data[p - o + 1]
        BY <3>2, <2>2, <2>3
      <4>2. /\ j + (p - o + 1) - 1 \in RecordOffset
            /\ <<c, j + (p - o + 1) - 1, data[p - o + 1]>> \in h
        BY <4>1, <1>2, <1>7 DEF GivenTo
      <4> QED BY <4>1, <4>2, <3>2, <2>3
    <3> QED BY <3>1, <3>2, <2>2
  <2>6. g \in TlsFlows /\ g.buf = b /\ g.base = f.base /\ g.pending = f.pending /\ g.done = f.done
    BY <2>1, <2>2 DEF TlsFlows
  <2>7. HoldsOf(g, h, c, k)
    BY <2>5, <2>6, <1>1 DEF HoldsOf
  <2> QED BY <2>4, <2>6, <2>7, <1>7
<1> QED BY <1>5, <1>6, <1>7, <1>3

(* A segment of the connection is in the bytes once it was placed, unless     *)
(* that ended the assembly, if the flow knows where the record starts.        *)
LEMMA PlaceHolds ==
  ASSUME TlsParameters, NEW f \in TlsFlows, NEW c \in Tcp, f.base = SeqOf(c, 0),
         NEW data, NEW seq, NEW j, SegmentOf(data, seq, c, j),
         NEW g, g = Place(f, seq, data), ~g.done
  PROVE  \A i \in 1..Len(data) : j + i - 1 \in DOMAIN g.buf /\ g.buf[j + i - 1] = data[i]
<1>1. 0 \in RecordOffset /\ MaxStream \in Nat /\ f.buf \in Octets
  BY SpaceType DEF RecordOffset, TlsFlows
<1>2. j \in Nat /\ data \in Seq(Octet)
  BY DEF SegmentOf, RecordOffset
<1>3. /\ j - 0 \in Nat /\ j - 0 + Len(data) <= MaxStream
      /\ Clash(f.buf, j - 0, data) => g = TlsFinish(f)
      /\ ~Clash(f.buf, j - 0, data) => g = [f EXCEPT !.buf = Written(f.buf, j - 0, data)]
  <2>1. j >= 0
    BY <1>2
  <2> QED BY <1>1, <2>1, PlaceCases
<1>4. j - 0 = j
  BY <1>2
<1>5. g = [f EXCEPT !.buf = Written(f.buf, j, data)] /\ j + Len(data) <= MaxStream
  <2>1. g # TlsFinish(f)
    BY DEF TlsFinish, TlsFlows
  <2> QED BY <1>3, <1>4, <2>1
<1>6. g.buf = Written(f.buf, j, data)
  BY <1>5 DEF TlsFlows
<1> DEFINE b == Written(f.buf, j, data)
<1>7. \A i \in 1..Len(data) : j + i - 1 \in DOMAIN b /\ b[j + i - 1] = data[i]
  <2>1. j + Len(data) <= MaxStream
    BY <1>5
  <2> QED BY <1>1, <1>2, <2>1, WrittenBytes
<1> QED BY <1>6, <1>7
-----------------------------------------------------------------------------
(* Every set of numbers has a least one.                                      *)
LEMMA LeastNumber ==
  ASSUME NEW T \in SUBSET Nat, T # {}
  PROVE  \E n \in T : \A m \in T : n <= m
<1> DEFINE R == OpToRel(<, Nat)
<1>1. IsWellFoundedOn(R, Nat)
  BY NatLessThanWellFounded
<1>2. \A x, y \in Nat : <<x, y>> \in R <=> x < y
  BY DEF OpToRel
<1> HIDE DEF R
<1>3. PICK n \in T : \A m \in T : <<m, n>> \notin R
  BY <1>1, WFMin
<1>4. n \in Nat /\ \A m \in T : m \in Nat /\ ~(m < n)
  BY <1>2, <1>3
<1> QED
  BY <1>4

(* A set of numbers with 0 and every successor is the set of all numbers.     *)
LEMMA AllNumbers ==
  ASSUME NEW S \in SUBSET Nat, 0 \in S, \A n \in S : n + 1 \in S
  PROVE  S = Nat
<1> SUFFICES ASSUME Nat \ S # {} PROVE FALSE
  OBVIOUS
<1>1. PICK n \in Nat \ S : \A m \in Nat \ S : n <= m
  BY LeastNumber
<1>2. n # 0 /\ n - 1 \in Nat /\ n - 1 \notin Nat \ S
  BY <1>1
<1>3. (n - 1) + 1 \in S
  BY <1>2
<1> QED
  BY <1>1, <1>3

(* The flow after each of the segments that were held back.                   *)
LEMMA PlacingSteps ==
  ASSUME NEW f \in TlsFlows, NEW seq
  PROVE  /\ Placing(f, seq)[0] = [f EXCEPT !.base = seq, !.pending = <<>>]
         /\ \A n \in 1..Len(f.pending) :
              Placing(f, seq)[n] =
                Place(Placing(f, seq)[n - 1], f.pending[n][2], f.pending[n][1])
<1> DEFINE start == [f EXCEPT !.base = seq, !.pending = <<>>]
           L == Len(f.pending)
           Step(g, n) == IF n = 0 THEN start
                         ELSE Place(g[n - 1], f.pending[n][2], f.pending[n][1])
           Ok(k, g) == g = [n \in 0..k |-> Step(g, n)]
           S == {k \in Nat : \E g : Ok(k, g)}
<1>1. L \in Nat
  BY DEF TlsFlows
<1>2. Placing(f, seq) = CHOOSE g : Ok(L, g)
  BY DEF Placing
<1> HIDE DEF start, L
<1>3. 0 \in S
  <2>1. Ok(0, [n \in 0..0 |-> start])
    OBVIOUS
  <2> QED BY <2>1
<1>4. ASSUME NEW k \in S PROVE k + 1 \in S
  <2>1. PICK g : Ok(k, g)
    OBVIOUS
  <2> DEFINE h == [n \in 0..k + 1 |-> IF n <= k THEN g[n] ELSE Step(g, k + 1)]
  <2>2. \A n \in 0..k + 1 : h[n] = Step(h, n)
    BY <2>1
  <2>3. Ok(k + 1, h)
    BY <2>2
  <2> HIDE DEF h
  <2>4. \E x : Ok(k + 1, x)
    BY <2>3
  <2>5. k + 1 \in Nat
    OBVIOUS
  <2> QED BY <2>4, <2>5
<1>5. S = Nat
  BY <1>3, <1>4, AllNumbers
<1>6. \E g : Ok(L, g)
  BY <1>1, <1>5
<1>7. Ok(L, Placing(f, seq))
  BY <1>2, <1>6
<1> DEFINE P == Placing(f, seq)
<1> HIDE DEF P
<1>8. P = [n \in 0..L |-> Step(P, n)]
  BY <1>7 DEF P
<1>9. P[0] = start /\ \A n \in 1..L : P[n] = Place(P[n - 1], f.pending[n][2], f.pending[n][1])
  BY <1>1, <1>8
<1> QED BY <1>9 DEF P, start, L

(* When the start is known and what was held back is placed, the flow holds   *)
(* all that was heard of its connection, or has met a byte in two versions.   *)
LEMMA BasedHolds ==
  ASSUME TlsParameters, NEW f \in TlsFlows, NEW h, PendingInv(f, h),
         NEW c \in Tcp, NEW k \in RecordOffset, NEW g, g = Based(f, SeqOf(c, k))
  PROVE  /\ g \in TlsFlows /\ g.pending = <<>> /\ HoldsOf(g, h, c, k)
         /\ g.done => Contradicted(h, c)
         /\ k = 0 /\ ~g.done => HasHeard(g, h, c)
<1> DEFINE L == Len(f.pending)
           P == Placing(f, SeqOf(c, k))
           Data(n) == f.pending[n][1]
           At(n) == f.pending[n][2]
           Placed(b, n) == \A m \in 1..n, j \in RecordOffset :
              SegmentOf(Data(m), At(m), c, j) =>
                \A i \in 1..Len(Data(m)) : j + i - 1 \in DOMAIN b /\ b[j + i - 1] = Data(m)[i]
           Good(p, n) == /\ p \in TlsFlows /\ p.pending = <<>> /\ HoldsOf(p, h, c, k)
                         /\ p.done => Contradicted(h, c)
                         /\ k = 0 /\ ~p.done => Placed(p.buf, n)
           S == {n \in Nat : n <= L => Good(P[n], n)}
<1>1. /\ P[0] = [f EXCEPT !.base = SeqOf(c, k), !.pending = <<>>]
      /\ \A n \in 1..L : P[n] = Place(P[n - 1], At(n), Data(n))
  BY PlacingSteps
<1>2. L \in Nat /\ g = P[L]
  BY DEF TlsFlows, Based
<1>3. /\ ~f.done /\ f.buf = NoOctets
      /\ \A n \in 1..L : \E d \in Tcp, j \in RecordOffset :
           SegmentOf(Data(n), At(n), d, j) /\ GivenTo(Data(n), d, j, h)
      /\ \A e \in h : \E n \in 1..L, j \in RecordOffset :
           /\ SegmentOf(Data(n), At(n), e[1], j)
           /\ \E i \in 1..Len(Data(n)) : e[2] = j + i - 1 /\ e[3] = Data(n)[i]
  BY DEF PendingInv
<1> HIDE DEF L, P, Data, At
<1>4. 0 \in S
  <2> DEFINE p == P[0]
  <2>1. SeqOf(c, k) \in 0..SeqSpace - 1
    BY Offsets
  <2>2. /\ p \in TlsFlows /\ p.pending = <<>> /\ p.base = SeqOf(c, k)
        /\ p.buf = NoOctets /\ ~p.done
    <3>1. <<>> \in Seq(Segment)
      OBVIOUS
    <3>2. p = [f EXCEPT !.base = SeqOf(c, k), !.pending = <<>>]
      BY <1>1
    <3> HIDE DEF p
    <3> QED BY <1>3, <2>1, <3>1, <3>2 DEF TlsFlows
  <2> HIDE DEF p
  <2>3. HoldsOf(p, h, c, k)
    BY <2>2 DEF HoldsOf, NoOctets
  <2>4. Placed(p.buf, 0)
    OBVIOUS
  <2>5. Good(p, 0)
    BY <2>2, <2>3, <2>4
  <2> QED BY <2>5 DEF p
<1>5. ASSUME NEW n \in S PROVE n + 1 \in S
  <2> SUFFICES ASSUME n + 1 <= L PROVE Good(P[n + 1], n + 1)
    BY <1>2
  <2>1. n \in Nat /\ n + 1 \in 1..L /\ Good(P[n], n) /\ (n + 1) - 1 = n
    BY <1>2
  <2> DEFINE p == P[n]
             q == P[n + 1]
  <2>2. q = Place(p, At(n + 1), Data(n + 1))
    BY <1>1, <2>1
  <2>3. PICK d \in Tcp, j \in RecordOffset :
          SegmentOf(Data(n + 1), At(n + 1), d, j) /\ GivenTo(Data(n + 1), d, j, h)
    BY <1>3, <2>1
  <2>4. p \in TlsFlows /\ HoldsOf(p, h, c, k) /\ p.pending = <<>>
    BY <2>1
  <2>5. /\ q \in TlsFlows /\ HoldsOf(q, h, c, k)
        /\ q.pending = p.pending \/ (q.pending = <<>> /\ q.done)
        /\ p.done => q.done
        /\ q.done /\ ~p.done => Contradicted(h, c)
        /\ ~q.done => \A x \in DOMAIN p.buf : x \in DOMAIN q.buf /\ q.buf[x] = p.buf[x]
    <3> HIDE DEF p, q
    <3> QED BY <2>2, <2>3, <2>4, PlaceKeeps
  <2>6. q.done => Contradicted(h, c)
    BY <2>1, <2>5
  <2>7. ASSUME k = 0, ~q.done PROVE Placed(q.buf, n + 1)
    <3>1. Placed(p.buf, n)
      BY <2>1, <2>5, <2>7
    <3>2. p.base = SeqOf(c, 0)
      BY <2>4, <2>7 DEF HoldsOf
    <3> HIDE DEF p, q
    <3> SUFFICES ASSUME NEW m \in 1..n + 1, NEW i \in RecordOffset,
                        SegmentOf(Data(m), At(m), c, i)
                 PROVE  \A x \in 1..Len(Data(m)) :
                          i + x - 1 \in DOMAIN q.buf /\ q.buf[i + x - 1] = Data(m)[x]
      OBVIOUS
    <3>3. CASE m = n + 1
      BY <3>2, <3>3, <2>2, <2>4, <2>7, PlaceHolds
    <3>4. CASE m # n + 1
      <4>1. m \in 1..n
        BY <3>4, <2>1
      <4>2. \A x \in 1..Len(Data(m)) :
              i + x - 1 \in DOMAIN p.buf /\ p.buf[i + x - 1] = Data(m)[x]
        BY <3>1, <4>1
      <4> QED BY <4>2, <2>5, <2>7
    <3> QED BY <3>3, <3>4
  <2> HIDE DEF p, q, Placed
  <2>8. Good(q, n + 1)
    BY <2>4, <2>5, <2>6, <2>7
  <2> QED BY <2>8 DEF q
<1>6. S = Nat
  <2> HIDE DEF Good
  <2>1. S \in SUBSET Nat
    OBVIOUS
  <2> HIDE DEF S
  <2> QED BY <1>4, <1>5, <2>1, AllNumbers
<1>7. Good(g, L)
  BY <1>2, <1>6
<1>8. ASSUME k = 0, ~g.done PROVE HasHeard(g, h, c)
  <2> SUFFICES ASSUME NEW e \in h, e[1] = c
               PROVE  e[2] \in DOMAIN g.buf /\ g.buf[e[2]] = e[3]
    BY DEF HasHeard
  <2>1. PICK n \in 1..L, j \in RecordOffset :
          /\ SegmentOf(Data(n), At(n), c, j)
          /\ \E i \in 1..Len(Data(n)) : e[2] = j + i - 1 /\ e[3] = Data(n)[i]
    BY <1>3
  <2>2. Placed(g.buf, L)
    BY <1>7, <1>8
  <2> QED BY <2>1, <2>2
<1> QED BY <1>7, <1>8
-----------------------------------------------------------------------------
(* More that was heard takes nothing back.                                    *)
LEMMA MoreHeard ==
  ASSUME NEW h, NEW h2, h \subseteq h2
  PROVE  /\ \A f, c, k : HoldsOf(f, h, c, k) => HoldsOf(f, h2, c, k)
         /\ \A c : Contradicted(h, c) => Contradicted(h2, c)
         /\ \A data, c, j : GivenTo(data, c, j, h) => GivenTo(data, c, j, h2)
<1>1. \A f, c, k : HoldsOf(f, h, c, k) => HoldsOf(f, h2, c, k)
  BY DEF HoldsOf
<1>2. \A c : Contradicted(h, c) => Contradicted(h2, c)
  BY DEF Contradicted
<1>3. \A data, c, j : GivenTo(data, c, j, h) => GivenTo(data, c, j, h2)
  BY DEF GivenTo
<1> QED BY <1>1, <1>2, <1>3

\* What was heard once a segment came.
HeardWith(f, h, data, d, j) ==
  IF data # <<>> /\ Kept(f, data) THEN h \cup Offered(d, j, data) ELSE h

(* What the flow is given with a segment is its bytes.                        *)
LEMMA OfferedIsGiven ==
  ASSUME NEW data \in Seq(Octet), NEW d, NEW j
  PROVE  /\ GivenTo(data, d, j, Offered(d, j, data))
         /\ \A e \in Offered(d, j, data) : /\ e[1] = d
              /\ \E i \in 1..Len(data) : e[2] = j + i - 1 /\ e[3] = data[i]
BY DEF GivenTo, Offered

\* What a segment that has been placed leaves to be looked at.
TakenInv(g, h, name, d) ==
  /\ g \in TlsFlows /\ Len(g.pending) <= MaxPending /\ (g.done => g.pending = <<>>)
  /\ g.base = NoBase => PendingInv(g, h)
  /\ g.base # NoBase => \E c \in Tcp, k \in RecordOffset :
       BasedInv(g, h, name, c, k) /\ (Whole(g) => c = d)

(* A segment placed in a flow whose start is known.                           *)
LEMMA PlacedInv ==
  ASSUME TlsParameters, NEW f \in TlsFlows, NEW c, NEW k, NEW h, HoldsOf(f, h, c, k),
         k = 0 /\ ~f.done => HasHeard(f, h, c),
         NEW data, NEW seq, NEW d, NEW j, SegmentOf(data, seq, d, j),
         NEW g, g = Place(f, seq, data), NEW h2, h2 = h \cup Offered(d, j, data)
  PROVE  /\ HoldsOf(g, h2, c, k)
         /\ k = 0 /\ ~g.done => HasHeard(g, h2, c)
<1>1. HoldsOf(f, h2, c, k)
  BY MoreHeard
<1>2. data \in Seq(Octet)
  BY DEF SegmentOf
<1>3. GivenTo(data, d, j, h2)
  BY <1>2, OfferedIsGiven, MoreHeard
<1>4. /\ HoldsOf(g, h2, c, k) /\ (f.done => g.done)
      /\ ~g.done => \A p \in DOMAIN f.buf : p \in DOMAIN g.buf /\ g.buf[p] = f.buf[p]
  BY <1>1, <1>3, PlaceKeeps
<1>5. ASSUME k = 0, ~g.done PROVE HasHeard(g, h2, c)
  <2>1. HasHeard(f, h, c) /\ c \in Tcp /\ f.base = SeqOf(c, 0)
    BY <1>4, <1>5 DEF HoldsOf
  <2> SUFFICES ASSUME NEW e \in h2, e[1] = c
               PROVE  e[2] \in DOMAIN g.buf /\ g.buf[e[2]] = e[3]
    BY DEF HasHeard
  <2>2. CASE e \in h
    BY <2>1, <2>2, <1>4, <1>5 DEF HasHeard
  <2>3. CASE e \in Offered(d, j, data)
    <3>1. PICK i \in 1..Len(data) : e[1] = d /\ e[2] = j + i - 1 /\ e[3] = data[i]
      BY <2>3, <1>2, OfferedIsGiven
    <3>2. \A x \in 1..Len(data) : j + x - 1 \in DOMAIN g.buf /\ g.buf[j + x - 1] = data[x]
      BY <3>1, <2>1, <1>5, PlaceHolds
    <3> QED BY <3>1, <3>2
  <2> QED BY <2>2, <2>3
<1> QED BY <1>4, <1>5

(* Flow::add, up to the placing, keeps what the flow knows.                   *)
LEMMA TakenKeeps ==
  ASSUME TlsParameters, NEW f \in TlsFlows, NEW h, NEW name, FlowInv(f, h, name),
         Len(f.pending) <= MaxPending, f.done => f.pending = <<>>,
         NEW data, NEW seq, NEW d, NEW j,
         data = <<>> \/ SegmentOf(data, seq, d, j)
  PROVE  TakenInv(Taken(f, seq, data), HeardWith(f, h, data, d, j), name, d)
<1> DEFINE g == Taken(f, seq, data)
           h2 == HeardWith(f, h, data, d, j)
<1>1. h \subseteq h2
  BY DEF HeardWith
<1>2. f.done => f.base # NoBase
  BY DEF FlowInv, PendingInv
<1>3. CASE f.done
  <2>1. g = f
    BY <1>3 DEF Taken
  <2>2. PICK c \in Tcp, k \in RecordOffset : BasedInv(f, h, name, c, k)
    BY <1>2, <1>3 DEF FlowInv
  <2>3. BasedInv(f, h2, name, c, k)
    BY <2>2, <1>1, <1>3, MoreHeard DEF BasedInv
  <2>4. ~Whole(f)
    BY <1>3 DEF Whole
  <2> QED BY <2>1, <2>3, <2>4, <1>2, <1>3 DEF TakenInv
<1>4. CASE ~f.done /\ (data = <<>> \/ ~Kept(f, data))
  <2>1. h2 = h
    BY <1>4 DEF HeardWith
  <2>2. g = f
    BY <1>4 DEF Taken, Kept
  <2>3. ~Whole(f)
    BY <1>4 DEF FlowInv
  <2> QED BY <2>1, <2>2, <2>3, <1>4 DEF TakenInv, FlowInv
<1>5. CASE ~f.done /\ data # <<>> /\ Kept(f, data)
  <2>1. h2 = h \cup Offered(d, j, data)
    BY <1>5 DEF HeardWith
  <2>2. SegmentOf(data, seq, d, j) /\ data \in Seq(Octet) /\ d \in Tcp /\ j \in RecordOffset
        /\ seq = SeqOf(d, j)
    BY <1>5 DEF SegmentOf
  <2>3. GivenTo(data, d, j, h2) /\ h2 = h \cup Offered(d, j, data)
    BY <2>1, <2>2, OfferedIsGiven, MoreHeard
  <2> SUFFICES TakenInv(g, h2, name, d)
    OBVIOUS
  <2> HIDE DEF h2
  <2>4. CASE f.base # NoBase
    <3>1. PICK c \in Tcp, k \in RecordOffset : BasedInv(f, h, name, c, k)
      BY <2>4 DEF FlowInv
    <3>2. HoldsOf(f, h, c, k) /\ HoldsOf(f, h2, c, k) /\ (k = 0 => HasHeard(f, h, c))
      BY <3>1, <1>1, <1>5, MoreHeard DEF BasedInv
    <3>3. g = Place(f, seq, data)
      BY <1>5, <2>4 DEF Taken
    <3> HIDE DEF g
    <3>4. /\ g \in TlsFlows
          /\ g.pending = f.pending \/ (g.pending = <<>> /\ g.done)
          /\ g.done /\ ~f.done => Contradicted(h2, c) /\ g.pending = <<>>
          /\ d # c => g = f
          /\ HoldsOf(g, h2, c, k)
      BY <2>2, <2>3, <3>2, <3>3, PlaceKeeps
    <3>5. k = 0 /\ ~g.done => HasHeard(g, h2, c)
      BY <2>2, <2>3, <3>2, <3>3, PlacedInv
    <3>6. BasedInv(g, h2, name, c, k)
      BY <3>4, <3>5, <1>5 DEF BasedInv
    <3>7. ~Whole(f)
      BY <1>5 DEF FlowInv
    <3>8. g.base # NoBase /\ (Whole(g) => c = d)
      <4>1. g.base = f.base
        BY <3>2, <3>4 DEF HoldsOf
      <4> QED BY <4>1, <2>4, <3>4, <3>7
    <3>9. Len(g.pending) <= MaxPending /\ (g.done => g.pending = <<>>)
      <4>1. Len(<<>>) = 0 /\ MaxPending \in Nat
        BY DEF TlsParameters
      <4>2. g.pending = f.pending => ~g.done \/ g.pending = <<>>
        BY <3>4, <1>5
      <4> QED BY <3>4, <4>1, <4>2
    <3> QED BY <3>4, <3>6, <3>8, <3>9 DEF TakenInv
  <2>5. CASE f.base = NoBase /\ data[1] = "type"
    <3> DEFINE b == Based(f, seq)
    <3>1. PendingInv(f, h)
      BY <2>5 DEF FlowInv
    <3>2. /\ b \in TlsFlows /\ b.pending = <<>> /\ HoldsOf(b, h, d, j)
          /\ b.done => Contradicted(h, d)
          /\ j = 0 /\ ~b.done => HasHeard(b, h, d)
      BY <2>2, <3>1, BasedHolds
    <3>3. g = Place(b, seq, data)
      BY <1>5, <2>5 DEF Taken
    <3> HIDE DEF b, g
    <3>4. HoldsOf(b, h2, d, j)
      BY <3>2, <1>1, MoreHeard
    <3>5. /\ g \in TlsFlows
          /\ g.pending = b.pending \/ (g.pending = <<>> /\ g.done)
          /\ g.done /\ ~b.done => Contradicted(h2, d)
          /\ HoldsOf(g, h2, d, j)
      BY <2>2, <2>3, <3>2, <3>3, <3>4, PlaceKeeps
    <3>6. j = 0 /\ ~g.done => HasHeard(g, h2, d)
      BY <2>2, <2>3, <3>2, <3>3, PlacedInv
    <3>7. g.done => Contradicted(h2, d)
      BY <3>2, <3>5, <1>1, MoreHeard
    <3>8. BasedInv(g, h2, name, d, j)
      BY <3>5, <3>6, <3>7 DEF BasedInv
    <3>9. g.pending = <<>> /\ Len(g.pending) <= MaxPending
      BY <3>2, <3>5 DEF TlsParameters
    <3>10. g.base # NoBase
      <4>1. g.base = SeqOf(d, j) /\ SeqOf(d, j) \in 0..SeqSpace - 1
        BY <3>5, <2>2, Offsets DEF HoldsOf
      <4> QED BY <4>1 DEF NoBase
    <3> QED BY <2>2, <3>5, <3>8, <3>9, <3>10 DEF TakenInv
  <2>6. CASE f.base = NoBase /\ data[1] # "type"
    <3>1. Room(f, data)
      BY <1>5, <2>6 DEF Kept
    <3> DEFINE P == Append(f.pending, <<data, seq>>)
               L == Len(f.pending)
    <3>2. g = [f EXCEPT !.pending = P]
      BY <1>5, <2>6, <3>1 DEF Taken
    <3>3. /\ f.pending \in Seq(Segment) /\ <<data, seq>> \in Segment
      BY <2>2, Offsets DEF TlsFlows, Segment
    <3>4. /\ P \in Seq(Segment) /\ Len(P) = L + 1 /\ L \in Nat
          /\ \A n \in 1..L : P[n] = f.pending[n]
          /\ P[L + 1] = <<data, seq>>
      BY <3>3
    <3> HIDE DEF P, L, g
    <3>5. g \in TlsFlows /\ g.pending = P /\ g.buf = f.buf /\ g.done = f.done /\ g.base = f.base
      BY <3>2, <3>4 DEF TlsFlows
    <3>6. PendingInv(f, h)
      BY <2>6 DEF FlowInv
    <3>7. Len(P) <= MaxPending
      <4>1. L < MaxPending /\ MaxPending \in Nat
        BY <3>1 DEF Room, L, TlsParameters
      <4> QED BY <3>4, <4>1
    <3>8. \A n \in 1..Len(P) : \E c \in Tcp, i \in RecordOffset :
            SegmentOf(P[n][1], P[n][2], c, i) /\ GivenTo(P[n][1], c, i, h2)
      <4> TAKE n \in 1..Len(P)
      <4>1. CASE n = L + 1
        BY <4>1, <3>4, <2>2, <2>3
      <4>2. CASE n # L + 1
        <5>1. n \in 1..Len(f.pending) /\ P[n] = f.pending[n]
          BY <4>2, <3>4 DEF L
        <5>2. PICK c \in Tcp, i \in RecordOffset :
                /\ SegmentOf(f.pending[n][1], f.pending[n][2], c, i)
                /\ GivenTo(f.pending[n][1], c, i, h)
          BY <5>1, <3>6 DEF PendingInv
        <5> QED BY <5>1, <5>2, <1>1, MoreHeard
      <4> QED BY <4>1, <4>2
    <3>9. \A e \in h2 : \E n \in 1..Len(P), i \in RecordOffset :
            /\ SegmentOf(P[n][1], P[n][2], e[1], i)
            /\ \E x \in 1..Len(P[n][1]) : e[2] = i + x - 1 /\ e[3] = P[n][1][x]
      <4> TAKE e \in h2
      <4>1. CASE e \in h
        <5>1. PICK n \in 1..Len(f.pending), i \in RecordOffset :
                /\ SegmentOf(f.pending[n][1], f.pending[n][2], e[1], i)
                /\ \E x \in 1..Len(f.pending[n][1]) :
                     e[2] = i + x - 1 /\ e[3] = f.pending[n][1][x]
          BY <4>1, <3>6 DEF PendingInv
        <5>2. n \in 1..Len(P) /\ P[n] = f.pending[n]
          BY <5>1, <3>4 DEF L
        <5> QED BY <5>1, <5>2
      <4>2. CASE e \in Offered(d, j, data)
        <5>1. e[1] = d /\ \E x \in 1..Len(data) : e[2] = j + x - 1 /\ e[3] = data[x]
          BY <4>2, <2>2, OfferedIsGiven
        <5>2. L + 1 \in 1..Len(P) /\ P[L + 1][1] = data /\ P[L + 1][2] = seq
          BY <3>4
        <5> QED BY <5>1, <5>2, <2>2
      <4> QED BY <4>1, <4>2, <2>3
    <3>10. PendingInv(g, h2)
      BY <3>5, <3>6, <3>8, <3>9 DEF PendingInv
    <3> QED BY <2>6, <1>5, <3>5, <3>7, <3>10 DEF TakenInv
  <2> QED BY <2>4, <2>5, <2>6
<1> QED BY <1>3, <1>4, <1>5 DEF TlsFlows
-----------------------------------------------------------------------------
(* All bytes of a record are there only from its start on.                    *)
LEMMA WholeFromStart ==
  ASSUME TlsParameters, NEW g, NEW h, NEW c, NEW k, HoldsOf(g, h, c, k), Whole(g)
  PROVE  k = 0 /\ RecordLen - 1 \in DOMAIN g.buf
<1>1. RecordLen \in Nat /\ RecordLen >= 3
  BY SpaceType
<1>2. RecordLen - 1 \in Gapless(g) /\ RecordLen - 1 \in 0..RecordLen - 1
  BY <1>1 DEF Whole, RecordOffset
<1>3. RecordLen - 1 \in DOMAIN g.buf
  BY <1>2 DEF Gapless
<1>4. k \in RecordOffset /\ k + (RecordLen - 1) \in RecordOffset
  BY <1>3 DEF HoldsOf
<1> QED BY <1>1, <1>3, <1>4 DEF RecordOffset

(* From the start of a record on, no bytes look wrong.                        *)
LEMMA StartIsRight ==
  ASSUME TlsParameters, NEW g, NEW h, HeardInv(h), NEW c, HoldsOf(g, h, c, 0)
  PROVE  ~Wrong(g)
<1> SUFFICES ASSUME 1 \in Gapless(g), g.buf[0] # "type" \/ g.buf[1] # "version"
             PROVE  FALSE
  BY DEF Wrong
<1>1. 0 \in DOMAIN g.buf /\ 1 \in DOMAIN g.buf
  BY DEF Gapless
<1>2. <<c, 0 + 0, g.buf[0]>> \in h /\ <<c, 0 + 1, g.buf[1]>> \in h
  BY <1>1 DEF HoldsOf
<1>3. g.buf[0] \in SentAt(c, 0) /\ g.buf[1] \in SentAt(c, 1)
  BY <1>2 DEF HeardInv
<1>4. g.buf[0] = "type" /\ g.buf[1] = "version"
  BY <1>3 DEF SentAt, Byte
<1> QED BY <1>4

(* The rest of Flow::add keeps what the flow knows, and the name it finds is  *)
(* of the connection whose segment came.                                      *)
LEMMA ParsedKeeps ==
  ASSUME TlsParameters, NEW g, NEW h, NEW name, NEW d, TakenInv(g, h, name, d), HeardInv(h),
         NEW found, found = (IF Whole(g) THEN g.buf[RecordLen - 1] ELSE NoName)
  PROVE  /\ Parsed(g) \in TlsFlows /\ Len(Parsed(g).pending) <= MaxPending
         /\ Parsed(g).done => Parsed(g).pending = <<>>
         /\ FlowInv(Parsed(g), h, IF found # NoName THEN found ELSE name)
         /\ Whole(g) => /\ found \in Octet /\ found = g.buf[RecordLen - 1]
                        /\ <<d, RecordLen - 1, found>> \in h /\ HasHeard(g, h, d)
<1> DEFINE p == Parsed(g)
           next == IF found # NoName THEN found ELSE name
<1>1. g \in TlsFlows /\ Len(g.pending) <= MaxPending /\ (g.done => g.pending = <<>>)
  BY DEF TakenInv
<1>2. ASSUME Whole(g)
      PROVE  /\ found \in Octet /\ found = g.buf[RecordLen - 1]
             /\ <<d, RecordLen - 1, found>> \in h /\ HasHeard(g, h, d)
  <2>1. g.base # NoBase /\ ~g.done
    BY <1>2 DEF Whole
  <2>2. PICK c \in Tcp, k \in RecordOffset : BasedInv(g, h, name, c, k) /\ c = d
    BY <1>2, <2>1 DEF TakenInv
  <2>3. HoldsOf(g, h, d, k) /\ (k = 0 => HasHeard(g, h, d))
    BY <2>1, <2>2 DEF BasedInv
  <2>4. k = 0 /\ RecordLen - 1 \in DOMAIN g.buf
    BY <1>2, <2>3, WholeFromStart
  <2>5. <<d, 0 + (RecordLen - 1), g.buf[RecordLen - 1]>> \in h /\ 0 + (RecordLen - 1) = RecordLen - 1
    BY <2>3, <2>4, SpaceType DEF HoldsOf
  <2>6. g.buf[RecordLen - 1] \in Octet
    BY <1>1, <2>4 DEF TlsFlows, Octets
  <2> QED BY <1>2, <2>3, <2>4, <2>5, <2>6
<1>3. CASE ~Whole(g) /\ (g.done \/ ~Wrong(g))
  <2>1. p = g /\ next = name
    BY <1>3 DEF Parsed
  <2>2. FlowInv(g, h, name)
    <3>1. g.base = NoBase => PendingInv(g, h)
      BY DEF TakenInv
    <3>2. g.base # NoBase => \E c \in Tcp, k \in RecordOffset : BasedInv(g, h, name, c, k)
      BY DEF TakenInv
    <3> QED BY <3>1, <3>2, <1>3 DEF FlowInv
  <2> QED BY <2>1, <2>2, <1>1, <1>3
<1>4. CASE Whole(g) \/ (~g.done /\ Wrong(g))
  <2>1. p = TlsFinish(g) /\ ~g.done
    BY <1>4 DEF Parsed, Whole
  <2>2. NoOctets \in Octets /\ DOMAIN NoOctets = {} /\ <<>> \in Seq(Segment)
    BY NoOctetsType
  <2>3. p \in TlsFlows /\ p.done /\ p.pending = <<>> /\ p.buf = NoOctets /\ p.base = g.base
    <3> HIDE DEF p
    <3> QED BY <1>1, <2>1, <2>2 DEF TlsFinish, TlsFlows
  <2>4. g.base # NoBase
    <3> SUFFICES ASSUME g.base = NoBase PROVE FALSE
      OBVIOUS
    <3>1. g.buf = NoOctets
      BY DEF TakenInv, PendingInv
    <3>2. 1 \notin Gapless(g)
      BY <3>1, <2>2 DEF Gapless
    <3> QED BY <3>2, <1>4 DEF Whole, Wrong
  <2>5. PICK c \in Tcp, k \in RecordOffset : BasedInv(g, h, name, c, k)
    BY <2>4 DEF TakenInv
  <2>6. HoldsOf(p, h, c, k)
    BY <2>2, <2>3, <2>5 DEF BasedInv, HoldsOf
  <2>7. k = 0 => next # NoName
    <3> SUFFICES ASSUME k = 0 PROVE next # NoName
      OBVIOUS
    <3>1. ~Wrong(g)
      BY <2>5, StartIsRight DEF BasedInv
    <3>2. found \in Octet
      BY <3>1, <1>2, <1>4
    <3> QED BY <3>2 DEF TlsParameters
  <2> HIDE DEF p, next
  <2>8. BasedInv(p, h, next, c, k)
    BY <2>3, <2>6, <2>7 DEF BasedInv
  <2>9. FlowInv(p, h, next)
    BY <2>3, <2>4, <2>8 DEF FlowInv
  <2>10. Len(p.pending) <= MaxPending
    BY <2>3 DEF TlsParameters
  <2> QED BY <1>2, <2>3, <2>9, <2>10 DEF p, next
<1> QED BY <1>2, <1>3, <1>4

(* A segment of a connection carries its bytes.                               *)
LEMMA SentBytes ==
  ASSUME TlsParameters, NEW c \in Tcp, NEW first \in RecordOffset, NEW last \in RecordOffset,
         first <= last, NEW bad \in BOOLEAN
  PROVE  SegmentOf(Sent(c, first, last, bad), SeqOf(c, first), c, first)
<1> DEFINE s == Sent(c, first, last, bad)
           n == last - first + 1
<1>1. n \in Nat \ {0} /\ first \in Nat /\ last \in Nat /\ last < RecordLen /\ RecordLen \in Nat
  BY SpaceType DEF RecordOffset
<1>2. /\ s = [i \in 1..n |-> Byte(c, first + i - 1, bad /\ first + i - 1 = RecordLen - 1)]
  BY DEF Sent
<1>3. \A i, b : Byte(c, i, b) \in Octet
  BY DEF Byte, Octet, Plain
<1>4. \A i \in 1..n : first + i - 1 \in RecordOffset
  BY <1>1 DEF RecordOffset
<1>5. \A i \in 1..n : s[i] \in SentAt(c, first + i - 1)
  <2> TAKE i \in 1..n
  <2>1. s[i] = Byte(c, first + i - 1, bad /\ first + i - 1 = RecordLen - 1)
    BY <1>2
  <2>2. CASE bad
    BY <2>1, <2>2 DEF SentAt, Byte
  <2>3. CASE ~bad
    BY <2>1, <2>3 DEF SentAt, Byte
  <2> QED BY <2>2, <2>3
<1> HIDE DEF n, s
<1>6. s \in Seq(Octet) /\ Len(s) = n /\ s # <<>>
  <2>1. s \in [1..n -> Octet]
    BY <1>2, <1>3
  <2> QED BY <2>1, <1>1
<1>7. \A i \in 1..Len(s) : first + i - 1 \in RecordOffset /\ s[i] \in SentAt(c, first + i - 1)
  BY <1>4, <1>5, <1>6
<1> QED BY <1>6, <1>7 DEF SegmentOf, s
-----------------------------------------------------------------------------
(* A new flow knows nothing, or where its record starts.                      *)
LEMMA NewFlowKnows ==
  ASSUME TlsParameters, NEW c \in Tcp, NEW base \in {SeqOf(c, 0), NoBase}
  PROVE  /\ NewTlsFlow(base) \in TlsFlows /\ NewTlsFlow(base).pending = <<>>
         /\ ~NewTlsFlow(base).done
         /\ FlowInv(NewTlsFlow(base), {}, NoName)
<1> DEFINE f == NewTlsFlow(base)
<1>1. 0 \in RecordOffset /\ 1 \in RecordOffset
  BY SpaceType DEF RecordOffset
<1>2. SeqOf(c, 0) \in 0..SeqSpace - 1
  BY <1>1, Offsets
<1>3. /\ f \in TlsFlows /\ f.pending = <<>> /\ ~f.done /\ f.base = base /\ f.buf = NoOctets
  BY <1>2, NoOctetsType DEF NewTlsFlow, TlsFlows
<1> HIDE DEF f
<1>4. Gapless(f) = {}
  BY <1>3, NoOctetsType DEF Gapless, RecordOffset
<1>5. ~Wrong(f) /\ ~Whole(f)
  BY <1>1, <1>4 DEF Wrong, Whole
<1>6. base = NoBase => PendingInv(f, {})
  BY <1>3 DEF PendingInv
<1>7. ASSUME base # NoBase PROVE BasedInv(f, {}, NoName, c, 0)
  <2>1. HoldsOf(f, {}, c, 0)
    BY <1>1, <1>3, <1>7, NoOctetsType DEF HoldsOf
  <2> QED BY <2>1, <1>3 DEF BasedInv, HasHeard
<1>8. FlowInv(f, {}, NoName)
  BY <1>1, <1>3, <1>5, <1>6, <1>7 DEF FlowInv
<1> QED BY <1>3, <1>8 DEF f

(* A segment of a connection adds only what may be seen of it.                *)
LEMMA HeardTypes ==
  ASSUME TlsParameters, NEW data, NEW seq, NEW c, NEW first, SegmentOf(data, seq, c, first)
  PROVE  /\ Offered(c, first, data) \subseteq Tcp \X RecordOffset \X Octet
         /\ HeardInv(Offered(c, first, data))
<1>1. /\ data \in Seq(Octet) /\ c \in Tcp
      /\ \A i \in 1..Len(data) : first + i - 1 \in RecordOffset /\ data[i] \in SentAt(c, first + i - 1)
  BY DEF SegmentOf
<1>2. \A i \in 1..Len(data) : data[i] \in Octet
  BY <1>1
<1>3. DOMAIN data = 1..Len(data)
  BY <1>1
<1> QED BY <1>1, <1>2, <1>3 DEF Offered, HeardInv

\* A segment that comes, as TlsNext lets it.
Comes(c, first, last, bad, flag) ==
  /\ c \in Tcp /\ first \in RecordOffset /\ (flag = "syn" => first = 0)
  /\ \/ SegmentOf(Sent(c, first, last, bad), SeqOf(c, first), c, first)
     \/ Sent(c, first, last, bad) = <<>>

\* The name that a packet of c delivers is that of c.
RightName(c) ==
  out' # out =>
    /\ out'.by = c /\ out'.name \in {c, "altered"}
    /\ tlsFlow' # NoTlsFlow => \A i \in RecordOffset :
         HeardAt(c, i, heard') \subseteq {Byte(c, i, i = RecordLen - 1 /\ out'.name = "altered")}

(* What was heard of a connection whose hello is whole is that hello.         *)
LEMMA HeardIsHello ==
  ASSUME TlsParameters, NEW c \in Tcp, NEW h, HeardInv(h), NEW g, HasHeard(g, h, c),
         NEW name, name = g.buf[RecordLen - 1], <<c, RecordLen - 1, name>> \in h
  PROVE  /\ name \in {c, "altered"}
         /\ \A i \in RecordOffset :
              HeardAt(c, i, h) \subseteq {Byte(c, i, i = RecordLen - 1 /\ name = "altered")}
<1>1. RecordLen \in Nat /\ RecordLen >= 3 /\ c # "altered"
  BY SpaceType DEF TlsParameters, Plain
<1>2. name \in {c, "altered"}
  <2>1. name \in SentAt(c, RecordLen - 1)
    BY DEF HeardInv
  <2>2. RecordLen - 1 # 0 /\ RecordLen - 1 # 1 /\ ~(RecordLen - 1 < RecordLen - 1)
    BY <1>1
  <2> QED BY <2>1, <2>2 DEF SentAt, Byte
<1>3. ASSUME NEW i \in RecordOffset, NEW b \in HeardAt(c, i, h)
      PROVE  b = Byte(c, i, i = RecordLen - 1 /\ name = "altered")
  <2>1. <<c, i, b>> \in h
    BY DEF HeardAt
  <2>2. g.buf[i] = b /\ b \in SentAt(c, i)
    BY <2>1 DEF HasHeard, HeardInv
  <2>3. CASE i # RecordLen - 1
    BY <2>2, <2>3 DEF SentAt, Byte
  <2>4. CASE i = RecordLen - 1
    <3>1. b = name
      BY <2>2, <2>4
    <3>2. i # 0 /\ i # 1 /\ ~(i < RecordLen - 1)
      BY <1>1, <2>4
    <3> QED BY <1>1, <1>2, <2>4, <3>1, <3>2 DEF Byte
  <2> QED BY <2>3, <2>4
<1> QED BY <1>2, <1>3

(* Assembler::feed keeps the invariant and delivers the right name.           *)
LEMMA FeedKeeps ==
  ASSUME TlsParameters, TlsInv, NEW c, NEW first, NEW last, NEW bad, NEW flag,
         Comes(c, first, last, bad, flag), TlsFeed(c, first, last, bad, flag)
  PROVE  TlsInv' /\ RightName(c)
<1> DEFINE data  == Sent(c, first, last, bad)
           seq   == SeqOf(c, first)
           fresh == tlsFlow = NoTlsFlow \/ flag = "syn"
           f     == IF fresh THEN NewTlsFlow(IF flag = "syn" THEN seq ELSE NoBase) ELSE tlsFlow
           past  == IF fresh THEN {} ELSE heard
           name  == IF fresh THEN NoName ELSE named
           g     == Taken(f, seq, data)
           found == IF Whole(g) THEN g.buf[RecordLen - 1] ELSE NoName
           h     == HeardWith(f, past, data, c, first)
           next  == IF found # NoName THEN found ELSE name
<1>1. /\ tlsFlow' = IF flag = "fin" THEN NoTlsFlow ELSE Parsed(g)
      /\ out' = IF found = NoName THEN out ELSE [by |-> c, name |-> found]
      /\ named' = IF flag = "fin" THEN NoName ELSE next
      /\ heard' = IF flag = "fin" THEN {} ELSE h
  BY DEF TlsFeed, HeardWith
<1>2. /\ c \in Tcp /\ first \in RecordOffset /\ (flag = "syn" => first = 0)
      /\ SegmentOf(data, seq, c, first) \/ data = <<>>
  BY DEF Comes
<1>3. /\ f \in TlsFlows /\ Len(f.pending) <= MaxPending /\ (f.done => f.pending = <<>>)
      /\ FlowInv(f, past, name)
  <2>1. CASE fresh
    <3> DEFINE base == IF flag = "syn" THEN seq ELSE NoBase
    <3>1. f = NewTlsFlow(base) /\ base \in {SeqOf(c, 0), NoBase}
      BY <2>1, <1>2
    <3>2. past = {} /\ name = NoName
      BY <2>1
    <3>3. Len(<<>>) = 0 /\ MaxPending \in Nat
      BY DEF TlsParameters
    <3> HIDE DEF f, base, past, name
    <3> QED BY <1>2, <3>1, <3>2, <3>3, NewFlowKnows
  <2>2. CASE ~fresh
    <3>1. f = tlsFlow /\ past = heard /\ name = named
      BY <2>2
    <3>2. tlsFlow # NoTlsFlow
      BY <2>2
    <3> HIDE DEF f, past, name
    <3> QED BY <3>1, <3>2 DEF TlsInv, TlsTypeOK, TlsFlows
  <2> QED BY <2>1, <2>2
<1>4. past \subseteq Tcp \X RecordOffset \X Octet /\ HeardInv(past) /\ name \in Octet \cup {NoName}
  BY DEF TlsInv, TlsTypeOK, HeardInv
<1> HIDE DEF data, seq, f, past, name
<1>5. h \subseteq Tcp \X RecordOffset \X Octet /\ HeardInv(h)
  <2>1. CASE h = past
    BY <2>1, <1>4
  <2>2. CASE h # past
    <3>1. h = past \cup Offered(c, first, data) /\ data # <<>>
      BY <2>2 DEF HeardWith
    <3>2. /\ Offered(c, first, data) \subseteq Tcp \X RecordOffset \X Octet
          /\ HeardInv(Offered(c, first, data))
      BY <1>2, <3>1, HeardTypes
    <3> QED BY <3>1, <3>2, <1>4 DEF HeardInv
  <2> QED BY <2>1, <2>2
<1>6. TakenInv(g, h, name, c)
  BY <1>2, <1>3, TakenKeeps
<1> HIDE DEF g, h
<1>7. /\ Parsed(g) \in TlsFlows /\ Len(Parsed(g).pending) <= MaxPending
      /\ Parsed(g).done => Parsed(g).pending = <<>>
      /\ FlowInv(Parsed(g), h, next)
      /\ Whole(g) => /\ found \in Octet /\ found = g.buf[RecordLen - 1]
                     /\ <<c, RecordLen - 1, found>> \in h /\ HasHeard(g, h, c)
  BY <1>5, <1>6, ParsedKeeps
<1>8. found \in Octet \cup {NoName} /\ next \in Octet \cup {NoName}
  BY <1>4, <1>7
<1>9. RightName(c)
  <2> SUFFICES ASSUME out' # out PROVE RightName(c)
    BY DEF RightName
  <2>1. Whole(g) /\ out' = [by |-> c, name |-> found]
    BY <1>1
  <2>2. /\ found \in {c, "altered"}
        /\ \A i \in RecordOffset :
             HeardAt(c, i, h) \subseteq {Byte(c, i, i = RecordLen - 1 /\ found = "altered")}
    BY <1>2, <1>5, <1>7, <2>1, HeardIsHello
  <2>3. out'.by = c /\ out'.name = found
    BY <2>1
  <2>4. tlsFlow' # NoTlsFlow => heard' = h
    BY <1>1
  <2> HIDE DEF found
  <2> QED BY <2>2, <2>3, <2>4 DEF RightName
<1> HIDE DEF found, next
<1>10. TlsTypeOK'
  <2>1. /\ tlsFlow' \in TlsFlows \cup {NoTlsFlow}
        /\ tlsFlow' # NoTlsFlow => /\ Len(tlsFlow'.pending) <= MaxPending
                                   /\ (tlsFlow'.done => tlsFlow'.pending = <<>>)
    BY <1>1, <1>7
  <2>2. named' \in Octet \cup {NoName} /\ heard' \subseteq Tcp \X RecordOffset \X Octet
    BY <1>1, <1>5, <1>8
  <2>3. out' \in [by : Tcp, name : Octet] \cup {NoName}
    BY <1>1, <1>2, <1>8 DEF TlsInv, TlsTypeOK
  <2> QED BY <2>1, <2>2, <2>3 DEF TlsTypeOK, TlsFlows
<1>11. HeardInv(heard')
  BY <1>1, <1>5 DEF HeardInv
<1>12. tlsFlow' # NoTlsFlow => FlowInv(tlsFlow', heard', named')
  BY <1>1, <1>7
<1>13. TlsInv'
  BY <1>10, <1>11, <1>12 DEF TlsInv
<1> QED BY <1>9, <1>13
-----------------------------------------------------------------------------
(* A step keeps the invariant, and its name is that of the packet's           *)
(* connection.                                                                *)
LEMMA TlsSteps ==
  ASSUME TlsParameters, TlsInv, TlsNext
  PROVE  TlsInv' /\ (out' # out => \E c \in Tcp : RightName(c))
<1>1. 0 \in RecordOffset
  BY SpaceType DEF RecordOffset
<1>2. ASSUME NEW c \in Tcp, NEW first \in RecordOffset, NEW last \in RecordOffset,
             NEW bad \in BOOLEAN, NEW flag \in {"none", "syn", "fin"},
             flag = "syn" => first = 0, first <= last, TlsFeed(c, first, last, bad, flag)
      PROVE  TlsInv' /\ RightName(c)
  <2>1. Comes(c, first, last, bad, flag)
    BY <1>2, SentBytes DEF Comes
  <2> QED BY <1>2, <2>1, FeedKeeps
<1>3. ASSUME NEW c \in Tcp, TlsFeed(c, 0, -1, FALSE, "syn")
      PROVE  TlsInv' /\ RightName(c)
  <2>1. Sent(c, 0, -1, FALSE) = <<>>
    BY DEF Sent
  <2>2. Comes(c, 0, -1, FALSE, "syn")
    BY <1>1, <2>1 DEF Comes
  <2> QED BY <1>3, <2>2, FeedKeeps
<1>4. ASSUME TlsDrop
      PROVE  TlsInv' /\ out' = out
  <2>1. tlsFlow' = NoTlsFlow /\ named' = NoName /\ heard' = {} /\ out' = out
    BY <1>4 DEF TlsDrop
  <2>2. TlsTypeOK'
    BY <2>1 DEF TlsInv, TlsTypeOK
  <2> QED BY <2>1, <2>2 DEF TlsInv, HeardInv
<1> QED BY <1>2, <1>3, <1>4 DEF TlsNext

(* Nor does a step of another part disturb the invariant; and it holds first. *)
LEMMA TlsStutters ==
  ASSUME TlsInv, UNCHANGED tlsVars
  PROVE  TlsInv'
<1>1. tlsFlow' = tlsFlow /\ named' = named /\ out' = out /\ heard' = heard
  BY DEF tlsVars
<1>2. TlsTypeOK'
  BY <1>1 DEF TlsInv, TlsTypeOK
<1>3. HeardInv(heard') /\ (tlsFlow' # NoTlsFlow => FlowInv(tlsFlow', heard', named'))
  BY <1>1 DEF TlsInv
<1> QED BY <1>2, <1>3 DEF TlsInv

LEMMA TlsStarts ==
  ASSUME TlsInit
  PROVE  TlsInv
BY DEF TlsInit, TlsInv, TlsTypeOK, HeardInv

(* Of the assembly from TCP: a flow holds nothing but bytes that its one      *)
(* connection was heard to send, at their distance from the start; it has all *)
(* of them when that start is the start of the record, or had them in two     *)
(* versions, or has delivered its name (Flow, Assembler::feed).               *)
THEOREM TlsInvariant ==
  ASSUME TlsParameters
  PROVE  TlsSpec => []TlsInv
<1>1. TlsInit => TlsInv
  BY TlsStarts
<1>2. TlsInv /\ [TlsNext]_tlsVars => TlsInv'
  BY TlsSteps, TlsStutters
<1> QED BY <1>1, <1>2, PTL DEF TlsSpec

(* The buffer of a flow stays within its limit, as do the segments held back, *)
(* and a flow that is done holds none (Flow::finish, Flow::add).              *)
THEOREM TlsTypes ==
  ASSUME TlsParameters
  PROVE  TlsSpec => []TlsTypeOK
<1>1. TlsInv => TlsTypeOK
  BY DEF TlsInv
<1> QED BY <1>1, TlsInvariant, PTL

(* The name that a packet delivers is the one its own connection sent, and    *)
(* nothing else was heard of that connection's hello (Flow::place,            *)
(* Assembler::feed): late segments of an earlier connection of the same ports *)
(* do not give it, and a hello seen in two versions does not either.          *)
THEOREM NamesAreOfTheirConnection ==
  ASSUME TlsParameters
  PROVE  TlsSpec => NameIsOfItsConnection
<1> DEFINE Right == out' # out =>
      /\ out'.name \in {out'.by, "altered"}
      /\ tlsFlow' # NoTlsFlow => \A i \in RecordOffset :
           HeardAt(out'.by, i, heard') \subseteq
             {Byte(out'.by, i, i = RecordLen - 1 /\ out'.name = "altered")}
<1>1. TlsInv /\ [TlsNext]_tlsVars => [Right]_tlsVars
  <2> SUFFICES ASSUME TlsInv, TlsNext PROVE Right
    OBVIOUS
  <2> SUFFICES ASSUME out' # out PROVE Right
    OBVIOUS
  <2>1. PICK c \in Tcp : RightName(c)
    BY TlsSteps
  <2> QED BY <2>1 DEF RightName
<1> QED BY <1>1, TlsInvariant, PTL DEF TlsSpec, NameIsOfItsConnection

(* Once every byte of a hello was seen, none in two versions, by a flow that  *)
(* begins where the hello does, its name has been delivered: whatever the     *)
(* order, the repetitions and the wrap of sequence numbers (Flow::add).       *)
THEOREM TlsHellosAreNamed ==
  ASSUME TlsParameters
  PROVE  TlsSpec => []TlsHelloIsNamed
<1>1. ASSUME TlsInv PROVE TlsHelloIsNamed
  <2> SUFFICES ASSUME NEW c \in Tcp, tlsFlow # NoTlsFlow, tlsFlow.base = SeqOf(c, 0),
                      \A i \in RecordOffset : \E b \in Octet : HeardAt(c, i, heard) = {b},
                      named = NoName
               PROVE  FALSE
    BY DEF TlsHelloIsNamed
  <2>1. FlowInv(tlsFlow, heard, named) /\ heard \subseteq Tcp \X RecordOffset \X Octet
        /\ HeardInv(heard)
    BY <1>1 DEF TlsInv, TlsTypeOK
  <2>2. 0 \in RecordOffset /\ tlsFlow.base # NoBase
    <3>1. 0 \in RecordOffset
      BY SpaceType DEF RecordOffset
    <3>2. SeqOf(c, 0) \in 0..SeqSpace - 1
      BY <3>1, Offsets
    <3> QED BY <3>1, <3>2 DEF NoBase
  <2>3. PICK d \in Tcp, k \in RecordOffset : BasedInv(tlsFlow, heard, named, d, k)
    BY <2>1, <2>2 DEF FlowInv
  <2>4. c = d /\ k = 0
    BY <2>3, StartIsUnique DEF BasedInv, HoldsOf
  <2>5. CASE tlsFlow.done
    <3>1. PICK x, y \in heard : x[1] = c /\ y[1] = c /\ x[2] = y[2] /\ x[3] # y[3]
      BY <2>3, <2>4, <2>5 DEF BasedInv, Contradicted
    <3>2. x[2] \in RecordOffset /\ x = <<c, x[2], x[3]>> /\ y = <<c, x[2], y[3]>>
          /\ x[3] \in Octet /\ y[3] \in Octet
      BY <2>1, <3>1
    <3>3. x[3] \in HeardAt(c, x[2], heard) /\ y[3] \in HeardAt(c, x[2], heard)
      BY <3>1, <3>2 DEF HeardAt
    <3> QED BY <3>1, <3>2, <3>3
  <2>6. CASE ~tlsFlow.done
    <3>1. HasHeard(tlsFlow, heard, c) /\ HoldsOf(tlsFlow, heard, c, 0)
      BY <2>3, <2>4, <2>6 DEF BasedInv
    <3>2. \A i \in RecordOffset : i \in DOMAIN tlsFlow.buf
      <4> TAKE i \in RecordOffset
      <4>1. PICK b \in Octet : <<c, i, b>> \in heard
        BY DEF HeardAt
      <4> QED BY <3>1, <4>1 DEF HasHeard
    <3>3. Gapless(tlsFlow) = RecordOffset
      <4>1. \A i \in RecordOffset : 0..i \subseteq RecordOffset
        BY SpaceType DEF RecordOffset
      <4> QED BY <3>2, <4>1 DEF Gapless
    <3>4. ~Wrong(tlsFlow)
      BY <2>1, <3>1, StartIsRight
    <3>5. Whole(tlsFlow)
      BY <2>2, <2>6, <3>3, <3>4 DEF Whole
    <3> QED BY <2>1, <2>6, <3>5 DEF FlowInv
  <2> QED BY <2>5, <2>6
<1> QED BY <1>1, TlsInvariant, PTL
=============================================================================
