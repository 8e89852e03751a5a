------------------------------- MODULE QuicNumber -------------------------------
(***************************************************************************)
(* Packet numbers of QUIC (RFC 9000, Appendix A): only the last digits are  *)
(* sent, and decode_number of src/src/quic.rs finds the number near the one *)
(* that is expected next.  Window is 2^bits, NumberSpace is 2^62.           *)
(***************************************************************************)
EXTENDS Integers

CONSTANTS Half, NumberSpace

Window == 2 * Half

NumberParameters ==
  /\ Half \in Nat \ {0} /\ NumberSpace \in Nat
  /\ NumberSpace % Window = 0 /\ NumberSpace >= Window

NoNumber == -1   \* no packet was opened yet

Expected(largest) == largest + 1

Truncated(pn) == pn % Window

\* Mutant: a number exactly half a window ahead is taken for the one before.
DecodeBelow(truncated, largest) ==
  LET expected  == Expected(largest)
      candidate == (expected - (expected % Window)) + truncated
  IN IF candidate + Half < expected /\ candidate < NumberSpace - Window
     THEN candidate + Window
     ELSE IF candidate >= expected + Half /\ candidate >= Window
     THEN candidate - Window ELSE candidate

\* decode_number.
Decode(truncated, largest) ==
  LET expected  == Expected(largest)
      candidate == (expected - (expected % Window)) + truncated
  IN IF candidate + Half <= expected /\ candidate < NumberSpace - Window
     THEN candidate + Window
     ELSE IF candidate > expected + Half /\ candidate >= Window
     THEN candidate - Window ELSE candidate

\* open succeeds: the nonce was made from the number the packet was sent with.
Opens(pn, largest) == Decode(Truncated(pn), largest) = pn

\* Within half a window of the expected number, or anywhere in the first window.
Near(pn, largest) ==
  \/ Expected(largest) - Half < pn /\ pn <= Expected(largest) + Half
  \/ largest = NoNumber /\ pn < Window
=============================================================================
