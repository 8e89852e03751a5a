----------------------------- MODULE PacketQueue -----------------------------
(***************************************************************************)
(* The bounded queue between the live capture reader and the packet pump    *)
(* (src/src/capture.rs and the pump task of main.rs) with the three         *)
(* counters that the recording code later reads without any lock.           *)
(*                                                                          *)
(* The reader never blocks: it tries the queue and only then counts the     *)
(* packet as accepted, so a packet can be in the queue, or already applied, *)
(* before it is counted.  Packets are indistinguishable here; the queue is  *)
(* first-in first-out with a single producer, so "how many" tells "which".  *)
(***************************************************************************)
EXTENDS Integers

CONSTANTS QueueCapacity,  \* capture::QUEUE_CAPACITY
          BatchMax,       \* the limit the pump passes to recv_many
          MaxPackets      \* bound of the model: packets the reader offers

ASSUME QueueAssumption ==
  /\ QueueCapacity \in Nat \ {0}
  /\ BatchMax \in Nat \ {0}
  /\ MaxPackets \in Nat

VARIABLES queue,      \* packets in the channel
          uncounted,  \* packets queued by a send that has not counted them yet
          batch,      \* packets the pump took out and has not applied yet
          accepted, dropped, processed,  \* capture::Metrics
          reader      \* "reading" until the live capture's stream ends

queueVars == <<queue, uncounted, batch, accepted, dropped, processed, reader>>
counters  == <<accepted, dropped, processed>>

QueueTypeOK ==
  /\ queue \in 0..QueueCapacity
  /\ uncounted \in 0..1
  /\ batch \in 0..BatchMax
  /\ accepted \in Nat /\ dropped \in Nat /\ processed \in Nat
  /\ reader \in {"reading", "closed"}

QueueInit ==
  /\ queue = 0 /\ uncounted = 0 /\ batch = 0
  /\ accepted = 0 /\ dropped = 0 /\ processed = 0
  /\ reader = "reading"
-----------------------------------------------------------------------------
MayOffer == /\ reader = "reading" /\ uncounted = 0
            /\ accepted + dropped < MaxPackets

\* Mutant: the channel is unbounded.
SendUnbounded ==
  /\ MayOffer
  /\ queue' = queue + 1 /\ uncounted' = 1
  /\ UNCHANGED <<batch, counters, reader>>

\* PacketSender::send, try_send succeeded.
SendQueued ==
  /\ MayOffer
  /\ queue < QueueCapacity
  /\ queue' = queue + 1 /\ uncounted' = 1
  /\ UNCHANGED <<batch, counters, reader>>

\* PacketSender::send, the increment after the successful try_send.
SendCounted ==
  /\ uncounted = 1
  /\ uncounted' = 0 /\ accepted' = accepted + 1
  /\ UNCHANGED <<queue, batch, dropped, processed, reader>>

\* PacketSender::send, the queue is full: the packet is lost and counted.
SendFull ==
  /\ MayOffer
  /\ queue = QueueCapacity
  /\ dropped' = dropped + 1
  /\ UNCHANGED <<queue, uncounted, batch, accepted, processed, reader>>

\* The stream of the live dumpcap ends and its reader task returns.
ReaderEnds ==
  /\ reader = "reading" /\ uncounted = 0
  /\ reader' = "closed"
  /\ UNCHANGED <<queue, uncounted, batch, counters>>

\* recv_many: the pump takes some of the queued packets, at most BatchMax.
PumpTake ==
  /\ batch = 0
  /\ \E n \in 1..BatchMax :
       /\ n <= queue
       /\ batch' = n /\ queue' = queue - n
  /\ UNCHANGED <<uncounted, counters, reader>>

\* The whole batch is applied under the application lock, then counted.
PumpApply ==
  /\ batch > 0
  /\ batch' = 0 /\ processed' = processed + batch
  /\ UNCHANGED <<queue, uncounted, accepted, dropped, reader>>

\* A packet panicked: the batch counts as lost first and as processed after.
PumpPanic ==
  /\ batch > 0
  /\ batch' = 0
  /\ dropped' = dropped + batch /\ processed' = processed + batch
  /\ UNCHANGED <<queue, uncounted, accepted, reader>>

QueueNext == \/ SendQueued \/ SendCounted \/ SendFull \/ ReaderEnds
             \/ PumpTake \/ PumpApply \/ PumpPanic

QueueSpec == QueueInit /\ [][QueueNext]_queueVars
-----------------------------------------------------------------------------
(* No packet that entered the channel is forgotten or counted twice,        *)
(* whatever the interleaving of the uncounted send, the batch and a panic.  *)
Conservation == accepted + uncounted = processed + batch + queue
=============================================================================
