------------------------------ MODULE MCRings -------------------------------
(***************************************************************************)
(* The two ring buffers of streaming_sink.hpp for TLC: a behaviour is one  *)
(* of SpscRingBuffer or one of MpscRingBuffer.                             *)
(***************************************************************************)
EXTENDS SpscRing

CONSTANTS Producers, MpscCapacity, MpscMaxPush

\* A buffer of one slot, which the static_assert lets pass, is none: README, section 3.
ASSUME MpscAssumption == MpscCapacity \in Nat /\ MpscCapacity >= 2 /\ MpscMaxPush \in Nat

VARIABLES part, enqueue, dequeue, seq, data, pc, pos, val, mcpc, mout, mlog, popped

mpscAll == <<enqueue, dequeue, seq, data, pc, pos, val, mcpc, mout, mlog, popped>>

Mpsc == INSTANCE MpscRing WITH Capacity <- MpscCapacity, MaxPush <- MpscMaxPush,
                               cpc <- mcpc, out <- mout, log <- mlog

RingsInit == part \in {"spsc", "mpsc"} /\ Init /\ Mpsc!Init

RingsNext ==
  \/ part = "spsc" /\ Next /\ UNCHANGED part /\ UNCHANGED mpscAll
  \/ part = "mpsc" /\ Mpsc!Next /\ UNCHANGED part /\ UNCHANGED vars

\* In MpscRingBuffer a producer in a call goes on, and the consumer keeps polling.
RingsSpec ==
  /\ RingsInit /\ [][RingsNext]_<<part, vars, mpscAll>>
  /\ WF_mpscAll(part = "mpsc" /\ Mpsc!PopStep)
  /\ \A p \in Producers : WF_mpscAll(part = "mpsc" /\ (Mpsc!PushMove(p) \/ Mpsc!PushStore(p)))

\* MpscRingBuffer: the consumer receives what was pushed in the order of the claims, and no slot
\* is shared; push() and pop() are those of a first-in first-out queue of Capacity elements.
MpscImplementsFifo == [](Mpsc!TypeOK /\ Mpsc!InOrder /\ Mpsc!SlotExclusive) /\ Mpsc!ImplementsFifo

\* MpscRingBuffer: every claimed element reaches the polling consumer.
MpscEventuallyDrained == Mpsc!EventuallyDrained
=============================================================================
