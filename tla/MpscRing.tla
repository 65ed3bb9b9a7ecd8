------------------------------ MODULE MpscRing ------------------------------
(***************************************************************************)
(* signet::forge::MpscRingBuffer<T, Capacity> (ai/streaming_sink.hpp):     *)
(* producers claim positions by compare-exchange as in MpmcRing; the one   *)
(* consumer keeps its position in a plain variable.  The control points    *)
(* are those of MpmcRing.  The bulk calls are loops of these calls.        *)
(***************************************************************************)
EXTENDS Integers, Sequences, FiniteSets

CONSTANTS
  Producers,   \* threads that call push()
  Capacity,    \* the template argument
  Values,      \* elements
  NoValue,     \* T{}: an empty or moved-from slot
  MaxPush      \* bound: slots that may be claimed by push()

Slots   == 0 .. (Capacity - 1)
Slot(p) == p % Capacity     \* pos & kMask

VARIABLES
  enqueue, dequeue,    \* enqueue_pos_, dequeue_pos_
  seq, data,           \* slots_[i].sequence, slots_[i].data
  pc, pos, val,        \* each producer's control point, pos and item
  cpc, out,            \* the consumer's control point and out
  log, popped          \* history: elements claimed for, and returned by pop()

producerVars == <<enqueue, pc, pos, val, log>>
consumerVars == <<dequeue, cpc, out, popped>>
vars == <<producerVars, consumerVars, seq, data>>

Init ==
  /\ enqueue = 0 /\ dequeue = 0
  /\ seq  = [i \in Slots |-> i]
  /\ data = [i \in Slots |-> NoValue]
  /\ pc  = [p \in Producers |-> "idle"]
  /\ pos = [p \in Producers |-> 0]
  /\ val = [p \in Producers |-> NoValue]
  /\ cpc = "idle" /\ out = NoValue
  /\ log = <<>> /\ popped = <<>>

Goto(p, from, to) == pc[p] = from /\ pc' = [pc EXCEPT ![p] = to]

-----------------------------------------------------------------------------
PushCall(p) ==
  /\ Goto(p, "idle", "seq")
  /\ \E v \in Values : val' = [val EXCEPT ![p] = v]
  /\ pos' = [pos EXCEPT ![p] = enqueue]
  /\ UNCHANGED <<enqueue, log, consumerVars, seq, data>>

(* diff = seq - pos: 0 tries to claim, < 0 returns false, > 0 reloads. *)
PushSeq(p) ==
  LET s == seq[Slot(pos[p])]
  IN  /\ \/ s = pos[p] /\ Goto(p, "seq", "cas") /\ pos' = pos
         \/ s < pos[p] /\ Goto(p, "seq", "idle") /\ pos' = pos
         \/ s > pos[p] /\ Goto(p, "seq", "seq") /\ pos' = [pos EXCEPT ![p] = enqueue]
      /\ UNCHANGED <<enqueue, val, log, consumerVars, seq, data>>

PushCas(p) ==
  /\ pos[p] = enqueue /\ enqueue < MaxPush
  /\ Goto(p, "cas", "move")
  /\ enqueue' = enqueue + 1
  /\ log' = Append(log, val[p])
  /\ UNCHANGED <<pos, val, consumerVars, seq, data>>

(* Another producer won, or the weak exchange failed spuriously. *)
PushCasFail(p) ==
  /\ Goto(p, "cas", "seq")
  /\ pos' = [pos EXCEPT ![p] = enqueue]
  /\ UNCHANGED <<enqueue, val, log, consumerVars, seq, data>>

PushMove(p) ==
  /\ Goto(p, "move", "store")
  /\ data' = [data EXCEPT ![Slot(pos[p])] = val[p]]
  /\ UNCHANGED <<enqueue, pos, val, log, consumerVars, seq>>

(* Mutant: the slot is never published. *)
PushStoreSamePos(p) ==
  /\ Goto(p, "store", "idle")
  /\ seq' = [seq EXCEPT ![Slot(pos[p])] = pos[p]]
  /\ UNCHANGED <<enqueue, pos, val, log, consumerVars, data>>

PushStore(p) ==
  /\ Goto(p, "store", "idle")
  /\ seq' = [seq EXCEPT ![Slot(pos[p])] = pos[p] + 1]
  /\ UNCHANGED <<enqueue, pos, val, log, consumerVars, data>>

-----------------------------------------------------------------------------
(* Mutant: any slot that was ever written is taken for ready. *)
PopSeqAnyNewer ==
  /\ cpc = "idle" /\ seq[Slot(dequeue)] > dequeue - Capacity
  /\ cpc' = "move"
  /\ UNCHANGED <<producerVars, dequeue, out, popped, seq, data>>

(* pop(): a slot whose sequence is not pos + 1 is an empty buffer. *)
PopSeq ==
  /\ cpc = "idle" /\ seq[Slot(dequeue)] = dequeue + 1
  /\ cpc' = "move"
  /\ UNCHANGED <<producerVars, dequeue, out, popped, seq, data>>

PopMove ==
  /\ cpc = "move" /\ cpc' = "store"
  /\ out' = data[Slot(dequeue)]
  /\ data' = [data EXCEPT ![Slot(dequeue)] = NoValue]
  /\ UNCHANGED <<producerVars, dequeue, popped, seq>>

(* dequeue_pos_ is the consumer's own: advancing it belongs to the store.   *)
PopStore ==
  /\ cpc = "store" /\ cpc' = "idle"
  /\ seq' = [seq EXCEPT ![Slot(dequeue)] = dequeue + Capacity]
  /\ dequeue' = dequeue + 1
  /\ popped' = Append(popped, out)
  /\ UNCHANGED <<producerVars, out, data>>

PushStep(p) == \/ PushCall(p) \/ PushSeq(p) \/ PushCas(p) \/ PushCasFail(p)
               \/ PushMove(p) \/ PushStore(p)
PopStep == PopSeq \/ PopMove \/ PopStore

Next == (\E p \in Producers : PushStep(p)) \/ PopStep

Spec == Init /\ [][Next]_vars

(* A producer in a call goes on, and the consumer keeps polling. *)
FairSpec ==
  /\ Spec /\ WF_vars(PopStep)
  /\ \A p \in Producers : WF_vars(PushMove(p) \/ PushStore(p))

-----------------------------------------------------------------------------
TypeOK ==
  /\ enqueue \in 0 .. MaxPush /\ dequeue \in 0 .. MaxPush
  /\ seq \in [Slots -> Nat] /\ data \in [Slots -> Values \cup {NoValue}]
  /\ pc \in [Producers -> {"idle", "seq", "cas", "move", "store"}]
  /\ pos \in [Producers -> 0 .. MaxPush] /\ val \in [Producers -> Values \cup {NoValue}]
  /\ cpc \in {"idle", "move", "store"} /\ out \in Values \cup {NoValue}
  /\ log \in Seq(Values) /\ popped \in Seq(Values \cup {NoValue})

(* slot.data is a plain field: between its exchange and its release store a *)
(* producer is alone on its slot, and so is the consumer between its load   *)
(* of the sequence and its release store.                                   *)
SlotExclusive ==
  /\ \A p, q \in Producers :
       p # q /\ pc[p] \in {"move", "store"} /\ pc[q] \in {"move", "store"}
         => Slot(pos[p]) # Slot(pos[q])
  /\ cpc # "idle" => \A p \in Producers :
       pc[p] \in {"move", "store"} => Slot(pos[p]) # Slot(dequeue)

(* The consumer receives what was pushed, in the order of the claims,       *)
(* nothing lost, repeated or read before it was written.                    *)
InOrder == /\ Len(popped) <= Len(log)
           /\ popped = SubSeq(log, 1, Len(popped))

(* "Maximum number of elements": producers never claim a position whose     *)
(* slot still holds an unread element.                                      *)
Occupancy == dequeue <= enqueue /\ enqueue <= dequeue + Capacity

(* The buffer implements a first-in first-out queue of Capacity elements:   *)
(* an exchange puts, the consumer's final store takes.                      *)
Fifo == INSTANCE BoundedFifo
          WITH Size <- Capacity, Elements <- Values, hist <- log, rd <- dequeue
ImplementsFifo == Fifo!Spec

(* Every claimed element reaches a polling consumer. *)
EventuallyDrained == \A n \in 1 .. MaxPush : enqueue >= n ~> dequeue >= n
=============================================================================
