------------------------------ MODULE MpmcRing ------------------------------
(***************************************************************************)
(* signet::forge::MpmcRing<T> (ai/mpmc_ring.hpp): Vyukov's bounded ring    *)
(* with one sequence number per slot, shared by any number of producers    *)
(* (push) and consumers (pop) without a lock.                              *)
(*                                                                         *)
(* One action per atomic access of the code.  A thread's program counter   *)
(* names the access it makes next:                                         *)
(*   idle  - not in a call                                                 *)
(*   load  - about to (re)load its cursor into pos                         *)
(*   seq   - about to load slot.seq and branch on diff                     *)
(*   cas   - about to compare_exchange_weak the cursor                     *)
(*   move  - owns the slot; about to move the element in or out            *)
(*   store - about to release-store slot.seq                               *)
(* Positions are natural numbers: size_t wraps after 2^64 pushes.  Steps   *)
(* interleave sequentially consistently; a relaxed load that returns an    *)
(* older cursor is a thread that was delayed after its load.               *)
(***************************************************************************)
EXTENDS Integers, Sequences, FiniteSets

CONSTANTS
  Producers,  \* threads that call push()
  Consumers,  \* threads that call pop()
  Capacity,   \* the constructor's argument
  Values,     \* elements
  NoValue,    \* T{}: an empty or moved-from slot
  MaxPush     \* bound: slots that may be claimed by push()

(* The constructor: cap = 2; while (cap < capacity) cap <<= 1. *)
RoundUp(capacity) ==
  LET Grow[c \in Nat] == IF c < capacity THEN Grow[2 * c] ELSE c
  IN  Grow[2]

Cap == RoundUp(Capacity)

ASSUME ThreadAssumption == Producers \cap Consumers = {}
ASSUME CapAssumption    == Cap \in Nat /\ Cap >= 2
ASSUME ValueAssumption  == NoValue \notin Values
ASSUME BoundAssumption  == MaxPush \in Nat

Threads == Producers \cup Consumers
Slots   == 0 .. (Cap - 1)
Slot(p) == p % Cap          \* pos & mask_, for a power-of-two capacity

VARIABLES
  enqueue,    \* enqueue_: the next position a producer claims
  dequeue,    \* dequeue_: the next position a consumer claims
  seq,        \* slots_[i].seq
  data,       \* slots_[i].data
  pc, pos,    \* each thread's control point and its local pos
  val,        \* push()'s argument, or what pop() moved into out
  log,        \* history: the elements in the order their slots were claimed
  popped      \* history: [pos, val] of every pop() that returned true

vars == <<enqueue, dequeue, seq, data, pc, pos, val, log, popped>>

Init ==
  /\ enqueue = 0
  /\ dequeue = 0
  /\ seq  = [i \in Slots |-> i]
  /\ data = [i \in Slots |-> NoValue]
  /\ pc   = [t \in Threads |-> "idle"]
  /\ pos  = [t \in Threads |-> 0]
  /\ val  = [t \in Threads |-> NoValue]
  /\ log  = <<>>
  /\ popped = {}

Goto(t, from, to) == pc[t] = from /\ pc' = [pc EXCEPT ![t] = to]

-----------------------------------------------------------------------------
(* push(val) *)

PushCall(p) ==
  /\ Goto(p, "idle", "load")
  /\ \E v \in Values : val' = [val EXCEPT ![p] = v]
  /\ UNCHANGED <<enqueue, dequeue, seq, data, pos, log, popped>>

PushLoad(p) ==
  /\ Goto(p, "load", "seq")
  /\ pos' = [pos EXCEPT ![p] = enqueue]
  /\ UNCHANGED <<enqueue, dequeue, seq, data, val, log, popped>>

(* diff = seq - pos: 0 tries to claim, < 0 returns false (full), > 0 reloads. *)
PushSeq(p) ==
  LET s == seq[Slot(pos[p])]
  IN  /\ \/ s = pos[p] /\ Goto(p, "seq", "cas")
         \/ s < pos[p] /\ Goto(p, "seq", "idle")
         \/ s > pos[p] /\ Goto(p, "seq", "load")
      /\ UNCHANGED <<enqueue, dequeue, seq, data, pos, val, log, popped>>

(* Mutant: a load and a store in place of the exchange. *)
PushCasPlainStore(p) ==
  /\ pos[p] < MaxPush
  /\ Goto(p, "cas", "move")
  /\ enqueue' = pos[p] + 1
  /\ log' = Append(log, val[p])
  /\ UNCHANGED <<dequeue, seq, data, pos, val, popped>>

PushCas(p) ==
  /\ pos[p] = enqueue
  /\ enqueue < MaxPush
  /\ Goto(p, "cas", "move")
  /\ enqueue' = enqueue + 1
  /\ log' = Append(log, val[p])
  /\ UNCHANGED <<dequeue, seq, data, pos, val, popped>>

(* Another producer won, or the weak exchange failed spuriously: either way *)
(* the exchange writes the current cursor back into pos.                    *)
PushCasFail(p) ==
  /\ Goto(p, "cas", "seq")
  /\ pos' = [pos EXCEPT ![p] = enqueue]
  /\ UNCHANGED <<enqueue, dequeue, seq, data, val, log, popped>>

PushMove(p) ==
  /\ Goto(p, "move", "store")
  /\ data' = [data EXCEPT ![Slot(pos[p])] = val[p]]
  /\ UNCHANGED <<enqueue, dequeue, seq, pos, val, log, popped>>

PushStore(p) ==
  /\ Goto(p, "store", "idle")
  /\ seq' = [seq EXCEPT ![Slot(pos[p])] = pos[p] + 1]
  /\ UNCHANGED <<enqueue, dequeue, data, pos, val, log, popped>>

-----------------------------------------------------------------------------
(* pop(out) *)

PopCall(c) ==
  /\ Goto(c, "idle", "load")
  /\ val' = [val EXCEPT ![c] = NoValue]
  /\ UNCHANGED <<enqueue, dequeue, seq, data, pos, log, popped>>

PopLoad(c) ==
  /\ Goto(c, "load", "seq")
  /\ pos' = [pos EXCEPT ![c] = dequeue]
  /\ UNCHANGED <<enqueue, dequeue, seq, data, val, log, popped>>

(* Mutant: "empty" for a stale cursor. *)
PopSeqNoReload(c) ==
  LET s == seq[Slot(pos[c])]
  IN  /\ \/ s = pos[c] + 1 /\ Goto(c, "seq", "cas")
         \/ s # pos[c] + 1 /\ Goto(c, "seq", "idle")
      /\ UNCHANGED <<enqueue, dequeue, seq, data, pos, val, log, popped>>

(* diff = seq - (pos + 1): 0 tries to claim, < 0 returns false, > 0 reloads. *)
PopSeq(c) ==
  LET s == seq[Slot(pos[c])]
  IN  /\ \/ s = pos[c] + 1 /\ Goto(c, "seq", "cas")
         \/ s < pos[c] + 1 /\ Goto(c, "seq", "idle")
         \/ s > pos[c] + 1 /\ Goto(c, "seq", "load")
      /\ UNCHANGED <<enqueue, dequeue, seq, data, pos, val, log, popped>>

(* Mutant: a load and a store in place of the exchange. *)
PopCasPlainStore(c) ==
  /\ Goto(c, "cas", "move")
  /\ dequeue' = pos[c] + 1
  /\ UNCHANGED <<enqueue, seq, data, pos, val, log, popped>>
PopCas(c) ==
  /\ pos[c] = dequeue
  /\ Goto(c, "cas", "move")
  /\ dequeue' = dequeue + 1
  /\ UNCHANGED <<enqueue, seq, data, pos, val, log, popped>>

PopCasFail(c) ==
  /\ Goto(c, "cas", "seq")
  /\ pos' = [pos EXCEPT ![c] = dequeue]
  /\ UNCHANGED <<enqueue, dequeue, seq, data, val, log, popped>>

PopMove(c) ==
  /\ Goto(c, "move", "store")
  /\ val'  = [val  EXCEPT ![c] = data[Slot(pos[c])]]
  /\ data' = [data EXCEPT ![Slot(pos[c])] = NoValue]
  /\ UNCHANGED <<enqueue, dequeue, seq, pos, log, popped>>

(* The slot is free for the next cycle at pos + mask_ + 1. *)
PopStore(c) ==
  /\ Goto(c, "store", "idle")
  /\ seq' = [seq EXCEPT ![Slot(pos[c])] = pos[c] + Cap]
  /\ popped' = popped \cup {[pos |-> pos[c], val |-> val[c]]}
  /\ UNCHANGED <<enqueue, dequeue, data, pos, val, log>>

-----------------------------------------------------------------------------
PushStep(p) == \/ PushCall(p) \/ PushLoad(p) \/ PushSeq(p) \/ PushCas(p)
               \/ PushCasFail(p) \/ PushMove(p) \/ PushStore(p)
PopStep(c)  == \/ PopCall(c) \/ PopLoad(c) \/ PopSeq(c) \/ PopCas(c)
               \/ PopCasFail(c) \/ PopMove(c) \/ PopStore(c)

Next == \/ \E p \in Producers : PushStep(p)
        \/ \E c \in Consumers : PopStep(c)

Spec == Init /\ [][Next]_vars

-----------------------------------------------------------------------------
(* Correctness *)

TypeOK ==
  /\ enqueue \in Nat
  /\ dequeue \in Nat
  /\ seq  \in [Slots -> Nat]
  /\ data \in [Slots -> Values \cup {NoValue}]
  /\ pc   \in [Threads -> {"idle", "load", "seq", "cas", "move", "store"}]
  /\ pos  \in [Threads -> Nat]
  /\ val  \in [Threads -> Values \cup {NoValue}]
  /\ log  \in Seq(Values)
  /\ popped \subseteq [pos : Nat, val : Values \cup {NoValue}]

Owns(t) == pc[t] \in {"move", "store"}

(* No data race: slot.data is a plain field, so two threads may never be   *)
(* between their successful exchange and their release store on one slot.  *)
SlotExclusive ==
  \A t, u \in Threads :
    t # u /\ Owns(t) /\ Owns(u) => Slot(pos[t]) # Slot(pos[u])

(* Exactly once, in order, unmixed: every pop() that succeeded returned the *)
(* element pushed at its own position, so no element is lost, duplicated,   *)
(* overwritten or read before it was written.                               *)
PoppedWasPushed ==
  \A r \in popped : r.pos < enqueue /\ r.val = log[r.pos + 1]

(* No element is delivered twice or skipped: the positions below dequeue    *)
(* are exactly those some pop() returned or is moving out, and no position  *)
(* is returned after, or while, another pop() has it.                       *)
DeliveredOnce ==
  /\ {r.pos : r \in popped} \cup {pos[c] : c \in {d \in Consumers : Owns(d)}}
       = 0 .. (dequeue - 1)
  /\ \A c \in Consumers, r \in popped : Owns(c) => r.pos # pos[c]
  /\ \A c, d \in Consumers : c # d /\ Owns(c) /\ Owns(d) => pos[c] # pos[d]

(* The cursors never lap each other: at most Cap claimed positions are      *)
(* outstanding, however producers and consumers are delayed.                *)
Occupancy == dequeue <= enqueue /\ enqueue <= dequeue + Cap

(* The three together: what pop() returns is what was pushed, once.         *)
ExactlyOnce == PoppedWasPushed /\ DeliveredOnce /\ Occupancy

(* push() answers "full" only with a current cursor and while the position  *)
(* one cycle back is still being written, waiting or being read, never      *)
(* because its pos was stale.                                               *)
FullIsCurrent ==
  [][\A p \in Producers :
       pc[p] = "seq" /\ pc'[p] = "idle"
         => /\ pos[p] = enqueue
            /\ seq[Slot(enqueue)] \in {enqueue - Cap, enqueue - Cap + 1}]_vars

(* pop() answers "empty" only with a current cursor and while no producer   *)
(* has published that position: its slot is free, being written, or still   *)
(* being read from the cycle before.                                        *)
EmptyIsCurrent ==
  [][\A c \in Consumers :
       pc[c] = "seq" /\ pc'[c] = "idle"
         => /\ pos[c] = dequeue
            /\ seq[Slot(dequeue)] \in {dequeue - Cap + 1, dequeue}]_vars

(* Neither call answers false because it looked with a stale cursor.        *)
HonestAnswers == FullIsCurrent /\ EmptyIsCurrent

(* The ring implements a first-in first-out queue of Cap elements: a        *)
(* successful exchange on enqueue_ puts, one on dequeue_ takes.             *)
Fifo == INSTANCE BoundedFifo
          WITH Size <- Cap, Elements <- Values, hist <- log, rd <- dequeue
ImplementsFifo == Fifo!Spec

(* "false if the ring is empty" (mpmc_ring.hpp, pop): when pop() answers    *)
(* false, no element whose push() has returned is still in the ring.        *)
EmptyMeansEmpty ==
  [][\A c \in Consumers :
       pc[c] = "seq" /\ pc'[c] = "idle"
         => \A q \in dequeue .. (enqueue - 1) :
              seq[Slot(q)] # q + 1]_vars

-----------------------------------------------------------------------------
(* The inductive invariant behind the safety properties.                    *)

(* A slot whose sequence number is its own position t is free or being      *)
(* written for t; one whose number is t + 1 holds or is losing element t.   *)
Writable(i) == /\ Slot(seq[i]) = i
               /\ dequeue <= seq[i]
               /\ seq[i] < dequeue + Cap
Readable(i) == /\ seq[i] > 0
               /\ Slot(seq[i] - 1) = i
               /\ seq[i] - 1 < enqueue
               /\ enqueue <= (seq[i] - 1) + Cap
SlotInv == \A i \in Slots : Writable(i) \/ Readable(i)

ProducerInv ==
  \A p \in Producers :
    /\ pos[p] <= enqueue
    /\ pc[p] # "idle" => val[p] \in Values
    /\ pc[p] = "cas" => pos[p] <= seq[Slot(pos[p])]
    /\ Owns(p) => /\ pos[p] < enqueue
                  /\ seq[Slot(pos[p])] = pos[p]
                  /\ val[p] = log[pos[p] + 1]
    /\ pc[p] = "store" => data[Slot(pos[p])] = val[p]

ConsumerInv ==
  \A c \in Consumers :
    /\ pos[c] <= dequeue
    /\ pc[c] = "cas" => pos[c] < seq[Slot(pos[c])]
    /\ Owns(c) => /\ pos[c] < dequeue
                  /\ seq[Slot(pos[c])] = pos[c] + 1
    /\ pc[c] = "move"  => data[Slot(pos[c])] = log[pos[c] + 1]
    /\ pc[c] = "store" => val[c] = log[pos[c] + 1]

OwnersInv ==
  \A p, q \in Producers : p # q /\ Owns(p) /\ Owns(q) => pos[p] # pos[q]

(* A published element that nobody has claimed yet is in its slot. *)
DataInv ==
  \A q \in dequeue .. (enqueue - 1) :
    seq[Slot(q)] = q + 1 => data[Slot(q)] = log[q + 1]

(* The protocol of the header comment (seq = pos: free, pos + 1: full,      *)
(* pos + cap: drained) holds between any two accesses of any threads: every *)
(* slot is in exactly the phase its sequence number says, and every thread  *)
(* past its exchange is the only owner of the phase it is moving through.   *)
IInv == /\ TypeOK
        /\ Len(log) = enqueue
        /\ Occupancy
        /\ SlotInv
        /\ ProducerInv
        /\ ConsumerInv
        /\ OwnersInv
        /\ DataInv
        /\ DeliveredOnce
        /\ PoppedWasPushed
=============================================================================
