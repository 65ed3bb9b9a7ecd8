-------------------------- MODULE EventBus_proofs ---------------------------
(***************************************************************************)
(* Proofs about the event bus and the ring under it, on the instance that  *)
(* MCEventBus checks: MpmcRing for every number of producers and           *)
(* consumers, every capacity and every set of values, and EventBus for     *)
(* every number of producers, workers and sinks, every capacity and every  *)
(* number of calls and resets.                                             *)
(***************************************************************************)
EXTENDS MCEventBus, FiniteSetTheorems, TLAPS

-----------------------------------------------------------------------------
(* The slot of a position is pos & (capacity - 1), which is pos modulo the *)
(* capacity.                                                               *)

(* Division with remainder, as the slot index uses it. *)
LEMMA ModDiv ==
  ASSUME NEW n \in Nat, n > 0, NEW a \in Nat
  PROVE  /\ a = n * (a \div n) + (a % n)
         /\ a \div n \in Nat
         /\ a % n \in 0 .. (n - 1)
  OBVIOUS

(* Two different multiples of n are at least n apart. *)
LEMMA MultiplesApart ==
  ASSUME NEW n \in Nat, n > 0, NEW x \in Int, NEW y \in Int, x < y
  PROVE  n * x + n <= n * y
<1>1. PICK d \in Nat : y = x + 1 + d
  <2>1. y - x - 1 \in Nat
    OBVIOUS
  <2> QED BY <2>1
<1>2. n * y = n * x + n + n * d
  BY <1>1
<1>3. n * d >= 0
  BY SMT
<1> QED BY <1>2, <1>3

(* Positions less than one cycle apart that share a slot are equal. *)
LEMMA SameSlot ==
  ASSUME NEW n \in Nat, n > 0, NEW a \in Nat, NEW b \in Nat,
         a % n = b % n, a <= b, b < a + n
  PROVE  a = b
<1> DEFINE x == a \div n
           y == b \div n
<1>1. /\ a = n * x + (a % n) /\ x \in Nat
      /\ b = n * y + (a % n) /\ y \in Nat
  BY ModDiv
<1>2. n * x \in Int /\ n * y \in Int /\ a % n \in Int
  BY <1>1, ModDiv
<1> HIDE DEF x, y
<1>3. CASE x = y
  BY <1>1, <1>2, <1>3
<1>4. CASE x < y
  <2>1. n * x + n <= n * y
    BY <1>1, <1>4, MultiplesApart
  <2> QED BY <1>1, <1>2, <2>1
<1>5. CASE y < x
  <2>1. n * y + n <= n * x
    BY <1>1, <1>5, MultiplesApart
  <2> QED BY <1>1, <1>2, <2>1
<1> QED BY <1>1, <1>3, <1>4, <1>5

(* One full cycle later a position has the same slot. *)
LEMMA NextCycle ==
  ASSUME NEW n \in Nat, n > 0, NEW a \in Nat
  PROVE  (a + n) % n = a % n
<1> DEFINE x == a \div n
           y == (a + n) \div n
           r == a % n
           t == (a + n) % n
<1>1. /\ a = n * x + r     /\ x \in Nat /\ r \in 0 .. (n - 1)
      /\ a + n = n * y + t /\ y \in Nat /\ t \in 0 .. (n - 1)
  BY ModDiv
<1>2. n * x \in Int /\ n * y \in Int /\ n * (x + 1) = n * x + n
  BY <1>1
<1> HIDE DEF x, y, r, t
<1>3. CASE x + 1 = y
  BY <1>1, <1>2, <1>3 DEF r, t
<1>4. CASE x + 1 < y
  <2>1. n * (x + 1) + n <= n * y
    BY <1>1, <1>4, MultiplesApart
  <2> QED BY <1>1, <1>2, <2>1
<1>5. CASE y < x + 1
  <2>1. n * y + n <= n * (x + 1)
    BY <1>1, <1>5, MultiplesApart
  <2> QED BY <1>1, <1>2, <2>1
<1> QED BY <1>1, <1>3, <1>4, <1>5 DEF r, t

(* Neighbouring positions never share a slot of a ring of two or more. *)
LEMMA NextSlot ==
  ASSUME NEW n \in Nat, n >= 2, NEW a \in Nat
  PROVE  (a + 1) % n # a % n
  BY SameSlot

(* The first cycle maps every position to itself. *)
LEMMA FirstCycle ==
  ASSUME NEW n \in Nat, n > 0, NEW a \in Nat, a < n
  PROVE  a % n = a
  OBVIOUS

-----------------------------------------------------------------------------
(* MpmcRing: the slot protocol IInv is an invariant (MpmcRing_Protocol),   *)
(* and what clients rely on follows.                                       *)

(* What the proofs use of the index pos & mask_. *)
LEMMA SlotInRing == \A a \in Nat : Slot(a) \in Slots
  BY CapAssumption, ModDiv DEF Slot, Slots

LEMMA SlotUnique ==
  ASSUME NEW a \in Nat, NEW b \in Nat, Slot(a) = Slot(b), a <= b, b < a + Cap
  PROVE  a = b
<1>1. Cap > 0 /\ Cap \in Nat
  BY CapAssumption
<1>2. a % Cap = b % Cap
  BY DEF Slot
<1> QED BY <1>1, <1>2, SameSlot

LEMMA SlotCycle == ASSUME NEW a \in Nat PROVE Slot(a + Cap) = Slot(a)
<1>1. Cap > 0 /\ Cap \in Nat
  BY CapAssumption
<1>2. (a + Cap) % Cap = a % Cap
  BY <1>1, NextCycle
<1> QED BY <1>2 DEF Slot

LEMMA SlotNext == ASSUME NEW a \in Nat PROVE Slot(a + 1) # Slot(a)
  BY CapAssumption, NextSlot DEF Slot

LEMMA SlotFirst == \A i \in Slots : i \in Nat /\ i < Cap /\ Slot(i) = i
  BY CapAssumption, FirstCycle DEF Slot, Slots

(* The constructor establishes the protocol. *)
LEMMA InitInv == Init => IInv
<1> SUFFICES ASSUME Init PROVE IInv
  OBVIOUS
<1> USE DEF Init
<1>1. TypeOK
  BY SlotFirst DEF TypeOK
<1>2. Len(log) = enqueue /\ Occupancy
  BY CapAssumption DEF Occupancy
<1>3. SlotInv
  BY SlotFirst, CapAssumption DEF SlotInv, Writable
<1>4. ProducerInv /\ ConsumerInv /\ OwnersInv
  BY DEF ProducerInv, ConsumerInv, OwnersInv, Owns, Threads
<1>5. DataInv
  BY DEF DataInv
<1>6. DeliveredOnce /\ PoppedWasPushed
  BY DEF DeliveredOnce, PoppedWasPushed, Owns, Threads
<1> QED BY <1>1, <1>2, <1>3, <1>4, <1>5, <1>6 DEF IInv

(* A producer whose exchange can succeed finds its slot free for this very  *)
(* position, although it read slot.seq before the exchange.                 *)
LEMMA ClaimForWrite ==
  ASSUME IInv, NEW p \in Producers, pc[p] = "cas", pos[p] = enqueue
  PROVE  seq[Slot(enqueue)] = enqueue /\ enqueue < dequeue + Cap
<1> DEFINE i == Slot(enqueue)
<1>1. /\ enqueue \in Nat /\ dequeue \in Nat /\ seq[i] \in Nat
      /\ i \in Slots /\ seq[i] >= enqueue
      /\ dequeue <= enqueue /\ enqueue <= dequeue + Cap
  BY SlotInRing DEF IInv, TypeOK, ProducerInv, Occupancy
<1>2. CASE Writable(i)
  <2>1. Slot(seq[i]) = i /\ seq[i] < dequeue + Cap
    BY <1>2 DEF Writable
  <2> QED BY <1>1, <2>1, SlotUnique, CapAssumption
<1>3. CASE Readable(i)
  <2>1. seq[i] = enqueue /\ enqueue > 0 /\ Slot(enqueue - 1) = i
    BY <1>1, <1>3 DEF Readable
  <2>2. Slot((enqueue - 1) + 1) # Slot(enqueue - 1)
    BY <1>1, <2>1, SlotNext
  <2> QED BY <1>1, <2>1, <2>2
<1> QED BY <1>1, <1>2, <1>3 DEF IInv, SlotInv

(* A consumer whose exchange can succeed finds its slot full with this very *)
(* position.                                                                *)
LEMMA ClaimForRead ==
  ASSUME IInv, NEW c \in Consumers, pc[c] = "cas", pos[c] = dequeue
  PROVE  seq[Slot(dequeue)] = dequeue + 1 /\ dequeue < enqueue
<1> DEFINE i == Slot(dequeue)
<1>1. /\ enqueue \in Nat /\ dequeue \in Nat /\ seq[i] \in Nat
      /\ i \in Slots /\ seq[i] > dequeue
      /\ dequeue <= enqueue /\ enqueue <= dequeue + Cap
  BY SlotInRing DEF IInv, TypeOK, ConsumerInv, Occupancy
<1>2. CASE Writable(i)
  <2>1. Slot(seq[i]) = i /\ seq[i] < dequeue + Cap
    BY <1>2 DEF Writable
  <2> QED BY <1>1, <2>1, SlotUnique, CapAssumption
<1>3. CASE Readable(i)
  <2>1. seq[i] - 1 \in Nat /\ seq[i] - 1 < enqueue
    BY <1>1, <1>3 DEF Readable
  <2>2. Slot(seq[i] - 1) = Slot(dequeue)
    BY <1>3 DEF Readable
  <2>3. dequeue <= seq[i] - 1 /\ seq[i] - 1 < dequeue + Cap
    BY <1>1, <2>1, CapAssumption
  <2>4. seq[i] - 1 = dequeue
    BY <1>1, <2>1, <2>2, <2>3, SlotUnique
  <2> QED BY <1>1, <2>1, <2>4
<1> QED BY <1>1, <1>2, <1>3 DEF IInv, SlotInv

(* Steps that move one thread between control points and nothing else. *)
LEMMA PushLocal ==
  ASSUME IInv, NEW p \in Producers,
         PushCall(p) \/ PushLoad(p) \/ PushSeq(p) \/ PushCasFail(p)
  PROVE  IInv'
<1> USE DEF PushCall, PushLoad, PushSeq, PushCasFail, Goto, IInv
<1>1. TypeOK'
  BY DEF TypeOK, Threads
<1>2. UNCHANGED <<enqueue, dequeue, seq, data, log, popped>>
  OBVIOUS
<1>3. \A t \in Threads \ {p} : UNCHANGED <<pc[t], pos[t], val[t]>>
  BY DEF TypeOK
<1>4. ~Owns(p) /\ ~Owns(p)'
  BY DEF Owns, TypeOK, Threads
<1>5. Len(log') = enqueue' /\ Occupancy' /\ SlotInv'
  BY <1>2 DEF Occupancy, SlotInv, Writable, Readable
<1>6. ProducerInv'
  <2>1. /\ pos'[p] <= enqueue
        /\ pc'[p] # "idle" => val'[p] \in Values
        /\ pc'[p] = "cas" => pos'[p] <= seq[Slot(pos'[p])]
    BY DEF ProducerInv, TypeOK, Threads
  <2> QED BY <1>2, <1>3, <1>4, <2>1 DEF ProducerInv, Owns, Threads
<1>7. ConsumerInv'
  BY <1>2, <1>3, ThreadAssumption DEF ConsumerInv, Owns, Threads
<1>8. OwnersInv'
  BY <1>3, <1>4 DEF OwnersInv, Owns, Threads
<1>9. DataInv' /\ PoppedWasPushed'
  BY <1>2 DEF DataInv, PoppedWasPushed
<1>10. DeliveredOnce'
  <2>1. \A c \in Consumers : pc'[c] = pc[c] /\ pos'[c] = pos[c]
    BY <1>3, ThreadAssumption DEF Threads
  <2> QED BY <1>2, <2>1 DEF DeliveredOnce, Owns
<1> QED BY <1>1, <1>5, <1>6, <1>7, <1>8, <1>9, <1>10

LEMMA PopLocal ==
  ASSUME IInv, NEW c \in Consumers,
         PopCall(c) \/ PopLoad(c) \/ PopSeq(c) \/ PopCasFail(c)
  PROVE  IInv'
<1> USE DEF PopCall, PopLoad, PopSeq, PopCasFail, Goto, IInv
<1>1. TypeOK'
  BY DEF TypeOK, Threads
<1>2. UNCHANGED <<enqueue, dequeue, seq, data, log, popped>>
  OBVIOUS
<1>3. \A t \in Threads \ {c} : UNCHANGED <<pc[t], pos[t], val[t]>>
  BY DEF TypeOK
<1>4. ~Owns(c) /\ ~Owns(c)'
  BY DEF Owns, TypeOK, Threads
<1>5. Len(log') = enqueue' /\ Occupancy' /\ SlotInv'
  BY <1>2 DEF Occupancy, SlotInv, Writable, Readable
<1>6. ProducerInv' /\ OwnersInv'
  BY <1>2, <1>3, ThreadAssumption DEF ProducerInv, OwnersInv, Owns, Threads
<1>7. ConsumerInv'
  <2>1. /\ pos'[c] <= dequeue
        /\ pc'[c] = "cas" => pos'[c] < seq[Slot(pos'[c])]
    BY SlotInRing, SMTT(60) DEF ConsumerInv, TypeOK, Threads
  <2> QED BY <1>2, <1>3, <1>4, <2>1 DEF ConsumerInv, Owns, Threads
<1>8. DataInv' /\ PoppedWasPushed'
  BY <1>2 DEF DataInv, PoppedWasPushed
<1>9. DeliveredOnce'
  <2>1. \A d \in Consumers : Owns(d)' <=> Owns(d)
    BY <1>3, <1>4 DEF Owns, Threads
  <2>2. \A d \in Consumers : Owns(d) => pos'[d] = pos[d]
    BY <1>3, <1>4 DEF Threads
  <2> QED BY <1>2, <2>1, <2>2 DEF DeliveredOnce
<1> QED BY <1>1, <1>5, <1>6, <1>7, <1>8, <1>9

(* The protocol implies that owners never meet on a slot. *)
LEMMA OwnersApart == IInv => SlotExclusive
<1> SUFFICES ASSUME IInv, NEW t \in Threads, NEW u \in Threads,
                    t # u, Owns(t), Owns(u), Slot(pos[t]) = Slot(pos[u])
             PROVE  FALSE
  BY DEF SlotExclusive
<1>1. pos[t] \in Nat /\ pos[u] \in Nat
  BY DEF IInv, TypeOK
<1>2. \A p \in Producers : Owns(p) => seq[Slot(pos[p])] = pos[p]
  BY DEF IInv, ProducerInv
<1>3. \A c \in Consumers : Owns(c) => seq[Slot(pos[c])] = pos[c] + 1
  BY DEF IInv, ConsumerInv
<1>4. CASE t \in Producers /\ u \in Producers
  BY <1>2, <1>4 DEF IInv, OwnersInv
<1>5. CASE t \in Consumers /\ u \in Consumers
  <2>1. pos[t] = pos[u]
    BY <1>1, <1>3, <1>5
  <2> QED BY <2>1, <1>5 DEF IInv, DeliveredOnce
<1>6. CASE t \in Producers /\ u \in Consumers
  <2>1. pos[t] = pos[u] + 1
    BY <1>2, <1>3, <1>6
  <2> QED BY <1>1, <2>1, SlotNext
<1>7. CASE t \in Consumers /\ u \in Producers
  <2>1. pos[u] = pos[t] + 1
    BY <1>2, <1>3, <1>7
  <2> QED BY <1>1, <2>1, SlotNext
<1> QED BY <1>4, <1>5, <1>6, <1>7 DEF Threads

(* A producer claims the next position. *)
LEMMA PushCasInv ==
  ASSUME IInv, NEW p \in Producers, PushCas(p)
  PROVE  IInv'
<1> USE DEF PushCas, Goto
<1>1. /\ enqueue \in Nat /\ dequeue \in Nat /\ Cap \in Nat /\ Cap >= 2
      /\ Len(log) = enqueue /\ dequeue <= enqueue
      /\ log \in Seq(Values) /\ val[p] \in Values
      /\ \A i \in Slots : seq[i] \in Nat
      /\ \A t \in Threads : pos[t] \in Nat
  BY CapAssumption DEF IInv, TypeOK, Occupancy, ProducerInv
<1>2. seq[Slot(enqueue)] = enqueue /\ enqueue < dequeue + Cap
  BY ClaimForWrite
<1>3. /\ log' \in Seq(Values) /\ Len(log') = enqueue + 1
      /\ log'[enqueue + 1] = val[p]
      /\ \A k \in 1 .. enqueue : log'[k] = log[k]
  BY <1>1
<1>4. /\ \A t \in Threads \ {p} : pc'[t] = pc[t]
      /\ pc'[p] = "move"
      /\ UNCHANGED <<dequeue, seq, data, pos, val, popped>>
      /\ enqueue' = enqueue + 1
  BY DEF IInv, TypeOK, Threads
<1>5. TypeOK'
  BY <1>1, <1>3 DEF IInv, TypeOK, Threads
<1>6. Len(log') = enqueue' /\ Occupancy'
  BY <1>1, <1>2, <1>3, <1>4 DEF Occupancy
<1>7. SlotInv'
  <2> SUFFICES ASSUME NEW j \in Slots PROVE Writable(j)' \/ Readable(j)'
    BY DEF SlotInv
  <2>1. CASE Writable(j)
    BY <1>4, <2>1 DEF Writable
  <2>2. CASE Readable(j)
    <3>1. seq[j] - 1 \in Nat /\ seq[j] \in Nat
      BY <1>1, <2>2 DEF Readable
    <3>2. enqueue # (seq[j] - 1) + Cap
      <4> SUFFICES ASSUME enqueue = (seq[j] - 1) + Cap PROVE FALSE
        OBVIOUS
      <4>1. Slot(enqueue) = j
        BY <3>1, <2>2, SlotCycle DEF Readable
      <4> QED BY <1>1, <1>2, <3>1, <4>1
    <3> QED BY <1>1, <1>4, <2>2, <3>1, <3>2, SMTT(60) DEF Readable
  <2> QED BY <2>1, <2>2 DEF IInv, SlotInv
<1>8. ProducerInv'
  <2> SUFFICES ASSUME NEW q \in Producers PROVE ProducerInv!(q)'
    BY DEF ProducerInv
  <2>1. CASE q = p
    BY <1>1, <1>2, <1>3, <1>4, <2>1 DEF Owns
  <2>2. CASE q # p
    <3>1. Owns(q) => pos[q] + 1 \in 1 .. enqueue
      BY <1>1 DEF IInv, ProducerInv, Threads
    <3> QED BY <1>1, <1>3, <1>4, <2>2, <3>1 DEF IInv, ProducerInv, Owns, Threads
  <2> QED BY <2>1, <2>2
<1>9. ConsumerInv'
  <2> SUFFICES ASSUME NEW c \in Consumers PROVE ConsumerInv!(c)'
    BY DEF ConsumerInv
  <2>1. Owns(c) => pos[c] + 1 \in 1 .. enqueue
    BY <1>1 DEF IInv, ConsumerInv, Threads
  <2>2. pc'[c] = pc[c]
    BY <1>4, ThreadAssumption DEF Threads
  <2> QED BY <1>1, <1>3, <1>4, <2>1, <2>2 DEF IInv, ConsumerInv, Owns
<1>10. OwnersInv'
  <2>1. \A q \in Producers : Owns(q) => pos[q] < enqueue
    BY DEF IInv, ProducerInv
  <2>2. \A q \in Producers \ {p} : Owns(q)' <=> Owns(q)
    BY <1>4 DEF Owns, Threads
  <2> QED BY <1>1, <1>4, <2>1, <2>2 DEF IInv, OwnersInv
<1>11. DataInv'
  <2> SUFFICES ASSUME NEW q \in dequeue .. enqueue, seq[Slot(q)] = q + 1
               PROVE  data[Slot(q)] = log'[q + 1]
    BY <1>1, <1>4 DEF DataInv
  <2>1. q # enqueue
    BY <1>1, <1>2
  <2>2. q \in dequeue .. (enqueue - 1) /\ q + 1 \in 1 .. enqueue
    BY <1>1, <2>1
  <2> QED BY <1>3, <2>2 DEF IInv, DataInv
<1>12. DeliveredOnce'
  <2>1. \A d \in Consumers : pc'[d] = pc[d]
    BY <1>4, ThreadAssumption DEF Threads
  <2> QED BY <1>4, <2>1 DEF IInv, DeliveredOnce, Owns
<1>13. PoppedWasPushed'
  <2>1. \A r \in popped : r.pos \in Nat
    BY DEF IInv, TypeOK
  <2>2. \A r \in popped : r.pos + 1 \in 1 .. enqueue
    BY <1>1, <2>1 DEF IInv, PoppedWasPushed
  <2> QED BY <1>1, <1>3, <1>4, <2>1, <2>2 DEF IInv, PoppedWasPushed
<1> QED BY <1>5, <1>6, <1>7, <1>8, <1>9, <1>10, <1>11, <1>12, <1>13 DEF IInv

(* A producer writes the element into the slot it owns. *)
LEMMA PushMoveInv ==
  ASSUME IInv, NEW p \in Producers, PushMove(p)
  PROVE  IInv'
<1> USE DEF PushMove, Goto
<1>1. /\ enqueue \in Nat /\ dequeue \in Nat /\ Cap \in Nat /\ Cap >= 2
      /\ dequeue <= enqueue /\ enqueue <= dequeue + Cap
      /\ \A i \in Slots : seq[i] \in Nat
      /\ \A t \in Threads : pos[t] \in Nat /\ Slot(pos[t]) \in Slots
  BY CapAssumption, SlotInRing DEF IInv, TypeOK, Occupancy
<1>2. Owns(p) /\ seq[Slot(pos[p])] = pos[p] /\ val[p] \in Values
  BY DEF IInv, ProducerInv, Owns
<1>3. /\ \A t \in Threads \ {p} : pc'[t] = pc[t]
      /\ pc'[p] = "store"
      /\ data'[Slot(pos[p])] = val[p]
      /\ \A i \in Slots \ {Slot(pos[p])} : data'[i] = data[i]
      /\ UNCHANGED <<enqueue, dequeue, seq, pos, val, log, popped>>
  BY <1>1 DEF IInv, TypeOK, Threads
<1>4. \A t \in Threads : Owns(t)' <=> Owns(t)
  BY <1>2, <1>3 DEF Owns
<1>5. TypeOK'
  BY <1>1, <1>2 DEF IInv, TypeOK, Threads
<1>6. Len(log') = enqueue' /\ Occupancy' /\ SlotInv'
  BY <1>3 DEF IInv, Occupancy, SlotInv, Writable, Readable
<1>7. ProducerInv'
  <2> SUFFICES ASSUME NEW q \in Producers PROVE ProducerInv!(q)'
    BY DEF ProducerInv
  <2>1. CASE q = p
    BY <1>2, <1>3, <1>4, <2>1 DEF IInv, ProducerInv
  <2>2. CASE q # p
    <3>1. Owns(q) => Slot(pos[q]) # Slot(pos[p])
      BY <1>2, <2>2, OwnersApart DEF SlotExclusive, Threads
    <3> QED BY <1>1, <1>3, <1>4, <2>2, <3>1 DEF IInv, ProducerInv, Owns, Threads
  <2> QED BY <2>1, <2>2
<1>8. ConsumerInv'
  <2> SUFFICES ASSUME NEW c \in Consumers PROVE ConsumerInv!(c)'
    BY DEF ConsumerInv
  <2>1. Owns(c) => Slot(pos[c]) # Slot(pos[p])
    BY <1>2, OwnersApart, ThreadAssumption DEF SlotExclusive, Threads
  <2>2. pc'[c] = pc[c] /\ c \in Threads
    BY <1>3, ThreadAssumption DEF Threads
  <2> QED BY <1>1, <1>3, <2>1, <2>2 DEF IInv, ConsumerInv, Owns
<1>9. OwnersInv'
  BY <1>3, <1>4 DEF IInv, OwnersInv, Threads
<1>10. DataInv'
  <2> SUFFICES ASSUME NEW q \in dequeue .. (enqueue - 1), seq[Slot(q)] = q + 1
               PROVE  data'[Slot(q)] = log[q + 1]
    BY <1>3 DEF DataInv
  <2>1. q \in Nat /\ Slot(q) \in Slots
    BY <1>1, SlotInRing
  <2>2. Slot(q) # Slot(pos[p])
    <3> SUFFICES ASSUME Slot(q) = Slot(pos[p]) PROVE FALSE
      OBVIOUS
    <3>1. pos[p] = q + 1
      BY <1>2
    <3> QED BY <2>1, <3>1, SlotNext
  <2> QED BY <1>3, <2>1, <2>2 DEF IInv, DataInv
<1>11. DeliveredOnce' /\ PoppedWasPushed'
  <2>1. \A d \in Consumers : Owns(d)' <=> Owns(d)
    BY <1>4 DEF Threads
  <2> QED BY <1>3, <2>1 DEF IInv, DeliveredOnce, PoppedWasPushed
<1> QED BY <1>5, <1>6, <1>7, <1>8, <1>9, <1>10, <1>11 DEF IInv

(* A producer publishes its element. *)
LEMMA PushStoreInv ==
  ASSUME IInv, NEW p \in Producers, PushStore(p)
  PROVE  IInv'
<1> USE DEF PushStore, Goto
<1>1. /\ enqueue \in Nat /\ dequeue \in Nat /\ Cap \in Nat /\ Cap >= 2
      /\ dequeue <= enqueue /\ enqueue <= dequeue + Cap
      /\ \A i \in Slots : seq[i] \in Nat
      /\ \A t \in Threads : pos[t] \in Nat /\ Slot(pos[t]) \in Slots
  BY CapAssumption, SlotInRing DEF IInv, TypeOK, Occupancy
<1>2. /\ Owns(p) /\ seq[Slot(pos[p])] = pos[p] /\ pos[p] < enqueue
      /\ data[Slot(pos[p])] = log[pos[p] + 1]
  BY DEF IInv, ProducerInv, Owns
<1>3. /\ \A t \in Threads \ {p} : pc'[t] = pc[t]
      /\ pc'[p] = "idle"
      /\ seq'[Slot(pos[p])] = pos[p] + 1
      /\ \A i \in Slots \ {Slot(pos[p])} : seq'[i] = seq[i]
      /\ UNCHANGED <<enqueue, dequeue, data, pos, val, log, popped>>
  BY <1>1 DEF IInv, TypeOK, Threads
<1>4. \A i \in Slots : seq'[i] >= seq[i]
  BY <1>1, <1>2, <1>3 DEF Threads
<1>5. TypeOK'
  BY <1>1 DEF IInv, TypeOK, Threads
<1>6. Len(log') = enqueue' /\ Occupancy'
  BY <1>3 DEF IInv, Occupancy
<1>7. SlotInv'
  <2> SUFFICES ASSUME NEW j \in Slots PROVE Writable(j)' \/ Readable(j)'
    BY DEF SlotInv
  <2>1. CASE j # Slot(pos[p])
    BY <1>3, <2>1 DEF IInv, SlotInv, Writable, Readable
  <2>2. CASE j = Slot(pos[p])
    <3>1. ~Readable(j)
      <4> SUFFICES ASSUME Readable(j) PROVE FALSE
        OBVIOUS
      <4>1. pos[p] - 1 \in Nat /\ Slot(pos[p] - 1) = Slot(pos[p])
        BY <1>1, <1>2, <2>2 DEF Readable, Threads
      <4>2. Slot((pos[p] - 1) + 1) # Slot(pos[p] - 1)
        BY <4>1, SlotNext
      <4> QED BY <1>1, <4>1, <4>2 DEF Threads
    <3>2. Writable(j)
      BY <3>1 DEF IInv, SlotInv
    <3>3. dequeue <= pos[p] /\ pos[p] \in Nat
      BY <1>1, <1>2, <2>2, <3>2 DEF Writable, Threads
    <3>4. (pos[p] + 1) - 1 = pos[p]
      BY <3>3
    <3> QED BY <1>1, <1>2, <1>3, <2>2, <3>3, <3>4 DEF Readable
  <2> QED BY <2>1, <2>2
<1>8. ProducerInv'
  <2> SUFFICES ASSUME NEW q \in Producers PROVE ProducerInv!(q)'
    BY DEF ProducerInv
  <2>1. CASE q = p
    BY <1>1, <1>2, <1>3, <2>1 DEF Owns, Threads
  <2>2. CASE q # p
    <3>1. Owns(q) => Slot(pos[q]) # Slot(pos[p])
      BY <1>2, <2>2, OwnersApart DEF SlotExclusive, Threads
    <3>2. /\ q \in Threads /\ pc'[q] = pc[q] /\ pos[q] \in Nat
          /\ Slot(pos[q]) \in Slots
          /\ seq[Slot(pos[q])] \in Nat /\ seq'[Slot(pos[q])] \in Nat
      BY <1>1, <1>3, <1>5, <2>2 DEF Threads, TypeOK
    <3> QED BY <1>3, <1>4, <3>1, <3>2 DEF IInv, ProducerInv, Owns
  <2> QED BY <2>1, <2>2
<1>9. ConsumerInv'
  <2> SUFFICES ASSUME NEW c \in Consumers PROVE ConsumerInv!(c)'
    BY DEF ConsumerInv
  <2>1. Owns(c) => Slot(pos[c]) # Slot(pos[p])
    BY <1>2, OwnersApart, ThreadAssumption DEF SlotExclusive, Threads
  <2>2. /\ c \in Threads /\ pc'[c] = pc[c] /\ pos[c] \in Nat
        /\ Slot(pos[c]) \in Slots
        /\ seq[Slot(pos[c])] \in Nat /\ seq'[Slot(pos[c])] \in Nat
    BY <1>1, <1>3, <1>5, ThreadAssumption DEF Threads, TypeOK
  <2> QED BY <1>3, <1>4, <2>1, <2>2 DEF IInv, ConsumerInv, Owns
<1>10. OwnersInv'
  BY <1>3 DEF IInv, OwnersInv, Owns, Threads
<1>11. DataInv'
  <2> SUFFICES ASSUME NEW q \in dequeue .. (enqueue - 1), seq'[Slot(q)] = q + 1
               PROVE  data[Slot(q)] = log[q + 1]
    BY <1>3 DEF DataInv
  <2>1. q \in Nat /\ Slot(q) \in Slots
    BY <1>1, SlotInRing
  <2>2. CASE Slot(q) # Slot(pos[p])
    BY <1>3, <2>1, <2>2 DEF IInv, DataInv
  <2>3. CASE Slot(q) = Slot(pos[p])
    <3>1. q = pos[p]
      BY <1>1, <1>3, <2>1, <2>3 DEF Threads
    <3> QED BY <1>2, <3>1
  <2> QED BY <2>2, <2>3
<1>12. DeliveredOnce' /\ PoppedWasPushed'
  <2>1. \A d \in Consumers : pc'[d] = pc[d]
    BY <1>3, ThreadAssumption DEF Threads
  <2> QED BY <1>3, <2>1 DEF IInv, DeliveredOnce, PoppedWasPushed, Owns
<1> QED BY <1>5, <1>6, <1>7, <1>8, <1>9, <1>10, <1>11, <1>12 DEF IInv

(* A consumer claims the next position. *)
LEMMA PopCasInv ==
  ASSUME IInv, NEW c \in Consumers, PopCas(c)
  PROVE  IInv'
<1> USE DEF PopCas, Goto
<1>1. /\ enqueue \in Nat /\ dequeue \in Nat /\ Cap \in Nat /\ Cap >= 2
      /\ dequeue <= enqueue /\ enqueue <= dequeue + Cap
      /\ \A i \in Slots : seq[i] \in Nat
      /\ \A t \in Threads : pos[t] \in Nat /\ Slot(pos[t]) \in Slots
      /\ c \in Threads
  BY CapAssumption, SlotInRing DEF IInv, TypeOK, Occupancy, Threads
<1>2. seq[Slot(dequeue)] = dequeue + 1 /\ dequeue < enqueue
  BY ClaimForRead
<1>3. /\ \A t \in Threads \ {c} : pc'[t] = pc[t]
      /\ pc'[c] = "move" /\ pos[c] = dequeue /\ ~Owns(c)
      /\ dequeue' = dequeue + 1
      /\ UNCHANGED <<enqueue, seq, data, pos, val, log, popped>>
  BY DEF IInv, TypeOK, Threads, Owns
<1>4. TypeOK'
  BY DEF IInv, TypeOK, Threads
<1>5. Len(log') = enqueue' /\ Occupancy'
  BY <1>1, <1>2, <1>3 DEF IInv, Occupancy
<1>6. SlotInv'
  <2> SUFFICES ASSUME NEW j \in Slots PROVE Writable(j)' \/ Readable(j)'
    BY DEF SlotInv
  <2>1. CASE Writable(j)
    <3>1. seq[j] # dequeue
      BY <1>1, <1>2, <2>1 DEF Writable
    <3> QED BY <1>1, <1>3, <2>1, <3>1 DEF Writable
  <2>2. CASE Readable(j)
    BY <1>3, <2>2 DEF Readable
  <2> QED BY <2>1, <2>2 DEF IInv, SlotInv
<1>7. ProducerInv' /\ OwnersInv'
  <2>1. \A p \in Producers : pc'[p] = pc[p]
    BY <1>3, ThreadAssumption DEF Threads
  <2> QED BY <1>3, <2>1 DEF IInv, ProducerInv, OwnersInv, Owns
<1>8. ConsumerInv'
  <2> SUFFICES ASSUME NEW d \in Consumers PROVE ConsumerInv!(d)'
    BY DEF ConsumerInv
  <2>1. CASE d = c
    <3>1. data[Slot(dequeue)] = log[dequeue + 1]
      BY <1>1, <1>2 DEF IInv, DataInv
    <3> QED BY <1>1, <1>2, <1>3, <2>1, <3>1 DEF Owns
  <2>2. CASE d # c
    BY <1>1, <1>3, <2>2 DEF IInv, ConsumerInv, Owns, Threads
  <2> QED BY <2>1, <2>2
<1>9. DataInv'
  BY <1>1, <1>3 DEF IInv, DataInv
<1>10. DeliveredOnce'
  <2> DEFINE R == {r.pos : r \in popped}
             H == {pos[d] : d \in {e \in Consumers : Owns(e)}}
  <2>1. \A d \in Consumers : Owns(d)' <=> (Owns(d) \/ d = c)
    BY <1>3 DEF Owns, Threads
  <2>2. {pos'[d] : d \in {e \in Consumers : Owns(e)'}} = H \cup {dequeue}
    BY <1>3, <2>1
  <2>3. R \cup H = 0 .. (dequeue - 1)
    BY DEF IInv, DeliveredOnce
  <2>4. (R \cup H) \cup {dequeue} = 0 .. dequeue
    <3> HIDE DEF R, H
    <3> QED BY <1>1, <2>3
  <2>5. \A r \in popped : r.pos # dequeue
    <3>1. \A r \in popped : r.pos \in R
      OBVIOUS
    <3> HIDE DEF R, H
    <3> QED BY <1>1, <2>3, <3>1
  <2>6. \A d \in Consumers : Owns(d) => pos[d] # dequeue
    BY <1>1 DEF IInv, ConsumerInv
  <2>7. {r.pos : r \in popped'} \cup {pos'[d] : d \in {e \in Consumers : Owns(e)'}}
          = 0 .. (dequeue' - 1)
    <3>1. dequeue' - 1 = dequeue
      BY <1>1, <1>3
    <3> QED BY <1>3, <2>2, <2>4, <3>1
  <2> QED BY <1>3, <2>1, <2>5, <2>6, <2>7 DEF IInv, DeliveredOnce
<1>11. PoppedWasPushed'
  BY <1>3 DEF IInv, PoppedWasPushed
<1> QED BY <1>4, <1>5, <1>6, <1>7, <1>8, <1>9, <1>10, <1>11 DEF IInv

(* A consumer moves the element out of the slot it owns. *)
LEMMA PopMoveInv ==
  ASSUME IInv, NEW c \in Consumers, PopMove(c)
  PROVE  IInv'
<1> USE DEF PopMove, Goto
<1>1. /\ enqueue \in Nat /\ dequeue \in Nat /\ Cap \in Nat /\ Cap >= 2
      /\ dequeue <= enqueue /\ enqueue <= dequeue + Cap
      /\ \A i \in Slots : seq[i] \in Nat
      /\ \A t \in Threads : pos[t] \in Nat /\ Slot(pos[t]) \in Slots
      /\ c \in Threads
  BY CapAssumption, SlotInRing DEF IInv, TypeOK, Occupancy, Threads
<1>2. /\ Owns(c) /\ seq[Slot(pos[c])] = pos[c] + 1 /\ pos[c] < dequeue
      /\ data[Slot(pos[c])] = log[pos[c] + 1]
  BY DEF IInv, ConsumerInv, Owns
<1>3. /\ \A t \in Threads \ {c} : pc'[t] = pc[t] /\ val'[t] = val[t]
      /\ pc'[c] = "store" /\ val'[c] = log[pos[c] + 1]
      /\ \A i \in Slots \ {Slot(pos[c])} : data'[i] = data[i]
      /\ UNCHANGED <<enqueue, dequeue, seq, pos, log, popped>>
  BY <1>1, <1>2 DEF IInv, TypeOK
<1>4. \A t \in Threads : Owns(t)' <=> Owns(t)
  BY <1>2, <1>3 DEF Owns
<1>5. TypeOK'
  BY <1>1 DEF IInv, TypeOK
<1>6. Len(log') = enqueue' /\ Occupancy' /\ SlotInv'
  BY <1>3 DEF IInv, Occupancy, SlotInv, Writable, Readable
<1>7. ProducerInv' /\ OwnersInv'
  <2>1. \A p \in Producers : /\ pc'[p] = pc[p] /\ val'[p] = val[p]
                            /\ Slot(pos[p]) \in Slots
    BY <1>1, <1>3, ThreadAssumption DEF Threads
  <2>2. \A p \in Producers : Owns(p) => Slot(pos[p]) # Slot(pos[c])
    BY <1>2, OwnersApart, ThreadAssumption DEF SlotExclusive, Threads
  <2> QED BY <1>3, <2>1, <2>2 DEF IInv, ProducerInv, OwnersInv, Owns
<1>8. ConsumerInv'
  <2> SUFFICES ASSUME NEW d \in Consumers PROVE ConsumerInv!(d)'
    BY DEF ConsumerInv
  <2>1. CASE d = c
    BY <1>2, <1>3, <1>4, <2>1 DEF IInv, ConsumerInv
  <2>2. CASE d # c
    <3>1. Owns(d) => Slot(pos[d]) # Slot(pos[c])
      BY <1>2, <2>2, OwnersApart DEF SlotExclusive, Threads
    <3> QED BY <1>1, <1>3, <2>2, <3>1 DEF IInv, ConsumerInv, Owns, Threads
  <2> QED BY <2>1, <2>2
<1>9. DataInv'
  <2> SUFFICES ASSUME NEW q \in dequeue .. (enqueue - 1), seq[Slot(q)] = q + 1
               PROVE  data'[Slot(q)] = log[q + 1]
    BY <1>3 DEF DataInv
  <2>1. q \in Nat /\ Slot(q) \in Slots
    BY <1>1, SlotInRing
  <2>2. Slot(q) # Slot(pos[c])
    BY <1>1, <1>2, <2>1
  <2> QED BY <1>3, <2>1, <2>2 DEF IInv, DataInv
<1>10. DeliveredOnce' /\ PoppedWasPushed'
  <2>1. \A d \in Consumers : Owns(d)' <=> Owns(d)
    BY <1>4 DEF Threads
  <2> QED BY <1>3, <2>1 DEF IInv, DeliveredOnce, PoppedWasPushed
<1> QED BY <1>5, <1>6, <1>7, <1>8, <1>9, <1>10 DEF IInv

(* A consumer frees its slot for the next cycle. *)
LEMMA PopStoreInv ==
  ASSUME IInv, NEW c \in Consumers, PopStore(c)
  PROVE  IInv'
<1> USE DEF PopStore, Goto
<1>1. /\ enqueue \in Nat /\ dequeue \in Nat /\ Cap \in Nat /\ Cap >= 2
      /\ dequeue <= enqueue /\ enqueue <= dequeue + Cap
      /\ \A i \in Slots : seq[i] \in Nat
      /\ \A t \in Threads : pos[t] \in Nat /\ Slot(pos[t]) \in Slots
      /\ c \in Threads
  BY CapAssumption, SlotInRing DEF IInv, TypeOK, Occupancy, Threads
<1>2. /\ Owns(c) /\ seq[Slot(pos[c])] = pos[c] + 1 /\ pos[c] < dequeue
      /\ val[c] = log[pos[c] + 1]
  BY DEF IInv, ConsumerInv, Owns
<1>3. /\ \A t \in Threads \ {c} : pc'[t] = pc[t]
      /\ pc'[c] = "idle"
      /\ seq'[Slot(pos[c])] = pos[c] + Cap
      /\ \A i \in Slots \ {Slot(pos[c])} : seq'[i] = seq[i]
      /\ popped' = popped \cup {[pos |-> pos[c], val |-> val[c]]}
      /\ UNCHANGED <<enqueue, dequeue, data, pos, val, log>>
  BY <1>1 DEF IInv, TypeOK
<1>4. \A i \in Slots : seq'[i] >= seq[i]
  BY <1>1, <1>2, <1>3
<1>5. TypeOK'
  BY <1>1, <1>3 DEF IInv, TypeOK
<1>6. Len(log') = enqueue' /\ Occupancy'
  BY <1>3 DEF IInv, Occupancy
<1>7. SlotInv'
  <2> SUFFICES ASSUME NEW j \in Slots PROVE Writable(j)' \/ Readable(j)'
    BY DEF SlotInv
  <2>1. CASE j # Slot(pos[c])
    BY <1>3, <2>1 DEF IInv, SlotInv, Writable, Readable
  <2>2. CASE j = Slot(pos[c])
    <3>1. ~Writable(j)
      BY <1>1, <1>2, <2>2, SlotNext DEF Writable
    <3>2. Readable(j)
      BY <3>1 DEF IInv, SlotInv
    <3>3. enqueue <= pos[c] + Cap /\ pos[c] \in Nat
      <4>1. (pos[c] + 1) - 1 = pos[c]
        BY <1>1
      <4> QED BY <1>1, <1>2, <2>2, <3>2, <4>1 DEF Readable
    <3>4. Slot(pos[c] + Cap) = j
      BY <2>2, <3>3, SlotCycle
    <3> QED BY <1>1, <1>2, <1>3, <2>2, <3>3, <3>4 DEF Writable
  <2> QED BY <2>1, <2>2
<1>8. ProducerInv' /\ OwnersInv'
  <2>1. \A p \in Producers :
          /\ pc'[p] = pc[p] /\ pos[p] \in Nat /\ Slot(pos[p]) \in Slots
          /\ seq[Slot(pos[p])] \in Nat /\ seq'[Slot(pos[p])] \in Nat
    BY <1>1, <1>3, <1>5, ThreadAssumption DEF Threads, TypeOK
  <2>2. \A p \in Producers : Owns(p) => Slot(pos[p]) # Slot(pos[c])
    BY <1>2, OwnersApart, ThreadAssumption DEF SlotExclusive, Threads
  <2>3. OwnersInv'
    BY <1>3, <2>1 DEF IInv, OwnersInv, Owns
  <2>4. ProducerInv'
    BY <1>3, <1>4, <2>1, <2>2 DEF IInv, ProducerInv, Owns
  <2> QED BY <2>3, <2>4
<1>9. ConsumerInv'
  <2> SUFFICES ASSUME NEW d \in Consumers PROVE ConsumerInv!(d)'
    BY DEF ConsumerInv
  <2>1. CASE d = c
    BY <1>1, <1>2, <1>3, <2>1 DEF Owns
  <2>2. CASE d # c
    <3>1. Owns(d) => Slot(pos[d]) # Slot(pos[c])
      BY <1>2, <2>2, OwnersApart DEF SlotExclusive, Threads
    <3>2. /\ pc'[d] = pc[d] /\ pos[d] \in Nat /\ Slot(pos[d]) \in Slots
          /\ seq[Slot(pos[d])] \in Nat /\ seq'[Slot(pos[d])] \in Nat
      BY <1>1, <1>3, <1>5, <2>2 DEF Threads, TypeOK
    <3> QED BY <1>3, <1>4, <3>1, <3>2 DEF IInv, ConsumerInv, Owns
  <2> QED BY <2>1, <2>2
<1>10. DataInv'
  <2> SUFFICES ASSUME NEW q \in dequeue .. (enqueue - 1), seq'[Slot(q)] = q + 1
               PROVE  data[Slot(q)] = log[q + 1]
    BY <1>3 DEF DataInv
  <2>1. q \in Nat /\ Slot(q) \in Slots
    BY <1>1, SlotInRing
  <2>2. Slot(q) # Slot(pos[c])
    <3> SUFFICES ASSUME Slot(q) = Slot(pos[c]) PROVE FALSE
      OBVIOUS
    <3>1. q + 1 = pos[c] + Cap
      BY <1>3
    <3>2. pos[c] <= q /\ q < pos[c] + Cap
      BY <1>1, <2>1, <3>1
    <3>3. pos[c] = q
      BY <1>1, <2>1, <3>2, SlotUnique
    <3> QED BY <1>1, <3>1, <3>3
  <2> QED BY <1>3, <2>1, <2>2 DEF IInv, DataInv
<1>11. DeliveredOnce'
  <2> DEFINE R == {r.pos : r \in popped}
             H == {pos[d] : d \in {e \in Consumers : Owns(e)}}
             H1 == {pos[d] : d \in {e \in Consumers : Owns(e) /\ e # c}}
  <2>1. \A d \in Consumers : Owns(d)' <=> (Owns(d) /\ d # c)
    BY <1>3 DEF Owns, Threads
  <2>2. {pos'[d] : d \in {e \in Consumers : Owns(e)'}} = H1
    BY <1>3, <2>1
  <2>3. {r.pos : r \in popped'} = R \cup {pos[c]}
    <3> DEFINE n == [pos |-> pos[c], val |-> val[c]]
    <3>1. n.pos = pos[c] /\ popped' = popped \cup {n}
      BY <1>3
    <3> HIDE DEF n
    <3> QED BY <3>1
  <2>4. R \cup H = 0 .. (dequeue - 1)
    BY DEF IInv, DeliveredOnce
  <2>5. H = H1 \cup {pos[c]}
    BY <1>2
  <2>6. (R \cup {pos[c]}) \cup H1 = 0 .. (dequeue - 1)
    <3> HIDE DEF R, H, H1
    <3> QED BY <2>4, <2>5
  <2>7. \A d \in Consumers, r \in popped' : Owns(d)' => r.pos # pos[d]
    BY <1>2, <1>3, <2>1 DEF IInv, DeliveredOnce
  <2>8. dequeue' = dequeue
    BY <1>3
  <2>9. {r.pos : r \in popped'} \cup {pos'[d] : d \in {e \in Consumers : Owns(e)'}}
          = 0 .. (dequeue' - 1)
    <3> HIDE DEF R, H1
    <3> QED BY <2>2, <2>3, <2>6, <2>8
  <2> QED BY <1>3, <2>1, <2>7, <2>9 DEF IInv, DeliveredOnce
<1>12. PoppedWasPushed'
  <2>1. pos[c] < enqueue
    BY <1>1, <1>2
  <2> QED BY <1>2, <1>3, <2>1 DEF IInv, PoppedWasPushed
<1> QED BY <1>5, <1>6, <1>7, <1>8, <1>9, <1>10, <1>11, <1>12 DEF IInv

-----------------------------------------------------------------------------
(* The slot protocol of the header comment holds in every reachable state:  *)
(* each step of push() and pop() keeps it, for any number of threads and    *)
(* any capacity.                                                            *)
THEOREM MpmcRing_Protocol == Spec => []IInv
<1>1. Init => IInv
  BY InitInv
<1>2. IInv /\ [Next]_vars => IInv'
  <2> SUFFICES ASSUME IInv, [Next]_vars PROVE IInv'
    OBVIOUS
  <2>1. CASE UNCHANGED vars
    BY <2>1 DEF vars, IInv, TypeOK, Occupancy, SlotInv, Writable, Readable,
                ProducerInv, ConsumerInv, OwnersInv, DataInv, DeliveredOnce,
                PoppedWasPushed, Owns
  <2>2. CASE \E p \in Producers : PushStep(p)
    BY <2>2, PushLocal, PushCasInv, PushMoveInv, PushStoreInv DEF PushStep
  <2>3. CASE \E c \in Consumers : PopStep(c)
    BY <2>3, PopLocal, PopCasInv, PopMoveInv, PopStoreInv DEF PopStep
  <2> QED BY <2>1, <2>2, <2>3 DEF Next
<1> QED BY <1>1, <1>2, PTL DEF Spec

(* Type correctness. *)
THEOREM MpmcRing_TypeOK == Spec => []TypeOK
<1>1. IInv => TypeOK
  BY DEF IInv
<1> QED BY <1>1, MpmcRing_Protocol, PTL

(* No data race on slot.data: the code moves elements in and out of a slot  *)
(* without a lock, and no two threads ever do so on one slot at a time.     *)
THEOREM MpmcRing_SlotExclusive == Spec => []SlotExclusive
  BY OwnersApart, MpmcRing_Protocol, PTL

(* Elements are neither lost, duplicated, overwritten nor torn: what each   *)
(* successful pop() returned is what was pushed at its position, the        *)
(* positions returned are each returned once, and the cursors stay within   *)
(* one ring of each other.                                                  *)
THEOREM MpmcRing_ExactlyOnce == Spec => []ExactlyOnce
<1>1. IInv => ExactlyOnce
  BY DEF IInv, ExactlyOnce
<1> QED BY <1>1, MpmcRing_Protocol, PTL

(* A thread returns false from its sequence check only in its own step. *)
LEMMA GiveUpStep ==
  ASSUME IInv, Next, NEW t \in Threads, pc[t] = "seq", pc'[t] = "idle"
  PROVE  /\ t \in Producers => seq[Slot(pos[t])] < pos[t]
         /\ t \in Consumers => seq[Slot(pos[t])] < pos[t] + 1
<1>1. pc \in [Threads -> {"idle", "load", "seq", "cas", "move", "store"}]
  BY DEF IInv, TypeOK
<1>2. CASE \E p \in Producers : PushStep(p)
  <2> PICK p \in Producers : PushStep(p)
    BY <1>2
  <2> QED BY <1>1, ThreadAssumption
          DEF Threads, PushStep, PushCall, PushLoad, PushSeq, PushCas,
              PushCasFail, PushMove, PushStore, Goto
<1>3. CASE \E c \in Consumers : PopStep(c)
  <2> PICK c \in Consumers : PopStep(c)
    BY <1>3
  <2> QED BY <1>1, ThreadAssumption
          DEF Threads, PopStep, PopCall, PopLoad, PopSeq, PopCas,
              PopCasFail, PopMove, PopStore, Goto
<1> QED BY <1>2, <1>3 DEF Next

(* push() says "full" only with a current cursor. *)
THEOREM MpmcRing_FullIsCurrent == Spec => FullIsCurrent
<1>1. ASSUME IInv, Next, NEW p \in Producers, pc[p] = "seq", pc'[p] = "idle"
      PROVE  /\ pos[p] = enqueue
             /\ seq[Slot(enqueue)] \in {enqueue - Cap, enqueue - Cap + 1}
  <2> DEFINE i == Slot(pos[p])
             s == seq[i]
  <2>1. s < pos[p]
    BY <1>1, GiveUpStep DEF Threads
  <2>2. /\ pos[p] \in Nat /\ s \in Nat /\ enqueue \in Nat /\ dequeue \in Nat
        /\ pos[p] <= enqueue /\ enqueue <= dequeue + Cap /\ Cap \in Nat
        /\ Cap >= 2 /\ (Writable(i) \/ Readable(i))
    BY <1>1, CapAssumption, SlotInRing
       DEF IInv, TypeOK, ProducerInv, Occupancy, SlotInv, Threads
  <2>3. CASE Writable(i)
    <3>1. Slot(s) = Slot(pos[p]) /\ dequeue <= s
      BY <2>3 DEF Writable
    <3>2. ~(pos[p] < s + Cap)
      BY <2>1, <2>2, <3>1, SlotUnique
    <3> QED BY <2>1, <2>2, <3>1, <3>2
  <2>4. CASE Readable(i)
    <3>1. /\ s - 1 \in Nat /\ Slot(s - 1) = Slot(pos[p])
          /\ enqueue <= (s - 1) + Cap
      BY <2>2, <2>4 DEF Readable
    <3>2. ~(pos[p] < (s - 1) + Cap)
      BY <2>1, <2>2, <3>1, SlotUnique
    <3> QED BY <2>1, <2>2, <3>1, <3>2
  <2> QED BY <2>2, <2>3, <2>4
<1>2. IInv /\ [Next]_vars =>
        [\A p \in Producers :
           pc[p] = "seq" /\ pc'[p] = "idle"
             => /\ pos[p] = enqueue
                /\ seq[Slot(enqueue)] \in {enqueue - Cap, enqueue - Cap + 1}]_vars
  BY <1>1
<1> QED BY <1>2, MpmcRing_Protocol, PTL DEF Spec, FullIsCurrent

(* pop() says "empty" only with a current cursor. *)
THEOREM MpmcRing_EmptyIsCurrent == Spec => EmptyIsCurrent
<1>1. ASSUME IInv, Next, NEW c \in Consumers, pc[c] = "seq", pc'[c] = "idle"
      PROVE  /\ pos[c] = dequeue
             /\ seq[Slot(dequeue)] \in {dequeue - Cap + 1, dequeue}
  <2> DEFINE i == Slot(pos[c])
             s == seq[i]
  <2>1. s < pos[c] + 1
    BY <1>1, GiveUpStep DEF Threads
  <2>2. /\ pos[c] \in Nat /\ s \in Nat /\ enqueue \in Nat /\ dequeue \in Nat
        /\ pos[c] <= dequeue /\ dequeue <= enqueue /\ Cap \in Nat
        /\ Cap >= 2 /\ (Writable(i) \/ Readable(i))
    BY <1>1, CapAssumption, SlotInRing
       DEF IInv, TypeOK, ConsumerInv, Occupancy, SlotInv, Threads
  <2>3. CASE Writable(i)
    BY <2>1, <2>2, <2>3 DEF Writable
  <2>4. CASE Readable(i)
    <3>1. /\ s - 1 \in Nat /\ Slot(s - 1) = Slot(pos[c])
          /\ enqueue <= (s - 1) + Cap
      BY <2>2, <2>4 DEF Readable
    <3>2. ~(pos[c] < (s - 1) + Cap)
      BY <2>1, <2>2, <3>1, SlotUnique
    <3> QED BY <2>1, <2>2, <3>1, <3>2
  <2> QED BY <2>2, <2>3, <2>4
<1>2. IInv /\ [Next]_vars =>
        [\A c \in Consumers :
           pc[c] = "seq" /\ pc'[c] = "idle"
             => /\ pos[c] = dequeue
                /\ seq[Slot(dequeue)] \in {dequeue - Cap + 1, dequeue}]_vars
  BY <1>1
<1> QED BY <1>2, MpmcRing_Protocol, PTL DEF Spec, EmptyIsCurrent

(* Both answers of "false" together: the code's retry on a stale cursor is  *)
(* what makes them true.                                                    *)
THEOREM MpmcRing_HonestAnswers == Spec => HonestAnswers
  BY MpmcRing_FullIsCurrent, MpmcRing_EmptyIsCurrent DEF HonestAnswers

(* Refinement: the ring is a bounded first-in first-out queue.  Only the    *)
(* two successful exchanges change what a client can observe.               *)
THEOREM MpmcRing_Refinement == Spec => ImplementsFifo
<1>1. Init => Fifo!Init
  BY DEF Init, Fifo!Init
<1>2. IInv /\ [Next]_vars => [Fifo!Next]_<<log, dequeue>>
  <2> SUFFICES ASSUME IInv, [Next]_vars
               PROVE  [Fifo!Next]_<<log, dequeue>>
    OBVIOUS
  <2>1. CASE UNCHANGED vars
    BY <2>1 DEF vars
  <2>2. ASSUME NEW p \in Producers, PushStep(p)
        PROVE  [Fifo!Next]_<<log, dequeue>>
    <3>1. CASE PushCas(p)
      <4>1. enqueue < dequeue + Cap
        BY <3>1, ClaimForWrite DEF PushCas, Goto
      <4>2. val[p] \in Values /\ Len(log) = enqueue
        BY <3>1 DEF IInv, ProducerInv, PushCas, Goto
      <4> QED BY <3>1, <4>1, <4>2 DEF PushCas, Fifo!Next, Fifo!Put
    <3>2. CASE ~PushCas(p)
      BY <2>2, <3>2 DEF PushStep, PushCall, PushLoad, PushSeq, PushCasFail,
                        PushMove, PushStore
    <3> QED BY <3>1, <3>2
  <2>3. ASSUME NEW c \in Consumers, PopStep(c)
        PROVE  [Fifo!Next]_<<log, dequeue>>
    <3>1. CASE PopCas(c)
      <4>1. dequeue < enqueue
        BY <3>1, ClaimForRead DEF PopCas, Goto
      <4>2. Len(log) = enqueue
        BY DEF IInv
      <4> QED BY <3>1, <4>1, <4>2 DEF PopCas, Fifo!Next, Fifo!Take
    <3>2. CASE ~PopCas(c)
      BY <2>3, <3>2 DEF PopStep, PopCall, PopLoad, PopSeq, PopCasFail,
                        PopMove, PopStore
    <3> QED BY <3>1, <3>2
  <2> QED BY <2>1, <2>2, <2>3 DEF Next
<1> QED BY <1>1, <1>2, MpmcRing_Protocol, PTL DEF Spec, ImplementsFifo, Fifo!Spec

-----------------------------------------------------------------------------
(* EventBus. *)

(* The producers at the control points S, and how many they are.            *)
At(S) == {p \in Producers : bpc[p] \in S}
N(S)  == Cardinality(At(S))

InCall   == {"submit", "drop3", "push", "published", "full"}
InSubmit == {"submit", "drop3"}

(* What a producer has in hand, as the ring will hold it.                   *)
Batch(p) == [call |-> call[p], sink |-> target[p]]

(* The batches that the sink their call loaded has, or refused.             *)
Known ==
  {e \in [call : 1 .. MaxCalls, sink : Values \cup {NoValue}] :
     e.sink # NoValue => e.call \in lost \/ \E i \in 1 .. Len(blog[e.sink]) : blog[e.sink][i] = e.call}

(* Batches are numbered by their calls, and a call runs in one thread.      *)
CallInv ==
  /\ calls \in 0 .. MaxCalls /\ resets \in Nat /\ lost \subseteq 1 .. calls
  /\ blog \in [Values -> Seq(Nat)]
  /\ \A p \in At(InCall) : call[p] >= 1
  /\ \A p, q \in At(InCall) : p # q => call[p] # call[q]
  /\ \A p \in At({"submit"}) : target[p] # NoValue /\ call[p] \notin lost

(* Past the sink, a batch is known to it.                                   *)
OfferInv ==
  /\ \A p \in At({"drop3"}) : call[p] \in lost
  /\ \A p \in At({"push"}) : Batch(p) \in Known
  /\ tier2 \in Seq(Known) /\ taken \in Seq(Known)

(* How many calls run, are between the two tiers, and have not been counted *)
(* as put or as refused yet.                                                *)
nCall == N(InCall)
nSub  == N(InSubmit)
nPut  == N({"published"})
nRef  == N({"drop3"})

(* The counters together with the calls that have not reached them yet.     *)
CountInv ==
  /\ IsFiniteSet(At(InCall)) /\ IsFiniteSet(popping)
  /\ resets = 0 => /\ published + nPut = Len(tier2) + Len(taken)
                   /\ published + dropped + nCall = calls
                   /\ tier3Drops + nRef = Cardinality(lost)
  /\ published + nCall <= recent /\ recent <= calls
  /\ rpc # "dropped" => published + dropped + nCall <= recent
  /\ IF rpc = "idle" THEN tier3Drops + nSub <= recent ELSE resets # 0
  /\ dropped + nCall <= calls /\ tier3Drops + nSub <= calls

BusInv == Bus!TypeOK /\ CallInv /\ OfferInv /\ CountInv

States == InCall \cup {"idle"}

(* The numbers are numbers. *)
Numbers ==
  /\ nCall \in Nat /\ nSub \in Nat /\ nPut \in Nat /\ nRef \in Nat
  /\ nSub <= nCall /\ nPut <= nCall /\ nRef <= nCall
  /\ published \in Nat /\ dropped \in Nat /\ tier3Drops \in Nat /\ recent \in Nat
  /\ calls \in Nat /\ calls <= MaxCalls /\ MaxCalls \in Nat /\ resets \in Nat
  /\ Len(tier2) \in Nat /\ Len(taken) \in Nat /\ Cardinality(lost) \in Nat

-----------------------------------------------------------------------------
(* Counting the producers at a set of control points. *)

(* One producer moves: it leaves or enters the set, or neither.             *)
LEMMA OneMoves ==
  ASSUME bpc \in [Producers -> States], NEW p \in Producers, NEW b,
         bpc' = [bpc EXCEPT ![p] = b], NEW S, IsFiniteSet(At(S))
  PROVE  /\ IsFiniteSet(At(S)')
         /\ b \in S /\ bpc[p] \notin S => N(S)' = N(S) + 1
         /\ b \notin S /\ bpc[p] \in S => N(S)' = N(S) - 1
         /\ (b \in S <=> bpc[p] \in S) => N(S)' = N(S)
<1>1. CASE b \in S
  <2>1. At(S)' = At(S) \cup {p}
    BY <1>1 DEF At
  <2>2. p \in At(S) <=> bpc[p] \in S
    BY DEF At
  <2> QED BY <1>1, <2>1, <2>2, FS_AddElement DEF N
<1>2. CASE b \notin S
  <2>1. At(S)' = At(S) \ {p}
    BY <1>2 DEF At
  <2>2. p \in At(S) <=> bpc[p] \in S
    BY DEF At
  <2> QED BY <1>2, <2>1, <2>2, FS_RemoveElement DEF N
<1> QED BY <1>1, <1>2

(* A part of the running calls can be counted and is not more than all.     *)
LEMMA PartCounted ==
  ASSUME IsFiniteSet(At(InCall)), NEW S, S \subseteq InCall
  PROVE  IsFiniteSet(At(S)) /\ N(S) \in Nat /\ N(S) <= N(InCall)
<1>1. At(S) \in SUBSET At(InCall)
  BY DEF At
<1>2. IsFiniteSet(At(S)) /\ Cardinality(At(S)) <= Cardinality(At(InCall))
  BY <1>1, FS_Subset
<1> QED BY <1>2, FS_CardinalityType DEF N

LEMMA BusFacts ==
  ASSUME BusInv
  PROVE  /\ bpc \in [Producers -> States] /\ IsFiniteSet(lost) /\ Numbers
         /\ IsFiniteSet(At(InCall)) /\ IsFiniteSet(At(InSubmit))
         /\ IsFiniteSet(At({"published"})) /\ IsFiniteSet(At({"drop3"}))
<1>1. InSubmit \subseteq InCall /\ {"published"} \subseteq InCall /\ {"drop3"} \subseteq InCall
  BY DEF InSubmit, InCall
<1>2. IsFiniteSet(At(InCall)) /\ nCall \in Nat
  BY PartCounted DEF BusInv, CountInv, nCall
<1>3. /\ IsFiniteSet(At(InSubmit)) /\ nSub \in Nat /\ nSub <= nCall
      /\ IsFiniteSet(At({"published"})) /\ nPut \in Nat /\ nPut <= nCall
      /\ IsFiniteSet(At({"drop3"})) /\ nRef \in Nat /\ nRef <= nCall
  BY <1>1, <1>2, PartCounted DEF nCall, nSub, nPut, nRef
<1>4. calls \in Nat /\ calls <= MaxCalls /\ MaxCalls \in Nat /\ resets \in Nat
  BY BusAssumption DEF BusInv, CallInv
<1>5. published \in Nat /\ dropped \in Nat /\ tier3Drops \in Nat /\ recent \in Nat
  BY <1>4 DEF BusInv, Bus!TypeOK
<1>6. bpc \in [Producers -> States]
  BY DEF BusInv, Bus!TypeOK, States, InCall
<1>7. Len(tier2) \in Nat /\ Len(taken) \in Nat
  BY DEF BusInv, OfferInv
<1>8. IsFiniteSet(lost) /\ Cardinality(lost) \in Nat
  <2>1. IsFiniteSet(1 .. calls)
    BY <1>4, FS_Interval
  <2>2. lost \subseteq 1 .. calls
    BY DEF BusInv, CallInv
  <2> QED BY <2>1, <2>2, FS_Subset, FS_CardinalityType
<1> QED BY <1>2, <1>3, <1>4, <1>5, <1>6, <1>7, <1>8 DEF Numbers

(* How the four counts follow a producer that goes from a to b.             *)
One(x, S) == IF x \in S THEN 1 ELSE 0

CountsGo(a, b) ==
  /\ IsFiniteSet(At(InCall)')
  /\ nCall' = nCall + One(b, InCall) - One(a, InCall)
  /\ nSub' = nSub + One(b, InSubmit) - One(a, InSubmit)
  /\ nPut' = nPut + One(b, {"published"}) - One(a, {"published"})
  /\ nRef' = nRef + One(b, {"drop3"}) - One(a, {"drop3"})

(* The four counts after producer p has gone to the control point b.        *)
LEMMA CountsMove ==
  ASSUME BusInv, NEW p \in Producers, NEW b \in States, bpc' = [bpc EXCEPT ![p] = b]
  PROVE  CountsGo(bpc[p], b)
<1>1. ASSUME NEW S, IsFiniteSet(At(S)), N(S) \in Nat
      PROVE  IsFiniteSet(At(S)') /\ N(S)' = N(S) + One(b, S) - One(bpc[p], S)
  <2>1. bpc \in [Producers -> States]
    BY BusFacts
  <2>2. /\ IsFiniteSet(At(S)')
        /\ b \in S /\ bpc[p] \notin S => N(S)' = N(S) + 1
        /\ b \notin S /\ bpc[p] \in S => N(S)' = N(S) - 1
        /\ (b \in S <=> bpc[p] \in S) => N(S)' = N(S)
    BY <1>1, <2>1, OneMoves
  <2> QED BY <1>1, <2>2 DEF One
<1>2. /\ IsFiniteSet(At(InCall)) /\ IsFiniteSet(At(InSubmit))
      /\ IsFiniteSet(At({"published"})) /\ IsFiniteSet(At({"drop3"}))
      /\ N(InCall) \in Nat /\ N(InSubmit) \in Nat /\ N({"published"}) \in Nat /\ N({"drop3"}) \in Nat
  BY BusFacts DEF Numbers, nCall, nSub, nPut, nRef
<1>3. /\ IsFiniteSet(At(InCall)')
      /\ N(InCall)' = N(InCall) + One(b, InCall) - One(bpc[p], InCall)
      /\ N(InSubmit)' = N(InSubmit) + One(b, InSubmit) - One(bpc[p], InSubmit)
      /\ N({"published"})' = N({"published"}) + One(b, {"published"}) - One(bpc[p], {"published"})
      /\ N({"drop3"})' = N({"drop3"}) + One(b, {"drop3"}) - One(bpc[p], {"drop3"})
  BY <1>1, <1>2
<1> QED BY <1>3 DEF CountsGo, nCall, nSub, nPut, nRef

(* A step that moves no producer leaves the counts alone.                   *)
LEMMA NobodyMoves ==
  ASSUME bpc' = bpc
  PROVE  /\ At(InCall)' = At(InCall) /\ At({"submit"})' = At({"submit"})
         /\ At({"push"})' = At({"push"}) /\ At({"drop3"})' = At({"drop3"})
         /\ nCall' = nCall /\ nSub' = nSub /\ nPut' = nPut /\ nRef' = nRef
  BY DEF At, N, nCall, nSub, nPut, nRef, InCall, InSubmit

(* Once known, a batch stays known. *)
LEMMA KnownKept ==
  ASSUME UNCHANGED blog, lost \subseteq lost'
  PROVE  Known \subseteq Known'
  BY DEF Known

(* A sequence over a set is one over every larger set. *)
LEMMA SeqWidens ==
  ASSUME NEW S, NEW T, S \subseteq T, NEW x \in Seq(S)
  PROVE  x \in Seq(T)
  OBVIOUS

(* A producer between the tiers, and one that runs, is counted. *)
LEMMA MemberCounted ==
  ASSUME BusInv, NEW p \in Producers
  PROVE  /\ bpc[p] \in InSubmit => nSub >= 1
         /\ bpc[p] \in InCall => nCall >= 1
<1>1. ASSUME NEW S, IsFiniteSet(At(S)), bpc[p] \in S PROVE N(S) >= 1
  <2>1. p \in At(S)
    BY <1>1 DEF At
  <2>2. Cardinality(At(S)) \in Nat /\ Cardinality(At(S)) # 0
    BY <1>1, <2>1, FS_CardinalityType, FS_EmptySet
  <2> QED BY <2>2 DEF N
<1> QED BY <1>1, BusFacts DEF nSub, nCall

(* The instance's own copy of FiniteSets counts as FiniteSets does. *)
LEMMA SameCardinality == \A S : Bus!Cardinality(S) = Cardinality(S)
  BY DEF Cardinality, Bus!Cardinality, IsFiniteSet, Bus!IsFiniteSet, ExistsBijection, Bus!ExistsBijection

LEMMA BusInitInv == Bus!Init => BusInv
<1> SUFFICES ASSUME Bus!Init PROVE BusInv
  OBVIOUS
<1>1. \A S : S \subseteq InCall => At(S) = {} /\ N(S) = 0
  BY FS_EmptySet DEF At, N, InCall, Bus!Init
<1>2. Bus!TypeOK
  <2>1. Len(tier2) + Cardinality(popping) <= BusCapacity /\ popping \subseteq Consumers
    BY FS_EmptySet, BusAssumption DEF Bus!Init
  <2>2. queued \in [Values -> 0 .. SinkCapacity] /\ call \in [Producers -> 0 .. calls]
    BY BusAssumption DEF Bus!Init
  <2>3. target \in [Producers -> Values \cup {NoValue}] /\ sink \in Values \cup {NoValue}
    BY DEF Bus!Init
  <2>4. bpc \in [Producers -> {"idle", "submit", "drop3", "push", "published", "full"}]
    BY DEF Bus!Init
  <2>5. tier2 \in Seq([call : 1 .. MaxCalls, sink : Values \cup {NoValue}])
    BY DEF Bus!Init
  <2>6. /\ published \in 0 .. calls /\ dropped \in 0 .. calls /\ tier3Drops \in 0 .. calls
        /\ recent \in 0 .. calls /\ rpc \in {"idle", "dropped", "tier3"}
    BY DEF Bus!Init
  <2> QED BY <2>1, <2>2, <2>3, <2>4, <2>5, <2>6, SameCardinality DEF Bus!TypeOK
<1>3. CallInv
  BY <1>1, BusAssumption DEF CallInv, InCall, Bus!Init
<1>4. OfferInv
  <2>1. At({"drop3"}) = {} /\ At({"push"}) = {}
    BY <1>1 DEF InCall
  <2>2. tier2 \in Seq(Known) /\ taken \in Seq(Known)
    BY DEF Bus!Init
  <2> QED BY <2>1, <2>2 DEF OfferInv
<1>5. CountInv
  <2>1. nCall = 0 /\ nSub = 0 /\ nPut = 0 /\ nRef = 0
    BY <1>1 DEF InCall, InSubmit, nCall, nSub, nPut, nRef
  <2>2. IsFiniteSet(At(InCall))
    BY <1>1, FS_EmptySet
  <2> QED BY <2>1, <2>2, FS_EmptySet DEF CountInv, Bus!Init
<1> QED BY <1>2, <1>3, <1>4, <1>5 DEF BusInv

-----------------------------------------------------------------------------
(* publish(), step by step. *)
LEMMA PublishCallInv ==
  ASSUME BusInv, NEW p \in Producers, Bus!PublishCall(p)
  PROVE  BusInv'
<1> DEFINE s == IF EnableTier3 THEN sink ELSE NoValue
           b == IF s = NoValue THEN "push" ELSE "submit"
<1>0. bpc \in [Producers -> States] /\ Numbers
  BY BusFacts
<1>1. /\ calls < MaxCalls /\ calls' = calls + 1 /\ recent' = recent + 1
      /\ call' = [call EXCEPT ![p] = calls + 1] /\ target' = [target EXCEPT ![p] = s]
      /\ bpc[p] = "idle" /\ bpc' = [bpc EXCEPT ![p] = b]
      /\ UNCHANGED <<tier2, popping, sink, queued, published, dropped, tier3Drops, rpc, resets,
                     taken, blog, lost>>
  BY DEF Bus!PublishCall, Bus!Goto, Bus!busVars, Bus!statVars
<1>2. s \in Values \cup {NoValue} /\ b \in {"push", "submit"} /\ (b = "submit" <=> s # NoValue)
  BY DEF BusInv, Bus!TypeOK
<1> HIDE DEF s, b
<1>3. \A q \in Producers : call[q] \in Nat /\ call[q] <= calls
  BY <1>0 DEF BusInv, Bus!TypeOK, Numbers
<1>4. /\ bpc'[p] = b /\ call'[p] = calls + 1 /\ target'[p] = s
      /\ \A q \in Producers \ {p} : bpc'[q] = bpc[q] /\ call'[q] = call[q] /\ target'[q] = target[q]
  BY <1>1 DEF BusInv, Bus!TypeOK
<1>5. Bus!TypeOK'
  <2>1. published' \in 0 .. calls' /\ dropped' \in 0 .. calls' /\ tier3Drops' \in 0 .. calls'
        /\ recent' \in 0 .. calls'
    <3>1. published \in 0 .. calls /\ dropped \in 0 .. calls /\ tier3Drops \in 0 .. calls
          /\ recent \in 0 .. calls
      BY DEF BusInv, Bus!TypeOK
    <3> QED BY <1>0, <1>1, <3>1 DEF Numbers
  <2>2. call' \in [Producers -> 0 .. calls']
    <3>1. \A q \in Producers : call'[q] \in 0 .. calls + 1
      BY <1>0, <1>3, <1>4 DEF Numbers
    <3>2. call' = [q \in Producers |-> call'[q]]
      BY <1>1 DEF BusInv, Bus!TypeOK
    <3> QED BY <1>1, <3>1, <3>2
  <2>3. target' \in [Producers -> Values \cup {NoValue}]
    BY <1>1, <1>2 DEF BusInv, Bus!TypeOK
  <2>4. bpc' \in [Producers -> {"idle", "submit", "drop3", "push", "published", "full"}]
    BY <1>1, <1>2 DEF BusInv, Bus!TypeOK
  <2> QED BY <1>1, <2>1, <2>2, <2>3, <2>4 DEF BusInv, Bus!TypeOK
<1>6. CallInv'
  <2>2. calls' \in 0 .. MaxCalls /\ resets' \in Nat /\ lost' \subseteq 1 .. calls'
    BY <1>0, <1>1 DEF BusInv, CallInv, Numbers
  <2>3. \A q \in Producers : q \in At(InCall)' => q = p \/ q \in At(InCall)
    BY <1>4 DEF At
  <2>4. \A q \in At(InCall)' : call'[q] >= 1
    BY <1>0, <1>4, <2>3 DEF BusInv, CallInv, At, Numbers
  <2>5. \A q, t \in At(InCall)' : q # t => call'[q] # call'[t]
    BY <1>0, <1>3, <1>4, <2>3 DEF BusInv, CallInv, At, Numbers
  <2>6. \A q \in At({"submit"})' : target'[q] # NoValue /\ call'[q] \notin lost'
    <3>1. lost' = lost /\ calls + 1 \notin lost
      BY <1>0, <1>1 DEF BusInv, CallInv, Numbers
    <3> QED BY <1>2, <1>4, <3>1 DEF BusInv, CallInv, At
  <2> QED BY <1>1, <2>2, <2>4, <2>5, <2>6 DEF BusInv, CallInv
<1>7. OfferInv'
  <2>1. \A q \in At({"drop3"})' : call'[q] \in lost'
    BY <1>1, <1>2, <1>4 DEF BusInv, OfferInv, At
  <2>2. Known' = Known
    BY <1>1 DEF Known
  <2>3. \A q \in At({"push"})' : Batch(q)' \in Known
    <3> SUFFICES ASSUME NEW q \in Producers, bpc'[q] = "push" PROVE Batch(q)' \in Known
      BY DEF At
    <3>1. CASE q = p
      <4>1. Batch(q)' = [call |-> calls + 1, sink |-> NoValue] /\ calls + 1 \in 1 .. MaxCalls
        BY <1>0, <1>1, <1>2, <1>4, <3>1 DEF Batch, Numbers
      <4> QED BY <4>1 DEF Known
    <3>2. CASE q # p
      <4>1. q \in At({"push"}) /\ Batch(q)' = Batch(q)
        BY <1>4, <3>2 DEF At, Batch
      <4> QED BY <4>1 DEF BusInv, OfferInv
    <3> QED BY <3>1, <3>2
  <2> QED BY <1>1, <2>1, <2>2, <2>3 DEF BusInv, OfferInv
<1>8. CountInv'
  <2>1. /\ IsFiniteSet(At(InCall)') /\ nCall' = nCall + 1 /\ nPut' = nPut /\ nRef' = nRef
        /\ nSub' = nSub \/ nSub' = nSub + 1
    <3>1. b \in States
      BY <1>2 DEF States, InCall
    <3>2. CountsGo("idle", b)
      BY <1>1, <3>1, CountsMove
    <3> QED BY <1>0, <1>2, <3>2 DEF CountsGo, One, InCall, InSubmit, Numbers
  <2>2. CountInv
    BY DEF BusInv
  <2> QED BY <1>0, <1>1, <2>1, <2>2 DEF CountInv, Numbers
<1> QED BY <1>5, <1>6, <1>7, <1>8 DEF BusInv

(* submit() of the loaded sink: it takes the batch or refuses it.           *)
LEMMA SubmitOkInv ==
  ASSUME BusInv, NEW p \in Producers, Bus!Submit(p), queued[target[p]] < SinkCapacity
  PROVE  BusInv'
<1>0. bpc \in [Producers -> States] /\ Numbers
  BY BusFacts
<1>1. /\ bpc[p] = "submit" /\ bpc' = [bpc EXCEPT ![p] = "push"]
      /\ queued' = [queued EXCEPT ![target[p]] = queued[target[p]] + 1]
      /\ blog' = [blog EXCEPT ![target[p]] = Append(blog[target[p]], call[p])]
      /\ UNCHANGED <<tier2, popping, sink, published, dropped, tier3Drops, rpc, call, target, calls,
                     resets, taken, lost, recent>>
  BY DEF Bus!Submit, Bus!Goto, Bus!statVars
<1>2. PICK s \in Values : s = target[p]
  <2>1. p \in At({"submit"})
    BY <1>1 DEF At
  <2> QED BY <2>1 DEF BusInv, CallInv, Bus!TypeOK
<1>3. PICK n \in 1 .. calls : n = call[p]
  <2>1. call[p] >= 1
    BY <1>1 DEF BusInv, CallInv, At, InCall
  <2>2. call[p] \in 0 .. calls
    BY DEF BusInv, Bus!TypeOK
  <2> QED BY <1>0, <2>1, <2>2 DEF Numbers
<1>4. bpc'[p] = "push" /\ \A q \in Producers \ {p} : bpc'[q] = bpc[q]
  BY <1>0, <1>1
<1>5. Bus!TypeOK'
  <2>1. queued' \in [Values -> 0 .. SinkCapacity]
    <3>1. queued[s] \in 0 .. SinkCapacity /\ SinkCapacity \in Nat /\ queued[s] < SinkCapacity
      BY <1>2, BusAssumption DEF BusInv, Bus!TypeOK
    <3>2. queued[s] + 1 \in 0 .. SinkCapacity /\ queued' = [queued EXCEPT ![s] = queued[s] + 1]
      BY <1>1, <1>2, <3>1
    <3> QED BY <3>2 DEF BusInv, Bus!TypeOK
  <2>2. bpc' \in [Producers -> {"idle", "submit", "drop3", "push", "published", "full"}]
    BY <1>1 DEF BusInv, Bus!TypeOK
  <2> QED BY <1>1, <2>1, <2>2 DEF BusInv, Bus!TypeOK
<1>6. /\ blog' \in [Values -> Seq(Nat)]
      /\ \A t \in Values : t # s => blog'[t] = blog[t]
      /\ blog[s] \in Seq(Nat) /\ blog'[s] = Append(blog[s], n)
  <2>1. blog \in [Values -> Seq(Nat)] /\ n \in Nat /\ blog' = [blog EXCEPT ![s] = Append(blog[s], n)]
    BY <1>0, <1>1, <1>2, <1>3 DEF BusInv, CallInv, Numbers
  <2>2. blog[s] \in Seq(Nat) /\ Append(blog[s], n) \in Seq(Nat)
    BY <2>1
  <2> QED BY <2>1, <2>2
<1>7. CallInv'
  <2>1. At(InCall)' = At(InCall)
    BY <1>1, <1>4 DEF At, InCall
  <2>2. \A q \in At({"submit"})' : q \in At({"submit"})
    BY <1>4 DEF At
  <2> QED BY <1>1, <1>6, <2>1, <2>2 DEF BusInv, CallInv
<1>8. /\ \A i \in 1 .. Len(blog[s]) : i \in 1 .. Len(blog'[s]) /\ blog'[s][i] = blog[s][i]
      /\ Len(blog[s]) + 1 \in 1 .. Len(blog'[s]) /\ blog'[s][Len(blog[s]) + 1] = n
  BY <1>3, <1>6
<1>9. Known \subseteq Known' /\ [call |-> n, sink |-> s] \in Known'
  <2>1. ASSUME NEW e \in Known PROVE e \in Known'
    <3>1. CASE e.sink = s
      BY <1>1, <1>8, <2>1, <3>1 DEF Known
    <3>2. CASE e.sink # s
      BY <1>1, <1>6, <2>1, <3>2 DEF Known
    <3> QED BY <3>1, <3>2
  <2>2. n \in 1 .. MaxCalls
    BY <1>0, <1>3 DEF Numbers
  <2>3. [call |-> n, sink |-> s] \in Known'
    BY <1>8, <2>2 DEF Known
  <2> QED BY <2>1, <2>3
<1>10. OfferInv'
  <2>1. \A q \in At({"drop3"})' : call'[q] \in lost'
    BY <1>1, <1>4 DEF BusInv, OfferInv, At
  <2>2. ASSUME NEW q \in At({"push"})' PROVE Batch(q)' \in Known'
    <3>0. q \in Producers /\ bpc'[q] = "push" /\ Batch(q)' = Batch(q)
      BY <1>1 DEF At, Batch
    <3>1. CASE q = p
      BY <1>2, <1>3, <1>9, <3>0, <3>1 DEF Batch
    <3>2. CASE q # p
      <4>1. q \in At({"push"})
        BY <1>4, <3>0, <3>2 DEF At
      <4> QED BY <1>9, <3>0, <4>1 DEF BusInv, OfferInv
    <3> QED BY <3>1, <3>2
  <2>3. tier2' \in Seq(Known') /\ taken' \in Seq(Known')
    BY <1>1, <1>9, SeqWidens DEF BusInv, OfferInv
  <2> QED BY <2>1, <2>2, <2>3 DEF OfferInv
<1>11. CountInv'
  <2>1. /\ IsFiniteSet(At(InCall)') /\ nCall' = nCall /\ nPut' = nPut /\ nRef' = nRef
        /\ nSub' = nSub - 1
    <3>1. "push" \in States
      BY DEF States, InCall
    <3>2. CountsGo("submit", "push")
      BY <1>1, <3>1, CountsMove
    <3> QED BY <1>0, <3>2 DEF CountsGo, One, InCall, InSubmit, Numbers
  <2>2. CountInv
    BY DEF BusInv
  <2> QED BY <1>0, <1>1, <2>1, <2>2 DEF CountInv, Numbers
<1> QED BY <1>5, <1>7, <1>10, <1>11 DEF BusInv

LEMMA SubmitRefusedInv ==
  ASSUME BusInv, NEW p \in Producers, Bus!Submit(p), ~(queued[target[p]] < SinkCapacity)
  PROVE  BusInv'
<1>0. bpc \in [Producers -> States] /\ Numbers
  BY BusFacts
<1>1. /\ bpc[p] = "submit" /\ bpc' = [bpc EXCEPT ![p] = "drop3"]
      /\ lost' = lost \cup {call[p]}
      /\ UNCHANGED <<tier2, popping, sink, queued, published, dropped, tier3Drops, rpc, call, target,
                     calls, resets, taken, blog, recent>>
  BY DEF Bus!Submit, Bus!Goto, Bus!statVars
<1>2. bpc'[p] = "drop3" /\ \A q \in Producers \ {p} : bpc'[q] = bpc[q]
  BY <1>0, <1>1
<1>3. p \in At({"submit"}) /\ p \in At(InCall)
  BY <1>1 DEF At, InCall
<1>4. call[p] \notin lost /\ call[p] \in 1 .. calls
  <2>1. call[p] >= 1 /\ call[p] \notin lost
    BY <1>3 DEF BusInv, CallInv
  <2>2. call[p] \in 0 .. calls
    BY DEF BusInv, Bus!TypeOK
  <2> QED BY <1>0, <2>1, <2>2 DEF Numbers
<1>5. Bus!TypeOK'
  <2>1. bpc' \in [Producers -> {"idle", "submit", "drop3", "push", "published", "full"}]
    BY <1>1 DEF BusInv, Bus!TypeOK
  <2> QED BY <1>1, <2>1 DEF BusInv, Bus!TypeOK
<1>6. CallInv'
  <2>1. At(InCall)' = At(InCall)
    BY <1>1, <1>2 DEF At, InCall
  <2>2. \A q \in At({"submit"})' : q \in At({"submit"}) /\ q # p /\ q \in At(InCall)
    BY <1>2 DEF At, InCall
  <2>3. \A q \in At({"submit"})' : target'[q] # NoValue /\ call'[q] \notin lost'
    BY <1>1, <1>3, <2>2 DEF BusInv, CallInv
  <2>4. lost' \subseteq 1 .. calls'
    BY <1>1, <1>4 DEF BusInv, CallInv
  <2> QED BY <1>1, <2>1, <2>3, <2>4 DEF BusInv, CallInv
<1>7. OfferInv'
  <2>1. \A q \in At({"drop3"})' : call'[q] \in lost'
    BY <1>1, <1>2 DEF BusInv, OfferInv, At
  <2>2. Known \subseteq Known'
    BY <1>1, KnownKept
  <2>3. ASSUME NEW q \in At({"push"})' PROVE Batch(q)' \in Known'
    <3>1. q \in At({"push"}) /\ Batch(q)' = Batch(q)
      BY <1>1, <1>2 DEF At, Batch
    <3> QED BY <2>2, <3>1 DEF BusInv, OfferInv
  <2>4. tier2' \in Seq(Known') /\ taken' \in Seq(Known')
    BY <1>1, <2>2, SeqWidens DEF BusInv, OfferInv
  <2> QED BY <2>1, <2>3, <2>4 DEF OfferInv
<1>8. CountInv'
  <2>1. /\ IsFiniteSet(At(InCall)') /\ nCall' = nCall /\ nPut' = nPut /\ nRef' = nRef + 1
        /\ nSub' = nSub
    <3>1. "drop3" \in States
      BY DEF States, InCall
    <3>2. CountsGo("submit", "drop3")
      BY <1>1, <3>1, CountsMove
    <3> QED BY <1>0, <3>2 DEF CountsGo, One, InCall, InSubmit, Numbers
  <2>2. Cardinality(lost') = Cardinality(lost) + 1
    BY <1>1, <1>4, BusFacts, FS_AddElement
  <2>3. CountInv
    BY DEF BusInv
  <2> QED BY <1>0, <1>1, <2>1, <2>2, <2>3 DEF CountInv, Numbers
<1> QED BY <1>5, <1>6, <1>7, <1>8 DEF BusInv

(* A call past its sink goes on, and its batch, the sinks and what they     *)
(* hold stay what they were.                                                *)
LEMMA GoesOn ==
  ASSUME BusInv, NEW p \in Producers, NEW b \in States, bpc' = [bpc EXCEPT ![p] = b],
         bpc[p] \in InCall, b \notin InSubmit, b = "push" => Batch(p) \in Known,
         UNCHANGED <<call, target, calls, resets, lost, blog, taken>>, tier2' \in Seq(Known)
  PROVE  CallInv' /\ OfferInv' /\ bpc' \in [Producers -> States]
<1>0. bpc \in [Producers -> States]
  BY BusFacts
<1>1. bpc'[p] = b /\ \A q \in Producers \ {p} : bpc'[q] = bpc[q]
  BY <1>0
<1>2. CallInv'
  <2>1. \A q \in At(InCall)' : q \in At(InCall)
    BY <1>1 DEF At
  <2>2. \A q \in At({"submit"})' : q \in At({"submit"})
    BY <1>1 DEF At, InSubmit
  <2> QED BY <2>1, <2>2 DEF BusInv, CallInv
<1>3. OfferInv'
  <2>1. \A q \in At({"drop3"})' : q \in At({"drop3"})
    BY <1>1 DEF At, InSubmit
  <2>2. Known' = Known
    BY DEF Known
  <2>3. ASSUME NEW q \in At({"push"})' PROVE Batch(q)' \in Known
    <3>1. Batch(q)' = Batch(q) /\ q \in Producers /\ bpc'[q] = "push"
      BY DEF At, Batch
    <3>2. CASE q = p
      BY <1>1, <3>1, <3>2
    <3>3. CASE q # p
      BY <1>1, <3>1, <3>3 DEF BusInv, OfferInv, At
    <3> QED BY <3>2, <3>3
  <2> QED BY <2>1, <2>2, <2>3 DEF BusInv, OfferInv
<1> QED BY <1>0, <1>2, <1>3

LEMMA CountTier3DropInv ==
  ASSUME BusInv, NEW p \in Producers, Bus!CountTier3Drop(p)
  PROVE  BusInv'
<1>0. bpc \in [Producers -> States] /\ Numbers /\ CountInv
  BY BusFacts DEF BusInv
<1>1. /\ bpc[p] = "drop3" /\ bpc' = [bpc EXCEPT ![p] = "push"] /\ tier3Drops' = tier3Drops + 1
      /\ UNCHANGED <<tier2, popping, sink, queued, published, dropped, rpc, call, target, calls,
                     resets, taken, blog, lost, recent>>
  BY DEF Bus!CountTier3Drop, Bus!Goto, Bus!busVars, Bus!histVars
<1>2. Batch(p) \in Known
  <2>1. p \in At({"drop3"}) /\ p \in At(InCall)
    BY <1>1 DEF At, InCall
  <2>2. call[p] \in lost /\ lost \subseteq 1 .. calls
    BY <2>1 DEF BusInv, OfferInv, CallInv
  <2>4. call[p] \in 1 .. calls
    BY <2>2
  <2>5. call[p] \in 1 .. MaxCalls
    BY <1>0, <2>4 DEF Numbers
  <2>3. target[p] \in Values \cup {NoValue}
    BY DEF BusInv, Bus!TypeOK
  <2> QED BY <2>2, <2>3, <2>5 DEF Known, Batch
<1>3. CallInv' /\ OfferInv' /\ bpc' \in [Producers -> States]
  <2>1. "push" \in States /\ bpc[p] \in InCall /\ "push" \notin InSubmit
    BY <1>1 DEF States, InCall, InSubmit
  <2>2. tier2' \in Seq(Known)
    BY <1>1 DEF BusInv, OfferInv
  <2> QED BY <1>1, <1>2, <2>1, <2>2, GoesOn
<1>4. /\ IsFiniteSet(At(InCall)') /\ nCall' = nCall /\ nPut' = nPut /\ nRef' = nRef - 1
      /\ nSub' = nSub - 1
  <2>1. "push" \in States
    BY DEF States, InCall
  <2>2. CountsGo("drop3", "push")
    BY <1>1, <2>1, CountsMove
  <2> QED BY <1>0, <2>2 DEF CountsGo, One, InCall, InSubmit, Numbers
<1>5. nSub >= 1
  BY <1>1, MemberCounted DEF InSubmit
<1>6. CountInv'
  BY <1>0, <1>1, <1>4 DEF CountInv, Numbers
<1>7. Bus!TypeOK'
  <2>1. tier3Drops' \in 0 .. calls'
    BY <1>0, <1>1, <1>5 DEF CountInv, Numbers
  <2> QED BY <1>1, <1>3, <2>1 DEF BusInv, Bus!TypeOK, States, InCall
<1> QED BY <1>3, <1>6, <1>7 DEF BusInv

LEMMA PushFullInv ==
  ASSUME BusInv, NEW p \in Producers, Bus!PushFull(p)
  PROVE  BusInv'
<1>0. Numbers /\ CountInv
  BY BusFacts DEF BusInv
<1>1. /\ bpc[p] = "push" /\ bpc' = [bpc EXCEPT ![p] = "full"]
      /\ UNCHANGED <<tier2, popping, sink, queued, published, dropped, tier3Drops, rpc, call, target, calls,
                     resets, taken, blog, lost, recent>>
  BY DEF Bus!PushFull, Bus!Goto, Bus!busVars, Bus!statVars, Bus!histVars
<1>2. "full" \in States /\ bpc[p] \in InCall /\ "full" \notin InSubmit
  BY <1>1 DEF States, InCall, InSubmit
<1>3. CallInv' /\ OfferInv' /\ bpc' \in [Producers -> States]
  <2>1. tier2' \in Seq(Known)
    BY <1>1 DEF BusInv, OfferInv
  <2> QED BY <1>1, <1>2, <2>1, GoesOn
<1>4. CountsGo("push", "full")
  BY <1>1, <1>2, CountsMove
<1>5. nCall >= 1
  BY <1>2, MemberCounted
<1>6. CountInv'
  BY <1>0, <1>1, <1>4, <1>5 DEF CountInv, Numbers, CountsGo, One, InCall, InSubmit
<1>7. Bus!TypeOK'
  <2>1. published' \in 0 .. calls' /\ dropped' \in 0 .. calls'
    BY <1>0, <1>1, <1>5 DEF CountInv, Numbers
  <2> QED BY <1>1, <1>3, <2>1 DEF BusInv, Bus!TypeOK, States, InCall
<1> QED BY <1>3, <1>6, <1>7 DEF BusInv

LEMMA CountPublishedInv ==
  ASSUME BusInv, NEW p \in Producers, Bus!CountPublished(p)
  PROVE  BusInv'
<1>0. Numbers /\ CountInv
  BY BusFacts DEF BusInv
<1>1. /\ bpc[p] = "published" /\ bpc' = [bpc EXCEPT ![p] = "idle"] /\ published' = published + 1
      /\ UNCHANGED <<tier2, popping, sink, queued, dropped, tier3Drops, rpc, call, target, calls,
                     resets, taken, blog, lost, recent>>
  BY DEF Bus!CountPublished, Bus!Goto, Bus!busVars, Bus!statVars, Bus!histVars
<1>2. "idle" \in States /\ bpc[p] \in InCall /\ "idle" \notin InSubmit
  BY <1>1 DEF States, InCall, InSubmit
<1>3. CallInv' /\ OfferInv' /\ bpc' \in [Producers -> States]
  <2>1. tier2' \in Seq(Known)
    BY <1>1 DEF BusInv, OfferInv
  <2> QED BY <1>1, <1>2, <2>1, GoesOn
<1>4. CountsGo("published", "idle")
  BY <1>1, <1>2, CountsMove
<1>5. nCall >= 1
  BY <1>2, MemberCounted
<1>6. CountInv'
  BY <1>0, <1>1, <1>4, <1>5 DEF CountInv, Numbers, CountsGo, One, InCall, InSubmit
<1>7. Bus!TypeOK'
  <2>1. published' \in 0 .. calls' /\ dropped' \in 0 .. calls'
    BY <1>0, <1>1, <1>5 DEF CountInv, Numbers
  <2> QED BY <1>1, <1>3, <2>1 DEF BusInv, Bus!TypeOK, States, InCall
<1> QED BY <1>3, <1>6, <1>7 DEF BusInv

LEMMA CountDroppedInv ==
  ASSUME BusInv, NEW p \in Producers, Bus!CountDropped(p)
  PROVE  BusInv'
<1>0. Numbers /\ CountInv
  BY BusFacts DEF BusInv
<1>1. /\ bpc[p] = "full" /\ bpc' = [bpc EXCEPT ![p] = "idle"] /\ dropped' = dropped + 1
      /\ UNCHANGED <<tier2, popping, sink, queued, published, tier3Drops, rpc, call, target, calls,
                     resets, taken, blog, lost, recent>>
  BY DEF Bus!CountDropped, Bus!Goto, Bus!busVars, Bus!statVars, Bus!histVars
<1>2. "idle" \in States /\ bpc[p] \in InCall /\ "idle" \notin InSubmit
  BY <1>1 DEF States, InCall, InSubmit
<1>3. CallInv' /\ OfferInv' /\ bpc' \in [Producers -> States]
  <2>1. tier2' \in Seq(Known)
    BY <1>1 DEF BusInv, OfferInv
  <2> QED BY <1>1, <1>2, <2>1, GoesOn
<1>4. CountsGo("full", "idle")
  BY <1>1, <1>2, CountsMove
<1>5. nCall >= 1
  BY <1>2, MemberCounted
<1>6. CountInv'
  BY <1>0, <1>1, <1>4, <1>5 DEF CountInv, Numbers, CountsGo, One, InCall, InSubmit
<1>7. Bus!TypeOK'
  <2>1. published' \in 0 .. calls' /\ dropped' \in 0 .. calls'
    BY <1>0, <1>1, <1>5 DEF CountInv, Numbers
  <2> QED BY <1>1, <1>3, <2>1 DEF BusInv, Bus!TypeOK, States, InCall
<1> QED BY <1>3, <1>6, <1>7 DEF BusInv

LEMMA PushOkInv ==
  ASSUME BusInv, NEW p \in Producers, Bus!PushOk(p)
  PROVE  BusInv'
<1>0. Numbers /\ CountInv
  BY BusFacts DEF BusInv
<1>1. /\ bpc[p] = "push" /\ bpc' = [bpc EXCEPT ![p] = "published"]
      /\ Len(tier2) + Cardinality(popping) < BusCapacity
      /\ tier2' = Append(tier2, Batch(p))
      /\ UNCHANGED <<popping, sink, queued, published, dropped, tier3Drops, rpc, call, target, calls,
                     resets, taken, blog, lost, recent>>
  BY SameCardinality DEF Bus!PushOk, Bus!Goto, Bus!statVars, Bus!histVars, Batch
<1>2. "published" \in States /\ bpc[p] \in InCall /\ "published" \notin InSubmit
  BY <1>1 DEF States, InCall, InSubmit
<1>3. Batch(p) \in Known /\ tier2 \in Seq(Known)
  BY <1>1 DEF BusInv, OfferInv, At
<1>4. tier2' \in Seq(Known) /\ Len(tier2') = Len(tier2) + 1
  BY <1>1, <1>3
<1>5. CallInv' /\ OfferInv' /\ bpc' \in [Producers -> States]
  BY <1>1, <1>2, <1>4, GoesOn
<1>6. CountsGo("push", "published")
  BY <1>1, <1>2, CountsMove
<1>7. CountInv'
  <2>1. IsFiniteSet(At(InCall)') /\ nCall' = nCall /\ nSub' = nSub /\ nPut' = nPut + 1 /\ nRef' = nRef
    BY <1>0, <1>6 DEF Numbers, CountsGo, One, InCall, InSubmit
  <2>2. Len(tier2') = Len(tier2) + 1
    BY <1>4
  <2>3. UNCHANGED <<popping, published, dropped, tier3Drops, rpc, calls, resets, taken, lost, recent>>
    BY <1>1
  <2> QED BY <1>0, <2>1, <2>2, <2>3 DEF CountInv, Numbers
<1>8. Bus!TypeOK'
  <2>1. tier2' \in Seq([call : 1 .. MaxCalls, sink : Values \cup {NoValue}])
    <3>1. Known \subseteq [call : 1 .. MaxCalls, sink : Values \cup {NoValue}]
      BY DEF Known
    <3> QED BY <1>4, <3>1, SeqWidens
  <2>2. Len(tier2') + Bus!Cardinality(popping') <= BusCapacity
    <3>1. Cardinality(popping) \in Nat
      BY <1>0, FS_CardinalityType DEF CountInv
    <3> QED BY <1>0, <1>1, <1>4, <3>1, SameCardinality, BusAssumption DEF Numbers
  <2> QED BY <1>1, <1>5, <2>1, <2>2 DEF BusInv, Bus!TypeOK, States, InCall
<1> QED BY <1>5, <1>7, <1>8 DEF BusInv

-----------------------------------------------------------------------------
(* The other threads: workers, attach and detach, the sinks, reset_stats(). *)

(* A step of a thread that is not a producer.                               *)
LEMMA NotAProducer ==
  ASSUME BusInv, UNCHANGED <<bpc, call, target, calls, lost, blog>>, resets' \in Nat,
         tier2' \in Seq(Known), taken' \in Seq(Known)
  PROVE  CallInv' /\ OfferInv'
<1>1. CallInv'
  BY NobodyMoves DEF BusInv, CallInv
<1>2. Known' = Known /\ \A p : Batch(p)' = Batch(p)
  BY DEF Known, Batch
<1>3. OfferInv'
  BY <1>2, NobodyMoves DEF BusInv, OfferInv
<1> QED BY <1>1, <1>3

LEMMA PopTakeInv ==
  ASSUME BusInv, NEW w \in Consumers, Bus!PopTake(w)
  PROVE  BusInv'
<1>0. Numbers /\ CountInv
  BY BusFacts DEF BusInv
<1>1. /\ w \notin popping /\ tier2 # <<>> /\ popping' = popping \cup {w}
      /\ taken' = Append(taken, Head(tier2)) /\ tier2' = Tail(tier2)
      /\ UNCHANGED <<sink, queued, published, dropped, tier3Drops, rpc, bpc, call, target, calls,
                     resets, blog, lost, recent>>
  BY DEF Bus!PopTake, Bus!statVars, Bus!callVars
<1>2. tier2 \in Seq(Known) /\ taken \in Seq(Known)
  BY DEF BusInv, OfferInv
<1>3. /\ tier2' \in Seq(Known) /\ Len(tier2') = Len(tier2) - 1
      /\ taken' \in Seq(Known) /\ Len(taken') = Len(taken) + 1
  BY <1>1, <1>2
<1>4. CallInv' /\ OfferInv'
  BY <1>0, <1>1, <1>3, NotAProducer DEF Numbers
<1>5. /\ IsFiniteSet(popping') /\ Cardinality(popping') = Cardinality(popping) + 1
      /\ Cardinality(popping) \in Nat
  BY <1>0, <1>1, FS_AddElement, FS_CardinalityType DEF CountInv
<1>6. CountInv'
  BY <1>0, <1>1, <1>3, <1>5, NobodyMoves DEF CountInv, Numbers
<1>7. Bus!TypeOK'
  <2>1. tier2' \in Seq([call : 1 .. MaxCalls, sink : Values \cup {NoValue}])
    BY <1>1 DEF BusInv, Bus!TypeOK
  <2>2. Len(tier2') + Bus!Cardinality(popping') <= BusCapacity
    <3>1. Len(tier2) + Cardinality(popping) <= BusCapacity
      BY SameCardinality DEF BusInv, Bus!TypeOK
    <3> QED BY <1>0, <1>3, <1>5, <3>1, SameCardinality, BusAssumption DEF Numbers
  <2> QED BY <1>1, <2>1, <2>2 DEF BusInv, Bus!TypeOK
<1> QED BY <1>4, <1>6, <1>7 DEF BusInv

LEMMA PopReleaseInv ==
  ASSUME BusInv, NEW w \in Consumers, Bus!PopRelease(w)
  PROVE  BusInv'
<1>0. Numbers /\ CountInv
  BY BusFacts DEF BusInv
<1>1. /\ w \in popping /\ popping' = popping \ {w}
      /\ UNCHANGED <<tier2, sink, queued, published, dropped, tier3Drops, rpc, bpc, call, target,
                     calls, resets, taken, blog, lost, recent>>
  BY DEF Bus!PopRelease, Bus!statVars, Bus!callVars, Bus!histVars
<1>2. CallInv' /\ OfferInv'
  BY <1>0, <1>1, NotAProducer DEF Numbers, BusInv, OfferInv
<1>3. /\ IsFiniteSet(popping') /\ Cardinality(popping') = Cardinality(popping) - 1
      /\ Cardinality(popping) \in Nat
  BY <1>0, <1>1, FS_RemoveElement, FS_CardinalityType DEF CountInv
<1>4. CountInv'
  BY <1>0, <1>1, <1>3, NobodyMoves DEF CountInv, Numbers
<1>5. Bus!TypeOK'
  <2>1. Len(tier2') + Bus!Cardinality(popping') <= BusCapacity
    <3>1. Len(tier2) + Cardinality(popping) <= BusCapacity
      BY SameCardinality DEF BusInv, Bus!TypeOK
    <3> QED BY <1>0, <1>1, <1>3, <3>1, SameCardinality, BusAssumption DEF Numbers
  <2> QED BY <1>1, <2>1 DEF BusInv, Bus!TypeOK
<1> QED BY <1>2, <1>4, <1>5 DEF BusInv

(* attach_sink() and detach_sink() store a pointer; a sink drains alone.    *)
LEMMA SinksInv ==
  ASSUME BusInv, sink' \in Values \cup {NoValue}, queued' \in [Values -> 0 .. SinkCapacity],
         UNCHANGED <<tier2, popping, published, dropped, tier3Drops, rpc, bpc, call, target, calls,
                     resets, taken, blog, lost, recent>>
  PROVE  BusInv'
<1>1. CallInv' /\ OfferInv'
  BY BusFacts, NotAProducer DEF Numbers, BusInv, OfferInv
<1>2. CountInv'
  BY NobodyMoves DEF BusInv, CountInv
<1>3. Bus!TypeOK'
  BY DEF BusInv, Bus!TypeOK
<1> QED BY <1>1, <1>2, <1>3 DEF BusInv

(* The three stores of reset_stats(). *)
LEMMA ResetInv ==
  ASSUME BusInv, Bus!ResetPublished \/ Bus!ResetDropped \/ Bus!ResetTier3
  PROVE  BusInv'
<1>0. Numbers /\ CountInv
  BY BusFacts DEF BusInv
<1>1. /\ UNCHANGED <<tier2, popping, sink, queued, bpc, call, target, calls, taken, blog, lost>>
      /\ resets' \in Nat
  BY <1>0 DEF Bus!ResetPublished, Bus!ResetDropped, Bus!ResetTier3, Bus!busVars, Bus!callVars,
              Bus!histVars, Numbers
<1>2. CallInv' /\ OfferInv'
  BY <1>1, NotAProducer DEF BusInv, OfferInv
<1>3. CASE Bus!ResetPublished
  <2>1. Bus!Running = At(InCall)
    BY BusFacts DEF Bus!Running, At, States, InCall
  <2>2. /\ rpc = "idle" /\ rpc' = "dropped" /\ published' = 0 /\ resets' = resets + 1
        /\ recent' = nCall /\ UNCHANGED <<dropped, tier3Drops>>
    BY <1>3, <2>1, SameCardinality DEF Bus!ResetPublished, nCall, N
  <2>3. CountInv'
    BY <1>0, <1>1, <2>2, NobodyMoves DEF CountInv, Numbers
  <2>4. published' \in 0 .. calls' /\ recent' \in 0 .. calls'
    BY <1>0, <1>1, <2>2 DEF CountInv, Numbers
  <2>5. Bus!TypeOK'
    BY <1>1, <2>2, <2>4 DEF BusInv, Bus!TypeOK
  <2> QED BY <1>2, <2>3, <2>5 DEF BusInv
<1>4. CASE Bus!ResetDropped
  <2>1. /\ rpc = "dropped" /\ rpc' = "tier3" /\ dropped' = 0
        /\ UNCHANGED <<published, tier3Drops, recent, resets>>
    BY <1>4 DEF Bus!ResetDropped, Bus!histVars
  <2>2. CountInv'
    BY <1>0, <1>1, <2>1, NobodyMoves DEF CountInv, Numbers
  <2>3. dropped' \in 0 .. calls'
    BY <1>0, <1>1, <2>1 DEF Numbers
  <2>4. Bus!TypeOK'
    BY <1>1, <2>1, <2>3 DEF BusInv, Bus!TypeOK
  <2> QED BY <1>2, <2>2, <2>4 DEF BusInv
<1>5. CASE Bus!ResetTier3
  <2>1. /\ rpc = "tier3" /\ rpc' = "idle" /\ tier3Drops' = 0
        /\ UNCHANGED <<published, dropped, recent, resets>>
    BY <1>5 DEF Bus!ResetTier3, Bus!histVars
  <2>2. CountInv'
    BY <1>0, <1>1, <2>1, NobodyMoves DEF CountInv, Numbers
  <2>3. tier3Drops' \in 0 .. calls'
    BY <1>0, <1>1, <2>1 DEF Numbers
  <2>4. Bus!TypeOK'
    BY <1>1, <2>1, <2>3 DEF BusInv, Bus!TypeOK
  <2> QED BY <1>2, <2>2, <2>4 DEF BusInv
<1> QED BY <1>3, <1>4, <1>5

LEMMA BusStepInv == BusInv /\ (Bus!Next \/ UNCHANGED busAll) => BusInv'
<1> SUFFICES ASSUME BusInv, Bus!Next \/ UNCHANGED busAll PROVE BusInv'
  OBVIOUS
<1>1. ASSUME NEW p \in Producers, Bus!Submit(p) PROVE BusInv'
  BY <1>1, SubmitOkInv, SubmitRefusedInv
<1>2. ASSUME NEW s \in Values, Bus!AttachSink(s) PROVE BusInv'
  <2>1. /\ sink' \in Values \cup {NoValue} /\ queued' \in [Values -> 0 .. SinkCapacity]
        /\ UNCHANGED <<tier2, popping, published, dropped, tier3Drops, rpc, bpc, call, target, calls,
                       resets, taken, blog, lost, recent>>
    BY <1>2 DEF Bus!AttachSink, Bus!statVars, Bus!callVars, Bus!histVars, BusInv, Bus!TypeOK
  <2> QED BY <2>1, SinksInv
<1>3. ASSUME Bus!DetachSink PROVE BusInv'
  <2>1. /\ sink' \in Values \cup {NoValue} /\ queued' \in [Values -> 0 .. SinkCapacity]
        /\ UNCHANGED <<tier2, popping, published, dropped, tier3Drops, rpc, bpc, call, target, calls,
                       resets, taken, blog, lost, recent>>
    BY <1>3 DEF Bus!DetachSink, Bus!statVars, Bus!callVars, Bus!histVars, BusInv, Bus!TypeOK
  <2> QED BY <2>1, SinksInv
<1>4. ASSUME NEW s \in Values, Bus!Drain(s) PROVE BusInv'
  <2>1. /\ sink' = sink /\ queued' = [queued EXCEPT ![s] = queued[s] - 1] /\ queued[s] > 0
        /\ UNCHANGED <<tier2, popping, published, dropped, tier3Drops, rpc, bpc, call, target, calls,
                       resets, taken, blog, lost, recent>>
    BY <1>4 DEF Bus!Drain, Bus!statVars, Bus!callVars, Bus!histVars
  <2>2. queued[s] - 1 \in 0 .. SinkCapacity
    BY <2>1, BusAssumption DEF BusInv, Bus!TypeOK
  <2>3. sink' \in Values \cup {NoValue} /\ queued' \in [Values -> 0 .. SinkCapacity]
    BY <2>1, <2>2 DEF BusInv, Bus!TypeOK
  <2> QED BY <2>1, <2>3, SinksInv
<1>5. ASSUME UNCHANGED busAll PROVE BusInv'
  <2>1. /\ sink' \in Values \cup {NoValue} /\ queued' \in [Values -> 0 .. SinkCapacity]
        /\ UNCHANGED <<tier2, popping, published, dropped, tier3Drops, rpc, bpc, call, target, calls,
                       resets, taken, blog, lost, recent>>
    BY <1>5 DEF busAll, BusInv, Bus!TypeOK
  <2> QED BY <2>1, SinksInv
<1> QED BY <1>1, <1>2, <1>3, <1>4, <1>5, PublishCallInv, CountTier3DropInv, PushOkInv, PushFullInv,
           CountPublishedInv, CountDroppedInv, PopTakeInv, PopReleaseInv, ResetInv
        DEF Bus!Next

-----------------------------------------------------------------------------
LEMMA BusInvAccounts == BusInv => BusAccounts
<1> SUFFICES ASSUME BusInv PROVE BusAccounts
  OBVIOUS
<1>0. Numbers /\ CountInv /\ OfferInv /\ Bus!TypeOK
  BY BusFacts DEF BusInv
<1>1. Bus!LoggedBeforeDelivered
  <2> SUFFICES ASSUME NEW e \in Bus!ToSet(tier2 \o taken), e.sink # NoValue
               PROVE  e.call \in Bus!ToSet(blog[e.sink]) \/ e.call \in lost
    BY DEF Bus!LoggedBeforeDelivered
  <2>1. tier2 \o taken \in Seq(Known)
    BY <1>0 DEF OfferInv
  <2>2. e \in Known
    BY <2>1 DEF Bus!ToSet
  <2>3. e.sink \in Values
    BY <2>2 DEF Known
  <2>4. blog[e.sink] \in Seq(Nat)
    BY <2>3 DEF BusInv, CallInv
  <2> QED BY <2>2, <2>4 DEF Known, Bus!ToSet
<1>2. Bus!Accounted
  <2> SUFFICES ASSUME Bus!Running = {}, resets = 0
               PROVE  /\ published = Len(tier2) + Len(taken) /\ published + dropped = calls
                      /\ tier3Drops = Bus!Cardinality(lost)
    BY DEF Bus!Accounted
  <2>1. At(InCall) = {}
    BY DEF Bus!Running, At, InCall
  <2>2. nCall = 0
    BY <2>1, FS_EmptySet DEF nCall, N
  <2> QED BY <1>0, <2>2, SameCardinality DEF Numbers, CountInv
<1>3. Bus!ResetForgets
  BY <1>0 DEF Bus!ResetForgets, CountInv, Numbers
<1> QED BY <1>0, <1>1, <1>2, <1>3 DEF BusAccounts

(* publish() offers a batch to the sink that it loaded before a worker can  *)
(* see the batch, the counters account for every call once no call runs,    *)
(* and reset_stats() forgets what came before it: on every behaviour, for   *)
(* every number of threads, sinks and slots.                                *)
THEOREM EventBus_Accounts == BothSpec => []BusAccounts
<1>1. BothInit => BusInv
  BY BusInitInv DEF BothInit
<1>2. BusInv /\ [BothNext]_<<part, vars, busAll>> => BusInv'
  BY BusStepInv DEF BothNext
<1> QED BY <1>1, <1>2, BusInvAccounts, PTL DEF BothSpec
=============================================================================
