------------------------------ MODULE SpscRing ------------------------------
(***************************************************************************)
(* signet::forge::SpscRingBuffer<T, Capacity> (ai/streaming_sink.hpp): one *)
(* producer thread, one consumer thread, two indices into a fixed array.   *)
(* Head and tail are stored modulo Capacity, so one slot stays unused to   *)
(* tell a full ring from an empty one.                                     *)
(*                                                                         *)
(* One action per shared access.  push(item) is a bulk push of one.        *)
(***************************************************************************)
EXTENDS Integers, Sequences

CONSTANTS
  Capacity,   \* template argument, a power of two
  Values,     \* elements
  NoValue,    \* T{} or a moved-from element
  MaxBulk,    \* bound: items of one bulk push() or pop()
  MaxPush     \* bound: pushes that may succeed

ASSUME CapacityAssumption == Capacity \in Nat /\ Capacity >= 2
ASSUME ValueAssumption    == NoValue \notin Values
ASSUME BoundAssumption    == MaxPush \in Nat /\ MaxBulk \in Nat

Slots   == 0 .. (Capacity - 1)
Succ(i) == (i + 1) % Capacity       \* (i + 1) & kMask

VARIABLES
  head, tail,     \* head_, tail_
  storage,        \* storage_
  ppc, cpc,       \* idle, check, move, store
  todo,           \* producer: items of the bulk push not yet pushed
  want,           \* consumer: items of the bulk pop not yet popped
  item, out,      \* push()'s argument; what pop() is returning
  log, got        \* histories: elements published; elements returned

vars == <<head, tail, storage, ppc, cpc, todo, want, item, out, log, got>>

producer == <<head, ppc, todo, item, log>>
consumer == <<tail, cpc, want, out, got>>

Init ==
  /\ head = 0 /\ tail = 0
  /\ storage = [i \in Slots |-> NoValue]
  /\ ppc = "idle" /\ cpc = "idle"
  /\ todo = 0 /\ want = 0
  /\ item = NoValue /\ out = NoValue
  /\ log = <<>> /\ got = <<>>

-----------------------------------------------------------------------------
PushCall ==
  /\ ppc = "idle" /\ Len(log) < MaxPush
  /\ ppc' = "check"
  /\ \E n \in 1 .. MaxBulk : todo' = n
  /\ \E v \in Values : item' = v
  /\ UNCHANGED <<head, storage, log, consumer>>

(* Mutant: the reserved slot is used too. *)
PushCheckAllSlots ==
  /\ ppc = "check"
  /\ ppc' = "move"
  /\ todo' = todo
  /\ UNCHANGED <<head, item, log, storage, consumer>>

(* next == tail_: full, the bulk push stops here. *)
PushCheck ==
  /\ ppc = "check"
  /\ IF Succ(head) = tail THEN ppc' = "idle" /\ todo' = 0
                           ELSE ppc' = "move" /\ todo' = todo
  /\ UNCHANGED <<head, item, log, storage, consumer>>

PushMove ==
  /\ ppc = "move"
  /\ ppc' = "store"
  /\ storage' = [storage EXCEPT ![head] = item]
  /\ UNCHANGED <<head, todo, item, log, consumer>>

(* head_.store(next, release) publishes; then the next item of the bulk. *)
PushStore ==
  /\ ppc = "store"
  /\ head' = Succ(head)
  /\ log'  = Append(log, item)
  /\ todo' = todo - 1
  /\ IF todo > 1 /\ Len(log) + 1 < MaxPush
       THEN ppc' = "check" /\ \E v \in Values : item' = v
       ELSE ppc' = "idle"  /\ item' = item
  /\ UNCHANGED <<storage, consumer>>

-----------------------------------------------------------------------------
PopCall ==
  /\ cpc = "idle"
  /\ cpc' = "check"
  /\ \E n \in 1 .. MaxBulk : want' = n
  /\ UNCHANGED <<tail, out, got, storage, producer>>

(* Mutant: the index is compared after it moved. *)
PopCheckNext ==
  /\ cpc = "check"
  /\ IF Succ(tail) = head THEN cpc' = "idle" /\ want' = 0
                           ELSE cpc' = "move" /\ want' = want
  /\ UNCHANGED <<tail, out, got, storage, producer>>

PopCheck ==
  /\ cpc = "check"
  /\ IF tail = head THEN cpc' = "idle" /\ want' = 0
                    ELSE cpc' = "move" /\ want' = want
  /\ UNCHANGED <<tail, out, got, storage, producer>>

PopMove ==
  /\ cpc = "move"
  /\ cpc' = "store"
  /\ out' = storage[tail]
  /\ storage' = [storage EXCEPT ![tail] = NoValue]
  /\ UNCHANGED <<tail, want, got, producer>>

PopStore ==
  /\ cpc = "store"
  /\ tail' = Succ(tail)
  /\ got'  = Append(got, out)
  /\ want' = want - 1
  /\ cpc'  = IF want > 1 THEN "check" ELSE "idle"
  /\ UNCHANGED <<out, storage, producer>>

-----------------------------------------------------------------------------
Push == PushCall \/ PushCheck \/ PushMove \/ PushStore
Pop  == PopCall \/ PopCheck \/ PopMove \/ PopStore
Next == Push \/ Pop
Spec == Init /\ [][Next]_vars

-----------------------------------------------------------------------------
TypeOK ==
  /\ head \in Slots /\ tail \in Slots
  /\ storage \in [Slots -> Values \cup {NoValue}]
  /\ ppc \in {"idle", "check", "move", "store"}
  /\ cpc \in {"idle", "check", "move", "store"}
  /\ todo \in Nat /\ want \in Nat
  /\ item \in Values \cup {NoValue}
  /\ out  \in Values \cup {NoValue}
  /\ log \in Seq(Values)
  /\ got \in Seq(Values)

(* What the consumer has received is exactly what was pushed first, in the  *)
(* order pushed: nothing lost, repeated, overwritten or torn at the wrap.   *)
InOrder == /\ Len(got) <= Len(log)
           /\ \A k \in 1 .. Len(got) : got[k] = log[k]

(* storage_ is plain memory: producer and consumer never touch one slot at  *)
(* the same time.                                                           *)
SlotExclusive ==
  ~(ppc \in {"move", "store"} /\ cpc \in {"move", "store"} /\ head = tail)

(* push() reports "full" exactly when Capacity - 1 elements are in the ring *)
(* and pop() "empty" exactly when none is, although each side reads the     *)
(* other's index without a lock.                                            *)
HonestAnswers ==
  [][/\ ppc = "check" /\ ppc' = "idle" => Len(log) = Len(got) + Capacity - 1
     /\ cpc = "check" /\ cpc' = "idle" => Len(log) = Len(got)]_vars

(* The buffer implements a FIFO of Capacity - 1 elements. *)
Fifo == INSTANCE BoundedFifo
          WITH Size <- Capacity - 1, Elements <- Values,
               hist <- log, rd <- Len(got)
ImplementsFifo == Fifo!Spec

(* The inductive invariant: the indices are the two history lengths modulo  *)
(* Capacity, at most Capacity - 1 apart, and every element published and    *)
(* not yet moved out is in its slot.                                        *)
IInv ==
  /\ TypeOK
  /\ InOrder
  /\ head = Len(log) % Capacity
  /\ tail = Len(got) % Capacity
  /\ Len(log) <= Len(got) + Capacity - 1
  /\ ppc \in {"check", "move", "store"} => item \in Values /\ todo >= 1
  /\ cpc \in {"check", "move", "store"} => want >= 1
  /\ ppc \in {"move", "store"} => Len(log) < Len(got) + Capacity - 1
  /\ ppc = "store" => storage[head] = item
  /\ cpc \in {"move", "store"} => Len(got) < Len(log)
  /\ cpc = "store" => out = log[Len(got) + 1]
  /\ \A k \in (Len(got) + 1) .. Len(log) :
       (cpc = "store" => k > Len(got) + 1) => storage[(k - 1) % Capacity] = log[k]
=============================================================================
