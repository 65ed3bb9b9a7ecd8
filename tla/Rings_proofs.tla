--------------------------- MODULE Rings_proofs ----------------------------
(***************************************************************************)
(* Proofs about the two buffers of the sink: SpscRing for every capacity   *)
(* of at least two, every set of values and every bulk size, and MpscRing  *)
(* for every number of producers, every capacity of two slots or more and  *)
(* every set of values, on the instance that MCRings checks.               *)
(***************************************************************************)
EXTENDS MCRings, TLAPS

-----------------------------------------------------------------------------
(* The slot of a position is pos & (capacity - 1), which is pos modulo the *)
(* capacity.                                                               *)

(* Division with remainder, as the slot index uses it. *)
LEMMA ModDiv ==
  ASSUME NEW n \in Nat, n > 0, NEW a \in Nat
  PROVE  /\ a = n * (a \div n) + (a % n)
         /\ a \div n \in Nat
         /\ a % n \in 0 .. (n - 1)
  OBVIOUS

(* Two different multiples of n are at least n apart. *)
LEMMA MultiplesApart ==
  ASSUME NEW n \in Nat, n > 0, NEW x \in Int, NEW y \in Int, x < y
  PROVE  n * x + n <= n * y
<1>1. PICK d \in Nat : y = x + 1 + d
  <2>1. y - x - 1 \in Nat
    OBVIOUS
  <2> QED BY <2>1
<1>2. n * y = n * x + n + n * d
  BY <1>1
<1>3. n * d >= 0
  BY SMT
<1> QED BY <1>2, <1>3

(* Positions less than one cycle apart that share a slot are equal. *)
LEMMA SameSlot ==
  ASSUME NEW n \in Nat, n > 0, NEW a \in Nat, NEW b \in Nat,
         a % n = b % n, a <= b, b < a + n
  PROVE  a = b
<1> DEFINE x == a \div n
           y == b \div n
<1>1. /\ a = n * x + (a % n) /\ x \in Nat
      /\ b = n * y + (a % n) /\ y \in Nat
  BY ModDiv
<1>2. n * x \in Int /\ n * y \in Int /\ a % n \in Int
  BY <1>1, ModDiv
<1> HIDE DEF x, y
<1>3. CASE x = y
  BY <1>1, <1>2, <1>3
<1>4. CASE x < y
  <2>1. n * x + n <= n * y
    BY <1>1, <1>4, MultiplesApart
  <2> QED BY <1>1, <1>2, <2>1
<1>5. CASE y < x
  <2>1. n * y + n <= n * x
    BY <1>1, <1>5, MultiplesApart
  <2> QED BY <1>1, <1>2, <2>1
<1> QED BY <1>1, <1>3, <1>4, <1>5

(* One full cycle later a position has the same slot. *)
LEMMA NextCycle ==
  ASSUME NEW n \in Nat, n > 0, NEW a \in Nat
  PROVE  (a + n) % n = a % n
<1> DEFINE x == a \div n
           y == (a + n) \div n
           r == a % n
           t == (a + n) % n
<1>1. /\ a = n * x + r     /\ x \in Nat /\ r \in 0 .. (n - 1)
      /\ a + n = n * y + t /\ y \in Nat /\ t \in 0 .. (n - 1)
  BY ModDiv
<1>2. n * x \in Int /\ n * y \in Int /\ n * (x + 1) = n * x + n
  BY <1>1
<1> HIDE DEF x, y, r, t
<1>3. CASE x + 1 = y
  BY <1>1, <1>2, <1>3 DEF r, t
<1>4. CASE x + 1 < y
  <2>1. n * (x + 1) + n <= n * y
    BY <1>1, <1>4, MultiplesApart
  <2> QED BY <1>1, <1>2, <2>1
<1>5. CASE y < x + 1
  <2>1. n * y + n <= n * (x + 1)
    BY <1>1, <1>5, MultiplesApart
  <2> QED BY <1>1, <1>2, <2>1
<1> QED BY <1>1, <1>3, <1>4, <1>5 DEF r, t

(* The first cycle maps every position to itself. *)
LEMMA FirstCycle ==
  ASSUME NEW n \in Nat, n > 0, NEW a \in Nat, a < n
  PROVE  a % n = a
  OBVIOUS

(* Any number of full cycles later a position has the same slot. *)
LEMMA ManyCycles ==
  ASSUME NEW n \in Nat, n > 0, NEW a \in Nat, NEW k \in Nat
  PROVE  (a + n * k) % n = a % n
<1> DEFINE x == a \div n
           b == a + n * k
           y == b \div n
           r == a % n
           t == b % n
<1>0. b \in Nat
  <2>1. n * k \in Nat
    BY SMT
  <2> QED BY <2>1
<1>1. /\ a = n * x + r /\ x \in Nat /\ r \in 0 .. (n - 1)
      /\ b = n * y + t /\ y \in Nat /\ t \in 0 .. (n - 1)
  BY <1>0, ModDiv
<1>2. n * x \in Int /\ n * y \in Int /\ n * (x + k) = n * x + n * k /\ n * k \in Int
  BY <1>1
<1>3. b = a + n * k
  OBVIOUS
<1> HIDE DEF x, y, r, t, b
<1>4. CASE x + k = y
  BY <1>1, <1>2, <1>3, <1>4 DEF r, t, b
<1>5. CASE x + k < y
  <2>1. n * (x + k) + n <= n * y
    BY <1>1, <1>5, MultiplesApart
  <2> QED BY <1>1, <1>2, <1>3, <2>1
<1>6. CASE y < x + k
  <2>1. n * y + n <= n * (x + k)
    BY <1>1, <1>6, MultiplesApart
  <2> QED BY <1>1, <1>2, <1>3, <2>1
<1> QED BY <1>1, <1>4, <1>5, <1>6 DEF r, t, b

(* Stepping a stored index is stepping the position it stands for. *)
LEMMA StepIndex ==
  ASSUME NEW n \in Nat, n > 0, NEW a \in Nat
  PROVE  ((a % n) + 1) % n = (a + 1) % n
<1> DEFINE r == a % n
           x == a \div n
<1>1. a = n * x + r /\ x \in Nat /\ r \in Nat
  BY ModDiv
<1> HIDE DEF r, x
<1>2. n * x \in Int
  BY <1>1
<1>3. ((r + 1) + n * x) % n = (r + 1) % n
  <2>1. r + 1 \in Nat /\ x \in Nat
    BY <1>1
  <2> DEFINE q == r + 1
  <2>2. q \in Nat
    BY <2>1
  <2> HIDE DEF q
  <2>3. (q + n * x) % n = q % n
    BY <2>1, <2>2, ManyCycles
  <2> QED BY <2>3 DEF q
<1>4. (r + 1) + n * x = a + 1
  BY <1>1, <1>2
<1> QED BY <1>3, <1>4 DEF r

-----------------------------------------------------------------------------
(* SpscRing. *)

(* What the proofs use of the wrapped indices, for positions g <= l < g + C. *)
LEMMA IndexFacts ==
  ASSUME NEW l \in Nat, NEW g \in Nat
  PROVE  /\ l % Capacity \in Slots
         /\ Succ(l % Capacity) = (l + 1) % Capacity
         /\ l % Capacity = g % Capacity /\ g <= l /\ l < g + Capacity => l = g
         /\ l = g + Capacity => l % Capacity = g % Capacity
<1>1. Capacity \in Nat /\ Capacity > 0
  BY CapacityAssumption
<1>2. l % Capacity \in Slots
  BY <1>1, ModDiv DEF Slots
<1>3. Succ(l % Capacity) = (l + 1) % Capacity
  BY <1>1, StepIndex DEF Succ
<1>4. l % Capacity = g % Capacity /\ g <= l /\ l < g + Capacity => l = g
  BY <1>1, SameSlot
<1>5. l = g + Capacity => l % Capacity = g % Capacity
  BY <1>1, NextCycle
<1> QED BY <1>2, <1>3, <1>4, <1>5

(* An empty buffer satisfies the invariant. *)
LEMMA InitInv == Init => IInv
<1> SUFFICES ASSUME Init PROVE IInv
  OBVIOUS
<1>1. 0 % Capacity = 0 /\ 0 \in Slots
  BY CapacityAssumption, FirstCycle DEF Slots
<1>2. Len(log) = 0 /\ Len(got) = 0 /\ head = 0 /\ tail = 0
  BY DEF Init
<1> QED BY <1>1, <1>2, CapacityAssumption DEF Init, IInv, TypeOK, InOrder

(* The positions behind the two indices, and what the indices say of them. *)
LEMMA Bounds ==
  ASSUME IInv
  PROVE  /\ Len(log) \in Nat /\ Len(got) \in Nat /\ Capacity \in Nat
         /\ Capacity >= 2 /\ Len(got) <= Len(log)
         /\ Len(log) <= Len(got) + Capacity - 1
  BY CapacityAssumption DEF IInv, TypeOK, InOrder

LEMMA Positions ==
  ASSUME IInv
  PROVE  /\ Len(log) \in Nat /\ Len(got) \in Nat /\ Capacity \in Nat
         /\ Capacity >= 2 /\ Len(got) <= Len(log)
         /\ head \in Slots /\ tail \in Slots
         /\ head = Len(log) % Capacity /\ tail = Len(got) % Capacity
         /\ Len(log) <= Len(got) + Capacity - 1
         /\ Succ(head) = (Len(log) + 1) % Capacity
         /\ Succ(tail) = (Len(got) + 1) % Capacity
         /\ head = tail => Len(log) = Len(got)
         /\ Succ(head) = tail <=> Len(log) = Len(got) + Capacity - 1
<1>1. /\ Len(log) \in Nat /\ Len(got) \in Nat /\ Capacity \in Nat
      /\ Capacity >= 2 /\ Len(got) <= Len(log)
      /\ head \in Slots /\ tail \in Slots
      /\ head = Len(log) % Capacity /\ tail = Len(got) % Capacity
      /\ Len(log) <= Len(got) + Capacity - 1
  BY CapacityAssumption DEF IInv, TypeOK, InOrder
<1> DEFINE l == Len(log)
           g == Len(got)
           m == l + 1
<1>2. m \in Nat
  BY <1>1
<1>3. Succ(head) = m % Capacity /\ Succ(tail) = (g + 1) % Capacity
  BY <1>1, IndexFacts
<1>4. head = tail => l = g
  BY <1>1, IndexFacts
<1> HIDE DEF m
<1>5. m % Capacity = g % Capacity /\ g <= m /\ m < g + Capacity => m = g
  BY <1>1, <1>2, IndexFacts
<1>6. m = g + Capacity => m % Capacity = g % Capacity
  BY <1>1, <1>2, IndexFacts
<1>7. m = l + 1
  BY DEF m
<1>8. Succ(head) = tail <=> l = g + Capacity - 1
  BY <1>1, <1>2, <1>3, <1>5, <1>6, <1>7
<1> QED BY <1>1, <1>3, <1>4, <1>7, <1>8

(* Every step of the producer keeps the invariant. *)
LEMMA PushInv == IInv /\ Push => IInv'
<1> SUFFICES ASSUME IInv, Push PROVE IInv'
  OBVIOUS
<1> USE DEF producer, consumer
<1>1. CASE PushCall
  BY <1>1, BoundAssumption DEF PushCall, IInv, TypeOK, InOrder
<1>2. CASE PushCheck
  <2>1. ppc' = "move" => Len(log) < Len(got) + Capacity - 1
    <3>1. ppc' = "move" => Succ(head) # tail
      BY <1>2 DEF PushCheck
    <3>2. Succ(head) # tail => Len(log) # Len(got) + Capacity - 1
      BY Positions
    <3> QED BY <3>1, <3>2, Bounds
  <2>2. ppc' \in {"idle", "move"} /\ todo' \in Nat /\ (ppc' = "move" => todo' = todo)
    BY <1>2 DEF PushCheck, IInv, TypeOK
  <2> QED BY <1>2, <2>1, <2>2 DEF PushCheck, IInv, TypeOK, InOrder
<1>3. CASE PushMove
  <2>1. \A k \in (Len(got) + 1) .. Len(log) : (k - 1) % Capacity # head
    <3> TAKE k \in (Len(got) + 1) .. Len(log)
    <3> DEFINE j == k - 1
    <3>1. Len(log) < Len(got) + Capacity - 1
      BY <1>3 DEF PushMove, IInv
    <3>2. j \in Nat /\ j <= Len(log) /\ Len(log) < j + Capacity /\ j # Len(log)
      BY <3>1, Bounds
    <3> HIDE DEF j
    <3>3. j % Capacity # head
      BY <3>2, Positions, IndexFacts
    <3> QED BY <3>3 DEF j
  <2>2. storage'[head] = item /\ \A i \in Slots \ {head} : storage'[i] = storage[i]
    BY <1>3, Positions DEF PushMove, IInv, TypeOK
  <2>3. \A k \in (Len(got) + 1) .. Len(log) : (k - 1) % Capacity \in Slots
    <3> TAKE k \in (Len(got) + 1) .. Len(log)
    <3>1. k - 1 \in Nat
      BY Positions
    <3> QED BY <3>1, IndexFacts
  <2> QED BY <1>3, <2>1, <2>2, <2>3, Positions DEF PushMove, IInv, TypeOK, InOrder
<1>4. CASE PushStore
  <2>1. /\ log' \in Seq(Values) /\ Len(log') = Len(log) + 1
        /\ log'[Len(log) + 1] = item
        /\ \A k \in 1 .. Len(log) : log'[k] = log[k]
    BY <1>4 DEF PushStore, IInv, TypeOK
  <2>2. head' = Len(log') % Capacity /\ head' \in Slots
    BY <1>4, <2>1, Positions, IndexFacts DEF PushStore
  <2>3. ppc' \in {"check", "idle"} /\ item' \in Values
        /\ todo' \in Nat /\ (ppc' = "check" => todo' >= 1)
    BY <1>4 DEF PushStore, IInv, TypeOK
  <2>4. TypeOK'
    BY <1>4, <2>1, <2>2, <2>3 DEF PushStore, IInv, TypeOK
  <2>5. InOrder'
    BY <1>4, <2>1, Positions, SMTT(60) DEF PushStore, IInv, InOrder
  <2>6. \A k \in (Len(got) + 1) .. (Len(log) + 1) :
          (cpc = "store" => k > Len(got) + 1) => storage[(k - 1) % Capacity] = log'[k]
    <3> TAKE k \in (Len(got) + 1) .. (Len(log) + 1)
    <3>1. CASE k = Len(log) + 1
      <4>1. k - 1 = Len(log)
        BY <3>1, Positions
      <4> QED BY <1>4, <2>1, <3>1, <4>1, Positions DEF PushStore, IInv
    <3>2. CASE k # Len(log) + 1
      <4>1. k \in (Len(got) + 1) .. Len(log) /\ k \in 1 .. Len(log)
        BY <3>2, Positions, SMTT(60)
      <4> QED BY <2>1, <4>1 DEF IInv
    <3> QED BY <3>1, <3>2
  <2>7. cpc = "store" => out = log'[Len(got) + 1]
    <3> HAVE cpc = "store"
    <3>1. Len(got) < Len(log) /\ out = log[Len(got) + 1]
      BY DEF IInv
    <3>2. Len(got) + 1 \in 1 .. Len(log)
      BY <3>1, Bounds
    <3> QED BY <2>1, <3>1, <3>2
  <2>8. UNCHANGED <<tail, cpc, want, out, got, storage>>
    BY <1>4 DEF PushStore
  <2>9. tail = Len(got) % Capacity /\ Len(log) < Len(got) + Capacity - 1
    BY <1>4 DEF PushStore, IInv
  <2>10. Len(log') <= Len(got') + Capacity - 1
    BY <2>1, <2>8, <2>9, Bounds
  <2>11. cpc' \in {"move", "store"} => Len(got') < Len(log')
    BY <2>1, <2>8, Bounds DEF IInv
  <2>12. cpc' \in {"check", "move", "store"} => want' >= 1
    BY <2>8 DEF IInv
  <2> QED BY <2>1, <2>2, <2>3, <2>4, <2>5, <2>6, <2>7, <2>8, <2>9, <2>10,
             <2>11, <2>12 DEF IInv
<1> QED BY <1>1, <1>2, <1>3, <1>4 DEF Push

(* Every step of the consumer keeps the invariant. *)
LEMMA PopInv == IInv /\ Pop => IInv'
<1> SUFFICES ASSUME IInv, Pop PROVE IInv'
  OBVIOUS
<1> USE DEF producer, consumer
<1>1. CASE PopCall
  BY <1>1, BoundAssumption DEF PopCall, IInv, TypeOK, InOrder
<1>2. CASE PopCheck
  BY <1>2, Positions, SMTT(60) DEF PopCheck, IInv, TypeOK, InOrder
<1>3. CASE PopMove
  <2>1. \A k \in (Len(got) + 2) .. Len(log) : (k - 1) % Capacity \in Slots \ {tail}
    <3> TAKE k \in (Len(got) + 2) .. Len(log)
    <3> DEFINE j == k - 1
    <3>1. j \in Nat /\ Len(got) <= j /\ j < Len(got) + Capacity /\ j # Len(got)
      BY Positions, SMTT(60)
    <3> HIDE DEF j
    <3>2. j % Capacity \in Slots /\ j % Capacity # tail
      BY <3>1, Positions, IndexFacts
    <3> QED BY <3>2 DEF j
  <2>2. \A i \in Slots \ {tail} : storage'[i] = storage[i]
    BY <1>3, Positions DEF PopMove, IInv, TypeOK
  <2>3. out' = log[Len(got) + 1]
    <3>1. Len(got) + 1 \in (Len(got) + 1) .. Len(log) /\ (Len(got) + 1) - 1 = Len(got)
      BY <1>3, Positions DEF PopMove, IInv
    <3> QED BY <1>3, <3>1, Positions DEF PopMove, IInv
  <2>4. ppc = "store" => storage'[head] = item
    BY <1>3, <2>2, Positions DEF PopMove, IInv
  <2>5. TypeOK'
    BY <1>3, Positions DEF PopMove, IInv, TypeOK
  <2>6. \A k \in (Len(got) + 1) .. Len(log) :
          k > Len(got) + 1 => storage'[(k - 1) % Capacity] = log[k]
    <3> TAKE k \in (Len(got) + 1) .. Len(log)
    <3> HAVE k > Len(got) + 1
    <3>1. k \in (Len(got) + 2) .. Len(log)
      BY Positions
    <3> QED BY <1>3, <2>1, <2>2, <3>1 DEF PopMove, IInv
  <2> QED BY <1>3, <2>3, <2>4, <2>5, <2>6, Positions DEF PopMove, IInv, InOrder
<1>4. CASE PopStore
  <2>1. out \in Values /\ out = log[Len(got) + 1] /\ Len(got) < Len(log)
    BY <1>4, Positions DEF PopStore, IInv, TypeOK
  <2>2. /\ got' \in Seq(Values) /\ Len(got') = Len(got) + 1
        /\ got'[Len(got) + 1] = out
        /\ \A k \in 1 .. Len(got) : got'[k] = got[k]
    BY <1>4, <2>1 DEF PopStore, IInv, TypeOK
  <2>3. tail' = Len(got') % Capacity /\ tail' \in Slots
    BY <1>4, <2>2, Positions, IndexFacts, SMTT(60) DEF PopStore
  <2>4. cpc' \in {"check", "idle"} /\ want' \in Nat /\ (cpc' = "check" => want' >= 1)
    BY <1>4 DEF PopStore, IInv, TypeOK
  <2>5. InOrder'
    <3>1. \A k \in 1 .. (Len(got) + 1) : got'[k] = log[k]
      <4> TAKE k \in 1 .. (Len(got) + 1)
      <4>1. Len(got) \in Nat
        BY Positions
      <4>2. CASE k = Len(got) + 1
        BY <4>2, <2>1, <2>2
      <4>3. CASE k \in 1 .. Len(got)
        <5>1. got[k] = log[k]
          BY <4>3 DEF IInv, InOrder
        <5> QED BY <4>3, <5>1, <2>2
      <4> QED BY <4>1, <4>2, <4>3
    <3> QED BY <1>4, <2>1, <2>2, <3>1, Positions, SMTT(60) DEF PopStore, InOrder
  <2>6. TypeOK'
    BY <1>4, <2>2, <2>3, <2>4 DEF PopStore, IInv, TypeOK
  <2>7. UNCHANGED <<head, ppc, todo, item, log, storage>>
    BY <1>4 DEF PopStore
  <2>8. /\ head = Len(log) % Capacity
        /\ Len(log') <= Len(got') + Capacity - 1
        /\ ppc \in {"move", "store"} => Len(log') < Len(got') + Capacity - 1
    BY <2>2, <2>7, Bounds DEF IInv
  <2>9. \A k \in (Len(got') + 1) .. Len(log) : storage[(k - 1) % Capacity] = log[k]
    <3> TAKE k \in (Len(got') + 1) .. Len(log)
    <3>1. k \in (Len(got) + 1) .. Len(log) /\ k > Len(got) + 1
      BY <2>2, Bounds
    <3> QED BY <3>1 DEF IInv
  <2>10. /\ ppc \in {"check", "move", "store"} => item \in Values /\ todo >= 1
         /\ ppc = "store" => storage[head] = item
    BY DEF IInv
  <2> QED BY <2>2, <2>3, <2>4, <2>5, <2>6, <2>7, <2>8, <2>9, <2>10 DEF IInv
<1> QED BY <1>1, <1>2, <1>3, <1>4 DEF Pop

(* The index invariant holds in every reachable state, for every capacity.  *)
THEOREM SpscRing_Protocol == Spec => []IInv
<1>1. IInv /\ UNCHANGED vars => IInv'
  BY DEF vars, IInv, TypeOK, InOrder
<1> QED BY <1>1, InitInv, PushInv, PopInv, PTL DEF Spec, Next

(* Type correctness. *)
THEOREM SpscRing_TypeOK == Spec => []TypeOK
<1>1. IInv => TypeOK
  BY DEF IInv
<1> QED BY <1>1, SpscRing_Protocol, PTL

(* In-order, exactly-once delivery without a data race on storage_.         *)
THEOREM SpscRing_Safety == Spec => [](InOrder /\ SlotExclusive)
<1>1. IInv => InOrder /\ SlotExclusive
  <2> SUFFICES ASSUME IInv PROVE InOrder /\ SlotExclusive
    OBVIOUS
  <2>1. InOrder
    BY DEF IInv
  <2>2. SlotExclusive
    <3> SUFFICES ASSUME cpc \in {"move", "store"}, head = tail PROVE FALSE
      BY DEF SlotExclusive
    <3>1. Len(log) = Len(got)
      BY Positions
    <3>2. Len(got) < Len(log)
      BY DEF IInv
    <3> QED BY <3>1, <3>2, Bounds
  <2> QED BY <2>1, <2>2
<1> QED BY <1>1, SpscRing_Protocol, PTL

(* "Full" and "empty" are exact. *)
THEOREM SpscRing_HonestAnswers == Spec => HonestAnswers
<1> DEFINE A == /\ ppc = "check" /\ ppc' = "idle" => Len(log) = Len(got) + Capacity - 1
                /\ cpc = "check" /\ cpc' = "idle" => Len(log) = Len(got)
<1>1. IInv /\ [Next]_vars => [A]_vars
  <2> SUFFICES ASSUME IInv, Next PROVE A
    OBVIOUS
  <2>1. ppc = "check" /\ ppc' = "idle" => Succ(head) = tail
    BY DEF Next, Push, Pop, PushCall, PushCheck, PushMove, PushStore, PopCall,
           PopCheck, PopMove, PopStore, producer, consumer
  <2>2. cpc = "check" /\ cpc' = "idle" => head = tail
    BY DEF Next, Push, Pop, PushCall, PushCheck, PushMove, PushStore, PopCall,
           PopCheck, PopMove, PopStore, producer, consumer
  <2> QED BY <2>1, <2>2, Positions
<1> QED BY <1>1, SpscRing_Protocol, PTL DEF Spec, HonestAnswers

(* Refinement: the two release stores are the queue's operations.           *)
THEOREM SpscRing_Refinement == Spec => ImplementsFifo
<1>1. Init => Fifo!Init
  BY DEF Init, Fifo!Init
<1>2. IInv /\ [Next]_vars => [Fifo!Next]_<<log, Len(got)>>
  <2> SUFFICES ASSUME IInv, [Next]_vars PROVE [Fifo!Next]_<<log, Len(got)>>
    OBVIOUS
  <2>1. CASE PushStore
    <3>1. Len(log) < Len(got) + (Capacity - 1) /\ item \in Values
      BY <2>1, Bounds DEF PushStore, IInv
    <3> QED BY <2>1, <3>1 DEF PushStore, Fifo!Next, Fifo!Put, consumer
  <2>2. CASE PopStore
    <3>1. Len(got) < Len(log)
      BY <2>2 DEF PopStore, IInv
    <3>2. Len(got') = Len(got) + 1 /\ log' = log
      BY <2>2 DEF PopStore, producer, IInv, TypeOK
    <3> QED BY <3>1, <3>2 DEF Fifo!Next, Fifo!Take
  <2>3. CASE UNCHANGED <<log, got>>
    BY <2>3
  <2> QED BY <2>1, <2>2, <2>3 DEF Next, Push, Pop, PushCall, PushCheck, PushMove,
             PopCall, PopCheck, PopMove, producer, consumer, vars
<1> QED BY <1>1, <1>2, SpscRing_Protocol, PTL DEF Spec, ImplementsFifo, Fifo!Spec

-----------------------------------------------------------------------------
(* MpscRing.  The consumer keeps its position while it moves an element     *)
(* out, so every slot belongs to one position of the window that starts at  *)
(* dequeue_pos_.                                                            *)

Owns(p) == pc[p] \in {"move", "store"}
Window  == dequeue .. (dequeue + MpscCapacity - 1)

(* The slot of a position in the window is free or being written for it, or *)
(* holds its element.                                                       *)
WindowInv ==
  \A q \in Window : \/ seq[Mpsc!Slot(q)] = q
                    \/ seq[Mpsc!Slot(q)] = q + 1 /\ q < enqueue

MpscProducerInv ==
  \A p \in Producers :
    /\ pos[p] <= enqueue
    /\ pc[p] # "idle" => val[p] \in Values
    /\ pc[p] = "cas" => pos[p] <= seq[Mpsc!Slot(pos[p])]
    /\ Owns(p) => /\ dequeue <= pos[p] /\ pos[p] < enqueue
                  /\ seq[Mpsc!Slot(pos[p])] = pos[p]
                  /\ val[p] = mlog[pos[p] + 1]
    /\ pc[p] = "store" => data[Mpsc!Slot(pos[p])] = val[p]

OwnersInv == \A p, q \in Producers : p # q /\ Owns(p) /\ Owns(q) => pos[p] # pos[q]

MpscConsumerInv ==
  /\ mcpc # "idle" => dequeue < enqueue /\ seq[Mpsc!Slot(dequeue)] = dequeue + 1
  /\ mcpc = "store" => mout = mlog[dequeue + 1]

(* A published element is in its slot until the consumer has moved it out.  *)
MpscDataInv ==
  \A q \in dequeue .. (enqueue - 1) :
    seq[Mpsc!Slot(q)] = q + 1 /\ (q # dequeue \/ mcpc # "store")
      => data[Mpsc!Slot(q)] = mlog[q + 1]

MpscPoppedInv ==
  /\ Len(mlog) = enqueue /\ Len(popped) = dequeue
  /\ \A k \in 1 .. dequeue : popped[k] = mlog[k]

MpscInv == /\ Mpsc!TypeOK /\ Mpsc!Occupancy /\ WindowInv /\ MpscProducerInv /\ OwnersInv
           /\ MpscConsumerInv /\ MpscDataInv /\ MpscPoppedInv

-----------------------------------------------------------------------------
(* What the proofs use of the index pos & kMask. *)
LEMMA InRing == \A a \in Nat : Mpsc!Slot(a) \in Mpsc!Slots
  BY MpscAssumption, ModDiv DEF Mpsc!Slot, Mpsc!Slots

(* Positions of one window that share a slot are equal. *)
LEMMA OneCycle ==
  ASSUME NEW a \in Nat, NEW b \in Nat, Mpsc!Slot(a) = Mpsc!Slot(b),
         a < b + MpscCapacity, b < a + MpscCapacity
  PROVE  a = b
<1>1. MpscCapacity > 0 /\ MpscCapacity \in Nat
  BY MpscAssumption
<1>2. a % MpscCapacity = b % MpscCapacity
  BY DEF Mpsc!Slot
<1>3. CASE a <= b
  BY <1>1, <1>2, <1>3, SameSlot
<1>4. CASE b <= a
  BY <1>1, <1>2, <1>4, SameSlot
<1> QED BY <1>3, <1>4

LEMMA FullCycle == ASSUME NEW a \in Nat PROVE Mpsc!Slot(a + MpscCapacity) = Mpsc!Slot(a)
<1>1. MpscCapacity > 0 /\ MpscCapacity \in Nat
  BY MpscAssumption
<1> QED BY <1>1, NextCycle DEF Mpsc!Slot

LEMMA MpscInitInv == Mpsc!Init => MpscInv
<1> SUFFICES ASSUME Mpsc!Init PROVE MpscInv
  OBVIOUS
<1> USE MpscAssumption DEF Mpsc!Init
<1>1. Mpsc!TypeOK
  BY DEF Mpsc!TypeOK, Mpsc!Slots
<1>2. Mpsc!Occupancy /\ MpscProducerInv /\ OwnersInv /\ MpscConsumerInv /\ MpscDataInv
  BY DEF Mpsc!Occupancy, MpscProducerInv, OwnersInv, Owns, MpscConsumerInv, MpscDataInv
<1>3. WindowInv
  BY FirstCycle, SMTT(60) DEF WindowInv, Window, Mpsc!Slot, Mpsc!Slots
<1>4. MpscPoppedInv
  BY DEF MpscPoppedInv
<1> QED BY <1>1, <1>2, <1>3, <1>4 DEF MpscInv

(* The arithmetic facts that every step below starts from. *)
LEMMA MpscFacts ==
  ASSUME MpscInv
  PROVE  /\ enqueue \in Nat /\ dequeue \in Nat /\ enqueue <= MpscMaxPush
         /\ MpscCapacity \in Nat /\ MpscCapacity >= 2 /\ MpscMaxPush \in Nat
         /\ dequeue <= enqueue /\ enqueue <= dequeue + MpscCapacity
         /\ \A p \in Producers : pos[p] \in Nat /\ pos[p] <= enqueue
                                  /\ Mpsc!Slot(pos[p]) \in Mpsc!Slots
         /\ \A i \in Mpsc!Slots : seq[i] \in Nat
         /\ \A q \in Nat : Mpsc!Slot(q) \in Mpsc!Slots /\ seq[Mpsc!Slot(q)] \in Nat
  BY MpscAssumption, InRing DEF MpscInv, Mpsc!TypeOK, Mpsc!Occupancy, MpscProducerInv

(* A producer whose exchange can succeed finds its slot free for this very  *)
(* position, although it read slot.sequence before the exchange.            *)
LEMMA MpscClaim ==
  ASSUME MpscInv, NEW p \in Producers, pc[p] = "cas", pos[p] = enqueue
  PROVE  seq[Mpsc!Slot(enqueue)] = enqueue /\ enqueue < dequeue + MpscCapacity
<1> USE MpscFacts
<1>1. seq[Mpsc!Slot(enqueue)] >= enqueue
  BY DEF MpscInv, MpscProducerInv
<1>2. enqueue # dequeue + MpscCapacity
  <2> SUFFICES ASSUME enqueue = dequeue + MpscCapacity PROVE FALSE
    OBVIOUS
  <2>1. Mpsc!Slot(enqueue) = Mpsc!Slot(dequeue)
    BY FullCycle
  <2>2. seq[Mpsc!Slot(dequeue)] \in {dequeue, dequeue + 1}
    BY DEF MpscInv, WindowInv, Window
  <2> QED BY <1>1, <2>1, <2>2
<1>3. enqueue \in Window
  BY <1>2 DEF Window
<1> QED BY <1>2, <1>3 DEF MpscInv, WindowInv

(* No two threads are on one slot. *)
LEMMA MpscOwnersApart == MpscInv => Mpsc!SlotExclusive
<1> SUFFICES ASSUME MpscInv PROVE Mpsc!SlotExclusive
  OBVIOUS
<1>1. ASSUME NEW p \in Producers, NEW q \in Producers, p # q, Owns(p), Owns(q),
             Mpsc!Slot(pos[p]) = Mpsc!Slot(pos[q])
      PROVE  FALSE
  BY <1>1, MpscFacts DEF MpscInv, MpscProducerInv, OwnersInv
<1>2. ASSUME NEW p \in Producers, mcpc # "idle", Owns(p), Mpsc!Slot(pos[p]) = Mpsc!Slot(dequeue)
      PROVE  FALSE
  <2>1. /\ pos[p] = dequeue + 1 /\ pos[p] \in Nat /\ dequeue \in Nat
        /\ pos[p] < dequeue + MpscCapacity /\ dequeue < pos[p] + MpscCapacity
    BY <1>2, MpscFacts DEF MpscInv, MpscProducerInv, MpscConsumerInv
  <2> QED BY <1>2, <2>1, OneCycle
<1> QED BY <1>1, <1>2 DEF Mpsc!SlotExclusive, Owns

(* Steps that move one producer between control points and nothing else. *)
LEMMA MpscPushLocal ==
  ASSUME MpscInv, NEW p \in Producers,
         Mpsc!PushCall(p) \/ Mpsc!PushSeq(p) \/ Mpsc!PushCasFail(p)
  PROVE  MpscInv'
<1> USE DEF Mpsc!PushCall, Mpsc!PushSeq, Mpsc!PushCasFail, Mpsc!Goto, Mpsc!consumerVars
<1>1. Mpsc!TypeOK'
  BY ZenonT(60) DEF MpscInv, Mpsc!TypeOK
<1>2. UNCHANGED <<enqueue, dequeue, seq, data, mcpc, mout, mlog, popped>>
  OBVIOUS
<1>3. \A t \in Producers \ {p} : UNCHANGED <<pc[t], pos[t], val[t]>>
  BY DEF MpscInv, Mpsc!TypeOK
<1>4. ~Owns(p) /\ ~Owns(p)'
  BY DEF Owns, MpscInv, Mpsc!TypeOK
<1>5. /\ pos'[p] <= enqueue
      /\ pc'[p] # "idle" => val'[p] \in Values
      /\ pc'[p] = "cas" => pos'[p] <= seq[Mpsc!Slot(pos'[p])]
  <2>1. pc[p] # "idle" => val[p] \in Values
    BY DEF MpscInv, MpscProducerInv
  <2>2. CASE Mpsc!PushSeq(p)
    <3>1. /\ val' = val /\ pc[p] = "seq" /\ pos'[p] \in {pos[p], enqueue}
          /\ pc'[p] = "cas" => pos'[p] = pos[p] /\ seq[Mpsc!Slot(pos[p])] = pos[p]
      BY <2>2 DEF MpscInv, Mpsc!TypeOK
    <3>2. pos[p] \in Nat /\ pos[p] <= enqueue /\ enqueue \in Nat
      BY MpscFacts
    <3> QED BY <2>1, <3>1, <3>2
  <2>3. CASE Mpsc!PushCall(p) \/ Mpsc!PushCasFail(p)
    <3>1. pos'[p] = enqueue /\ pc'[p] = "seq"
      BY <2>3 DEF MpscInv, Mpsc!TypeOK
    <3>2. val'[p] \in Values
      BY <2>1, <2>3 DEF MpscInv, Mpsc!TypeOK
    <3> QED BY <3>1, <3>2, MpscFacts
  <2> QED BY <2>2, <2>3
<1>6. MpscProducerInv'
  BY <1>2, <1>3, <1>4, <1>5 DEF MpscInv, MpscProducerInv, Owns
<1>7. OwnersInv'
  BY <1>3, <1>4 DEF MpscInv, OwnersInv, Owns
<1>8. Mpsc!Occupancy' /\ WindowInv' /\ MpscConsumerInv' /\ MpscDataInv' /\ MpscPoppedInv'
  BY <1>2 DEF MpscInv, Mpsc!Occupancy, WindowInv, Window, MpscConsumerInv, MpscDataInv,
              MpscPoppedInv
<1> QED BY <1>1, <1>6, <1>7, <1>8 DEF MpscInv

(* A producer claims the next position. *)
LEMMA MpscPushCasInv ==
  ASSUME MpscInv, NEW p \in Producers, Mpsc!PushCas(p)
  PROVE  MpscInv'
<1> USE MpscFacts
<1>1. /\ pc[p] = "cas" /\ pos[p] = enqueue /\ enqueue < MpscMaxPush
      /\ enqueue' = enqueue + 1 /\ mlog' = Append(mlog, val[p]) /\ val[p] \in Values
      /\ UNCHANGED <<pos, val, dequeue, mcpc, mout, popped, seq, data>>
      /\ pc' = [pc EXCEPT ![p] = "move"]
  BY DEF Mpsc!PushCas, Mpsc!Goto, Mpsc!consumerVars, MpscInv, MpscProducerInv
<1>2. seq[Mpsc!Slot(enqueue)] = enqueue /\ enqueue < dequeue + MpscCapacity
  BY <1>1, MpscClaim
<1>3. mlog \in Seq(Values) /\ Len(mlog) = enqueue
  BY DEF MpscInv, Mpsc!TypeOK, MpscPoppedInv
<1>4. /\ mlog' \in Seq(Values) /\ Len(mlog') = enqueue + 1
      /\ mlog'[enqueue + 1] = val[p]
      /\ \A k \in 1 .. enqueue : mlog'[k] = mlog[k]
  BY <1>1, <1>3
<1>5. pc'[p] = "move" /\ \A t \in Producers \ {p} : pc'[t] = pc[t]
  BY <1>1 DEF MpscInv, Mpsc!TypeOK
<1>6. Mpsc!TypeOK'
  <2>1. enqueue' \in 0 .. MpscMaxPush
    BY <1>1
  <2> QED BY <1>1, <1>4, <2>1 DEF MpscInv, Mpsc!TypeOK
<1>7. Mpsc!Occupancy'
  BY <1>1, <1>2 DEF Mpsc!Occupancy
<1>8. WindowInv'
  BY <1>1 DEF MpscInv, WindowInv, Window
<1>9. MpscProducerInv'
  <2> SUFFICES ASSUME NEW q \in Producers PROVE MpscProducerInv!(q)'
    BY DEF MpscProducerInv
  <2>1. CASE q = p
    BY <1>1, <1>2, <1>4, <1>5, <2>1 DEF Owns
  <2>2. CASE q # p
    <3>1. Owns(q) => pos[q] + 1 \in 1 .. enqueue
      BY DEF MpscInv, MpscProducerInv
    <3> QED BY <1>1, <1>4, <1>5, <2>2, <3>1, SMTT(60) DEF MpscInv, MpscProducerInv, Owns
  <2> QED BY <2>1, <2>2
<1>10. OwnersInv'
  <2>1. \A q \in Producers : Owns(q) => pos[q] < enqueue
    BY DEF MpscInv, MpscProducerInv
  <2>2. \A q \in Producers \ {p} : Owns(q)' <=> Owns(q)
    BY <1>5 DEF Owns
  <2> QED BY <1>1, <2>1, <2>2 DEF MpscInv, OwnersInv
<1>11. MpscConsumerInv'
  <2>1. mcpc # "idle" => dequeue + 1 \in 1 .. enqueue
    BY DEF MpscInv, MpscConsumerInv
  <2> QED BY <1>1, <1>4, <2>1 DEF MpscInv, MpscConsumerInv
<1>12. MpscDataInv'
  <2> SUFFICES ASSUME NEW q \in dequeue .. enqueue, seq[Mpsc!Slot(q)] = q + 1,
                      q # dequeue \/ mcpc # "store"
               PROVE  data[Mpsc!Slot(q)] = mlog'[q + 1]
    <3>1. dequeue' .. (enqueue' - 1) = dequeue .. enqueue
      BY <1>1
    <3> QED BY <1>1, <3>1 DEF MpscDataInv
  <2>1. q \in dequeue .. (enqueue - 1) /\ q + 1 \in 1 .. enqueue
    BY <1>2
  <2> QED BY <1>4, <2>1 DEF MpscInv, MpscDataInv
<1>13. MpscPoppedInv'
  <2>1. \A k \in 1 .. dequeue : k \in 1 .. enqueue
    OBVIOUS
  <2> QED BY <1>1, <1>4, <2>1 DEF MpscInv, MpscPoppedInv
<1> QED BY <1>6, <1>7, <1>8, <1>9, <1>10, <1>11, <1>12, <1>13 DEF MpscInv

(* A producer writes the element into the slot it owns. *)
LEMMA MpscPushMoveInv ==
  ASSUME MpscInv, NEW p \in Producers, Mpsc!PushMove(p)
  PROVE  MpscInv'
<1> USE MpscFacts
<1>1. /\ pc[p] = "move" /\ pc' = [pc EXCEPT ![p] = "store"]
      /\ data' = [data EXCEPT ![Mpsc!Slot(pos[p])] = val[p]]
      /\ UNCHANGED <<enqueue, pos, val, mlog, dequeue, mcpc, mout, popped, seq>>
  BY DEF Mpsc!PushMove, Mpsc!Goto, Mpsc!consumerVars
<1>2. /\ Owns(p) /\ seq[Mpsc!Slot(pos[p])] = pos[p] /\ val[p] \in Values
      /\ dequeue <= pos[p] /\ pos[p] < enqueue
  BY <1>1 DEF MpscInv, MpscProducerInv, Owns
<1>3. /\ pc'[p] = "store" /\ \A t \in Producers \ {p} : pc'[t] = pc[t]
      /\ data'[Mpsc!Slot(pos[p])] = val[p]
      /\ \A i \in Mpsc!Slots \ {Mpsc!Slot(pos[p])} : data'[i] = data[i]
  BY <1>1 DEF MpscInv, Mpsc!TypeOK
<1>4. \A t \in Producers : Owns(t)' <=> Owns(t)
  BY <1>2, <1>3 DEF Owns
<1>5. Mpsc!TypeOK'
  BY <1>1, <1>2 DEF MpscInv, Mpsc!TypeOK
<1>6. Mpsc!Occupancy' /\ WindowInv' /\ MpscPoppedInv' /\ MpscConsumerInv'
  BY <1>1 DEF MpscInv, Mpsc!Occupancy, WindowInv, Window, MpscPoppedInv, MpscConsumerInv
<1>7. MpscProducerInv'
  <2> SUFFICES ASSUME NEW q \in Producers PROVE MpscProducerInv!(q)'
    BY DEF MpscProducerInv
  <2>1. CASE q = p
    BY <1>1, <1>2, <1>3, <1>4, <2>1 DEF MpscInv, MpscProducerInv
  <2>2. CASE q # p
    <3>1. Owns(q) => Mpsc!Slot(pos[q]) # Mpsc!Slot(pos[p])
      BY <1>2, <2>2, MpscOwnersApart DEF Mpsc!SlotExclusive, Owns
    <3> QED BY <1>1, <1>3, <1>4, <2>2, <3>1 DEF MpscInv, MpscProducerInv, Owns
  <2> QED BY <2>1, <2>2
<1>8. OwnersInv'
  BY <1>1, <1>4 DEF MpscInv, OwnersInv
<1>9. MpscDataInv'
  <2> SUFFICES ASSUME NEW q \in dequeue .. (enqueue - 1), seq[Mpsc!Slot(q)] = q + 1,
                      q # dequeue \/ mcpc # "store"
               PROVE  data'[Mpsc!Slot(q)] = mlog[q + 1]
    BY <1>1 DEF MpscDataInv
  <2>1. q \in Nat /\ Mpsc!Slot(q) \in Mpsc!Slots
    OBVIOUS
  <2>2. Mpsc!Slot(q) # Mpsc!Slot(pos[p])
    <3> SUFFICES ASSUME Mpsc!Slot(q) = Mpsc!Slot(pos[p]) PROVE FALSE
      OBVIOUS
    <3>1. q = pos[p]
      BY <1>2, <2>1, OneCycle
    <3> QED BY <1>2, <3>1
  <2> QED BY <1>3, <2>1, <2>2 DEF MpscInv, MpscDataInv
<1> QED BY <1>5, <1>6, <1>7, <1>8, <1>9 DEF MpscInv

(* A producer publishes its element. *)
LEMMA MpscPushStoreInv ==
  ASSUME MpscInv, NEW p \in Producers, Mpsc!PushStore(p)
  PROVE  MpscInv'
<1> USE MpscFacts
<1>1. /\ pc[p] = "store" /\ pc' = [pc EXCEPT ![p] = "idle"]
      /\ seq' = [seq EXCEPT ![Mpsc!Slot(pos[p])] = pos[p] + 1]
      /\ UNCHANGED <<enqueue, pos, val, mlog, dequeue, mcpc, mout, popped, data>>
  BY DEF Mpsc!PushStore, Mpsc!Goto, Mpsc!consumerVars
<1>2. /\ Owns(p) /\ seq[Mpsc!Slot(pos[p])] = pos[p] /\ dequeue <= pos[p] /\ pos[p] < enqueue
      /\ data[Mpsc!Slot(pos[p])] = mlog[pos[p] + 1]
  BY <1>1 DEF MpscInv, MpscProducerInv, Owns
<1>3. /\ pc'[p] = "idle" /\ \A t \in Producers \ {p} : pc'[t] = pc[t]
      /\ seq'[Mpsc!Slot(pos[p])] = pos[p] + 1
      /\ \A i \in Mpsc!Slots \ {Mpsc!Slot(pos[p])} : seq'[i] = seq[i]
  BY <1>1 DEF MpscInv, Mpsc!TypeOK
<1>4. Mpsc!TypeOK'
  <2>1. seq' \in [Mpsc!Slots -> Nat]
    <3>1. pos[p] + 1 \in Nat
      OBVIOUS
    <3> QED BY <1>1, <3>1 DEF MpscInv, Mpsc!TypeOK
  <2> QED BY <1>1, <2>1 DEF MpscInv, Mpsc!TypeOK
<1>5. \A i \in Mpsc!Slots : seq'[i] \in Nat /\ seq'[i] >= seq[i]
  BY <1>2, <1>3
<1>6. \A q \in Window : q # pos[p] => seq'[Mpsc!Slot(q)] = seq[Mpsc!Slot(q)]
  <2> SUFFICES ASSUME NEW q \in Window, q # pos[p]
               PROVE  Mpsc!Slot(q) # Mpsc!Slot(pos[p]) /\ Mpsc!Slot(q) \in Mpsc!Slots
    BY <1>3
  <2>1. q \in Nat /\ q < pos[p] + MpscCapacity /\ pos[p] < q + MpscCapacity
    BY <1>2 DEF Window
  <2> QED BY <2>1, OneCycle
<1>7. WindowInv'
  BY <1>1, <1>2, <1>3, <1>6 DEF MpscInv, WindowInv, Window
<1>8. Mpsc!Occupancy' /\ MpscPoppedInv'
  BY <1>1 DEF MpscInv, Mpsc!Occupancy, MpscPoppedInv
<1>9. MpscProducerInv'
  <2> SUFFICES ASSUME NEW q \in Producers PROVE MpscProducerInv!(q)'
    BY DEF MpscProducerInv
  <2>1. CASE q = p
    BY <1>1, <1>3, <2>1 DEF Owns
  <2>2. CASE q # p
    <3>1. Owns(q) => Mpsc!Slot(pos[q]) # Mpsc!Slot(pos[p])
      BY <1>2, <2>2, MpscOwnersApart DEF Mpsc!SlotExclusive, Owns
    <3>2. pc'[q] = pc[q] /\ pos[q] \in Nat /\ Mpsc!Slot(pos[q]) \in Mpsc!Slots
      BY <1>3, <2>2
    <3>3. seq'[Mpsc!Slot(pos[q])] \in Nat /\ seq'[Mpsc!Slot(pos[q])] >= seq[Mpsc!Slot(pos[q])]
      BY <1>5, <3>2
    <3> QED BY <1>1, <1>3, <3>1, <3>2, <3>3 DEF MpscInv, MpscProducerInv, Owns
  <2> QED BY <2>1, <2>2
<1>10. OwnersInv'
  BY <1>1, <1>3 DEF MpscInv, OwnersInv, Owns
<1>11. MpscConsumerInv'
  <2>1. mcpc # "idle" => Mpsc!Slot(dequeue) # Mpsc!Slot(pos[p])
    BY <1>2, MpscOwnersApart DEF Mpsc!SlotExclusive, Owns
  <2> QED BY <1>1, <1>3, <2>1 DEF MpscInv, MpscConsumerInv
<1>12. MpscDataInv'
  <2> SUFFICES ASSUME NEW q \in dequeue .. (enqueue - 1), seq'[Mpsc!Slot(q)] = q + 1,
                      q # dequeue \/ mcpc # "store"
               PROVE  data[Mpsc!Slot(q)] = mlog[q + 1]
    BY <1>1 DEF MpscDataInv
  <2>1. CASE q = pos[p]
    BY <1>2, <2>1
  <2>2. CASE q # pos[p]
    <3>1. q \in Window
      BY DEF Window
    <3> QED BY <1>6, <2>2, <3>1 DEF MpscInv, MpscDataInv
  <2> QED BY <2>1, <2>2
<1> QED BY <1>4, <1>7, <1>8, <1>9, <1>10, <1>11, <1>12 DEF MpscInv

(* The consumer finds the next element published. *)
LEMMA MpscPopSeqInv ==
  ASSUME MpscInv, Mpsc!PopSeq
  PROVE  MpscInv'
<1> USE MpscFacts DEF Mpsc!PopSeq, Mpsc!producerVars
<1>1. Mpsc!TypeOK' /\ Mpsc!Occupancy' /\ WindowInv' /\ OwnersInv' /\ MpscPoppedInv'
  BY DEF MpscInv, Mpsc!TypeOK, Mpsc!Occupancy, WindowInv, Window, OwnersInv, Owns, MpscPoppedInv
<1>2. MpscProducerInv' /\ MpscDataInv'
  BY DEF MpscInv, MpscProducerInv, Owns, MpscDataInv
<1>3. dequeue \in Window
  BY DEF Window
<1>4. MpscConsumerInv'
  BY <1>3 DEF MpscInv, WindowInv, MpscConsumerInv
<1> QED BY <1>1, <1>2, <1>4 DEF MpscInv

(* The consumer moves the element out. *)
LEMMA MpscPopMoveInv ==
  ASSUME MpscInv, Mpsc!PopMove
  PROVE  MpscInv'
<1> USE MpscFacts
<1>1. /\ mcpc = "move" /\ mcpc' = "store" /\ mout' = data[Mpsc!Slot(dequeue)]
      /\ data' = [data EXCEPT ![Mpsc!Slot(dequeue)] = NoValue]
      /\ UNCHANGED <<enqueue, pc, pos, val, mlog, dequeue, popped, seq>>
  BY DEF Mpsc!PopMove, Mpsc!producerVars
<1>2. dequeue < enqueue /\ seq[Mpsc!Slot(dequeue)] = dequeue + 1 /\ mout' = mlog[dequeue + 1]
  BY <1>1 DEF MpscInv, MpscConsumerInv, MpscDataInv
<1>3. \A i \in Mpsc!Slots \ {Mpsc!Slot(dequeue)} : data'[i] = data[i]
  BY <1>1 DEF MpscInv, Mpsc!TypeOK
<1>4. Mpsc!TypeOK'
  BY <1>1 DEF MpscInv, Mpsc!TypeOK
<1>5. Mpsc!Occupancy' /\ WindowInv' /\ OwnersInv' /\ MpscPoppedInv'
  BY <1>1 DEF MpscInv, Mpsc!Occupancy, WindowInv, Window, OwnersInv, Owns, MpscPoppedInv
<1>6. MpscConsumerInv'
  BY <1>1, <1>2 DEF MpscConsumerInv
<1>7. MpscProducerInv'
  <2>1. \A p \in Producers : Owns(p) => Mpsc!Slot(pos[p]) # Mpsc!Slot(dequeue)
    BY <1>1, MpscOwnersApart DEF Mpsc!SlotExclusive, Owns
  <2> QED BY <1>1, <1>3, <2>1 DEF MpscInv, MpscProducerInv, Owns
<1>8. MpscDataInv'
  <2> SUFFICES ASSUME NEW q \in dequeue .. (enqueue - 1), seq[Mpsc!Slot(q)] = q + 1, q # dequeue
               PROVE  data'[Mpsc!Slot(q)] = mlog[q + 1]
    BY <1>1 DEF MpscDataInv
  <2>1. Mpsc!Slot(q) # Mpsc!Slot(dequeue) /\ Mpsc!Slot(q) \in Mpsc!Slots
    BY OneCycle
  <2> QED BY <1>3, <2>1 DEF MpscInv, MpscDataInv
<1> QED BY <1>4, <1>5, <1>6, <1>7, <1>8 DEF MpscInv

(* The consumer frees the slot for the next cycle and advances. *)
LEMMA MpscPopStoreInv ==
  ASSUME MpscInv, Mpsc!PopStore
  PROVE  MpscInv'
<1> USE MpscFacts
<1>1. /\ mcpc = "store" /\ mcpc' = "idle"
      /\ seq' = [seq EXCEPT ![Mpsc!Slot(dequeue)] = dequeue + MpscCapacity]
      /\ dequeue' = dequeue + 1 /\ popped' = Append(popped, mout)
      /\ UNCHANGED <<enqueue, pc, pos, val, mlog, mout, data>>
  BY DEF Mpsc!PopStore, Mpsc!producerVars
<1>2. dequeue < enqueue /\ seq[Mpsc!Slot(dequeue)] = dequeue + 1 /\ mout = mlog[dequeue + 1]
  BY <1>1 DEF MpscInv, MpscConsumerInv
<1>3. /\ seq'[Mpsc!Slot(dequeue)] = dequeue + MpscCapacity
      /\ \A i \in Mpsc!Slots \ {Mpsc!Slot(dequeue)} : seq'[i] = seq[i]
  BY <1>1 DEF MpscInv, Mpsc!TypeOK
<1>4. /\ popped \in Seq(Values \cup {NoValue}) /\ Len(popped) = dequeue
      /\ mout \in Values \cup {NoValue}
  BY DEF MpscInv, Mpsc!TypeOK, MpscPoppedInv
<1>5. /\ popped' \in Seq(Values \cup {NoValue}) /\ Len(popped') = dequeue + 1
      /\ popped'[dequeue + 1] = mout
      /\ \A k \in 1 .. dequeue : popped'[k] = popped[k]
  BY <1>1, <1>4
<1>6. Mpsc!TypeOK'
  <2>1. seq' \in [Mpsc!Slots -> Nat]
    <3>1. dequeue + MpscCapacity \in Nat
      OBVIOUS
    <3> QED BY <1>1, <3>1 DEF MpscInv, Mpsc!TypeOK
  <2>2. dequeue' \in 0 .. MpscMaxPush
    BY <1>1, <1>2
  <2> QED BY <1>1, <1>5, <2>1, <2>2 DEF MpscInv, Mpsc!TypeOK
<1>7. \A i \in Mpsc!Slots : seq'[i] \in Nat /\ seq'[i] >= seq[i]
  BY <1>2, <1>3
<1>8. \A q \in (dequeue + 1) .. (dequeue + MpscCapacity - 1) :
        seq'[Mpsc!Slot(q)] = seq[Mpsc!Slot(q)]
  <2> SUFFICES ASSUME NEW q \in (dequeue + 1) .. (dequeue + MpscCapacity - 1)
               PROVE  Mpsc!Slot(q) # Mpsc!Slot(dequeue) /\ Mpsc!Slot(q) \in Mpsc!Slots
    BY <1>3
  <2>1. q \in Nat /\ q # dequeue /\ q < dequeue + MpscCapacity /\ dequeue < q + MpscCapacity
    OBVIOUS
  <2> QED BY <2>1, OneCycle
<1>9. WindowInv'
  <2> SUFFICES ASSUME NEW q \in (dequeue + 1) .. (dequeue + MpscCapacity)
               PROVE  \/ seq'[Mpsc!Slot(q)] = q
                      \/ seq'[Mpsc!Slot(q)] = q + 1 /\ q < enqueue
    BY <1>1 DEF WindowInv, Window
  <2>1. CASE q = dequeue + MpscCapacity
    BY <1>3, <2>1, FullCycle
  <2>2. CASE q # dequeue + MpscCapacity
    BY <1>8, <2>2 DEF MpscInv, WindowInv, Window
  <2> QED BY <2>1, <2>2
<1>10. Mpsc!Occupancy'
  BY <1>1, <1>2 DEF Mpsc!Occupancy
<1>11. MpscProducerInv'
  <2> SUFFICES ASSUME NEW p \in Producers PROVE MpscProducerInv!(p)'
    BY DEF MpscProducerInv
  <2>1. Owns(p) => Mpsc!Slot(pos[p]) # Mpsc!Slot(dequeue)
    BY <1>1, MpscOwnersApart DEF Mpsc!SlotExclusive, Owns
  <2>2. Owns(p) => dequeue + 1 <= pos[p]
    BY <2>1 DEF MpscInv, MpscProducerInv
  <2>3. pos[p] \in Nat /\ Mpsc!Slot(pos[p]) \in Mpsc!Slots
    OBVIOUS
  <2>4. seq'[Mpsc!Slot(pos[p])] \in Nat /\ seq'[Mpsc!Slot(pos[p])] >= seq[Mpsc!Slot(pos[p])]
    BY <1>7, <2>3
  <2> QED BY <1>1, <1>3, <2>1, <2>2, <2>3, <2>4, SMTT(60) DEF MpscInv, MpscProducerInv, Owns
<1>12. OwnersInv' /\ MpscConsumerInv'
  BY <1>1 DEF MpscInv, OwnersInv, Owns, MpscConsumerInv
<1>13. MpscDataInv'
  <2> SUFFICES ASSUME NEW q \in (dequeue + 1) .. (enqueue - 1), seq'[Mpsc!Slot(q)] = q + 1
               PROVE  data[Mpsc!Slot(q)] = mlog[q + 1]
    BY <1>1 DEF MpscDataInv
  <2>1. q \in (dequeue + 1) .. (dequeue + MpscCapacity - 1)
    OBVIOUS
  <2> QED BY <1>8, <2>1 DEF MpscInv, MpscDataInv
<1>14. MpscPoppedInv'
  <2>1. \A k \in 1 .. (dequeue + 1) : popped'[k] = mlog[k]
    BY <1>2, <1>5 DEF MpscInv, MpscPoppedInv
  <2> QED BY <1>1, <1>5, <2>1 DEF MpscInv, MpscPoppedInv
<1> QED BY <1>6, <1>9, <1>10, <1>11, <1>12, <1>13, <1>14 DEF MpscInv

-----------------------------------------------------------------------------
(* Every step of push() and pop() keeps the protocol. *)
LEMMA MpscStepInv == ASSUME MpscInv, [Mpsc!Next]_(Mpsc!vars) PROVE MpscInv'
<1>1. CASE UNCHANGED Mpsc!vars
  BY <1>1 DEF Mpsc!vars, Mpsc!producerVars, Mpsc!consumerVars, MpscInv, Mpsc!TypeOK,
              Mpsc!Occupancy, WindowInv, Window, MpscProducerInv, OwnersInv, Owns,
              MpscConsumerInv, MpscDataInv, MpscPoppedInv
<1>2. CASE \E p \in Producers : Mpsc!PushStep(p)
  BY <1>2, MpscPushLocal, MpscPushCasInv, MpscPushMoveInv, MpscPushStoreInv DEF Mpsc!PushStep
<1>3. CASE Mpsc!PopStep
  BY <1>3, MpscPopSeqInv, MpscPopMoveInv, MpscPopStoreInv DEF Mpsc!PopStep
<1> QED BY <1>1, <1>2, <1>3 DEF Mpsc!Next

(* Between any two accesses of any threads, the slot of a position in the   *)
(* window is free for it, being written by its one owner, or holds its      *)
(* element, whatever the other producers do.                                *)
THEOREM MpscRing_Protocol == Mpsc!Spec => []MpscInv
  BY MpscInitInv, MpscStepInv, PTL DEF Mpsc!Spec

(* What the consumer has received is a prefix of what was claimed. *)
LEMMA MpscPrefix == MpscInv => Mpsc!InOrder
<1> SUFFICES ASSUME MpscInv PROVE Mpsc!InOrder
  OBVIOUS
<1>1. /\ popped \in Seq(Values \cup {NoValue}) /\ mlog \in Seq(Values)
      /\ Len(popped) = dequeue /\ Len(mlog) = enqueue /\ dequeue <= enqueue
      /\ dequeue \in Nat /\ enqueue \in Nat
      /\ \A k \in 1 .. dequeue : popped[k] = mlog[k]
  BY MpscFacts DEF MpscInv, Mpsc!TypeOK, MpscPoppedInv
<1> DEFINE t == SubSeq(mlog, 1, dequeue)
<1>2. t \in Seq(Values) /\ Len(t) = dequeue /\ \A k \in 1 .. dequeue : t[k] = mlog[k]
  BY <1>1
<1>3. popped = t
  BY <1>1, <1>2
<1> QED BY <1>1, <1>3 DEF Mpsc!InOrder

(* An exchange puts an element, the consumer's final store takes one, every *)
(* other step leaves the queue alone.                                       *)
LEMMA MpscFifoStep ==
  ASSUME MpscInv, [Mpsc!Next]_(Mpsc!vars)
  PROVE  [Mpsc!Fifo!Next]_<<mlog, dequeue>>
<1>1. CASE UNCHANGED Mpsc!vars
  BY <1>1 DEF Mpsc!vars, Mpsc!producerVars, Mpsc!consumerVars
<1>2. ASSUME NEW p \in Producers, Mpsc!PushStep(p)
      PROVE  [Mpsc!Fifo!Next]_<<mlog, dequeue>>
  <2>1. CASE Mpsc!PushCas(p)
    <3>1. enqueue < dequeue + MpscCapacity
      BY <2>1, MpscClaim DEF Mpsc!PushCas, Mpsc!Goto
    <3>2. val[p] \in Values /\ Len(mlog) = enqueue
      BY <2>1 DEF MpscInv, MpscProducerInv, MpscPoppedInv, Mpsc!PushCas, Mpsc!Goto
    <3> QED BY <2>1, <3>1, <3>2
            DEF Mpsc!PushCas, Mpsc!consumerVars, Mpsc!Fifo!Next, Mpsc!Fifo!Put
  <2>2. CASE ~Mpsc!PushCas(p)
    BY <1>2, <2>2 DEF Mpsc!PushStep, Mpsc!PushCall, Mpsc!PushSeq, Mpsc!PushCasFail,
                      Mpsc!PushMove, Mpsc!PushStore, Mpsc!consumerVars
  <2> QED BY <2>1, <2>2
<1>3. CASE Mpsc!PopStep
  <2>1. CASE Mpsc!PopStore
    BY <2>1 DEF MpscInv, MpscConsumerInv, MpscPoppedInv, Mpsc!PopStore, Mpsc!producerVars,
                Mpsc!Fifo!Next, Mpsc!Fifo!Take
  <2>2. CASE ~Mpsc!PopStore
    BY <1>3, <2>2 DEF Mpsc!PopStep, Mpsc!PopSeq, Mpsc!PopMove, Mpsc!producerVars
  <2> QED BY <2>1, <2>2
<1> QED BY <1>1, <1>2, <1>3 DEF Mpsc!Next

(* A step of the two buffers is one of MpscRingBuffer or leaves it alone. *)
LEMMA MpscPart == [RingsNext]_<<part, vars, mpscAll>> => [Mpsc!Next]_(Mpsc!vars)
  BY DEF RingsNext, mpscAll, Mpsc!vars, Mpsc!producerVars, Mpsc!consumerVars

(* MpscRingBuffer delivers every element once, in the order of the claims,  *)
(* without two threads on one slot, and is a first-in first-out queue of    *)
(* Capacity elements.                                                       *)
THEOREM MpscRing_Refinement == RingsSpec => MpscImplementsFifo
<1>1. RingsInit => MpscInv
  BY MpscInitInv DEF RingsInit
<1>2. MpscInv /\ [RingsNext]_<<part, vars, mpscAll>> => MpscInv'
  BY MpscPart, MpscStepInv
<1>3. MpscInv => Mpsc!TypeOK /\ Mpsc!InOrder /\ Mpsc!SlotExclusive
  BY MpscPrefix, MpscOwnersApart DEF MpscInv
<1>4. RingsInit => Mpsc!Fifo!Init
  BY DEF RingsInit, Mpsc!Init, Mpsc!Fifo!Init
<1>5. MpscInv /\ [RingsNext]_<<part, vars, mpscAll>> => [Mpsc!Fifo!Next]_<<mlog, dequeue>>
  BY MpscPart, MpscFifoStep
<1> QED BY <1>1, <1>2, <1>3, <1>4, <1>5, PTL
        DEF RingsSpec, MpscImplementsFifo, Mpsc!ImplementsFifo, Mpsc!Fifo!Spec
=============================================================================
