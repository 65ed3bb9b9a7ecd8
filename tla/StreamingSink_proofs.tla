------------------------ MODULE StreamingSink_proofs ------------------------
(***************************************************************************)
(* Proofs about StreamingSink for all ring, row group and file sizes, any  *)
(* number of producers and records, with and without I/O faults.           *)
(***************************************************************************)
EXTENDS StreamingSink, SequenceTheorems, TLAPS

Holding(s) == at[s] \in {"drain", "write", "close"}

(* consumer_mutex_ is held by the side between its lock and its release, and *)
(* only that side has records in hand, which are written when it closes.     *)
MutexInv ==
  \A s \in Sides : /\ consumer = s <=> Holding(s)
                   /\ batch[s] # <<>> => at[s] \in {"drain", "write"}

(* The current writer: none, an open file with room left, or a bad stream   *)
(* whose rows are lost.                                                     *)
WriterInv ==
  /\ cur.state = "none" => cur.rows = <<>> /\ fileRows = 0
  /\ cur.state = "open" => fileRows = Len(cur.rows) /\ fileRows < MaxFileRows
  /\ cur.state = "bad" => ToSet(cur.rows) \subseteq lost

(* The statistics never run ahead of the calls; snap is an old accepted.    *)
CountInv ==
  /\ written + Len(batch["worker"]) + Len(batch["client"]) + Len(ring) <= accepted
  /\ snap <= accepted /\ lost \subseteq 1 .. accepted
  /\ \/ counting = {} /\ submitted = accepted
     \/ counting # {} /\ submitted + 1 = accepted /\ \A p, q \in counting : p = q

(* Which control points of the two threads go together.                     *)
ControlInv ==
  /\ at.client \notin {"idle"} => reply = "none"
  /\ at.client = "join" => running /\ stopReq
  /\ ~running => at.worker \in {"none", "exited"}
  /\ running => at.worker # "none"
  /\ ~early /\ stopReq /\ running => at.client = "join"
  /\ at.worker = "close" => final
  /\ at.worker \in {"wait", "check"} => ~final
  /\ at.worker = "exited" => final \/ dead
  /\ running /\ final => stopReq

(* What was accepted before the call and is still in the ring is drained    *)
(* before the client's flush() writes, or the worker's final drain does.    *)
RingAfter(n) == \A i \in 1 .. Len(ring) : ring[i] > n
SnapInv ==
  /\ at.client \in {"write", "close"} => RingAfter(snap)
  /\ ~early /\ running /\ final /\ ~dead /\ at.worker \in {"write", "close", "exited"}
       => RingAfter(snap)

(* The inductive invariant. *)
IInv ==
  /\ TypeOK /\ ExactlyOnceInOrder
  /\ MutexInv /\ WriterInv /\ CountInv /\ ControlInv /\ SnapInv

-----------------------------------------------------------------------------
(* Sequences of records. *)

(* The members of a sequence are its elements. *)
LEMMA MemberIs ==
  ASSUME NEW s \in Seq(Record), NEW x
  PROVE  x \in ToSet(s) <=> \E i \in 1 .. Len(s) : s[i] = x
<1>1. DOMAIN s = 1 .. Len(s)
  BY LenProperties
<1> QED BY <1>1 DEF ToSet

LEMMA MembersAreRecords ==
  ASSUME NEW s \in Seq(Record)
  PROVE  ToSet(s) \subseteq Record
<1>1. \A i \in 1 .. Len(s) : s[i] \in Record
  BY ElementOfSeq
<1> QED BY <1>1, MemberIs

(* Ahead speaks of members. *)
LEMMA AheadIs ==
  ASSUME NEW s \in Seq(Record), NEW t \in Seq(Record)
  PROVE  Ahead(s, t) <=> \A x \in ToSet(s), y \in ToSet(t) : x < y
<1>1. ASSUME Ahead(s, t), NEW x \in ToSet(s), NEW y \in ToSet(t)
      PROVE  x < y
  <2>1. PICK i \in 1 .. Len(s) : s[i] = x
    BY <1>1, MemberIs
  <2>2. PICK j \in 1 .. Len(t) : t[j] = y
    BY <1>1, MemberIs
  <2> QED BY <1>1, <2>1, <2>2 DEF Ahead
<1>2. ASSUME \A x \in ToSet(s), y \in ToSet(t) : x < y,
             NEW i \in 1 .. Len(s), NEW j \in 1 .. Len(t)
      PROVE  s[i] < t[j]
  <2>1. s[i] \in ToSet(s) /\ t[j] \in ToSet(t)
    BY MemberIs
  <2> QED BY <1>2, <2>1
<1> QED BY <1>1, <1>2 DEF Ahead

(* A concatenation: its members, and when it increases. *)
LEMMA ConcatIs ==
  ASSUME NEW a \in Seq(Record), NEW b \in Seq(Record)
  PROVE  /\ a \o b \in Seq(Record) /\ Len(a) \in Nat /\ Len(b) \in Nat
         /\ Len(a \o b) = Len(a) + Len(b)
         /\ \A i \in 1 .. Len(a) : (a \o b)[i] = a[i]
         /\ \A j \in 1 .. Len(b) : (a \o b)[Len(a) + j] = b[j]
<1>1. /\ a \o b \in Seq(Record) /\ Len(a \o b) = Len(a) + Len(b)
      /\ \A i \in 1 .. Len(a) + Len(b) :
           (a \o b)[i] = IF i <= Len(a) THEN a[i] ELSE b[i - Len(a)]
  BY ConcatProperties
<1>2. Len(a) \in Nat /\ Len(b) \in Nat
  BY LenProperties
<1>3. ASSUME NEW j \in 1 .. Len(b) PROVE (a \o b)[Len(a) + j] = b[j]
  <2>1. /\ Len(a) + j \in 1 .. Len(a) + Len(b) /\ ~(Len(a) + j <= Len(a))
        /\ (Len(a) + j) - Len(a) = j
    BY <1>2
  <2> QED BY <1>1, <2>1
<1>4. ASSUME NEW i \in 1 .. Len(a) PROVE (a \o b)[i] = a[i]
  <2>1. i \in 1 .. Len(a) + Len(b) /\ i <= Len(a)
    BY <1>2
  <2> QED BY <1>1, <2>1
<1> QED BY <1>1, <1>2, <1>3, <1>4

LEMMA ConcatMembers ==
  ASSUME NEW a \in Seq(Record), NEW b \in Seq(Record)
  PROVE  ToSet(a \o b) = ToSet(a) \cup ToSet(b)
<1> DEFINE c == a \o b
<1>1. /\ c \in Seq(Record) /\ Len(a) \in Nat /\ Len(b) \in Nat
      /\ Len(c) = Len(a) + Len(b)
      /\ \A i \in 1 .. Len(a) : c[i] = a[i]
      /\ \A j \in 1 .. Len(b) : c[Len(a) + j] = b[j]
  BY ConcatIs
<1> HIDE DEF c
<1>2. ASSUME NEW x \in ToSet(c) PROVE x \in ToSet(a) \cup ToSet(b)
  <2>1. PICK i \in 1 .. Len(c) : c[i] = x
    BY <1>1, MemberIs
  <2>2. CASE i <= Len(a)
    BY <1>1, <2>1, <2>2, MemberIs
  <2>3. CASE i > Len(a)
    <3>1. PICK j \in 1 .. Len(b) : i = Len(a) + j
      <4>1. i - Len(a) \in 1 .. Len(b) /\ i = Len(a) + (i - Len(a))
        BY <1>1, <2>1, <2>3
      <4> QED BY <4>1
    <3> QED BY <1>1, <2>1, <3>1, MemberIs
  <2> QED BY <1>1, <2>2, <2>3
<1>3. ASSUME NEW x \in ToSet(a) PROVE x \in ToSet(c)
  <2>1. PICK i \in 1 .. Len(a) : a[i] = x
    BY MemberIs
  <2>2. i \in 1 .. Len(c) /\ c[i] = x
    BY <1>1, <2>1
  <2> QED BY <1>1, <2>2, MemberIs
<1>4. ASSUME NEW x \in ToSet(b) PROVE x \in ToSet(c)
  <2>1. PICK j \in 1 .. Len(b) : b[j] = x
    BY MemberIs
  <2>2. Len(a) + j \in 1 .. Len(c) /\ c[Len(a) + j] = x
    BY <1>1, <2>1
  <2> QED BY <1>1, <2>2, MemberIs
<1> QED BY <1>2, <1>3, <1>4 DEF c

LEMMA ConcatIncreasing ==
  ASSUME NEW a \in Seq(Record), NEW b \in Seq(Record)
  PROVE  Increasing(a \o b) <=> Increasing(a) /\ Increasing(b) /\ Ahead(a, b)
<1> DEFINE c == a \o b
<1>1. /\ c \in Seq(Record) /\ Len(a) \in Nat /\ Len(b) \in Nat
      /\ Len(c) = Len(a) + Len(b)
      /\ \A i \in 1 .. Len(a) : c[i] = a[i]
      /\ \A j \in 1 .. Len(b) : c[Len(a) + j] = b[j]
  BY ConcatIs
<1> HIDE DEF c
<1>2. ASSUME Increasing(c) PROVE Increasing(a) /\ Increasing(b) /\ Ahead(a, b)
  <2>1. Increasing(a)
    BY <1>1, <1>2 DEF Increasing
  <2>2. ASSUME NEW i \in 1 .. Len(b), NEW j \in 1 .. Len(b), i < j PROVE b[i] < b[j]
    <3>1. /\ Len(a) + i \in 1 .. Len(c) /\ Len(a) + j \in 1 .. Len(c)
          /\ Len(a) + i < Len(a) + j
      BY <1>1, <2>2
    <3> QED BY <1>1, <1>2, <3>1 DEF Increasing
  <2>3. ASSUME NEW i \in 1 .. Len(a), NEW j \in 1 .. Len(b) PROVE a[i] < b[j]
    <3>1. i \in 1 .. Len(c) /\ Len(a) + j \in 1 .. Len(c) /\ i < Len(a) + j
      BY <1>1
    <3> QED BY <1>1, <1>2, <3>1 DEF Increasing
  <2> QED BY <2>1, <2>2, <2>3 DEF Increasing, Ahead
<1>3. ASSUME Increasing(a), Increasing(b), Ahead(a, b),
             NEW i \in 1 .. Len(c), NEW j \in 1 .. Len(c), i < j
      PROVE  c[i] < c[j]
  <2>1. CASE j <= Len(a)
    BY <1>1, <1>3, <2>1 DEF Increasing
  <2>2. CASE i <= Len(a) /\ j > Len(a)
    <3>1. PICK k \in 1 .. Len(b) : j = Len(a) + k
      <4>1. j - Len(a) \in 1 .. Len(b) /\ j = Len(a) + (j - Len(a))
        BY <1>1, <2>2
      <4> QED BY <4>1
    <3> QED BY <1>1, <1>3, <2>2, <3>1 DEF Ahead
  <2>3. CASE i > Len(a)
    <3>1. PICK k \in 1 .. Len(b) : j = Len(a) + k
      <4>1. j - Len(a) \in 1 .. Len(b) /\ j = Len(a) + (j - Len(a))
        BY <1>1, <1>3, <2>3
      <4> QED BY <4>1
    <3>2. PICK m \in 1 .. Len(b) : i = Len(a) + m
      <4>1. i - Len(a) \in 1 .. Len(b) /\ i = Len(a) + (i - Len(a))
        BY <1>1, <1>3, <2>3
      <4> QED BY <4>1
    <3>3. m < k
      BY <1>1, <1>3, <3>1, <3>2
    <3> QED BY <1>1, <1>3, <3>1, <3>2, <3>3 DEF Increasing
  <2> QED BY <1>1, <2>1, <2>2, <2>3
<1> QED BY <1>2, <1>3 DEF c, Increasing

Assoc(a, b, c) == (a \o b) \o c = a \o (b \o c)

LEMMA ConcatAssoc ==
  ASSUME NEW a \in Seq(Record), NEW b \in Seq(Record), NEW c \in Seq(Record)
  PROVE  Assoc(a, b, c)
<1> QED BY ConcatAssociative DEF Assoc

(* A record moves from the ring to a batch; the front of a batch is written. *)
LEMMA PopMoves ==
  ASSUME NEW o \in Seq(Record), NEW b \in Seq(Record), NEW q \in Seq(Record), q # <<>>
  PROVE  /\ (o \o Append(b, Head(q))) \o Tail(q) = o \o (b \o q)
         /\ Append(b, Head(q)) \in Seq(Record) /\ Tail(q) \in Seq(Record)
         /\ Len(Append(b, Head(q))) = Len(b) + 1 /\ Len(Tail(q)) = Len(q) - 1
         /\ \A i \in 1 .. Len(Tail(q)) : Tail(q)[i] = q[i + 1]
<1> DEFINE h == Head(q)
           t == Tail(q)
           e == <<h>>
<1>1. /\ h \in Record /\ t \in Seq(Record) /\ Len(t) = Len(q) - 1
      /\ \A i \in 1 .. Len(t) : t[i] = q[i + 1]
  BY HeadTailProperties
<1>2. Len(q) \in Nat /\ Len(q) > 0
  BY EmptySeq, LenProperties
<1>3. e \in Seq(Record) /\ Len(e) = 1 /\ e[1] = h
  BY <1>1
<1>4. h = q[1]
  OBVIOUS
<1> HIDE DEF h, t, e
<1>5. q = e \o t
  <2> DEFINE c == e \o t
  <2>1. /\ c \in Seq(Record) /\ Len(c) = 1 + Len(t)
        /\ c[1] = h /\ \A j \in 1 .. Len(t) : c[1 + j] = t[j]
    <3>1. /\ c \in Seq(Record) /\ Len(c) = Len(e) + Len(t)
          /\ \A i \in 1 .. Len(e) : c[i] = e[i]
          /\ \A j \in 1 .. Len(t) : c[Len(e) + j] = t[j]
      BY <1>1, <1>3, ConcatIs
    <3> QED BY <1>3, <3>1
  <2> HIDE DEF c
  <2>2. Len(c) = Len(q)
    BY <1>1, <1>2, <2>1
  <2>3. ASSUME NEW i \in 1 .. Len(q) PROVE q[i] = c[i]
    <3>1. CASE i = 1
      BY <1>4, <2>1, <3>1
    <3>2. CASE i # 1
      <4>1. i - 1 \in 1 .. Len(t) /\ 1 + (i - 1) = i /\ (i - 1) + 1 = i
        BY <1>1, <1>2, <3>2
      <4> QED BY <1>1, <2>1, <4>1
    <3> QED BY <3>1, <3>2
  <2>4. q = c
    BY <2>1, <2>2, <2>3, SeqEqual
  <2> QED BY <2>4 DEF c
<1>6. Append(b, h) = b \o e /\ b \o e \in Seq(Record) /\ Len(Append(b, h)) = Len(b) + 1
  BY <1>1, <1>3, AppendIsConcat, AppendProperties, ConcatIs DEF e
<1>7. Assoc(o, b \o e, t)
  BY <1>1, <1>6, ConcatAssoc
<1>8. Assoc(b, e, t)
  BY <1>1, <1>3, ConcatAssoc
<1>9. (o \o (b \o e)) \o t = o \o (b \o (e \o t))
  BY <1>7, <1>8 DEF Assoc
<1> QED BY <1>1, <1>5, <1>6, <1>9 DEF h, t

(* Writing the first n of a batch b behind the rows o leaves q where it is. *)
Written(o, b, q, n) ==
  LET x == SubSeq(b, 1, n)
      y == SubSeq(b, n + 1, Len(b))
  IN  /\ x \in Seq(Record) /\ y \in Seq(Record) /\ Len(y) = Len(b) - n
      /\ o \o x \in Seq(Record) /\ Len(o \o x) = Len(o) + n /\ y \o q \in Seq(Record)
      /\ (o \o x) \o (y \o q) = o \o (b \o q)
      /\ ((o \o x) \o y) \o q = o \o (b \o q)

LEMMA ChunkMoves ==
  ASSUME NEW o \in Seq(Record), NEW b \in Seq(Record), NEW q \in Seq(Record),
         NEW n \in 0 .. Len(b)
  PROVE  Written(o, b, q, n)
<1> DEFINE x == SubSeq(b, 1, n)
           y == SubSeq(b, n + 1, Len(b))
<1>1. Len(b) \in Nat /\ n \in Nat /\ n <= Len(b)
  BY LenProperties
<1>2. x \in Seq(Record) /\ Len(x) = n
  <2>1. \A i \in 1 .. n : b[i] \in Record
    BY <1>1, ElementOfSeq
  <2> QED BY <1>1, <2>1, SubSeqProperties
<1>3. y \in Seq(Record) /\ Len(y) = Len(b) - n
  <2>1. \A i \in n + 1 .. Len(b) : b[i] \in Record
    BY <1>1, ElementOfSeq
  <2> QED BY <1>1, <2>1, SubSeqProperties
<1>4. x \o y = b
  <2>1. 1 \in 1 .. Len(b) + 1 /\ n \in 1 - 1 .. Len(b) /\ Len(b) \in n .. Len(b)
    BY <1>1
  <2>2. x \o y = SubSeq(b, 1, Len(b))
    BY <2>1, ConcatAdjacentSubSeq
  <2> QED BY <2>2, SubSeqFull
<1> HIDE DEF x, y
<1>5. /\ o \o x \in Seq(Record) /\ Len(o \o x) = Len(o) + n /\ y \o q \in Seq(Record)
      /\ x \o y \in Seq(Record)
  BY <1>2, <1>3, ConcatIs
<1>6. Assoc(o, x, y \o q)
  BY <1>2, <1>5, ConcatAssoc
<1>7. Assoc(x, y, q)
  BY <1>2, <1>3, ConcatAssoc
<1>8. Assoc(o \o x, y, q)
  BY <1>3, <1>5, ConcatAssoc
<1>9. /\ (o \o x) \o (y \o q) = o \o (b \o q)
      /\ ((o \o x) \o y) \o q = o \o (b \o q)
  BY <1>4, <1>6, <1>7, <1>8 DEF Assoc
<1> QED BY <1>2, <1>3, <1>5, <1>9 DEF x, y, Written

-----------------------------------------------------------------------------
(* Files and what is pending: the three ways in which a record moves on.    *)

FileSeq == Seq([rows : Seq(Record), footer : BOOLEAN])

(* ExactlyOnceInOrder of any files, pending records, count and losses.      *)
Sound(fs, p, n, l) ==
  /\ InOrder(fs, p)
  /\ RowsOf(fs) \cup ToSet(p) = (1 .. n) \ l

LEMMA FileRows ==
  ASSUME NEW fs \in FileSeq
  PROVE  /\ Len(fs) \in Nat
         /\ \A i \in 1 .. Len(fs) : fs[i].rows \in Seq(Record) /\ fs[i].footer \in BOOLEAN
         /\ \A x : x \in RowsOf(fs) <=> \E i \in 1 .. Len(fs) : x \in ToSet(fs[i].rows)
<1>1. \A i \in 1 .. Len(fs) : fs[i] \in [rows : Seq(Record), footer : BOOLEAN]
  BY ElementOfSeq DEF FileSeq
<1>2. \A x : x \in RowsOf(fs) <=> \E i \in 1 .. Len(fs) : x \in ToSet(fs[i].rows)
  BY DEF RowsOf
<1> QED BY <1>1, <1>2, LenProperties DEF FileSeq

(* The filed records come before the pending ones. *)
LEMMA FiledFirst ==
  ASSUME NEW fs \in FileSeq, NEW p \in Seq(Record), InOrder(fs, p),
         NEW x \in RowsOf(fs), NEW y \in ToSet(p)
  PROVE  x < y
<1>1. PICK i \in 1 .. Len(fs) : x \in ToSet(fs[i].rows)
  BY FileRows
<1>2. Ahead(fs[i].rows, p) /\ fs[i].rows \in Seq(Record)
  BY FileRows DEF InOrder
<1> QED BY <1>1, <1>2, AheadIs

(* A record is accepted. *)
LEMMA AcceptOne ==
  ASSUME NEW fs \in FileSeq, NEW p \in Seq(Record), NEW n \in Nat, n + 1 \in Record,
         NEW l, l \subseteq 1 .. n, Sound(fs, p, n, l)
  PROVE  Sound(fs, p \o <<n + 1>>, n + 1, l)
<1> DEFINE e == <<n + 1>>
<1>1. e \in Seq(Record) /\ Len(e) = 1 /\ e[1] = n + 1
  OBVIOUS
<1> HIDE DEF e
<1>2. ToSet(e) = {n + 1}
  <2>1. \A x : x \in ToSet(e) <=> \E i \in 1 .. 1 : e[i] = x
    BY <1>1, MemberIs
  <2>2. \A i : i \in 1 .. 1 <=> i = 1
    OBVIOUS
  <2> QED BY <1>1, <2>1, <2>2
<1>3. Increasing(e)
  BY <1>1 DEF Increasing
<1>4. ToSet(p \o e) = ToSet(p) \cup {n + 1}
  BY <1>1, <1>2, ConcatMembers
<1>5. RowsOf(fs) \cup ToSet(p) = (1 .. n) \ l
  BY DEF Sound
<1>6. RowsOf(fs) \cup ToSet(p \o e) = (1 .. (n + 1)) \ l
  <2>1. 1 .. (n + 1) = (1 .. n) \cup {n + 1} /\ n + 1 \notin l
    OBVIOUS
  <2> QED BY <1>4, <1>5, <2>1
<1>7. Ahead(p, e)
  <2>1. \A x \in ToSet(p), y \in ToSet(e) : x < y
    BY <1>2, <1>5
  <2> QED BY <1>1, <2>1, AheadIs
<1>8. Increasing(p \o e)
  BY <1>1, <1>3, <1>7, ConcatIncreasing DEF Sound, InOrder
<1>9. ASSUME NEW i \in 1 .. Len(fs) PROVE Ahead(fs[i].rows, p \o e)
  <2>1. fs[i].rows \in Seq(Record) /\ p \o e \in Seq(Record)
    BY <1>1, FileRows, ConcatIs
  <2>2. \A x \in ToSet(fs[i].rows), y \in ToSet(p) : x < y
    BY <2>1, AheadIs DEF Sound, InOrder
  <2>3. ASSUME NEW x \in ToSet(fs[i].rows) PROVE x < n + 1
    <3>1. x \in RowsOf(fs)
      BY FileRows
    <3> QED BY <1>5, <3>1
  <2>4. \A x \in ToSet(fs[i].rows), y \in ToSet(p \o e) : x < y
    BY <1>4, <2>2, <2>3
  <2> QED BY <2>1, <2>4, AheadIs
<1> QED BY <1>6, <1>8, <1>9 DEF Sound, InOrder, e

(* The first pending records go into a file. *)
LEMMA AppendedFile ==
  ASSUME NEW fs \in FileSeq, NEW a \in Seq(Record), NEW f \in BOOLEAN
  PROVE  /\ Append(fs, [rows |-> a, footer |-> f]) \in FileSeq
         /\ Len(Append(fs, [rows |-> a, footer |-> f])) = Len(fs) + 1
         /\ \A i \in 1 .. Len(fs) : Append(fs, [rows |-> a, footer |-> f])[i] = fs[i]
         /\ Append(fs, [rows |-> a, footer |-> f])[Len(fs) + 1] = [rows |-> a, footer |-> f]
<1> DEFINE File == [rows : Seq(Record), footer : BOOLEAN]
           e    == [rows |-> a, footer |-> f]
<1>1. e \in File
  OBVIOUS
<1> HIDE DEF File, e
<1>2. fs \in Seq(File)
  BY DEF FileSeq, File
<1>3. /\ Append(fs, e) \in Seq(File)
      /\ Len(Append(fs, e)) = Len(fs) + 1
      /\ \A i \in 1 .. Len(fs) : Append(fs, e)[i] = fs[i]
      /\ Append(fs, e)[Len(fs) + 1] = e
  BY <1>1, <1>2, AppendProperties
<1> QED BY <1>3 DEF FileSeq, File, e

LEMMA AppendedRows ==
  ASSUME NEW fs \in FileSeq, NEW a \in Seq(Record), NEW f \in BOOLEAN
  PROVE  RowsOf(Append(fs, [rows |-> a, footer |-> f])) = RowsOf(fs) \cup ToSet(a)
<1> DEFINE gs == Append(fs, [rows |-> a, footer |-> f])
           k  == Len(fs)
<1>1. /\ gs \in FileSeq /\ Len(gs) = k + 1 /\ k \in Nat
      /\ \A i \in 1 .. k : gs[i].rows = fs[i].rows
      /\ gs[k + 1].rows = a
  BY AppendedFile, FileRows
<1> HIDE DEF gs
<1>2. RowsOf(gs) = RowsOf(fs) \cup ToSet(a)
  <2>1. ASSUME NEW x PROVE x \in RowsOf(gs) <=> x \in RowsOf(fs) \/ x \in ToSet(a)
    <3>1. x \in RowsOf(gs) <=> \E i \in 1 .. Len(gs) : x \in ToSet(gs[i].rows)
      BY <1>1, FileRows
    <3>2. x \in RowsOf(fs) <=> \E i \in 1 .. k : x \in ToSet(fs[i].rows)
      BY FileRows
    <3>3. \A i : i \in 1 .. Len(gs) <=> i \in 1 .. k \/ i = k + 1
      BY <1>1
    <3> QED BY <1>1, <3>1, <3>2, <3>3
  <2> QED BY <2>1
<1> QED BY <1>2 DEF gs

LEMMA FilePrefix ==
  ASSUME NEW fs \in FileSeq, NEW a \in Seq(Record), NEW b \in Seq(Record),
         NEW n \in Nat, NEW l, NEW f \in BOOLEAN, Sound(fs, a \o b, n, l)
  PROVE  Sound(Append(fs, [rows |-> a, footer |-> f]), b, n, l)
<1> DEFINE gs == Append(fs, [rows |-> a, footer |-> f])
           k  == Len(fs)
<1>1. /\ gs \in FileSeq /\ Len(gs) = k + 1 /\ k \in Nat
      /\ \A i \in 1 .. k : gs[i].rows = fs[i].rows
      /\ gs[k + 1].rows = a
  BY AppendedFile, FileRows
<1> HIDE DEF gs
<1>2. /\ Increasing(a) /\ Increasing(b) /\ Ahead(a, b)
      /\ ToSet(a \o b) = ToSet(a) \cup ToSet(b) /\ a \o b \in Seq(Record)
  BY ConcatIncreasing, ConcatMembers, ConcatIs DEF Sound, InOrder
<1>3. ASSUME NEW i \in 1 .. k
      PROVE  /\ Increasing(fs[i].rows) /\ Ahead(fs[i].rows, a) /\ Ahead(fs[i].rows, b)
             /\ \A j \in 1 .. k : i < j => Ahead(fs[i].rows, fs[j].rows)
  <2>1. Ahead(fs[i].rows, a \o b) /\ fs[i].rows \in Seq(Record)
    BY FileRows DEF Sound, InOrder
  <2>2. \A x \in ToSet(fs[i].rows), y \in ToSet(a) \cup ToSet(b) : x < y
    BY <1>2, <2>1, AheadIs
  <2>3. Ahead(fs[i].rows, a) /\ Ahead(fs[i].rows, b)
    BY <2>1, <2>2, AheadIs
  <2> QED BY <2>3 DEF Sound, InOrder
<1>4. InOrder(gs, b)
  <2>1. ASSUME NEW i \in 1 .. Len(gs)
        PROVE  Increasing(gs[i].rows) /\ Ahead(gs[i].rows, b)
    <3>1. i \in 1 .. k \/ i = k + 1
      BY <1>1
    <3> QED BY <1>1, <1>2, <1>3, <3>1
  <2>2. ASSUME NEW i \in 1 .. Len(gs), NEW j \in 1 .. Len(gs), i < j
        PROVE  Ahead(gs[i].rows, gs[j].rows)
    <3>1. i \in 1 .. k /\ (j \in 1 .. k \/ j = k + 1)
      <4>1. i \in 1 .. k + 1 /\ j \in 1 .. k + 1
        BY <1>1
      <4> QED BY <1>1, <2>2, <4>1
    <3> QED BY <1>1, <1>3, <2>2, <3>1
  <2> QED BY <1>2, <2>1, <2>2 DEF InOrder
<1>5. RowsOf(gs) = RowsOf(fs) \cup ToSet(a)
  BY AppendedRows DEF gs
<1> QED BY <1>2, <1>4, <1>5 DEF Sound, gs

(* The first pending records are lost. *)
LEMMA LosePrefix ==
  ASSUME NEW fs \in FileSeq, NEW a \in Seq(Record), NEW b \in Seq(Record),
         NEW n \in Nat, NEW l, Sound(fs, a \o b, n, l)
  PROVE  Sound(fs, b, n, l \cup ToSet(a)) /\ ToSet(a) \subseteq 1 .. n
<1>1. /\ Increasing(a) /\ Increasing(b) /\ Ahead(a, b)
      /\ ToSet(a \o b) = ToSet(a) \cup ToSet(b) /\ a \o b \in Seq(Record)
  BY ConcatIncreasing, ConcatMembers, ConcatIs DEF Sound, InOrder
<1>2. \A x \in RowsOf(fs), y \in ToSet(a) \cup ToSet(b) : x < y
  BY <1>1, FiledFirst DEF Sound
<1>3. \A x \in ToSet(a), y \in ToSet(b) : x < y
  BY <1>1, AheadIs
<1>4. RowsOf(fs) \cup (ToSet(a) \cup ToSet(b)) = (1 .. n) \ l
  BY <1>1 DEF Sound
<1>5. \A x \in ToSet(a) : x \notin RowsOf(fs) /\ x \notin ToSet(b) /\ x \in 1 .. n
  BY <1>2, <1>3, <1>4
<1>6. RowsOf(fs) \cup ToSet(b) = (1 .. n) \ (l \cup ToSet(a))
  BY <1>4, <1>5
<1>7. ASSUME NEW i \in 1 .. Len(fs) PROVE Ahead(fs[i].rows, b)
  <2>1. fs[i].rows \in Seq(Record) /\ Ahead(fs[i].rows, a \o b)
    BY FileRows DEF Sound, InOrder
  <2>2. \A x \in ToSet(fs[i].rows), y \in ToSet(b) : x < y
    BY <1>1, <2>1, AheadIs
  <2> QED BY <2>1, <2>2, AheadIs
<1> QED BY <1>1, <1>5, <1>6, <1>7 DEF Sound, InOrder

-----------------------------------------------------------------------------
(* The initial states, and the steps that move no record.                   *)

LEMMA Sizes ==
  /\ SoftCap \in Nat /\ SoftCap > 0 /\ RingCap \in Nat /\ RingCap > 0
  /\ RowGroup \in Nat /\ RowGroup > 0 /\ MaxFileRows \in Nat /\ MaxFileRows > 0
  /\ MaxRecords \in Nat /\ MaxRecords > 0 /\ AutoStart \in BOOLEAN
  BY SizeAssumption

LEMMA EmptyIs ==
  /\ <<>> \in Seq(Record) /\ Len(<<>>) = 0 /\ ToSet(<<>>) = {}
  /\ \A s \in Seq(Record) : s \o <<>> = s /\ <<>> \o s = s
<1>1. <<>> \in Seq(Record) /\ Len(<<>>) = 0
  OBVIOUS
<1>2. ToSet(<<>>) = {}
  <2>1. \A x : x \in ToSet(<<>>) <=> \E i \in 1 .. 0 : <<>>[i] = x
    BY <1>1, MemberIs
  <2>2. \A i : i \notin 1 .. 0
    OBVIOUS
  <2> QED BY <2>1, <2>2
<1>3. \A s \in Seq(Record) : s \o <<>> = s /\ <<>> \o s = s
  BY ConcatEmptySeq
<1> QED BY <1>1, <1>2, <1>3

LEMMA InitInv == Init => IInv
<1> SUFFICES ASSUME Init PROVE IInv
  OBVIOUS
<1>1. TypeOK
  <2>1. at \in [worker : {"none", "wait", "lock", "drain", "write", "check", "close", "exited"},
               client : {"idle", "lock", "drain", "write", "close", "join"}]
    BY DEF Init
  <2>2. /\ batch \in [Sides -> Seq(Record)] /\ ring \in Seq(Record) /\ Len(ring) = 0
        /\ cur \in [rows : Seq(Record), state : {"none", "open", "bad"}]
        /\ files \in Seq([rows : Seq(Record), footer : BOOLEAN])
    BY EmptyIs DEF Init, NoWriter
  <2>3. /\ {accepted, submitted, written, snap} \subseteq 0 .. MaxRecords
        /\ dropped \in Nat /\ fileRows \in Nat /\ counting \subseteq Producers
        /\ lost \subseteq Record /\ Len(ring) <= SoftCap /\ Len(ring) <= RingCap
    BY <2>2, Sizes DEF Init
  <2> QED BY <2>1, <2>2, <2>3, Sizes DEF Init, TypeOK
<1>2. Pending = <<>>
  <2>1. Open = <<>> /\ InHand = <<>> \o <<>> /\ ring = <<>>
    BY DEF Init, NoWriter, Open, InHand, Sides
  <2> QED BY <2>1, EmptyIs DEF Pending
<1>3. ExactlyOnceInOrder
  <2>1. RowsOf(files) = {} /\ (1 .. accepted) \ lost = {}
    BY DEF Init, RowsOf
  <2>2. InOrder(files, Pending)
    BY <1>2 DEF Init, InOrder, Increasing
  <2> QED BY <1>2, <2>1, <2>2, EmptyIs DEF ExactlyOnceInOrder
<1>4. MutexInv
  BY DEF Init, MutexInv, Holding, Sides
<1>5. WriterInv /\ CountInv
  BY DEF Init, WriterInv, CountInv, NoWriter, Sides
<1>6. ControlInv /\ SnapInv
  BY Sizes DEF Init, ControlInv, SnapInv
<1> QED BY <1>1, <1>3, <1>4, <1>5, <1>6 DEF IInv

(* No record moves as long as these stay. *)
dataVars == <<ring, accepted, cur, fileRows, files, lost, batch>>

LEMMA SameRecords ==
  ASSUME ExactlyOnceInOrder, UNCHANGED dataVars
  PROVE  ExactlyOnceInOrder'
<1>1. Pending' = Pending
  BY DEF Pending, Open, InHand, dataVars
<1>2. RowsOf(files)' = RowsOf(files)
  BY DEF RowsOf, dataVars
<1> QED BY <1>1, <1>2 DEF ExactlyOnceInOrder, InOrder, dataVars

LEMMA SameWriter ==
  ASSUME WriterInv, UNCHANGED dataVars
  PROVE  WriterInv'
  BY DEF WriterInv, dataVars

LEMMA SubmitCountInv ==
  ASSUME IInv, NEW p \in Producers, SubmitCount(p)
  PROVE  IInv'
<1> USE DEF SubmitCount, fileVars, threadVars, callVars
<1>1. TypeOK'
  BY DEF IInv, TypeOK, CountInv
<1>2. ExactlyOnceInOrder' /\ WriterInv'
  BY SameRecords, SameWriter DEF IInv, dataVars
<1>3. MutexInv' /\ ControlInv' /\ SnapInv'
  BY DEF IInv, MutexInv, Holding, ControlInv, SnapInv, RingAfter
<1>4. CountInv'
  BY DEF IInv, CountInv, TypeOK
<1> QED BY <1>1, <1>2, <1>3, <1>4 DEF IInv

LEMMA StartInv ==
  ASSUME IInv, Start
  PROVE  IInv'
<1> USE DEF Start, fileVars, ringVars
<1>1. TypeOK'
  BY DEF IInv, TypeOK
<1>2. ExactlyOnceInOrder' /\ WriterInv'
  BY SameRecords, SameWriter DEF IInv, dataVars
<1>3. CountInv'
  BY DEF IInv, CountInv
<1>4. MutexInv'
  BY DEF IInv, MutexInv, Holding, TypeOK, Sides, ControlInv
<1>5. ControlInv'
  BY DEF IInv, ControlInv, TypeOK
<1>6. SnapInv'
  BY DEF IInv, SnapInv, RingAfter, TypeOK
<1> QED BY <1>1, <1>2, <1>3, <1>4, <1>5, <1>6 DEF IInv

LEMMA StopNowaitInv ==
  ASSUME IInv, StopNowait
  PROVE  IInv'
<1> USE DEF StopNowait, fileVars, ringVars
<1>1. TypeOK'
  BY DEF IInv, TypeOK
<1>2. ExactlyOnceInOrder' /\ WriterInv'
  BY SameRecords, SameWriter DEF IInv, dataVars
<1>3. CountInv' /\ MutexInv'
  BY DEF IInv, CountInv, MutexInv, Holding
<1>4. ControlInv' /\ SnapInv'
  BY DEF IInv, ControlInv, SnapInv, RingAfter
<1> QED BY <1>1, <1>2, <1>3, <1>4 DEF IInv

LEMMA StopInv ==
  ASSUME IInv, Stop
  PROVE  IInv'
<1> USE DEF Stop, fileVars, ringVars, Goto
<1>1. TypeOK'
  BY DEF IInv, TypeOK
<1>2. ExactlyOnceInOrder' /\ WriterInv'
  BY SameRecords, SameWriter DEF IInv, dataVars
<1>3. CountInv'
  <2>1. snap' <= accepted'
    BY DEF IInv, TypeOK
  <2> QED BY <2>1 DEF IInv, CountInv
<1>4. MutexInv'
  BY DEF IInv, MutexInv, Holding, TypeOK, Sides
<1>5. ControlInv'
  BY DEF IInv, ControlInv, TypeOK
<1>6. SnapInv'
  BY DEF IInv, SnapInv, ControlInv, RingAfter, TypeOK
<1> QED BY <1>1, <1>2, <1>3, <1>4, <1>5, <1>6 DEF IInv

LEMMA FlushInv ==
  ASSUME IInv, Flush
  PROVE  IInv'
<1> USE DEF Flush, fileVars, ringVars, Goto
<1>1. TypeOK'
  BY DEF IInv, TypeOK
<1>2. ExactlyOnceInOrder' /\ WriterInv'
  BY SameRecords, SameWriter DEF IInv, dataVars
<1>3. CountInv'
  <2>1. snap' <= accepted'
    BY DEF IInv, TypeOK
  <2> QED BY <2>1 DEF IInv, CountInv
<1>4. MutexInv'
  BY DEF IInv, MutexInv, Holding, TypeOK, Sides
<1>5. ControlInv'
  BY DEF IInv, ControlInv, TypeOK
<1>6. SnapInv'
  BY DEF IInv, SnapInv, ControlInv, RingAfter, TypeOK
<1> QED BY <1>1, <1>2, <1>3, <1>4, <1>5, <1>6 DEF IInv

LEMMA WorkerWakeInv ==
  ASSUME IInv, WorkerWake
  PROVE  IInv'
<1> USE DEF WorkerWake, fileVars, ringVars, callVars, Goto
<1>1. TypeOK'
  BY DEF IInv, TypeOK
<1>2. ExactlyOnceInOrder' /\ WriterInv'
  BY SameRecords, SameWriter DEF IInv, dataVars
<1>3. CountInv'
  BY DEF IInv, CountInv
<1>4. MutexInv'
  BY DEF IInv, MutexInv, Holding, TypeOK, Sides
<1>5. ControlInv'
  BY DEF IInv, ControlInv, TypeOK
<1>6. SnapInv'
  BY DEF IInv, SnapInv, RingAfter, TypeOK
<1> QED BY <1>1, <1>2, <1>3, <1>4, <1>5, <1>6 DEF IInv

LEMMA WorkerCheckInv ==
  ASSUME IInv, WorkerCheck
  PROVE  IInv'
<1> USE DEF WorkerCheck, fileVars, ringVars, callVars, Goto
<1>1. TypeOK'
  BY DEF IInv, TypeOK
<1>2. ExactlyOnceInOrder' /\ WriterInv'
  BY SameRecords, SameWriter DEF IInv, dataVars
<1>3. CountInv'
  BY DEF IInv, CountInv
<1>4. MutexInv'
  BY DEF IInv, MutexInv, Holding, TypeOK, Sides
<1>5. ControlInv'
  BY DEF IInv, ControlInv, TypeOK
<1>6. SnapInv'
  BY DEF IInv, SnapInv, RingAfter, TypeOK
<1> QED BY <1>1, <1>2, <1>3, <1>4, <1>5, <1>6 DEF IInv

-----------------------------------------------------------------------------
(* One side at work under consumer_mutex_. *)

LEMMA SinkTypes ==
  ASSUME TypeOK
  PROVE  /\ ring \in Seq(Record) /\ Len(ring) \in Nat /\ accepted \in Nat /\ lost \subseteq Record
         /\ cur.rows \in Seq(Record) /\ Open \in Seq(Record) /\ Pending \in Seq(Record)
         /\ files \in FileSeq /\ fileRows \in Nat /\ written \in Nat
         /\ cur = [rows |-> cur.rows, state |-> cur.state]
         /\ \A s \in Sides : /\ batch[s] \in Seq(Record) /\ Len(batch[s]) \in Nat
                             /\ Open \o batch[s] \in Seq(Record)
                             /\ batch[s] \o ring \in Seq(Record)
<1>1. /\ ring \in Seq(Record) /\ accepted \in Nat /\ lost \subseteq Record
      /\ cur.rows \in Seq(Record) /\ files \in FileSeq /\ fileRows \in Nat /\ written \in Nat
      /\ cur = [rows |-> cur.rows, state |-> cur.state]
      /\ \A s \in Sides : batch[s] \in Seq(Record)
  BY DEF TypeOK, FileSeq
<1>2. Open \in Seq(Record)
  BY <1>1, EmptyIs DEF Open
<1>3. InHand \in Seq(Record)
  BY <1>1, ConcatIs DEF InHand, Sides
<1>4. Pending \in Seq(Record)
  BY <1>1, <1>2, <1>3, ConcatIs DEF Pending
<1> QED BY <1>1, <1>2, <1>4, ConcatIs, LenProperties

(* The batches are one batch if the other side has none. *)
LEMMA Hand ==
  ASSUME NEW b \in [Sides -> Seq(Record)], NEW s \in Sides,
         \A r \in Sides : r # s => b[r] = <<>>
  PROVE  b["worker"] \o b["client"] = b[s]
<1>1. b["worker"] \in Seq(Record) /\ b["client"] \in Seq(Record)
  BY DEF Sides
<1>2. CASE s = "worker"
  BY <1>1, <1>2, EmptyIs DEF Sides
<1>3. CASE s = "client"
  BY <1>1, <1>3, EmptyIs DEF Sides
<1> QED BY <1>2, <1>3 DEF Sides

(* Who holds the mutex works alone. *)
LEMMA Alone ==
  ASSUME MutexInv, NEW s \in Sides, Holding(s)
  PROVE  /\ consumer = s
         /\ \A r \in Sides : r # s => batch[r] = <<>> /\ ~Holding(r)
  BY DEF MutexInv, Holding

LEMMA PendingIs ==
  ASSUME TypeOK, MutexInv, NEW s \in Sides, Holding(s)
  PROVE  /\ InHand = batch[s]
         /\ Pending = Open \o (batch[s] \o ring)
         /\ Pending = (Open \o batch[s]) \o ring
<1>1. InHand = batch[s]
  BY Hand, Alone DEF InHand, TypeOK
<1>2. (Open \o batch[s]) \o ring = Open \o (batch[s] \o ring)
  <2>1. Open \in Seq(Record) /\ batch[s] \in Seq(Record) /\ ring \in Seq(Record)
    BY SinkTypes
  <2>2. Assoc(Open, batch[s], ring)
    BY <2>1, ConcatAssoc
  <2> QED BY <2>2 DEF Assoc
<1> QED BY <1>1, <1>2 DEF Pending

(* What holding side s has pending after it has changed its own batch.      *)
LEMMA PendingNext ==
  ASSUME TypeOK, MutexInv, NEW s \in Sides, Holding(s),
         batch' \in [Sides -> Seq(Record)],
         \A r \in Sides : r # s => batch'[r] = batch[r]
  PROVE  Pending' = Open' \o batch'[s] \o ring'
<1> DEFINE b == batch'
<1>1. b \in [Sides -> Seq(Record)] /\ \A r \in Sides : r # s => b[r] = <<>>
  BY Alone
<1> HIDE DEF b
<1>2. b["worker"] \o b["client"] = b[s]
  BY <1>1, Hand
<1> QED BY <1>2 DEF Pending, InHand, b

(* The mutex and the batches after a step of side s. *)
LEMMA MutexMoves ==
  ASSUME TypeOK, MutexInv, NEW s \in Sides, consumer \in {s, "none"},
         NEW to,
         at'[s] = to, \A r \in Sides : r # s => at'[r] = at[r] /\ batch'[r] = batch[r],
         consumer' \in {s, "none"}, consumer' = s <=> to \in {"drain", "write", "close"},
         batch'[s] # <<>> => to \in {"drain", "write"}
  PROVE  MutexInv'
<1>1. ASSUME NEW r \in Sides, r # s
      PROVE  consumer' # r /\ ~Holding(r)' /\ batch'[r] = <<>>
  BY <1>1 DEF MutexInv, Holding, Sides
<1>2. s # "none"
  BY DEF Sides
<1> QED BY <1>1, <1>2 DEF MutexInv, Holding

(* A control point moves. *)
LEMMA Moves ==
  ASSUME TypeOK, NEW s \in Sides, NEW to, at' = [at EXCEPT ![s] = to]
  PROVE  /\ at'[s] = to /\ \A r \in Sides : r # s => at'[r] = at[r]
         /\ s = "worker" => at'.worker = to /\ at'.client = at.client
         /\ s = "client" => at'.client = to /\ at'.worker = at.worker
         /\ at["worker"] = at.worker /\ at["client"] = at.client
         /\ at'["worker"] = at'.worker /\ at'["client"] = at'.client
  BY DEF TypeOK, Sides

(* The counters, seen from the side that holds the mutex. *)
LEMMA CountSide ==
  ASSUME TypeOK, MutexInv, CountInv, NEW s \in Sides, Holding(s)
  PROVE  written + Len(batch[s]) + Len(ring) <= accepted
<1> DEFINE x == Len(batch["worker"])
           y == Len(batch["client"])
<1>1. x \in Nat /\ y \in Nat /\ written \in Nat /\ Len(ring) \in Nat /\ accepted \in Nat
  BY SinkTypes DEF Sides
<1>2. written + x + y + Len(ring) <= accepted
  BY DEF CountInv
<1>3. Len(batch[s]) = x \/ Len(batch[s]) = y
  BY DEF Sides
<1> HIDE DEF x, y
<1> QED BY <1>1, <1>2, <1>3

LEMMA CountSideNext ==
  ASSUME TypeOK, MutexInv, NEW s \in Sides, Holding(s),
         \A r \in Sides : r # s => batch'[r] = batch[r],
         batch'[s] \in Seq(Record), ring' \in Seq(Record), written' \in Nat, accepted' \in Nat,
         written' + Len(batch'[s]) + Len(ring') <= accepted'
  PROVE  written' + Len(batch'["worker"]) + Len(batch'["client"]) + Len(ring') <= accepted'
<1> DEFINE z == Len(batch'[s])
<1>1. z \in Nat /\ Len(ring') \in Nat
  BY LenProperties
<1>2. \A r \in Sides : r # s => Len(batch'[r]) = 0
  BY Alone, EmptyIs
<1>3. \/ Len(batch'["worker"]) = z /\ Len(batch'["client"]) = 0
      \/ Len(batch'["worker"]) = 0 /\ Len(batch'["client"]) = z
  BY <1>2 DEF Sides
<1> HIDE DEF z
<1>4. written' + z + Len(ring') <= accepted'
  BY DEF z
<1> QED BY <1>1, <1>3, <1>4, SMTT(60)


LEMMA SubmitInv ==
  ASSUME IInv, NEW p \in Producers, Submit(p)
  PROVE  IInv'
<1>1. CASE Full
  <2> USE <1>1 DEF Submit, fileVars, threadVars, callVars
  <2>1. TypeOK'
    BY DEF IInv, TypeOK
  <2>2. ExactlyOnceInOrder' /\ WriterInv'
    BY SameRecords, SameWriter DEF IInv, dataVars
  <2>3. CountInv' /\ MutexInv'
    BY DEF IInv, CountInv, MutexInv, Holding
  <2>4. ControlInv' /\ SnapInv'
    BY DEF IInv, ControlInv, SnapInv, RingAfter
  <2> QED BY <2>1, <2>2, <2>3, <2>4 DEF IInv
<1>2. CASE ~Full
  <2>1. /\ accepted' = accepted + 1 /\ ring' = Append(ring, accepted + 1) /\ counting' = {p}
        /\ accepted < MaxRecords /\ counting = {}
        /\ UNCHANGED <<submitted, dropped, fileVars, threadVars, callVars>>
    BY <1>2 DEF Submit
  <2>2. /\ ring \in Seq(Record) /\ accepted \in Nat /\ accepted + 1 \in Record
        /\ accepted' \in 0 .. MaxRecords
    BY <2>1, Sizes DEF IInv, TypeOK, Record
  <2>3. /\ ring' = ring \o <<accepted + 1>> /\ ring' \in Seq(Record)
        /\ Len(ring') = Len(ring) + 1 /\ Len(ring) \in Nat
        /\ \A i \in 1 .. Len(ring) : ring'[i] = ring[i]
        /\ ring'[Len(ring) + 1] = accepted + 1
    BY <2>1, <2>2, AppendProperties, AppendIsConcat, LenProperties
  <2>4. TypeOK'
    <3>1. Len(ring') <= SoftCap /\ Len(ring') <= RingCap
      BY <1>2, <2>3, Sizes DEF Full
    <3> QED BY <2>1, <2>2, <2>3, <3>1 DEF IInv, TypeOK, fileVars, threadVars, callVars
  <2>5. ExactlyOnceInOrder'
    <3> DEFINE e == <<accepted + 1>>
    <3>1. /\ Open \in Seq(Record) /\ InHand \in Seq(Record) /\ Open \o InHand \in Seq(Record)
          /\ Pending \in Seq(Record) /\ files \in FileSeq /\ e \in Seq(Record)
      <4>1. Open \in Seq(Record) /\ Pending \in Seq(Record) /\ files \in FileSeq
        BY SinkTypes DEF IInv
      <4>2. InHand \in Seq(Record)
        BY SinkTypes, ConcatIs DEF IInv, InHand, Sides
      <4> QED BY <2>2, <4>1, <4>2, ConcatIs
    <3>2. Pending' = (Open \o InHand) \o ring'
      BY <2>1 DEF Pending, Open, InHand, fileVars, threadVars
    <3> HIDE DEF e
    <3>3. Pending' = Pending \o e
      <4>1. Assoc(Open \o InHand, ring, e)
        BY <2>2, <3>1, ConcatAssoc
      <4> QED BY <2>3, <3>2, <4>1 DEF Pending, e, Assoc
    <3>4. Sound(files, Pending, accepted, lost) /\ lost \subseteq 1 .. accepted
      BY DEF IInv, ExactlyOnceInOrder, Sound, CountInv
    <3>5. Sound(files, Pending \o e, accepted + 1, lost)
      BY <2>2, <3>1, <3>4, AcceptOne DEF e
    <3>6. files' = files /\ lost' = lost
      BY <2>1 DEF fileVars
    <3> QED BY <2>1, <3>3, <3>5, <3>6 DEF Sound, ExactlyOnceInOrder
  <2>6. MutexInv' /\ ControlInv'
    BY <2>1 DEF IInv, MutexInv, Holding, ControlInv, threadVars, callVars
  <2>7. WriterInv'
    BY <2>1 DEF IInv, WriterInv, fileVars
  <2>8. CountInv'
    <3>1. /\ written' + Len(batch["worker"])' + Len(batch["client"])' + Len(ring)' <= accepted'
      <4> DEFINE x == Len(batch["worker"])
                 y == Len(batch["client"])
      <4>1. x \in Nat /\ y \in Nat /\ written \in Nat
        BY SinkTypes DEF IInv, Sides
      <4>2. written + x + y + Len(ring) <= accepted
        BY DEF IInv, CountInv
      <4>3. x' = x /\ y' = y /\ written' = written
        BY <2>1 DEF fileVars, threadVars
      <4> HIDE DEF x, y
      <4>4. written + x + y + (Len(ring) + 1) <= accepted + 1
        BY <2>2, <2>3, <4>1, <4>2
      <4>5. written' + x' + y' + Len(ring') <= accepted'
        BY <2>1, <2>3, <4>3, <4>4
      <4> QED BY <4>5 DEF x, y
    <3>2. snap' <= accepted' /\ lost' \subseteq 1 .. accepted'
      BY <2>1, <2>2 DEF IInv, CountInv, TypeOK, fileVars, callVars
    <3>3. counting' # {} /\ submitted' + 1 = accepted' /\ \A x, y \in counting' : x = y
      BY <2>1 DEF IInv, CountInv
    <3> QED BY <3>1, <3>2, <3>3 DEF CountInv
  <2>9. SnapInv'
    <3>1. ASSUME RingAfter(snap) PROVE RingAfter(snap)'
      <4>1. snap' = snap /\ snap \in Nat /\ snap <= accepted
        BY <2>1 DEF IInv, CountInv, TypeOK, callVars
      <4>2. ASSUME NEW i \in 1 .. Len(ring') PROVE ring'[i] > snap
        <5>1. i \in 1 .. Len(ring) \/ i = Len(ring) + 1
          BY <2>3
        <5> QED BY <2>2, <2>3, <3>1, <4>1, <5>1 DEF RingAfter
      <4> QED BY <4>1, <4>2 DEF RingAfter
    <3> QED BY <2>1, <3>1 DEF IInv, SnapInv, threadVars, callVars
  <2> QED BY <2>4, <2>5, <2>6, <2>7, <2>8, <2>9 DEF IInv
<1> QED BY <1>1, <1>2

LEMMA LockInv ==
  ASSUME IInv, NEW s \in Sides, Lock(s)
  PROVE  IInv'
<1>1. at[s] = "lock" /\ at' = [at EXCEPT ![s] = "drain"] /\ consumer = "none" /\ consumer' = s
  BY DEF Lock, Goto
<1>2. batch[s] = <<>> /\ batch \in [Sides -> Seq(Record)]
  BY <1>1 DEF IInv, MutexInv, TypeOK
<1>3. batch' = batch
  BY <1>2 DEF Lock
<1>4. /\ at'[s] = "drain" /\ \A r \in Sides : r # s => at'[r] = at[r]
      /\ s = "worker" => at'.worker = "drain" /\ at'.client = at.client
      /\ s = "client" => at'.client = "drain" /\ at'.worker = at.worker
      /\ at["worker"] = at.worker /\ at["client"] = at.client
  BY <1>1, Moves DEF IInv
<1>5. UNCHANGED <<running, stopReq, final, dead, ringVars, fileVars, callVars>>
  BY DEF Lock
<1>6. TypeOK'
  <2>1. at' \in [worker : {"none", "wait", "lock", "drain", "write", "check", "close", "exited"},
                client : {"idle", "lock", "drain", "write", "close", "join"}]
    BY <1>1 DEF IInv, TypeOK, Sides
  <2>2. consumer' \in Sides \cup {"none"}
    BY <1>1
  <2> QED BY <1>3, <1>5, <2>1, <2>2 DEF IInv, TypeOK, ringVars, fileVars, callVars
<1>7. ExactlyOnceInOrder' /\ WriterInv'
  BY <1>3, <1>5, SameRecords, SameWriter DEF IInv, dataVars, ringVars, fileVars
<1>8. CountInv'
  BY <1>3, <1>5 DEF IInv, CountInv, ringVars, fileVars, callVars
<1>9. MutexInv'
  BY <1>1, <1>2, <1>3, <1>4, MutexMoves DEF IInv
<1>10. ControlInv'
  BY <1>1, <1>4, <1>5 DEF IInv, ControlInv, Sides, TypeOK, callVars
<1>11. SnapInv'
  BY <1>1, <1>4, <1>5 DEF IInv, SnapInv, RingAfter, Sides, TypeOK, callVars, ringVars
<1> QED BY <1>6, <1>7, <1>8, <1>9, <1>10, <1>11 DEF IInv

LEMMA DrainEndInv ==
  ASSUME IInv, NEW s \in Sides, DrainEnd(s)
  PROVE  IInv'
<1>1. /\ at[s] = "drain" /\ at' = [at EXCEPT ![s] = "write"]
      /\ UNCHANGED <<running, stopReq, final, consumer, batch, dead, ringVars, fileVars, callVars>>
  BY DEF DrainEnd, Goto
<1>2. /\ at'[s] = "write" /\ \A r \in Sides : r # s => at'[r] = at[r]
      /\ s = "worker" => at'.worker = "write" /\ at'.client = at.client
      /\ s = "client" => at'.client = "write" /\ at'.worker = at.worker
      /\ at["worker"] = at.worker /\ at["client"] = at.client
  BY <1>1, Moves DEF IInv
<1>3. TypeOK'
  <2>1. at' \in [worker : {"none", "wait", "lock", "drain", "write", "check", "close", "exited"},
                client : {"idle", "lock", "drain", "write", "close", "join"}]
    BY <1>1 DEF IInv, TypeOK, Sides
  <2> QED BY <1>1, <2>1 DEF IInv, TypeOK, ringVars, fileVars, callVars
<1>4. ExactlyOnceInOrder' /\ WriterInv'
  BY <1>1, SameRecords, SameWriter DEF IInv, dataVars, ringVars, fileVars
<1>5. CountInv'
  BY <1>1 DEF IInv, CountInv, ringVars, fileVars, callVars
<1>6. MutexInv'
  <2>1. consumer = s
    BY <1>1, Alone DEF IInv, Holding
  <2> QED BY <1>1, <1>2, <2>1, MutexMoves DEF IInv, Sides
<1>7. ControlInv'
  BY <1>1, <1>2 DEF IInv, ControlInv, Sides, TypeOK, callVars
<1>8. SnapInv'
  <2>1. s = "client" \/ final => RingAfter(snap)'
    <3>1. s = "client" \/ final => ring = <<>>
      BY DEF DrainEnd, BatchFull
    <3> QED BY <1>1, <3>1, EmptyIs DEF RingAfter, ringVars
  <2>2. RingAfter(snap) => RingAfter(snap)'
    BY <1>1 DEF RingAfter, ringVars, callVars
  <2> QED BY <1>1, <1>2, <2>1, <2>2 DEF IInv, SnapInv, Sides, callVars
<1> QED BY <1>3, <1>4, <1>5, <1>6, <1>7, <1>8 DEF IInv

LEMMA WriteEndInv ==
  ASSUME IInv, NEW s \in Sides, WriteEnd(s)
  PROVE  IInv'
<1> DEFINE closes == s = "client" \/ final
           to     == IF closes THEN "close" ELSE "check"
<1>1. /\ at[s] = "write" /\ at' = [at EXCEPT ![s] = to] /\ batch[s] = <<>> /\ ~dead
      /\ closes => consumer' = consumer
      /\ ~closes => consumer' = "none"
      /\ UNCHANGED <<running, stopReq, final, batch, dead, ringVars, fileVars, callVars>>
  BY DEF WriteEnd, Goto
<1>2. (closes => to = "close") /\ (~closes => to = "check" /\ s = "worker" /\ ~final)
  BY DEF Sides
<1> HIDE DEF to
<1>3. /\ at'[s] = to /\ \A r \in Sides : r # s => at'[r] = at[r]
      /\ s = "worker" => at'.worker = to /\ at'.client = at.client
      /\ s = "client" => at'.client = to /\ at'.worker = at.worker
      /\ at["worker"] = at.worker /\ at["client"] = at.client
  BY <1>1, Moves DEF IInv
<1>4. TypeOK'
  BY <1>1, <1>2 DEF IInv, TypeOK, Sides, ringVars, fileVars, callVars
<1>5. ExactlyOnceInOrder' /\ WriterInv'
  BY <1>1, SameRecords, SameWriter DEF IInv, dataVars, ringVars, fileVars
<1>6. CountInv'
  BY <1>1 DEF IInv, CountInv, ringVars, fileVars, callVars
<1>7. MutexInv'
  <2>1. consumer = s
    BY <1>1, Alone DEF IInv, Holding
  <2>2. consumer' \in {s, "none"} /\ (consumer' = s <=> to \in {"drain", "write", "close"})
    BY <1>1, <1>2, <2>1 DEF Sides
  <2>3. \A r \in Sides : r # s => batch'[r] = batch[r]
    BY <1>1
  <2>4. batch'[s] = <<>>
    BY <1>1
  <2> QED BY <1>3, <2>1, <2>2, <2>3, <2>4, MutexMoves DEF IInv
<1>8. ControlInv'
  BY <1>1, <1>2, <1>3 DEF IInv, ControlInv, Sides, TypeOK, callVars
<1>9. SnapInv'
  <2>1. RingAfter(snap) => RingAfter(snap)'
    BY <1>1 DEF RingAfter, ringVars, callVars
  <2> QED BY <1>1, <1>2, <1>3, <2>1 DEF IInv, SnapInv, Sides, callVars
<1> QED BY <1>4, <1>5, <1>6, <1>7, <1>8, <1>9 DEF IInv


LEMMA DrainPopInv ==
  ASSUME IInv, NEW s \in Sides, DrainPop(s)
  PROVE  IInv'
<1>1. /\ at[s] = "drain" /\ ring # <<>> /\ ring' = Tail(ring)
      /\ batch' = [batch EXCEPT ![s] = Append(batch[s], Head(ring))]
      /\ UNCHANGED <<accepted, counting, submitted, dropped, running, stopReq, at,
                     final, consumer, dead, fileVars, callVars>>
  BY DEF DrainPop
<1>2. TypeOK /\ MutexInv /\ Holding(s)
  BY <1>1 DEF IInv, Holding
<1>3. /\ ring \in Seq(Record) /\ batch[s] \in Seq(Record) /\ Open \in Seq(Record)
      /\ Len(ring) \in Nat /\ Len(batch[s]) \in Nat /\ written \in Nat /\ accepted \in Nat
  BY <1>2, SinkTypes
<1>4. /\ (Open \o Append(batch[s], Head(ring))) \o Tail(ring) = Open \o (batch[s] \o ring)
      /\ Append(batch[s], Head(ring)) \in Seq(Record) /\ Tail(ring) \in Seq(Record)
      /\ Len(Append(batch[s], Head(ring))) = Len(batch[s]) + 1
      /\ Len(Tail(ring)) = Len(ring) - 1
      /\ \A i \in 1 .. Len(Tail(ring)) : Tail(ring)[i] = ring[i + 1]
  BY <1>1, <1>3, PopMoves
<1>5. /\ batch' \in [Sides -> Seq(Record)] /\ batch'[s] = Append(batch[s], Head(ring))
      /\ \A r \in Sides : r # s => batch'[r] = batch[r]
  BY <1>1, <1>2, <1>4 DEF TypeOK
<1>6. TypeOK'
  <2>1. Len(ring') <= SoftCap /\ Len(ring') <= RingCap /\ ring' \in Seq(Record)
    BY <1>1, <1>2, <1>3, <1>4, Sizes DEF TypeOK
  <2> QED BY <1>1, <1>2, <1>5, <2>1 DEF TypeOK, fileVars, callVars
<1>7. ExactlyOnceInOrder'
  <2>1. Pending' = Open' \o batch'[s] \o ring'
    BY <1>2, <1>5, PendingNext
  <2>2. Open' = Open
    BY <1>1 DEF Open, fileVars
  <2>3. Pending = Open \o (batch[s] \o ring)
    BY <1>2, PendingIs
  <2>4. Pending' = Pending
    BY <1>1, <1>4, <1>5, <2>1, <2>2, <2>3
  <2>5. RowsOf(files)' = RowsOf(files)
    BY <1>1 DEF RowsOf, fileVars
  <2> QED BY <1>1, <2>4, <2>5 DEF IInv, ExactlyOnceInOrder, InOrder, fileVars
<1>8. MutexInv'
  BY <1>1, <1>2, <1>5 DEF MutexInv, Holding
<1>9. WriterInv' /\ ControlInv'
  BY <1>1 DEF IInv, WriterInv, ControlInv, fileVars, callVars
<1>10. CountInv'
  <2>1. written' + Len(batch'[s]) + Len(ring') <= accepted'
    <3> DEFINE z == Len(batch[s])
    <3>1. written + z + Len(ring) <= accepted /\ z \in Nat
      BY <1>2, <1>3, CountSide DEF IInv
    <3>2. Len(batch'[s]) = z + 1 /\ Len(ring') = Len(ring) - 1
      BY <1>1, <1>4, <1>5
    <3>3. written' = written /\ accepted' = accepted
      BY <1>1 DEF fileVars
    <3> HIDE DEF z
    <3> QED BY <1>3, <3>1, <3>2, <3>3
  <2>2. ring' \in Seq(Record) /\ batch'[s] \in Seq(Record) /\ written' \in Nat /\ accepted' \in Nat
    BY <1>1, <1>3, <1>4, <1>5 DEF fileVars
  <2>3. written' + Len(batch'["worker"]) + Len(batch'["client"]) + Len(ring') <= accepted'
    BY <1>2, <1>5, <2>1, <2>2, CountSideNext DEF IInv
  <2> QED BY <1>1, <2>3 DEF IInv, CountInv, fileVars, callVars
<1>11. SnapInv'
  <2>1. ASSUME RingAfter(snap) PROVE RingAfter(snap)'
    <3>1. ASSUME NEW i \in 1 .. Len(ring') PROVE ring'[i] > snap
      <4>1. i + 1 \in 1 .. Len(ring)
        BY <1>1, <1>3, <1>4
      <4> QED BY <1>1, <1>4, <2>1, <4>1 DEF RingAfter
    <3> QED BY <1>1, <3>1 DEF RingAfter, callVars
  <2> QED BY <1>1, <2>1 DEF IInv, SnapInv, callVars
<1> QED BY <1>6, <1>7, <1>8, <1>9, <1>10, <1>11 DEF IInv

(* What fits into the open file. *)
LEMMA ChunkIs ==
  ASSUME TypeOK, WriterInv, NEW s \in Sides, cur.state # "bad"
  PROVE  /\ Chunk(s) \in 0 .. Len(batch[s]) /\ Chunk(s) \in Nat
         /\ fileRows + Chunk(s) <= MaxFileRows
         /\ batch[s] # <<>> => Chunk(s) > 0
         /\ fileRows = Len(cur.rows) /\ fileRows < MaxFileRows
         /\ Open = cur.rows
<1>1. fileRows = Len(cur.rows) /\ fileRows < MaxFileRows /\ Open = cur.rows
  BY EmptyIs, Sizes DEF TypeOK, WriterInv, Open
<1>2. batch[s] \in Seq(Record) /\ Len(batch[s]) \in Nat /\ fileRows \in Nat
  BY SinkTypes
<1>3. batch[s] # <<>> => Len(batch[s]) > 0
  BY <1>2, EmptySeq
<1> DEFINE z == Len(batch[s])
<1>4. Chunk(s) = IF z < MaxFileRows - fileRows THEN z ELSE MaxFileRows - fileRows
  BY DEF Chunk
<1>5. z \in Nat /\ (batch[s] # <<>> => z > 0)
  BY <1>2, <1>3
<1> HIDE DEF z
<1>6. /\ Chunk(s) \in 0 .. z /\ Chunk(s) \in Nat /\ fileRows + Chunk(s) <= MaxFileRows
      /\ z > 0 => Chunk(s) > 0
  <2> DEFINE c == Chunk(s)
             m == MaxFileRows - fileRows
  <2>1. c = (IF z < m THEN z ELSE m)
    BY <1>4
  <2>2. m \in Nat /\ m > 0 /\ fileRows + m = MaxFileRows
    BY <1>1, <1>2, Sizes
  <2> HIDE DEF c, m
  <2>3. c \in 0 .. z /\ c \in Nat /\ c <= m /\ (z > 0 => c > 0)
    BY <1>5, <2>1, <2>2
  <2>4. fileRows + c <= MaxFileRows
    BY <1>2, <2>2, <2>3, Sizes
  <2> QED BY <2>3, <2>4 DEF c
<1> QED BY <1>1, <1>5, <1>6 DEF z

LEMMA WriteChunkInv ==
  ASSUME IInv, NEW s \in Sides, WriteChunk(s)
  PROVE  IInv'
<1> DEFINE n    == Chunk(s)
           b    == batch[s]
           rest == SubSeq(b, n + 1, Len(b))
           rs   == cur.rows \o SubSeq(b, 1, n)
           roll == fileRows + n >= MaxFileRows
<1>1. /\ at[s] = "write" /\ b # <<>> /\ cur.state # "bad"
      /\ batch' = [batch EXCEPT ![s] = rest]
      /\ written' = written + n
      /\ roll => \E o \in CloseOutcomes \ {"throw"} : CloseInto(o, rs, fileRows + n)
      /\ ~roll => /\ cur' = [rows |-> rs, state |-> "open"]
                  /\ fileRows' = fileRows + n
                  /\ files' = files
      /\ UNCHANGED <<lost, running, stopReq, at, final, consumer, dead, ringVars, callVars>>
  BY DEF WriteChunk
<1>2. TypeOK /\ MutexInv /\ Holding(s) /\ WriterInv /\ CountInv
  BY <1>1 DEF IInv, Holding
<1>3. /\ ring \in Seq(Record) /\ b \in Seq(Record) /\ cur.rows \in Seq(Record)
      /\ Len(ring) \in Nat /\ Len(b) \in Nat /\ written \in Nat /\ accepted \in Nat
      /\ files \in FileSeq /\ fileRows \in Nat
  BY <1>2, SinkTypes
<1>4. /\ n \in 0 .. Len(b) /\ n \in Nat /\ n > 0 /\ fileRows + n <= MaxFileRows
      /\ fileRows = Len(cur.rows) /\ Open = cur.rows
  BY <1>1, <1>2, ChunkIs
<1> HIDE DEF n
<1>5. /\ SubSeq(b, 1, n) \in Seq(Record) /\ rest \in Seq(Record)
      /\ Len(rest) = Len(b) - n
      /\ rs \in Seq(Record) /\ Len(rs) = fileRows + n
      /\ rest \o ring \in Seq(Record)
      /\ rs \o (rest \o ring) = cur.rows \o (b \o ring)
      /\ (rs \o rest) \o ring = cur.rows \o (b \o ring)
  <2> DEFINE o == cur.rows
             q == ring
  <2>1. o \in Seq(Record) /\ b \in Seq(Record) /\ q \in Seq(Record) /\ n \in 0 .. Len(b)
    BY <1>3, <1>4
  <2> HIDE DEF o, q, b
  <2>2. Written(o, b, q, n)
    BY <2>1, ChunkMoves
  <2> QED BY <1>4, <2>2 DEF Written, o, q
<1>6. Pending = cur.rows \o (b \o ring)
  BY <1>2, <1>4, PendingIs
<1> HIDE DEF rs, rest, b, roll
<1>7. /\ batch' \in [Sides -> Seq(Record)] /\ batch'[s] = rest
      /\ \A r \in Sides : r # s => batch'[r] = batch[r]
  BY <1>1, <1>2, <1>5 DEF TypeOK
<1>8. Pending' = Open' \o rest \o ring'
  BY <1>2, <1>7, PendingNext
<1>9. written' \in 0 .. MaxRecords /\ written' + Len(rest) + Len(ring) <= accepted
  <2>1. written + Len(b) + Len(ring) <= accepted
    BY <1>2, CountSide DEF b
  <2>2. accepted <= MaxRecords
    BY <1>2, Sizes DEF TypeOK
  <2> QED BY <1>1, <1>3, <1>4, <1>5, <2>1, <2>2, Sizes
<1>10. /\ cur' \in [rows : Seq(Record), state : {"none", "open", "bad"}]
       /\ fileRows' \in Nat /\ files' \in FileSeq
       /\ InOrder(files', Pending') /\ RowsOf(files') \cup ToSet(Pending') = (1 .. accepted) \ lost
       /\ WriterInv'
  <2>1. Sound(files, Pending, accepted, lost)
    BY DEF IInv, ExactlyOnceInOrder, Sound
  <2>2. CASE roll
    <3>1. PICK o \in CloseOutcomes \ {"throw"} : CloseInto(o, rs, fileRows + n)
      BY <1>1, <2>2
    <3>2. /\ files' = Append(files, [rows |-> rs, footer |-> (o = "ok")])
          /\ cur' = NoWriter /\ fileRows' = 0
      BY <1>3, <1>4, <3>1 DEF CloseInto
    <3>3. Open' = <<>> /\ Pending' = rest \o ring
      BY <1>1, <1>5, <1>8, <3>2, EmptyIs DEF Open, NoWriter, ringVars
    <3>4. Sound(files', rest \o ring, accepted, lost)
      <4> DEFINE q == rest \o ring
      <4>1. q \in Seq(Record) /\ Sound(files, rs \o q, accepted, lost)
        BY <1>5, <1>6, <2>1
      <4> HIDE DEF q
      <4>2. (o = "ok") \in BOOLEAN
        OBVIOUS
      <4>3. Sound(Append(files, [rows |-> rs, footer |-> (o = "ok")]), q, accepted, lost)
        BY <1>3, <1>5, <4>1, <4>2, FilePrefix
      <4> QED BY <3>2, <4>3 DEF q
    <3>5. files' \in FileSeq
      BY <1>3, <1>5, <3>2, AppendedFile
    <3>6. cur' \in [rows : Seq(Record), state : {"none", "open", "bad"}] /\ WriterInv'
      BY <3>2, EmptyIs DEF NoWriter, WriterInv
    <3> QED BY <3>2, <3>3, <3>4, <3>5, <3>6 DEF Sound
  <2>3. CASE ~roll
    <3>1. /\ cur' = [rows |-> rs, state |-> "open"] /\ fileRows' = fileRows + n /\ files' = files
      BY <1>1, <2>3
    <3>2. Open' = rs /\ Pending' = Pending
      BY <1>1, <1>5, <1>6, <1>8, <3>1 DEF Open, ringVars
    <3>3. fileRows' < MaxFileRows /\ fileRows' = Len(rs)
      BY <1>3, <1>4, <1>5, <2>3, <3>1, Sizes DEF roll
    <3>4. cur' \in [rows : Seq(Record), state : {"none", "open", "bad"}] /\ WriterInv'
      BY <1>5, <3>1, <3>3 DEF WriterInv
    <3>5. fileRows' \in Nat
      BY <1>3, <1>4, <3>1
    <3>6. InOrder(files', Pending') /\ RowsOf(files') \cup ToSet(Pending') = (1 .. accepted) \ lost
      BY <2>1, <3>1, <3>2 DEF Sound
    <3> QED BY <1>3, <3>1, <3>4, <3>5, <3>6
  <2> QED BY <2>2, <2>3
<1>11. TypeOK'
  <2>1. /\ cur' \in [rows : Seq(Record), state : {"none", "open", "bad"}] /\ fileRows' \in Nat
        /\ files' \in Seq([rows : Seq(Record), footer : BOOLEAN])
        /\ written' \in 0 .. MaxRecords /\ batch' \in [Sides -> Seq(Record)]
    BY <1>7, <1>9, <1>10 DEF FileSeq
  <2> QED BY <1>1, <1>2, <2>1, SMTT(60) DEF TypeOK, ringVars, callVars
<1>12. ExactlyOnceInOrder'
  <2>1. accepted' = accepted /\ lost' = lost
    BY <1>1 DEF ringVars
  <2> QED BY <1>10, <2>1 DEF ExactlyOnceInOrder
<1>13. MutexInv'
  BY <1>1, <1>2, <1>7 DEF MutexInv, Holding
<1>14. ControlInv' /\ SnapInv'
  BY <1>1 DEF IInv, ControlInv, SnapInv, RingAfter, ringVars, callVars
<1>15. CountInv'
  <2>1. ring' = ring /\ accepted' = accepted
    BY <1>1 DEF ringVars
  <2>2. written' + Len(batch'["worker"]) + Len(batch'["client"]) + Len(ring') <= accepted'
    <3>1. written' \in Nat /\ batch'[s] \in Seq(Record) /\ ring' \in Seq(Record) /\ accepted' \in Nat
      BY <1>3, <1>5, <1>7, <1>9, <2>1
    <3>2. written' + Len(batch'[s]) + Len(ring') <= accepted'
      BY <1>7, <1>9, <2>1
    <3> QED BY <1>2, <1>7, <3>1, <3>2, CountSideNext
  <2> QED BY <1>1, <2>2 DEF IInv, CountInv, ringVars, callVars
<1> QED BY <1>10, <1>11, <1>12, <1>13, <1>14, <1>15 DEF IInv


(* An exception leaves side s: what it had in hand and in the open file is  *)
(* lost, the rest is as it was.                                             *)
LEMMA ThrowLoses ==
  ASSUME IInv, NEW s \in Sides, Holding(s), Throw(s),
         cur' = [cur EXCEPT !.state = "bad"],
         UNCHANGED <<files, ring, accepted>>
  PROVE  /\ ExactlyOnceInOrder' /\ lost' \subseteq 1 .. accepted
         /\ ToSet(cur.rows) \subseteq lost'
         /\ batch' \in [Sides -> Seq(Record)] /\ batch'[s] = <<>>
         /\ \A r \in Sides : r # s => batch'[r] = batch[r]
<1>1. /\ TypeOK /\ MutexInv /\ WriterInv /\ CountInv
      /\ batch' = [batch EXCEPT ![s] = <<>>]
      /\ lost' = lost \cup ToSet(batch[s]) \cup ToSet(cur.rows)
  BY DEF IInv, Throw
<1>2. /\ ring \in Seq(Record) /\ batch[s] \in Seq(Record) /\ cur.rows \in Seq(Record)
      /\ accepted \in Nat /\ files \in FileSeq /\ Open \in Seq(Record)
      /\ Open \o batch[s] \in Seq(Record)
  BY <1>1, SinkTypes
<1>3. /\ batch' \in [Sides -> Seq(Record)] /\ batch'[s] = <<>>
      /\ \A r \in Sides : r # s => batch'[r] = batch[r]
  BY <1>1, EmptyIs DEF TypeOK
<1>4. Pending' = ring
  <2>1. Pending' = Open' \o batch'[s] \o ring'
    BY <1>1, <1>3, PendingNext
  <2>2. Open' = <<>>
    BY <1>1 DEF Open, TypeOK
  <2>3. <<>> \o <<>> = <<>> /\ <<>> \o ring = ring
    BY <1>2, EmptyIs
  <2> QED BY <1>3, <2>1, <2>2, <2>3
<1>5. lost' = lost \cup ToSet(Open \o batch[s])
  <2>1. ToSet(Open \o batch[s]) = ToSet(Open) \cup ToSet(batch[s])
    BY <1>2, ConcatMembers
  <2>2. CASE cur.state = "bad"
    BY <1>1, <2>1, <2>2, EmptyIs DEF Open, WriterInv
  <2>3. CASE cur.state # "bad"
    BY <1>1, <2>1, <2>3 DEF Open
  <2> QED BY <2>2, <2>3
<1>6. /\ Sound(files, ring, accepted, lost \cup ToSet(Open \o batch[s]))
      /\ ToSet(Open \o batch[s]) \subseteq 1 .. accepted
  <2> DEFINE a == Open \o batch[s]
  <2>1. Sound(files, a \o ring, accepted, lost) /\ a \in Seq(Record)
    <3>1. Pending = a \o ring
      BY <1>1, PendingIs
    <3> QED BY <1>2, <3>1 DEF IInv, ExactlyOnceInOrder, Sound
  <2> HIDE DEF a
  <2>2. Sound(files, ring, accepted, lost \cup ToSet(a)) /\ ToSet(a) \subseteq 1 .. accepted
    BY <1>2, <2>1, LosePrefix
  <2> QED BY <2>2 DEF a
<1>7. ExactlyOnceInOrder'
  BY <1>4, <1>5, <1>6 DEF Sound, ExactlyOnceInOrder
<1>8. lost' \subseteq 1 .. accepted
  BY <1>1, <1>5, <1>6 DEF CountInv
<1> QED BY <1>1, <1>3, <1>7, <1>8

LEMMA ThrowInv ==
  ASSUME IInv, NEW s \in Sides, ~dead, Holding(s), Throw(s),
         cur' = [cur EXCEPT !.state = "bad"],
         UNCHANGED <<files, running, stopReq, final, snap, early, ringVars>>,
         fileRows' \in Nat, written' \in Nat, written' + Len(ring) <= accepted
  PROVE  IInv'
<1> DEFINE to == IF s = "worker" THEN "exited" ELSE "idle"
<1>1. /\ TypeOK /\ MutexInv /\ WriterInv /\ CountInv
      /\ at' = [at EXCEPT ![s] = to] /\ dead' = (s = "worker") /\ consumer' = "none"
      /\ reply' = IF s = "client" THEN "throw" ELSE reply
  BY DEF IInv, Throw
<1>2. UNCHANGED <<files, ring, accepted>>
  BY DEF ringVars
<1>3. /\ ExactlyOnceInOrder' /\ lost' \subseteq 1 .. accepted
      /\ ToSet(cur.rows) \subseteq lost'
      /\ batch' \in [Sides -> Seq(Record)] /\ batch'[s] = <<>>
      /\ \A r \in Sides : r # s => batch'[r] = batch[r]
  BY <1>2, ThrowLoses
<1>4. (to = "exited" /\ s = "worker") \/ (to = "idle" /\ s = "client")
  BY DEF Sides
<1> HIDE DEF to
<1>5. /\ at'[s] = to /\ \A r \in Sides : r # s => at'[r] = at[r]
      /\ s = "worker" => at'.worker = to /\ at'.client = at.client
      /\ s = "client" => at'.client = to /\ at'.worker = at.worker
      /\ at["worker"] = at.worker /\ at["client"] = at.client
  BY <1>1, Moves
<1>6. cur'.rows = cur.rows /\ cur'.state = "bad"
  BY <1>1 DEF TypeOK
<1>7. TypeOK'
  <2>1. at' \in [worker : {"none", "wait", "lock", "drain", "write", "check", "close", "exited"},
                client : {"idle", "lock", "drain", "write", "close", "join"}]
    BY <1>1, <1>4 DEF TypeOK
  <2>2. cur' \in [rows : Seq(Record), state : {"none", "open", "bad"}] /\ dead' \in BOOLEAN
    BY <1>1 DEF TypeOK
  <2>3. lost' \subseteq Record
    <3>1. accepted \in Nat /\ accepted <= MaxRecords
      BY <1>1, Sizes DEF TypeOK
    <3>2. 1 .. accepted \subseteq 1 .. MaxRecords
      BY <3>1, Sizes
    <3> QED BY <1>3, <3>2 DEF Record
  <2>4. written' \in 0 .. MaxRecords
    <3>1. accepted <= MaxRecords /\ Len(ring) \in Nat /\ accepted \in Nat
      BY <1>1, SinkTypes, Sizes DEF TypeOK
    <3> QED BY <3>1, Sizes
  <2>5. reply' \in {"none", "started", "ok", "error", "throw"} /\ consumer' \in Sides \cup {"none"}
    BY <1>1 DEF TypeOK
  <2> QED BY <1>1, <1>3, <2>1, <2>2, <2>3, <2>4, <2>5 DEF TypeOK, ringVars
<1>8. MutexInv'
  <2>1. consumer = s
    BY <1>1, Alone
  <2>2. consumer' = s <=> to \in {"drain", "write", "close"}
    BY <1>1, <1>4 DEF Sides
  <2> QED BY <1>1, <1>3, <1>5, <2>1, <2>2, MutexMoves
<1>9. WriterInv'
  BY <1>3, <1>6 DEF WriterInv
<1>10. CountInv'
  <2>1. Len(batch'[s]) = 0
    BY <1>3, EmptyIs
  <2>2. ring' = ring /\ accepted' = accepted /\ ring \in Seq(Record) /\ accepted \in Nat
    BY <1>1, SinkTypes DEF ringVars
  <2>3. written' + Len(batch'[s]) + Len(ring') <= accepted'
    BY <2>1, <2>2
  <2>4. batch'[s] \in Seq(Record)
    BY <1>3, EmptyIs
  <2>5. written' + Len(batch'["worker"]) + Len(batch'["client"]) + Len(ring') <= accepted'
    BY <1>1, <1>3, <2>2, <2>3, <2>4, CountSideNext
  <2> QED BY <1>1, <1>3, <2>2, <2>5 DEF CountInv, ringVars
<1>11. ControlInv' /\ SnapInv'
  <2>1. RingAfter(snap) => RingAfter(snap)'
    BY DEF RingAfter, ringVars
  <2>2. CASE s = "worker"
    <3>1. /\ dead' /\ reply' = reply
          /\ at'.worker = "exited" /\ at'.client = at.client
      BY <1>1, <1>4, <1>5, <2>2
    <3> QED BY <2>1, <3>1 DEF IInv, ControlInv, SnapInv
  <2>3. CASE s = "client"
    <3>1. ~dead' /\ at'.client = "idle" /\ at'.worker = at.worker /\ at.client # "join"
      BY <1>1, <1>4, <1>5, <2>3 DEF Holding
    <3> QED BY <2>1, <3>1 DEF IInv, ControlInv, SnapInv
  <2> QED BY <2>2, <2>3 DEF Sides
<1> QED BY <1>3, <1>7, <1>8, <1>9, <1>10, <1>11 DEF IInv

(* The counters allow for the records in hand. *)
LEMMA HandCounted ==
  ASSUME IInv, NEW s \in Sides, Holding(s)
  PROVE  /\ written + Len(batch[s]) + Len(ring) <= accepted
         /\ Len(batch[s]) \in Nat /\ Len(ring) \in Nat /\ accepted \in Nat /\ written \in Nat
         /\ fileRows \in Nat /\ written + Len(ring) <= accepted
<1>1. /\ Len(batch[s]) \in Nat /\ Len(ring) \in Nat /\ accepted \in Nat /\ written \in Nat
      /\ fileRows \in Nat
  BY SinkTypes DEF IInv
<1>2. written + Len(batch[s]) + Len(ring) <= accepted
  BY CountSide DEF IInv
<1> DEFINE z == Len(batch[s])
<1>3. z \in Nat /\ written + z + Len(ring) <= accepted
  BY <1>1, <1>2
<1> HIDE DEF z
<1>4. written + Len(ring) <= accepted
  BY <1>1, <1>3
<1> QED BY <1>1, <1>2, <1>4

LEMMA WriteThrowInv ==
  ASSUME IInv, NEW s \in Sides, WriteThrow(s)
  PROVE  IInv'
<1>1. ~dead /\ Holding(s) /\ Throw(s) /\ cur' = [cur EXCEPT !.state = "bad"]
  BY DEF WriteThrow, Holding
<1>2. UNCHANGED <<files, running, stopReq, final, snap, early, ringVars>>
  BY DEF WriteThrow
<1>3. fileRows' \in Nat /\ written' \in Nat /\ written' + Len(ring) <= accepted
  BY <1>1, HandCounted DEF WriteThrow
<1> QED BY <1>1, <1>2, <1>3, ThrowInv

LEMMA CloseThrowInv ==
  ASSUME IInv, NEW s \in Sides, CloseThrow(s)
  PROVE  IInv'
<1>1. ~dead /\ Holding(s) /\ Throw(s) /\ cur' = [cur EXCEPT !.state = "bad"]
  BY DEF CloseThrow, Holding
<1>2. UNCHANGED <<files, running, stopReq, final, snap, early, ringVars>>
  BY DEF CloseThrow
<1>3. fileRows' \in Nat /\ written' \in Nat /\ written' + Len(ring) <= accepted
  BY <1>1, HandCounted DEF CloseThrow
<1> QED BY <1>1, <1>2, <1>3, ThrowInv

LEMMA CloseFullThrowInv ==
  ASSUME IInv, NEW s \in Sides, CloseFullThrow(s)
  PROVE  IInv'
<1>1. /\ ~dead /\ Holding(s) /\ Throw(s)
      /\ cur' = [cur EXCEPT !.state = "bad"] /\ cur.state # "bad"
  BY DEF CloseFullThrow, Holding
<1>2. UNCHANGED <<files, running, stopReq, final, snap, early, ringVars>>
  BY DEF CloseFullThrow
<1>3. fileRows' = fileRows + Chunk(s) /\ written' = written + Chunk(s)
  BY DEF CloseFullThrow
<1>4. fileRows' \in Nat /\ written' \in Nat /\ written' + Len(ring) <= accepted
  <2> DEFINE c == Chunk(s)
             z == Len(batch[s])
  <2>1. c \in 0 .. z /\ c \in Nat
    BY <1>1, ChunkIs DEF IInv
  <2>2. /\ z \in Nat /\ written + z + Len(ring) <= accepted /\ Len(ring) \in Nat
        /\ accepted \in Nat /\ written \in Nat /\ fileRows \in Nat
    BY <1>1, HandCounted
  <2>3. fileRows' = fileRows + c /\ written' = written + c
    BY <1>3
  <2> HIDE DEF c, z
  <2> QED BY <2>1, <2>2, <2>3
<1> QED BY <1>1, <1>2, <1>4, ThrowInv

(* open() fails: the batch in hand is lost. *)
LEMMA WriteErrorInv ==
  ASSUME IInv, NEW s \in Sides, WriteError(s)
  PROVE  IInv'
<1>1. /\ at[s] = "write" /\ cur.state = "none" /\ ~dead
      /\ lost' = lost \cup ToSet(batch[s])
      /\ batch' = [batch EXCEPT ![s] = <<>>]
      /\ UNCHANGED <<cur, fileRows, files, written, running, stopReq, final, dead, snap, early, ringVars>>
      /\ s = "client" => /\ at' = [at EXCEPT ![s] = "idle"] /\ reply' = "error"
                         /\ consumer' = "none"
      /\ s # "client" => UNCHANGED <<at, reply, consumer>>
  BY DEF WriteError, Goto
<1>2. TypeOK /\ MutexInv /\ WriterInv /\ CountInv /\ Holding(s)
  BY <1>1 DEF IInv, Holding
<1>3. /\ ring \in Seq(Record) /\ batch[s] \in Seq(Record) /\ accepted \in Nat
      /\ files \in FileSeq /\ written \in Nat
  BY <1>2, SinkTypes
<1>4. /\ batch' \in [Sides -> Seq(Record)] /\ batch'[s] = <<>>
      /\ \A r \in Sides : r # s => batch'[r] = batch[r]
  BY <1>1, <1>2, EmptyIs DEF TypeOK
<1>5. Open = <<>> /\ Open' = <<>> /\ batch[s] \o ring \in Seq(Record)
  BY <1>1, <1>2, SinkTypes DEF Open, WriterInv
<1>6. Pending = batch[s] \o ring /\ Pending' = ring
  <2>1. Pending = Open \o (batch[s] \o ring)
    BY <1>2, PendingIs
  <2>2. Pending' = Open' \o batch'[s] \o ring'
    BY <1>2, <1>4, PendingNext
  <2>3. <<>> \o <<>> = <<>> /\ <<>> \o ring = ring /\ <<>> \o (batch[s] \o ring) = batch[s] \o ring
    BY <1>3, <1>5, EmptyIs
  <2> QED BY <1>1, <1>4, <1>5, <2>1, <2>2, <2>3 DEF ringVars
<1>7. /\ Sound(files, ring, accepted, lost \cup ToSet(batch[s]))
      /\ ToSet(batch[s]) \subseteq 1 .. accepted
  <2> DEFINE a == batch[s]
  <2>1. Sound(files, a \o ring, accepted, lost) /\ a \in Seq(Record)
    BY <1>3, <1>6 DEF IInv, ExactlyOnceInOrder, Sound
  <2> HIDE DEF a
  <2>2. Sound(files, ring, accepted, lost \cup ToSet(a)) /\ ToSet(a) \subseteq 1 .. accepted
    BY <1>3, <2>1, LosePrefix
  <2> QED BY <2>2 DEF a
<1>8. ExactlyOnceInOrder'
  BY <1>1, <1>6, <1>7 DEF ExactlyOnceInOrder, Sound, ringVars
<1>9. at' \in [worker : {"none", "wait", "lock", "drain", "write", "check", "close", "exited"},
              client : {"idle", "lock", "drain", "write", "close", "join"}]
  BY <1>1, <1>2 DEF TypeOK
<1>10. TypeOK'
  <2>1. lost' \subseteq Record
    BY <1>1, <1>2, <1>3, MembersAreRecords DEF TypeOK
  <2>2. reply' \in {"none", "started", "ok", "error", "throw"} /\ consumer' \in Sides \cup {"none"}
    BY <1>1, <1>2 DEF TypeOK
  <2> QED BY <1>1, <1>2, <1>4, <1>9, <2>1, <2>2 DEF TypeOK, ringVars
<1>11. MutexInv'
  <2>1. CASE s = "client"
    <3>1. at'[s] = "idle" /\ \A r \in Sides : r # s => at'[r] = at[r]
      BY <1>1, <1>2, <2>1, Moves
    <3>2. consumer = s
      BY <1>2, Alone
    <3>3. consumer' \in {s, "none"} /\ (consumer' = s <=> "idle" \in {"drain", "write", "close"})
      BY <1>1, <2>1
    <3> QED BY <1>2, <1>4, <3>1, <3>2, <3>3, MutexMoves
  <2>2. CASE s # "client"
    BY <1>1, <1>2, <1>4, <2>2 DEF MutexInv, Holding
  <2> QED BY <2>1, <2>2
<1>12. WriterInv'
  BY <1>1, <1>2 DEF WriterInv
<1>13. CountInv'
  <2>1. Len(batch'[s]) = 0 /\ batch'[s] \in Seq(Record)
    BY <1>4, EmptyIs
  <2>2. ring' = ring /\ accepted' = accepted /\ written' = written
    BY <1>1 DEF ringVars
  <2>3. written + Len(ring) <= accepted /\ Len(ring) \in Nat
    BY <1>2, HandCounted
  <2>4. written' + Len(batch'[s]) + Len(ring') <= accepted'
    BY <1>3, <2>1, <2>2, <2>3
  <2>5. written' + Len(batch'["worker"]) + Len(batch'["client"]) + Len(ring') <= accepted'
    BY <1>2, <1>3, <1>4, <2>1, <2>2, <2>4, CountSideNext
  <2>6. lost' \subseteq 1 .. accepted'
    BY <1>1, <1>2, <1>7, <2>2 DEF CountInv
  <2> QED BY <1>1, <1>2, <2>5, <2>6 DEF CountInv, ringVars
<1>14. ControlInv' /\ SnapInv'
  <2>1. RingAfter(snap) => RingAfter(snap)'
    BY <1>1 DEF RingAfter, ringVars
  <2>2. CASE s = "client"
    <3>1. at'.client = "idle" /\ at'.worker = at.worker
      BY <1>1, <1>2, <2>2, Moves
    <3> QED BY <1>1, <2>1, <3>1 DEF IInv, ControlInv, SnapInv
  <2>3. CASE s # "client"
    BY <1>1, <2>1, <2>3 DEF IInv, ControlInv, SnapInv
  <2> QED BY <2>2, <2>3
<1> QED BY <1>8, <1>10, <1>11, <1>12, <1>13, <1>14 DEF IInv


(* A writer that is closed: its rows are in a file, and nothing is open.    *)
LEMMA Closes ==
  ASSUME TypeOK, WriterInv, NEW b \in Seq(Record), NEW n, NEW l,
         n \in Nat, Sound(files, Open \o b, n, l),
         NEW o \in CloseOutcomes \ {"throw"}, CloseInto(o, cur.rows, fileRows)
  PROVE  /\ Sound(files', b, n, l) /\ Open' = <<>>
         /\ files' \in FileSeq /\ fileRows' = 0 /\ cur' = NoWriter
         /\ RowsOf(files') = RowsOf(files) \cup ToSet(cur.rows)
<1>1. cur.state # "bad"
  BY DEF CloseOutcomes
<1>2. Open = cur.rows /\ fileRows = Len(cur.rows) /\ cur.rows \in Seq(Record) /\ files \in FileSeq
  BY <1>1, SinkTypes, EmptyIs DEF Open, WriterInv, TypeOK
<1>3. Open' = <<>> /\ fileRows' = 0 /\ cur' = NoWriter
  BY DEF CloseInto, NoWriter, Open
<1> DEFINE a == cur.rows
<1>4. a \in Seq(Record) /\ Len(a) = fileRows /\ Sound(files, a \o b, n, l)
  BY <1>2
<1> HIDE DEF a
<1>5. CASE fileRows > 0
  <2>1. files' = Append(files, [rows |-> a, footer |-> (o = "ok")])
    BY <1>5 DEF CloseInto, a
  <2>2. (o = "ok") \in BOOLEAN
    OBVIOUS
  <2>3. Sound(Append(files, [rows |-> a, footer |-> (o = "ok")]), b, n, l)
    BY <1>2, <1>4, <2>2, FilePrefix
  <2>4. files' \in FileSeq
    BY <1>2, <1>4, <2>1, <2>2, AppendedFile
  <2>5. RowsOf(files') = RowsOf(files) \cup ToSet(a)
    BY <1>2, <1>4, <2>1, <2>2, AppendedRows
  <2> QED BY <1>3, <2>1, <2>3, <2>4, <2>5 DEF a
<1>6. CASE ~(fileRows > 0)
  <2>1. files' = files
    BY <1>6 DEF CloseInto
  <2>2. a = <<>>
    <3>1. Len(a) = 0
      BY <1>4, <1>6, LenProperties
    <3> QED BY <1>4, <3>1, EmptySeq
  <2>3. a \o b = b /\ ToSet(a) = {}
    BY <2>2, EmptyIs
  <2> QED BY <1>2, <1>3, <1>4, <2>1, <2>3 DEF a
<1> QED BY <1>5, <1>6

(* What a Close or Join that reports success does to the writer, and what   *)
(* any of them may do.                                                      *)
ClosesWriter ==
  \/ cur.state = "none" /\ UNCHANGED fileVars
  \/ /\ \E o \in CloseOutcomes \ {"throw"} : CloseInto(o, cur.rows, fileRows)
     /\ UNCHANGED <<written, lost>>

MayClose == UNCHANGED fileVars \/ ClosesWriter

LEMMA MayCloseKeeps ==
  ASSUME IInv, MayClose, UNCHANGED <<ring, accepted, batch>>
  PROVE  /\ ExactlyOnceInOrder' /\ WriterInv' /\ UNCHANGED <<written, lost>>
         /\ files' \in FileSeq /\ fileRows' \in Nat
         /\ cur' \in [rows : Seq(Record), state : {"none", "open", "bad"}]
<1>1. TypeOK /\ WriterInv /\ ExactlyOnceInOrder
  BY DEF IInv
<1>2. /\ files \in FileSeq /\ fileRows \in Nat /\ accepted \in Nat /\ Open \in Seq(Record)
      /\ cur \in [rows : Seq(Record), state : {"none", "open", "bad"}]
  BY <1>1, SinkTypes DEF TypeOK
<1>3. CASE UNCHANGED fileVars
  BY <1>1, <1>2, <1>3, SameRecords, SameWriter DEF dataVars, fileVars
<1>4. ASSUME NEW o \in CloseOutcomes \ {"throw"}, CloseInto(o, cur.rows, fileRows),
             UNCHANGED <<written, lost>>
      PROVE  /\ ExactlyOnceInOrder' /\ WriterInv'
             /\ files' \in FileSeq /\ fileRows' \in Nat
             /\ cur' \in [rows : Seq(Record), state : {"none", "open", "bad"}]
  <2> DEFINE b == InHand \o ring
  <2>1. InHand \in Seq(Record) /\ ring \in Seq(Record) /\ b \in Seq(Record)
    <3>1. InHand \in Seq(Record)
      BY <1>1, SinkTypes, ConcatIs DEF InHand, Sides
    <3> QED BY <1>1, <3>1, SinkTypes, ConcatIs
  <2>2. Pending = Open \o b
    <3>1. Assoc(Open, InHand, ring)
      BY <1>2, <2>1, ConcatAssoc
    <3> QED BY <3>1 DEF Pending, Assoc
  <2>3. InHand' = InHand
    BY DEF InHand
  <2>4. Sound(files, Open \o b, accepted, lost)
    BY <1>1, <2>2 DEF ExactlyOnceInOrder, Sound
  <2>5. Pending' = Open' \o InHand \o ring
    BY <2>3 DEF Pending
  <2> HIDE DEF b
  <2>6. /\ Sound(files', b, accepted, lost) /\ Open' = <<>>
        /\ files' \in FileSeq /\ fileRows' = 0 /\ cur' = NoWriter
    BY <1>1, <1>2, <1>4, <2>1, <2>4, Closes
  <2>7. Pending' = b
    BY <2>1, <2>5, <2>6, EmptyIs DEF b
  <2>8. ExactlyOnceInOrder'
    BY <1>4, <2>6, <2>7 DEF ExactlyOnceInOrder, Sound
  <2> QED BY <2>6, <2>8, EmptyIs DEF WriterInv, NoWriter
<1> QED BY <1>1, <1>3, <1>4 DEF MayClose, ClosesWriter, fileVars

LEMMA CloseInv ==
  ASSUME IInv, NEW s \in Sides, Close(s)
  PROVE  IInv'
<1> DEFINE to == IF s = "client" THEN "idle" ELSE "exited"
<1>1. /\ at[s] = "close" /\ at' = [at EXCEPT ![s] = to] /\ consumer' = "none" /\ ~dead
      /\ reply' = IF s = "client" THEN "ok" ELSE reply
      /\ MayClose
      /\ UNCHANGED <<running, stopReq, final, batch, dead, snap, early, ringVars>>
  BY DEF Close, Goto, MayClose, ClosesWriter
<1>2. TypeOK /\ MutexInv /\ WriterInv /\ CountInv /\ Holding(s)
  BY <1>1 DEF IInv, Holding
<1>3. (to = "exited" /\ s = "worker") \/ (to = "idle" /\ s = "client")
  BY DEF Sides
<1> HIDE DEF to
<1>4. /\ at'[s] = to /\ \A r \in Sides : r # s => at'[r] = at[r]
      /\ s = "worker" => at'.worker = to /\ at'.client = at.client
      /\ s = "client" => at'.client = to /\ at'.worker = at.worker
      /\ at["worker"] = at.worker /\ at["client"] = at.client
  BY <1>1, <1>2, Moves
<1>5. /\ ExactlyOnceInOrder' /\ WriterInv' /\ UNCHANGED <<written, lost>>
      /\ files' \in FileSeq /\ fileRows' \in Nat
      /\ cur' \in [rows : Seq(Record), state : {"none", "open", "bad"}]
  BY <1>1, MayCloseKeeps DEF ringVars
<1>6. TypeOK'
  <2>1. at' \in [worker : {"none", "wait", "lock", "drain", "write", "check", "close", "exited"},
                client : {"idle", "lock", "drain", "write", "close", "join"}]
    BY <1>1, <1>2, <1>3 DEF TypeOK
  <2>2. reply' \in {"none", "started", "ok", "error", "throw"}
    BY <1>1, <1>2 DEF TypeOK
  <2> QED BY <1>1, <1>2, <1>5, <2>1, <2>2 DEF TypeOK, FileSeq, ringVars
<1>7. MutexInv'
  <2>1. consumer = s /\ batch[s] = <<>>
    BY <1>1, <1>2, Alone DEF MutexInv
  <2>2. consumer' = s <=> to \in {"drain", "write", "close"}
    BY <1>1, <1>3 DEF Sides
  <2>3. \A r \in Sides : r # s => at'[r] = at[r] /\ batch'[r] = batch[r]
    BY <1>1, <1>4
  <2>4. batch'[s] # <<>> => to \in {"drain", "write"}
    BY <1>1, <2>1
  <2> QED BY <1>1, <1>2, <1>4, <2>1, <2>2, <2>3, <2>4, MutexMoves
<1>8. CountInv'
  BY <1>1, <1>2, <1>5 DEF CountInv, ringVars
<1>9. ControlInv' /\ SnapInv'
  <2>1. RingAfter(snap) => RingAfter(snap)'
    BY <1>1 DEF RingAfter, ringVars
  <2>2. CASE s = "worker"
    <3>1. /\ dead' = dead /\ reply' = reply /\ at.worker = "close"
          /\ at'.worker = "exited" /\ at'.client = at.client
      BY <1>1, <1>3, <1>4, <2>2
    <3> QED BY <1>1, <2>1, <3>1 DEF IInv, ControlInv, SnapInv
  <2>3. CASE s = "client"
    <3>1. at'.client = "idle" /\ at'.worker = at.worker /\ at.client = "close"
      BY <1>1, <1>3, <1>4, <2>3
    <3> QED BY <1>1, <2>1, <3>1 DEF IInv, ControlInv, SnapInv
  <2> QED BY <2>2, <2>3 DEF Sides
<1> QED BY <1>5, <1>6, <1>7, <1>8, <1>9 DEF IInv

LEMMA JoinCloses == Join => MayClose /\ (reply' = "ok" => ClosesWriter)
  BY DEF Join, MayClose, ClosesWriter

LEMMA JoinInv ==
  ASSUME IInv, Join
  PROVE  IInv'
<1>1. /\ at.worker = "exited" /\ at["client"] = "join" /\ at' = [at EXCEPT !["client"] = "idle"]
      /\ running' = FALSE /\ ~dead /\ reply' \in {"ok", "throw"}
      /\ MayClose
      /\ UNCHANGED <<stopReq, final, consumer, batch, dead, snap, early, ringVars>>
  BY JoinCloses DEF Join, Goto
<1>2. TypeOK /\ MutexInv /\ WriterInv /\ CountInv
  BY DEF IInv
<1>3. /\ at'["client"] = "idle" /\ at'["worker"] = at["worker"]
      /\ at'.client = "idle" /\ at'.worker = at.worker /\ at.client = "join"
  BY <1>1, <1>2, Moves DEF Sides
<1>4. /\ ExactlyOnceInOrder' /\ WriterInv' /\ UNCHANGED <<written, lost>>
      /\ files' \in FileSeq /\ fileRows' \in Nat
      /\ cur' \in [rows : Seq(Record), state : {"none", "open", "bad"}]
  BY <1>1, MayCloseKeeps DEF ringVars
<1>5. TypeOK'
  <2>1. at' \in [worker : {"none", "wait", "lock", "drain", "write", "check", "close", "exited"},
                client : {"idle", "lock", "drain", "write", "close", "join"}]
    BY <1>1, <1>2 DEF TypeOK
  <2> QED BY <1>1, <1>2, <1>4, <2>1 DEF TypeOK, FileSeq, ringVars
<1>6. MutexInv'
  BY <1>1, <1>2, <1>3 DEF MutexInv, Holding, Sides
<1>7. CountInv'
  BY <1>1, <1>2, <1>4 DEF CountInv, ringVars
<1>8. ControlInv' /\ SnapInv'
  BY <1>1, <1>3 DEF IInv, ControlInv, SnapInv
<1> QED BY <1>4, <1>5, <1>6, <1>7, <1>8 DEF IInv


-----------------------------------------------------------------------------
(* The theorems.                                                            *)

LEMMA SideStepInv ==
  ASSUME IInv, NEW s \in Sides, SideStep(s)
  PROVE  IInv'
<1>1. CASE Lock(s)
  BY <1>1, LockInv
<1>2. CASE DrainPop(s)
  BY <1>2, DrainPopInv
<1>3. CASE DrainEnd(s)
  BY <1>3, DrainEndInv
<1>4. CASE WriteChunk(s)
  BY <1>4, WriteChunkInv
<1>5. CASE WriteThrow(s)
  BY <1>5, WriteThrowInv
<1>6. CASE CloseFullThrow(s)
  BY <1>6, CloseFullThrowInv
<1>7. CASE WriteError(s)
  BY <1>7, WriteErrorInv
<1>8. CASE WriteEnd(s)
  BY <1>8, WriteEndInv
<1>9. CASE Close(s)
  BY <1>9, CloseInv
<1>10. CASE CloseThrow(s)
  BY <1>10, CloseThrowInv
<1> QED BY <1>1, <1>2, <1>3, <1>4, <1>5, <1>6, <1>7, <1>8, <1>9, <1>10 DEF SideStep

LEMMA StutterInv == IInv /\ UNCHANGED vars => IInv'
<1> SUFFICES ASSUME IInv, UNCHANGED vars PROVE IInv'
  OBVIOUS
<1> USE DEF vars, ringVars, fileVars, threadVars, callVars
<1>1. ExactlyOnceInOrder' /\ WriterInv'
  BY SameRecords, SameWriter DEF IInv, dataVars
<1>2. TypeOK'
  BY DEF IInv, TypeOK
<1>3. MutexInv' /\ CountInv'
  BY DEF IInv, MutexInv, Holding, CountInv
<1>4. ControlInv' /\ SnapInv'
  BY DEF IInv, ControlInv, SnapInv, RingAfter
<1> QED BY <1>1, <1>2, <1>3, <1>4 DEF IInv

LEMMA StepInv == IInv /\ [Next]_vars => IInv'
<1> SUFFICES ASSUME IInv, [Next]_vars PROVE IInv'
  OBVIOUS
<1>1. ASSUME NEW p \in Producers, Submit(p) PROVE IInv'
  BY <1>1, SubmitInv
<1>2. ASSUME NEW p \in Producers, SubmitCount(p) PROVE IInv'
  BY <1>2, SubmitCountInv
<1>3. CASE Start
  BY <1>3, StartInv
<1>4. CASE StopNowait
  BY <1>4, StopNowaitInv
<1>5. CASE Stop
  BY <1>5, StopInv
<1>6. CASE Flush
  BY <1>6, FlushInv
<1>7. CASE Join
  BY <1>7, JoinInv
<1>8. CASE WorkerWake
  BY <1>8, WorkerWakeInv
<1>9. CASE WorkerCheck
  BY <1>9, WorkerCheckInv
<1>10. ASSUME NEW s \in Sides, SideStep(s) PROVE IInv'
  BY <1>10, SideStepInv
<1>11. CASE UNCHANGED vars
  BY <1>11, StutterInv
<1> QED BY <1>1, <1>2, <1>3, <1>4, <1>5, <1>6, <1>7, <1>8, <1>9, <1>10, <1>11 DEF Next

(* The inductive invariant holds in every state of the sink: the mutex, the *)
(* records on their way, the current writer and the two threads fit.        *)
THEOREM StreamingSink_Protocol == Spec => []IInv
<1>1. Init => IInv
  BY InitInv
<1>2. IInv /\ [Next]_vars => IInv'
  BY StepInv
<1> QED BY <1>1, <1>2, PTL DEF Spec

(* Every accepted record is in a file, the open file, a batch or the ring,  *)
(* in order and in one place only, unless an I/O error took it, whichever   *)
(* of flush() and compaction_loop drains and whatever fails.                *)
THEOREM StreamingSink_Delivered == Spec => []Delivered
<1>1. IInv => Delivered
  BY DEF IInv, Delivered
<1> QED BY <1>1, StreamingSink_Protocol, PTL

(* A successful close files everything up to n that nobody has in hand and  *)
(* that is not in the ring.                                                 *)
LEMMA ClosedIsFiled ==
  ASSUME IInv, ClosesWriter, UNCHANGED <<ring, accepted, batch>>,
         \A s \in Sides : batch[s] = <<>>,
         NEW n \in Nat, n <= accepted, RingAfter(n), NEW r \in 1 .. n
  PROVE  r \in RowsOf(files') \cup lost'
<1>1. TypeOK /\ WriterInv /\ ExactlyOnceInOrder /\ accepted \in Nat /\ ring \in Seq(Record)
  BY SinkTypes DEF IInv
<1>2. /\ Pending = cur.rows \o ring /\ cur.rows \in Seq(Record) /\ Open = cur.rows
      /\ cur.state # "bad"
  <2>1. cur.state # "bad"
    BY DEF ClosesWriter, CloseOutcomes
  <2>2. InHand = <<>> \o <<>> /\ Open = cur.rows /\ cur.rows \in Seq(Record)
    BY <1>1, <2>1, SinkTypes DEF InHand, Open, Sides
  <2> QED BY <2>1, <2>2, EmptyIs DEF Pending
<1>3. r \in lost \/ r \in RowsOf(files) \/ r \in ToSet(cur.rows) \/ r \in ToSet(ring)
  <2>1. r \in 1 .. accepted
    BY <1>1
  <2>2. ToSet(Pending) = ToSet(cur.rows) \cup ToSet(ring)
    BY <1>1, <1>2, ConcatMembers
  <2> QED BY <1>1, <2>1, <2>2 DEF ExactlyOnceInOrder
<1>4. r \notin ToSet(ring)
  <2>1. ASSUME r \in ToSet(ring) PROVE FALSE
    <3>1. PICK i \in 1 .. Len(ring) : ring[i] = r
      BY <1>1, <2>1, MemberIs
    <3> QED BY <3>1 DEF RingAfter
  <2> QED BY <2>1
<1>5. lost' = lost
  BY DEF ClosesWriter, fileVars
<1>6. RowsOf(files') = RowsOf(files) \cup ToSet(cur.rows)
  <2>1. CASE cur.state = "none" /\ UNCHANGED fileVars
    BY <1>1, <2>1, EmptyIs DEF WriterInv, RowsOf, fileVars
  <2>2. ASSUME NEW o \in CloseOutcomes \ {"throw"}, CloseInto(o, cur.rows, fileRows)
        PROVE  RowsOf(files') = RowsOf(files) \cup ToSet(cur.rows)
    <3>1. Sound(files, Open \o ring, accepted, lost)
      BY <1>1, <1>2 DEF ExactlyOnceInOrder, Sound
    <3> QED BY <1>1, <2>2, <3>1, Closes
  <2> QED BY <2>1, <2>2 DEF ClosesWriter
<1> QED BY <1>3, <1>4, <1>5, <1>6

(* A flush() that reports success leaves every record accepted before it    *)
(* readable, or failed in an I/O error: when it closes the file, the mutex  *)
(* shuts the other side out and its own drain has passed the snapshot.      *)
THEOREM StreamingSink_FlushMakesReadable == Spec => FlushMakesReadable
<1>1. ASSUME IInv, [Next]_vars, at.client = "close", reply' = "ok", NEW r \in 1 .. snap
      PROVE  r \in Readable' \cup Failed'
  <2>1. /\ TypeOK /\ MutexInv /\ CountInv /\ reply = "none" /\ RingAfter(snap)
        /\ at["client"] = "close" /\ at.worker = at["worker"]
    BY <1>1 DEF IInv, ControlInv, SnapInv, TypeOK
  <2>2. Close("client")
    <3>1. reply' # reply
      BY <1>1, <2>1
    <3>2. ~Holding("worker")
      BY <2>1, Alone DEF Holding, Sides
    <3> QED BY <1>1, <2>1, <3>1, <3>2
         DEF Next, SideStep, Submit, SubmitCount, Start, StopNowait, Stop, Flush, Join,
             WorkerWake, WorkerCheck, Lock, DrainPop, DrainEnd, WriteChunk, WriteThrow,
             CloseFullThrow, WriteError, WriteEnd, Close, CloseThrow, Throw, Goto, Sides,
             Holding, vars, callVars
  <2>3. ClosesWriter /\ UNCHANGED <<ring, accepted, batch>>
    BY <2>2 DEF Close, ClosesWriter, ringVars
  <2>4. \A s \in Sides : batch[s] = <<>>
    BY <2>1, Alone DEF Holding, MutexInv, Sides
  <2>5. snap \in Nat /\ snap <= accepted
    BY <2>1 DEF TypeOK, CountInv
  <2>6. r \in RowsOf(files') \cup lost'
    BY <1>1, <2>1, <2>3, <2>4, <2>5, ClosedIsFiled
  <2>7. RowsOf(files') \subseteq Readable' \cup Failed' /\ lost' \subseteq Failed'
    BY DEF RowsOf, Readable, ReadableIn, Failed
  <2> QED BY <2>6, <2>7
<1>2. IInv /\ [Next]_vars
        => [at.client = "close" /\ reply' = "ok"
              => \A r \in 1 .. snap : r \in Readable' \cup Failed']_vars
  BY <1>1
<1> QED BY <1>2, StreamingSink_Protocol, PTL DEF Spec, FlushMakesReadable

(* A stop() that stops the thread and reports success leaves every record   *)
(* accepted before it readable, or failed in an I/O error: a worker told to *)
(* stop drains once more after that, so a submit() that raced its last      *)
(* batch is not left in the ring.                                           *)
THEOREM StreamingSink_StopDrains == Spec => StopDrains
<1>1. ASSUME IInv, [Next]_vars, at.client = "join", reply' = "ok", ~early, NEW r \in 1 .. snap
      PROVE  r \in Readable' \cup Failed'
  <2>1. /\ TypeOK /\ MutexInv /\ CountInv /\ ControlInv /\ SnapInv /\ reply = "none"
        /\ at["client"] = "join" /\ at.worker = at["worker"]
    BY <1>1 DEF IInv, ControlInv, TypeOK
  <2>2. Join
    <3>1. reply' # reply
      BY <1>1, <2>1
    <3> QED BY <1>1, <2>1, <3>1
         DEF Next, SideStep, Submit, SubmitCount, Start, StopNowait, Stop, Flush,
             WorkerWake, WorkerCheck, Lock, DrainPop, DrainEnd, WriteChunk, WriteThrow,
             CloseFullThrow, WriteError, WriteEnd, Close, CloseThrow, Throw, Goto, Sides,
             vars, callVars
  <2>3. ClosesWriter /\ UNCHANGED <<ring, accepted, batch>> /\ at.worker = "exited" /\ ~dead
    BY <1>1, <2>2, JoinCloses DEF Join, ringVars
  <2>4. RingAfter(snap)
    BY <1>1, <2>1, <2>3 DEF ControlInv, SnapInv
  <2>5. \A s \in Sides : batch[s] = <<>>
    BY <2>1, <2>3 DEF MutexInv, Sides
  <2>6. snap \in Nat /\ snap <= accepted
    BY <2>1 DEF TypeOK, CountInv
  <2>7. r \in RowsOf(files') \cup lost'
    BY <1>1, <2>3, <2>4, <2>5, <2>6, ClosedIsFiled
  <2>8. RowsOf(files') \subseteq Readable' \cup Failed' /\ lost' \subseteq Failed'
    BY DEF RowsOf, Readable, ReadableIn, Failed
  <2> QED BY <2>7, <2>8
<1>2. IInv /\ [Next]_vars
        => [at.client = "join" /\ reply' = "ok" /\ ~early
              => \A r \in 1 .. snap : r \in Readable' \cup Failed']_vars
  BY <1>1
<1> QED BY <1>2, StreamingSink_Protocol, PTL DEF Spec, StopDrains
=============================================================================
