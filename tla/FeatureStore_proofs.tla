------------------------ MODULE FeatureStore_proofs -------------------------
(***************************************************************************)
(* Proofs about the writing side of the feature store, for all options,     *)
(* keys and limits, any number of rows, writers and failures.               *)
(***************************************************************************)
EXTENDS FeatureStore, SequenceTheorems, WellFoundedInduction, TLAPS

(* Induction, from the least number at which a statement would fail.        *)

LEMMA Least ==
  ASSUME NEW S \in SUBSET Nat, S # {}
  PROVE  \E n \in S : \A m \in S : n <= m
<1> DEFINE R == {ss \in Nat \X Nat : ss[1] < ss[2]}
<1>1. IsWellFoundedOn(R, Nat)
  BY NatLessThanWellFounded DEF OpToRel
<1>2. \E x \in S : \A y \in S : ~ (<<y, x>> \in R)
  BY <1>1, WFMin, Zenon
<1>3. PICK x \in S : \A y \in S : ~ (<<y, x>> \in R)
  BY <1>2
<1>4. ASSUME NEW y \in S PROVE x <= y
  <2>1. ~ (<<y, x>> \in R)
    BY <1>3, <1>4
  <2>2. x \in Nat /\ y \in Nat
    OBVIOUS
  <2> QED BY <2>1, <2>2
<1> QED BY <1>4

LEMMA Induct ==
  ASSUME NEW S, 0 \in S, \A n \in Nat : n \in S => n + 1 \in S
  PROVE  Nat \subseteq S
<1> DEFINE T == Nat \ S
<1> SUFFICES ASSUME T # {} PROVE FALSE
  OBVIOUS
<1>1. PICK n \in T : \A m \in T : n <= m
  BY Least, T \in SUBSET Nat, Zenon
<1>2. n # 0 /\ n - 1 \in Nat /\ n - 1 \in S
  BY <1>1
<1> QED BY <1>2

-----------------------------------------------------------------------------
(* FlattenSeq                                                               *)

(* The front parts of s, put together one after the other.                  *)
Flat(f, s, n) ==
  f = [i \in 1 .. n |-> IF i = 1 THEN s[i] ELSE f[i - 1] \o s[i]]

LEMMA FlatSame ==
  ASSUME NEW s, NEW t, NEW n \in Nat, NEW f, NEW g, Flat(f, s, n), Flat(g, t, n),
         \A i \in 1 .. n : s[i] = t[i]
  PROVE  f = g
<1> DEFINE Same == {m \in Nat : \A i \in 1 .. n : i <= m => f[i] = g[i]}
<1>1. /\ \A i \in 1 .. n : f[i] = IF i = 1 THEN s[i] ELSE f[i - 1] \o s[i]
      /\ \A i \in 1 .. n : g[i] = IF i = 1 THEN t[i] ELSE g[i - 1] \o t[i]
      /\ f = [i \in 1 .. n |-> f[i]] /\ g = [i \in 1 .. n |-> g[i]]
  BY DEF Flat
<1>2. 0 \in Same
  OBVIOUS
<1>3. ASSUME NEW m \in Nat, m \in Same PROVE m + 1 \in Same
  <2> SUFFICES ASSUME NEW i \in 1 .. n, i <= m + 1 PROVE f[i] = g[i]
    OBVIOUS
  <2>1. CASE i = 1
    BY <2>1, <1>1
  <2>2. CASE i # 1
    <3>1. i - 1 \in 1 .. n /\ i - 1 <= m
      BY <2>2
    <3>2. f[i - 1] = g[i - 1]
      BY <3>1, <1>3
    <3>3. f[i] = f[i - 1] \o s[i] /\ g[i] = g[i - 1] \o t[i]
      BY <2>2, <1>1
    <3> QED BY <3>2, <3>3
  <2> QED BY <2>1, <2>2
<1>4. n \in Same
  <2> HIDE DEF Same
  <2> QED BY <1>2, <1>3, Induct
<1> QED BY <1>1, <1>4

LEMMA FlatExists ==
  ASSUME NEW R, NEW s \in Seq(Seq(R)), NEW n \in 1 .. Len(s)
  PROVE  \E f : Flat(f, s, n) /\ f[n] \in Seq(R)
<1>1. Len(s) \in Nat /\ \A i \in 1 .. Len(s) : s[i] \in Seq(R)
  BY LenProperties, ElementOfSeq
<1> DEFINE Run == {m \in Nat : m + 1 <= Len(s) => \E f : Flat(f, s, m + 1) /\ f[m + 1] \in Seq(R)}
<1>2. 0 \in Run
  <2> DEFINE f == [i \in 1 .. 1 |-> s[1]]
  <2>1. \A i \in 1 .. 1 : i = 1
    OBVIOUS
  <2>2. Flat(f, s, 1) /\ f[1] = s[1]
    BY <2>1 DEF Flat
  <2> QED BY <2>2, <1>1
<1>3. ASSUME NEW m \in Nat, m \in Run PROVE m + 1 \in Run
  <2> SUFFICES ASSUME m + 2 <= Len(s)
               PROVE \E f : Flat(f, s, m + 2) /\ f[m + 2] \in Seq(R)
    OBVIOUS
  <2>1. PICK f : Flat(f, s, m + 1) /\ f[m + 1] \in Seq(R)
    BY <1>1, <1>3
  <2>2. \A i \in 1 .. m + 1 : f[i] = IF i = 1 THEN s[i] ELSE f[i - 1] \o s[i]
    BY <2>1 DEF Flat
  <2> DEFINE e == f[m + 1] \o s[m + 2]
             g == [i \in 1 .. m + 2 |-> IF i = m + 2 THEN e ELSE f[i]]
  <2>3. e \in Seq(R)
    BY <2>1, <1>1, ConcatProperties
  <2> HIDE DEF e
  <2>4. g[m + 2] = e /\ \A i \in 1 .. m + 1 : g[i] = f[i]
    OBVIOUS
  <2>5. g = [i \in 1 .. m + 2 |-> g[i]]
    OBVIOUS
  <2> HIDE DEF g
  <2>6. ASSUME NEW i \in 1 .. m + 2 PROVE g[i] = IF i = 1 THEN s[i] ELSE g[i - 1] \o s[i]
    <3>1. CASE i = m + 2
      <4>1. i # 1 /\ i - 1 = m + 1 /\ g[i - 1] = f[m + 1]
        BY <3>1, <2>4
      <4> QED BY <3>1, <4>1, <2>4 DEF e
    <3>2. CASE i = 1
      BY <3>2, <2>2, <2>4
    <3>3. CASE i # 1 /\ i # m + 2
      <4>1. i \in 1 .. m + 1 /\ i - 1 \in 1 .. m + 1
        BY <3>3
      <4> QED BY <4>1, <3>3, <2>2, <2>4
    <3> QED BY <3>1, <3>2, <3>3
  <2>7. Flat(g, s, m + 2)
    BY <2>5, <2>6 DEF Flat
  <2> QED BY <2>4, <2>3, <2>7
<1>4. n - 1 \in Run
  <2> HIDE DEF Run
  <2>1. n - 1 \in Nat
    BY <1>1
  <2> QED BY <2>1, <1>2, <1>3, Induct
<1>5. n - 1 + 1 = n /\ n <= Len(s)
  BY <1>1
<1> QED BY <1>4, <1>5

LEMMA FlatValue ==
  ASSUME NEW R, NEW s \in Seq(Seq(R)), s # <<>>
  PROVE  \E f : Flat(f, s, Len(s)) /\ FlattenSeq(s) = f[Len(s)] /\ f[Len(s)] \in Seq(R)
<1>1. Len(s) \in Nat \ {0}
  BY EmptySeq
<1>2. PICK f : Flat(f, s, Len(s)) /\ f[Len(s)] \in Seq(R)
  BY <1>1, FlatExists
<1> DEFINE h == CHOOSE g : Flat(g, s, Len(s))
<1>3. Flat(h, s, Len(s))
  BY <1>2
<1>4. h = f
  <2> HIDE DEF h
  <2> QED BY <1>1, <1>2, <1>3, FlatSame
<1>5. FlattenSeq(s) = h[Len(s)]
  BY <1>1 DEF FlattenSeq, Flat
<1> HIDE DEF h
<1> QED BY <1>2, <1>4, <1>5

LEMMA FlattenEmpty == FlattenSeq(<<>>) = <<>>
  BY DEF FlattenSeq

LEMMA FlattenType == ASSUME NEW R, NEW s \in Seq(Seq(R)) PROVE FlattenSeq(s) \in Seq(R)
<1>1. CASE s = <<>>
  BY <1>1, FlattenEmpty, EmptySeq
<1>2. CASE s # <<>>
  BY <1>2, FlatValue
<1> QED BY <1>1, <1>2

LEMMA FlattenAppend ==
  ASSUME NEW R, NEW s \in Seq(Seq(R)), NEW x \in Seq(R)
  PROVE  FlattenSeq(Append(s, x)) = FlattenSeq(s) \o x
<1> DEFINE t == Append(s, x)
<1>1. /\ t \in Seq(Seq(R)) /\ Len(t) = Len(s) + 1 /\ Len(s) \in Nat /\ t # <<>>
      /\ t[Len(s) + 1] = x /\ \A i \in 1 .. Len(s) : t[i] = s[i]
  BY AppendProperties, LenProperties
<1> HIDE DEF t
<1>2. PICK g : Flat(g, t, Len(t)) /\ FlattenSeq(t) = g[Len(t)]
  BY <1>1, FlatValue
<1>3. \A i \in 1 .. Len(t) : g[i] = IF i = 1 THEN t[i] ELSE g[i - 1] \o t[i]
  BY <1>2 DEF Flat
<1>4. CASE s = <<>>
  <2>1. Len(s) = 0
    BY <1>4, EmptySeq
  <2>2. FlattenSeq(t) = x
    BY <2>1, <1>1, <1>2, <1>3
  <2>3. <<>> \o x = x
    BY ConcatEmptySeq
  <2> QED BY <1>4, <2>2, <2>3, FlattenEmpty DEF t
<1>5. CASE s # <<>>
  <2>1. Len(s) \in Nat \ {0}
    BY <1>5, EmptySeq
  <2>2. PICK f : Flat(f, s, Len(s)) /\ FlattenSeq(s) = f[Len(s)]
    BY <1>5, FlatValue
  <2> DEFINE r == [i \in 1 .. Len(s) |-> g[i]]
  <2>3. Flat(r, s, Len(s))
    <3>1. r = [i \in 1 .. Len(s) |-> r[i]]
      OBVIOUS
    <3>2. ASSUME NEW i \in 1 .. Len(s) PROVE r[i] = IF i = 1 THEN s[i] ELSE r[i - 1] \o s[i]
      <4>1. r[i] = g[i] /\ i \in 1 .. Len(t) /\ t[i] = s[i]
        BY <1>1
      <4>2. CASE i = 1
        BY <4>1, <4>2, <1>3
      <4>3. CASE i # 1
        <5>1. r[i - 1] = g[i - 1]
          BY <4>3, <2>1
        <5> HIDE DEF r
        <5> QED BY <4>1, <4>3, <5>1, <1>3
      <4> QED BY <4>2, <4>3
    <3> HIDE DEF r
    <3> QED BY <3>1, <3>2 DEF Flat
  <2>4. f = r
    <3> HIDE DEF r
    <3> QED BY <2>1, <2>2, <2>3, FlatSame
  <2>5. FlattenSeq(s) = g[Len(s)]
    BY <2>1, <2>2, <2>4
  <2>6. FlattenSeq(t) = g[Len(s)] \o x
    <3>1. Len(t) # 1 /\ Len(t) - 1 = Len(s) /\ Len(t) \in 1 .. Len(t)
      BY <2>1, <1>1
    <3>2. g[Len(t)] = g[Len(t) - 1] \o t[Len(t)]
      BY <3>1, <1>3
    <3> QED BY <3>1, <3>2, <1>1, <1>2
  <2> QED BY <2>5, <2>6 DEF t
<1> QED BY <1>4, <1>5

-----------------------------------------------------------------------------
(* Rows, their columns, and the files they are in                           *)

AllKeys == UNION {Keys[n] : n \in Nat}

(* The rows of a writer with these features.                                *)
RowsFor(names) == {Row(k, n, names) : k \in AllKeys, n \in Nat}

LEMMA RowShape ==
  ASSUME NEW names \in Seq(STRING), NEW r \in RowsFor(names)
  PROVE  /\ r = [eid |-> r.eid, ts |-> r.ts, ver |-> r.ver,
                 values |-> [i \in 1 .. Len(names) |-> r.values[i]]]
         /\ Len(r.values) = Len(names)
<1>1. PICK k \in AllKeys, n \in Nat : r = Row(k, n, names)
  BY DEF RowsFor
<1>2. r.values = [i \in 1 .. Len(names) |-> <<n, names[i]>>] /\ Len(names) \in Nat
  BY <1>1, LenProperties DEF Row
<1>3. r.values = [i \in 1 .. Len(names) |-> r.values[i]] /\ Len(r.values) = Len(names)
  BY <1>2
<1> QED BY <1>1, <1>3 DEF Row

LEMMA RowsBack ==
  ASSUME NEW names \in Seq(STRING), NEW rows \in Seq(RowsFor(names))
  PROVE  /\ GroupRows(ColumnsOf(rows, names)) = rows
         /\ Len(ColumnsOf(rows, names).eids) = Len(rows)
<1> DEFINE g == ColumnsOf(rows, names)
           N == Len(rows)
<1>1. N \in Nat /\ Len(names) \in Nat /\ rows = [j \in 1 .. N |-> rows[j]]
      /\ \A j \in 1 .. N : rows[j] \in RowsFor(names)
  BY LenProperties, ElementOfSeq
<1>2. /\ g.eids = [j \in 1 .. N |-> rows[j].eid] /\ g.tss = [j \in 1 .. N |-> rows[j].ts]
      /\ g.vers = [j \in 1 .. N |-> rows[j].ver]
      /\ g.feats = [i \in 1 .. Len(names) |-> [j \in 1 .. N |-> rows[j].values[i]]]
  BY DEF ColumnsOf
<1> HIDE DEF g, N
<1>3. Len(g.eids) = N /\ Len(g.feats) = Len(names)
  BY <1>1, <1>2
<1>4. ASSUME NEW j \in 1 .. N
      PROVE [eid |-> g.eids[j], ts |-> g.tss[j], ver |-> g.vers[j],
             values |-> [i \in 1 .. Len(g.feats) |-> g.feats[i][j]]] = rows[j]
  <2>1. g.eids[j] = rows[j].eid /\ g.tss[j] = rows[j].ts /\ g.vers[j] = rows[j].ver
    BY <1>2
  <2>2. [i \in 1 .. Len(g.feats) |-> g.feats[i][j]] = [i \in 1 .. Len(names) |-> rows[j].values[i]]
    BY <1>2, <1>3
  <2>3. rows[j] = [eid |-> rows[j].eid, ts |-> rows[j].ts, ver |-> rows[j].ver,
                   values |-> [i \in 1 .. Len(names) |-> rows[j].values[i]]]
    BY <1>1, RowShape
  <2> QED BY <2>1, <2>2, <2>3
<1>5. GroupRows(g) = [j \in 1 .. N |-> rows[j]]
  BY <1>3, <1>4 DEF GroupRows
<1> QED BY <1>1, <1>3, <1>5 DEF g, N

(* What h takes from each of the rows x.                                    *)
Column(h, x) == [j \in 1 .. Len(x) |-> h[x[j]]]

LEMMA ColumnJoin ==
  ASSUME NEW R, NEW a \in Seq(R), NEW b \in Seq(R), NEW h
  PROVE  Column(h, a) \o Column(h, b) = Column(h, a \o b)
<1> DEFINE S == {h[r] : r \in R}
           c == a \o b
           x == Column(h, a)
           y == Column(h, b)
           z == Column(h, c)
<1>1. /\ c \in Seq(R) /\ Len(c) = Len(a) + Len(b) /\ Len(a) \in Nat /\ Len(b) \in Nat
      /\ \A j \in 1 .. Len(c) : c[j] = IF j <= Len(a) THEN a[j] ELSE b[j - Len(a)]
  BY ConcatProperties, LenProperties
<1>2. /\ \A j \in 1 .. Len(a) : a[j] \in R
      /\ \A j \in 1 .. Len(b) : b[j] \in R
      /\ \A j \in 1 .. Len(c) : c[j] \in R
  BY <1>1, ElementOfSeq
<1> HIDE DEF c
<1>3. x \in [1 .. Len(a) -> S] /\ y \in [1 .. Len(b) -> S] /\ z \in [1 .. Len(c) -> S]
  BY <1>2 DEF Column
<1>4. Len(a) \in Nat /\ Len(b) \in Nat /\ Len(c) \in Nat
  BY <1>1
<1>5. /\ \A j \in 1 .. Len(a) : x[j] = h[a[j]]
      /\ \A j \in 1 .. Len(b) : y[j] = h[b[j]]
      /\ \A j \in 1 .. Len(c) : z[j] = h[c[j]]
  BY DEF Column
<1> HIDE DEF x, y, z, S
<1>6. x \in Seq(S) /\ y \in Seq(S) /\ z \in Seq(S)
  <2>1. x \in Seq(S)
    BY <1>3, <1>4, SMTT(60)
  <2>2. y \in Seq(S)
    BY <1>3, <1>4
  <2>3. z \in Seq(S)
    BY <1>3, <1>4
  <2> QED BY <2>1, <2>2, <2>3
<1>7. Len(x) = Len(a) /\ Len(y) = Len(b) /\ Len(z) = Len(c)
  BY <1>1, <1>3, <1>4
<1>8. /\ x \o y \in Seq(S) /\ Len(x \o y) = Len(c)
      /\ \A j \in 1 .. Len(c) : (x \o y)[j] = IF j <= Len(a) THEN x[j] ELSE y[j - Len(a)]
  <2>1. /\ x \o y \in Seq(S) /\ Len(x \o y) = Len(x) + Len(y)
        /\ \A j \in 1 .. Len(x) + Len(y) : (x \o y)[j] = IF j <= Len(x) THEN x[j] ELSE y[j - Len(x)]
    BY <1>6, ConcatProperties
  <2>2. Len(x) + Len(y) = Len(c)
    BY <1>1, <1>7
  <2> QED BY <2>1, <2>2, <1>7
<1>9. ASSUME NEW j \in 1 .. Len(c) PROVE (x \o y)[j] = z[j]
  <2>1. CASE j <= Len(a)
    <3>1. j \in 1 .. Len(a)
      BY <2>1, <1>1
    <3>2. (x \o y)[j] = x[j] /\ c[j] = a[j]
      BY <2>1, <1>1, <1>8
    <3> QED BY <3>1, <3>2, <1>5
  <2>2. CASE ~(j <= Len(a))
    <3>1. j - Len(a) \in 1 .. Len(b)
      BY <2>2, <1>1
    <3>2. (x \o y)[j] = y[j - Len(a)] /\ c[j] = b[j - Len(a)]
      BY <2>2, <1>1, <1>8
    <3> QED BY <3>1, <3>2, <1>5
  <2> QED BY <2>1, <2>2
<1>10. x \o y = z
  BY <1>6, <1>7, <1>8, <1>9, SeqEqual
<1> QED BY <1>10 DEF x, y, z, c

LEMMA ColumnsJoin ==
  ASSUME NEW names \in Seq(STRING), NEW a \in Seq(RowsFor(names)), NEW b \in Seq(RowsFor(names))
  PROVE  WriteColumns(ColumnsOf(a, names), ColumnsOf(b, names)) = ColumnsOf(a \o b, names)
<1> DEFINE R == RowsFor(names)
           c == a \o b
           eid == [r \in R |-> r.eid]
           ts  == [r \in R |-> r.ts]
           ver == [r \in R |-> r.ver]
           val(i) == [r \in R |-> r.values[i]]
<1>1. /\ \A j \in 1 .. Len(a) : a[j] \in R
      /\ \A j \in 1 .. Len(b) : b[j] \in R
      /\ \A j \in 1 .. Len(c) : c[j] \in R
  BY ConcatProperties, ElementOfSeq
<1>2. ASSUME NEW h PROVE Column(h, a) \o Column(h, b) = Column(h, c)
  BY ColumnJoin
<1> HIDE DEF c, R
<1>3. ASSUME NEW x, \A j \in 1 .. Len(x) : x[j] \in R
      PROVE  ColumnsOf(x, names) = [eids |-> Column(eid, x), tss |-> Column(ts, x), vers |-> Column(ver, x),
                                    feats |-> [i \in 1 .. Len(names) |-> Column(val(i), x)]]
  BY <1>3 DEF ColumnsOf, Column
<1>4. /\ ColumnsOf(a, names) = [eids |-> Column(eid, a), tss |-> Column(ts, a), vers |-> Column(ver, a),
                                feats |-> [i \in 1 .. Len(names) |-> Column(val(i), a)]]
      /\ ColumnsOf(b, names) = [eids |-> Column(eid, b), tss |-> Column(ts, b), vers |-> Column(ver, b),
                                feats |-> [i \in 1 .. Len(names) |-> Column(val(i), b)]]
      /\ ColumnsOf(c, names) = [eids |-> Column(eid, c), tss |-> Column(ts, c), vers |-> Column(ver, c),
                                feats |-> [i \in 1 .. Len(names) |-> Column(val(i), c)]]
  BY <1>1, <1>3
<1> HIDE DEF eid, ts, ver, val
<1>5. /\ Column(eid, a) \o Column(eid, b) = Column(eid, c) /\ Column(ts, a) \o Column(ts, b) = Column(ts, c)
      /\ Column(ver, a) \o Column(ver, b) = Column(ver, c)
      /\ \A i \in 1 .. Len(names) : Column(val(i), a) \o Column(val(i), b) = Column(val(i), c)
  BY <1>2, Zenon
<1>6. WriteColumns(ColumnsOf(a, names), ColumnsOf(b, names))
        = [eids |-> Column(eid, c), tss |-> Column(ts, c), vers |-> Column(ver, c),
           feats |-> [i \in 1 .. Len(names) |-> Column(val(i), c)]]
  <2> DEFINE A == ColumnsOf(a, names)
             B == ColumnsOf(b, names)
  <2>1. /\ A.eids = Column(eid, a) /\ A.tss = Column(ts, a) /\ A.vers = Column(ver, a)
        /\ B.eids = Column(eid, b) /\ B.tss = Column(ts, b) /\ B.vers = Column(ver, b)
        /\ DOMAIN A.feats = 1 .. Len(names)
        /\ \A i \in 1 .. Len(names) : A.feats[i] = Column(val(i), a) /\ B.feats[i] = Column(val(i), b)
    BY <1>4
  <2> HIDE DEF A, B
  <2>2. \A i \in 1 .. Len(names) : A.feats[i] \o B.feats[i] = Column(val(i), c)
    BY <2>1, <1>5
  <2>3. [i \in DOMAIN A.feats |-> A.feats[i] \o B.feats[i]] = [i \in 1 .. Len(names) |-> Column(val(i), c)]
    BY <2>1, <2>2
  <2>4. WriteColumns(A, B) = [eids |-> Column(eid, c), tss |-> Column(ts, c), vers |-> Column(ver, c),
                              feats |-> [i \in 1 .. Len(names) |-> Column(val(i), c)]]
    BY <2>1, <2>3, <1>5 DEF WriteColumns
  <2> QED BY <2>4 DEF A, B
<1> QED BY <1>4, <1>6 DEF c

LEMMA NoColumns == ASSUME NEW names \in Seq(STRING) PROVE ColumnsOf(<<>>, names) = EmptyColumns(names)
<1>1. Len(<<>>) = 0 /\ 1 .. 0 = {}
  BY EmptySeq
<1> QED BY <1>1 DEF ColumnsOf, EmptyColumns

(* The row groups that a flush can have written.                            *)
Groups(names) == {ColumnsOf(rows, names) : rows \in Seq(RowsFor(names)) \ {<<>>}}

LEMMA RowsInFacts ==
  ASSUME NEW names \in Seq(STRING), NEW groups \in Seq(Groups(names))
  PROVE  /\ RowsIn(groups) \in Seq(RowsFor(names))
         /\ \A rows \in Seq(RowsFor(names)) :
              RowsIn(Append(groups, ColumnsOf(rows, names))) = RowsIn(groups) \o rows
<1> DEFINE s == [g \in 1 .. Len(groups) |-> GroupRows(groups[g])]
<1>1. Len(groups) \in Nat /\ \A g \in 1 .. Len(groups) : groups[g] \in Groups(names)
  BY LenProperties, ElementOfSeq
<1>2. \A g \in 1 .. Len(groups) : GroupRows(groups[g]) \in Seq(RowsFor(names))
  BY <1>1, RowsBack DEF Groups
<1>3. s \in Seq(Seq(RowsFor(names))) /\ Len(s) = Len(groups)
  <2>1. s \in [1 .. Len(groups) -> Seq(RowsFor(names))]
    BY <1>2
  <2> HIDE DEF s
  <2> QED BY <1>1, <2>1
<1>4. ASSUME NEW rows \in Seq(RowsFor(names))
      PROVE RowsIn(Append(groups, ColumnsOf(rows, names))) = FlattenSeq(Append(s, rows))
  <2> DEFINE c == ColumnsOf(rows, names)
             t == Append(groups, c)
  <2>1. Len(t) = Len(groups) + 1 /\ t[Len(groups) + 1] = c /\ \A g \in 1 .. Len(groups) : t[g] = groups[g]
    <3>1. groups \in Seq(Groups(names) \cup {c})
      BY SeqMonotonic
    <3> HIDE DEF c
    <3> QED BY <3>1, AppendProperties
  <2>2. GroupRows(c) = rows
    BY RowsBack
  <2> HIDE DEF c, t
  <2> DEFINE u == [g \in 1 .. Len(t) |-> GroupRows(t[g])]
             v == Append(s, rows)
  <2>3. v \in Seq(Seq(RowsFor(names))) /\ Len(v) = Len(s) + 1 /\ v[Len(s) + 1] = rows
        /\ \A g \in 1 .. Len(s) : v[g] = s[g]
    BY <1>3, AppendProperties
  <2>4. v = [g \in 1 .. Len(t) |-> v[g]]
    BY <2>1, <2>3, <1>3, LenProperties
  <2>5. \A g \in 1 .. Len(s) : s[g] = GroupRows(groups[g])
    BY <1>3
  <2> HIDE DEF v, s
  <2>6. \A g \in 1 .. Len(t) : v[g] = GroupRows(t[g])
    <3> TAKE g \in 1 .. Len(t)
    <3>1. CASE g = Len(groups) + 1
      BY <3>1, <1>3, <2>1, <2>2, <2>3
    <3>2. CASE g # Len(groups) + 1
      <4>1. g \in 1 .. Len(groups)
        BY <3>2, <2>1, <1>1
      <4> QED BY <4>1, <1>3, <2>1, <2>3, <2>5
    <3> QED BY <3>1, <3>2
  <2>7. u = v
    BY <2>4, <2>6
  <2> QED BY <2>7 DEF RowsIn, t, c, v
<1> HIDE DEF s
<1>5. RowsIn(groups) = FlattenSeq(s)
  BY DEF RowsIn, s
<1> QED BY <1>3, <1>4, <1>5, FlattenType, FlattenAppend

LEMMA NoRowsIn == RowsIn(<<>>) = <<>>
<1>1. [g \in 1 .. Len(<<>>) |-> GroupRows(<<>>[g])] = <<>>
  <2>1. Len(<<>>) = 0
    BY EmptySeq
  <2> QED BY <2>1
<1> QED BY <1>1, FlattenEmpty DEF RowsIn

(* The rows of the files with these paths on disk d.                        *)
FileRows(d, paths) == FlattenSeq([i \in 1 .. Len(paths) |-> RowsIn(Account(d[paths[i]]))])

HoldsRows(d, paths, names) == \A p \in ToSet(paths) : Account(d[p]) \in Seq(Groups(names))

LEMMA FileRowsFacts ==
  ASSUME NEW names \in Seq(STRING), NEW P, NEW paths \in Seq(P), NEW d, HoldsRows(d, paths, names)
  PROVE  /\ FileRows(d, paths) \in Seq(RowsFor(names))
         /\ \A p \in P : Account(d[p]) \in Seq(Groups(names)) =>
              FileRows(d, Append(paths, p)) = FileRows(d, paths) \o RowsIn(Account(d[p]))
<1> DEFINE s == [i \in 1 .. Len(paths) |-> RowsIn(Account(d[paths[i]]))]
<1>1. Len(paths) \in Nat /\ \A i \in 1 .. Len(paths) : paths[i] \in ToSet(paths)
  BY LenProperties DEF ToSet
<1>2. \A i \in 1 .. Len(paths) : RowsIn(Account(d[paths[i]])) \in Seq(RowsFor(names))
  BY <1>1, RowsInFacts DEF HoldsRows
<1>3. s \in Seq(Seq(RowsFor(names))) /\ Len(s) = Len(paths)
  <2>1. s \in [1 .. Len(paths) -> Seq(RowsFor(names))]
    BY <1>2
  <2> HIDE DEF s
  <2> QED BY <1>1, <2>1
<1>4. ASSUME NEW p \in P, Account(d[p]) \in Seq(Groups(names))
      PROVE FileRows(d, Append(paths, p)) = FlattenSeq(Append(s, RowsIn(Account(d[p]))))
  <2> DEFINE x == RowsIn(Account(d[p]))
             t == Append(paths, p)
             u == [i \in 1 .. Len(t) |-> RowsIn(Account(d[t[i]]))]
             v == Append(s, x)
  <2>1. Len(t) = Len(paths) + 1 /\ t[Len(paths) + 1] = p /\ \A i \in 1 .. Len(paths) : t[i] = paths[i]
    BY AppendProperties
  <2>2. x \in Seq(RowsFor(names))
    BY <1>4, RowsInFacts
  <2> HIDE DEF t, x
  <2>3. v \in Seq(Seq(RowsFor(names))) /\ Len(v) = Len(s) + 1 /\ v[Len(s) + 1] = x
        /\ \A i \in 1 .. Len(s) : v[i] = s[i]
    BY <1>3, <2>2, AppendProperties
  <2>4. v = [i \in 1 .. Len(t) |-> v[i]]
    BY <2>1, <2>3, <1>3, LenProperties
  <2>5. \A i \in 1 .. Len(s) : s[i] = RowsIn(Account(d[paths[i]]))
    BY <1>3
  <2> HIDE DEF v, s
  <2>6. \A i \in 1 .. Len(t) : v[i] = RowsIn(Account(d[t[i]]))
    <3> TAKE i \in 1 .. Len(t)
    <3>1. CASE i = Len(paths) + 1
      BY <3>1, <1>3, <2>1, <2>3 DEF x
    <3>2. CASE i # Len(paths) + 1
      <4>1. i \in 1 .. Len(paths)
        BY <3>2, <2>1, <1>1
      <4> QED BY <4>1, <1>3, <2>1, <2>3, <2>5
    <3> QED BY <3>1, <3>2
  <2>7. u = v
    BY <2>4, <2>6
  <2> QED BY <2>7 DEF FileRows, t, v, x
<1>5. \A p \in P : Account(d[p]) \in Seq(Groups(names)) => RowsIn(Account(d[p])) \in Seq(RowsFor(names))
  BY RowsInFacts
<1> HIDE DEF s
<1>6. FileRows(d, paths) = FlattenSeq(s)
  BY DEF FileRows, s
<1> QED BY <1>3, <1>4, <1>5, <1>6, FlattenType, FlattenAppend

LEMMA FileRowsSame ==
  ASSUME NEW P, NEW paths \in Seq(P), NEW d, NEW e, \A p \in ToSet(paths) : Account(e[p]) = Account(d[p])
  PROVE  FileRows(e, paths) = FileRows(d, paths)
<1>1. \A i \in 1 .. Len(paths) : Account(e[paths[i]]) = Account(d[paths[i]])
  BY LenProperties DEF ToSet
<1> QED BY <1>1 DEF FileRows

LEMMA NoFileRows == ASSUME NEW d PROVE FileRows(d, <<>>) = <<>>
<1>1. [i \in 1 .. Len(<<>>) |-> RowsIn(Account(d[<<>>[i]]))] = <<>>
  <2>1. Len(<<>>) = 0
    BY EmptySeq
  <2> QED BY <2>1
<1> QED BY <1>1, FlattenEmpty DEF FileRows


-----------------------------------------------------------------------------
(* The writer                                                               *)

IsFile(f) ==
  f = [names |-> f.names, groups |-> f.groups, footer |-> f.footer, damage |-> f.damage, lost |-> f.lost]

Fields == {"names", "id", "open", "bad", "path", "cols", "groups", "fileRows", "index", "total",
           "pend", "out"}

Shape(w) == w = [f \in Fields |-> w[f]]

IsWriter(w) ==
  /\ Shape(w)
  /\ w.names \in Seq(STRING) /\ w.names # <<>>
  /\ w.open \in BOOLEAN /\ w.bad \in BOOLEAN
  /\ w.id \in Nat /\ w.index \in Nat /\ w.fileRows \in Nat /\ w.total \in Nat
  /\ w.pend \in Seq(RowsFor(w.names)) /\ w.groups \in Seq(Groups(w.names))
  /\ w.open /\ w.fileRows = 0 => w.groups = <<>>

(* What a failed flush left in the column writers, and that the same        *)
(* failure awaits the next one: a bad stream or too large a page.           *)
Leftover(w) ==
  \E rows \in Seq(RowsFor(w.names)) :
    /\ w.cols = ColumnsOf(rows, w.names)
    /\ rows = <<>> \/ w.bad \/ Len(rows) > MaxPageRows

(* The names that open_new_file() has used up.                              *)
Paths(w) == {<<w.id, k>> : k \in 0 .. w.index - 1}

(* The file that is open is none of the finished ones.                      *)
FilesOf(w, d) ==
  /\ \A p \in DOMAIN d : IsFile(d[p])
  /\ w.out \in Seq(Paths(w))
  /\ \A p \in ToSet(w.out) : p \in DOMAIN d /\ Account(d[p]) \in Seq(Groups(w.names))
  /\ w.open => w.path \in Paths(w) /\ w.path \in DOMAIN d /\ w.path \notin ToSet(w.out)

Unfiled(w) == IF w.open THEN RowsIn(w.groups) ELSE <<>>

(* Files, row groups of the open file and buffers hold the rows s.          *)
WriterInv(w, d, s) ==
  /\ IsWriter(w) /\ Leftover(w) /\ FilesOf(w, d)
  /\ (FileRows(d, w.out) \o Unfiled(w)) \o w.pend = s

(* What an operation r on w and d never does: take a file back, or change   *)
(* one that is finished or another writer's.                                *)
Final(w, d, e) ==
  \A p \in DOMAIN d :
    /\ p \in DOMAIN e
    /\ p \in ToSet(w.out) \/ p[1] # w.id =>
         e[p].groups = d[p].groups /\ e[p].footer = d[p].footer /\ e[p].lost = d[p].lost

Moved(w, d, r) ==
  /\ r.fw.id = w.id /\ r.fw.names = w.names /\ ToSet(w.out) \subseteq ToSet(r.fw.out)
  /\ Final(w, d, r.disk)

LEMMA MovedTwice ==
  ASSUME NEW w, NEW d, NEW r, NEW q, Moved(w, d, r), Moved(r.fw, r.disk, q)
  PROVE  Moved(w, d, q)
  BY DEF Moved, Final

LEMMA RowsHeld ==
  ASSUME NEW w, NEW d, IsWriter(w), FilesOf(w, d)
  PROVE  /\ FileRows(d, w.out) \in Seq(RowsFor(w.names))
         /\ RowsIn(w.groups) \in Seq(RowsFor(w.names))
         /\ Unfiled(w) \in Seq(RowsFor(w.names))
<1>1. FileRows(d, w.out) \in Seq(RowsFor(w.names))
  BY FileRowsFacts DEF IsWriter, FilesOf, HoldsRows
<1>2. RowsIn(w.groups) \in Seq(RowsFor(w.names))
  BY RowsInFacts DEF IsWriter
<1>3. Unfiled(w) \in Seq(RowsFor(w.names))
  BY <1>2, EmptySeq DEF Unfiled
<1> QED BY <1>1, <1>2, <1>3

LEMMA ToSetAppend ==
  ASSUME NEW S, NEW s \in Seq(S), NEW x \in S
  PROVE  ToSet(Append(s, x)) = ToSet(s) \cup {x}
<1>1. /\ Append(s, x) \in Seq(S) /\ Len(Append(s, x)) = Len(s) + 1 /\ Len(s) \in Nat
      /\ Append(s, x)[Len(s) + 1] = x /\ \A i \in 1 .. Len(s) : Append(s, x)[i] = s[i]
      /\ DOMAIN s = 1 .. Len(s) /\ DOMAIN Append(s, x) = 1 .. Len(s) + 1
  BY AppendProperties, LenProperties
<1> QED BY <1>1 DEF ToSet

LEMMA CloseFileMoves ==
  ASSUME NEW w, NEW d, NEW s, NEW o, WriterInv(w, d, s), w.open
  PROVE  LET r == CloseFile(w, d, o) IN
         /\ WriterInv(r.fw, r.disk, s) /\ Moved(w, d, r)
         /\ r.fw.pend = w.pend /\ r.fw.total = w.total
         /\ r.res = "ok" => ~r.fw.open
<1> DEFINE r == CloseFile(w, d, o)
<1>0. IsWriter(w) /\ Leftover(w) /\ FilesOf(w, d) /\ (FileRows(d, w.out) \o Unfiled(w)) \o w.pend = s
  BY DEF WriterInv
<1>1. CASE w.bad \/ o = "close_throw"
  <2>1. r = Result("throw", [w EXCEPT !.bad = TRUE], d)
    BY <1>1 DEF CloseFile
  <2> DEFINE v == [w EXCEPT !.bad = TRUE]
  <2>2. /\ Shape(v) /\ v.bad = TRUE /\ v.names = w.names /\ v.id = w.id /\ v.open = w.open
        /\ v.path = w.path /\ v.cols = w.cols /\ v.groups = w.groups /\ v.index = w.index
        /\ v.total = w.total /\ v.pend = w.pend /\ v.out = w.out /\ v.fileRows = w.fileRows
    <3>1. Shape(w)
      BY <1>0 DEF IsWriter
    <3> QED BY <3>1 DEF Shape, Fields
  <2>3. r.fw = v /\ r.disk = d /\ r.res = "throw"
    BY <2>1 DEF Result
  <2> HIDE DEF v
  <2>4. IsWriter(v)
    BY <2>2, <1>0 DEF IsWriter
  <2>5. Leftover(v)
    BY <2>2, <1>0 DEF Leftover
  <2>6. FilesOf(v, d)
    BY <2>2, <1>0 DEF FilesOf, Paths
  <2>7. Unfiled(v) = Unfiled(w)
    BY <2>2 DEF Unfiled
  <2>8. WriterInv(v, d, s)
    BY <2>2, <2>5, <2>6, <2>7, <2>4, <1>0 DEF WriterInv
  <2>9. Moved(w, d, r)
    BY <2>2, <2>3 DEF Moved, Final
  <2> QED BY <2>2, <2>3, <2>8, <2>9
<1>2. CASE ~(w.bad \/ o = "close_throw")
  <2> DEFINE out == IF w.fileRows > 0 THEN RegisterFile(w.out, w.path) ELSE w.out
             v == [w EXCEPT !.open = FALSE, !.fileRows = 0, !.out = out]
             groups == IF o = "close_bad" THEN <<>> ELSE w.groups
             lost == IF o = "close_bad" THEN w.groups ELSE <<>>
             footer == o # "close_bad"
             e == [d EXCEPT ![w.path].groups = groups, ![w.path].lost = lost, ![w.path].footer = footer]
  <2>1. r.fw = v /\ r.disk = e /\ r.res = "ok"
    BY <1>2 DEF CloseFile, Result
  <2>2. w.path \in Paths(w) /\ w.path \in DOMAIN d /\ w.path \notin ToSet(w.out)
    BY <1>0 DEF FilesOf
  <2>3. /\ Shape(v)
        /\ v.open = FALSE /\ v.fileRows = 0
        /\ v.out = IF w.fileRows > 0 THEN Append(w.out, w.path) ELSE w.out
        /\ v.bad = w.bad /\ v.names = w.names /\ v.id = w.id
        /\ v.path = w.path /\ v.cols = w.cols /\ v.groups = w.groups /\ v.index = w.index
        /\ v.total = w.total /\ v.pend = w.pend
    <3>1. Shape(w)
      BY <1>0 DEF IsWriter
    <3>2. RegisterFile(w.out, w.path) = Append(w.out, w.path)
      BY <2>2 DEF RegisterFile
    <3>3. out = IF w.fileRows > 0 THEN Append(w.out, w.path) ELSE w.out
      BY <3>2
    <3> HIDE DEF out
    <3>4. /\ Shape(v) /\ v.open = FALSE /\ v.fileRows = 0 /\ v.out = out
          /\ v.bad = w.bad /\ v.names = w.names /\ v.id = w.id
          /\ v.path = w.path /\ v.cols = w.cols /\ v.groups = w.groups /\ v.index = w.index
          /\ v.total = w.total /\ v.pend = w.pend
      BY <3>1 DEF Shape, Fields
    <3> QED BY <3>3, <3>4
  <2>4. /\ DOMAIN e = DOMAIN d /\ \A p \in DOMAIN d : p # w.path => e[p] = d[p]
        /\ Account(e[w.path]) = w.groups /\ IsFile(e[w.path])
    <3>1. IsFile(d[w.path])
      BY <1>0, <2>2 DEF FilesOf
    <3> DEFINE f == e[w.path]
    <3>2. footer \in BOOLEAN /\ (IF footer THEN groups ELSE lost) = w.groups
      OBVIOUS
    <3> HIDE DEF groups, lost, footer
    <3>3. DOMAIN e = DOMAIN d /\ \A p \in DOMAIN d : p # w.path => e[p] = d[p]
      OBVIOUS
    <3>4. f = [[[d[w.path] EXCEPT !.groups = groups] EXCEPT !.lost = lost] EXCEPT !.footer = footer]
      BY <2>2
    <3> HIDE DEF e, f
    <3>5. f.groups = groups /\ f.lost = lost /\ f.footer = footer /\ IsFile(f)
      BY <3>1, <3>2, <3>4 DEF IsFile
    <3>6. Account(f) = w.groups
      BY <3>2, <3>5 DEF Account
    <3> QED BY <3>3, <3>5, <3>6 DEF f
  <2> HIDE DEF v, e
  <2>5. IsWriter(v)
    <3>1. /\ w.names \in Seq(STRING) /\ w.names # <<>> /\ w.bad \in BOOLEAN
          /\ w.id \in Nat /\ w.index \in Nat /\ w.total \in Nat
          /\ w.pend \in Seq(RowsFor(w.names)) /\ w.groups \in Seq(Groups(w.names))
      BY <1>0 DEF IsWriter
    <3>2. v.bad \in BOOLEAN /\ v.open \in BOOLEAN /\ ~v.open
      BY <2>3, <3>1
    <3>3. v.pend \in Seq(RowsFor(v.names)) /\ v.groups \in Seq(Groups(v.names))
      BY <2>3, <3>1
    <3>4. v.names \in Seq(STRING) /\ v.names # <<>>
      BY <2>3, <3>1
    <3>5. v.id \in Nat /\ v.index \in Nat /\ v.fileRows \in Nat /\ v.total \in Nat
      BY <2>3, <3>1
    <3> QED BY <2>3, <3>2, <3>3, <3>4, <3>5 DEF IsWriter
  <2>6. Leftover(v)
    BY <2>3, <1>0 DEF Leftover
  <2>7. Paths(v) = Paths(w)
    BY <2>3 DEF Paths
  <2>8. v.out \in Seq(Paths(w)) /\ ToSet(v.out) \subseteq ToSet(w.out) \cup {w.path} /\ ToSet(w.out) \subseteq ToSet(v.out)
    BY <2>2, <2>3, <1>0, ToSetAppend, AppendProperties DEF FilesOf
  <2>9. FilesOf(v, e)
    <3>1. \A p \in DOMAIN e : IsFile(e[p])
      BY <2>4, <1>0 DEF FilesOf
    <3>2. \A p \in ToSet(v.out) : p \in DOMAIN e /\ Account(e[p]) \in Seq(Groups(v.names))
      BY <2>2, <2>3, <2>4, <2>8, <1>0 DEF FilesOf, IsWriter
    <3> QED BY <3>1, <3>2, <2>3, <2>7, <2>8 DEF FilesOf
  <2>10. Final(w, d, e)
    <3>1. w.path[1] = w.id
      BY <2>2 DEF Paths
    <3> QED BY <3>1, <2>2, <2>4 DEF Final
  <2>11. FileRows(e, w.out) = FileRows(d, w.out)
    <3>1. \A p \in ToSet(w.out) : Account(e[p]) = Account(d[p])
      BY <2>2, <2>4, <1>0 DEF FilesOf
    <3> QED BY <3>1, <1>0, FileRowsSame DEF FilesOf
  <2>12. FileRows(e, v.out) \o Unfiled(v) = FileRows(d, w.out) \o Unfiled(w)
    <3>1. Unfiled(v) = <<>> /\ Unfiled(w) = RowsIn(w.groups)
      BY <2>3 DEF Unfiled
    <3>2. FileRows(e, v.out) = FileRows(d, w.out) \o RowsIn(w.groups)
      <4>1. CASE w.fileRows > 0
        <5>1. HoldsRows(e, v.out, w.names)
          BY <2>9, <2>3 DEF HoldsRows, FilesOf
        <5>2. FileRows(e, Append(w.out, w.path)) = FileRows(e, w.out) \o RowsIn(Account(e[w.path]))
          <6>1. /\ w.names \in Seq(STRING) /\ w.groups \in Seq(Groups(w.names)) /\ w.out \in Seq(Paths(w))
                /\ HoldsRows(e, w.out, w.names)
            BY <5>1, <2>8, <1>0 DEF FilesOf, IsWriter, HoldsRows
          <6>2. \A p \in Paths(w) : Account(e[p]) \in Seq(Groups(w.names)) =>
                  FileRows(e, Append(w.out, p)) = FileRows(e, w.out) \o RowsIn(Account(e[p]))
            BY <6>1, FileRowsFacts
          <6> QED BY <6>1, <6>2, <2>2, <2>4
        <5> QED BY <4>1, <5>2, <2>3, <2>4, <2>11
      <4>2. CASE ~(w.fileRows > 0)
        <5>1. w.fileRows = 0 /\ w.groups = <<>>
          BY <4>2, <1>0 DEF IsWriter
        <5>2. RowsIn(w.groups) = <<>>
          BY <5>1, NoRowsIn
        <5> QED BY <4>2, <5>2, <2>3, <2>11, <1>0, RowsHeld, ConcatEmptySeq
      <4> QED BY <4>1, <4>2
    <3>3. FileRows(d, w.out) \o RowsIn(w.groups) \in Seq(RowsFor(w.names))
      BY <1>0, RowsHeld, ConcatProperties
    <3> QED BY <3>1, <3>2, <3>3, ConcatEmptySeq
  <2>13. WriterInv(v, e, s)
    BY <2>3, <2>5, <2>6, <2>9, <2>12, <1>0 DEF WriterInv
  <2>14. Moved(w, d, r)
    BY <2>1, <2>3, <2>8, <2>10 DEF Moved
  <2> QED BY <2>1, <2>3, <2>13, <2>14
<1> QED BY <1>1, <1>2

(* What open, flush, write and close make of a writer that holds the rows s.*)
Keeps(w, d, s, r) ==
  WriterInv(r.fw, r.disk, s) /\ Moved(w, d, r) /\ r.fw.total = w.total

LEMMA OpenNewFileKeeps ==
  ASSUME NEW w, NEW d, NEW s, NEW o, WriterInv(w, d, s), ~w.open
  PROVE  LET r == OpenNewFile(w, d, o) IN
         Keeps(w, d, s, r) /\ r.fw.pend = w.pend /\ (r.res = "ok" => r.fw.open)
<1> DEFINE r == OpenNewFile(w, d, o)
           path == <<w.id, w.index>>
           named == [w EXCEPT !.index = w.index + 1, !.path = path]
           file == [names |-> w.names, groups |-> <<>>, footer |-> FALSE, damage |-> {}, lost |-> <<>>]
<1>0. IsWriter(w) /\ Leftover(w) /\ FilesOf(w, d) /\ (FileRows(d, w.out) \o Unfiled(w)) \o w.pend = s
  BY DEF WriterInv
<1>1. /\ Shape(w) /\ w.names \in Seq(STRING) /\ w.names # <<>> /\ w.bad \in BOOLEAN
      /\ w.id \in Nat /\ w.index \in Nat /\ w.fileRows \in Nat /\ w.total \in Nat
      /\ w.pend \in Seq(RowsFor(w.names)) /\ w.groups \in Seq(Groups(w.names))
  BY <1>0 DEF IsWriter
<1>2. path \in {<<w.id, k>> : k \in 0 .. w.index} /\ path \notin Paths(w)
  BY <1>1 DEF Paths
<1>3. path \notin ToSet(w.out)
  <2>1. \A p \in ToSet(w.out) : p \in Paths(w)
    <3>1. w.out \in Seq(Paths(w))
      BY <1>0 DEF FilesOf
    <3>2. \A i \in 1 .. Len(w.out) : w.out[i] \in Paths(w)
      BY <3>1, ElementOfSeq
    <3> QED BY <3>1, <3>2 DEF ToSet
  <2> QED BY <2>1, <1>2
<1> HIDE DEF path, file
<1>4. /\ Shape(named) /\ named.index = w.index + 1 /\ named.path = path
      /\ named.names = w.names /\ named.id = w.id /\ named.open = w.open /\ named.bad = w.bad
      /\ named.cols = w.cols /\ named.groups = w.groups /\ named.fileRows = w.fileRows
      /\ named.total = w.total /\ named.pend = w.pend /\ named.out = w.out
  BY <1>1 DEF Shape, Fields
<1>5. CASE o = "open_fails"
  <2>1. r.fw = named /\ r.disk = d /\ r.res = "error"
    BY <1>5 DEF OpenNewFile, Result, path
  <2> HIDE DEF named
  <2>2. IsWriter(named)
    <3>1. named.pend \in Seq(RowsFor(named.names)) /\ named.groups \in Seq(Groups(named.names))
      BY <1>1, <1>4
    <3>2. named.names \in Seq(STRING) /\ named.names # <<>>
      BY <1>1, <1>4
    <3>3. named.id \in Nat /\ named.index \in Nat /\ named.fileRows \in Nat /\ named.total \in Nat
      BY <1>1, <1>4
    <3>4. named.open \in BOOLEAN /\ named.bad \in BOOLEAN /\ ~named.open
      BY <1>0, <1>1, <1>4 DEF IsWriter
    <3> QED BY <1>4, <3>1, <3>2, <3>3, <3>4 DEF IsWriter
  <2>3. Leftover(named)
    BY <1>0, <1>4 DEF Leftover
  <2>4. FilesOf(named, d)
    <3>1. Paths(w) \subseteq Paths(named)
      BY <1>1, <1>4 DEF Paths
    <3>2. named.out \in Seq(Paths(named))
      BY <3>1, <1>0, <1>4, SeqMonotonic DEF FilesOf
    <3> QED BY <3>2, <1>0, <1>4 DEF FilesOf
  <2>5. Unfiled(named) = Unfiled(w)
    BY <1>4 DEF Unfiled
  <2>6. WriterInv(named, d, s)
    BY <1>0, <1>4, <2>2, <2>3, <2>4, <2>5 DEF WriterInv
  <2>7. Moved(w, d, r)
    BY <1>4, <2>1 DEF Moved, Final
  <2> QED BY <1>4, <2>1, <2>6, <2>7 DEF Keeps
<1>6. CASE o # "open_fails"
  <2> DEFINE v == [named EXCEPT !.open = TRUE, !.bad = FALSE, !.fileRows = 0, !.groups = <<>>,
                                !.cols = EmptyColumns(w.names)]
             e == [p \in DOMAIN d \union {path} |-> IF p = path THEN file ELSE d[p]]
  <2>1. r.fw = v /\ r.disk = e /\ r.res = "ok"
    BY <1>6 DEF OpenNewFile, Result, path, file
  <2> HIDE DEF named
  <2>2. /\ Shape(v) /\ v.open = TRUE /\ v.bad = FALSE /\ v.fileRows = 0 /\ v.groups = <<>>
        /\ v.cols = EmptyColumns(w.names)
        /\ v.names = w.names /\ v.id = w.id /\ v.path = path /\ v.index = w.index + 1
        /\ v.total = w.total /\ v.pend = w.pend /\ v.out = w.out
    <3> DEFINE c == EmptyColumns(w.names)
    <3> HIDE DEF c
    <3>1. [named EXCEPT !.open = TRUE, !.bad = FALSE, !.fileRows = 0, !.groups = <<>>, !.cols = c] = v
      BY DEF c
    <3> HIDE DEF v
    <3>2. /\ Shape(v) /\ v.open = TRUE /\ v.bad = FALSE /\ v.fileRows = 0 /\ v.groups = <<>>
          /\ v.cols = c
          /\ v.names = named.names /\ v.id = named.id /\ v.path = named.path /\ v.index = named.index
          /\ v.total = named.total /\ v.pend = named.pend /\ v.out = named.out
      BY <1>4, <3>1 DEF Shape, Fields
    <3> QED BY <1>4, <3>2 DEF c
  <2> HIDE DEF v
  <2>3. DOMAIN e = DOMAIN d \union {path} /\ e[path] = file /\ \A p \in DOMAIN d : p # path => e[p] = d[p]
    OBVIOUS
  <2> HIDE DEF e
  <2>4. IsWriter(v)
    <3>1. v.groups \in Seq(Groups(v.names))
      BY <2>2, EmptySeq
    <3>2. v.pend \in Seq(RowsFor(v.names)) /\ v.names \in Seq(STRING) /\ v.names # <<>>
      BY <1>1, <2>2
    <3>3. v.id \in Nat /\ v.index \in Nat /\ v.fileRows \in Nat /\ v.total \in Nat
      BY <1>1, <2>2
    <3>4. v.open \in BOOLEAN /\ v.bad \in BOOLEAN
      BY <2>2
    <3> QED BY <2>2, <3>1, <3>2, <3>3, <3>4 DEF IsWriter
  <2>5. Leftover(v)
    <3>1. <<>> \in Seq(RowsFor(v.names)) /\ v.cols = ColumnsOf(<<>>, v.names)
      BY <1>1, <2>2, EmptySeq, NoColumns
    <3> QED BY <3>1 DEF Leftover
  <2>6. FilesOf(v, e)
    <3>1. Paths(w) \subseteq Paths(v) /\ path \in Paths(v)
      BY <1>1, <2>2 DEF Paths, path
    <3>2. v.out \in Seq(Paths(v))
      BY <3>1, <1>0, <2>2, SeqMonotonic DEF FilesOf
    <3>3. IsFile(file)
      BY DEF IsFile, file
    <3>4. \A p \in DOMAIN e : IsFile(e[p])
      BY <3>3, <1>0, <2>3 DEF FilesOf
    <3>5. \A p \in ToSet(v.out) : p \in DOMAIN e /\ Account(e[p]) \in Seq(Groups(v.names))
      BY <1>0, <1>3, <2>2, <2>3 DEF FilesOf
    <3> QED BY <1>3, <2>2, <2>3, <3>1, <3>2, <3>4, <3>5 DEF FilesOf
  <2>7. FileRows(e, v.out) = FileRows(d, w.out)
    <3>1. \A p \in ToSet(w.out) : Account(e[p]) = Account(d[p])
      BY <1>0, <1>3, <2>3 DEF FilesOf
    <3> QED BY <3>1, <1>0, <2>2, FileRowsSame DEF FilesOf
  <2>8. Unfiled(v) = Unfiled(w)
    BY <2>2, NoRowsIn DEF Unfiled
  <2>9. WriterInv(v, e, s)
    BY <1>0, <2>2, <2>4, <2>5, <2>6, <2>7, <2>8 DEF WriterInv
  <2>10. Moved(w, d, r)
    <3>1. path[1] = w.id
      BY DEF path
    <3>2. Final(w, d, e)
      BY <3>1, <1>3, <2>3 DEF Final
    <3> QED BY <3>2, <2>1, <2>2 DEF Moved
  <2> QED BY <2>1, <2>2, <2>9, <2>10 DEF Keeps
<1> QED BY <1>5, <1>6

(* The row group is written when nothing was left over; what cannot be      *)
(* written is left over, and the buffers stay.                              *)
LEMMA FlushRowsKeeps ==
  ASSUME NEW w, NEW d, NEW s, NEW o, WriterInv(w, d, s)
  PROVE  LET r == FlushRows(w, d, o) IN
         Keeps(w, d, s, r) /\ (r.res = "ok" => r.fw.pend = <<>>)
<1> DEFINE r == FlushRows(w, d, o)
           opened == IF w.open THEN Result("ok", w, d) ELSE OpenNewFile(w, d, o)
           x == opened.fw
           y == opened.disk
           new == ColumnsOf(w.pend, w.names)
           filled == [x EXCEPT !.cols = WriteColumns(x.cols, new)]
           flushed == [filled EXCEPT !.groups = Append(filled.groups, filled.cols),
                                     !.cols = EmptyColumns(w.names),
                                     !.fileRows = filled.fileRows + Len(w.pend), !.pend = <<>>]
<1> SUFFICES Keeps(w, d, s, r) /\ (r.res = "ok" => r.fw.pend = <<>>)
  OBVIOUS
<1>1. CASE w.pend = <<>>
  <2>1. r.fw = w /\ r.disk = d /\ r.res = "ok"
    BY <1>1 DEF FlushRows, Result
  <2>2. Moved(w, d, r)
    BY <2>1 DEF Moved, Final
  <2> QED BY <1>1, <2>1, <2>2 DEF Keeps
<1>2. Keeps(w, d, s, opened) /\ x.pend = w.pend /\ (opened.res = "ok" => x.open)
  <2>1. CASE w.open
    <3>1. x = w /\ y = d /\ opened.res = "ok"
      BY <2>1 DEF Result
    <3>2. Moved(w, d, opened)
      BY <3>1 DEF Moved, Final
    <3> QED BY <2>1, <3>1, <3>2 DEF Keeps
  <2>2. CASE ~w.open
    BY <2>2, OpenNewFileKeeps
  <2> QED BY <2>1, <2>2
<1>3. CASE w.pend # <<>> /\ opened.res # "ok"
  <2>1. r = opened
    BY <1>3 DEF FlushRows
  <2> QED BY <1>2, <1>3, <2>1
<1>4. CASE w.pend # <<>> /\ opened.res = "ok"
  <2> HIDE DEF opened, x, y
  <2>1. /\ IsWriter(x) /\ Leftover(x) /\ FilesOf(x, y) /\ (FileRows(y, x.out) \o Unfiled(x)) \o x.pend = s
        /\ x.open /\ x.pend = w.pend /\ x.names = w.names /\ x.id = w.id /\ x.total = w.total
        /\ Moved(w, d, opened)
    BY <1>2, <1>4 DEF Keeps, WriterInv, Moved, x, y
  <2>2. /\ Shape(x) /\ x.names \in Seq(STRING) /\ x.names # <<>> /\ x.bad \in BOOLEAN
        /\ x.id \in Nat /\ x.index \in Nat /\ x.fileRows \in Nat /\ x.total \in Nat
        /\ x.pend \in Seq(RowsFor(x.names)) /\ x.groups \in Seq(Groups(x.names))
    BY <2>1 DEF IsWriter
  <2>3. PICK left \in Seq(RowsFor(x.names)) :
          x.cols = ColumnsOf(left, x.names) /\ (left = <<>> \/ x.bad \/ Len(left) > MaxPageRows)
    BY <2>1 DEF Leftover
  <2> DEFINE all == left \o x.pend
             c == ColumnsOf(all, x.names)
  <2>4. WriteColumns(x.cols, new) = c
    BY <2>1, <2>2, <2>3, ColumnsJoin
  <2>5. /\ all \in Seq(RowsFor(x.names)) /\ Len(all) = Len(left) + Len(x.pend)
        /\ Len(left) \in Nat /\ Len(x.pend) \in Nat \ {0}
    BY <1>4, <2>1, <2>2, ConcatProperties, LenProperties, EmptySeq
  <2>6. Len(c.eids) = Len(all)
    BY <2>2, <2>5, RowsBack
  <2> HIDE DEF all, c, new
  <2>7. filled = [x EXCEPT !.cols = c]
    BY <2>4
  <2>8. /\ Shape(filled) /\ filled.cols = c
        /\ filled.open = x.open /\ filled.bad = x.bad /\ filled.fileRows = x.fileRows
        /\ filled.groups = x.groups /\ filled.names = x.names /\ filled.id = x.id
        /\ filled.path = x.path /\ filled.index = x.index
        /\ filled.total = x.total /\ filled.pend = x.pend /\ filled.out = x.out
    <3> HIDE DEF filled
    <3> QED BY <2>2, <2>7 DEF Shape, Fields
  <2> HIDE DEF filled
  <2>9. CASE Len(filled.cols.eids) > MaxPageRows
    <3>1. r.fw = filled /\ r.disk = y /\ r.res = "error"
      BY <1>4, <2>9 DEF FlushRows, Result, filled, opened, x, y, new
    <3>2. IsWriter(filled)
      <4>1. filled.pend \in Seq(RowsFor(filled.names)) /\ filled.groups \in Seq(Groups(filled.names))
        BY <2>2, <2>8
      <4>2. filled.names \in Seq(STRING) /\ filled.names # <<>>
        BY <2>2, <2>8
      <4>3. filled.id \in Nat /\ filled.index \in Nat /\ filled.fileRows \in Nat /\ filled.total \in Nat
        BY <2>2, <2>8
      <4>4. /\ filled.open \in BOOLEAN /\ filled.bad \in BOOLEAN
            /\ filled.fileRows = 0 => filled.groups = <<>>
        BY <2>1, <2>8 DEF IsWriter
      <4> QED BY <2>8, <4>1, <4>2, <4>3, <4>4 DEF IsWriter
    <3>3. Leftover(filled)
      BY <2>5, <2>6, <2>8, <2>9 DEF Leftover, c
    <3>4. FilesOf(filled, y)
      BY <2>1, <2>8 DEF FilesOf, Paths
    <3>5. Unfiled(filled) = Unfiled(x)
      BY <2>8 DEF Unfiled
    <3>6. WriterInv(filled, y, s)
      BY <2>1, <2>8, <3>2, <3>3, <3>4, <3>5 DEF WriterInv
    <3>7. Moved(w, d, r)
      BY <2>1, <2>8, <3>1 DEF Moved, x, y
    <3> QED BY <2>1, <2>8, <3>1, <3>6, <3>7 DEF Keeps
  <2>10. CASE ~(Len(filled.cols.eids) > MaxPageRows) /\ (filled.bad \/ o = "throw")
    <3> DEFINE v == [filled EXCEPT !.bad = TRUE]
    <3>1. r.fw = v /\ r.disk = y /\ r.res = "throw"
      BY <1>4, <2>10 DEF FlushRows, Result, filled, opened, x, y, new
    <3>2. /\ Shape(v) /\ v.cols = c /\ v.bad = TRUE
          /\ v.open = x.open /\ v.fileRows = x.fileRows
          /\ v.groups = x.groups /\ v.names = x.names /\ v.id = x.id
          /\ v.path = x.path /\ v.index = x.index
          /\ v.total = x.total /\ v.pend = x.pend /\ v.out = x.out
      BY <2>8 DEF Shape, Fields
    <3> HIDE DEF v
    <3>3. IsWriter(v)
      <4>1. v.pend \in Seq(RowsFor(v.names)) /\ v.groups \in Seq(Groups(v.names))
        BY <2>2, <3>2
      <4>2. v.names \in Seq(STRING) /\ v.names # <<>>
        BY <2>2, <3>2
      <4>3. v.id \in Nat /\ v.index \in Nat /\ v.fileRows \in Nat /\ v.total \in Nat
        BY <2>2, <3>2
      <4>4. v.open \in BOOLEAN /\ v.bad \in BOOLEAN /\ (v.fileRows = 0 => v.groups = <<>>)
        BY <2>1, <3>2 DEF IsWriter
      <4> QED BY <3>2, <4>1, <4>2, <4>3, <4>4 DEF IsWriter
    <3>4. Leftover(v)
      BY <2>5, <3>2 DEF Leftover, c
    <3>5. FilesOf(v, y)
      BY <2>1, <3>2 DEF FilesOf, Paths
    <3>6. Unfiled(v) = Unfiled(x)
      BY <3>2 DEF Unfiled
    <3>7. WriterInv(v, y, s)
      BY <2>1, <3>2, <3>3, <3>4, <3>5, <3>6 DEF WriterInv
    <3>8. Moved(w, d, r)
      BY <2>1, <3>1, <3>2 DEF Moved, x, y
    <3> QED BY <2>1, <3>1, <3>2, <3>7, <3>8 DEF Keeps
  <2>11. CASE ~(Len(filled.cols.eids) > MaxPageRows) /\ ~(filled.bad \/ o = "throw")
    <3>1. left = <<>>
      <4>1. ~x.bad
        BY <2>8, <2>11
      <4>2. ~(Len(left) > MaxPageRows)
        BY <2>5, <2>6, <2>8, <2>11, LimitsAssumption
      <4> QED BY <2>3, <4>1, <4>2
    <3>2. all = x.pend
      BY <2>2, <3>1, ConcatEmptySeq DEF all
    <3> DEFINE v == flushed
               e == EmptyColumns(w.names)
               gs == Append(x.groups, c)
               n == x.fileRows + Len(x.pend)
    <3>3. n \in Nat \ {0}
      BY <2>2, <2>5
    <3>4. gs \in Seq(Groups(x.names))
      <4>1. c \in Groups(x.names)
        BY <1>4, <2>1, <2>5, <3>2 DEF Groups, c
      <4> QED BY <4>1, <2>2, AppendProperties
    <3>5. RowsIn(gs) = RowsIn(x.groups) \o x.pend
      BY <2>2, <3>2, RowsInFacts DEF c
    <3>6. v = [filled EXCEPT !.groups = gs, !.cols = e, !.fileRows = n, !.pend = <<>>]
      BY <2>1, <2>8
    <3> HIDE DEF v, e, gs, n
    <3>7. /\ Shape(v) /\ v.cols = e /\ v.groups = gs /\ v.fileRows = n /\ v.pend = <<>>
          /\ v.open = filled.open /\ v.bad = filled.bad
          /\ v.names = filled.names /\ v.id = filled.id /\ v.path = filled.path
          /\ v.index = filled.index /\ v.total = filled.total /\ v.out = filled.out
      BY <2>8, <3>6 DEF Shape, Fields
    <3>8. IsWriter(v)
      <4>1. v.groups \in Seq(Groups(v.names)) /\ v.pend \in Seq(RowsFor(v.names))
        BY <2>8, <3>4, <3>7, EmptySeq
      <4>2. v.names \in Seq(STRING) /\ v.names # <<>>
        BY <2>2, <2>8, <3>7
      <4>3. v.id \in Nat /\ v.index \in Nat /\ v.fileRows \in Nat \ {0} /\ v.total \in Nat
        BY <2>2, <2>8, <3>3, <3>7
      <4>4. v.open \in BOOLEAN /\ v.bad \in BOOLEAN
        BY <2>1, <2>8, <3>7 DEF IsWriter
      <4> QED BY <3>7, <4>1, <4>2, <4>3, <4>4 DEF IsWriter
    <3>9. Leftover(v)
      <4>1. <<>> \in Seq(RowsFor(v.names)) /\ v.cols = ColumnsOf(<<>>, v.names)
        BY <2>1, <2>2, <2>8, <3>7, EmptySeq, NoColumns DEF e
      <4> QED BY <4>1 DEF Leftover
    <3>10. FilesOf(v, y)
      BY <2>1, <2>8, <3>7 DEF FilesOf, Paths
    <3>11. (FileRows(y, v.out) \o Unfiled(v)) \o v.pend = s
      <4> DEFINE f == FileRows(y, x.out)
                 g == RowsIn(x.groups)
                 h == x.pend
                 R == RowsFor(x.names)
      <4>1. f \in Seq(R) /\ g \in Seq(R) /\ h \in Seq(R)
        BY <2>1, <2>2, RowsHeld
      <4>2. Unfiled(x) = g /\ Unfiled(v) = g \o x.pend /\ v.pend = <<>> /\ v.out = x.out
        BY <2>1, <2>8, <3>5, <3>7 DEF Unfiled
      <4>3. (f \o g) \o x.pend = s
        BY <2>1, <4>2
      <4> HIDE DEF f, g, h, R
      <4>4. f \o (g \o h) = (f \o g) \o h
        BY <4>1, ConcatAssociative, SMTT(60)
      <4>5. f \o (g \o h) \in Seq(R)
        <5>1. g \o h \in Seq(R)
          BY <4>1, ConcatProperties
        <5> QED BY <4>1, <5>1, ConcatProperties
      <4>6. (f \o (g \o h)) \o <<>> = f \o (g \o h)
        BY <4>5, ConcatEmptySeq
      <4> QED BY <4>2, <4>3, <4>4, <4>6 DEF f, h
    <3>12. WriterInv(v, y, s)
      BY <3>8, <3>9, <3>10, <3>11 DEF WriterInv
    <3> DEFINE q == Result("ok", v, y)
    <3>13. q.fw = v /\ q.disk = y /\ q.res = "ok"
      BY DEF Result
    <3> HIDE DEF q
    <3>14. Moved(w, d, q)
      BY <2>1, <2>8, <3>7, <3>13 DEF Moved, x, y
    <3>15. CASE v.fileRows >= MaxFileRows
      <4>1. r = CloseFile(v, y, o)
        BY <1>4, <2>11, <3>15 DEF FlushRows, filled, opened, x, y, new, v
      <4>2. v.open
        BY <2>1, <2>8, <3>7
      <4>3. /\ WriterInv(r.fw, r.disk, s) /\ Moved(v, y, r)
            /\ r.fw.pend = v.pend /\ r.fw.total = v.total
        <5> HIDE DEF r
        <5> QED BY <4>1, <4>2, <3>12, CloseFileMoves
      <4> HIDE DEF r
      <4>4. Moved(w, d, r)
        BY <4>3, <3>13, <3>14, MovedTwice
      <4> QED BY <2>1, <2>8, <3>7, <4>3, <4>4 DEF Keeps
    <3>16. CASE ~(v.fileRows >= MaxFileRows)
      <4>1. r = q
        BY <1>4, <2>11, <3>16 DEF FlushRows, filled, opened, x, y, new, v, q
      <4> HIDE DEF r
      <4> QED BY <2>1, <2>8, <3>7, <3>12, <3>13, <3>14, <4>1 DEF Keeps
    <3> QED BY <3>15, <3>16
  <2> QED BY <2>9, <2>10, <2>11
<1> QED BY <1>1, <1>3, <1>4

LEMMA AppendJoin ==
  ASSUME NEW S, NEW s \in Seq(S), NEW t \in Seq(S), NEW x \in S
  PROVE  s \o Append(t, x) = Append(s \o t, x)
<1> DEFINE u == <<x>>
<1>1. Append(t, x) = t \o u /\ u \in Seq(S)
  BY AppendIsConcat
<1>2. s \o t \in Seq(S)
  BY ConcatProperties
<1>3. Append(s \o t, x) = (s \o t) \o u
  BY <1>2, AppendIsConcat
<1> HIDE DEF u
<1>4. (s \o t) \o u = s \o (t \o u)
  BY <1>1, ConcatAssociative
<1> QED BY <1>1, <1>3, <1>4

LEMMA FirstOfTwo ==
  ASSUME NEW S, NEW s \in Seq(S), NEW a \in S, NEW b \in S
  PROVE  /\ s \o SubSeq(<<a, b>>, 1, 1) = Append(s, a)
         /\ s \o SubSeq(<<a, b>>, 1, 2) = Append(Append(s, a), b)
<1> DEFINE t == <<a, b>>
<1>5. t \in Seq(S) /\ Len(t) = 2 /\ t[1] = a /\ t[2] = b
  OBVIOUS
<1> HIDE DEF t
<1>6. SubSeq(t, 1, 1) = <<a>>
  <2>1. SubSeq(t, 1, 1) \in Seq(S) /\ Len(SubSeq(t, 1, 1)) = 1 /\ SubSeq(t, 1, 1)[1] = a
    BY <1>5, SubSeqProperties
  <2>2. <<a>> \in Seq(S) /\ Len(<<a>>) = 1 /\ <<a>>[1] = a
    OBVIOUS
  <2> DEFINE p == SubSeq(t, 1, 1)
             q == <<a>>
  <2> HIDE DEF p, q
  <2>3. \A i \in 1 .. Len(p) : p[i] = q[i]
    <3>1. \A i \in 1 .. 1 : i = 1
      OBVIOUS
    <3> QED BY <2>1, <2>2, <3>1 DEF p, q
  <2>4. p \in Seq(S) /\ q \in Seq(S) /\ Len(p) = Len(q)
    BY <2>1, <2>2 DEF p, q
  <2>5. p = q
    BY <2>3, <2>4, SeqEqual
  <2> QED BY <2>5 DEF p, q
<1>7. SubSeq(t, 1, 2) = t
  <2>1. SubSeq(t, 1, 2) \in Seq(S) /\ Len(SubSeq(t, 1, 2)) = 2 /\ SubSeq(t, 1, 2)[1] = a /\ SubSeq(t, 1, 2)[2] = b
    BY <1>5, SubSeqProperties
  <2> QED BY <1>5, <2>1, SeqEqual
<1>1. SubSeq(<<a, b>>, 1, 1) = <<a>> /\ SubSeq(<<a, b>>, 1, 2) = <<a, b>>
  BY <1>6, <1>7 DEF t
<1>2. <<a, b>> = Append(<<a>>, b) /\ <<a>> \in Seq(S)
  OBVIOUS
<1>3. s \o <<a>> = Append(s, a)
  BY AppendIsConcat
<1>4. s \o Append(<<a>>, b) = Append(s \o <<a>>, b)
  BY <1>2, AppendJoin
<1> QED BY <1>1, <1>2, <1>3, <1>4

LEMMA CloseWriterKeeps ==
  ASSUME NEW w, NEW d, NEW s, NEW o, WriterInv(w, d, s)
  PROVE  LET r == CloseWriter(w, d, o) IN
         Keeps(w, d, s, r) /\ (r.res = "ok" => ~r.fw.open /\ r.fw.pend = <<>>)
<1> DEFINE r == CloseWriter(w, d, o)
           q == FlushRows(w, d, o)
<1> SUFFICES Keeps(w, d, s, r) /\ (r.res = "ok" => ~r.fw.open /\ r.fw.pend = <<>>)
  OBVIOUS
<1>1. Keeps(w, d, s, q) /\ (q.res = "ok" => q.fw.pend = <<>>)
  BY FlushRowsKeeps
<1>2. r = IF q.res # "ok" \/ ~q.fw.open THEN q ELSE CloseFile(q.fw, q.disk, o)
  BY DEF CloseWriter
<1> HIDE DEF r, q
<1>3. CASE q.res # "ok" \/ ~q.fw.open
  BY <1>1, <1>2, <1>3
<1>4. CASE ~(q.res # "ok" \/ ~q.fw.open)
  <2>1. r = CloseFile(q.fw, q.disk, o)
    BY <1>2, <1>4
  <2>2. /\ WriterInv(r.fw, r.disk, s) /\ Moved(q.fw, q.disk, r)
        /\ r.fw.pend = q.fw.pend /\ r.fw.total = q.fw.total
        /\ r.res = "ok" => ~r.fw.open
    BY <1>1, <1>4, <2>1, CloseFileMoves DEF Keeps
  <2>3. Moved(w, d, r)
    BY <1>1, <2>2, MovedTwice DEF Keeps
  <2> QED BY <1>1, <1>4, <2>2, <2>3 DEF Keeps
<1> QED BY <1>3, <1>4

(* What write() makes of the rows s: it refuses the row or takes it.        *)
Takes(w, d, s, row, r) ==
  /\ WriterInv(r.fw, r.disk, Append(s, row)) /\ Moved(w, d, r)
  /\ r.fw.total = w.total + 1

LEMMA WriteTakes ==
  ASSUME NEW w, NEW d, NEW s, NEW o, NEW row \in RowsFor(w.names), WriterInv(w, d, s)
  PROVE  Takes(w, d, s, row, Write(w, d, row, o))
<1> DEFINE r == Write(w, d, row, o)
           b == [w EXCEPT !.pend = Append(w.pend, row), !.total = w.total + 1]
           R == RowsFor(w.names)
<1> SUFFICES Takes(w, d, s, row, r)
  OBVIOUS
<1>0. IsWriter(w) /\ Leftover(w) /\ FilesOf(w, d) /\ (FileRows(d, w.out) \o Unfiled(w)) \o w.pend = s
  BY DEF WriterInv
<1>1. /\ Shape(w) /\ w.names \in Seq(STRING) /\ w.names # <<>> /\ w.bad \in BOOLEAN
      /\ w.id \in Nat /\ w.index \in Nat /\ w.fileRows \in Nat /\ w.total \in Nat
      /\ w.pend \in Seq(R) /\ w.groups \in Seq(Groups(w.names))
  BY <1>0 DEF IsWriter
<1>2. Len(row.values) = Len(w.names)
  BY <1>1, RowShape
<1>3. /\ Shape(b) /\ b.pend = Append(w.pend, row) /\ b.total = w.total + 1
      /\ b.names = w.names /\ b.id = w.id /\ b.open = w.open /\ b.bad = w.bad /\ b.path = w.path
      /\ b.cols = w.cols /\ b.groups = w.groups /\ b.fileRows = w.fileRows /\ b.index = w.index
      /\ b.out = w.out
  <2> DEFINE x == Append(w.pend, row)
             n == w.total + 1
  <2> HIDE DEF x, n
  <2> SUFFICES /\ Shape([w EXCEPT !.pend = x, !.total = n]) /\ [w EXCEPT !.pend = x, !.total = n] = b
               /\ b.pend = x /\ b.total = n
               /\ b.names = w.names /\ b.id = w.id /\ b.open = w.open /\ b.bad = w.bad
               /\ b.path = w.path /\ b.cols = w.cols /\ b.groups = w.groups
               /\ b.fileRows = w.fileRows /\ b.index = w.index /\ b.out = w.out
    BY DEF x, n
  <2>1. [w EXCEPT !.pend = x, !.total = n] = b
    BY DEF x, n
  <2> HIDE DEF b
  <2> QED BY <1>1, <2>1 DEF Shape, Fields
<1>4. r = IF Len(b.pend) >= RowGroupSize THEN FlushRows(b, d, o) ELSE Result("ok", b, d)
  BY <1>2 DEF Write
<1> HIDE DEF r, b, R
<1>5. IsWriter(b)
  <2>1. b.pend \in Seq(RowsFor(b.names)) /\ b.groups \in Seq(Groups(b.names))
    BY <1>1, <1>3, AppendProperties DEF R
  <2>2. b.names \in Seq(STRING) /\ b.names # <<>>
    BY <1>1, <1>3
  <2>3. b.id \in Nat /\ b.index \in Nat /\ b.fileRows \in Nat /\ b.total \in Nat
    BY <1>1, <1>3
  <2>4. b.open \in BOOLEAN /\ b.bad \in BOOLEAN /\ (b.open /\ b.fileRows = 0 => b.groups = <<>>)
    BY <1>0, <1>3 DEF IsWriter
  <2> QED BY <1>3, <2>1, <2>2, <2>3, <2>4 DEF IsWriter
<1>6. Leftover(b)
  BY <1>0, <1>3 DEF Leftover
<1>7. FilesOf(b, d)
  BY <1>0, <1>3 DEF FilesOf, Paths
<1>8. (FileRows(d, b.out) \o Unfiled(b)) \o b.pend = Append(s, row)
  <2> DEFINE x == FileRows(d, w.out) \o Unfiled(w)
  <2>1. x \in Seq(R)
    BY <1>0, RowsHeld, ConcatProperties DEF R
  <2>2. Unfiled(b) = Unfiled(w)
    BY <1>3 DEF Unfiled
  <2>3. FileRows(d, b.out) \o Unfiled(b) = x
    BY <1>3, <2>2
  <2>4. x \o w.pend = s
    BY <1>0
  <2> HIDE DEF x
  <2>5. x \o Append(w.pend, row) = Append(x \o w.pend, row)
    BY <1>1, <2>1, AppendJoin, SMTT(60) DEF R
  <2> QED BY <1>3, <2>3, <2>4, <2>5
<1>9. WriterInv(b, d, Append(s, row))
  BY <1>5, <1>6, <1>7, <1>8 DEF WriterInv
<1>10. CASE Len(b.pend) >= RowGroupSize
  <2>1. r = FlushRows(b, d, o)
    BY <1>4, <1>10
  <2>2. Keeps(b, d, Append(s, row), r)
    BY <1>9, <2>1, FlushRowsKeeps
  <2>3. Moved(w, d, r)
    BY <1>3, <2>2 DEF Keeps, Moved, Final
  <2> QED BY <1>3, <2>2, <2>3 DEF Keeps, Takes
<1>11. CASE ~(Len(b.pend) >= RowGroupSize)
  <2>1. r.fw = b /\ r.disk = d
    BY <1>4, <1>11 DEF Result
  <2>2. Moved(w, d, r)
    BY <1>3, <2>1 DEF Moved, Final
  <2> QED BY <1>3, <1>9, <2>1, <2>2 DEF Takes
<1> QED BY <1>10, <1>11

LEMMA WriteRefuses ==
  ASSUME NEW w, NEW d, NEW s, NEW o, NEW row, Len(row.values) # Len(w.names), WriterInv(w, d, s)
  PROVE  Keeps(w, d, s, Write(w, d, row, o))
<1> DEFINE r == Write(w, d, row, o)
<1>1. r.fw = w /\ r.disk = d
  BY DEF Write, Result
<1>2. Moved(w, d, r)
  BY <1>1 DEF Moved, Final
<1> QED BY <1>1, <1>2 DEF Keeps

(* write_batch() on two rows: the second one follows unless the first call  *)
(* failed.                                                                  *)
LEMMA WriteBatchOfTwo ==
  ASSUME NEW w, NEW d, NEW a, NEW b, NEW oa, NEW ob
  PROVE  LET q == Write(w, d, a, oa) IN
         WriteBatch(w, d, <<a, b>>, <<oa, ob>>)
           = IF q.res # "ok" THEN q ELSE Write(q.fw, q.disk, b, ob)
<1> DEFINE rows == <<a, b>>
           os == <<oa, ob>>
           q == Write(w, d, a, oa)
           t == IF q.res # "ok" THEN q ELSE Write(q.fw, q.disk, b, ob)
           z == Result("ok", w, d)
           Batch(f) == f = [i \in 0 .. Len(rows) |->
                              IF i = 0 THEN Result("ok", w, d)
                              ELSE IF f[i - 1].res # "ok" THEN f[i - 1]
                              ELSE Write(f[i - 1].fw, f[i - 1].disk, rows[i], os[i])]
           h == CHOOSE f : Batch(f)
           g == [i \in 0 .. 2 |-> IF i = 0 THEN z ELSE IF i = 1 THEN q ELSE t]
<1>1. WriteBatch(w, d, rows, os) = h[Len(rows)]
  BY DEF WriteBatch
<1>2. Len(rows) = 2 /\ rows[1] = a /\ rows[2] = b /\ os[1] = oa /\ os[2] = ob
  OBVIOUS
<1>3. z.res = "ok" /\ z.fw = w /\ z.disk = d
  BY DEF Result
<1> HIDE DEF rows, os, z
<1>4. Batch(g)
  <2>1. g[0] = z /\ g[1] = q /\ g[2] = t /\ g = [i \in 0 .. 2 |-> g[i]]
    OBVIOUS
  <2> HIDE DEF g
  <2>2. ASSUME NEW i \in 0 .. 2
        PROVE g[i] = IF i = 0 THEN Result("ok", w, d)
                     ELSE IF g[i - 1].res # "ok" THEN g[i - 1]
                     ELSE Write(g[i - 1].fw, g[i - 1].disk, rows[i], os[i])
    <3>1. CASE i = 0
      BY <2>1, <3>1 DEF z
    <3>2. CASE i = 1
      <4>1. g[i - 1] = z
        BY <2>1, <3>2
      <4> QED BY <1>2, <1>3, <2>1, <3>2, <4>1
    <3>3. CASE i = 2
      <4>1. g[i - 1] = q
        BY <2>1, <3>3
      <4> HIDE DEF q
      <4> QED BY <1>2, <2>1, <3>3, <4>1
    <3> QED BY <3>1, <3>2, <3>3
  <2> QED BY <1>2, <2>1, <2>2
<1>5. Batch(h)
  <2> HIDE DEF g
  <2>1. \E f : Batch(f)
    BY <1>4
  <2> HIDE DEF Batch
  <2> QED BY <2>1
<1>6. \A i \in 0 .. 2 : h[i] = IF i = 0 THEN Result("ok", w, d)
                               ELSE IF h[i - 1].res # "ok" THEN h[i - 1]
                               ELSE Write(h[i - 1].fw, h[i - 1].disk, rows[i], os[i])
  <2> HIDE DEF h
  <2> QED BY <1>2, <1>5
<1> HIDE DEF h, g, Batch
<1>7. h[0] = z
  BY <1>6 DEF z
<1>8. h[1] = q
  <2>1. h[1] = IF h[0].res # "ok" THEN h[0] ELSE Write(h[0].fw, h[0].disk, rows[1], os[1])
    BY <1>6
  <2> QED BY <1>2, <1>3, <1>7, <2>1
<1>9. h[2] = t
  <2>1. h[2] = IF h[1].res # "ok" THEN h[1] ELSE Write(h[1].fw, h[1].disk, rows[2], os[2])
    BY <1>6
  <2> QED BY <1>2, <1>8, <2>1
<1> QED BY <1>1, <1>2, <1>9 DEF rows, os

-----------------------------------------------------------------------------
(* The store                                                                *)

(* The files that the first n writers can have named.                       *)
OldPaths(n) == {<<i, k>> : i \in 1 .. n, k \in Nat}

(* How many writers came before the present one.                            *)
Earlier == IF fw = <<>> THEN count.writers ELSE count.writers - 1

Counted ==
  /\ DOMAIN count = {"rows", "writers", "faults", "failed", "opens", "queries"}
  /\ count.writers \in Nat /\ count.rows \in Nat

StoreInv ==
  /\ Counted
  /\ \A p \in DOMAIN disk : IsFile(disk[p])
  /\ past \in Seq(OldPaths(Earlier) \cap DOMAIN disk)
  /\ fw # <<>> => /\ fw = <<fw[1]>> /\ WriterInv(fw[1], disk, sent)
                  /\ fw[1].id = count.writers /\ count.writers > 0
                  /\ closed => ~fw[1].open /\ fw[1].pend = <<>>

FiledSame ==
  \A p \in ToSet(Files) : disk'[p].groups = disk[p].groups /\ disk'[p].footer = disk[p].footer

LEMMA ToSetConcat ==
  ASSUME NEW S, NEW s \in Seq(S), NEW t \in Seq(S)
  PROVE  ToSet(s \o t) \subseteq ToSet(s) \cup ToSet(t)
<1>1. /\ s \o t \in Seq(S) /\ Len(s \o t) = Len(s) + Len(t) /\ Len(s) \in Nat /\ Len(t) \in Nat
      /\ \A i \in 1 .. Len(s) + Len(t) : (s \o t)[i] = IF i <= Len(s) THEN s[i] ELSE t[i - Len(s)]
  BY ConcatProperties, LenProperties
<1>2. DOMAIN s = 1 .. Len(s) /\ DOMAIN t = 1 .. Len(t) /\ DOMAIN (s \o t) = 1 .. Len(s) + Len(t)
  BY <1>1, LenProperties
<1> DEFINE u == s \o t
<1> HIDE DEF u
<1>3. ASSUME NEW i \in 1 .. Len(s) + Len(t) PROVE u[i] \in ToSet(s) \cup ToSet(t)
  <2>1. CASE i <= Len(s)
    <3>1. i \in DOMAIN s /\ u[i] = s[i]
      BY <1>1, <1>2, <2>1 DEF u
    <3> QED BY <3>1 DEF ToSet
  <2>2. CASE ~(i <= Len(s))
    <3>1. i - Len(s) \in DOMAIN t /\ u[i] = t[i - Len(s)]
      BY <1>1, <1>2, <2>2 DEF u
    <3> QED BY <3>1 DEF ToSet
  <2> QED BY <2>1, <2>2
<1> QED BY <1>2, <1>3 DEF ToSet, u

LEMMA ToSetType == ASSUME NEW S, NEW s \in Seq(S) PROVE ToSet(s) \subseteq S
<1>1. \A i \in 1 .. Len(s) : s[i] \in S
  BY ElementOfSeq
<1> QED BY <1>1, LenProperties DEF ToSet

(* A file that is finished is an earlier writer's, or in the writer's list. *)
LEMMA WhoseFile ==
  ASSUME StoreInv, NEW p \in ToSet(Files)
  PROVE  /\ p \in DOMAIN disk
         /\ fw # <<>> => p \in ToSet(fw[1].out) \/ p[1] # fw[1].id
<1>1. ToSet(past) \subseteq OldPaths(Earlier) \cap DOMAIN disk
  BY ToSetType DEF StoreInv
<1>2. CASE fw = <<>>
  <2>1. Files = past
    BY <1>2, ConcatEmptySeq DEF Files, StoreInv
  <2> QED BY <1>1, <1>2, <2>1
<1>3. CASE fw # <<>>
  <2>1. FilesOf(fw[1], disk) /\ fw[1].id = count.writers /\ count.writers \in Nat
    BY <1>3 DEF StoreInv, WriterInv, Counted
  <2>2. Files = past \o fw[1].out
    BY <1>3 DEF Files
  <2>3. ToSet(Files) \subseteq ToSet(past) \cup ToSet(fw[1].out)
    <3> DEFINE A == OldPaths(Earlier) \cap DOMAIN disk
               B == Paths(fw[1])
    <3>1. past \in Seq(A) /\ fw[1].out \in Seq(B)
      BY <2>1 DEF StoreInv, FilesOf
    <3> HIDE DEF A, B
    <3>2. past \in Seq(A \cup B) /\ fw[1].out \in Seq(A \cup B)
      BY <3>1, SeqMonotonic
    <3> QED BY <2>2, <3>2, ToSetConcat
  <2>4. CASE p \in ToSet(fw[1].out)
    BY <2>1, <2>4 DEF FilesOf
  <2>5. CASE p \in ToSet(past)
    <3>1. p \in DOMAIN disk /\ p \in OldPaths(count.writers - 1)
      BY <1>1, <1>3, <2>5 DEF Earlier
    <3>2. p[1] \in 1 .. count.writers - 1
      BY <3>1 DEF OldPaths
    <3> QED BY <2>1, <3>1, <3>2
  <2> QED BY <2>3, <2>4, <2>5
<1> QED BY <1>2, <1>3

LEMMA WriterLeavesFiled ==
  ASSUME StoreInv, fw # <<>>, NEW r, Moved(fw[1], disk, r), disk' = r.disk
  PROVE  FiledSame
<1> SUFFICES ASSUME NEW p \in ToSet(Files)
             PROVE r.disk[p].groups = disk[p].groups /\ r.disk[p].footer = disk[p].footer
  BY DEF FiledSame
<1>1. p \in DOMAIN disk /\ (p \in ToSet(fw[1].out) \/ p[1] # fw[1].id)
  BY WhoseFile
<1> QED BY <1>1 DEF Moved, Final

(* A call of the writer that keeps or takes rows keeps the invariant.       *)
LEMMA WriterStep ==
  ASSUME StoreInv, fw # <<>>, NEW r, Moved(fw[1], disk, r), WriterInv(r.fw, r.disk, sent'),
         fw' = <<r.fw>>, disk' = r.disk, past' = past,
         Counted', count'.writers = count.writers,
         closed' => ~r.fw.open /\ r.fw.pend = <<>>
  PROVE  StoreInv'
<1>1. fw' # <<>> /\ fw'[1] = r.fw
  OBVIOUS
<1>2. Earlier' = Earlier
  BY <1>1 DEF Earlier
<1>3. \A p \in DOMAIN disk' : IsFile(disk'[p])
  BY DEF WriterInv, FilesOf
<1>4. past' \in Seq(OldPaths(Earlier) \cap DOMAIN disk')
  <2>1. DOMAIN disk \subseteq DOMAIN disk'
    BY DEF Moved, Final
  <2>2. past \in Seq(OldPaths(Earlier) \cap DOMAIN disk)
    BY DEF StoreInv
  <2>3. OldPaths(Earlier) \cap DOMAIN disk \subseteq OldPaths(Earlier) \cap DOMAIN disk'
    BY <2>1
  <2> QED BY <2>2, <2>3, SeqMonotonic
<1>5. r.fw.id = count.writers /\ count.writers > 0
  BY DEF StoreInv, Moved
<1> QED BY <1>1, <1>2, <1>3, <1>4, <1>5 DEF StoreInv

LEMMA CreateStep ==
  ASSUME StoreInv, NEW opts \in Options, Create(opts)
  PROVE  StoreInv' /\ FiledSame
<1>1. fw = <<>> /\ disk' = disk /\ past' = past /\ sent' = <<>> /\ closed' = FALSE
  BY DEF Create
<1>2. Counted' /\ count'.writers = count.writers + 1 /\ count.writers \in Nat
  BY DEF Create, StoreInv, Counted
<1>3. FiledSame
  BY <1>1 DEF FiledSame
<1>4. Earlier \in Nat /\ Earlier' \in Nat /\ Earlier <= Earlier'
  BY <1>1, <1>2 DEF Earlier
<1>5. past' \in Seq(OldPaths(Earlier') \cap DOMAIN disk')
  <2>1. OldPaths(Earlier) \subseteq OldPaths(Earlier')
    BY <1>4 DEF OldPaths
  <2>2. past \in Seq(OldPaths(Earlier) \cap DOMAIN disk)
    BY DEF StoreInv
  <2>3. OldPaths(Earlier) \cap DOMAIN disk \subseteq OldPaths(Earlier') \cap DOMAIN disk
    BY <2>1
  <2> QED BY <1>1, <2>2, <2>3, SeqMonotonic
<1>6. CASE ~CreateAccepts(opts)
  <2>1. fw' = <<>>
    BY <1>6 DEF Create
  <2> QED BY <1>1, <1>2, <1>3, <1>5, <2>1 DEF StoreInv
<1>7. CASE CreateAccepts(opts)
  <2> DEFINE n == count.writers + 1
             names == opts.feature_names
             w == CreateWriter(opts, n)
  <2>1. fw' = <<w>>
    BY <1>7 DEF Create
  <2>2. names \in Seq(STRING) /\ names # <<>> /\ n \in Nat
    BY <1>2, <1>7, OptionsAssumption DEF CreateAccepts
  <2>3. /\ Shape(w) /\ w.names = names /\ w.id = n /\ w.open = FALSE /\ w.bad = FALSE
        /\ w.cols = EmptyColumns(names) /\ w.groups = <<>> /\ w.fileRows = 0 /\ w.index = 0
        /\ w.total = 0 /\ w.pend = <<>> /\ w.out = <<>>
    BY DEF CreateWriter, Shape, Fields
  <2> HIDE DEF w, n, names
  <2>4. IsWriter(w)
    <3>1. w.pend \in Seq(RowsFor(w.names)) /\ w.groups \in Seq(Groups(w.names))
      BY <2>3, EmptySeq
    <3>2. w.names \in Seq(STRING) /\ w.names # <<>> /\ w.id \in Nat
      BY <2>2, <2>3
    <3>3. w.open \in BOOLEAN /\ w.bad \in BOOLEAN /\ ~w.open
      BY <2>3
    <3>4. w.index \in Nat /\ w.fileRows \in Nat /\ w.total \in Nat
      BY <2>3
    <3> QED BY <2>3, <3>1, <3>2, <3>3, <3>4 DEF IsWriter
  <2>5. Leftover(w)
    <3>1. <<>> \in Seq(RowsFor(w.names)) /\ w.cols = ColumnsOf(<<>>, w.names)
      BY <2>2, <2>3, EmptySeq, NoColumns
    <3> QED BY <3>1 DEF Leftover
  <2>6. FilesOf(w, disk)
    <3>1. w.out \in Seq(Paths(w))
      BY <2>3, EmptySeq
    <3>2. ToSet(w.out) = {}
      <4>1. DOMAIN w.out = {}
        BY <2>3
      <4> QED BY <2>3, <4>1 DEF ToSet
    <3> QED BY <2>3, <3>1, <3>2 DEF FilesOf, StoreInv
  <2>7. (FileRows(disk, w.out) \o Unfiled(w)) \o w.pend = <<>>
    <3>1. FileRows(disk, w.out) = <<>> /\ Unfiled(w) = <<>> /\ w.pend = <<>>
      BY <2>3, NoFileRows DEF Unfiled
    <3>2. <<>> \o <<>> = <<>>
      OBVIOUS
    <3> QED BY <3>1, <3>2
  <2>8. WriterInv(w, disk, <<>>)
    BY <2>4, <2>5, <2>6, <2>7 DEF WriterInv
  <2>9. fw' # <<>> /\ fw'[1] = w
    BY <2>1
  <2>10. /\ fw' = <<fw'[1]>> /\ WriterInv(fw'[1], disk', sent') /\ fw'[1].id = count'.writers
         /\ count'.writers > 0 /\ closed' = FALSE
    BY <1>1, <1>2, <2>1, <2>3, <2>8, <2>9 DEF n
  <2>11. \A p \in DOMAIN disk' : IsFile(disk'[p])
    BY <1>1 DEF StoreInv
  <2> QED BY <1>2, <1>3, <1>5, <2>9, <2>10, <2>11 DEF StoreInv
<1> QED BY <1>6, <1>7

(* The numbers that a call of the writer adds to the counters.              *)
LEMMA CountsOn ==
  ASSUME Counted, NEW r, NEW n \in Nat, r.fw.total - fw[1].total = n, NEW f, Took(r, f)
  PROVE  Counted' /\ count'.writers = count.writers
<1>1. count' = [count EXCEPT !.rows = count.rows + n, !.faults = count.faults + f,
                             !.failed = count.failed + Failing(r)]
  BY DEF Took
<1> DEFINE a == count.rows + n
           b == count.faults + f
           c == count.failed + Failing(r)
<1>2. a \in Nat
  BY DEF Counted
<1> HIDE DEF a, b, c
<1>3. count' = [count EXCEPT !.rows = a, !.faults = b, !.failed = c]
  BY <1>1 DEF a, b, c
<1> QED BY <1>2, <1>3 DEF Counted

LEMMA KeepsStep ==
  ASSUME StoreInv, fw # <<>>, NEW r, Keeps(fw[1], disk, sent, r), NEW f, Took(r, f), sent' = sent
  PROVE  StoreInv' /\ FiledSame
<1>1. /\ Moved(fw[1], disk, r) /\ WriterInv(r.fw, r.disk, sent)
      /\ r.fw.total = fw[1].total /\ fw[1].total \in Nat /\ Counted
  BY DEF Keeps, StoreInv, WriterInv, IsWriter
<1>2. Counted' /\ count'.writers = count.writers
  <2>1. r.fw.total - fw[1].total = 0
    BY <1>1
  <2> QED BY <1>1, <2>1, CountsOn
<1>3. fw' = <<r.fw>> /\ disk' = r.disk /\ past' = past /\ closed' = FALSE
  BY DEF Took
<1>4. StoreInv'
  BY <1>1, <1>2, <1>3, WriterStep
<1>5. FiledSame
  BY <1>1, <1>3, WriterLeavesFiled
<1> QED BY <1>4, <1>5

LEMMA RowIsRow ==
  ASSUME Counted, NEW i \in {1, 2}, NEW k \in Keys[count.rows + i], NEW names
  PROVE  Row(k, count.rows + i, names) \in RowsFor(names)
<1>1. count.rows + i \in Nat
  BY DEF Counted
<1>2. k \in AllKeys
  BY <1>1 DEF AllKeys
<1> QED BY <1>1, <1>2 DEF RowsFor

LEMMA WriteRowStep ==
  ASSUME StoreInv, NEW o, WriteRow(o)
  PROVE  StoreInv' /\ FiledSame
<1> DEFINE w == fw[1]
<1>1. PICK names \in {w.names, <<>>}, k \in Keys[count.rows + 1] :
        LET row == Row(k, count.rows + 1, names)
            r == Write(w, disk, row, o)
        IN Took(r, Faulty(o)) /\ sent' = IF r.fw.total = w.total THEN sent ELSE Append(sent, row)
  BY DEF WriteRow
<1> DEFINE row == Row(k, count.rows + 1, names)
           r == Write(w, disk, row, o)
<1>2. Took(r, Faulty(o)) /\ sent' = IF r.fw.total = w.total THEN sent ELSE Append(sent, row)
  BY <1>1
<1>3. fw # <<>> /\ WriterInv(w, disk, sent) /\ Counted
  BY DEF WriteRow, Writing, Alive, StoreInv
<1>4. w.names \in Seq(STRING) /\ w.names # <<>> /\ w.total \in Nat
  BY <1>3 DEF WriterInv, IsWriter
<1>5. CASE names = w.names
  <2>1. row \in RowsFor(w.names)
    BY <1>3, <1>5, RowIsRow
  <2> HIDE DEF row
  <2>2. Takes(w, disk, sent, row, r)
    BY <1>3, <2>1, WriteTakes
  <2> HIDE DEF r, w
  <2>3. /\ WriterInv(r.fw, r.disk, Append(sent, row)) /\ Moved(w, disk, r)
        /\ r.fw.total = w.total + 1
    BY <2>2 DEF Takes
  <2>4. sent' = Append(sent, row)
    BY <1>2, <1>4, <2>3
  <2>5. Counted' /\ count'.writers = count.writers
    <3>1. r.fw.total - fw[1].total = 1
      BY <1>4, <2>3 DEF w
    <3> QED BY <1>2, <1>3, <3>1, CountsOn
  <2>6. fw' = <<r.fw>> /\ disk' = r.disk /\ past' = past /\ closed' = FALSE
    BY <1>2 DEF Took
  <2>7. StoreInv'
    BY <1>3, <2>3, <2>4, <2>5, <2>6, WriterStep DEF w
  <2>8. FiledSame
    BY <1>3, <2>3, <2>6, WriterLeavesFiled DEF w
  <2> QED BY <2>7, <2>8
<1>6. CASE names # w.names
  <2>1. names = <<>>
    BY <1>6
  <2>2. Len(row.values) # Len(w.names)
    <3>1. row.values = <<>>
      BY <2>1 DEF Row
    <3>2. Len(w.names) # 0 /\ Len(<<>>) = 0
      BY <1>4, EmptySeq
    <3> QED BY <3>1, <3>2
  <2> HIDE DEF row
  <2>3. Keeps(w, disk, sent, r)
    BY <1>3, <2>2, WriteRefuses
  <2> HIDE DEF r
  <2>4. sent' = sent
    BY <1>2, <2>3 DEF Keeps
  <2> QED BY <1>2, <1>3, <2>3, <2>4, KeepsStep
<1> QED BY <1>5, <1>6

LEMMA WriteRowsStep ==
  ASSUME StoreInv, NEW o1, NEW o2, WriteRows(o1, o2)
  PROVE  StoreInv' /\ FiledSame
<1> DEFINE w == fw[1]
           n == count.rows
           f == Faulty(o1) + Faulty(o2)
<1>1. PICK k1 \in Keys[n + 1], k2 \in Keys[n + 2] :
        LET rows == <<Row(k1, n + 1, w.names), Row(k2, n + 2, w.names)>>
            r == WriteBatch(w, disk, rows, <<o1, o2>>)
        IN Took(r, f) /\ sent' = sent \o SubSeq(rows, 1, r.fw.total - w.total)
  BY DEF WriteRows
<1> DEFINE a == Row(k1, n + 1, w.names)
           b == Row(k2, n + 2, w.names)
           q == Write(w, disk, a, o1)
           p == Write(q.fw, q.disk, b, o2)
           r == WriteBatch(w, disk, <<a, b>>, <<o1, o2>>)
<1>2. Took(r, f) /\ sent' = sent \o SubSeq(<<a, b>>, 1, r.fw.total - w.total)
  BY <1>1
<1>3. fw # <<>> /\ WriterInv(w, disk, sent) /\ Counted
  BY DEF WriteRows, Writing, Alive, StoreInv
<1>4. a \in RowsFor(w.names) /\ b \in RowsFor(w.names)
  BY <1>3, RowIsRow
<1>5. r = IF q.res # "ok" THEN q ELSE p
  BY WriteBatchOfTwo
<1>6. w.total \in Nat /\ w.names \in Seq(STRING) /\ sent \in Seq(RowsFor(w.names))
  <2>1. IsWriter(w) /\ FilesOf(w, disk) /\ sent = (FileRows(disk, w.out) \o Unfiled(w)) \o w.pend
    BY <1>3 DEF WriterInv
  <2>2. FileRows(disk, w.out) \o Unfiled(w) \in Seq(RowsFor(w.names)) /\ w.pend \in Seq(RowsFor(w.names))
    BY <2>1, RowsHeld, ConcatProperties DEF IsWriter
  <2>3. sent \in Seq(RowsFor(w.names))
    BY <2>1, <2>2, ConcatProperties
  <2> QED BY <2>1, <2>3 DEF IsWriter
<1> HIDE DEF a, b, f, n
<1>7. Takes(w, disk, sent, a, q)
  BY <1>3, <1>4, WriteTakes
<1> HIDE DEF q, w
<1>8. /\ WriterInv(q.fw, q.disk, Append(sent, a)) /\ Moved(w, disk, q)
      /\ q.fw.total = w.total + 1 /\ q.fw.names = w.names
  BY <1>7 DEF Takes, Moved
<1>9. Takes(q.fw, q.disk, Append(sent, a), b, p)
  BY <1>4, <1>8, WriteTakes
<1> HIDE DEF p
<1>10. /\ WriterInv(p.fw, p.disk, Append(Append(sent, a), b)) /\ Moved(q.fw, q.disk, p)
       /\ p.fw.total = q.fw.total + 1
  BY <1>9 DEF Takes
<1>11. Moved(w, disk, p)
  BY <1>8, <1>10, MovedTwice
<1> HIDE DEF r
<1>12. /\ Moved(w, disk, r) /\ WriterInv(r.fw, r.disk, sent')
       /\ r.fw.total - w.total \in {1, 2}
  <2>1. CASE q.res # "ok"
    <3>1. r = q /\ r.fw.total - w.total = 1
      BY <1>5, <1>6, <1>8, <2>1
    <3>2. sent' = Append(sent, a)
      BY <1>2, <1>4, <1>6, <3>1, FirstOfTwo
    <3> QED BY <1>8, <3>1, <3>2
  <2>2. CASE q.res = "ok"
    <3>1. r = p /\ r.fw.total - w.total = 2
      BY <1>5, <1>6, <1>8, <1>10, <2>2
    <3>2. sent' = Append(Append(sent, a), b)
      <4>1. sent' = sent \o SubSeq(<<a, b>>, 1, 2)
        BY <1>2, <3>1
      <4>2. sent \o SubSeq(<<a, b>>, 1, 2) = Append(Append(sent, a), b)
        BY <1>4, <1>6, FirstOfTwo
      <4> QED BY <4>1, <4>2
    <3> QED BY <1>10, <1>11, <3>1, <3>2
  <2> QED BY <2>1, <2>2
<1>13. Counted' /\ count'.writers = count.writers
  <2>1. PICK m \in Nat : r.fw.total - fw[1].total = m
    BY <1>12 DEF w
  <2> QED BY <1>2, <1>3, <2>1, CountsOn
<1>14. fw' = <<r.fw>> /\ disk' = r.disk /\ past' = past /\ closed' = FALSE
  BY <1>2 DEF Took
<1>15. StoreInv'
  BY <1>3, <1>12, <1>13, <1>14, WriterStep DEF w
<1>16. FiledSame
  BY <1>3, <1>12, <1>14, WriterLeavesFiled DEF w
<1> QED BY <1>15, <1>16

LEMMA FlushWriterStep ==
  ASSUME StoreInv, NEW o, FlushWriter(o)
  PROVE  StoreInv' /\ FiledSame
<1> DEFINE r == FlushRows(fw[1], disk, o)
<1>1. fw # <<>> /\ WriterInv(fw[1], disk, sent) /\ Took(r, Faulty(o)) /\ sent' = sent
  BY DEF FlushWriter, Writing, Alive, StoreInv
<1>2. Keeps(fw[1], disk, sent, r)
  BY <1>1, FlushRowsKeeps
<1> HIDE DEF r
<1> QED BY <1>1, <1>2, KeepsStep

LEMMA CloseStep ==
  ASSUME StoreInv, NEW o, Close(o)
  PROVE  StoreInv' /\ FiledSame
<1> DEFINE r == CloseWriter(fw[1], disk, o)
<1>1. /\ fw # <<>> /\ WriterInv(fw[1], disk, sent)
      /\ fw' = <<r.fw>> /\ disk' = r.disk /\ closed' = (r.res = "ok")
      /\ past' = past /\ sent' = sent
  BY DEF Close, Writing, Alive, StoreInv
<1>2. Keeps(fw[1], disk, sent, r) /\ (r.res = "ok" => ~r.fw.open /\ r.fw.pend = <<>>)
  BY <1>1, CloseWriterKeeps
<1>3. Counted' /\ count'.writers = count.writers
  <2> DEFINE b == count.faults + Faulty(o)
             c == count.failed + Failing(r)
  <2>1. count' = [count EXCEPT !.faults = b, !.failed = c]
    BY DEF Close
  <2> HIDE DEF b, c
  <2> QED BY <2>1 DEF StoreInv, Counted
<1> HIDE DEF r
<1>4. Moved(fw[1], disk, r) /\ WriterInv(r.fw, r.disk, sent')
  BY <1>1, <1>2 DEF Keeps
<1>5. StoreInv'
  BY <1>1, <1>2, <1>3, <1>4, WriterStep
<1>6. FiledSame
  BY <1>1, <1>4, WriterLeavesFiled
<1> QED BY <1>5, <1>6

LEMMA DestroyStep ==
  ASSUME StoreInv, NEW o, Destroy(o)
  PROVE  StoreInv' /\ FiledSame
<1> DEFINE w == fw[1]
           r == IF w.open THEN CloseWriter(w, disk, o) ELSE Result("ok", w, disk)
<1>1. /\ fw # <<>> /\ WriterInv(w, disk, sent) /\ w.id = count.writers /\ count.writers > 0
      /\ Counted /\ fw' = <<>> /\ disk' = r.disk /\ past' = past \o r.fw.out
  BY DEF Destroy, Alive, StoreInv
<1>2. Moved(w, disk, r) /\ WriterInv(r.fw, r.disk, sent)
  <2>1. CASE w.open
    <3>1. r = CloseWriter(w, disk, o)
      BY <2>1
    <3> HIDE DEF r, w
    <3> QED BY <1>1, <3>1, CloseWriterKeeps DEF Keeps
  <2>2. CASE ~w.open
    <3>1. r.fw = w /\ r.disk = disk
      BY <2>2 DEF Result
    <3> QED BY <1>1, <3>1 DEF Moved, Final
  <2> QED BY <2>1, <2>2
<1>3. Counted' /\ count'.writers = count.writers
  <2> DEFINE b == count.faults + Faulty(o)
  <2>1. count' = [count EXCEPT !.faults = b]
    BY DEF Destroy
  <2> HIDE DEF b
  <2> QED BY <1>1, <2>1 DEF Counted
<1> HIDE DEF r, w
<1>4. FiledSame
  BY <1>1, <1>2, WriterLeavesFiled DEF w
<1>5. Earlier' = count.writers /\ Earlier = count.writers - 1 /\ count.writers \in Nat
  BY <1>1, <1>3 DEF Earlier, Counted
<1> DEFINE A == OldPaths(Earlier') \cap DOMAIN disk'
<1>6. past \in Seq(A)
  <2>1. OldPaths(Earlier) \subseteq OldPaths(Earlier')
    BY <1>5 DEF OldPaths
  <2>2. DOMAIN disk \subseteq DOMAIN disk'
    BY <1>1, <1>2 DEF Moved, Final
  <2>3. past \in Seq(OldPaths(Earlier) \cap DOMAIN disk)
    BY DEF StoreInv
  <2>4. OldPaths(Earlier) \cap DOMAIN disk \subseteq A
    BY <2>1, <2>2
  <2> QED BY <2>3, <2>4, SeqMonotonic
<1>7. r.fw.out \in Seq(A)
  <2> DEFINE v == r.fw
  <2>1. FilesOf(v, r.disk) /\ IsWriter(v) /\ v.id = count.writers
    BY <1>1, <1>2 DEF WriterInv, Moved
  <2> HIDE DEF v
  <2>2. v.out \in Seq(Paths(v)) /\ ToSet(v.out) \subseteq DOMAIN r.disk
    BY <2>1 DEF FilesOf
  <2>3. 1 <= count.writers
    BY <1>1, <1>5
  <2>4. Paths(v) \subseteq OldPaths(Earlier')
    BY <1>5, <2>1, <2>3 DEF Paths, OldPaths, IsWriter
  <2>5. v.out \in [1 .. Len(v.out) -> A]
    <3>1. v.out \in [1 .. Len(v.out) -> Paths(v)] /\ DOMAIN v.out = 1 .. Len(v.out)
      BY <2>2, LenProperties
    <3>2. \A i \in 1 .. Len(v.out) : v.out[i] \in A
      <4>1. \A i \in 1 .. Len(v.out) : v.out[i] \in ToSet(v.out)
        BY <3>1 DEF ToSet
      <4> QED BY <1>1, <2>2, <2>4, <3>1, <4>1
    <3> QED BY <3>1, <3>2
  <2>6. Len(v.out) \in Nat
    BY <2>2, LenProperties
  <2> HIDE DEF A
  <2> QED BY <2>5, <2>6 DEF v
<1>8. past' \in Seq(A)
  <2> HIDE DEF A
  <2> QED BY <1>1, <1>6, <1>7, ConcatProperties
<1>9. \A x \in DOMAIN disk' : IsFile(disk'[x])
  BY <1>1, <1>2 DEF WriterInv, FilesOf
<1> QED BY <1>1, <1>3, <1>4, <1>8, <1>9 DEF StoreInv

LEMMA DamageStep ==
  ASSUME StoreInv, NEW p, NEW g, NEW c, NEW kind, Damage(p, g, c, kind)
  PROVE  StoreInv' /\ FiledSame
<1>1. p \in DOMAIN disk
  BY WhoseFile DEF Damage
<1> DEFINE x == disk[p].damage \union {<<g, c, kind>>}
           e == [disk EXCEPT ![p].damage = x]
<1>2. disk' = e /\ fw' = fw /\ past' = past /\ sent' = sent /\ closed' = closed
  BY DEF Damage
<1>3. Counted' /\ count'.writers = count.writers
  <2> DEFINE b == count.faults + 1
  <2>1. count' = [count EXCEPT !.faults = b]
    BY DEF Damage
  <2> HIDE DEF b
  <2> QED BY <2>1 DEF StoreInv, Counted
<1> HIDE DEF x
<1>4. /\ e[p] = [disk[p] EXCEPT !.damage = x] /\ DOMAIN e = DOMAIN disk
      /\ \A q \in DOMAIN disk : q # p => e[q] = disk[q]
  BY <1>1
<1>5. /\ DOMAIN e = DOMAIN disk
      /\ \A q \in DOMAIN disk : /\ IsFile(e[q]) /\ e[q].groups = disk[q].groups
                                /\ e[q].footer = disk[q].footer /\ e[q].lost = disk[q].lost
  <2> DEFINE f == e[p]
             h == disk[p]
  <2>1. IsFile(h) /\ f = [h EXCEPT !.damage = x]
    BY <1>1, <1>4 DEF StoreInv
  <2> HIDE DEF f, h
  <2>2. IsFile(f) /\ f.groups = h.groups /\ f.footer = h.footer /\ f.lost = h.lost
    BY <2>1 DEF IsFile
  <2>3. IsFile(e[p]) /\ e[p].groups = disk[p].groups /\ e[p].footer = disk[p].footer /\ e[p].lost = disk[p].lost
    BY <2>2 DEF f, h
  <2> HIDE DEF e
  <2> QED BY <1>4, <2>3 DEF StoreInv
<1> HIDE DEF e
<1>6. FiledSame
  BY <1>2, <1>5, WhoseFile DEF FiledSame
<1>7. Earlier' = Earlier
  BY <1>2, <1>3 DEF Earlier
<1>8. past' \in Seq(OldPaths(Earlier) \cap DOMAIN disk')
  BY <1>2, <1>5 DEF StoreInv
<1>9. ASSUME fw # <<>> PROVE WriterInv(fw[1], e, sent)
  <2> DEFINE w == fw[1]
  <2>1. IsWriter(w) /\ Leftover(w) /\ FilesOf(w, disk) /\ (FileRows(disk, w.out) \o Unfiled(w)) \o w.pend = sent
    BY <1>9 DEF StoreInv, WriterInv
  <2> HIDE DEF w
  <2>5. \A q \in DOMAIN disk : Account(e[q]) = Account(disk[q])
    BY <1>5 DEF Account
  <2>2. FilesOf(w, e)
    BY <1>5, <2>1, <2>5 DEF FilesOf
  <2>3. FileRows(e, w.out) = FileRows(disk, w.out)
    BY <2>1, <2>5, FileRowsSame DEF FilesOf
  <2>4. WriterInv(w, e, sent)
    BY <2>1, <2>2, <2>3 DEF WriterInv
  <2> QED BY <2>4 DEF w
<1>10. \A q \in DOMAIN disk' : IsFile(disk'[q])
  BY <1>2, <1>5
<1>11. fw' # <<>> =>
         /\ fw' = <<fw'[1]>> /\ WriterInv(fw'[1], disk', sent')
         /\ fw'[1].id = count'.writers /\ count'.writers > 0
         /\ closed' => ~fw'[1].open /\ fw'[1].pend = <<>>
  BY <1>2, <1>3, <1>9 DEF StoreInv
<1>12. Counted' /\ past' \in Seq(OldPaths(Earlier') \cap DOMAIN disk')
  BY <1>3, <1>7, <1>8
<1> QED BY <1>6, <1>10, <1>11, <1>12 DEF StoreInv

LEMMA ReaderStep ==
  ASSUME StoreInv, UNCHANGED writerVars, DOMAIN count' = DOMAIN count,
         count'.writers = count.writers, count'.rows = count.rows
  PROVE  StoreInv' /\ FiledSame
<1>1. /\ fw' = fw /\ disk' = disk /\ past' = past /\ sent' = sent /\ closed' = closed
  BY DEF writerVars
<1>2. Earlier' = Earlier
  BY <1>1 DEF Earlier
<1>3. FiledSame
  BY <1>1 DEF FiledSame
<1>4. Counted'
  BY DEF StoreInv, Counted
<1> QED BY <1>1, <1>2, <1>3, <1>4 DEF StoreInv

LEMMA InitInv == Init => StoreInv
<1> SUFFICES ASSUME Init PROVE StoreInv
  OBVIOUS
<1>1. Counted
  BY DEF Init, Counted
<1>2. past \in Seq(OldPaths(Earlier) \cap DOMAIN disk)
  BY EmptySeq DEF Init
<1>3. DOMAIN disk = {}
  BY DEF Init
<1> QED BY <1>1, <1>2, <1>3 DEF Init, StoreInv

LEMMA NextInv == StoreInv /\ [Next]_vars => StoreInv' /\ FiledSame
<1> SUFFICES ASSUME StoreInv, [Next]_vars PROVE StoreInv' /\ FiledSame
  OBVIOUS
<1>1. ASSUME NEW opts \in Options, Create(opts) PROVE StoreInv' /\ FiledSame
  BY <1>1, CreateStep
<1>2. ASSUME NEW o \in Outcomes, WriteRow(o) PROVE StoreInv' /\ FiledSame
  BY <1>2, WriteRowStep
<1>3. ASSUME NEW o1 \in Outcomes, NEW o2 \in Outcomes, WriteRows(o1, o2) PROVE StoreInv' /\ FiledSame
  BY <1>3, WriteRowsStep
<1>4. ASSUME NEW o \in Outcomes, FlushWriter(o) PROVE StoreInv' /\ FiledSame
  BY <1>4, FlushWriterStep
<1>5. ASSUME NEW o \in Outcomes, Close(o) PROVE StoreInv' /\ FiledSame
  BY <1>5, CloseStep
<1>6. ASSUME NEW o \in Outcomes, Destroy(o) PROVE StoreInv' /\ FiledSame
  BY <1>6, DestroyStep
<1>7. ASSUME NEW p \in DOMAIN disk, NEW g \in 1 .. MaxRows, NEW d \in Damages, Damage(p, g, d[1], d[2])
      PROVE StoreInv' /\ FiledSame
  BY <1>7, DamageStep
<1>8. CASE OpenReader
  <2>1. UNCHANGED writerVars /\ count' = [count EXCEPT !.opens = count.opens + 1]
    BY <1>8 DEF OpenReader
  <2> QED BY <2>1, ReaderStep DEF StoreInv, Counted
<1>9. ASSUME NEW t \in Threads, NEW q \in Queries[t], Ask(t, q) PROVE StoreInv' /\ FiledSame
  <2>1. UNCHANGED writerVars /\ count' = [count EXCEPT !.queries = count.queries + 1]
    BY <1>9 DEF Ask
  <2> QED BY <2>1, ReaderStep DEF StoreInv, Counted
<1>10. ASSUME NEW t \in Threads, EnsureCached(t) \/ FetchKey(t) \/ FetchValues(t) \/ Return(t)
       PROVE StoreInv' /\ FiledSame
  <2>1. UNCHANGED writerVars /\ count' = count
    BY <1>10 DEF EnsureCached, FetchKey, FetchValues, Return
  <2> QED BY <2>1, ReaderStep
<1>11. CASE UNCHANGED vars
  <2>1. UNCHANGED writerVars /\ count' = count
    BY <1>11 DEF vars, writerVars
  <2> QED BY <2>1, ReaderStep
<1> QED BY <1>1, <1>2, <1>3, <1>4, <1>5, <1>6, <1>7, <1>8, <1>9, <1>10, <1>11 DEF Next

LEMMA StoreInvHolds == Spec => []StoreInv
<1>1. StoreInv /\ [Next]_vars => StoreInv'
  BY NextInv
<1> QED BY <1>1, InitInv, PTL DEF Spec

LEMMA InvKeepsRows == StoreInv => RowsKept
<1> SUFFICES ASSUME StoreInv, fw # <<>>
             PROVE LET filed == RowsOfFiles(fw[1].out)
                       unfiled == IF fw[1].open THEN RowsIn(fw[1].groups) ELSE <<>>
                   IN filed \o unfiled \o fw[1].pend = sent /\ (closed => filed = sent)
  BY DEF RowsKept
<1> DEFINE w == fw[1]
           filed == FileRows(disk, w.out)
<1>1. /\ IsWriter(w) /\ FilesOf(w, disk) /\ (filed \o Unfiled(w)) \o w.pend = sent
      /\ closed => ~w.open /\ w.pend = <<>>
  BY DEF StoreInv, WriterInv
<1>2. RowsOfFiles(w.out) = filed /\ (IF w.open THEN RowsIn(w.groups) ELSE <<>>) = Unfiled(w)
  BY DEF RowsOfFiles, FileRows, Unfiled
<1>3. ASSUME closed PROVE filed = sent
  <2>1. Unfiled(w) = <<>> /\ w.pend = <<>>
    BY <1>1, <1>3 DEF Unfiled
  <2>2. filed \in Seq(RowsFor(w.names))
    BY <1>1, RowsHeld
  <2> HIDE DEF filed
  <2>3. filed \o <<>> = filed
    BY <2>2, ConcatEmptySeq
  <2> QED BY <1>1, <2>1, <2>3
<1> HIDE DEF filed
<1> QED BY <1>1, <1>2, <1>3

(* Whatever open, flush or close of the storage fails, and however often    *)
(* write(), write_batch(), flush() and close() are called again, the files, *)
(* the row groups of the open file and the buffers hold every row taken,    *)
(* once and in order; after a close() that succeeded the files alone do.  A *)
(* file whose footer close() lost without a word holds them no more: its    *)
(* rows, counted in Account, are the only ones that cannot be read.         *)
THEOREM FeatureStore_RowsKept == Spec => []RowsKept
  BY StoreInvHolds, InvKeepsRows, PTL

(* No writer, the present one or a later one, touches a finished file.      *)
THEOREM FeatureStore_FiledIsFinal == Spec => FiledIsFinal
<1>1. StoreInv /\ [Next]_vars => FiledSame
  BY NextInv
<1>2. Spec => [][FiledSame]_vars
  BY <1>1, StoreInvHolds, PTL DEF Spec
<1> QED BY <1>2 DEF FiledIsFinal, FiledSame
=============================================================================
