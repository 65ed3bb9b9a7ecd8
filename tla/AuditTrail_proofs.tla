------------------------- MODULE AuditTrail_proofs --------------------------
(***************************************************************************)
(* Proofs about the audit logs: each record of a chain is held once, by a   *)
(* file that links to its neighbours or by the writer, for all records,     *)
(* file sizes and failures; and about the times of now_ns() and the         *)
(* override monitor, for any number of threads and calls.                   *)
(***************************************************************************)
EXTENDS AuditTrail, FiniteSetTheorems, SequenceTheorems, WellFoundedInduction, TLAPS

-----------------------------------------------------------------------------
(* Sequences whose elements are of no set in particular                     *)

IsSeq(s) == Len(s) \in Nat /\ s = [i \in 1 .. Len(s) |-> s[i]]

LEMMA AppendAny ==
  ASSUME NEW s, NEW e, IsSeq(s)
  PROVE  /\ IsSeq(Append(s, e)) /\ Len(Append(s, e)) = Len(s) + 1
         /\ Append(s, e)[Len(s) + 1] = e
         /\ \A i \in 1 .. Len(s) : Append(s, e)[i] = s[i]
<1> DEFINE S == {s[i] : i \in 1 .. Len(s)} \cup {e}
           n == Len(s)
<1>1. n \in Nat /\ s = [i \in 1 .. n |-> s[i]]
  BY DEF IsSeq
<1>2. \A i \in 1 .. n : s[i] \in S
  OBVIOUS
<1>3. [i \in 1 .. n |-> s[i]] \in Seq(S)
  BY <1>1, <1>2, IsASeq
<1>4. s \in Seq(S) /\ e \in S
  BY <1>1, <1>3
<1>5. /\ Append(s, e) \in Seq(S) /\ Len(Append(s, e)) = Len(s) + 1
      /\ Append(s, e)[Len(s) + 1] = e
      /\ \A i \in 1 .. Len(s) : Append(s, e)[i] = s[i]
  BY <1>4, AppendProperties
<1>6. ASSUME NEW t \in Seq(S) PROVE IsSeq(t)
  BY LenProperties DEF IsSeq
<1> QED BY <1>5, <1>6

LEMMA EmptyIsSeq ==
  /\ IsSeq(<<>>) /\ Len(<<>>) = 0 /\ DOMAIN <<>> = 1 .. 0
  BY DEF IsSeq

LEMMA NonEmpty ==
  ASSUME NEW s, IsSeq(s)
  PROVE  /\ DOMAIN s = 1 .. Len(s) /\ (s = <<>> <=> Len(s) = 0)
         /\ Head(s) = s[1] /\ Last(s) = s[Len(s)]
<1>1. Len(s) \in Nat /\ s = [i \in 1 .. Len(s) |-> s[i]] /\ DOMAIN s = 1 .. Len(s)
  BY DEF IsSeq
<1>2. Last(s) = s[Len(s)]
  BY DEF Last
<1>3. Head(s) = s[1]
  BY <1>1, SMT
<1>4. Len(s) = 0 => s = <<>>
  BY <1>1, SMT
<1>5. s = <<>> => Len(s) = 0
  BY EmptyIsSeq
<1> QED BY <1>1, <1>2, <1>3, <1>4, <1>5

-----------------------------------------------------------------------------
(* The invariant of a log: the writer v, the disk d, the names u in use      *)

\* The hash that the entry of number i - 1 has before it.
HashBefore(c, i) == IF i = 1 THEN Zeros ELSE c.entries[i - 1].entry_hash

ChainOk(c) ==
  /\ IsSeq(c.entries) /\ c.next_seq = Len(c.entries)
  /\ c.last_hash = HashBefore(c, Len(c.entries) + 1)
  /\ \A i \in 1 .. Len(c.entries) : /\ c.entries[i].sequence_number = i - 1
                                    /\ c.entries[i].prev_hash = HashBefore(c, i)

\* The number of entries that are in files.
Base(v) == v.chain.next_seq - Len(v.pending)

PendingOk(v) ==
  /\ IsSeq(v.pending) /\ Len(v.pending) <= v.chain.next_seq
  /\ \A i \in 1 .. Len(v.pending) : v.pending[i].entry = v.chain.entries[Base(v) + i]

\* The rows of a file that opens are the entries of its name.
RowsOk(f, c) ==
  /\ DOMAIN f.rows = 1 .. f.name.end - f.name.start + 1
  /\ \A k \in DOMAIN f.rows : /\ f.rows[k].chain_hash = c.entries[f.name.start + k].entry_hash
                              /\ f.rows[k].prev_hash = c.entries[f.name.start + k].prev_hash

\* A file that flush() reported holds them unless it is lost, and links to the
\* entries around them.
FileOk(f, c) ==
  /\ f.name.start \in Nat /\ f.name.end \in Nat /\ f.name.start <= f.name.end
  /\ ~ f.lost => f.readable
  /\ f.readable => RowsOk(f, c)
  /\ f.meta.last_hash = c.entries[f.name.end + 1].entry_hash
  /\ f.meta.prev_file_hash = HashBefore(c, f.name.start + 1)

Own(v, d) == {f \in d : /\ f.readable \/ f.lost
                        /\ f.name.kind = v.kind /\ f.name.chain_id = v.chain_id}
Covers(f, n) == f.name.start <= n /\ n <= f.name.end

FilesOk(v, d) ==
  /\ \A f \in Own(v, d) : FileOk(f, v.chain) /\ f.name.end < Base(v)
  /\ \A n \in Nat : n < Base(v) => \E f \in Own(v, d) : Covers(f, n)
  /\ \A f, g \in Own(v, d), n \in Nat : Covers(f, n) /\ Covers(g, n) => f = g

NamesOk(v, d, u) ==
  /\ <<v.kind, v.chain_id>> \in u
  /\ \A f \in d : <<f.name.kind, f.name.chain_id>> \in u

\* The writer is a record of these fields.
WFields == {"kind", "chain_id", "max_records", "chain", "pending", "lineage", "total", "file_count"}
WShape(v) == v = [x \in WFields |-> v[x]]

LogOk(v, d, u) == WShape(v) /\ ChainOk(v.chain) /\ PendingOk(v) /\ FilesOk(v, d) /\ NamesOk(v, d, u)

LogInv == part = "log" => LogOk(w, disk, used)

LEMMA NewLogOk ==
  ASSUME NEW k, NEW id, NEW m, NEW d, NEW u,
         \A f \in d : <<f.name.kind, f.name.chain_id>> \in u /\ <<f.name.kind, f.name.chain_id>> # <<k, id>>
  PROVE  LogOk(NewLog(k, id, m), d, u \cup {<<k, id>>})
<1> DEFINE v == NewLog(k, id, m)
<1>1. /\ v.kind = k /\ v.chain_id = id /\ v.pending = <<>> /\ v.chain.entries = <<>>
      /\ v.chain.next_seq = 0 /\ v.chain.last_hash = Zeros
  BY DEF NewLog, EmptyChain
<1>2. WShape(v)
  BY DEF WShape, WFields, NewLog
<1> HIDE DEF v
<1>3. ChainOk(v.chain)
  <2>1. IsSeq(v.chain.entries) /\ Len(v.chain.entries) = 0
    BY <1>1, EmptyIsSeq
  <2>2. v.chain.last_hash = HashBefore(v.chain, Len(v.chain.entries) + 1)
    BY <1>1, <2>1 DEF HashBefore
  <2> QED BY <1>1, <2>1, <2>2 DEF ChainOk
<1>4. Len(v.pending) = 0 /\ Base(v) = 0 /\ PendingOk(v)
  <2>1. Len(v.pending) = 0 /\ IsSeq(v.pending) /\ v.chain.next_seq = 0
    BY <1>1, EmptyIsSeq
  <2>2. Base(v) = 0
    BY <2>1 DEF Base
  <2> QED BY <2>1, <2>2 DEF PendingOk
<1>5. Own(v, d) = {}
  BY <1>1 DEF Own
<1>6. FilesOk(v, d)
  BY <1>4, <1>5 DEF FilesOk
<1>7. NamesOk(v, d, u \cup {<<k, id>>})
  BY <1>1 DEF NamesOk
<1> QED BY <1>2, <1>3, <1>4, <1>6, <1>7 DEF LogOk, v

(* A file that flush() completes.                                           *)

LEMMA NewFileOk ==
  ASSUME NEW v, NEW ls, NEW x, ChainOk(v.chain), PendingOk(v), v.pending # <<>>,
         x.name = FileName(v), x.meta = CurrentMetadata(v), ~ x.lost => x.readable,
         x.readable => x.rows = [i \in DOMAIN v.pending |-> RowOf(v, i, ls[i])]
  PROVE  /\ FileOk(x, v.chain) /\ x.name.start = Base(v) /\ x.name.end = v.chain.next_seq - 1
         /\ x.name.kind = v.kind /\ x.name.chain_id = v.chain_id
<1> DEFINE c == v.chain
           p == v.pending
           m == Len(p)
           n == Len(c.entries)
           b == Base(v)
<1>1. /\ m \in Nat /\ n \in Nat /\ c.next_seq = n /\ m <= n /\ m # 0 /\ b = n - m
      /\ DOMAIN p = 1 .. m /\ Head(p) = p[1] /\ Last(p) = p[m]
  <2>1. DOMAIN p = 1 .. m /\ (p = <<>> <=> m = 0) /\ Head(p) = p[1] /\ Last(p) = p[m]
    BY NonEmpty DEF PendingOk
  <2> QED BY <2>1 DEF PendingOk, ChainOk, IsSeq, Base
<1>2. \A i \in 1 .. m : p[i].entry = c.entries[b + i]
  BY DEF PendingOk
<1>3. /\ \A i \in 1 .. n : c.entries[i].sequence_number = i - 1 /\ c.entries[i].prev_hash = HashBefore(c, i)
  BY DEF ChainOk
<1>4. /\ p[1].entry = c.entries[b + 1] /\ p[m].entry = c.entries[n]
      /\ p[1].entry.sequence_number = b /\ p[m].entry.sequence_number = n - 1
      /\ p[1].entry.prev_hash = HashBefore(c, b + 1)
  <2>1. 1 \in 1 .. m /\ m \in 1 .. m /\ b + 1 \in 1 .. n /\ n \in 1 .. n /\ b + m = n
    <3> HIDE DEF m, n, b
    <3> QED BY <1>1
  <2>2. p[1].entry = c.entries[b + 1] /\ p[m].entry = c.entries[n]
    BY <1>2, <2>1
  <2>3. c.entries[b + 1].sequence_number = b + 1 - 1 /\ c.entries[n].sequence_number = n - 1
        /\ c.entries[b + 1].prev_hash = HashBefore(c, b + 1)
    <3> HIDE DEF n, b, c
    <3>1. PICK i \in 1 .. n : i = b + 1
      BY <2>1
    <3>2. c.entries[i].sequence_number = i - 1 /\ c.entries[i].prev_hash = HashBefore(c, i)
      BY <1>3
    <3>3. c.entries[n].sequence_number = n - 1
      BY <1>3, <2>1
    <3>4. i - 1 = b + 1 - 1
      BY <3>1, <1>1
    <3> QED BY <3>1, <3>2, <3>3, <3>4, Zenon
  <2> QED BY <1>1, <2>2, <2>3
<1>5. x.name = FileName(v) /\ x.meta = CurrentMetadata(v)
      /\ x.readable => x.rows = [i \in 1 .. m |-> RowOf(v, i, ls[i])]
  BY <1>1
<1>6. x.name.start = b /\ x.name.end = n - 1 /\ x.name.kind = v.kind /\ x.name.chain_id = v.chain_id
  <2>1. /\ FileName(v).start = Head(p).entry.sequence_number /\ FileName(v).end = Last(p).entry.sequence_number
        /\ FileName(v).kind = v.kind /\ FileName(v).chain_id = v.chain_id
    BY DEF FileName
  <2> HIDE DEF b, n, m, p, c
  <2> QED BY <1>1, <1>4, <1>5, <2>1
<1>7. x.meta.last_hash = c.entries[n].entry_hash /\ x.meta.prev_file_hash = HashBefore(c, b + 1)
  <2> DEFINE e == Entries(p)
  <2>1. e = [i \in 1 .. m |-> p[i].entry]
    BY <1>1 DEF Entries
  <2>2. Len(e) = m /\ m \in Nat
    BY <1>1, <2>1, SMT
  <2>3. IsSeq(e)
    <3>1. \A i \in 1 .. m : e[i] = p[i].entry
      BY <2>1
    <3> HIDE DEF e
    <3>2. e = [i \in 1 .. m |-> e[i]]
      BY <2>1, <3>1
    <3> QED BY <2>2, <3>2 DEF IsSeq
  <2>4. Head(e) = e[1] /\ Last(e) = e[m] /\ e # <<>>
    BY <2>2, <2>3, <1>1, NonEmpty
  <2>5. e[1] = p[1].entry /\ e[m] = p[m].entry
    BY <2>1, <1>1
  <2> HIDE DEF e
  <2>6. /\ CurrentMetadata(v).last_hash = Last(e).entry_hash
        /\ CurrentMetadata(v).prev_file_hash = Head(e).prev_hash
    BY <2>4 DEF CurrentMetadata, e
  <2> QED BY <2>4, <2>5, <2>6, <1>4, <1>5
<1>8. ASSUME NEW k \in 1 .. m, x.readable
      PROVE x.rows[k].chain_hash = c.entries[b + k].entry_hash /\ x.rows[k].prev_hash = c.entries[b + k].prev_hash
  <2>1. x.rows[k] = RowOf(v, k, ls[k])
    BY <1>5, <1>8
  <2>2. RowOf(v, k, ls[k]).chain_hash = p[k].entry.entry_hash /\ RowOf(v, k, ls[k]).prev_hash = p[k].entry.prev_hash
    BY DEF RowOf
  <2> QED BY <2>1, <2>2, <1>2
<1>9. /\ x.readable => DOMAIN x.rows = 1 .. n - 1 - b + 1 /\ DOMAIN x.rows = 1 .. m
      /\ n - 1 + 1 = n /\ b \in Nat /\ n - 1 \in Nat /\ b <= n - 1
  <2>1. x.readable => DOMAIN x.rows = 1 .. m
    BY <1>5
  <2>2. n - 1 - b + 1 = m /\ n - 1 + 1 = n /\ b \in Nat /\ n - 1 \in Nat /\ b <= n - 1
    BY <1>1
  <2> QED BY <2>1, <2>2
<1> HIDE DEF b, n, m, c, p
<1>10. FileOk(x, c)
  <2>1. x.readable => RowsOk(x, c)
    BY <1>6, <1>8, <1>9, ZenonT(60) DEF RowsOk
  <2> QED BY <1>6, <1>7, <1>9, <2>1, ZenonT(60) DEF FileOk
<1> QED BY <1>6, <1>10, <1>1 DEF c, b, n

(* What the invariant says depends on these parts of the writer only.       *)

LEMMA SameWriter ==
  ASSUME NEW v, NEW y, NEW d, NEW e, NEW u, LogOk(v, d, u), WShape(y),
         y.kind = v.kind, y.chain_id = v.chain_id, y.chain = v.chain, y.pending = v.pending,
         Own(v, e) = Own(v, d), \A f \in e : <<f.name.kind, f.name.chain_id>> \in u
  PROVE  LogOk(y, e, u)
<1>1. Base(y) = Base(v) /\ Own(y, e) = Own(v, d)
  BY DEF Base, Own
<1>2. PendingOk(y) /\ ChainOk(y.chain)
  BY <1>1 DEF LogOk, PendingOk
<1>3. FilesOk(y, e)
  <2>1. FilesOk(v, d)
    BY DEF LogOk
  <2> QED BY <1>1, <2>1 DEF FilesOk
<1>4. NamesOk(y, e, u)
  BY DEF NamesOk, LogOk
<1> QED BY <1>2, <1>3, <1>4 DEF LogOk

(* A complete file is never in the way of the file that a flush writes.     *)

LEMMA NameIsNew ==
  ASSUME NEW v, NEW d, NEW u, LogOk(v, d, u), v.pending # <<>>, NEW f \in d, f.readable \/ f.lost
  PROVE  f.name # FileName(v)
<1> SUFFICES ASSUME f.name = FileName(v) PROVE FALSE
  OBVIOUS
<1> DEFINE x == [name |-> FileName(v), meta |-> CurrentMetadata(v), readable |-> FALSE, lost |-> TRUE]
<1>1. ChainOk(v.chain) /\ PendingOk(v) /\ FilesOk(v, d)
  BY DEF LogOk
<1>2. x.name.end = v.chain.next_seq - 1 /\ x.name.kind = v.kind /\ x.name.chain_id = v.chain_id
  <2>1. x.name = FileName(v) /\ x.meta = CurrentMetadata(v) /\ x.lost /\ ~ x.readable
    OBVIOUS
  <2> HIDE DEF x
  <2> QED BY <1>1, <2>1, NewFileOk
<1>3. f.name = x.name
  OBVIOUS
<1> HIDE DEF x
<1>4. f \in Own(v, d)
  BY <1>2, <1>3 DEF Own
<1>5. f.name.end < Base(v) /\ Len(v.pending) # 0 /\ Len(v.pending) \in Nat /\ v.chain.next_seq \in Nat
      /\ f.name.end = v.chain.next_seq - 1
  BY <1>1, <1>2, <1>3, <1>4, NonEmpty DEF FilesOk, PendingOk, ChainOk, IsSeq
<1> QED BY <1>5 DEF Base

(* The file of a flush, as its outcome has it.                              *)

LEMMA FileOfOk ==
  ASSUME NEW v, NEW o, NEW x, x = FileOf(v, o)
  PROVE  /\ x.name = FileName(v) /\ x.meta = CurrentMetadata(v)
         /\ x.readable <=> o = "ok"
         /\ x.lost <=> o = "silent"
         /\ x.readable => x.rows = [i \in DOMAIN v.pending |-> RowOf(v, i, Lineages(v.lineage, Datas(v.pending))[i])]
         /\ x.name.kind = v.kind /\ x.name.chain_id = v.chain_id
<1> DEFINE ls == Lineages(v.lineage, Datas(v.pending))
           r == o = "ok"
           l == o = "silent"
           rows == IF o = "ok" THEN [i \in DOMAIN v.pending |-> RowOf(v, i, ls[i])] ELSE <<>>
<1>1. x = [name |-> FileName(v), meta |-> CurrentMetadata(v), readable |-> r, lost |-> l, rows |-> rows]
  BY Zenon DEF FileOf
<1>2. rows = [i \in DOMAIN v.pending |-> RowOf(v, i, ls[i])] \/ ~ r
  OBVIOUS
<1> HIDE DEF r, l, rows
<1>3. /\ x.name = FileName(v) /\ x.meta = CurrentMetadata(v) /\ x.readable = r /\ x.lost = l /\ x.rows = rows
  BY <1>1
<1>4. FileName(v).kind = v.kind /\ FileName(v).chain_id = v.chain_id
  BY DEF FileName
<1>5. (x.readable <=> o = "ok") /\ (x.lost <=> o = "silent")
  BY <1>3, Zenon DEF r, l
<1> HIDE DEF ls
<1>6. x.readable => x.rows = [i \in DOMAIN v.pending |-> RowOf(v, i, ls[i])]
  BY <1>2, <1>3
<1> QED BY <1>3, <1>4, <1>5, <1>6, Zenon DEF ls

LEMMA FlushKeeps ==
  ASSUME NEW v, NEW d, NEW u, NEW o, LogOk(v, d, u)
  PROVE  LET r == FlushLog(v, d, o) IN
         /\ LogOk(r.w, r.disk, u) /\ r.w.chain = v.chain
         /\ \A f \in d : f.readable => f \in r.disk
<1> DEFINE r == FlushLog(v, d, o)
           ls == Lineages(v.lineage, Datas(v.pending))
           file == FileOf(v, o)
           others == {f \in d : f.name # FileName(v)}
           l == IF o = "row" THEN ls[2] ELSE Last(ls)
           m == v.file_count + 1
           full == [v EXCEPT !.pending = <<>>, !.lineage = Last(ls), !.file_count = m]
           bad == [v EXCEPT !.lineage = l]
<1>1. r = IF v.pending = <<>> THEN [ok |-> TRUE, w |-> v, disk |-> d]
          ELSE IF o = "open" THEN [ok |-> FALSE, w |-> v, disk |-> d]
          ELSE IF o \in {"ok", "silent"} THEN [ok |-> TRUE, disk |-> others \cup {file}, w |-> full]
          ELSE [ok |-> FALSE, disk |-> others \cup {file}, w |-> bad]
  BY DEF FlushLog
<1>2. WShape(v) /\ ChainOk(v.chain) /\ PendingOk(v) /\ FilesOk(v, d) /\ NamesOk(v, d, u)
  BY DEF LogOk
<1>3. /\ file.name = FileName(v) /\ file.meta = CurrentMetadata(v)
      /\ file.readable <=> o = "ok"
      /\ file.lost <=> o = "silent"
      /\ file.readable => file.rows = [i \in DOMAIN v.pending |-> RowOf(v, i, ls[i])]
      /\ file.name.kind = v.kind /\ file.name.chain_id = v.chain_id
  BY FileOfOk
<1> SUFFICES LogOk(r.w, r.disk, u) /\ r.w.chain = v.chain /\ \A f \in d : f.readable => f \in r.disk
  OBVIOUS
<1> HIDE DEF r, file
<1>4. CASE v.pending = <<>> \/ o = "open"
  BY <1>1, <1>4
<1>5. ASSUME v.pending # <<>>
      PROVE  \A f \in d : f.readable \/ f.lost => f \in others
  BY <1>5, NameIsNew
<1>6. CASE v.pending # <<>> /\ o \in {"ok", "silent"}
  <2> DEFINE l1 == Last(ls)
  <2>1. r.w = full /\ r.disk = others \cup {file}
    BY <1>1, <1>6
  <2>2. full = [v EXCEPT !.pending = <<>>, !.lineage = l1, !.file_count = m]
    OBVIOUS
  <2> HIDE DEF full, l1, m
  <2>3. /\ WShape(full) /\ full.kind = v.kind /\ full.chain_id = v.chain_id
        /\ full.chain = v.chain /\ full.pending = <<>>
    BY <1>2, <2>2 DEF WShape, WFields
  <2>4. /\ FileOk(file, v.chain) /\ file.name.start = Base(v) /\ file.name.end = v.chain.next_seq - 1
        /\ file.name.kind = v.kind /\ file.name.chain_id = v.chain_id
    <3> HIDE DEF ls
    <3>1. ~ file.lost => file.readable
      BY <1>3, <1>6
    <3> QED BY <1>2, <1>3, <1>6, <3>1, NewFileOk
  <2> HIDE DEF ls
  <2>5. Own(full, others \cup {file}) = Own(v, d) \cup {file}
    BY <1>3, <1>5, <1>6, <2>3, <2>4 DEF Own
  <2>6. Len(full.pending) = 0 /\ Base(full) = v.chain.next_seq /\ v.chain.next_seq \in Nat
    BY <1>2, <2>3, EmptyIsSeq DEF Base, ChainOk, IsSeq
  <2>7. PendingOk(full)
    BY <2>3, <2>6, EmptyIsSeq DEF PendingOk
  <2>8. /\ Base(v) \in Nat /\ Base(v) < v.chain.next_seq
        /\ file.name.start \in Nat /\ file.name.end \in Nat
    <3>1. /\ Len(v.pending) \in Nat /\ Len(v.pending) # 0 /\ Len(v.pending) <= v.chain.next_seq
          /\ v.chain.next_seq \in Nat
      BY <1>2, <1>6, NonEmpty DEF ChainOk, PendingOk, IsSeq
    <3>2. Base(v) = v.chain.next_seq - Len(v.pending)
      BY DEF Base
    <3>3. Base(v) \in Nat /\ Base(v) < v.chain.next_seq
      BY <3>1, <3>2
    <3> QED BY <3>1, <3>3, <2>4
  <2>9. FilesOk(full, others \cup {file})
    <3> HIDE DEF others
    <3>1. \A f \in Own(v, d) : f.name.start \in Nat /\ f.name.end \in Nat /\ f.name.end < Base(v)
      BY <1>2 DEF FilesOk, FileOk
    <3>2. ASSUME NEW f \in Own(v, d) \cup {file}
          PROVE  FileOk(f, v.chain) /\ f.name.end < v.chain.next_seq
      <4>1. CASE f = file
        BY <2>4, <2>6, <4>1
      <4>2. CASE f \in Own(v, d)
        BY <1>2, <2>6, <2>8, <3>1, <4>2 DEF FilesOk
      <4> QED BY <4>1, <4>2
    <3>3. ASSUME NEW n \in Nat, n < v.chain.next_seq
          PROVE  \E f \in Own(v, d) \cup {file} : Covers(f, n)
      <4>1. CASE n < Base(v)
        BY <1>2, <4>1 DEF FilesOk
      <4>2. CASE ~ (n < Base(v))
        <5>1. file.name.start <= n /\ n <= file.name.end
          BY <2>4, <2>6, <2>8, <3>3, <4>2
        <5> QED BY <5>1 DEF Covers
      <4> QED BY <4>1, <4>2
    <3>4. ASSUME NEW f \in Own(v, d) \cup {file}, NEW g \in Own(v, d) \cup {file}, NEW n \in Nat,
                 Covers(f, n), Covers(g, n)
          PROVE  f = g
      <4>1. CASE f \in Own(v, d) /\ g \in Own(v, d)
        BY <1>2, <3>4, <4>1 DEF FilesOk
      <4>2. ASSUME NEW h \in Own(v, d), Covers(h, n), Covers(file, n) PROVE FALSE
        BY <2>4, <2>8, <3>1, <4>2 DEF Covers
      <4> QED BY <3>4, <4>1, <4>2
    <3> DEFINE own == Own(v, d) \cup {file}
    <3>5. /\ \A f \in own : FileOk(f, v.chain) /\ f.name.end < v.chain.next_seq
          /\ \A n \in Nat : n < v.chain.next_seq => \E f \in own : Covers(f, n)
          /\ \A f, g \in own, n \in Nat : Covers(f, n) /\ Covers(g, n) => f = g
      BY <3>2, <3>3, <3>4
    <3> HIDE DEF own
    <3>6. Own(full, others \cup {file}) = own
      BY <2>5 DEF own
    <3> QED BY <2>3, <2>6, <3>5, <3>6, ZenonT(60) DEF FilesOk
  <2>10. NamesOk(full, others \cup {file}, u)
    BY <1>2, <2>3, <2>4 DEF NamesOk
  <2>11. LogOk(full, others \cup {file}, u)
    BY <1>2, <2>3, <2>7, <2>9, <2>10 DEF LogOk
  <2> QED BY <1>5, <1>6, <2>1, <2>3, <2>11
<1>7. CASE v.pending # <<>> /\ o # "open" /\ o \notin {"ok", "silent"}
  <2>1. r.w = bad /\ r.disk = others \cup {file}
    BY <1>1, <1>7
  <2>2. bad = [v EXCEPT !.lineage = l]
    OBVIOUS
  <2> HIDE DEF bad, l
  <2>3. /\ WShape(bad) /\ bad.kind = v.kind /\ bad.chain_id = v.chain_id
        /\ bad.chain = v.chain /\ bad.pending = v.pending
    BY <1>2, <2>2 DEF WShape, WFields
  <2>4. file.name.kind = v.kind /\ file.name.chain_id = v.chain_id
    BY <1>3
  <2>5. Own(v, others \cup {file}) = Own(v, d)
    BY <1>3, <1>5, <1>7 DEF Own
  <2>6. \A f \in others \cup {file} : <<f.name.kind, f.name.chain_id>> \in u
    BY <1>2, <2>4 DEF NamesOk
  <2>7. LogOk(bad, others \cup {file}, u)
    <3> HIDE DEF others
    <3> QED BY <2>3, <2>5, <2>6, SameWriter
  <2> QED BY <1>5, <1>7, <2>1, <2>3, <2>7
<1> QED BY <1>4, <1>6, <1>7

(* Append one entry: it is pending.                                         *)

LEMMA AppendKeeps ==
  ASSUME NEW v, NEW d, NEW u, NEW rec, NEW data, NEW ts, NEW y, LogOk(v, d, u),
         NEW a, a = AppendToChain(v.chain, data, ts),
         NEW p, p = [rec |-> rec, entry |-> Last(a.entries), data |-> data],
         y = [v EXCEPT !.chain = a, !.pending = Append(v.pending, p)]
  PROVE  LogOk(y, d, u)
<1> DEFINE c == v.chain
           bare == [sequence_number |-> c.next_seq, timestamp_ns |-> ts, prev_hash |-> c.last_hash,
                    data_hash |-> Sha256(data), entry_hash |-> Zeros]
           h == EntryHash(bare)
           e == [bare EXCEPT !.entry_hash = h]
           pending == Append(v.pending, p)
           n == Len(c.entries)
           m == Len(v.pending)
<1>1. /\ WShape(v) /\ ChainOk(c) /\ PendingOk(v) /\ FilesOk(v, d) /\ NamesOk(v, d, u)
      /\ IsSeq(c.entries) /\ IsSeq(v.pending) /\ n \in Nat /\ m \in Nat /\ c.next_seq = n /\ m <= n
  BY DEF LogOk, ChainOk, PendingOk, IsSeq
<1>2. /\ a.entries = Append(c.entries, e) /\ a.last_hash = e.entry_hash /\ a.next_seq = c.next_seq + 1
      /\ e.sequence_number = c.next_seq /\ e.prev_hash = c.last_hash
  <2>1. a = [entries |-> Append(c.entries, e), last_hash |-> e.entry_hash, next_seq |-> c.next_seq + 1]
    BY DEF AppendToChain
  <2>2. e.sequence_number = c.next_seq /\ e.prev_hash = c.last_hash
    <3> HIDE DEF h
    <3> QED OBVIOUS
  <2> HIDE DEF e
  <2> QED BY <2>1, <2>2
<1>3. y = [v EXCEPT !.chain = a, !.pending = pending]
  OBVIOUS
<1> HIDE DEF e, h, pending
<1>4. /\ WShape(y) /\ y.kind = v.kind /\ y.chain_id = v.chain_id /\ y.chain = a /\ y.pending = pending
  BY <1>1, <1>3 DEF WShape, WFields
<1>5. /\ IsSeq(a.entries) /\ Len(a.entries) = n + 1 /\ a.entries[n + 1] = e
      /\ \A i \in 1 .. n : a.entries[i] = c.entries[i]
  BY <1>1, <1>2, AppendAny
<1>6. Last(a.entries) = e
  BY <1>5, NonEmpty
<1>7. /\ IsSeq(pending) /\ Len(pending) = m + 1 /\ pending[m + 1] = p
      /\ \A i \in 1 .. m : pending[i] = v.pending[i]
  BY <1>1, AppendAny DEF pending
<1>8. p.entry = e
  BY <1>6
<1> HIDE DEF n, m
<1>9. \A i \in Nat : 1 <= i /\ i <= n + 1 => HashBefore(a, i) = HashBefore(c, i)
  <2> SUFFICES ASSUME NEW i \in Nat, 1 <= i, i <= n + 1 PROVE HashBefore(a, i) = HashBefore(c, i)
    OBVIOUS
  <2>1. CASE i = 1
    BY <2>1 DEF HashBefore
  <2>2. CASE i # 1
    <3>1. i - 1 \in 1 .. n
      BY <1>1, <2>2
    <3> QED BY <1>5, <2>2, <3>1 DEF HashBefore
  <2> QED BY <2>1, <2>2
<1>10. ChainOk(a)
  <2>1. a.next_seq = Len(a.entries)
    BY <1>1, <1>2, <1>5
  <2>2. a.last_hash = HashBefore(a, Len(a.entries) + 1)
    <3>1. n + 1 + 1 # 1 /\ n + 1 + 1 - 1 = n + 1
      BY <1>1
    <3>2. HashBefore(a, n + 1 + 1) = a.entries[n + 1].entry_hash
      BY <1>1, <3>1 DEF HashBefore
    <3> QED BY <3>2, <1>2, <1>5
  <2>3. ASSUME NEW i \in 1 .. n + 1
        PROVE  a.entries[i].sequence_number = i - 1 /\ a.entries[i].prev_hash = HashBefore(a, i)
    <3>1. HashBefore(a, i) = HashBefore(c, i)
      BY <1>1, <1>9
    <3>2. CASE i = n + 1
      <4>1. c.last_hash = HashBefore(c, n + 1)
        BY <1>1 DEF ChainOk, n
      <4> QED BY <1>1, <1>2, <1>5, <3>1, <3>2, <4>1
    <3>3. CASE i \in 1 .. n
      <4>1. c.entries[i].sequence_number = i - 1 /\ c.entries[i].prev_hash = HashBefore(c, i)
        BY <1>1, <3>3 DEF ChainOk, n
      <4> QED BY <1>5, <3>1, <3>3, <4>1
    <3> QED BY <1>1, <3>2, <3>3
  <2> QED BY <1>5, <2>1, <2>2, <2>3 DEF ChainOk
<1>11. Base(y) = Base(v) /\ Base(v) = n - m /\ Base(v) \in Nat
  <2>1. Base(v) = n - m /\ Base(y) = n + 1 - (m + 1)
    BY <1>1, <1>2, <1>4, <1>7 DEF Base, m
  <2> QED BY <1>1, <2>1
<1>12. PendingOk(y)
  <2>1. ASSUME NEW i \in 1 .. m + 1 PROVE pending[i].entry = a.entries[Base(v) + i]
    <3>1. CASE i = m + 1
      <4>1. Base(v) + i = n + 1
        BY <1>1, <1>11, <3>1
      <4> QED BY <1>5, <1>7, <1>8, <3>1, <4>1
    <3>2. CASE i \in 1 .. m
      <4>1. Base(v) + i \in 1 .. n
        BY <1>1, <1>11, <3>2
      <4>2. v.pending[i].entry = c.entries[Base(v) + i]
        BY <1>1, <3>2 DEF PendingOk, m
      <4> QED BY <1>5, <1>7, <3>2, <4>1, <4>2
    <3> QED BY <1>1, <3>1, <3>2
  <2>2. Len(y.pending) <= y.chain.next_seq
    BY <1>1, <1>2, <1>4, <1>7
  <2> QED BY <1>4, <1>7, <1>11, <2>1, <2>2 DEF PendingOk
<1>13. ASSUME NEW f, FileOk(f, c), f.name.end < Base(v) PROVE FileOk(f, a)
  <2>1. f.name.start \in Nat /\ f.name.end \in Nat /\ f.name.start <= f.name.end /\ f.name.end < n
        /\ f.name.start + 1 \in Nat /\ f.name.start + 1 <= n + 1 /\ f.name.end + 1 \in 1 .. n
    <3>1. f.name.start \in Nat /\ f.name.end \in Nat /\ f.name.start <= f.name.end
      BY <1>13 DEF FileOk
    <3>2. f.name.end < n - m
      BY <1>11, <1>13
    <3> QED BY <1>1, <3>1, <3>2
  <2>2. HashBefore(a, f.name.start + 1) = HashBefore(c, f.name.start + 1)
    BY <1>9, <2>1
  <2>3. a.entries[f.name.end + 1] = c.entries[f.name.end + 1]
    BY <1>5, <2>1
  <2>4. ASSUME f.readable, NEW k \in DOMAIN f.rows
        PROVE  a.entries[f.name.start + k] = c.entries[f.name.start + k]
    <3>1. DOMAIN f.rows = 1 .. f.name.end - f.name.start + 1
      BY <1>13, <2>4 DEF FileOk, RowsOk
    <3>2. k \in Nat /\ 1 <= k /\ k <= f.name.end - f.name.start + 1
      BY <2>1, <3>1
    <3>3. f.name.start + k \in 1 .. n
      BY <1>1, <2>1, <3>2
    <3> QED BY <1>5, <3>3
  <2>5. f.readable => RowsOk(f, a)
    BY <1>13, <2>4 DEF FileOk, RowsOk
  <2> QED BY <1>13, <2>2, <2>3, <2>5 DEF FileOk
<1>14. Own(y, d) = Own(v, d)
  BY <1>4 DEF Own
<1>15. FilesOk(y, d)
  <2>1. \A f \in Own(v, d) : FileOk(f, a) /\ f.name.end < Base(v)
    BY <1>1, <1>13 DEF FilesOk
  <2> QED BY <1>1, <1>4, <1>11, <1>14, <2>1 DEF FilesOk
<1>16. NamesOk(y, d, u)
  BY <1>1, <1>4 DEF NamesOk
<1> QED BY <1>4, <1>10, <1>12, <1>15, <1>16 DEF LogOk

LEMMA LogKeeps ==
  ASSUME NEW v, NEW d, NEW u, NEW rec, NEW refused, NEW time, NEW o, LogOk(v, d, u)
  PROVE  LET r == LogRecord(v, d, rec, refused, time, o) IN
         LogOk(r.w, r.disk, u) /\ \A f \in d : f.readable => f \in r.disk
<1> DEFINE data == Serialize(v.kind, rec)
           ts == IF rec.timestamp_ns = 0 THEN time ELSE rec.timestamp_ns
           chain == AppendToChain(v.chain, data, ts)
           w1 == [v EXCEPT !.chain = chain,
                           !.pending = Append(@, [rec |-> rec, entry |-> Last(chain.entries), data |-> data])]
           r1 == FlushLog(w1, d, o)
           r == LogRecord(v, d, rec, refused, time, o)
           t1 == [w1 EXCEPT !.total = @ + 1]
           t2 == [r1 EXCEPT !.w.total = @ + 1]
<1>1. r = IF refused THEN [ok |-> FALSE, w |-> v, disk |-> d]
          ELSE IF Len(w1.pending) < v.max_records THEN [ok |-> TRUE, w |-> t1, disk |-> d]
          ELSE IF r1.ok THEN t2 ELSE r1
  BY DEF LogRecord
<1>2. LogOk(w1, d, u)
  <2> DEFINE p == [rec |-> rec, entry |-> Last(chain.entries), data |-> data]
  <2>1. chain = AppendToChain(v.chain, data, ts)
    OBVIOUS
  <2> HIDE DEF data, ts, chain
  <2>2. w1 = [v EXCEPT !.chain = chain, !.pending = Append(v.pending, p)]
    OBVIOUS
  <2>3. p = [rec |-> rec, entry |-> Last(chain.entries), data |-> data]
    OBVIOUS
  <2> HIDE DEF w1, p
  <2> QED BY <2>1, <2>2, <2>3, AppendKeeps
<1> SUFFICES LogOk(r.w, r.disk, u) /\ \A f \in d : f.readable => f \in r.disk
  OBVIOUS
<1> HIDE DEF r, w1, data, ts, chain
<1>3. LogOk(r1.w, r1.disk, u) /\ \A f \in d : f.readable => f \in r1.disk
  BY <1>2, FlushKeeps
<1>4. r1 = [x \in {"ok", "w", "disk"} |-> r1[x]]
  <2> DEFINE others == {f \in d : f.name # FileName(w1)}
             ls == Lineages(w1.lineage, Datas(w1.pending))
             file == FileOf(w1, o)
             full == [w1 EXCEPT !.pending = <<>>, !.lineage = Last(ls), !.file_count = @ + 1]
             bad == [w1 EXCEPT !.lineage = IF o = "row" THEN ls[2] ELSE Last(ls)]
  <2>1. r1 = IF w1.pending = <<>> THEN [ok |-> TRUE, w |-> w1, disk |-> d]
             ELSE IF o = "open" THEN [ok |-> FALSE, w |-> w1, disk |-> d]
             ELSE IF o \in {"ok", "silent"} THEN [ok |-> TRUE, disk |-> others \cup {file}, w |-> full]
             ELSE [ok |-> FALSE, disk |-> others \cup {file}, w |-> bad]
    BY DEF FlushLog
  <2> HIDE DEF others, file, full, bad, r1
  <2> QED BY <2>1
<1> HIDE DEF r1
<1>5. ASSUME NEW x, NEW e, LogOk(x, e, u) PROVE LogOk([x EXCEPT !.total = @ + 1], e, u)
  <2> DEFINE z == x.total + 1
             t == [x EXCEPT !.total = z]
  <2> HIDE DEF z
  <2>1. /\ WShape(t) /\ t.kind = x.kind /\ t.chain_id = x.chain_id
        /\ t.chain = x.chain /\ t.pending = x.pending
    BY <1>5 DEF LogOk, WShape, WFields
  <2>2. \A f \in e : <<f.name.kind, f.name.chain_id>> \in u
    BY <1>5 DEF LogOk, NamesOk
  <2> HIDE DEF t
  <2>3. LogOk(t, e, u)
    BY <1>5, <2>1, <2>2, SameWriter
  <2> QED BY <2>3 DEF t, z
<1>6. t2.w = [r1.w EXCEPT !.total = @ + 1] /\ t2.disk = r1.disk
  <2> DEFINE z == [r1.w EXCEPT !.total = @ + 1]
  <2>1. t2 = [r1 EXCEPT !.w = z]
    OBVIOUS
  <2> HIDE DEF z, t2
  <2>2. t2.w = z /\ t2.disk = r1.disk
    BY <1>4, <2>1
  <2> QED BY <2>2 DEF z
<1> HIDE DEF t2
<1>7. CASE refused
  BY <1>1, <1>7
<1>8. CASE ~ refused /\ Len(w1.pending) < v.max_records
  <2>1. LogOk(t1, d, u)
    BY <1>2, <1>5
  <2> HIDE DEF t1
  <2> QED BY <1>1, <1>8, <2>1
<1>9. CASE ~ refused /\ ~ (Len(w1.pending) < v.max_records)
  <2>1. LogOk(t2.w, t2.disk, u) /\ \A f \in d : f.readable => f \in t2.disk
    BY <1>3, <1>5, <1>6
  <2> HIDE DEF t1
  <2> QED BY <1>1, <1>3, <1>9, <2>1
<1> QED BY <1>7, <1>8, <1>9

-----------------------------------------------------------------------------
(* The logs as a whole                                                      *)

Untouching == UNCHANGED <<part, w, disk, used>>

LEMMA LogInit == Init => LogInv
<1> SUFFICES ASSUME Init, part = "log" PROVE LogOk(w, disk, used)
  BY DEF LogInv
<1>1. InitLog
  BY DEF Init, InitReport
<1>2. PICK k \in Kinds, m \in MaxRecords, id \in {CHOOSE x \in ChainIds : TRUE} :
        w = NewLog(k, id, m) /\ used = {<<k, id>>}
  BY <1>1 DEF InitLog
<1>3. disk = {}
  BY <1>1 DEF InitLog
<1>4. LogOk(NewLog(k, id, m), {}, {} \cup {<<k, id>>})
  BY NewLogOk
<1> QED BY <1>2, <1>3, <1>4

LEMMA LogStep ==
  ASSUME ~ ReuseId, LogInv, Next
  PROVE  LogInv' /\ (part = "log" => \A f \in disk : f.readable => f \in disk')
<1> USE DEF LogInv
<1> DEFINE Kept == \A f \in disk : f.readable => f \in disk'
<1>1. ASSUME NEW rec, NEW o, Log(rec, o) PROVE LogInv' /\ Kept
  <2> DEFINE r == LogRecord(w, disk, rec, FALSE, now, o)
  <2>1. part = "log" /\ part' = part /\ used' = used /\ w' = r.w /\ disk' = r.disk
    BY <1>1 DEF Log
  <2>2. LogOk(r.w, r.disk, used) /\ \A f \in disk : f.readable => f \in r.disk
    BY <2>1, LogKeeps
  <2> HIDE DEF r
  <2> QED BY <2>1, <2>2
<1>2. ASSUME NEW rec, LogRefused(rec) PROVE LogInv' /\ Kept
  <2> DEFINE r == LogRecord(w, disk, rec, TRUE, now, "ok")
  <2>1. part = "log" /\ part' = part /\ used' = used /\ w' = r.w /\ disk' = r.disk
    BY <1>2 DEF LogRefused
  <2>2. LogOk(r.w, r.disk, used) /\ \A f \in disk : f.readable => f \in r.disk
    BY <2>1, LogKeeps
  <2> HIDE DEF r
  <2> QED BY <2>1, <2>2
<1>3. ASSUME NEW o, Flush(o) PROVE LogInv' /\ Kept
  <2> DEFINE r == FlushLog(w, disk, o)
  <2>1. part = "log" /\ part' = part /\ used' = used /\ w' = r.w /\ disk' = r.disk
    BY <1>3 DEF Flush
  <2>2. LogOk(r.w, r.disk, used) /\ \A f \in disk : f.readable => f \in r.disk
    BY <2>1, FlushKeeps
  <2> HIDE DEF r
  <2> QED BY <2>1, <2>2
<1>4. ASSUME NEW k, NEW id, Restart(k, id) PROVE LogInv' /\ Kept
  <2>1. /\ part = "log" /\ part' = part /\ disk' = disk /\ used' = used \cup {<<k, id>>}
        /\ w' = NewLog(k, id, w.max_records) /\ <<k, id>> \notin used
    BY <1>4 DEF Restart
  <2>2. \A f \in disk : <<f.name.kind, f.name.chain_id>> \in used
    BY <2>1 DEF LogOk, NamesOk
  <2>3. \A f \in disk : /\ <<f.name.kind, f.name.chain_id>> \in used
                        /\ <<f.name.kind, f.name.chain_id>> # <<k, id>>
    <3> SUFFICES ASSUME NEW f \in disk, <<f.name.kind, f.name.chain_id>> = <<k, id>> PROVE FALSE
      BY <2>2
    <3> QED BY <2>1, <2>2
  <2>4. LogOk(NewLog(k, id, w.max_records), disk, used \cup {<<k, id>>})
    BY <2>3, NewLogOk
  <2> QED BY <2>1, <2>4
<1>5. CASE part # "log" /\ part' = part
  BY <1>5
<1>6. ASSUME NEW f, Edit(f) PROVE part # "log" /\ part' = part
  BY <1>6 DEF Edit
<1>7. CASE MakeReport
  <2>1. part # "log" /\ part' = part
    BY <1>7 DEF MakeReport, Report
  <2> QED BY <1>5, <2>1
<1>8. ASSUME NEW t, ReadClock(t) \/ LoadLast(t) \/ Exchange(t) \/ ReportOverride(t) \/ AskCount(t)
      PROVE  part # "log" /\ part' = part
  BY <1>8 DEF ReadClock, LoadLast, Exchange, ReportOverride, AskCount
<1>9. ASSUME RetentionTick \/ \E ok, removed \in Answers, moved \in BOOLEAN : RetentionPass(ok, removed, moved)
      PROVE  part # "log" /\ part' = part
  BY <1>9 DEF RetentionTick, RetentionPass
<1> QED BY <1>1, <1>2, <1>3, <1>4, <1>5, <1>6, <1>7, <1>8, <1>9 DEF Next

LEMMA LogSame ==
  ASSUME LogInv, UNCHANGED vars
  PROVE  LogInv'
BY DEF vars, LogInv

\* Each log holds what its files and its writer say, for the whole run.
THEOREM AuditTrail_Protocol ==
  ASSUME ~ ReuseId
  PROVE  Spec => []LogInv
<1>1. LogInv /\ [Next]_vars => LogInv'
  BY LogStep, LogSame
<1> QED BY <1>1, LogInit, PTL DEF Spec

(* From the invariant to the property.                                      *)

LEMMA LogComplete == LogInv => TrailComplete
<1> SUFFICES ASSUME LogInv, part = "log" PROVE TrailComplete
  BY DEF TrailComplete
<1> DEFINE own == Own(w, disk)
           c == w.chain
           p == w.pending
           m == Len(p)
           n == Len(c.entries)
           b == Base(w)
<1>1. /\ ChainOk(c) /\ PendingOk(w) /\ FilesOk(w, disk)
      /\ n \in Nat /\ m \in Nat /\ m <= n /\ b = n - m
      /\ DOMAIN c.entries = 1 .. n /\ DOMAIN p = 1 .. m
  BY NonEmpty DEF LogInv, LogOk, ChainOk, PendingOk, IsSeq, Base
<1>2. own = {f \in disk : /\ f.readable \/ f.lost
                          /\ f.name.kind = w.kind /\ f.name.chain_id = w.chain_id}
  BY DEF Own
<1>3. /\ \A i \in 1 .. n : c.entries[i].sequence_number = i - 1 /\ c.entries[i].prev_hash = HashBefore(c, i)
      /\ \A i \in 1 .. m : p[i].entry = c.entries[b + i]
      /\ \A f \in own : FileOk(f, c) /\ f.name.end < b
      /\ \A k \in Nat : k < b => \E f \in own : Covers(f, k)
      /\ \A f, g \in own, k \in Nat : Covers(f, k) /\ Covers(g, k) => f = g
  BY <1>1 DEF ChainOk, PendingOk, FilesOk
<1> HIDE DEF own, n, m, b, p, c
<1>4. ASSUME NEW k \in 1 .. n
      PROVE  LET e == c.entries[k]
                 files == {f \in own : f.name.start <= k - 1 /\ k - 1 <= f.name.end}
                 held == {i \in DOMAIN p : p[i].entry = e} IN
             /\ Cardinality(files) + Cardinality(held) = 1
             /\ \A f \in files :
                  ~ f.lost => f.readable /\ f.rows[k - f.name.start].chain_hash = e.entry_hash
  <2> DEFINE e == c.entries[k]
             files == {f \in own : f.name.start <= k - 1 /\ k - 1 <= f.name.end}
             held == {i \in DOMAIN p : p[i].entry = e}
  <2>1. files = {f \in own : Covers(f, k - 1)} /\ k - 1 \in Nat
    BY <1>1 DEF Covers
  <2>2. \A i \in 1 .. m : p[i].entry = e <=> b + i = k
    <3> SUFFICES ASSUME NEW i \in 1 .. m PROVE p[i].entry = e <=> b + i = k
      OBVIOUS
    <3>1. b + i \in 1 .. n
      BY <1>1
    <3>2. p[i].entry = c.entries[b + i] /\ c.entries[b + i].sequence_number = b + i - 1
          /\ e.sequence_number = k - 1
      <4>1. PICK j \in 1 .. n : j = b + i
        BY <3>1
      <4>2. c.entries[j].sequence_number = j - 1 /\ e.sequence_number = k - 1
        BY <1>3
      <4>3. p[i].entry = c.entries[b + i]
        BY <1>3
      <4>4. j - 1 = b + i - 1
        BY <1>1, <4>1
      <4> QED BY <4>1, <4>2, <4>3, <4>4, Zenon
    <3>3. p[i].entry = e => b + i - 1 = k - 1
      BY <3>2
    <3> QED BY <1>1, <3>2, <3>3
  <2>3. Cardinality(files) + Cardinality(held) = 1
    <3>1. CASE k <= b
      <4>1. held = {}
        BY <1>1, <2>2, <3>1
      <4>2. PICK f \in own : Covers(f, k - 1)
        BY <1>1, <1>3, <2>1, <3>1
      <4>3. files = {f}
        BY <1>3, <2>1, <4>2
      <4> HIDE DEF files, held
      <4>4. Cardinality(files) = 1 /\ Cardinality(held) = 0
        BY <4>1, <4>3, FS_EmptySet, FS_Singleton
      <4> QED BY <4>4
    <3>2. CASE b < k
      <4>1. ASSUME NEW f \in files PROVE FALSE
        <5>1. f.name.end < b /\ k - 1 <= f.name.end /\ f.name.end \in Nat
          BY <1>3 DEF FileOk
        <5> QED BY <1>1, <3>2, <5>1
      <4>2. k - b \in 1 .. m
        BY <1>1, <3>2
      <4>3. held = {k - b}
        <5>1. \A i \in 1 .. m : b + i = k <=> i = k - b
          BY <1>1
        <5> QED BY <1>1, <2>2, <4>2, <5>1
      <4>4. files = {}
        BY <4>1
      <4> HIDE DEF files, held
      <4>5. Cardinality(files) = 0 /\ Cardinality(held) = 1
        BY <4>3, <4>4, FS_EmptySet, FS_Singleton
      <4> QED BY <4>5
    <3> QED BY <1>1, <3>1, <3>2
  <2>4. ASSUME NEW f \in files, ~ f.lost
        PROVE  f.readable /\ f.rows[k - f.name.start].chain_hash = e.entry_hash
    <3>1. /\ f.name.start \in Nat /\ f.name.end \in Nat
          /\ DOMAIN f.rows = 1 .. f.name.end - f.name.start + 1
          /\ \A j \in DOMAIN f.rows : f.rows[j].chain_hash = c.entries[f.name.start + j].entry_hash
          /\ f.name.start <= k - 1 /\ k - 1 <= f.name.end
          /\ f.readable
      BY <1>3, <2>4 DEF FileOk, RowsOk
    <3>2. k - f.name.start \in 1 .. f.name.end - f.name.start + 1 /\ f.name.start + (k - f.name.start) = k
      BY <1>1, <3>1
    <3> QED BY <3>1, <3>2
  <2> HIDE DEF files, held
  <2> QED BY <2>3, <2>4 DEF files, held
<1>5. ASSUME NEW f \in own, NEW g \in own, g.name.start = f.name.end + 1, f.readable, g.readable
      PROVE  /\ g.meta.prev_file_hash = f.meta.last_hash
             /\ VerifyContinuity(f.meta.last_hash,
                                 [i \in DOMAIN g.rows |-> EntryFromRow(g.name.kind, g.rows[i])])
  <2> DEFINE rows == [i \in DOMAIN g.rows |-> EntryFromRow(g.name.kind, g.rows[i])]
             s == g.name.start
  <2>1. /\ s \in Nat /\ g.name.end \in Nat /\ s <= g.name.end /\ g.name.end < b
        /\ DOMAIN g.rows = 1 .. g.name.end - s + 1
        /\ \A k \in DOMAIN g.rows : g.rows[k].prev_hash = c.entries[s + k].prev_hash
        /\ g.meta.prev_file_hash = HashBefore(c, s + 1)
    BY <1>3, <1>5 DEF FileOk, RowsOk
  <2>2. f.name.end \in Nat /\ f.meta.last_hash = c.entries[f.name.end + 1].entry_hash
    BY <1>3 DEF FileOk
  <2> HIDE DEF s
  <2>3. s = f.name.end + 1
    BY <1>5 DEF s
  <2>4. HashBefore(c, s + 1) = c.entries[s].entry_hash
    BY <2>1, <2>2, <2>3 DEF HashBefore
  <2>5. 1 \in DOMAIN g.rows /\ s + 1 \in 1 .. n
    BY <1>1, <2>1
  <2>6. g.rows[1].prev_hash = f.meta.last_hash
    <3>1. g.rows[1].prev_hash = c.entries[s + 1].prev_hash
      BY <2>1, <2>5
    <3>2. c.entries[s + 1].prev_hash = HashBefore(c, s + 1)
      BY <1>3, <2>5
    <3> QED BY <2>2, <2>3, <2>4, <3>1, <3>2
  <2>7. rows[1].prev_hash = g.rows[1].prev_hash
    <3>1. rows[1] = EntryFromRow(g.name.kind, g.rows[1])
      BY <2>5
    <3>2. EntryFromRow(g.name.kind, g.rows[1]).prev_hash = g.rows[1].prev_hash
      BY DEF EntryFromRow
    <3> QED BY <3>1, <3>2
  <2>8. g.meta.prev_file_hash = f.meta.last_hash
    BY <2>1, <2>2, <2>3, <2>4
  <2> HIDE DEF rows
  <2>9. VerifyContinuity(f.meta.last_hash, rows)
    BY <2>6, <2>7 DEF VerifyContinuity
  <2> QED BY <2>8, <2>9 DEF rows
<1> QED BY <1>1, <1>2, <1>4, <1>5 DEF TrailComplete, c, p

\* Each record of a log is held exactly once, by the writer or by a file that
\* flush() reported, whatever flushes failed and whenever the process was
\* restarted; only a file whose close() lost the footer without saying so does
\* not hold its records; and files that open and follow each other link:
\* for all records, file sizes and numbers of failures, when no writer
\* is given the chain identifier of an earlier one.
THEOREM AuditTrail_TrailComplete ==
  ASSUME ~ ReuseId
  PROVE  Spec => []TrailComplete
BY AuditTrail_Protocol, LogComplete, PTL

(* Files stay.                                                              *)

LEMMA BudgetStep ==
  ASSUME "edits" \in DOMAIN budget /\ budget.edits \in Nat, Next
  PROVE  ("edits" \in DOMAIN budget /\ budget.edits \in Nat)'
<1>1. ASSUME NEW events, Spend(events) PROVE ("edits" \in DOMAIN budget /\ budget.edits \in Nat)'
  BY <1>1 DEF Spend
<1>2. CASE UNCHANGED budget
  BY <1>2
<1>3. ASSUME NEW rec, NEW o, Log(rec, o) \/ Flush(o) PROVE \E events : Spend(events)
  BY <1>3 DEF Log, Flush
<1>4. ASSUME NEW k, NEW id, Restart(k, id) PROVE \E events : Spend(events)
  BY <1>4 DEF Restart
<1>5. ASSUME NEW f, Edit(f) PROVE \E events : Spend(events)
  BY <1>5 DEF Edit
<1>6. ASSUME NEW rec, LogRefused(rec) PROVE UNCHANGED budget
  BY <1>6 DEF LogRefused
<1>7. ASSUME MakeReport PROVE UNCHANGED budget
  BY <1>7 DEF MakeReport, Report
<1>8. ASSUME NEW t, ReadClock(t) \/ LoadLast(t) \/ Exchange(t) \/ ReportOverride(t) \/ AskCount(t)
      PROVE  UNCHANGED budget
  BY <1>8 DEF ReadClock, LoadLast, Exchange, ReportOverride, AskCount, logVars
<1>9. ASSUME RetentionTick \/ \E ok, removed \in Answers, moved \in BOOLEAN : RetentionPass(ok, removed, moved)
      PROVE  UNCHANGED budget
  BY <1>9 DEF RetentionTick, RetentionPass, logVars
<1>10. (\E events : Spend(events)) \/ UNCHANGED budget
  BY <1>3, <1>4, <1>5, <1>6, <1>7, <1>8, <1>9 DEF Next
<1> QED BY <1>1, <1>2, <1>10

LEMMA KeptStep ==
  ASSUME ~ ReuseId, LogInv, budget.edits \in Nat, "edits" \in DOMAIN budget, Next
  PROVE  \A f \in disk : f.readable /\ budget'.edits = budget.edits => f \in disk'
<1>1. CASE part = "log"
  BY <1>1, LogStep
<1>2. ASSUME part # "log", NEW rec, NEW o, NEW k, NEW id,
             Log(rec, o) \/ LogRefused(rec) \/ Flush(o) \/ Restart(k, id)
      PROVE  FALSE
  BY <1>2 DEF Log, LogRefused, Flush, Restart
<1>3. ASSUME NEW f, Edit(f) PROVE budget'.edits # budget.edits
  BY <1>3 DEF Edit, Spend
<1>4. ASSUME MakeReport PROVE UNCHANGED disk
  BY <1>4 DEF MakeReport, Report
<1>5. ASSUME NEW t, ReadClock(t) \/ LoadLast(t) \/ Exchange(t) \/ ReportOverride(t) \/ AskCount(t)
      PROVE  UNCHANGED disk
  BY <1>5 DEF ReadClock, LoadLast, Exchange, ReportOverride, AskCount, logVars
<1>6. ASSUME RetentionTick \/ \E ok, removed \in Answers, moved \in BOOLEAN : RetentionPass(ok, removed, moved)
      PROVE  UNCHANGED disk
  BY <1>6 DEF RetentionTick, RetentionPass, logVars
<1> QED BY <1>1, <1>2, <1>3, <1>4, <1>5, <1>6 DEF Next

\* No flush takes the place of a file that an earlier flush completed, in this
\* process or in one before it.
THEOREM AuditTrail_FilesKept ==
  ASSUME ~ ReuseId
  PROVE  Spec => FilesKept
<1> DEFINE BInv == "edits" \in DOMAIN budget /\ budget.edits \in Nat
           Kept == \A f \in disk : f.readable /\ budget'.edits = budget.edits => f \in disk'
<1>1. Init => LogInv /\ BInv
  <2>1. Init => BInv
    BY DEF Init
  <2> QED BY <2>1, LogInit
<1>2. LogInv /\ BInv /\ [Next]_vars => (LogInv /\ BInv)'
  <2>1. ASSUME LogInv, BInv, UNCHANGED vars PROVE (LogInv /\ BInv)'
    BY <2>1, LogSame DEF vars
  <2> QED BY <2>1, LogStep, BudgetStep
<1>3. LogInv /\ BInv /\ [Next]_vars => [Kept]_vars
  BY KeptStep
<1> HIDE DEF BInv, Kept
<1>4. Spec => [][Kept]_vars
  BY <1>1, <1>2, <1>3, PTL DEF Spec
<1> QED BY <1>4 DEF FilesKept, Kept

-----------------------------------------------------------------------------
(* The invariant of the clock and the monitor; c is the sequence of calls   *)

Recorded(c, i) == {j \in 1 .. i : c[j].op = "record" /\ c[j].count >= 0}
Old(c, j, i) == \E k \in j .. i : c[k].count >= 0 /\ c[j].ns < c[k].ns - MonitorOpts.window_ns
Live(c, i) == {j \in Recorded(c, i) : ~ Old(c, j, i)}
Alerting(c) == {j \in Recorded(c, Len(c)) : c[j].count >= MonitorOpts.alert_threshold}

Sorted(ts) == \A a, b \in 1 .. Len(ts) : a <= b => ts[a] <= ts[b]

\* ts has the times of the calls in L, in the order of the calls.
MatchesBy(idx, n, ts, c, L) ==
  /\ idx \in [1 .. n -> L]
  /\ \A a, b \in 1 .. n : a < b => idx[a] < idx[b]
  /\ \A j \in L : \E k \in 1 .. n : idx[k] = j
  /\ \A k \in 1 .. n : ts[k] = c[idx[k]].ns

Matches(ts, c, L) == \E idx : MatchesBy(idx, Len(ts), ts, c, L)

MFields == {"opts", "timestamps", "alerts", "halts"}
MShape(m) == m = [x \in MFields |-> m[x]]

MonitorOk(m, c) ==
  /\ MShape(m) /\ m.opts = MonitorOpts
  /\ m.timestamps \in Seq(Nat) /\ Sorted(m.timestamps)
  /\ Matches(m.timestamps, c, Live(c, Len(c)))
  /\ m.alerts \in Seq(Nat) /\ Len(m.alerts) = Cardinality(Alerting(c))

\* What is said of each call that was made.
CallOk(c, i) ==
  IF c[i].count = -1
  THEN \E j \in Recorded(c, i) : j > c[i].began /\ c[j].ns > c[i].ns
  ELSE c[i].count = Cardinality(Live(c, i))

CallsOk(c, last) ==
  /\ c \in Seq([op : {"record", "count"}, ns : Nat, count : Int, began : Nat])
  /\ \A i \in 1 .. Len(c) : c[i].ns <= last /\ CallOk(c, i)

\* Times are given out in ascending order.
TimesOk(r, last) ==
  /\ r \in Seq([ns : Nat, floor : Nat]) /\ last \in Nat
  /\ \A a \in 1 .. Len(r) : r[a].ns <= last /\ r[a].floor < a
  /\ \A a, b \in 1 .. Len(r) : a < b => r[a].ns < r[b].ns

\* A thread that holds a time got it after the calls it counts as made.
ThreadOk(v, t) ==
  /\ v.floor[t] <= Len(v.returned) /\ v.began[t] <= Len(v.calls)
  /\ v.pc[t] = "cas" => v.expected[t] < v.ns[t]
  /\ v.pc[t] = "timed" =>
       v.ns[t] <= v.last /\ \A j \in 1 .. v.began[t] : v.calls[j].ns < v.ns[t]

ThreadsTyped(v) ==
  /\ v.pc \in [Threads -> {"idle", "load", "cas", "timed"}]
  /\ v.ns \in [Threads -> Nat] /\ v.expected \in [Threads -> Nat]
  /\ v.floor \in [Threads -> Nat] /\ v.began \in [Threads -> Nat]

ThreadsOk(v) == ThreadsTyped(v) /\ \A t \in Threads : ThreadOk(v, t)

CFields == {"last", "pc", "ns", "expected", "floor", "returned", "monitor", "calls", "began"}
CShape(v) == v = [x \in CFields |-> v[x]]

ClockOk(v) ==
  /\ CShape(v) /\ ThreadsOk(v) /\ TimesOk(v.returned, v.last)
  /\ CallsOk(v.calls, v.last) /\ MonitorOk(v.monitor, v.calls)

ClockInv == part = "clock" => ClockOk(job)

LEMMA Least ==
  ASSUME NEW S \in SUBSET Nat, S # {}
  PROVE  \E n \in S : \A m \in S : n <= m
<1> DEFINE R == {ss \in Nat \X Nat : ss[1] < ss[2]}
<1>1. IsWellFoundedOn(R, Nat)
  BY NatLessThanWellFounded DEF OpToRel
<1>2. \E x \in S : \A y \in S : ~ (<<y, x>> \in R)
  BY <1>1, WFMin, Zenon
<1>3. PICK x \in S : \A y \in S : ~ (<<y, x>> \in R)
  BY <1>2
<1>4. ASSUME NEW y \in S PROVE x <= y
  <2>1. ~ (<<y, x>> \in R)
    BY <1>3, <1>4
  <2>2. x \in Nat /\ y \in Nat
    OBVIOUS
  <2> QED BY <2>1, <2>2
<1> QED BY <1>4

(* Matches                                                                  *)

LEMMA MatchesCard ==
  ASSUME NEW ts \in Seq(Nat), NEW c, NEW L, L \subseteq Nat, Matches(ts, c, L)
  PROVE  Cardinality(L) = Len(ts)
<1> DEFINE n == Len(ts)
<1>1. PICK idx \in [1 .. n -> L] :
        /\ \A a, b \in 1 .. n : a < b => idx[a] < idx[b]
        /\ \A j \in L : \E k \in 1 .. n : idx[k] = j
  BY DEF Matches, MatchesBy
<1>2. n \in Nat
  BY LenProperties
<1> HIDE DEF n
<1>3. \A a, b \in 1 .. n : idx[a] = idx[b] => a = b
  <2> SUFFICES ASSUME NEW a \in 1 .. n, NEW b \in 1 .. n, a # b PROVE idx[a] # idx[b]
    OBVIOUS
  <2>1. idx[a] \in Nat /\ idx[b] \in Nat
    BY <1>1
  <2>2. a < b \/ b < a
    BY <1>2
  <2> QED BY <1>1, <2>1, <2>2
<1>4. idx \in Bijection(1 .. n, L)
  BY <1>1, <1>3 DEF Bijection, Injection, Surjection, IsInjective
<1>5. ExistsBijection(1 .. n, L)
  BY <1>4 DEF ExistsBijection
<1> QED BY <1>2, <1>5, FS_CountingElements DEF n

LEMMA MatchesSame ==
  ASSUME NEW ts, NEW c, NEW d, NEW L, Matches(ts, c, L), \A j \in L : d[j] = c[j]
  PROVE  Matches(ts, d, L)
<1>1. PICK idx \in [1 .. Len(ts) -> L] :
        /\ \A a, b \in 1 .. Len(ts) : a < b => idx[a] < idx[b]
        /\ \A j \in L : \E k \in 1 .. Len(ts) : idx[k] = j
        /\ \A k \in 1 .. Len(ts) : ts[k] = c[idx[k]].ns
  BY DEF Matches, MatchesBy
<1>2. \A k \in 1 .. Len(ts) : ts[k] = d[idx[k]].ns
  BY <1>1
<1>3. MatchesBy(idx, Len(ts), ts, d, L)
  BY <1>1, <1>2 DEF MatchesBy
<1> QED BY <1>3 DEF Matches

LEMMA MatchesAdd ==
  ASSUME NEW ts \in Seq(Nat), NEW c, NEW n \in Nat, NEW L, L \subseteq 1 .. n, Matches(ts, c, L),
         c[n + 1].ns \in Nat
  PROVE  Matches(Append(ts, c[n + 1].ns), c, L \cup {n + 1})
<1> DEFINE m == Len(ts)
           x == c[n + 1].ns
           t == Append(ts, x)
<1>1. PICK idx \in [1 .. m -> L] :
        /\ \A a, b \in 1 .. m : a < b => idx[a] < idx[b]
        /\ \A j \in L : \E k \in 1 .. m : idx[k] = j
        /\ \A k \in 1 .. m : ts[k] = c[idx[k]].ns
  BY DEF Matches, MatchesBy
<1>2. /\ m \in Nat /\ Len(t) = m + 1 /\ t[m + 1] = x /\ \A k \in 1 .. m : t[k] = ts[k]
  BY AppendProperties, LenProperties
<1> DEFINE next == [k \in 1 .. m + 1 |-> IF k = m + 1 THEN n + 1 ELSE idx[k]]
<1> HIDE DEF m, t, x
<1>3. \A k \in 1 .. m : next[k] = idx[k] /\ idx[k] \in L /\ idx[k] \in Nat /\ idx[k] < n + 1
  <2> SUFFICES ASSUME NEW k \in 1 .. m
               PROVE  next[k] = idx[k] /\ idx[k] \in L /\ idx[k] \in Nat /\ idx[k] < n + 1
    OBVIOUS
  <2>1. idx[k] \in L
    BY <1>1
  <2>2. idx[k] \in 1 .. n
    BY <2>1
  <2>3. next[k] = idx[k]
    BY <1>2
  <2> QED BY <2>1, <2>2, <2>3
<1>4. next[m + 1] = n + 1
  BY <1>2
<1>5. next \in [1 .. m + 1 -> L \cup {n + 1}]
  BY <1>1, <1>2
<1> HIDE DEF next
<1>6. \A a, b \in 1 .. m + 1 : a < b => next[a] < next[b]
  <2> SUFFICES ASSUME NEW a \in 1 .. m + 1, NEW b \in 1 .. m + 1, a < b PROVE next[a] < next[b]
    OBVIOUS
  <2>1. a \in 1 .. m
    BY <1>2
  <2>2. CASE b = m + 1
    BY <1>3, <1>4, <2>1, <2>2
  <2>3. CASE b \in 1 .. m
    BY <1>1, <1>3, <2>1, <2>3
  <2> QED BY <1>2, <2>2, <2>3
<1>7. ASSUME NEW j \in L \cup {n + 1} PROVE \E k \in 1 .. m + 1 : next[k] = j
  <2>1. CASE j = n + 1
    BY <1>2, <1>4, <2>1
  <2>2. CASE j \in L
    <3>1. PICK k \in 1 .. m : idx[k] = j
      BY <1>1, <2>2
    <3>2. k \in 1 .. m + 1
      BY <1>2
    <3> QED BY <1>3, <3>1, <3>2
  <2> QED BY <2>1, <2>2
<1>8. ASSUME NEW k \in 1 .. m + 1 PROVE t[k] = c[next[k]].ns
  <2>1. CASE k = m + 1
    BY <1>2, <1>4, <2>1 DEF x
  <2>2. CASE k \in 1 .. m
    BY <1>1, <1>2, <1>3, <2>2
  <2> QED BY <1>2, <2>1, <2>2
<1>9. Matches(t, c, L \cup {n + 1})
  <2>1. MatchesBy(next, m + 1, t, c, L \cup {n + 1})
    BY <1>5, <1>6, <1>7, <1>8, Zenon DEF MatchesBy
  <2> QED BY <1>2, <2>1 DEF Matches
<1> QED BY <1>9 DEF t, x

(* evict_old() drops the times that are too old, and no others.             *)

LEMMA EvictExact ==
  ASSUME NEW ts \in Seq(Nat), Sorted(ts), NEW K \in Int, NEW c, NEW L, L \subseteq Nat, Matches(ts, c, L),
         NEW fresh, fresh = {i \in DOMAIN ts : ts[i] >= K},
         NEW out, out = IF fresh = {} THEN <<>> ELSE SubSeq(ts, Min(fresh), Len(ts))
  PROVE  out \in Seq(Nat) /\ Sorted(out) /\ Matches(out, c, {j \in L : c[j].ns >= K})
<1> DEFINE n == Len(ts)
           M == {j \in L : c[j].ns >= K}
<1>1. PICK idx \in [1 .. n -> L] :
        /\ \A a, b \in 1 .. n : a < b => idx[a] < idx[b]
        /\ \A j \in L : \E k \in 1 .. n : idx[k] = j
        /\ \A k \in 1 .. n : ts[k] = c[idx[k]].ns
  BY DEF Matches, MatchesBy
<1>2. n \in Nat /\ DOMAIN ts = 1 .. n /\ \A k \in 1 .. n : ts[k] \in Nat
  BY LenProperties, ElementOfSeq
<1>3. \A a, b \in 1 .. n : a <= b => ts[a] <= ts[b]
  BY DEF Sorted
<1>4. fresh = {i \in 1 .. n : ts[i] >= K}
  BY <1>2
<1> HIDE DEF n, M
<1>5. CASE fresh = {}
  <2>1. M = {}
    <3> SUFFICES ASSUME NEW j \in L, c[j].ns >= K PROVE FALSE
      BY DEF M
    <3>1. PICK k \in 1 .. n : idx[k] = j
      BY <1>1
    <3>2. ts[k] = c[j].ns
      BY <1>1, <3>1
    <3> QED BY <1>4, <1>5, <3>2
  <2>2. out = <<>> /\ Len(<<>>) = 0
    BY <1>5, EmptyIsSeq
  <2>3. Matches(<<>>, c, {})
    <3>1. MatchesBy([k \in 1 .. 0 |-> 0], 0, <<>>, c, {})
      BY DEF MatchesBy
    <3> QED BY <2>2, <3>1 DEF Matches
  <2>4. Sorted(<<>>)
    BY <2>2 DEF Sorted
  <2>5. <<>> \in Seq(Nat)
    OBVIOUS
  <2>6. out \in Seq(Nat) /\ Sorted(out) /\ Matches(out, c, M)
    BY <2>1, <2>2, <2>3, <2>4, <2>5, Zenon
  <2> QED BY <2>6 DEF M
<1>6. CASE fresh # {}
  <2> DEFINE f == Min(fresh)
             l == n - f + 1
             next == [k \in 1 .. l |-> idx[f + k - 1]]
  <2>1. f \in fresh /\ \A i \in fresh : f <= i
    <3>1. fresh \in SUBSET Nat
      BY <1>2, <1>4
    <3>2. \E i \in fresh : \A k \in fresh : i <= k
      BY <1>6, <3>1, Least
    <3> QED BY <3>2 DEF Min
  <2> HIDE DEF f
  <2>2. f \in 1 .. n /\ ts[f] >= K /\ l \in Nat /\ l = n - f + 1
    BY <1>2, <1>4, <2>1, SMTT(60)
  <2>3. /\ out \in Seq(Nat) /\ Len(out) = l /\ \A k \in 1 .. l : out[k] = ts[f + k - 1]
    <3>0. out = SubSeq(ts, f, n)
      BY <1>6 DEF f, n
    <3>1. \A i \in f .. n : ts[i] \in Nat
      <4> SUFFICES ASSUME NEW i \in f .. n PROVE ts[i] \in Nat
        OBVIOUS
      <4>1. i \in 1 .. n
        BY <1>2, <2>2
      <4> QED BY <1>2, <4>1
    <3>2. /\ SubSeq(ts, f, n) \in Seq(Nat) /\ Len(SubSeq(ts, f, n)) = IF f <= n THEN n - f + 1 ELSE 0
          /\ \A i \in 1 .. n - f + 1 : SubSeq(ts, f, n)[i] = ts[f + i - 1]
      <4>1. f \in Int /\ n \in Int
        BY <1>2, <2>2
      <4> QED BY <3>1, <4>1, SubSeqProperties
    <3>3. f <= n
      BY <1>2, <2>2
    <3> QED BY <2>2, <3>0, <3>2, <3>3
  <2>4. \A k \in 1 .. l : next[k] = idx[f + k - 1]
    OBVIOUS
  <2>5. \A k \in 1 .. l : f + k - 1 \in 1 .. n /\ f <= f + k - 1
    BY <1>2, <2>2
  <2>6. next \in [1 .. l -> L]
    BY <1>1, <2>5
  <2>7. DOMAIN next = 1 .. l /\ next = [k \in 1 .. l |-> next[k]]
    OBVIOUS
  <2> HIDE DEF next, l
  <2>8. ASSUME NEW k \in 1 .. l PROVE next[k] \in M /\ out[k] = c[next[k]].ns
    <3>1. f + k - 1 \in 1 .. n /\ f <= f + k - 1
      BY <2>5
    <3>2. PICK i \in 1 .. n : i = f + k - 1 /\ f <= i
      BY <3>1
    <3>3. next[k] = idx[i] /\ out[k] = ts[i] /\ ts[i] = c[idx[i]].ns /\ idx[i] \in L
      BY <1>1, <2>3, <2>4, <3>2
    <3>4. ts[f] <= ts[i] /\ ts[f] \in Nat /\ ts[i] \in Nat
      BY <1>2, <1>3, <2>2, <3>2
    <3>5. ts[i] >= K
      BY <2>2, <3>4
    <3> QED BY <3>3, <3>5 DEF M
  <2>9. next \in [1 .. l -> M]
    BY <2>7, <2>8
  <2>10. \A a, b \in 1 .. l : a < b => next[a] < next[b]
    <3> SUFFICES ASSUME NEW a \in 1 .. l, NEW b \in 1 .. l, a < b PROVE next[a] < next[b]
      OBVIOUS
    <3>1. PICK i \in 1 .. n : i = f + a - 1
      BY <2>5
    <3>2. PICK k \in 1 .. n : k = f + b - 1
      BY <2>5
    <3>3. i < k
      BY <2>2, <3>1, <3>2
    <3> QED BY <1>1, <2>4, <3>1, <3>2, <3>3
  <2>11. ASSUME NEW j \in M PROVE \E k \in 1 .. l : next[k] = j
    <3>1. PICK i \in 1 .. n : idx[i] = j
      BY <1>1 DEF M
    <3>2. ts[i] >= K
      BY <1>1, <3>1 DEF M
    <3>3. f <= i
      BY <1>4, <2>1, <3>2
    <3>4. i - f + 1 \in 1 .. l /\ f + (i - f + 1) - 1 = i
      BY <1>2, <2>2, <3>3
    <3>5. next[i - f + 1] = idx[f + (i - f + 1) - 1]
      BY <2>4, <3>4
    <3> QED BY <3>1, <3>4, <3>5
  <2>12. Matches(out, c, M)
    <3>1. MatchesBy(next, l, out, c, M)
      BY <2>8, <2>9, <2>10, <2>11, Zenon DEF MatchesBy
    <3> QED BY <2>3, <3>1 DEF Matches
  <2>13. Sorted(out)
    <3> SUFFICES ASSUME NEW a \in 1 .. l, NEW b \in 1 .. l, a <= b PROVE out[a] <= out[b]
      BY <2>3 DEF Sorted
    <3>1. PICK i \in 1 .. n : i = f + a - 1
      BY <2>5
    <3>2. PICK k \in 1 .. n : k = f + b - 1
      BY <2>5
    <3>3. i <= k
      BY <2>2, <3>1, <3>2
    <3> QED BY <1>3, <2>3, <3>1, <3>2, <3>3
  <2> QED BY <2>3, <2>12, <2>13 DEF M
<1> QED BY <1>5, <1>6

(* What a further call changes                                              *)

LEMMA Earlier ==
  ASSUME NEW n \in Nat, NEW c, NEW d, \A i \in 1 .. n : d[i] = c[i], NEW i \in 0 .. n
  PROVE  Recorded(d, i) = Recorded(c, i) /\ Live(d, i) = Live(c, i)
<1>1. \A j \in 1 .. i : j \in 1 .. n /\ d[j] = c[j]
  OBVIOUS
<1>2. Recorded(d, i) = Recorded(c, i)
  BY <1>1 DEF Recorded
<1>3. \A j \in 1 .. i : \A k \in j .. i : k \in 1 .. i
  OBVIOUS
<1>4. ASSUME NEW j \in 1 .. i PROVE Old(d, j, i) <=> Old(c, j, i)
  BY <1>1, <1>3 DEF Old
<1>5. \A j \in Recorded(c, i) : j \in 1 .. i
  BY DEF Recorded
<1> QED BY <1>2, <1>4, <1>5 DEF Live

LEMMA RecordedNext ==
  ASSUME NEW n \in Nat, NEW c, NEW d, \A i \in 1 .. n : d[i] = c[i]
  PROVE  Recorded(d, n + 1) = Recorded(c, n) \cup
           (IF d[n + 1].op = "record" /\ d[n + 1].count >= 0 THEN {n + 1} ELSE {})
<1>1. 1 .. n + 1 = (1 .. n) \cup {n + 1}
  OBVIOUS
<1> QED BY <1>1 DEF Recorded

LEMMA OldNext ==
  ASSUME NEW n \in Nat, NEW c, NEW d, \A i \in 1 .. n : d[i] = c[i], NEW j \in 1 .. n
  PROVE  Old(d, j, n + 1) <=> \/ Old(c, j, n)
                              \/ d[n + 1].count >= 0 /\ d[j].ns < d[n + 1].ns - MonitorOpts.window_ns
<1>1. j .. n + 1 = (j .. n) \cup {n + 1} /\ \A k \in j .. n : k \in 1 .. n
  OBVIOUS
<1> QED BY <1>1 DEF Old

\* The call n + 1 if it is of an override, and the calls of S that are not older than K.
Newest(d, n) == IF d[n + 1].op = "record" THEN {n + 1} ELSE {}
NotOlder(d, S, K) == {j \in S : d[j].ns >= K}

LEMMA LiveNext ==
  ASSUME NEW n \in Nat, NEW c, NEW d, \A i \in 1 .. n : d[i] = c[i],
         \A i \in 1 .. n + 1 : d[i].ns \in Nat /\ d[i].count \in Int,
         NEW K, K = d[n + 1].ns - MonitorOpts.window_ns
  PROVE  /\ d[n + 1].count < 0 => Live(d, n + 1) = Live(c, n)
         /\ d[n + 1].count >= 0 => Live(d, n + 1) = NotOlder(d, Live(c, n) \cup Newest(d, n), K)
<1> DEFINE x == d[n + 1]
           new == Newest(d, n)
           W == MonitorOpts.window_ns
<1>1. W \in Int /\ x.ns \in Nat /\ x.count \in Int
  BY OversightAssumption
<1>2. Recorded(c, n) \subseteq 1 .. n
  BY DEF Recorded
<1>3. Recorded(d, n + 1) = Recorded(c, n) \cup (IF x.op = "record" /\ x.count >= 0 THEN {n + 1} ELSE {})
  BY RecordedNext
<1>4. \A j \in 1 .. n : Old(d, j, n + 1) <=> (Old(c, j, n) \/ (x.count >= 0 /\ d[j].ns < x.ns - W))
  BY OldNext
<1> HIDE DEF x, W
<1>5. Old(d, n + 1, n + 1) <=> (x.count >= 0 /\ x.ns < x.ns - W)
  <2>1. n + 1 .. n + 1 = {n + 1}
    OBVIOUS
  <2> QED BY <2>1 DEF Old, x, W
<1>6. CASE x.count < 0
  <2>1. Recorded(d, n + 1) = Recorded(c, n)
    <3>1. ~ (x.count >= 0)
      BY <1>1, <1>6
    <3>2. (IF x.op = "record" /\ x.count >= 0 THEN {n + 1} ELSE {}) = {}
      BY <3>1, Zenon
    <3> QED BY <1>3, <3>2
  <2>2. \A j \in Recorded(c, n) : Old(d, j, n + 1) <=> Old(c, j, n)
    BY <1>1, <1>2, <1>4, <1>6
  <2>3. Live(d, n + 1) = Live(c, n)
    BY <2>1, <2>2 DEF Live
  <2> QED BY <1>1, <1>6, <2>3 DEF x
<1>7. CASE x.count >= 0
  <2>1. Recorded(d, n + 1) = Recorded(c, n) \cup new
    BY <1>3, <1>7 DEF Newest, x
  <2>2. \A j \in 1 .. n : d[j].ns < x.ns - W <=> ~ (d[j].ns >= x.ns - W)
    BY <1>1
  <2>3. x.ns < x.ns - W <=> ~ (d[n + 1].ns >= x.ns - W)
    BY <1>1 DEF x
  <2>4. \A j \in Recorded(c, n) : Old(d, j, n + 1) <=> (Old(c, j, n) \/ ~ (d[j].ns >= x.ns - W))
    BY <1>2, <1>4, <1>7, <2>2
  <2>5. Old(d, n + 1, n + 1) <=> ~ (d[n + 1].ns >= x.ns - W)
    BY <1>5, <1>7, <2>3
  <2>6. new \subseteq {n + 1} /\ \A j \in Recorded(c, n) : j # n + 1
    BY <1>2 DEF Newest
  <2> HIDE DEF new
  <2>7. Live(d, n + 1) = {j \in Live(c, n) \cup new : d[j].ns >= x.ns - W}
    BY <2>1, <2>4, <2>5, <2>6 DEF Live
  <2>8. Live(d, n + 1) = NotOlder(d, Live(c, n) \cup new, x.ns - W)
    BY <2>7 DEF NotOlder
  <2> QED BY <1>1, <1>7, <2>8 DEF new, x, W
<1> QED BY <1>1, <1>6, <1>7 DEF x, W

\* Call n + 1 was counted, with the window's edge at K.
Counted(n, c, d, K) ==
  /\ n \in Nat /\ \A i \in 1 .. n : d[i] = c[i]
  /\ \A i \in 1 .. n + 1 : d[i].ns \in Nat /\ d[i].count \in Int
  /\ K = d[n + 1].ns - MonitorOpts.window_ns /\ d[n + 1].count >= 0

LiveAfter(n, c, d, K) == Live(d, n + 1) = NotOlder(d, Live(c, n) \cup Newest(d, n), K)

LEMMA LiveCounted ==
  ASSUME NEW n, NEW c, NEW d, NEW K, Counted(n, c, d, K)
  PROVE  LiveAfter(n, c, d, K)
BY LiveNext DEF Counted, LiveAfter

LEMMA EvictFacts ==
  ASSUME NEW m, NEW time, MShape(m)
  PROVE  LET e == EvictOld(m, time)
             ts == m.timestamps
             fresh == {i \in DOMAIN ts : ts[i] >= time - m.opts.window_ns} IN
         /\ MShape(e) /\ e.opts = m.opts /\ e.alerts = m.alerts
         /\ e.timestamps = IF fresh = {} THEN <<>> ELSE SubSeq(ts, Min(fresh), Len(ts))
<1> DEFINE ts == m.timestamps
           fresh == {i \in DOMAIN ts : ts[i] >= time - m.opts.window_ns}
           out == IF fresh = {} THEN <<>> ELSE SubSeq(ts, Min(fresh), Len(ts))
           e == [m EXCEPT !.timestamps = out]
<1>1. EvictOld(m, time) = e
  BY DEF EvictOld
<1> HIDE DEF out
<1>2. MShape(e) /\ e.opts = m.opts /\ e.alerts = m.alerts /\ e.timestamps = out
  BY DEF MShape, MFields
<1> HIDE DEF e
<1> QED BY <1>1, <1>2 DEF out

LEMMA AlertingNext ==
  ASSUME NEW T, NEW c \in Seq(T), NEW x, NEW d, d = Append(c, x)
  PROVE  LET n == Len(c)
             counts == x.op = "record" /\ x.count >= 0 /\ x.count >= MonitorOpts.alert_threshold IN
         Cardinality(Alerting(d)) = Cardinality(Alerting(c)) + (IF counts THEN 1 ELSE 0)
         /\ Cardinality(Alerting(c)) \in Nat
<1> DEFINE n == Len(c)
           counts == x.op = "record" /\ x.count >= 0 /\ x.count >= MonitorOpts.alert_threshold
<1>1. /\ n \in Nat /\ Len(d) = n + 1 /\ d[n + 1] = x /\ \A i \in 1 .. n : d[i] = c[i]
  <2> DEFINE S == T \cup {x}
  <2>1. c \in Seq(S) /\ x \in S
    <3>1. /\ Len(c) \in Nat /\ c = [i \in 1 .. Len(c) |-> c[i]] /\ \A i \in 1 .. Len(c) : c[i] \in T
      BY LenProperties, ElementOfSeq
    <3>2. [i \in 1 .. Len(c) |-> c[i]] \in Seq(S)
      BY <3>1, IsASeq
    <3> QED BY <3>1, <3>2
  <2> HIDE DEF S
  <2> QED BY <2>1, AppendProperties, LenProperties
<1> HIDE DEF n
<1>2. Recorded(c, n) \subseteq 1 .. n
  BY DEF Recorded
<1>3. Recorded(d, n + 1) = Recorded(c, n) \cup (IF x.op = "record" /\ x.count >= 0 THEN {n + 1} ELSE {})
  <2>1. Recorded(d, n + 1) = Recorded(c, n) \cup
          (IF d[n + 1].op = "record" /\ d[n + 1].count >= 0 THEN {n + 1} ELSE {})
    BY <1>1, RecordedNext
  <2> QED BY <1>1, <2>1
<1>4. /\ Alerting(c) = {j \in Recorded(c, n) : c[j].count >= MonitorOpts.alert_threshold}
      /\ Alerting(d) = {j \in Recorded(d, n + 1) : d[j].count >= MonitorOpts.alert_threshold}
  BY <1>1 DEF Alerting, n
<1>5. Alerting(c) \subseteq 1 .. n /\ n + 1 \notin Alerting(c)
  BY <1>1, <1>2, <1>4
<1>6. Alerting(d) = Alerting(c) \cup (IF counts THEN {n + 1} ELSE {})
  BY <1>1, <1>2, <1>3, <1>4
<1>7. IsFiniteSet(Alerting(c)) /\ Cardinality(Alerting(c)) \in Nat
  <2>1. IsFiniteSet(1 .. n)
    BY <1>1, FS_Interval
  <2> QED BY <1>5, <2>1, FS_Subset, FS_CardinalityType
<1>8. Cardinality(Alerting(c) \cup {n + 1}) = Cardinality(Alerting(c)) + 1
  BY <1>5, <1>7, FS_AddElement
<1> HIDE DEF counts
<1>9. CASE counts
  <2>1. Alerting(d) = Alerting(c) \cup {n + 1}
    BY <1>6, <1>9
  <2> QED BY <1>7, <1>8, <1>9, <2>1 DEF counts
<1>10. CASE ~ counts
  <2>1. Alerting(d) = Alerting(c)
    BY <1>6, <1>10
  <2> QED BY <1>7, <1>10, <2>1 DEF counts
<1> QED BY <1>9, <1>10

(* One call of the monitor, at a time later than those of the calls that    *)
(* had been made when its thread took it.                                   *)

CallTypes == [op : {"record", "count"}, ns : Nat, count : Int, began : Nat]

LEMMA AppendCall ==
  ASSUME NEW c \in Seq(CallTypes), NEW x \in CallTypes, NEW d, d = Append(c, x)
  PROVE  /\ Len(c) \in Nat /\ d \in Seq(CallTypes) /\ Len(d) = Len(c) + 1 /\ d[Len(c) + 1] = x
         /\ \A i \in 1 .. Len(c) : d[i] = c[i] /\ c[i] \in CallTypes
BY AppendProperties, LenProperties, ElementOfSeq

\* The sets of live calls are those of their times.
LEMMA LiveIn ==
  ASSUME NEW c, NEW n \in Nat
  PROVE  Live(c, n) \subseteq 1 .. n /\ Live(c, n) \subseteq Nat
BY DEF Live, Recorded

CallAdded(d, c, op, time, count, began) ==
  d = Append(c, [op |-> op, ns |-> time, count |-> count, began |-> began])

LEMMA MonitorCall ==
  ASSUME NEW m, NEW c, NEW last \in Nat, CallsOk(c, last), MonitorOk(m, c),
         NEW op, NEW time \in Nat, NEW began \in Nat, time <= last, began <= Len(c),
         \A j \in 1 .. began : c[j].ns < time,
         NEW r, \/ op = "record" /\ r = RecordOverride(m, time)
                \/ op = "count" /\ r = CurrentCount(m, time),
         NEW d, CallAdded(d, c, op, time, r.count, began)
  PROVE  CallsOk(d, last) /\ MonitorOk(r.m, d)
<1> DEFINE n == Len(c)
           x == [op |-> op, ns |-> time, count |-> r.count, began |-> began]
           T == m.timestamps
           W == MonitorOpts.window_ns
           K == time - W
<1>1. /\ c \in Seq(CallTypes) /\ n \in Nat
      /\ \A i \in 1 .. n : c[i].ns <= last /\ CallOk(c, i) /\ c[i] \in CallTypes
  BY LenProperties, ElementOfSeq DEF CallsOk, CallTypes
<1>2. /\ MShape(m) /\ m.opts = MonitorOpts /\ T \in Seq(Nat) /\ Sorted(T)
      /\ Matches(T, c, Live(c, n)) /\ m.alerts \in Seq(Nat) /\ Len(m.alerts) = Cardinality(Alerting(c))
  BY DEF MonitorOk
<1>3. W \in Int /\ K \in Int /\ MonitorOpts.alert_threshold \in Int
  BY OversightAssumption
<1>4. op \in {"record", "count"} /\ x.op = op /\ x.ns = time /\ x.count = r.count /\ x.began = began
  OBVIOUS
<1> HIDE DEF n, W, K, x
(* What remains once the answer of the monitor is known.                    *)
<1>5. ASSUME r.count \in Int, MShape(r.m), r.m.opts = MonitorOpts,
             r.m.timestamps \in Seq(Nat), Sorted(r.m.timestamps),
             Matches(r.m.timestamps, d, Live(d, n + 1)), CallOk(d, n + 1),
             r.m.alerts \in Seq(Nat),
             Len(r.m.alerts) = Len(m.alerts) +
               (IF op = "record" /\ r.count >= 0 /\ r.count >= MonitorOpts.alert_threshold THEN 1 ELSE 0)
      PROVE  CallsOk(d, last) /\ MonitorOk(r.m, d)
  <2>1. x \in CallTypes
    BY <1>4, <1>5 DEF CallTypes, x
  <2>2. /\ d \in Seq(CallTypes) /\ Len(d) = n + 1 /\ d[n + 1] = x
        /\ \A i \in 1 .. n : d[i] = c[i]
    BY <1>1, <2>1, AppendCall DEF CallAdded, n, x
  <2>3. ASSUME NEW i \in 1 .. n PROVE CallOk(d, i)
    <3>1. Recorded(d, i) = Recorded(c, i) /\ Live(d, i) = Live(c, i)
      <4>1. i \in 0 .. n
        BY <1>1
      <4>2. n \in Nat /\ \A k \in 1 .. n : d[k] = c[k]
        BY <1>1, <2>2
      <4> QED BY <4>1, <4>2, Earlier
    <3>2. d[i] = c[i] /\ CallOk(c, i) /\ \A j \in Recorded(c, i) : d[j] = c[j]
      BY <1>1, <2>2 DEF Recorded
    <3> QED BY <3>1, <3>2 DEF CallOk
  <2>4. \A i \in 1 .. n + 1 : d[i].ns <= last /\ CallOk(d, i)
    <3>1. d[n + 1].ns <= last
      BY <1>4, <2>2
    <3>2. \A i \in 1 .. n + 1 : i \in 1 .. n \/ i = n + 1
      BY <1>1
    <3> QED BY <1>1, <1>5, <2>2, <2>3, <3>1, <3>2
  <2>5. CallsOk(d, last)
    BY <2>2, <2>4 DEF CallsOk, CallTypes
  <2>6. Cardinality(Alerting(d)) = Cardinality(Alerting(c)) +
          (IF op = "record" /\ r.count >= 0 /\ r.count >= MonitorOpts.alert_threshold THEN 1 ELSE 0)
    <3>1. d = Append(c, x)
      BY DEF CallAdded, x
    <3>2. Cardinality(Alerting(d)) = Cardinality(Alerting(c)) +
          (IF x.op = "record" /\ x.count >= 0 /\ x.count >= MonitorOpts.alert_threshold THEN 1 ELSE 0)
      BY <1>1, <3>1, AlertingNext
    <3> QED BY <1>4, <3>2
  <2>7. MonitorOk(r.m, d)
    BY <1>2, <1>5, <2>2, <2>6 DEF MonitorOk
  <2> QED BY <2>5, <2>7
<1>6. ASSUME r.count \in Int
      PROVE  /\ Len(d) = n + 1 /\ d[n + 1] = x /\ \A i \in 1 .. n : d[i] = c[i]
             /\ \A i \in 1 .. n + 1 : d[i].ns \in Nat /\ d[i].count \in Int
  <2>1. x \in CallTypes
    BY <1>4, <1>6 DEF CallTypes, x
  <2>2. /\ d \in Seq(CallTypes) /\ Len(d) = n + 1 /\ d[n + 1] = x
        /\ \A i \in 1 .. n : d[i] = c[i]
    BY <1>1, <2>1, AppendCall DEF CallAdded, n, x
  <2>3. \A i \in 1 .. n + 1 : d[i] \in CallTypes
    BY <2>2, ElementOfSeq
  <2> QED BY <2>2, <2>3 DEF CallTypes
<1>7. Live(c, n) \subseteq 1 .. n /\ Live(c, n) \subseteq Nat
  BY <1>1, LiveIn
<1>12. ASSUME r.count \in Nat
       PROVE  Live(d, n + 1) = NotOlder(d, Live(c, n) \cup Newest(d, n), K) /\ d[n + 1].op = op
  <2>1. /\ Len(d) = n + 1 /\ d[n + 1] = x /\ \A i \in 1 .. n : d[i] = c[i]
        /\ \A i \in 1 .. n + 1 : d[i].ns \in Nat /\ d[i].count \in Int
    <3>1. r.count \in Int
      BY <1>12
    <3> QED BY <1>6, <3>1
  <2>2. d[n + 1].count >= 0 /\ d[n + 1].op = op /\ K = d[n + 1].ns - MonitorOpts.window_ns
    BY <1>4, <1>12, <2>1 DEF K, W
  <2> HIDE DEF x
  <2>3. Live(d, n + 1) = NotOlder(d, Live(c, n) \cup Newest(d, n), K)
    <3>1. /\ n \in Nat /\ \A i \in 1 .. n : d[i] = c[i]
          /\ \A i \in 1 .. n + 1 : d[i].ns \in Nat /\ d[i].count \in Int
      BY <1>1, <2>1
    <3>2. Counted(n, c, d, K)
      BY <2>2, <3>1, Zenon DEF Counted
    <3>3. LiveAfter(n, c, d, K)
      BY <3>2, LiveCounted, Zenon
    <3> QED BY <3>3, Zenon DEF LiveAfter
  <2> QED BY <2>2, <2>3
(* Times that are too old are dropped, and this call may have been added.   *)
<1>8. ASSUME NEW e, MShape(e), e.opts = MonitorOpts, e.timestamps \in Seq(Nat), Sorted(e.timestamps),
             NEW L, L = Live(c, n) \cup (IF op = "record" THEN {n + 1} ELSE {}),
             Matches(e.timestamps, d, L),
             NEW out, out = EvictOld(e, time), r.count = Len(out.timestamps)
      PROVE  /\ MShape(out) /\ out.opts = MonitorOpts /\ out.alerts = e.alerts
             /\ out.timestamps \in Seq(Nat) /\ Sorted(out.timestamps)
             /\ r.count \in Nat
             /\ Matches(out.timestamps, d, Live(d, n + 1)) /\ CallOk(d, n + 1)
  <2> DEFINE ts == e.timestamps
             fresh == {i \in DOMAIN ts : ts[i] >= K}
  <2>1. /\ MShape(out) /\ out.opts = MonitorOpts /\ out.alerts = e.alerts
        /\ out.timestamps = IF fresh = {} THEN <<>> ELSE SubSeq(ts, Min(fresh), Len(ts))
    BY <1>8, EvictFacts DEF K, W
  <2>2. L \subseteq Nat
    BY <1>1, <1>7, <1>8
  <2> HIDE DEF ts, fresh
  <2>3. /\ out.timestamps \in Seq(Nat) /\ Sorted(out.timestamps)
        /\ Matches(out.timestamps, d, {j \in L : d[j].ns >= K})
    <3>1. fresh = {i \in DOMAIN ts : ts[i] >= K}
      BY DEF fresh
    <3>2. ts \in Seq(Nat) /\ Sorted(ts) /\ Matches(ts, d, L)
      BY <1>8 DEF ts
    <3>3. K \in Int /\ out.timestamps = IF fresh = {} THEN <<>> ELSE SubSeq(ts, Min(fresh), Len(ts))
      BY <1>3, <2>1
    <3> QED BY <2>2, <3>1, <3>2, <3>3, EvictExact, Zenon
  <2>4. r.count \in Nat
    BY <1>8, <2>3, LenProperties
  <2>5. Live(d, n + 1) = {j \in L : d[j].ns >= K}
    BY <1>8, <1>12, <2>4 DEF NotOlder, Newest
  <2>6. Cardinality(Live(d, n + 1)) = r.count
    <3>1. Live(d, n + 1) \subseteq Nat
      BY <2>2, <2>5
    <3> QED BY <1>8, <2>3, <2>5, <3>1, MatchesCard
  <2>7. d[n + 1].count = r.count
    BY <1>4, <1>6, <2>4
  <2>8. CallOk(d, n + 1)
    <3>1. d[n + 1].count # -1 /\ d[n + 1].count = Cardinality(Live(d, n + 1))
      <4>1. r.count # -1
        BY <2>4
      <4> QED BY <2>6, <2>7, <4>1
    <3> QED BY <3>1, Zenon DEF CallOk
  <2> QED BY <2>1, <2>3, <2>4, <2>5, <2>8
<1>9. CASE op = "count"
  <2> DEFINE out == EvictOld(m, time)
  <2>1. r.count = Len(out.timestamps) /\ r.m = out
    BY <1>9 DEF CurrentCount
  <2> HIDE DEF out
  <2>2. \A i \in 1 .. n : d[i] = c[i]
    BY <1>1, AppendAny DEF CallAdded, n, IsSeq
  <2>3. Live(c, n) \cup (IF op = "record" THEN {n + 1} ELSE {}) = Live(c, n)
    BY <1>9
  <2>4. Matches(T, d, Live(c, n))
    BY <1>2, <1>7, <2>2, MatchesSame
  <2>5. /\ MShape(out) /\ out.opts = MonitorOpts /\ out.alerts = m.alerts
        /\ out.timestamps \in Seq(Nat) /\ Sorted(out.timestamps) /\ r.count \in Nat
        /\ Matches(out.timestamps, d, Live(d, n + 1)) /\ CallOk(d, n + 1)
    BY <1>2, <1>8, <2>1, <2>3, <2>4 DEF out
  <2>6. Len(r.m.alerts) = Len(m.alerts) + 0
    BY <1>2, <2>1, <2>5, LenProperties
  <2> QED BY <1>2, <1>5, <1>9, <2>1, <2>5, <2>6
<1>10. CASE op = "record" /\ T # <<>> /\ time < Last(T)
  <2>1. r.count = -1 /\ r.m = m /\ r.count \in Int /\ ~ (r.count >= 0)
    BY <1>10 DEF RecordOverride
  <2>2. /\ Len(d) = n + 1 /\ d[n + 1] = x /\ \A i \in 1 .. n : d[i] = c[i]
        /\ \A i \in 1 .. n + 1 : d[i].ns \in Nat /\ d[i].count \in Int
    BY <1>6, <2>1
  <2>3. Live(d, n + 1) = Live(c, n) /\ Recorded(d, n + 1) = Recorded(c, n)
    <3>1. d[n + 1].count < 0 /\ ~ (d[n + 1].count >= 0)
      BY <1>4, <2>1, <2>2
    <3>2. Live(d, n + 1) = Live(c, n)
      <4>1. n \in Nat /\ d[n + 1].count < 0
        BY <1>1, <3>1
      <4> DEFINE L == d[n + 1].ns - MonitorOpts.window_ns
      <4>2. L = d[n + 1].ns - MonitorOpts.window_ns
        OBVIOUS
      <4> HIDE DEF L
      <4> QED BY <2>2, <4>1, <4>2, LiveNext
    <3>3. Recorded(d, n + 1) = Recorded(c, n) \cup
            (IF d[n + 1].op = "record" /\ d[n + 1].count >= 0 THEN {n + 1} ELSE {})
      BY <1>1, <2>2, RecordedNext
    <3> QED BY <3>1, <3>2, <3>3
  <2>4. Matches(T, d, Live(d, n + 1))
    BY <1>2, <1>7, <2>2, <2>3, MatchesSame
  <2>5. PICK j \in Live(c, n) : c[j].ns = Last(T)
    <3>1. Len(T) \in Nat /\ Len(T) # 0 /\ Last(T) = T[Len(T)]
      BY <1>2, <1>10, EmptySeq, LenProperties DEF Last
    <3>2. PICK idx : MatchesBy(idx, Len(T), T, c, Live(c, n))
      BY <1>2 DEF Matches
    <3>3. Len(T) \in 1 .. Len(T)
      BY <3>1
    <3>4. idx[Len(T)] \in Live(c, n) /\ T[Len(T)] = c[idx[Len(T)]].ns
      BY <3>2, <3>3 DEF MatchesBy
    <3> QED BY <3>1, <3>4
  <2>6. j \in 1 .. n /\ c[j].ns \in Nat /\ c[j].ns > time
    BY <1>1, <1>7, <1>10, <2>5 DEF CallTypes
  <2>7. j > began
    <3>1. ~ (j \in 1 .. began)
      BY <2>6
    <3> QED BY <2>6, <3>1
  <2>8. CallOk(d, n + 1)
    <3>1. j \in Recorded(d, n + 1)
      BY <2>3, <2>5 DEF Live
    <3>2. d[j] = c[j] /\ d[n + 1].began = began /\ d[n + 1].ns = time /\ d[n + 1].count = -1
      BY <1>4, <2>1, <2>2, <2>6
    <3> QED BY <2>6, <2>7, <3>1, <3>2 DEF CallOk
  <2>9. Len(m.alerts) = Len(m.alerts) + 0
    BY <1>2, LenProperties
  <2> QED BY <1>2, <1>5, <2>1, <2>4, <2>8, <2>9
<1>11. CASE op = "record" /\ ~ (T # <<>> /\ time < Last(T))
  <2> DEFINE T1 == Append(T, time)
             e == [m EXCEPT !.timestamps = T1]
             out == EvictOld(e, time)
             count == Len(out.timestamps)
             alerts == Append(out.alerts, count)
             halts == IF m.opts.auto_halt THEN Append(out.halts, "SAFETY_THRESHOLD") ELSE out.halts
             loud == [out EXCEPT !.alerts = alerts, !.halts = halts]
  <2>1. /\ r.count = count
        /\ r.m = IF count < m.opts.alert_threshold THEN out ELSE loud
    BY <1>11 DEF RecordOverride
  <2>2. T1 \in Seq(Nat) /\ Len(T1) = Len(T) + 1 /\ T1[Len(T) + 1] = time /\ Len(T) \in Nat
        /\ \A i \in 1 .. Len(T) : T1[i] = T[i] /\ T[i] \in Nat
    <3>1. T1 \in Seq(Nat) /\ Len(T1) = Len(T) + 1 /\ T1[Len(T) + 1] = time
          /\ \A i \in 1 .. Len(T) : T1[i] = T[i]
      BY <1>2, AppendProperties
    <3>2. Len(T) \in Nat /\ \A i \in 1 .. Len(T) : T[i] \in Nat
      BY <1>2, LenProperties, ElementOfSeq
    <3> QED BY <3>1, <3>2
  <2> HIDE DEF T1, halts
  <2>3. MShape(e) /\ e.opts = MonitorOpts /\ e.alerts = m.alerts /\ e.timestamps = T1
    BY <1>2 DEF MShape, MFields
  <2> HIDE DEF e
  <2>4. Sorted(T1)
    <3>1. \A i \in 1 .. Len(T) : T[i] <= time
      <4> SUFFICES ASSUME NEW i \in 1 .. Len(T) PROVE T[i] <= time
        OBVIOUS
      <4>1. T # <<>> /\ Last(T) = T[Len(T)] /\ Len(T) \in 1 .. Len(T) /\ Last(T) \in Nat
        <5>1. Len(T) \in 1 .. Len(T)
          BY <2>2
        <5>2. T # <<>> /\ Last(T) = T[Len(T)]
          BY <1>2, <5>1, EmptyIsSeq DEF Last
        <5> QED BY <2>2, <5>1, <5>2
      <4>2. T[i] <= T[Len(T)]
        <5>1. i <= Len(T)
          BY <2>2
        <5> QED BY <1>2, <4>1, <5>1 DEF Sorted
      <4>3. ~ (time < Last(T))
        BY <1>11, <4>1
      <4>4. T[i] \in Nat /\ T[Len(T)] \in Nat /\ T[Len(T)] <= time
        BY <2>2, <4>1, <4>3, SMTT(60)
      <4> QED BY <4>2, <4>4
    <3> SUFFICES ASSUME NEW a \in 1 .. Len(T) + 1, NEW b \in 1 .. Len(T) + 1, a <= b PROVE T1[a] <= T1[b]
      BY <2>2 DEF Sorted
    <3>2. CASE b \in 1 .. Len(T)
      <4>1. a \in 1 .. Len(T)
        BY <2>2, <3>2
      <4> QED BY <1>2, <2>2, <3>2, <4>1 DEF Sorted
    <3>3. CASE b = Len(T) + 1 /\ a \in 1 .. Len(T)
      BY <2>2, <3>1, <3>3
    <3>4. CASE b = Len(T) + 1 /\ a = Len(T) + 1
      BY <2>2, <3>4
    <3>5. b \in 1 .. Len(T) \/ (b = Len(T) + 1 /\ a \in 1 .. Len(T)) \/ (b = Len(T) + 1 /\ a = Len(T) + 1)
      BY <2>2
    <3> QED BY <3>2, <3>3, <3>4, <3>5
  <2>5. d[n + 1] = x /\ \A i \in 1 .. n : d[i] = c[i]
    <3>1. d = Append(c, x)
      BY DEF CallAdded, x
    <3> QED BY <1>1, <3>1, AppendAny DEF n, IsSeq
  <2>6. Matches(T1, d, Live(c, n) \cup {n + 1})
    <3>1. Matches(T, d, Live(c, n))
      BY <1>2, <1>7, <2>5, MatchesSame
    <3>2. d[n + 1].ns = time
      BY <1>4, <2>5
    <3>3. Matches(Append(T, d[n + 1].ns), d, Live(c, n) \cup {n + 1})
      BY <1>1, <1>2, <1>7, <3>1, <3>2, MatchesAdd
    <3> QED BY <3>2, <3>3 DEF T1
  <2>7. Live(c, n) \cup (IF op = "record" THEN {n + 1} ELSE {}) = Live(c, n) \cup {n + 1}
    BY <1>11
  <2> HIDE DEF out
  <2>8. /\ MShape(out) /\ out.opts = MonitorOpts /\ out.alerts = m.alerts
        /\ out.timestamps \in Seq(Nat) /\ Sorted(out.timestamps) /\ r.count \in Nat
        /\ Matches(out.timestamps, d, Live(d, n + 1)) /\ CallOk(d, n + 1)
    BY <1>8, <2>1, <2>2, <2>3, <2>4, <2>6, <2>7, ZenonT(60) DEF out
  <2>9. alerts \in Seq(Nat) /\ Len(alerts) = Len(m.alerts) + 1 /\ Len(m.alerts) \in Nat
    BY <1>2, <2>1, <2>8, AppendProperties, LenProperties
  <2> HIDE DEF alerts, count
  <2>10. /\ MShape(loud) /\ loud.opts = out.opts /\ loud.timestamps = out.timestamps
         /\ loud.alerts = alerts
    BY <2>8 DEF MShape, MFields
  <2> HIDE DEF loud
  <2>11. CASE count < m.opts.alert_threshold
    <3>1. r.m = out /\ ~ (r.count >= MonitorOpts.alert_threshold)
      BY <1>2, <1>3, <2>1, <2>8, <2>11
    <3>2. Len(r.m.alerts) = Len(m.alerts) + 0
      BY <2>8, <2>9, <3>1
    <3> QED BY <1>2, <1>5, <2>8, <3>1, <3>2
  <2>12. CASE ~ (count < m.opts.alert_threshold)
    <3>1. r.m = loud /\ r.count >= MonitorOpts.alert_threshold /\ r.count >= 0
      BY <1>2, <1>3, <2>1, <2>8, <2>12
    <3>2. r.count \in Int /\ Len(r.m.alerts) = Len(m.alerts) + 1
      BY <2>8, <2>9, <2>10, <3>1
    <3>3. /\ MShape(r.m) /\ r.m.opts = MonitorOpts /\ r.m.timestamps \in Seq(Nat) /\ Sorted(r.m.timestamps)
          /\ Matches(r.m.timestamps, d, Live(d, n + 1)) /\ CallOk(d, n + 1) /\ r.m.alerts \in Seq(Nat)
      BY <2>8, <2>9, <2>10, <3>1, Zenon
    <3> QED BY <1>5, <1>11, <3>1, <3>2, <3>3
  <2> QED BY <2>11, <2>12
<1> QED BY <1>4, <1>9, <1>10, <1>11

(* The steps of now_ns() and of its callers                                 *)

LEMMA ClockStarts == Init => ClockInv
<1> SUFFICES ASSUME Init, part = "clock" PROVE ClockOk(job)
  BY DEF ClockInv
<1>1. job = ClockInit
  BY DEF Init, InitLog, InitReport
<1> DEFINE v == ClockInit
           m == NewMonitor(MonitorOpts)
<1>2. /\ CShape(v) /\ v.last = 0 /\ v.returned = <<>> /\ v.calls = <<>> /\ v.monitor = m
      /\ v.pc = [t \in Threads |-> "idle"] /\ v.ns = [t \in Threads |-> 0]
      /\ v.expected = [t \in Threads |-> 0] /\ v.floor = [t \in Threads |-> 0]
      /\ v.began = [t \in Threads |-> 0]
  BY DEF ClockInit, CShape, CFields
<1>3. MShape(m) /\ m.opts = MonitorOpts /\ m.timestamps = <<>> /\ m.alerts = <<>>
  BY DEF NewMonitor, MShape, MFields
<1> HIDE DEF v, m
<1>4. \A t \in Threads :
        v.pc[t] = "idle" /\ v.ns[t] = 0 /\ v.expected[t] = 0 /\ v.floor[t] = 0 /\ v.began[t] = 0
  BY <1>2
<1>5. Len(<<>>) = 0 /\ \A S : <<>> \in Seq(S)
  BY EmptySeq
<1>6. ThreadsOk(v)
  BY <1>2, <1>4, <1>5 DEF ThreadsOk, ThreadsTyped, ThreadOk
<1>7. TimesOk(v.returned, v.last)
  BY <1>2, <1>5 DEF TimesOk
<1>8. CallsOk(v.calls, v.last)
  BY <1>2, <1>5 DEF CallsOk
<1>9. Recorded(<<>>, 0) = {}
  BY DEF Recorded
<1>10. Live(<<>>, 0) = {} /\ Alerting(<<>>) = {}
  BY <1>5, <1>9 DEF Live, Alerting
<1>11. Matches(<<>>, <<>>, {})
  <2>1. MatchesBy([k \in 1 .. 0 |-> k], 0, <<>>, <<>>, {})
    BY DEF MatchesBy
  <2> QED BY <1>5, <2>1, Zenon DEF Matches
<1>12. Sorted(<<>>)
  BY <1>5 DEF Sorted
<1>13. MonitorOk(v.monitor, v.calls)
  BY <1>2, <1>3, <1>5, <1>10, <1>11, <1>12, FS_EmptySet DEF MonitorOk
<1> QED BY <1>1, <1>2, <1>6, <1>7, <1>8, <1>13 DEF ClockOk, v

\* What the steps make of the state.
ReadUpdate(u, v, t, ns) ==
  u = [v EXCEPT !.pc[t] = "load", !.ns[t] = ns, !.floor[t] = Len(v.returned),
                !.began[t] = Len(v.calls)]
LoadUpdate(u, v, t) ==
  u = [v EXCEPT !.pc[t] = "cas", !.expected[t] = v.last,
                !.ns[t] = IF @ <= v.last THEN v.last + 1 ELSE @]
FailUpdate(u, v, t) ==
  u = [v EXCEPT !.expected[t] = v.last, !.ns[t] = IF @ <= v.last THEN v.last + 1 ELSE @]
TakeUpdate(u, v, t) ==
  u = [v EXCEPT !.last = v.ns[t], !.pc[t] = "timed",
                !.returned = Append(@, [ns |-> v.ns[t], floor |-> v.floor[t]])]

\* A step of thread t that leaves the others' variables, takes no time back
\* and keeps what was returned and called.
OthersKept(v, u, t) ==
  \A q \in Threads : q # t => /\ u.pc[q] = v.pc[q] /\ u.ns[q] = v.ns[q]
                             /\ u.expected[q] = v.expected[q]
                             /\ u.floor[q] = v.floor[q] /\ u.began[q] = v.began[q]
Onward(v, u) ==
  /\ v.last \in Nat /\ u.last \in Nat /\ v.last <= u.last
  /\ Len(v.returned) \in Nat /\ Len(u.returned) \in Nat /\ Len(v.returned) <= Len(u.returned)
  /\ Len(v.calls) \in Nat /\ Len(u.calls) \in Nat /\ Len(v.calls) <= Len(u.calls)
  /\ \A j \in 1 .. Len(v.calls) : u.calls[j] = v.calls[j]

LEMMA OneThread ==
  ASSUME NEW v, NEW u, NEW t \in Threads, ThreadsOk(v), ThreadsTyped(u), ThreadOk(u, t),
         OthersKept(v, u, t), Onward(v, u)
  PROVE  ThreadsOk(u)
<1> SUFFICES ASSUME NEW q \in Threads, q # t PROVE ThreadOk(u, q)
  BY DEF ThreadsOk
<1>1. ThreadOk(v, q) /\ v.floor[q] \in Nat /\ v.began[q] \in Nat /\ v.ns[q] \in Nat
  BY DEF ThreadsOk, ThreadsTyped
<1>2. v.began[q] <= Len(v.calls) /\ Len(v.calls) \in Nat
  BY <1>1 DEF ThreadOk, Onward
<1>3. \A j \in 1 .. v.began[q] : u.calls[j] = v.calls[j]
  <2>1. \A j \in 1 .. v.began[q] : j \in 1 .. Len(v.calls)
    BY <1>1, <1>2
  <2> QED BY <2>1 DEF Onward
<1>4. v.floor[q] <= Len(u.returned) /\ v.began[q] <= Len(u.calls)
  BY <1>1 DEF ThreadOk, Onward
<1>5. v.pc[q] = "timed" => v.ns[q] <= u.last
  BY <1>1 DEF ThreadOk, Onward
<1>6. /\ u.pc[q] = v.pc[q] /\ u.ns[q] = v.ns[q] /\ u.expected[q] = v.expected[q]
      /\ u.floor[q] = v.floor[q] /\ u.began[q] = v.began[q]
  BY DEF OthersKept
<1> QED BY <1>1, <1>3, <1>4, <1>5, <1>6 DEF ThreadOk

LEMMA ReadKeeps ==
  ASSUME NEW v, ClockOk(v), NEW t \in Threads, NEW ns \in Nat, NEW u,
         ReadUpdate(u, v, t, ns)
  PROVE  ClockOk(u)
<1>1. /\ CShape(u) /\ u.last = v.last /\ u.returned = v.returned /\ u.calls = v.calls
      /\ u.monitor = v.monitor /\ u.expected = v.expected
      /\ u.pc = [v.pc EXCEPT ![t] = "load"] /\ u.ns = [v.ns EXCEPT ![t] = ns]
      /\ u.floor = [v.floor EXCEPT ![t] = Len(v.returned)]
      /\ u.began = [v.began EXCEPT ![t] = Len(v.calls)]
  BY DEF ClockOk, CShape, CFields, ReadUpdate
<1>2. Len(v.returned) \in Nat /\ Len(v.calls) \in Nat
  BY LenProperties DEF ClockOk, TimesOk, CallsOk
<1>3. ThreadsOk(v) /\ ThreadsTyped(v) /\ v.last \in Nat
  BY DEF ClockOk, TimesOk, ThreadsOk
<1>4. ThreadsTyped(u)
  BY <1>1, <1>2, <1>3 DEF ThreadsTyped
<1>5. u.pc[t] = "load" /\ u.floor[t] = Len(v.returned) /\ u.began[t] = Len(v.calls)
  BY <1>1, <1>3 DEF ThreadsTyped
<1>6. ThreadOk(u, t)
  BY <1>1, <1>2, <1>5 DEF ThreadOk
<1>7. OthersKept(v, u, t) /\ Onward(v, u)
  BY <1>1, <1>2, <1>3, SMTT(60) DEF ThreadsTyped, OthersKept, Onward
<1>8. ThreadsOk(u)
  BY <1>3, <1>4, <1>6, <1>7, OneThread, Zenon
<1> QED BY <1>1, <1>8 DEF ClockOk

LEMMA LoadKeeps ==
  ASSUME NEW v, ClockOk(v), NEW t \in Threads, NEW u,
         LoadUpdate(u, v, t)
  PROVE  ClockOk(u)
<1> DEFINE next == IF v.ns[t] <= v.last THEN v.last + 1 ELSE v.ns[t]
<1>1. /\ CShape(u) /\ u.last = v.last /\ u.returned = v.returned /\ u.calls = v.calls
      /\ u.monitor = v.monitor /\ u.expected = [v.expected EXCEPT ![t] = v.last]
      /\ u.pc = [v.pc EXCEPT ![t] = "cas"] /\ u.ns = [v.ns EXCEPT ![t] = next]
      /\ u.floor = v.floor /\ u.began = v.began
  BY DEF ClockOk, CShape, CFields, LoadUpdate
<1>2. /\ ThreadsOk(v) /\ ThreadsTyped(v) /\ ThreadOk(v, t) /\ v.last \in Nat
      /\ Len(v.returned) \in Nat /\ Len(v.calls) \in Nat
  BY LenProperties DEF ClockOk, TimesOk, CallsOk, ThreadsOk
<1>3. next \in Nat /\ v.last < next
  BY <1>2 DEF ThreadsTyped
<1> HIDE DEF next
<1>4. ThreadsTyped(u)
  BY <1>1, <1>2, <1>3 DEF ThreadsTyped
<1>5. u.pc[t] = "cas" /\ u.expected[t] = v.last /\ u.ns[t] = next
  BY <1>1, <1>2 DEF ThreadsTyped
<1>6. ThreadOk(u, t)
  BY <1>1, <1>2, <1>3, <1>5 DEF ThreadOk
<1>7. OthersKept(v, u, t) /\ Onward(v, u)
  BY <1>1, <1>2 DEF ThreadsTyped, OthersKept, Onward
<1>8. ThreadsOk(u)
  BY <1>2, <1>4, <1>6, <1>7, OneThread, Zenon
<1> QED BY <1>1, <1>8 DEF ClockOk

\* The exchange failed: the time is moved past the one that was found.
LEMMA FailKeeps ==
  ASSUME NEW v, ClockOk(v), NEW t \in Threads, v.pc[t] = "cas", NEW u,
         FailUpdate(u, v, t)
  PROVE  ClockOk(u)
<1> DEFINE next == IF v.ns[t] <= v.last THEN v.last + 1 ELSE v.ns[t]
<1>1. /\ CShape(u) /\ u.last = v.last /\ u.returned = v.returned /\ u.calls = v.calls
      /\ u.monitor = v.monitor /\ u.expected = [v.expected EXCEPT ![t] = v.last]
      /\ u.pc = v.pc /\ u.ns = [v.ns EXCEPT ![t] = next]
      /\ u.floor = v.floor /\ u.began = v.began
  BY DEF ClockOk, CShape, CFields, FailUpdate
<1>2. /\ ThreadsOk(v) /\ ThreadsTyped(v) /\ ThreadOk(v, t) /\ v.last \in Nat
      /\ Len(v.returned) \in Nat /\ Len(v.calls) \in Nat
  BY LenProperties DEF ClockOk, TimesOk, CallsOk, ThreadsOk
<1>3. next \in Nat /\ v.last < next
  BY <1>2 DEF ThreadsTyped
<1> HIDE DEF next
<1>4. ThreadsTyped(u)
  BY <1>1, <1>2, <1>3 DEF ThreadsTyped
<1>5. u.pc[t] = "cas" /\ u.expected[t] = v.last /\ u.ns[t] = next
  BY <1>1, <1>2 DEF ThreadsTyped
<1>6. ThreadOk(u, t)
  BY <1>1, <1>2, <1>3, <1>5 DEF ThreadOk
<1>7. OthersKept(v, u, t) /\ Onward(v, u)
  BY <1>1, <1>2 DEF ThreadsTyped, OthersKept, Onward
<1>8. ThreadsOk(u)
  BY <1>2, <1>4, <1>6, <1>7, OneThread, Zenon
<1> QED BY <1>1, <1>8 DEF ClockOk

\* It succeeded: the time is later than all that were returned before.
LEMMA TakeKeeps ==
  ASSUME NEW v, ClockOk(v), NEW t \in Threads, v.pc[t] = "cas", v.last = v.expected[t], NEW u,
         TakeUpdate(u, v, t)
  PROVE  ClockOk(u)
<1> DEFINE r == v.returned
           x == [ns |-> v.ns[t], floor |-> v.floor[t]]
           s == Append(r, x)
           n == Len(r)
<1>1. /\ CShape(u) /\ u.last = v.ns[t] /\ u.returned = s /\ u.calls = v.calls
      /\ u.monitor = v.monitor /\ u.expected = v.expected /\ u.ns = v.ns
      /\ u.pc = [v.pc EXCEPT ![t] = "timed"] /\ u.floor = v.floor /\ u.began = v.began
  BY DEF ClockOk, CShape, CFields, TakeUpdate
<1>2. ThreadsOk(v) /\ TimesOk(r, v.last) /\ CallsOk(v.calls, v.last) /\ MonitorOk(v.monitor, v.calls)
  BY DEF ClockOk
<1>3. v.last \in Nat /\ v.ns[t] \in Nat /\ v.floor[t] \in Nat /\ v.last < v.ns[t] /\ v.floor[t] <= n
  BY <1>2 DEF ThreadsOk, ThreadsTyped, ThreadOk, TimesOk
<1>4. /\ s \in Seq([ns : Nat, floor : Nat]) /\ n \in Nat /\ Len(s) = n + 1 /\ s[n + 1] = x
      /\ \A i \in 1 .. n : s[i] = r[i] /\ r[i] \in [ns : Nat, floor : Nat]
  <2>1. x \in [ns : Nat, floor : Nat] /\ r \in Seq([ns : Nat, floor : Nat])
    BY <1>2, <1>3 DEF TimesOk
  <2>2. n \in Nat /\ \A i \in 1 .. n : r[i] \in [ns : Nat, floor : Nat]
    BY <2>1, LenProperties, ElementOfSeq
  <2> HIDE DEF x, r
  <2> QED BY <2>1, <2>2, AppendProperties
<1>5. x.ns = v.ns[t] /\ x.floor = v.floor[t]
  OBVIOUS
<1> HIDE DEF r, x, s, n
<1>6. \A i \in 1 .. n + 1 : i \in 1 .. n \/ i = n + 1
  BY <1>4
<1>7. \A a \in 1 .. n : r[a].ns \in Nat /\ r[a].ns <= v.last /\ r[a].floor < a
  BY <1>2, <1>4 DEF TimesOk, n
<1>8. TimesOk(s, u.last)
  <2>1. \A a \in 1 .. n + 1 : s[a].ns <= v.ns[t] /\ s[a].floor < a
    <3>1. s[n + 1].ns <= v.ns[t] /\ s[n + 1].floor < n + 1
      BY <1>3, <1>4, <1>5
    <3>2. ASSUME NEW a \in 1 .. n PROVE s[a].ns <= v.ns[t] /\ s[a].floor < a
      <4>1. s[a] = r[a] /\ r[a].ns \in Nat /\ r[a].ns <= v.last /\ r[a].floor < a
        BY <1>4, <1>7
      <4> QED BY <1>3, <4>1
    <3> QED BY <1>6, <3>1, <3>2
  <2>2. ASSUME NEW a \in 1 .. n + 1, NEW b \in 1 .. n + 1, a < b PROVE s[a].ns < s[b].ns
    <3>1. a \in 1 .. n
      BY <1>4, <2>2
    <3>2. CASE b \in 1 .. n
      BY <1>2, <1>4, <2>2, <3>1, <3>2 DEF TimesOk, n
    <3>3. CASE b = n + 1
      <4>1. s[b].ns = v.ns[t] /\ s[a].ns = r[a].ns /\ r[a].ns \in Nat /\ r[a].ns <= v.last
        BY <1>4, <1>5, <1>7, <3>1, <3>3
      <4> QED BY <1>3, <4>1
    <3> QED BY <1>6, <3>2, <3>3
  <2> QED BY <1>1, <1>3, <1>4, <2>1, <2>2 DEF TimesOk
<1>9. /\ v.calls \in Seq(CallTypes) /\ Len(v.calls) \in Nat
      /\ \A i \in 1 .. Len(v.calls) : v.calls[i].ns \in Nat /\ v.calls[i].ns <= v.last /\ CallOk(v.calls, i)
  <2>1. v.calls \in Seq(CallTypes)
    BY <1>2 DEF CallsOk, CallTypes
  <2>2. \A i \in 1 .. Len(v.calls) : v.calls[i] \in CallTypes
    BY <2>1, ElementOfSeq
  <2> QED BY <1>2, <2>1, <2>2, LenProperties DEF CallsOk, CallTypes
<1>10. CallsOk(u.calls, u.last)
  <2>1. \A i \in 1 .. Len(v.calls) : v.calls[i].ns <= u.last
    BY <1>1, <1>3, <1>9
  <2> QED BY <1>1, <1>9, <2>1 DEF CallsOk, CallTypes
<1>11. ThreadsTyped(u) /\ u.ns[t] = v.ns[t] /\ u.pc[t] = "timed"
  BY <1>1, <1>2 DEF ThreadsOk, ThreadsTyped
<1>12. \A j \in 1 .. v.began[t] : v.calls[j].ns < v.ns[t]
  <2>1. v.began[t] \in Nat /\ v.began[t] <= Len(v.calls)
    BY <1>2 DEF ThreadsOk, ThreadsTyped, ThreadOk
  <2>2. \A j \in 1 .. v.began[t] : j \in 1 .. Len(v.calls)
    BY <1>9, <2>1
  <2> QED BY <1>3, <1>9, <2>2
<1>13. ThreadOk(u, t)
  <2>1. ThreadOk(v, t)
    BY <1>2 DEF ThreadsOk
  <2>2. u.floor[t] <= Len(u.returned) /\ u.ns[t] <= u.last
    BY <1>1, <1>3, <1>4
  <2> QED BY <1>1, <1>11, <1>12, <2>1, <2>2 DEF ThreadOk
<1>14. OthersKept(v, u, t)
  BY <1>1, <1>2 DEF ThreadsOk, ThreadsTyped, OthersKept
<1>15. Onward(v, u)
  BY <1>1, <1>3, <1>4, <1>9 DEF Onward, n, r
<1>16. ThreadsOk(u)
  BY <1>2, <1>11, <1>13, <1>14, <1>15, OneThread, Zenon
<1> QED BY <1>1, <1>2, <1>8, <1>10, <1>16 DEF ClockOk, r

\* A call of the monitor ends the turn of its thread.
CallUpdate(u, v, t, op, r) ==
  u = [v EXCEPT !.pc[t] = "idle", !.ns[t] = 0, !.expected[t] = 0, !.floor[t] = 0,
                !.began[t] = 0, !.monitor = r.m,
                !.calls = Append(@, [op |-> op, ns |-> v.ns[t], count |-> r.count,
                                     began |-> v.began[t]])]

LEMMA CallKeeps ==
  ASSUME NEW v, ClockOk(v), NEW t \in Threads, v.pc[t] = "timed", NEW op, NEW r,
         \/ op = "record" /\ r = RecordOverride(v.monitor, v.ns[t])
         \/ op = "count" /\ r = CurrentCount(v.monitor, v.ns[t]),
         NEW u, CallUpdate(u, v, t, op, r)
  PROVE  ClockOk(u)
<1> DEFINE d == Append(v.calls, [op |-> op, ns |-> v.ns[t], count |-> r.count, began |-> v.began[t]])
<1>1. /\ CShape(u) /\ u.last = v.last /\ u.returned = v.returned /\ u.calls = d
      /\ u.monitor = r.m /\ u.expected = [v.expected EXCEPT ![t] = 0]
      /\ u.pc = [v.pc EXCEPT ![t] = "idle"] /\ u.ns = [v.ns EXCEPT ![t] = 0]
      /\ u.floor = [v.floor EXCEPT ![t] = 0] /\ u.began = [v.began EXCEPT ![t] = 0]
  BY DEF ClockOk, CShape, CFields, CallUpdate
<1>2. CallAdded(d, v.calls, op, v.ns[t], r.count, v.began[t])
  BY DEF CallAdded
<1> HIDE DEF d
<1>3. /\ ThreadsOk(v) /\ ThreadsTyped(v) /\ ThreadOk(v, t) /\ TimesOk(v.returned, v.last)
      /\ v.last \in Nat /\ CallsOk(v.calls, v.last) /\ MonitorOk(v.monitor, v.calls)
  BY DEF ClockOk, TimesOk, ThreadsOk
<1>4. /\ v.ns[t] \in Nat /\ v.began[t] \in Nat /\ v.ns[t] <= v.last
      /\ v.began[t] <= Len(v.calls) /\ \A j \in 1 .. v.began[t] : v.calls[j].ns < v.ns[t]
  BY <1>3 DEF ThreadsTyped, ThreadOk
<1>5. CallsOk(d, v.last) /\ MonitorOk(r.m, d)
  BY <1>2, <1>3, <1>4, MonitorCall
<1>6. Len(v.calls) \in Nat /\ Len(d) = Len(v.calls) + 1 /\ \A j \in 1 .. Len(v.calls) : d[j] = v.calls[j]
  <2>1. IsSeq(v.calls)
    <3>1. v.calls \in Seq(CallTypes)
      BY <1>3 DEF CallsOk, CallTypes
    <3> QED BY <3>1, LenProperties DEF IsSeq
  <2> QED BY <1>2, <2>1, AppendAny DEF CallAdded, IsSeq
<1>7. Len(v.returned) \in Nat
  BY <1>3, LenProperties DEF TimesOk
<1>8. ThreadsTyped(u) /\ u.pc[t] = "idle" /\ u.floor[t] = 0 /\ u.began[t] = 0
  BY <1>1, <1>3 DEF ThreadsTyped
<1>9. ThreadOk(u, t)
  BY <1>1, <1>6, <1>7, <1>8 DEF ThreadOk
<1>10. OthersKept(v, u, t) /\ Onward(v, u)
  BY <1>1, <1>3, <1>6, <1>7, SMTT(60) DEF ThreadsTyped, OthersKept, Onward
<1>11. ThreadsOk(u)
  BY <1>3, <1>8, <1>9, <1>10, OneThread, Zenon
<1> QED BY <1>1, <1>3, <1>5, <1>11 DEF ClockOk

LEMMA ClockStep == ClockInv /\ [Next]_vars => ClockInv'
<1> SUFFICES ASSUME ClockInv, [Next]_vars, part' = "clock" PROVE ClockOk(job')
  BY DEF ClockInv
<1>1. part' = part
  <2>1. \A rec, o : Log(rec, o) \/ LogRefused(rec) \/ Flush(o) => UNCHANGED part
    BY DEF Log, LogRefused, Flush
  <2>2. \A k, id : Restart(k, id) => UNCHANGED part
    BY DEF Restart
  <2>3. (\A f : Edit(f) => UNCHANGED part) /\ (MakeReport => UNCHANGED part)
    BY DEF Edit, MakeReport, Report
  <2>4. \A t : ReadClock(t) \/ LoadLast(t) \/ Exchange(t) \/ ReportOverride(t) \/ AskCount(t)
               => UNCHANGED part
    BY DEF ReadClock, LoadLast, Exchange, ReportOverride, AskCount
  <2>5. /\ RetentionTick => UNCHANGED part
        /\ \A ok, removed, moved : RetentionPass(ok, removed, moved) => UNCHANGED part
    BY DEF RetentionTick, RetentionPass
  <2> QED BY <2>1, <2>2, <2>3, <2>4, <2>5 DEF Next, vars
<1>2. part = "clock" /\ ClockOk(job)
  BY <1>1 DEF ClockInv
<1>3. ASSUME NEW t \in Threads, ReadClock(t) PROVE ClockOk(job')
  <2>1. PICK ns \in 1 .. MaxTime : ReadUpdate(job', job, t, ns)
    BY <1>3 DEF ReadClock, ReadUpdate
  <2>2. ns \in Nat
    BY OversightAssumption
  <2> QED BY <1>2, <2>1, <2>2, ReadKeeps
<1>4. ASSUME NEW t \in Threads, LoadLast(t) PROVE ClockOk(job')
  <2>1. LoadUpdate(job', job, t)
    BY <1>4 DEF LoadLast, LoadUpdate
  <2> QED BY <1>2, <2>1, LoadKeeps
<1>5. ASSUME NEW t \in Threads, Exchange(t) PROVE ClockOk(job')
  <2>1. job.pc[t] = "cas"
    BY <1>5 DEF Exchange
  <2>2. CASE job.last = job.expected[t]
    <3>1. TakeUpdate(job', job, t)
      BY <1>5, <2>2 DEF Exchange, TakeUpdate
    <3> QED BY <1>2, <2>1, <2>2, <3>1, TakeKeeps
  <2>3. CASE job.last # job.expected[t]
    <3>1. FailUpdate(job', job, t)
      BY <1>5, <2>3 DEF Exchange, FailUpdate
    <3> QED BY <1>2, <2>1, <3>1, FailKeeps
  <2> QED BY <2>2, <2>3
<1>6. ASSUME NEW t \in Threads, ReportOverride(t) PROVE ClockOk(job')
  <2> DEFINE r == RecordOverride(job.monitor, job.ns[t])
  <2>1. job.pc[t] = "timed" /\ CallUpdate(job', job, t, "record", r)
    BY <1>6, Zenon DEF ReportOverride, Call, CallUpdate
  <2> HIDE DEF r
  <2>2. r = RecordOverride(job.monitor, job.ns[t])
    BY DEF r
  <2> QED BY <1>2, <2>1, <2>2, CallKeeps
<1>7. ASSUME NEW t \in Threads, AskCount(t) PROVE ClockOk(job')
  <2> DEFINE r == CurrentCount(job.monitor, job.ns[t])
  <2>1. job.pc[t] = "timed" /\ CallUpdate(job', job, t, "count", r)
    BY <1>7, Zenon DEF AskCount, Call, CallUpdate
  <2> HIDE DEF r
  <2>2. r = CurrentCount(job.monitor, job.ns[t])
    BY DEF r
  <2> QED BY <1>2, <2>1, <2>2, CallKeeps
<1>8. CASE UNCHANGED vars
  BY <1>2, <1>8 DEF vars
<1>9. ASSUME NEW rec, NEW o, NEW k, NEW id, NEW f,
             Log(rec, o) \/ LogRefused(rec) \/ Flush(o) \/ Restart(k, id) \/ Edit(f)
      PROVE  FALSE
  BY <1>2, <1>9 DEF Log, LogRefused, Flush, Restart, Edit
<1>10. ~ MakeReport /\ ~ RetentionTick /\ \A ok, removed, moved : ~ RetentionPass(ok, removed, moved)
  BY <1>2 DEF MakeReport, Report, RetentionTick, RetentionPass
<1> QED BY <1>3, <1>4, <1>5, <1>6, <1>7, <1>8, <1>9, <1>10 DEF Next

LEMMA ClockTimely == ClockInv => OversightTimely
<1> SUFFICES ASSUME ClockOk(job), part = "clock" PROVE OversightTimely
  BY DEF ClockInv, OversightTimely, ClockMonotone, OverridesCounted
<1>1. TimesOk(job.returned, job.last) /\ CallsOk(job.calls, job.last) /\ MonitorOk(job.monitor, job.calls)
  BY DEF ClockOk
<1>2. ClockMonotone
  <2> DEFINE r == job.returned
             n == Len(r)
  <2>1. /\ r \in Seq([ns : Nat, floor : Nat]) /\ n \in Nat /\ DOMAIN r = 1 .. n
        /\ \A a \in 1 .. n : r[a] \in [ns : Nat, floor : Nat] /\ r[a].floor < a
        /\ \A a, b \in 1 .. n : a < b => r[a].ns < r[b].ns
    BY <1>1, LenProperties, ElementOfSeq DEF TimesOk
  <2> HIDE DEF r, n
  <2>2. \A a \in 1 .. n : r[a].ns \in Nat /\ r[a].floor \in Nat
    BY <2>1
  <2>3. ASSUME NEW a \in 1 .. n, NEW j \in 1 .. r[a].floor PROVE r[j].ns < r[a].ns
    <3>1. j < a /\ j \in 1 .. n
      BY <2>1, <2>2
    <3> QED BY <2>1, <3>1
  <2>4. ASSUME NEW a \in 1 .. n, NEW j \in 1 .. n, a # j PROVE r[a].ns # r[j].ns
    <3>1. CASE a < j
      BY <2>1, <2>2, <3>1
    <3>2. CASE j < a
      BY <2>1, <2>2, <3>2
    <3> QED BY <2>1, <2>4, <3>1, <3>2
  <2> QED BY <2>1, <2>3, <2>4 DEF ClockMonotone, r
<1>3. OverridesCounted
  <2> DEFINE c == job.calls
             n == Len(c)
  <2>1. c \in Seq(CallTypes) /\ n \in Nat /\ DOMAIN c = 1 .. n /\ \A i \in 1 .. n : CallOk(c, i)
    BY <1>1, LenProperties DEF CallsOk, CallTypes
  <2>2. Len(job.monitor.alerts) = Cardinality(Alerting(c))
    BY <1>1 DEF MonitorOk
  <2> QED BY <2>1, <2>2 DEF OverridesCounted, CallOk, Alerting, Live, Recorded, Old
<1> QED BY <1>2, <1>3 DEF OversightTimely

\* The times of now_ns() ascend in the order of its calls, and the monitor
\* counts what is in the window and raises each alert once, for any number of
\* threads, calls and clock steps.
THEOREM AuditTrail_OversightTimely == Spec => []OversightTimely
<1>1. Spec => []ClockInv
  BY ClockStarts, ClockStep, PTL DEF Spec
<1> QED BY <1>1, ClockTimely, PTL
=============================================================================
