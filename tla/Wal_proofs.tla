----------------------------- MODULE Wal_proofs -----------------------------
(***************************************************************************)
(* Proofs about the write-ahead log, on the instance that MCWal checks:    *)
(* one log file (WalWriter and WalReader) for every number of appends and  *)
(* sessions, every start_seq and all sync options, with and without I/O    *)
(* faults; and the directory of segments (WalManager) for all limits of a  *)
(* segment, all record sizes and options, and any number of records,       *)
(* rolls, sessions and crashes.                                            *)
(***************************************************************************)
EXTENDS MCWal, FiniteSetTheorems, SequenceTheorems, TLAPS

-----------------------------------------------------------------------------
(* One log file: WalWriter and WalReader. *)

Cell == Nat \X {1, 2}

(* What the file will be once the stdio buffer is written out.              *)
all == file \o buf

(* Record (or header) k of f is whole.                                      *)
WholeAt(f, k) == f[2 * k + 1][2] = 1 /\ f[2 * k + 2] = <<f[2 * k + 1][1], 2>>

(* f begins with exactly n whole records, the header counted: behind them   *)
(* is nothing, the front of a record, or a record that was cut.             *)
Clean(f, n) ==
  /\ 2 * n <= Len(f)
  /\ \A k \in 0 .. n - 1 : WholeAt(f, k)
  /\ Len(f) > 2 * n => f[2 * n + 1][2] = 1
  /\ Len(f) > 2 * n + 1 => f[2 * n + 2] # <<f[2 * n + 1][1], 2>>

(* The first n records carry consecutive numbers.                           *)
Consecutive(f, n) ==
  \A k \in 1 .. n - 2 : attempts[f[2 * k + 3][1]] = attempts[f[2 * k + 1][1]] + 1

ShapeInv ==
  /\ file \in Seq(Cell) /\ buf \in Seq(Cell) /\ (~isOpen => buf = <<>>)
  /\ all # <<>> => all[1] = <<0, 1>>
  /\ isOpen => all # <<>>
  /\ \A i \in 1 .. Len(all) : all[i][1] <= Len(attempts) /\ (i > 2 => all[i][1] >= 1)

SeqInv ==
  \E n \in Nat :
    /\ Clean(all, n) /\ Consecutive(all, n)
    /\ isOpen /\ Len(all) = 2 * n /\ n >= 2 => nextSeq = attempts[all[2 * n - 1][1]] + 1

KeptInv ==
  /\ promised \subseteq flushed /\ flushed \subseteq lacked /\ lacked \subseteq 1 .. Len(attempts)
  /\ lacked \subseteq L!Whole(all) /\ flushed \subseteq L!Whole(file)
  /\ promised \subseteq L!Whole(SubSeq(file, 1, dur))

LogInv == L!TypeOK /\ ShapeInv /\ SeqInv /\ KeptInv

-----------------------------------------------------------------------------
(* Files and their beginnings. *)

StartOf(g, f) == Len(g) <= Len(f) /\ \A i \in 1 .. Len(g) : g[i] = f[i]

LEMMA WholeIn ==
  ASSUME NEW f \in Seq(Cell), NEW g \in Seq(Cell), NEW k \in Nat, 2 * k + 2 <= Len(f), 2 * k + 2 <= Len(g),
         \A i \in 1 .. 2 * k + 2 : g[i] = f[i], WholeAt(f, k)
  PROVE  WholeAt(g, k)
<1>1. g[2 * k + 1] = f[2 * k + 1] /\ g[2 * k + 2] = f[2 * k + 2]
  OBVIOUS
<1> QED BY <1>1 DEF WholeAt

LEMMA SameCells ==
  ASSUME NEW f \in Seq(Cell), NEW g \in Seq(Cell), Len(f) = Len(g), \A i \in 1 .. Len(f) : f[i] = g[i]
  PROVE  f = g
  OBVIOUS

LEMMA JoinJoin ==
  ASSUME NEW f \in Seq(Cell), NEW g \in Seq(Cell), NEW h \in Seq(Cell)
  PROVE  (f \o g) \o h = f \o (g \o h)
  BY ConcatAssociative

(* Cutting a file off anywhere leaves a file that begins with whole records.*)
LEMMA CleanStart ==
  ASSUME NEW f \in Seq(Cell), NEW g \in Seq(Cell), NEW n \in Nat, Clean(f, n), StartOf(g, f)
  PROVE  \E m \in 0 .. n : Clean(g, m)
<1>1. CASE Len(g) >= 2 * n
  <2>1. \A k \in 0 .. n - 1 : WholeAt(g, k)
    BY <1>1, WholeIn, SMTT(60) DEF Clean, StartOf
  <2>2. Len(g) > 2 * n => g[2 * n + 1] = f[2 * n + 1] /\ Len(f) > 2 * n
    BY DEF StartOf
  <2>3. Len(g) > 2 * n + 1 => g[2 * n + 2] = f[2 * n + 2] /\ Len(f) > 2 * n + 1
    BY DEF StartOf
  <2>4. Clean(g, n)
    BY <1>1, <2>1, <2>2, <2>3 DEF Clean
  <2> QED BY <2>4
<1>2. CASE Len(g) < 2 * n
  <2>1. PICK m \in Nat : Len(g) = 2 * m \/ Len(g) = 2 * m + 1
    <3>1. Len(g) \in Nat
      OBVIOUS
    <3>2. Len(g) \div 2 \in Nat /\ (Len(g) = 2 * (Len(g) \div 2) \/ Len(g) = 2 * (Len(g) \div 2) + 1)
      BY <3>1
    <3> QED BY <3>2
  <2>2. m \in 0 .. n - 1
    BY <1>2, <2>1
  <2>3. \A k \in 0 .. m : WholeAt(f, k)
    BY <2>2 DEF Clean
  <2>4. \A k \in 0 .. m - 1 : WholeAt(g, k)
    BY <2>1, <2>2, <2>3, WholeIn DEF StartOf
  <2>5. Len(g) > 2 * m => g[2 * m + 1][2] = 1
    BY <2>1, <2>2, <2>3 DEF WholeAt, StartOf
  <2>6. Clean(g, m)
    BY <2>1, <2>2, <2>4, <2>5 DEF Clean
  <2> QED BY <2>2, <2>6
<1> QED BY <1>1, <1>2

LEMMA CellsBehind ==
  ASSUME NEW f \in Seq(Cell), NEW id \in Nat
  PROVE  /\ f \o << <<id, 1>> >> \in Seq(Cell) /\ StartOf(f, f \o << <<id, 1>> >>)
         /\ Len(f \o << <<id, 1>> >>) = Len(f) + 1 /\ (f \o << <<id, 1>> >>)[Len(f) + 1] = <<id, 1>>
         /\ f \o L!Cells(id) \in Seq(Cell) /\ StartOf(f, f \o L!Cells(id))
         /\ Len(f \o L!Cells(id)) = Len(f) + 2
         /\ (f \o L!Cells(id))[Len(f) + 1] = <<id, 1>> /\ (f \o L!Cells(id))[Len(f) + 2] = <<id, 2>>
  BY DEF StartOf, Cell, L!Cells

LEMMA FrontOfCells ==
  ASSUME NEW id \in Nat
  PROVE  SubSeq(L!Cells(id), 1, 1) = << <<id, 1>> >>
<1>1. L!Cells(id) \in Seq(Cell) /\ Len(L!Cells(id)) = 2 /\ L!Cells(id)[1] = <<id, 1>>
  BY DEF L!Cells, Cell
<1> DEFINE s == SubSeq(L!Cells(id), 1, 1)
<1>2. s \in Seq(Cell) /\ Len(s) = 1 /\ s[1] = L!Cells(id)[1]
  BY <1>1
<1>3. << <<id, 1>> >> \in Seq(Cell) /\ Len(<< <<id, 1>> >>) = 1 /\ << <<id, 1>> >>[1] = <<id, 1>>
  BY DEF Cell
<1> HIDE DEF s
<1>4. \A i \in 1 .. Len(s) : s[i] = << <<id, 1>> >>[i]
  BY <1>1, <1>2, <1>3
<1>5. s = << <<id, 1>> >>
  BY <1>2, <1>3, <1>4, SameCells
<1> QED BY <1>5 DEF s

LEMMA StartTrans ==
  ASSUME NEW f \in Seq(Cell), NEW g \in Seq(Cell), NEW h \in Seq(Cell), StartOf(f, g), StartOf(g, h)
  PROVE  StartOf(f, h)
  BY DEF StartOf

LEMMA AddedIds ==
  ASSUME NEW f \in Seq(Cell), NEW id \in Nat, NEW g,
         g = f \o << <<id, 1>> >> \/ g = f \o L!Cells(id)
  PROVE  g \in Seq(Cell) /\ StartOf(f, g) /\ \A i \in Len(f) + 1 .. Len(g) : g[i][1] = id
<1>1. CASE g = f \o << <<id, 1>> >>
  <2>1. g \in Seq(Cell) /\ StartOf(f, g) /\ Len(g) = Len(f) + 1 /\ g[Len(f) + 1] = <<id, 1>>
    BY <1>1, CellsBehind
  <2>2. \A i \in Len(f) + 1 .. Len(g) : i = Len(f) + 1
    BY <2>1
  <2> QED BY <2>1, <2>2
<1>2. CASE g = f \o L!Cells(id)
  <2>1. /\ g \in Seq(Cell) /\ StartOf(f, g) /\ Len(g) = Len(f) + 2
        /\ g[Len(f) + 1] = <<id, 1>> /\ g[Len(f) + 2] = <<id, 2>>
    BY <1>2, CellsBehind
  <2>2. \A i \in Len(f) + 1 .. Len(g) : i = Len(f) + 1 \/ i = Len(f) + 2
    BY <2>1, SMTT(60)
  <2> QED BY <2>1, <2>2
<1> QED BY <1>1, <1>2

(* A record, or the front of one, is added.  Only behind whole records is   *)
(* it whole for a reader.                                                   *)
LEMMA CleanAdd ==
  ASSUME NEW f \in Seq(Cell), NEW n \in Nat, Clean(f, n), NEW id \in Nat
  PROVE  /\ Clean(f \o << <<id, 1>> >>, n)
         /\ Len(f) = 2 * n => Clean(f \o L!Cells(id), n + 1)
         /\ Len(f) # 2 * n => Clean(f \o L!Cells(id), n)
<1>1. ASSUME NEW g \in Seq(Cell), StartOf(f, g)
      PROVE  \A k \in 0 .. n - 1 : WholeAt(g, k)
  BY <1>1, WholeIn DEF Clean, StartOf
<1>2. ASSUME NEW g \in Seq(Cell), StartOf(f, g), Len(g) > Len(f), g[Len(f) + 1] = <<id, 1>>,
             Len(f) # 2 * n
      PROVE  Clean(g, n)
  <2>1. Len(f) > 2 * n /\ g[2 * n + 1] = f[2 * n + 1] /\ f[2 * n + 1][2] = 1
    BY <1>2 DEF Clean, StartOf
  <2>2. g[2 * n + 2] # <<g[2 * n + 1][1], 2>>
    <3>1. CASE Len(f) = 2 * n + 1
      BY <1>2, <3>1
    <3>2. CASE Len(f) > 2 * n + 1
      BY <1>2, <2>1, <3>2 DEF Clean, StartOf
    <3> QED BY <2>1, <3>1, <3>2
  <2> QED BY <1>1, <1>2, <2>1, <2>2 DEF Clean
<1>3. ASSUME NEW g \in Seq(Cell), StartOf(f, g), Len(g) = Len(f) + 1, g[Len(f) + 1] = <<id, 1>>,
             Len(f) = 2 * n
      PROVE  Clean(g, n)
  BY <1>1, <1>3 DEF Clean
<1>4. ASSUME NEW g \in Seq(Cell), StartOf(f, g), Len(g) = Len(f) + 2, g[Len(f) + 1] = <<id, 1>>,
             g[Len(f) + 2] = <<id, 2>>, Len(f) = 2 * n
      PROVE  Clean(g, n + 1)
  <2>1. WholeAt(g, n)
    BY <1>4 DEF WholeAt
  <2>2. \A k \in 0 .. (n + 1) - 1 : WholeAt(g, k)
    BY <1>1, <1>4, <2>1
  <2> QED BY <1>4, <2>2 DEF Clean
<1>5. PICK g : g = f \o << <<id, 1>> >>
  OBVIOUS
<1>6. g \in Seq(Cell) /\ StartOf(f, g) /\ Len(g) = Len(f) + 1 /\ g[Len(f) + 1] = <<id, 1>>
  BY <1>5, CellsBehind
<1>7. Clean(g, n)
  BY <1>2, <1>3, <1>6
<1>8. PICK h : h = f \o L!Cells(id)
  OBVIOUS
<1>9. /\ h \in Seq(Cell) /\ StartOf(f, h) /\ Len(h) = Len(f) + 2
      /\ h[Len(f) + 1] = <<id, 1>> /\ h[Len(f) + 2] = <<id, 2>>
  BY <1>8, CellsBehind
<1>10. /\ Len(f) = 2 * n => Clean(h, n + 1)
       /\ Len(f) # 2 * n => Clean(h, n)
  BY <1>2, <1>4, <1>9
<1> QED BY <1>5, <1>7, <1>8, <1>10

(* WalReader returns all of the whole records at the beginning.             *)
LEMMA CleanCount ==
  ASSUME NEW f \in Seq(Cell), NEW n \in Nat, Clean(f, n), f # <<>> => f[1] = <<0, 1>>
  PROVE  L!Count(f) = IF n = 0 THEN 0 ELSE n - 1
<1> DEFINE c == IF n = 0 THEN 0 ELSE n - 1
<1>1. c \in 0 .. Len(f) /\ L!Intact(f, c)
  BY DEF L!Intact, Clean, WholeAt
<1>2. ASSUME NEW m \in 0 .. Len(f), L!Intact(f, m), m > c PROVE FALSE
  <2>1. m >= n /\ m >= 1 /\ n \in 0 .. m /\ Len(f) >= 2 * m + 2
    BY <1>2 DEF L!Intact
  <2>2. f[2 * n + 2] = <<f[2 * n + 1][1], 2>>
    BY <1>2, <2>1 DEF L!Intact
  <2> QED BY <2>1, <2>2 DEF Clean
<1> HIDE DEF c
<1>3. \A x : (x \in {m \in 0 .. Len(f) : L!Intact(f, m)}
              /\ \A y \in {m \in 0 .. Len(f) : L!Intact(f, m)} : x >= y) <=> x = c
  BY <1>1, <1>2
<1>4. L!Count(f) = c
  BY <1>3 DEF L!Count, L!Max
<1> QED BY <1>4 DEF c

LEMMA WholeStart ==
  ASSUME NEW f \in Seq(Cell), NEW g \in Seq(Cell), StartOf(g, f)
  PROVE  L!Whole(g) \subseteq L!Whole(f)
  BY DEF L!Whole, StartOf

(* A record that is whole but cannot be read is behind a cut one.           *)
LEMMA KeptOrCut ==
  ASSUME file \in Seq(Cell), file # <<>> => file[1] = <<0, 1>>, NEW n \in Nat, Clean(file, n),
         NEW ids, ids \subseteq L!Whole(file), 0 \notin ids
  PROVE  L!KeptBeforeCut(ids)
<1> SUFFICES ASSUME NEW id \in ids, id \notin L!ToSet(L!ReadAll(file))
             PROVE  \E j, k \in 1 .. Len(file) - 1 : j < k /\ L!CutAt(file, j) /\ file[k] = <<id, 1>>
  BY DEF L!KeptBeforeCut
<1>1. PICK k \in 1 .. Len(file) - 1 : file[k] = <<id, 1>> /\ file[k + 1] = <<id, 2>>
  <2>1. PICK k \in 1 .. Len(file) - 1 : file[k][1] = id /\ file[k][2] = 1 /\ file[k + 1] = <<file[k][1], 2>>
    BY DEF L!Whole
  <2>2. file[k] \in Nat \X {1, 2}
    BY DEF Cell
  <2>3. file[k] = <<id, 1>>
    BY <2>1, <2>2
  <2> QED BY <2>1, <2>3
<1>2. ASSUME k <= 2 * n PROVE FALSE
  <2>1. PICK i \in Nat : k = 2 * i + 1 \/ k = 2 * i + 2
    <3>1. (k - 1) \div 2 \in Nat /\ (k = 2 * ((k - 1) \div 2) + 1 \/ k = 2 * ((k - 1) \div 2) + 2)
      OBVIOUS
    <3> QED BY <3>1
  <2>2. i \in 0 .. n - 1 /\ WholeAt(file, i)
    BY <1>2, <2>1 DEF Clean
  <2>3. k = 2 * i + 1
    BY <1>1, <2>1, <2>2 DEF WholeAt
  <2>4. i # 0
    BY <1>1, <2>3
  <2>5. L!Count(file) = n - 1
    BY <2>2, CleanCount
  <2>6. i \in 1 .. L!Count(file) /\ L!ReadAll(file)[i] = id
    BY <1>1, <2>2, <2>3, <2>4, <2>5 DEF L!ReadAll
  <2>7. id \in L!ToSet(L!ReadAll(file))
    BY <2>6 DEF L!ToSet, L!ReadAll
  <2> QED BY <2>7
<1>3. 2 * n + 1 \in 1 .. Len(file) - 1 /\ L!CutAt(file, 2 * n + 1)
  BY <1>1, <1>2 DEF Clean, L!CutAt
<1>4. k # 2 * n + 1
  BY <1>1, <1>3 DEF L!CutAt
<1> QED BY <1>1, <1>2, <1>3, <1>4

LEMMA CellsTyped ==
  ASSUME NEW f \in Seq(Cell), NEW b \in Seq(Cell), NEW n \in Nat,
         \A i \in 1 .. Len(f \o b) : (f \o b)[i][1] <= n
  PROVE  L!ToSet(f) \cup L!ToSet(b) \subseteq (0 .. n) \X {1, 2}
<1>1. ASSUME NEW c \in Cell, c[1] <= n PROVE c \in (0 .. n) \X {1, 2}
  BY <1>1 DEF Cell
<1>2. ASSUME NEW i \in 1 .. Len(f) PROVE f[i] \in (0 .. n) \X {1, 2}
  <2>1. i \in 1 .. Len(f \o b) /\ (f \o b)[i] = f[i] /\ f[i] \in Cell
    OBVIOUS
  <2> QED BY <1>1, <2>1
<1>3. ASSUME NEW i \in 1 .. Len(b) PROVE b[i] \in (0 .. n) \X {1, 2}
  <2>1. Len(f) + i \in 1 .. Len(f \o b) /\ (f \o b)[Len(f) + i] = b[i] /\ b[i] \in Cell
    OBVIOUS
  <2> QED BY <1>1, <2>1
<1> QED BY <1>2, <1>3 DEF L!ToSet

(* A step that ends the session and keeps a beginning of the file.          *)
LEMMA SessionEnds ==
  ASSUME LogInv, isOpen' = FALSE, buf' = <<>>, file' \in Seq(Cell), StartOf(file', all),
         attempts' = attempts
  PROVE  ShapeInv' /\ SeqInv'
<1>1. all' = file' /\ all \in Seq(Cell)
  BY ConcatEmptySeq DEF all, LogInv, ShapeInv
<1>2. ShapeInv'
  <2>1. \A i \in 1 .. Len(file') : i \in 1 .. Len(all) /\ file'[i] = all[i]
    BY <1>1 DEF StartOf
  <2>2. file' # <<>> => 1 \in 1 .. Len(file') /\ all # <<>>
    BY <1>1 DEF StartOf
  <2>3. file' # <<>> => file'[1] = <<0, 1>>
    BY <2>1, <2>2 DEF LogInv, ShapeInv
  <2>4. \A i \in 1 .. Len(file') : file'[i][1] <= Len(attempts) /\ (i > 2 => file'[i][1] >= 1)
    BY <2>1 DEF LogInv, ShapeInv
  <2> QED BY <1>1, <2>3, <2>4 DEF ShapeInv
<1>3. SeqInv'
  <2>1. PICK n \in Nat : Clean(all, n) /\ Consecutive(all, n)
    BY DEF LogInv, SeqInv
  <2>2. PICK m \in 0 .. n : Clean(file', m)
    BY <1>1, <2>1, CleanStart
  <2>3. \A k \in 1 .. m - 2 : attempts'[file'[2 * k + 3][1]] = attempts'[file'[2 * k + 1][1]] + 1
    <3> SUFFICES ASSUME NEW k \in 1 .. m - 2
                 PROVE  attempts[file'[2 * k + 3][1]] = attempts[file'[2 * k + 1][1]] + 1
      OBVIOUS
    <3>1. file'[2 * k + 3] = all[2 * k + 3] /\ file'[2 * k + 1] = all[2 * k + 1]
      BY <2>2 DEF Clean, StartOf
    <3>2. k \in 1 .. n - 2
      BY <2>2
    <3> QED BY <2>1, <3>1, <3>2 DEF Consecutive
  <2> QED BY <1>1, <2>2, <2>3 DEF SeqInv, Consecutive
<1> QED BY <1>2, <1>3

(* A step that only moves cells from the buffer to the file.                *)
LEMMA CellsMove ==
  ASSUME LogInv, all' = all, attempts' = attempts, nextSeq' = nextSeq, isOpen' => isOpen,
         file' \in Seq(Cell), buf' \in Seq(Cell), ~isOpen' => buf' = <<>>
  PROVE  ShapeInv' /\ SeqInv'
<1>1. ShapeInv'
  BY DEF LogInv, ShapeInv
<1>2. SeqInv'
  <2>1. PICK n \in Nat :
          /\ Clean(all, n) /\ Consecutive(all, n)
          /\ isOpen /\ Len(all) = 2 * n /\ n >= 2 => nextSeq = attempts[all[2 * n - 1][1]] + 1
    BY DEF LogInv, SeqInv
  <2>2. Consecutive(all, n)'
    BY <2>1 DEF Consecutive
  <2> QED BY <2>1, <2>2 DEF SeqInv
<1> QED BY <1>1, <1>2

(* An append: a record, its front, or nothing is behind the other cells.    *)
AddsCells ==
  /\ isOpen /\ isOpen' /\ file' \in Seq(Cell) /\ buf' \in Seq(Cell)
  /\ attempts' = Append(attempts, nextSeq)
  /\ \/ all' = all /\ nextSeq' = nextSeq
     \/ all' = all \o << <<Len(attempts) + 1, 1>> >> /\ nextSeq' = nextSeq
     \/ all' = all \o L!Cells(Len(attempts) + 1) /\ nextSeq' = nextSeq + 1

LEMMA CellsAdded ==
  ASSUME LogInv, AddsCells
  PROVE  ShapeInv' /\ SeqInv'
<1> DEFINE id == Len(attempts) + 1
<1>1. /\ all \in Seq(Cell) /\ all # <<>> /\ all[1] = <<0, 1>> /\ attempts \in Seq(Nat) /\ nextSeq \in Nat
      /\ \A i \in 1 .. Len(all) : all[i][1] <= Len(attempts) /\ (i > 2 => all[i][1] >= 1)
      /\ \A i \in 1 .. Len(all) : all[i] \in Cell
  <2>1. all \in Seq(Cell)
    BY DEF LogInv, ShapeInv, all
  <2>2. all # <<>> /\ all[1] = <<0, 1>> /\ attempts \in Seq(Nat) /\ nextSeq \in Nat
    BY DEF LogInv, ShapeInv, L!TypeOK, AddsCells
  <2> QED BY <2>1, <2>2 DEF LogInv, ShapeInv
<1>2. id \in Nat /\ id = Len(attempts) + 1 /\ Len(attempts) \in Nat /\ Len(attempts') = id /\ attempts'[id] = nextSeq
      /\ \A i \in 1 .. Len(attempts) : attempts'[i] = attempts[i]
  BY <1>1 DEF AddsCells
<1> HIDE DEF id
<1>3. /\ all' \in Seq(Cell) /\ StartOf(all, all')
      /\ \A i \in Len(all) + 1 .. Len(all') : all'[i][1] = id
  <2>1. CASE all' = all
    BY <1>1, <2>1 DEF StartOf
  <2>2. CASE all' = all \o << <<id, 1>> >> \/ all' = all \o L!Cells(id)
    <3>1. all \in Seq(Cell) /\ id \in Nat
      BY <1>1, <1>2
    <3> QED BY <2>2, <3>1, AddedIds
  <2> QED BY <2>1, <2>2 DEF AddsCells, id
<1>4. ShapeInv'
  <2>1. all' # <<>> /\ all'[1] = <<0, 1>>
    BY <1>1, <1>3 DEF StartOf
  <2>2. ASSUME NEW i \in 1 .. Len(all') PROVE all'[i][1] <= id /\ (i > 2 => all'[i][1] >= 1)
    <3>1. CASE i <= Len(all)
      <4>0. i \in 1 .. Len(all) /\ all'[i] = all[i]
        BY <1>3, <3>1 DEF StartOf
      <4>1. all'[i] = all[i] /\ all[i][1] \in Nat
        BY <1>1, <4>0 DEF Cell
      <4> QED BY <1>1, <1>2, <4>0, <4>1
    <3>2. CASE i > Len(all)
      <4>1. i \in Len(all) + 1 .. Len(all')
        BY <1>1, <1>3, <3>2
      <4> QED BY <1>2, <1>3, <4>1
    <3> QED BY <1>1, <3>1, <3>2
  <2> QED BY <1>2, <2>1, <2>2 DEF ShapeInv, AddsCells
<1>5. SeqInv'
  <2>1. PICK n \in Nat :
          /\ Clean(all, n) /\ Consecutive(all, n)
          /\ Len(all) = 2 * n /\ n >= 2 => nextSeq = attempts[all[2 * n - 1][1]] + 1
    BY DEF LogInv, SeqInv, AddsCells
  <2>2. \A i \in 3 .. Len(all) : all'[i] = all[i] /\ attempts'[all'[i][1]] = attempts[all[i][1]]
    <3> SUFFICES ASSUME NEW i \in 3 .. Len(all)
                 PROVE  all'[i] = all[i] /\ attempts'[all'[i][1]] = attempts[all[i][1]]
      OBVIOUS
    <3>0. i \in 1 .. Len(all) /\ i > 2 /\ all'[i] = all[i]
      BY <1>1, <1>3 DEF StartOf
    <3>1. all'[i] = all[i] /\ all[i][1] \in Nat
      BY <1>1, <3>0 DEF Cell
    <3>2. all[i][1] \in 1 .. Len(attempts)
      BY <1>1, <3>0, <3>1
    <3> QED BY <1>2, <3>1, <3>2
  <2>3. ASSUME NEW k \in 1 .. n - 2
        PROVE  attempts'[all'[2 * k + 3][1]] = attempts'[all'[2 * k + 1][1]] + 1
    <3>1. 2 * k + 3 \in 3 .. Len(all) /\ 2 * k + 1 \in 3 .. Len(all)
      BY <2>1, <2>3 DEF Clean
    <3>2. attempts[all[2 * k + 3][1]] = attempts[all[2 * k + 1][1]] + 1
      BY <2>1, <2>3 DEF Consecutive
    <3> QED BY <2>2, <3>1, <3>2
  <2>4. CASE all' = all /\ nextSeq' = nextSeq
    <3>1. Len(all) = 2 * n /\ n >= 2 => nextSeq' = attempts'[all'[2 * n - 1][1]] + 1
      <4>1. Len(all) = 2 * n /\ n >= 2 => 2 * n - 1 \in 3 .. Len(all)
        BY <2>1
      <4> QED BY <2>1, <2>2, <2>4, <4>1
    <3> QED BY <2>1, <2>3, <2>4, <3>1 DEF SeqInv, Consecutive
  <2>5. CASE all' = all \o << <<id, 1>> >>
    <3>1. Clean(all', n) /\ Len(all') = Len(all) + 1
      BY <1>1, <1>2, <2>1, <2>5, CleanAdd, CellsBehind
    <3>2. Len(all') # 2 * n
      BY <2>1, <3>1 DEF Clean
    <3> QED BY <2>3, <3>1, <3>2 DEF SeqInv, Consecutive
  <2>6. CASE all' = all \o L!Cells(id) /\ nextSeq' = nextSeq + 1
    <3>0. Len(all') = Len(all) + 2 /\ all'[Len(all) + 1] = <<id, 1>>
      BY <1>1, <1>2, <2>6, CellsBehind
    <3>1. CASE Len(all) = 2 * n
      <4>1. Clean(all', n + 1)
        BY <1>1, <1>2, <2>1, <2>6, <3>1, CleanAdd
      <4>2. all'[2 * n + 1][1] = id
        BY <3>0, <3>1
      <4>3. ASSUME NEW k \in 1 .. (n + 1) - 2
            PROVE  attempts'[all'[2 * k + 3][1]] = attempts'[all'[2 * k + 1][1]] + 1
        <5>1. CASE k \in 1 .. n - 2
          BY <2>3, <5>1
        <5>2. CASE k = n - 1
          <6>1. n >= 2 /\ 2 * k + 3 = 2 * n + 1 /\ 2 * k + 1 = 2 * n - 1 /\ 2 * n - 1 \in 3 .. Len(all)
            BY <3>1, <4>3, <5>2
          <6>2. attempts'[all'[2 * n - 1][1]] = attempts[all[2 * n - 1][1]]
            BY <2>2, <6>1
          <6>3. attempts'[all'[2 * n + 1][1]] = nextSeq
            BY <1>2, <4>2
          <6> QED BY <2>1, <3>1, <6>1, <6>2, <6>3
        <5>3. k \in 1 .. n - 2 \/ k = n - 1
          BY <2>1, <4>3
        <5> QED BY <5>1, <5>2, <5>3
      <4>4. nextSeq' = attempts'[all'[2 * (n + 1) - 1][1]] + 1
        <5>1. 2 * (n + 1) - 1 = 2 * n + 1
          OBVIOUS
        <5> QED BY <1>2, <2>6, <4>2, <5>1
      <4>5. n + 1 \in Nat /\ Consecutive(all, n + 1)'
        <5>1. n + 1 \in Nat
          BY <2>1
        <5> QED BY <4>3, <5>1 DEF Consecutive
      <4> QED BY <4>1, <4>4, <4>5 DEF SeqInv
    <3>2. CASE Len(all) # 2 * n
      <4>1. Clean(all', n)
        BY <1>1, <1>2, <2>1, <2>6, <3>2, CleanAdd
      <4>2. Len(all') # 2 * n
        BY <1>1, <2>1, <3>0 DEF Clean
      <4> QED BY <2>3, <4>1, <4>2 DEF SeqInv, Consecutive
    <3> QED BY <3>1, <3>2
  <2> QED BY <2>4, <2>5, <2>6 DEF AddsCells, id
<1> QED BY <1>4, <1>5

LEMMA Starts ==
  ASSUME NEW f \in Seq(Cell), NEW b \in Seq(Cell), NEW d \in 0 .. Len(f)
  PROVE  /\ f \o b \in Seq(Cell) /\ StartOf(f, f \o b) /\ StartOf(f, f)
         /\ SubSeq(f, 1, d) \in Seq(Cell) /\ StartOf(SubSeq(f, 1, d), f)
         /\ SubSeq(f \o b, 1, d) = SubSeq(f, 1, d) /\ Len(SubSeq(f, 1, d)) = d
<1>1. f \o b \in Seq(Cell) /\ StartOf(f, f \o b) /\ StartOf(f, f)
  BY DEF StartOf
<1>2. SubSeq(f, 1, d) \in Seq(Cell) /\ StartOf(SubSeq(f, 1, d), f) /\ Len(SubSeq(f, 1, d)) = d
  BY DEF StartOf
<1>3. SubSeq(f \o b, 1, d) = SubSeq(f, 1, d)
  <2>1. SubSeq(f \o b, 1, d) \in Seq(Cell) /\ Len(SubSeq(f \o b, 1, d)) = d
    BY <1>1
  <2>2. \A i \in 1 .. d : SubSeq(f \o b, 1, d)[i] = SubSeq(f, 1, d)[i]
    OBVIOUS
  <2> QED BY <1>2, <2>1, <2>2, SameCells
<1> QED BY <1>1, <1>2, <1>3

LEMMA LogFacts ==
  ASSUME LogInv
  PROVE  /\ file \in Seq(Cell) /\ buf \in Seq(Cell) /\ all \in Seq(Cell) /\ dur \in 0 .. Len(file)
         /\ attempts \in Seq(Nat) /\ Len(attempts) \in Nat /\ nextSeq \in Nat
         /\ StartOf(file, all)
         /\ ~isOpen => buf = <<>> /\ all = file
<1>1. file \in Seq(Cell) /\ buf \in Seq(Cell) /\ (~isOpen => buf = <<>>)
  BY DEF LogInv, ShapeInv
<1>2. dur \in 0 .. Len(file) /\ attempts \in Seq(Nat) /\ Len(attempts) \in Nat /\ nextSeq \in Nat
  BY DEF LogInv, L!TypeOK
<1>3. all \in Seq(Cell) /\ StartOf(file, all)
  BY <1>1, <1>2, Starts DEF all
<1>4. ~isOpen => all = file
  BY <1>1, ConcatEmptySeq DEF all
<1> QED BY <1>1, <1>2, <1>3, <1>4

(* The type invariant of the cells follows from their shape.                *)
LEMMA TypeFromShape ==
  ASSUME ShapeInv', attempts' \in Seq(Nat), nextSeq' \in Nat, sync' \in SyncOptions,
         dur' \in 0 .. Len(file'), isOpen' \in BOOLEAN, opens' \in 0 .. MaxOpens,
         promised' \subseteq flushed', flushed' \subseteq lacked', lacked' \subseteq 1 .. Len(attempts')
  PROVE  L!TypeOK'
<1>1. L!ToSet(file') \cup L!ToSet(buf') \subseteq (0 .. Len(attempts')) \X {1, 2}
  <2>1. file' \in Seq(Cell) /\ buf' \in Seq(Cell) /\ Len(attempts') \in Nat
    BY DEF ShapeInv
  <2>2. \A i \in 1 .. Len(file' \o buf') : (file' \o buf')[i][1] <= Len(attempts')
    BY DEF ShapeInv, all
  <2> QED BY <2>1, <2>2, CellsTyped
<1>2. ~isOpen' => buf' = <<>>
  BY DEF ShapeInv
<1> QED BY <1>1, <1>2 DEF L!TypeOK

-----------------------------------------------------------------------------
(* The calls. *)
LEMMA LogOpenInv ==
  ASSUME LogInv, L!Open
  PROVE  LogInv'
<1>0. LogInv
  OBVIOUS
<1>1. /\ ~isOpen /\ opens < MaxOpens /\ opens' = opens + 1 /\ isOpen' = TRUE
      /\ UNCHANGED <<sync, dur, attempts, lacked, flushed, promised>>
  BY DEF L!Open
<1>2. /\ file \in Seq(Cell) /\ buf = <<>> /\ all = file /\ dur \in 0 .. Len(file)
      /\ attempts \in Seq(Nat) /\ Len(attempts) \in Nat
  BY <1>1, LogFacts
<1>3. CASE file = <<>>
  <2>1. /\ nextSeq' = StartSeq
        /\ \/ file' = L!Header /\ buf' = <<>>
           \/ file' = <<>> /\ buf' = L!Header
    BY <1>3 DEF L!Open
  <2>2. L!Header \in Seq(Cell) /\ Len(L!Header) = 2 /\ L!Header[1] = <<0, 1>> /\ L!Header[2] = <<0, 2>>
    BY DEF L!Header, L!Cells, Cell
  <2>3. all' = L!Header /\ file' \in Seq(Cell) /\ buf' \in Seq(Cell)
    <3>1. L!Header \o <<>> = L!Header /\ <<>> \o L!Header = L!Header
      BY <2>2, ConcatEmptySeq
    <3>2. CASE file' = L!Header /\ buf' = <<>>
      BY <2>2, <3>1, <3>2 DEF all
    <3>3. CASE file' = <<>> /\ buf' = L!Header
      BY <2>2, <3>1, <3>3 DEF all
    <3> QED BY <2>1, <3>2, <3>3
  <2>4. ShapeInv'
    <3>1. L!Header # <<>>
      BY <2>2
    <3>2. \A i \in 1 .. Len(L!Header) : ~(i > 2) /\ L!Header[i][1] = 0 /\ 0 <= Len(attempts')
      BY <1>1, <1>2, <2>2
    <3> QED BY <1>1, <2>2, <2>3, <3>1, <3>2 DEF ShapeInv
  <2>5. SeqInv'
    <3>1. Clean(L!Header, 1)
      BY <2>2 DEF Clean, WholeAt
    <3>2. Consecutive(all, 1)'
      BY DEF Consecutive
    <3> QED BY <2>3, <3>1, <3>2 DEF SeqInv
  <2>6. KeptInv'
    <3>1. L!Whole(<<>>) = {}
      BY DEF L!Whole
    <3>2. lacked = {} /\ flushed = {} /\ promised = {}
      BY <1>2, <1>3, <3>1 DEF LogInv, KeptInv
    <3> QED BY <1>1, <3>2 DEF KeptInv
  <2>7. dur' \in 0 .. Len(file') /\ nextSeq' \in Nat /\ opens' \in 0 .. MaxOpens
    BY <1>1, <1>2, <1>3, <2>1, <2>2, LogAssumption DEF LogInv, L!TypeOK
  <2>8. L!TypeOK'
    BY <1>1, <1>2, <2>4, <2>6, <2>7, TypeFromShape DEF LogInv, L!TypeOK, KeptInv
  <2> QED BY <2>4, <2>5, <2>6, <2>8 DEF LogInv
<1>4. CASE file # <<>>
  <2>1. /\ nextSeq' = IF L!Count(file) = 0 THEN 0 ELSE attempts[L!Last(L!ReadAll(file))] + 1
        /\ file' = file /\ buf' = buf
    BY <1>4 DEF L!Open
  <2>2. all' = all
    BY <2>1 DEF all
  <2>3. ShapeInv'
    BY <1>1, <1>2, <1>4, <2>1, <2>2 DEF LogInv, ShapeInv
  <2>4. PICK n \in Nat : Clean(all, n) /\ Consecutive(all, n)
    BY DEF LogInv, SeqInv
  <2>5. L!Count(file) = IF n = 0 THEN 0 ELSE n - 1
    <3>1. file # <<>> => file[1] = <<0, 1>>
      BY <1>2 DEF LogInv, ShapeInv
    <3> QED BY <1>2, <2>4, <3>1, CleanCount
  <2>6. ASSUME n >= 2
        PROVE  nextSeq' = attempts[all[2 * n - 1][1]] + 1 /\ nextSeq' \in Nat
    <3>1. L!Last(L!ReadAll(file)) = file[2 * n - 1][1]
      <4>1. L!ReadAll(file) = [k \in 1 .. n - 1 |-> file[2 * k + 1][1]]
        BY <2>5, <2>6 DEF L!ReadAll
      <4>2. Len(L!ReadAll(file)) = n - 1
        BY <2>6, <4>1
      <4>3. n - 1 \in 1 .. n - 1 /\ 2 * (n - 1) + 1 = 2 * n - 1
        BY <2>6
      <4> QED BY <4>1, <4>2, <4>3 DEF L!Last
    <3>2. nextSeq' = attempts[all[2 * n - 1][1]] + 1
      BY <1>2, <2>1, <2>5, <2>6, <3>1
    <3>3. all[2 * n - 1][1] \in 1 .. Len(attempts)
      <4>1. 2 * n - 1 \in 1 .. Len(all) /\ 2 * n - 1 > 2
        BY <2>4, <2>6 DEF Clean
      <4>2. all[2 * n - 1] \in Cell
        BY <1>2, <4>1
      <4> QED BY <1>2, <4>1, <4>2 DEF LogInv, ShapeInv, Cell
    <3>4. nextSeq' \in Nat
      BY <1>2, <3>2, <3>3
    <3> QED BY <3>2, <3>4
  <2>7. nextSeq' \in Nat /\ (n >= 2 => nextSeq' = attempts[all[2 * n - 1][1]] + 1)
    BY <2>1, <2>5, <2>6
  <2>8. SeqInv'
    <3>1. Consecutive(all, n)'
      BY <1>1, <2>2, <2>4 DEF Consecutive
    <3> QED BY <1>1, <2>2, <2>4, <2>7, <3>1 DEF SeqInv
  <2>9. KeptInv'
    BY <1>1, <2>1, <2>2 DEF LogInv, KeptInv
  <2>10. L!TypeOK'
    <3>1. opens' \in 0 .. MaxOpens
      BY <1>1, LogAssumption DEF LogInv, L!TypeOK
    <3> QED BY <1>1, <1>2, <2>1, <2>3, <2>7, <2>9, <3>1, TypeFromShape DEF LogInv, L!TypeOK, KeptInv
  <2> QED BY <2>3, <2>8, <2>9, <2>10 DEF LogInv
<1> QED BY <1>3, <1>4

(* append() that writes its record, whatever the sync then says.            *)
LEMMA AppendInv ==
  ASSUME LogInv, L!AppendRecord \/ L!AppendSyncFails
  PROVE  LogInv'
<1> DEFINE id == Len(attempts) + 1
<1>0. /\ file \in Seq(Cell) /\ buf \in Seq(Cell) /\ all \in Seq(Cell) /\ dur \in 0 .. Len(file)
      /\ attempts \in Seq(Nat) /\ Len(attempts) \in Nat /\ nextSeq \in Nat /\ StartOf(file, all)
  BY LogFacts
<1>1. L!Cells(id) \in Seq(Cell) /\ id \in Nat /\ id \in 1 .. id
  BY <1>0 DEF L!Cells, Cell
<1>2. file \o (buf \o L!Cells(id)) = all \o L!Cells(id)
  <2>1. (file \o buf) \o L!Cells(id) = file \o (buf \o L!Cells(id))
    BY <1>0, <1>1, JoinJoin
  <2> QED BY <2>1 DEF all
<1>3. /\ isOpen /\ attempts' = Append(attempts, nextSeq) /\ nextSeq' = nextSeq + 1
      /\ UNCHANGED <<sync, isOpen, opens>>
      /\ \/ /\ file' = file \o (buf \o L!Cells(id)) /\ buf' = <<>> /\ dur' = Len(file')
            /\ lacked' = lacked \cup {id} /\ flushed' = lacked' /\ promised' = lacked'
         \/ /\ buf' = buf \o L!Cells(id) /\ UNCHANGED <<file, dur, flushed, promised>>
            /\ lacked' \in {lacked, lacked \cup {id}}
  BY DEF L!AppendRecord, L!AppendSyncFails
<1> HIDE DEF id
<1>4. all' = all \o L!Cells(id) /\ file' \in Seq(Cell) /\ buf' \in Seq(Cell) /\ all' \in Seq(Cell)
  <2>1. buf \o L!Cells(id) \in Seq(Cell) /\ all \o L!Cells(id) \in Seq(Cell)
    BY <1>0, <1>1
  <2>2. CASE file' = file \o (buf \o L!Cells(id)) /\ buf' = <<>>
    BY <1>2, <2>1, <2>2, ConcatEmptySeq DEF all
  <2>3. CASE buf' = buf \o L!Cells(id) /\ file' = file
    <3>1. all' = file \o (buf \o L!Cells(id))
      BY <2>3 DEF all
    <3> QED BY <1>0, <1>2, <2>1, <2>3, <3>1
  <2> QED BY <1>3, <2>2, <2>3
<1>5. ShapeInv' /\ SeqInv'
  <2>1. AddsCells
    BY <1>3, <1>4 DEF AddsCells, id
  <2> QED BY <2>1, CellsAdded
<1>6. attempts' \in Seq(Nat) /\ Len(attempts') = id /\ nextSeq' \in Nat
  BY <1>0, <1>3 DEF id
<1>7. L!Whole(all) \subseteq L!Whole(all') /\ id \in L!Whole(all')
  <2>1. StartOf(all, all') /\ Len(all') = Len(all) + 2 /\ Len(all) \in Nat
        /\ all'[Len(all) + 1] = <<id, 1>> /\ all'[Len(all) + 2] = <<id, 2>>
    <3>1. all \in Seq(Cell) /\ id \in Nat /\ all' = all \o L!Cells(id)
      BY <1>0, <1>1, <1>4
    <3>2. /\ StartOf(all, all \o L!Cells(id)) /\ Len(all \o L!Cells(id)) = Len(all) + 2
          /\ (all \o L!Cells(id))[Len(all) + 1] = <<id, 1>>
          /\ (all \o L!Cells(id))[Len(all) + 2] = <<id, 2>>
      BY <3>1, CellsBehind
    <3> QED BY <3>1, <3>2
  <2>2. Len(all) + 1 \in {j \in 1 .. Len(all') - 1 : all'[j][2] = 1 /\ all'[j + 1] = <<all'[j][1], 2>>}
    BY <2>1
  <2>3. id \in L!Whole(all')
    BY <2>1, <2>2 DEF L!Whole
  <2> QED BY <1>0, <1>4, <2>1, <2>3, WholeStart
<1>8. lacked' \subseteq 1 .. Len(attempts') /\ lacked' \subseteq L!Whole(all') /\ lacked \subseteq lacked'
  <2>1. lacked \subseteq 1 .. Len(attempts) /\ lacked \subseteq L!Whole(all)
    BY DEF LogInv, KeptInv
  <2>2. 1 .. Len(attempts) \subseteq 1 .. id
    BY <1>0 DEF id
  <2>3. lacked' = lacked \/ lacked' = lacked \cup {id}
    BY <1>3
  <2> QED BY <1>1, <1>6, <1>7, <2>1, <2>2, <2>3
<1>9. KeptInv' /\ dur' \in 0 .. Len(file')
  <2>1. CASE /\ file' = file \o (buf \o L!Cells(id)) /\ dur' = Len(file')
             /\ flushed' = lacked' /\ promised' = lacked'
    <3>1. file' = all' /\ SubSeq(file', 1, dur') = file' /\ dur' \in 0 .. Len(file')
      BY <1>2, <1>4, <2>1, SubSeqFull
    <3> QED BY <1>8, <2>1, <3>1 DEF KeptInv
  <2>2. CASE UNCHANGED <<file, dur, flushed, promised>>
    BY <1>0, <1>8, <2>2 DEF LogInv, KeptInv
  <2> QED BY <1>3, <2>1, <2>2
<1>10. L!TypeOK'
  BY <1>3, <1>5, <1>6, <1>9, TypeFromShape DEF LogInv, L!TypeOK, KeptInv
<1> QED BY <1>5, <1>9, <1>10 DEF LogInv

(* An fwrite fails: at most the front of the record is left.                *)
LEMMA AppendFailsInv ==
  ASSUME LogInv, L!AppendFails
  PROVE  LogInv'
<1> DEFINE id == Len(attempts) + 1
<1>0. /\ file \in Seq(Cell) /\ buf \in Seq(Cell) /\ all \in Seq(Cell)
      /\ attempts \in Seq(Nat) /\ Len(attempts) \in Nat /\ nextSeq \in Nat
  BY LogFacts
<1>1. /\ isOpen /\ attempts' = Append(attempts, nextSeq)
      /\ UNCHANGED <<sync, file, dur, isOpen, nextSeq, lacked, flushed, promised, opens>>
  BY DEF L!AppendFails
<1>2. PICK n \in 0 .. 1 : buf' = buf \o SubSeq(L!Cells(id), 1, n)
  BY DEF L!AppendFails
<1>3. id \in Nat
  BY <1>0
<1> HIDE DEF id
<1>4. buf' = buf \/ buf' = buf \o << <<id, 1>> >>
  <2>1. CASE n = 0
    <3>1. SubSeq(L!Cells(id), 1, 0) = <<>>
      BY SubSeqEmpty
    <3> QED BY <1>0, <1>2, <2>1, <3>1, ConcatEmptySeq
  <2>2. CASE n = 1
    <3>1. SubSeq(L!Cells(id), 1, 1) = << <<id, 1>> >>
      BY <1>3, FrontOfCells
    <3> QED BY <1>2, <2>2, <3>1
  <2>3. n = 0 \/ n = 1
    BY <1>2
  <2> QED BY <2>1, <2>2, <2>3
<1>5. << <<id, 1>> >> \in Seq(Cell)
  BY <1>3 DEF Cell
<1>6. buf' \in Seq(Cell) /\ (all' = all \/ all' = all \o << <<id, 1>> >>)
  <2>1. CASE buf' = buf
    BY <1>0, <1>1, <2>1 DEF all
  <2>2. CASE buf' = buf \o << <<id, 1>> >>
    <3>1. all' = file \o (buf \o << <<id, 1>> >>)
      BY <1>1, <2>2 DEF all
    <3>2. all' = (file \o buf) \o << <<id, 1>> >>
      BY <1>0, <1>5, <3>1, JoinJoin, SMTT(60)
    <3>3. buf' \in Seq(Cell)
      BY <1>0, <1>3, <2>2, CellsBehind
    <3>4. all' = all \o << <<id, 1>> >>
      BY <3>2 DEF all
    <3> QED BY <3>3, <3>4
  <2> QED BY <1>4, <2>1, <2>2
<1>7. ShapeInv' /\ SeqInv'
  <2>1. AddsCells
    BY <1>0, <1>1, <1>6 DEF AddsCells, id
  <2> QED BY <2>1, CellsAdded
<1>8. attempts' \in Seq(Nat) /\ Len(attempts') = Len(attempts) + 1
  BY <1>0, <1>1
<1>9. KeptInv'
  <2>1. all' \in Seq(Cell) /\ StartOf(all, all')
    <3>1. CASE all' = all
      BY <1>0, <3>1 DEF StartOf
    <3>2. CASE all' = all \o << <<id, 1>> >>
      BY <1>0, <1>3, <3>2, AddedIds
    <3> QED BY <1>6, <3>1, <3>2
  <2>2. L!Whole(all) \subseteq L!Whole(all')
    BY <1>0, <2>1, WholeStart
  <2>3. 1 .. Len(attempts) \subseteq 1 .. Len(attempts')
    BY <1>0, <1>8
  <2> QED BY <1>1, <2>2, <2>3 DEF LogInv, KeptInv
<1>10. L!TypeOK'
  BY <1>1, <1>7, <1>8, <1>9, TypeFromShape DEF LogInv, L!TypeOK, KeptInv
<1> QED BY <1>7, <1>9, <1>10 DEF LogInv

(* flush(), close() and stdio writing some of its buffer.                   *)
LEMMA LogFlushInv ==
  ASSUME LogInv, L!Close \/ \E doSync \in BOOLEAN : L!Flush(doSync)
  PROVE  LogInv'
<1>0. /\ file \in Seq(Cell) /\ buf \in Seq(Cell) /\ all \in Seq(Cell) /\ dur \in 0 .. Len(file)
      /\ attempts \in Seq(Nat) /\ nextSeq \in Nat /\ StartOf(file, all)
  BY LogFacts
<1>1. /\ isOpen /\ file' = all /\ buf' = <<>> /\ flushed' = lacked /\ isOpen' \in BOOLEAN
      /\ UNCHANGED <<sync, nextSeq, attempts, lacked, opens>>
      /\ \/ dur' = Len(file') /\ promised' = lacked
         \/ dur' = dur /\ promised' = promised
  BY DEF L!Close, L!Flush, all, LogInv, L!TypeOK
<1>2. all' = all
  BY <1>0, <1>1, ConcatEmptySeq DEF all
<1>3. ShapeInv' /\ SeqInv'
  BY <1>0, <1>1, <1>2, CellsMove
<1>4. KeptInv' /\ dur' \in 0 .. Len(file')
  <2>1. CASE dur' = Len(file') /\ promised' = lacked
    <3>1. SubSeq(file', 1, dur') = file' /\ dur' \in 0 .. Len(file')
      BY <1>0, <1>1, <2>1, SubSeqFull
    <3> QED BY <1>1, <1>2, <2>1, <3>1 DEF LogInv, KeptInv
  <2>2. CASE dur' = dur /\ promised' = promised
    <3>1. SubSeq(file', 1, dur') = SubSeq(file, 1, dur)
      BY <1>0, <1>1, <2>2, Starts DEF all
    <3>2. dur' \in 0 .. Len(file')
      BY <1>0, <1>1, <2>2 DEF StartOf
    <3> QED BY <1>1, <1>2, <2>2, <3>1, <3>2 DEF LogInv, KeptInv
  <2> QED BY <1>1, <2>1, <2>2
<1>5. L!TypeOK'
  BY <1>0, <1>1, <1>3, <1>4, TypeFromShape DEF LogInv, L!TypeOK, KeptInv
<1> QED BY <1>3, <1>4, <1>5 DEF LogInv

LEMMA SpillInv ==
  ASSUME LogInv, L!Spill
  PROVE  LogInv'
<1>0. /\ file \in Seq(Cell) /\ buf \in Seq(Cell) /\ all \in Seq(Cell) /\ dur \in 0 .. Len(file)
      /\ attempts \in Seq(Nat) /\ nextSeq \in Nat /\ (~isOpen => buf = <<>>)
  BY LogFacts
<1>1. buf # <<>> /\ UNCHANGED <<sync, dur, isOpen, nextSeq, attempts, lacked, flushed, promised, opens>>
  BY DEF L!Spill
<1>2. PICK n \in 1 .. Len(buf) : file' = file \o SubSeq(buf, 1, n) /\ buf' = SubSeq(buf, n + 1, Len(buf))
  BY DEF L!Spill
<1>3. SubSeq(buf, 1, n) \in Seq(Cell) /\ SubSeq(buf, n + 1, Len(buf)) \in Seq(Cell)
  BY <1>0, <1>2
<1>4. file' \in Seq(Cell) /\ buf' \in Seq(Cell)
  BY <1>0, <1>2, <1>3
<1>5. all' = all
  <2>1. SubSeq(buf, 1, n) \o SubSeq(buf, n + 1, Len(buf)) = buf
    <3>1. SubSeq(buf, 1, n) \o SubSeq(buf, n + 1, Len(buf)) = SubSeq(buf, 1, Len(buf))
      BY <1>0, <1>2, ConcatAdjacentSubSeq
    <3> QED BY <1>0, <3>1, SubSeqFull
  <2>2. all' = (file \o SubSeq(buf, 1, n)) \o SubSeq(buf, n + 1, Len(buf))
    BY <1>2 DEF all
  <2>3. all' = file \o (SubSeq(buf, 1, n) \o SubSeq(buf, n + 1, Len(buf)))
    BY <1>0, <1>3, <2>2, JoinJoin
  <2> QED BY <2>1, <2>3 DEF all
<1>6. ShapeInv' /\ SeqInv'
  BY <1>0, <1>1, <1>4, <1>5, CellsMove
<1>7. KeptInv' /\ dur' \in 0 .. Len(file')
  <2>1. SubSeq(file', 1, dur) = SubSeq(file, 1, dur) /\ StartOf(file, file')
    BY <1>0, <1>2, <1>3, Starts, ZenonT(60)
  <2>2. L!Whole(file) \subseteq L!Whole(file')
    BY <1>0, <1>4, <2>1, WholeStart
  <2>3. dur \in 0 .. Len(file')
    BY <1>0, <1>4, <2>1 DEF StartOf
  <2> QED BY <1>1, <1>5, <2>1, <2>2, <2>3 DEF LogInv, KeptInv
<1>8. L!TypeOK'
  BY <1>0, <1>1, <1>6, <1>7, TypeFromShape DEF LogInv, L!TypeOK, KeptInv
<1> QED BY <1>6, <1>7, <1>8 DEF LogInv

(* A failed close(), a crash of the process or of the machine: the file     *)
(* keeps what was on its way at least as far as it was synced.              *)
LEMMA EndInv ==
  ASSUME LogInv, L!CloseFails \/ L!ProcessCrash \/ L!PowerLoss
  PROVE  LogInv'
<1>0. /\ file \in Seq(Cell) /\ buf \in Seq(Cell) /\ all \in Seq(Cell) /\ dur \in 0 .. Len(file)
      /\ attempts \in Seq(Nat) /\ nextSeq \in Nat /\ StartOf(file, all)
  BY LogFacts
<1>1. /\ isOpen' = FALSE /\ buf' = <<>> /\ lacked' = lacked \cap L!Whole(file')
      /\ UNCHANGED <<sync, nextSeq, attempts, promised, opens>>
  BY DEF L!CloseFails, L!ProcessCrash, L!PowerLoss
<1>2. CASE L!CloseFails \/ L!ProcessCrash
  <2>1. dur' = dur /\ flushed' = flushed
    BY <1>2 DEF L!CloseFails, L!ProcessCrash
  <2>2. PICK n \in 0 .. Len(buf) : file' = file \o SubSeq(buf, 1, n)
    <3>1. CASE L!ProcessCrash
      <4>1. SubSeq(buf, 1, 0) = <<>> /\ file \o <<>> = file /\ 0 \in 0 .. Len(buf)
        BY <1>0, SubSeqEmpty, ConcatEmptySeq
      <4> QED BY <3>1, <4>1 DEF L!ProcessCrash
    <3>2. CASE L!CloseFails
      BY <3>2 DEF L!CloseFails
    <3> QED BY <1>2, <3>1, <3>2
  <2>3. SubSeq(buf, 1, n) \in Seq(Cell) /\ StartOf(SubSeq(buf, 1, n), buf)
    BY <1>0, <2>2, Starts
  <2>4. file' \in Seq(Cell) /\ StartOf(file, file') /\ SubSeq(file', 1, dur) = SubSeq(file, 1, dur)
    BY <1>0, <2>2, <2>3, Starts
  <2>5. StartOf(file', all)
    BY <1>0, <2>2, <2>3 DEF StartOf, all
  <2>6. L!Whole(file) \subseteq L!Whole(file') /\ dur \in 0 .. Len(file')
    <3>1. L!Whole(file) \subseteq L!Whole(file')
      BY <1>0, <2>4, WholeStart
    <3>2. dur \in 0 .. Len(file')
      BY <1>0, <2>4 DEF StartOf
    <3> QED BY <3>1, <3>2
  <2>7. ShapeInv' /\ SeqInv'
    BY <1>1, <2>4, <2>5, SessionEnds
  <2>8. all' = file'
    BY <1>1, <2>4, ConcatEmptySeq DEF all
  <2>9. KeptInv'
    BY <1>1, <2>1, <2>4, <2>6, <2>8 DEF LogInv, KeptInv
  <2>10. L!TypeOK'
    BY <1>0, <1>1, <2>1, <2>6, <2>7, <2>9, TypeFromShape DEF LogInv, L!TypeOK, KeptInv
  <2> QED BY <2>7, <2>9, <2>10 DEF LogInv
<1>3. CASE L!PowerLoss
  <2>1. flushed' = promised
    BY <1>3 DEF L!PowerLoss
  <2>2. PICK n \in dur .. Len(file) : file' = SubSeq(file, 1, n) /\ dur' = n
    BY <1>3 DEF L!PowerLoss
  <2>3. n \in 0 .. Len(file)
    BY <1>0, <2>2
  <2>4. file' \in Seq(Cell) /\ StartOf(file', file) /\ Len(file') = n
    BY <1>0, <2>2, <2>3, Starts
  <2>5. StartOf(file', all)
    BY <1>0, <2>4, StartTrans
  <2>6. ShapeInv' /\ SeqInv'
    BY <1>1, <2>4, <2>5, SessionEnds
  <2>7. all' = file' /\ SubSeq(file', 1, dur') = file'
    BY <1>1, <2>2, <2>4, ConcatEmptySeq, SubSeqFull DEF all
  <2>8. L!Whole(SubSeq(file, 1, dur)) \subseteq L!Whole(file')
    <3>1. SubSeq(file, 1, dur) \in Seq(Cell) /\ StartOf(SubSeq(file, 1, dur), file)
          /\ Len(SubSeq(file, 1, dur)) = dur
      BY <1>0, Starts
    <3>2. StartOf(SubSeq(file, 1, dur), file')
      BY <1>0, <2>2, <2>4, <3>1 DEF StartOf
    <3> QED BY <2>4, <3>1, <3>2, WholeStart
  <2>9. KeptInv'
    BY <1>1, <2>1, <2>7, <2>8 DEF LogInv, KeptInv
  <2>10. dur' \in 0 .. Len(file')
    BY <2>2, <2>3, <2>4
  <2>11. L!TypeOK'
    BY <1>0, <1>1, <2>6, <2>9, <2>10, TypeFromShape DEF LogInv, L!TypeOK, KeptInv
  <2> QED BY <2>6, <2>9, <2>11 DEF LogInv
<1> QED BY <1>2, <1>3

LEMMA LogStutterInv ==
  ASSUME LogInv, UNCHANGED logAll
  PROVE  LogInv'
<1>1. all' = all /\ UNCHANGED <<file, dur, buf, sync, isOpen, nextSeq, attempts, lacked, flushed, promised, opens>>
  BY DEF logAll, all
<1>2. ShapeInv' /\ SeqInv'
  BY <1>1, LogFacts, CellsMove
<1>3. KeptInv' /\ L!TypeOK'
  BY <1>1 DEF LogInv, KeptInv, L!TypeOK
<1> QED BY <1>2, <1>3 DEF LogInv

LEMMA LogInitInv == L!Init => LogInv
<1> SUFFICES ASSUME L!Init PROVE LogInv
  OBVIOUS
<1>1. all = <<>>
  BY ConcatEmptySeq DEF L!Init, all
<1>2. ShapeInv
  BY <1>1 DEF L!Init, ShapeInv
<1>3. SeqInv
  <2>1. Clean(<<>>, 0) /\ Consecutive(<<>>, 0)
    BY DEF Clean, Consecutive
  <2> QED BY <1>1, <2>1 DEF SeqInv
<1>4. KeptInv
  BY DEF L!Init, KeptInv
<1>5. L!TypeOK
  <2>1. L!ToSet(<<>>) = {}
    BY DEF L!ToSet
  <2>2. 0 \in 0 .. MaxOpens /\ 0 \in 0 .. Len(<<>>) /\ <<>> \in Seq(Nat) /\ 0 \in Nat
    BY LogAssumption
  <2>3. L!ToSet(file) \cup L!ToSet(buf) \subseteq (0 .. Len(attempts)) \X {1, 2}
    BY <2>1 DEF L!Init
  <2> QED BY <2>2, <2>3 DEF L!Init, L!TypeOK
<1> QED BY <1>2, <1>3, <1>4, <1>5 DEF LogInv

-----------------------------------------------------------------------------
(* The log file as WalReader finds it, in the two ways that LogKept and     *)
(* LogContiguous state.                                                     *)
LEMMA LogInvKept == LogInv => LogKept
<1> SUFFICES ASSUME LogInv PROVE LogKept
  OBVIOUS
<1>1. file \in Seq(Cell) /\ all \in Seq(Cell) /\ StartOf(file, all)
  BY LogFacts
<1>2. PICK n \in Nat : Clean(file, n)
  <2>1. PICK m \in Nat : Clean(all, m)
    BY DEF LogInv, SeqInv
  <2> QED BY <1>1, <2>1, CleanStart
<1>3. file # <<>> => file[1] = <<0, 1>>
  <2>1. file # <<>> => all # <<>> /\ all[1] = file[1]
    BY <1>1 DEF StartOf
  <2> QED BY <2>1 DEF LogInv, ShapeInv
<1>4. promised \subseteq L!Whole(file) /\ flushed \subseteq L!Whole(file) /\ 0 \notin flushed /\ 0 \notin promised
  BY DEF LogInv, KeptInv
<1>5. L!KeptBeforeCut(flushed) /\ L!KeptBeforeCut(promised)
  BY <1>1, <1>2, <1>3, <1>4, KeptOrCut
<1> QED BY <1>5 DEF LogInv, LogKept, L!DurableKept, L!FlushedKept

LEMMA LogInvContiguous == LogInv => LogContiguous
<1> SUFFICES ASSUME LogInv, NEW k \in 1 .. Len(L!ReadAll(file)) - 1
             PROVE  attempts[L!ReadAll(file)[k + 1]] = attempts[L!ReadAll(file)[k]] + 1
  BY DEF LogContiguous, L!ReadContiguous
<1>1. file \in Seq(Cell) /\ all \in Seq(Cell) /\ StartOf(file, all)
  BY LogFacts
<1>2. PICK n \in Nat : Clean(all, n) /\ Consecutive(all, n)
  BY DEF LogInv, SeqInv
<1>3. PICK m \in 0 .. n : Clean(file, m)
  BY <1>1, <1>2, CleanStart
<1>4. file # <<>> => file[1] = <<0, 1>>
  <2>1. file # <<>> => all # <<>> /\ all[1] = file[1]
    BY <1>1 DEF StartOf
  <2> QED BY <2>1 DEF LogInv, ShapeInv
<1>5. L!Count(file) = IF m = 0 THEN 0 ELSE m - 1
  BY <1>1, <1>3, <1>4, CleanCount
<1>6. L!Count(file) \in Nat /\ Len(L!ReadAll(file)) = L!Count(file)
      /\ \A i \in 1 .. L!Count(file) : L!ReadAll(file)[i] = file[2 * i + 1][1]
  BY <1>3, <1>5 DEF L!ReadAll
<1>7. k \in 1 .. n - 2 /\ k \in 1 .. L!Count(file) /\ k + 1 \in 1 .. L!Count(file) /\ k + 1 <= m - 1
  BY <1>3, <1>5, <1>6
<1>8. L!ReadAll(file)[k] = file[2 * k + 1][1] /\ L!ReadAll(file)[k + 1] = file[2 * k + 3][1]
  <2>1. 2 * (k + 1) + 1 = 2 * k + 3
    BY <1>7
  <2> QED BY <1>6, <1>7, <2>1
<1>9. file[2 * k + 1] = all[2 * k + 1] /\ file[2 * k + 3] = all[2 * k + 3]
  BY <1>1, <1>3, <1>7 DEF Clean, StartOf
<1> QED BY <1>2, <1>7, <1>8, <1>9 DEF Consecutive

LEMMA LogStepInv == LogInv /\ [WalNext]_<<part, vars, logAll>> => LogInv'
<1> SUFFICES ASSUME LogInv, [WalNext]_<<part, vars, logAll>> PROVE LogInv'
  OBVIOUS
<1>1. L!Next \/ UNCHANGED logAll
  BY DEF WalNext
<1>2. CASE L!Next
  BY <1>2, LogOpenInv, AppendInv, AppendFailsInv, LogFlushInv, SpillInv, EndInv DEF L!Next
<1> QED BY <1>1, <1>2, LogStutterInv

(* The protocol of one log file: what the other theorems rest on.           *)
THEOREM WalWriter_Protocol == WalSpec => []LogInv
<1>1. WalInit => LogInv
  BY LogInitInv DEF WalInit
<1> QED BY <1>1, LogStepInv, PTL DEF WalSpec

(* A record for which fsync was reported done is in the file for ever       *)
(* after, through failed writes, crashes, power loss and later sessions;    *)
(* one covered by a flush() until the machine fails; and only a cut record  *)
(* in front of it can keep WalReader from finding it.                       *)
THEOREM WalWriter_Kept == WalSpec => []LogKept
  BY WalWriter_Protocol, LogInvKept, PTL

(* WalReader sees consecutive sequence numbers across sessions, failed      *)
(* writes and records that were cut.                                        *)
THEOREM WalWriter_Contiguous == WalSpec => []LogContiguous
  BY WalWriter_Protocol, LogInvContiguous, PTL

-----------------------------------------------------------------------------
(* The directory of segments: WalManager. *)

Path == Nat \X Nat
Seg  == [recs : Seq(Nat), cut : BOOLEAN]
IsDir(d) == d \in [DOMAIN d -> Seg]

(* The invariant takes the state as parameters, for append() may roll to a  *)
(* new segment and then write: what it writes to satisfies it as well.      *)

(* The directory once the writer's buffer is written out.                   *)
Full(d, v) == IF v.open THEN FileWith(d, v.path, v.pending, v.torn) ELSE d

(* The number behind the last record of a file.                             *)
End(f, p) == p[1] + Len(f[p].recs)

NumbersOK(q) == q \in Seq(Nat) /\ Len(q) <= MaxAppends /\ \A id \in 1 .. Len(q) : q[id] < id

FilesOK(d, q, t) ==
  /\ IsDir(d) /\ DOMAIN d \subseteq Path /\ IsFiniteSet(DOMAIN d)
  /\ \A p \in DOMAIN d : p[1] <= Len(q) /\ p[2] <= t /\ d[p].recs \in Seq(1 .. Len(q))

Writer == [open : BOOLEAN, path : Path \cup {<<>>}, next : Nat, bytes : Nat,
           pending : Seq(Nat), torn : BOOLEAN]

WriterOK(v, q) ==
  /\ v \in Writer
  /\ v.next <= Len(q) /\ v.pending \in Seq(1 .. Len(q)) /\ (~v.open => v.pending = <<>>)

(* The list names every file and ends with the writer's, which is the       *)
(* newest.  Where it is cut nothing is buffered that could be read; and if  *)
(* no call fails, a cut file is an older one.                               *)
ListOK(d, t, ss, v) ==
  /\ ss \in Seq(Path) /\ ss # <<>> /\ v.path = Last(ss) /\ DOMAIN d \subseteq ToSet(ss)
  /\ Last(ss) \in DOMAIN d /\ Last(ss)[2] = t
  /\ v.open /\ d[v.path].cut => v.torn /\ v.pending = <<>>
  /\ ~IoFaults => ~v.torn /\ \A p \in DOMAIN d : d[p].cut => p[2] < t

(* Until the numbering is upset, a file holds the numbers from the one in   *)
(* its name on, and files do not overlap: of two with the same name number  *)
(* one is empty.                                                            *)
Numbered(f, q) == \A p \in DOMAIN f : \A a \in 1 .. Len(f[p].recs) : q[f[p].recs[a]] = p[1] + a - 1
Apart(f) ==
  \A p, r \in DOMAIN f : /\ p[1] < r[1] => End(f, p) <= r[1]
                         /\ p # r /\ p[1] = r[1] => f[p].recs = <<>> \/ f[r].recs = <<>>

(* The list is in the order of these numbers and names no file twice.       *)
Listed(d, ss) ==
  /\ ToSet(ss) \subseteq DOMAIN d
  /\ \A i, j \in DOMAIN ss : i < j => ss[i] # ss[j] /\ ss[i][1] <= ss[j][1]

(* global_seq_ is behind every record, and the writer is there, in a file   *)
(* that no other one overlaps and that ends there unless a record is torn.  *)
Ahead(f, v, g) ==
  /\ \A p \in DOMAIN f : End(f, p) <= g
  /\ v.open => /\ v.next = g /\ (~v.torn => End(f, v.path) = g)
               /\ \A p \in DOMAIN f \ {v.path} : End(f, p) <= v.path[1]

ScalarsOK ==
  /\ phase \in {"down", "open", "closed"} /\ clock \in 0 .. MaxSegs
  /\ globalSeq \in 0 .. Len(seqOf) /\ segCount \in 0 .. MaxRecs
  /\ ready \in BOOLEAN /\ committed \in BOOLEAN /\ upset \in BOOLEAN /\ opts \in OptionSets
  /\ acked \subseteq 1 .. Len(seqOf) /\ gone \subseteq 1 .. Len(seqOf)
  /\ lost \subseteq 1 .. Len(seqOf) /\ (IoFaults \/ lost = {})

SessionOK ==
  /\ phase = "down" => segments = <<>> /\ w = NoWriter
  /\ phase # "down" => ListOK(dir, clock, segments, w)
  /\ w.open => phase = "open"
  /\ phase # "down" /\ opts.checkpoint /\ ready => committed

Kept == acked \subseteq InFiles(dir) \cup ToSet(w.pending) \cup gone \cup lost

OrderOK ==
  ~upset => /\ Numbered(Flushed, seqOf) /\ Apart(Flushed)
            /\ phase # "down" => Listed(dir, segments)
            /\ phase = "open" => Ahead(Flushed, w, globalSeq)

ManagerInv ==
  /\ NumbersOK(seqOf) /\ FilesOK(dir, seqOf, clock) /\ WriterOK(w, seqOf)
  /\ ScalarsOK /\ SessionOK /\ Kept /\ OrderOK

-----------------------------------------------------------------------------
(* Files and directories. *)

LEMMA FileWithFacts ==
  ASSUME NEW d, IsDir(d), NEW p \in DOMAIN d, NEW more \in Seq(Nat), NEW cut \in BOOLEAN,
         NEW e, e = FileWith(d, p, more, cut)
  PROVE  /\ IsDir(e) /\ DOMAIN e = DOMAIN d
         /\ (e[p].cut <=> d[p].cut \/ cut)
         /\ e[p].recs = d[p].recs \o more
<1> DEFINE n == [recs |-> d[p].recs \o more, cut |-> d[p].cut \/ cut]
<1>1. e = [d EXCEPT ![p] = n]
  BY DEF FileWith
<1>2. n \in Seg /\ (n.cut <=> d[p].cut \/ cut) /\ n.recs = d[p].recs \o more
  <2>1. d[p] \in Seg
    BY DEF IsDir
  <2>2. d[p].recs \in Seq(Nat) /\ d[p].cut \in BOOLEAN
    BY <2>1 DEF Seg
  <2> QED BY <2>2 DEF Seg
<1> HIDE DEF n
<1> QED BY <1>1, <1>2 DEF IsDir

LEMMA FileWithOther ==
  ASSUME NEW d, IsDir(d), NEW p, NEW more, NEW cut, NEW r \in DOMAIN d \ {p}
  PROVE  FileWith(d, p, more, cut)[r] = d[r]
  BY DEF FileWith, IsDir

LEMMA FileWithNothing ==
  ASSUME NEW d, IsDir(d), NEW p \in DOMAIN d, NEW cut \in BOOLEAN, cut => d[p].cut
  PROVE  FileWith(d, p, <<>>, cut) = d
<1>1. d[p] \in Seg /\ d[p].recs \in Seq(Nat) /\ d[p].cut \in BOOLEAN
  <2>1. d[p] \in Seg
    BY DEF IsDir
  <2> QED BY <2>1 DEF Seg
<1>2. d[p].recs \o <<>> = d[p].recs
  BY <1>1, ConcatEmptySeq
<1>3. (d[p].cut \/ cut) = d[p].cut
  BY <1>1
<1>4. [recs |-> d[p].recs, cut |-> d[p].cut] = d[p]
  BY <1>1 DEF Seg
<1>5. FileWith(d, p, <<>>, cut) = [d EXCEPT ![p] = [recs |-> d[p].recs, cut |-> d[p].cut]]
  BY <1>2, <1>3 DEF FileWith
<1> QED BY <1>4, <1>5 DEF IsDir

LEMMA WithFileFacts ==
  ASSUME NEW d, IsDir(d), NEW p
  PROVE  /\ IsDir(WithFile(d, p)) /\ DOMAIN WithFile(d, p) = DOMAIN d \cup {p}
         /\ p \notin DOMAIN d => WithFile(d, p)[p] = Empty
<1>1. Empty \in Seg
  BY DEF Empty, Seg
<1>2. CASE p \in DOMAIN d
  <2>1. WithFile(d, p) = d /\ DOMAIN d \cup {p} = DOMAIN d
    BY <1>2 DEF WithFile
  <2> QED BY <1>2, <2>1
<1>3. CASE p \notin DOMAIN d
  <2>1. WithFile(d, p) = [q \in {p} \cup DOMAIN d |-> IF q = p THEN Empty ELSE d[q]]
    BY <1>3 DEF WithFile
  <2> QED BY <1>1, <1>3, <2>1 DEF IsDir
<1> QED BY <1>2, <1>3

LEMMA WithFileOld ==
  ASSUME NEW d, IsDir(d), NEW p, NEW r \in DOMAIN d
  PROVE  WithFile(d, p)[r] = d[r]
  BY DEF WithFile

LEMMA InFilesIs ==
  ASSUME NEW d, IsDir(d)
  PROVE  \A id : id \in InFiles(d) <=> \E p \in DOMAIN d : \E a \in 1 .. Len(d[p].recs) : d[p].recs[a] = id
<1>1. \A p \in DOMAIN d : d[p].recs \in Seq(Nat)
  BY DEF Seg, IsDir
<1>2. \A p \in DOMAIN d : ToSet(d[p].recs) = {d[p].recs[a] : a \in 1 .. Len(d[p].recs)}
  BY <1>1 DEF ToSet
<1>3. ASSUME NEW id
      PROVE  id \in InFiles(d) <=> \E p \in DOMAIN d : id \in ToSet(d[p].recs)
  BY DEF InFiles
<1>4. ASSUME NEW id, NEW p \in DOMAIN d
      PROVE  id \in ToSet(d[p].recs) <=> \E a \in 1 .. Len(d[p].recs) : d[p].recs[a] = id
  BY <1>2
<1> QED BY <1>3, <1>4

(* A directory that keeps the records of every file keeps them all.         *)
LEMMA InFilesGrow ==
  ASSUME NEW d, IsDir(d), NEW e, IsDir(e), DOMAIN d \subseteq DOMAIN e,
         \A p \in DOMAIN d : /\ Len(d[p].recs) <= Len(e[p].recs)
                             /\ \A a \in 1 .. Len(d[p].recs) : e[p].recs[a] = d[p].recs[a]
  PROVE  InFiles(d) \subseteq InFiles(e)
<1> SUFFICES ASSUME NEW id \in InFiles(d) PROVE id \in InFiles(e)
  OBVIOUS
<1>1. PICK p \in DOMAIN d : \E a \in 1 .. Len(d[p].recs) : d[p].recs[a] = id
  BY InFilesIs
<1>2. PICK a \in 1 .. Len(d[p].recs) : d[p].recs[a] = id
  BY <1>1
<1>3. d[p].recs \in Seq(Nat) /\ p \in DOMAIN e /\ e[p].recs \in Seq(Nat)
  BY DEF Seg, IsDir
<1>4. a \in 1 .. Len(e[p].recs) /\ e[p].recs[a] = id
  BY <1>2, <1>3
<1> QED BY <1>3, <1>4, InFilesIs

(* scan_segments() finds every file once. *)
LEMMA ScansAll ==
  ASSUME NEW d, IsFiniteSet(DOMAIN d), DOMAIN d \subseteq Path, NEW s \in Scans(d)
  PROVE  /\ s \in Seq(Path) /\ ToSet(s) = DOMAIN d
         /\ \A i, j \in DOMAIN s : i < j => s[i] # s[j] /\ s[i][1] <= s[j][1]
<1> DEFINE n == Cardinality(DOMAIN d)
<1>1. n \in Nat
  BY FS_CardinalityType
<1>2. s \in [1 .. n -> DOMAIN d] /\ \A i, j \in 1 .. n : i # j => s[i] # s[j]
  BY DEF Scans, SetToSeqs
<1>3. s \in Injection(1 .. n, DOMAIN d)
  BY <1>2 DEF Injection, IsInjective
<1>4. Cardinality(1 .. n) = n
  BY <1>1, FS_Interval
<1>5. s \in Surjection(1 .. n, DOMAIN d)
  BY <1>3, <1>4, FS_Injection
<1>6. ToSet(s) = DOMAIN d
  BY <1>2, <1>5, ZenonT(60) DEF Surjection, ToSet
<1>7. s \in Seq(Path)
  BY <1>1, <1>2
<1>8. \A i, j \in DOMAIN s : i < j => s[i][1] <= s[j][1]
  BY DEF Scans
<1> QED BY <1>1, <1>2, <1>6, <1>7, <1>8

-----------------------------------------------------------------------------
(* Lists of segments. *)

LEMMA AppendedList ==
  ASSUME NEW ss \in Seq(Path), NEW p \in Path
  PROVE  /\ Append(ss, p) \in Seq(Path) /\ Append(ss, p) # <<>> /\ Last(Append(ss, p)) = p
         /\ Len(Append(ss, p)) = Len(ss) + 1 /\ DOMAIN Append(ss, p) = 1 .. Len(ss) + 1
         /\ Append(ss, p)[Len(ss) + 1] = p
         /\ \A i \in 1 .. Len(ss) : Append(ss, p)[i] = ss[i]
         /\ ToSet(Append(ss, p)) = ToSet(ss) \cup {p}
<1>1. /\ Append(ss, p) \in Seq(Path) /\ Append(ss, p) # <<>>
      /\ Len(Append(ss, p)) = Len(ss) + 1 /\ DOMAIN Append(ss, p) = 1 .. Len(ss) + 1
      /\ Append(ss, p)[Len(ss) + 1] = p
      /\ \A i \in 1 .. Len(ss) : Append(ss, p)[i] = ss[i]
  OBVIOUS
<1>2. Last(Append(ss, p)) = p
  BY <1>1 DEF Last
<1>3. ToSet(Append(ss, p)) = ToSet(ss) \cup {p}
  <2>1. DOMAIN ss = 1 .. Len(ss) /\ Len(ss) \in Nat
    OBVIOUS
  <2>2. 1 .. Len(ss) + 1 = 1 .. Len(ss) \cup {Len(ss) + 1}
    BY <2>1
  <2> QED BY <1>1, <2>1, <2>2 DEF ToSet
<1> QED BY <1>1, <1>2, <1>3

LEMMA RemovedFromList ==
  ASSUME NEW ss \in Seq(Path), NEW i \in 1 .. Len(ss), ss[i] # Last(ss)
  PROVE  /\ RemoveAt(ss, i) \in Seq(Path) /\ Len(RemoveAt(ss, i)) = Len(ss) - 1 /\ RemoveAt(ss, i) # <<>>
         /\ \A k \in 1 .. Len(ss) - 1 : RemoveAt(ss, i)[k] = IF k < i THEN ss[k] ELSE ss[k + 1]
         /\ Last(RemoveAt(ss, i)) = Last(ss)
         /\ \A r \in ToSet(ss) : r # ss[i] => r \in ToSet(RemoveAt(ss, i))
<1>0. Len(ss) \in Nat /\ i < Len(ss)
  BY DEF Last
<1> DEFINE a == SubSeq(ss, 1, i - 1)
           b == SubSeq(ss, i + 1, Len(ss))
<1>1. a \in Seq(Path) /\ Len(a) = i - 1 /\ \A k \in 1 .. i - 1 : a[k] = ss[k]
  BY <1>0
<1>2. b \in Seq(Path) /\ Len(b) = Len(ss) - i /\ \A k \in 1 .. Len(ss) - i : b[k] = ss[i + k]
  BY <1>0
<1>3. RemoveAt(ss, i) = a \o b
  BY DEF RemoveAt
<1> HIDE DEF a, b
<1>4. a \o b \in Seq(Path) /\ Len(a \o b) = Len(ss) - 1
  <2>1. a \o b \in Seq(Path) /\ Len(a \o b) = Len(a) + Len(b)
    BY <1>1, <1>2, ConcatProperties
  <2>2. (i - 1) + (Len(ss) - i) = Len(ss) - 1
    BY <1>0
  <2> QED BY <1>1, <1>2, <2>1, <2>2
<1>5. \A k \in 1 .. Len(ss) - 1 : (a \o b)[k] = IF k < i THEN ss[k] ELSE ss[k + 1]
  <2> SUFFICES ASSUME NEW k \in 1 .. Len(ss) - 1
               PROVE  (a \o b)[k] = IF k < i THEN ss[k] ELSE ss[k + 1]
    OBVIOUS
  <2>1. CASE k < i
    BY <1>0, <1>1, <1>2, <2>1
  <2>2. CASE k >= i
    <3>1. k - Len(a) \in 1 .. Len(ss) - i /\ i + (k - Len(a)) = k + 1 /\ k \in Len(a) + 1 .. Len(a) + Len(b)
      BY <1>0, <1>1, <1>2, <2>2
    <3>2. (a \o b)[k] = b[k - Len(a)]
      BY <1>1, <1>2, <3>1, ConcatProperties
    <3>3. b[k - Len(a)] = ss[k + 1]
      BY <1>2, <3>1
    <3>4. ~(k < i)
      BY <1>0, <2>2
    <3> QED BY <3>2, <3>3, <3>4
  <2>3. k < i \/ k >= i
    BY <1>0
  <2> QED BY <2>1, <2>2, <2>3
<1>6. a \o b # <<>>
  BY <1>0, <1>4
<1>7. Last(a \o b) = Last(ss)
  <2>1. Len(ss) - 1 \in 1 .. Len(ss) - 1 /\ ~(Len(ss) - 1 < i) /\ (Len(ss) - 1) + 1 = Len(ss)
    BY <1>0
  <2>2. (a \o b)[Len(ss) - 1] = ss[Len(ss)]
    BY <1>5, <2>1
  <2> QED BY <1>4, <2>2 DEF Last
<1>8. ASSUME NEW r \in ToSet(ss), r # ss[i]
      PROVE  r \in ToSet(a \o b)
  <2>1. PICK k \in 1 .. Len(ss) : ss[k] = r
    BY DEF ToSet
  <2>2. k # i
    BY <1>8, <2>1
  <2> DEFINE m == IF k < i THEN k ELSE k - 1
  <2>3. m \in 1 .. Len(ss) - 1 /\ (IF m < i THEN ss[m] ELSE ss[m + 1]) = ss[k]
    BY <1>0, <2>1, <2>2
  <2> HIDE DEF m
  <2>4. (a \o b)[m] = r /\ m \in DOMAIN (a \o b)
    BY <1>4, <1>5, <2>1, <2>3
  <2> QED BY <2>4 DEF ToSet
<1> QED BY <1>3, <1>4, <1>5, <1>6, <1>7, <1>8

-----------------------------------------------------------------------------
(* A new segment: what open() and roll_locked() do, with f the directory    *)
(* they find and g the number they take.                                    *)

LEMMA AfterBound ==
  ASSUME NumbersOK(seqOf), NEW recs \in Seq(1 .. Len(seqOf))
  PROVE  After(recs) \in 0 .. Len(seqOf)
<1>0. Len(seqOf) \in Nat /\ Len(recs) \in Nat
  BY DEF NumbersOK
<1>1. CASE recs = <<>>
  BY <1>0, <1>1 DEF After
<1>2. CASE recs # <<>>
  <2>1. recs[Len(recs)] \in 1 .. Len(seqOf)
    BY <1>2
  <2>2. seqOf[recs[Len(recs)]] \in Nat /\ seqOf[recs[Len(recs)]] < recs[Len(recs)]
    BY <2>1 DEF NumbersOK
  <2> QED BY <1>0, <1>2, <2>1, <2>2 DEF After, Last
<1> QED BY <1>1, <1>2

LEMMA NewFileShape ==
  ASSUME NumbersOK(seqOf), NEW f, NEW c \in Nat, FilesOK(f, seqOf, c), NEW g \in 0 .. Len(seqOf),
         NEW t \in Nat, c <= t, NEW ss \in Seq(Path), DOMAIN f \subseteq ToSet(ss),
         ~IoFaults => \A r \in DOMAIN f : f[r].cut => r[2] < t, NEW p, p = <<g, t>>
  PROVE  /\ FilesOK(WithFile(f, p), seqOf, t) /\ WriterOK(OpenAt(f, p, g), seqOf)
         /\ ListOK(WithFile(f, p), t, Append(ss, p), OpenAt(f, p, g))
         /\ InFiles(f) \subseteq InFiles(WithFile(f, p)) /\ DOMAIN f \subseteq DOMAIN WithFile(f, p)
         /\ Full(WithFile(f, p), OpenAt(f, p, g)) = WithFile(f, p)
<1> DEFINE d == WithFile(f, p)
<1>0. /\ IsDir(f) /\ DOMAIN f \subseteq Path /\ IsFiniteSet(DOMAIN f)
      /\ \A r \in DOMAIN f : r[1] <= Len(seqOf) /\ r[2] <= c /\ f[r].recs \in Seq(1 .. Len(seqOf))
      /\ Len(seqOf) \in Nat
  BY DEF FilesOK, NumbersOK
<1>1. p \in Path /\ p[1] = g /\ p[2] = t
  BY <1>0 DEF Path
<1>2. /\ IsDir(d) /\ DOMAIN d = DOMAIN f \cup {p}
      /\ \A r \in DOMAIN f : d[r] = f[r]
      /\ p \notin DOMAIN f => d[p] = Empty
  <2>1. IsDir(f)
    BY <1>0
  <2>2. IsDir(d)
    BY <2>1, WithFileFacts
  <2>3. DOMAIN d = DOMAIN f \cup {p}
    BY <2>1, WithFileFacts
  <2>4. \A r \in DOMAIN f : d[r] = f[r]
    BY <2>1, WithFileOld
  <2>5. p \notin DOMAIN f => d[p] = Empty
    BY <2>1, WithFileFacts
  <2> QED BY <2>2, <2>3, <2>4, <2>5
<1> HIDE DEF d
<1>3. p \notin DOMAIN f => d[p].recs = <<>> /\ ~d[p].cut
  BY <1>2 DEF Empty
<1>4. FilesOK(d, seqOf, t)
  <2>1. IsFiniteSet(DOMAIN f \cup {p})
    BY <1>0, FS_AddElement
  <2>2. ASSUME NEW r \in DOMAIN d
        PROVE  r[1] <= Len(seqOf) /\ r[2] <= t /\ d[r].recs \in Seq(1 .. Len(seqOf))
    <3>1. CASE r \in DOMAIN f
      <4>1. r[2] \in Nat
        BY <1>0, <3>1 DEF Path
      <4> QED BY <1>0, <1>2, <3>1, <4>1
    <3>2. CASE r = p /\ p \notin DOMAIN f
      <4>1. r[1] <= Len(seqOf) /\ r[2] <= t
        BY <1>0, <1>1, <3>2
      <4>2. d[r].recs = <<>> /\ <<>> \in Seq(1 .. Len(seqOf))
        BY <1>3, <3>2
      <4> QED BY <4>1, <4>2
    <3> QED BY <1>2, <3>1, <3>2
  <2>3. DOMAIN d \subseteq Path
    BY <1>0, <1>1, <1>2
  <2>4. IsDir(d)
    BY <1>2
  <2> QED BY <1>2, <2>1, <2>2, <2>3, <2>4 DEF FilesOK
<1> DEFINE v == OpenAt(f, p, g)
<1>5. v.open = TRUE /\ v.path = p /\ v.pending = <<>> /\ v.bytes = 0
      /\ v = [open |-> TRUE, path |-> p, next |-> v.next, bytes |-> 0, pending |-> <<>>, torn |-> v.torn]
      /\ v.next = (IF p \in DOMAIN f THEN After(f[p].recs) ELSE g)
      /\ v.torn \in BOOLEAN /\ (v.torn <=> p \in DOMAIN f /\ f[p].cut)
  <2> DEFINE torn == p \in DOMAIN f /\ f[p].cut
             next == IF p \in DOMAIN f THEN After(f[p].recs) ELSE g
  <2>1. v = [open |-> TRUE, path |-> p, next |-> next, bytes |-> 0, pending |-> <<>>, torn |-> torn]
    BY DEF OpenAt
  <2>2. torn \in BOOLEAN /\ (torn <=> p \in DOMAIN f /\ f[p].cut)
    OBVIOUS
  <2>3. next = IF p \in DOMAIN f THEN After(f[p].recs) ELSE g
    OBVIOUS
  <2> HIDE DEF torn, next, v
  <2>4. v.torn = torn /\ v.next = next /\ v.open = TRUE /\ v.path = p /\ v.pending = <<>> /\ v.bytes = 0
    BY <2>1
  <2> QED BY <2>1, <2>2, <2>3, <2>4
<1> HIDE DEF v
<1>6. WriterOK(v, seqOf)
  <2>1. v.next \in 0 .. Len(seqOf)
    <3>1. CASE p \in DOMAIN f
      BY <1>0, <1>5, <3>1, AfterBound
    <3>2. CASE p \notin DOMAIN f
      BY <1>5, <3>2
    <3> QED BY <3>1, <3>2
  <2>2. v.next \in Nat /\ v.next <= Len(seqOf)
    BY <1>0, <2>1
  <2>3. v \in Writer
    <3>1. \A n \in Nat, torn \in BOOLEAN :
            [open |-> TRUE, path |-> p, next |-> n, bytes |-> 0, pending |-> <<>>, torn |-> torn] \in Writer
      BY <1>1 DEF Writer
    <3> QED BY <1>5, <2>2, <3>1
  <2>4. <<>> \in Seq(1 .. Len(seqOf))
    OBVIOUS
  <2> QED BY <1>5, <2>2, <2>3, <2>4 DEF WriterOK
<1>7. ListOK(d, t, Append(ss, p), v)
  <2>1. Append(ss, p) \in Seq(Path) /\ Append(ss, p) # <<>> /\ Last(Append(ss, p)) = p
        /\ ToSet(Append(ss, p)) = ToSet(ss) \cup {p}
    BY <1>1, AppendedList
  <2>2. d[p].cut => v.torn /\ v.pending = <<>>
    BY <1>2, <1>3, <1>5
  <2>3. ASSUME ~IoFaults
        PROVE  ~v.torn /\ \A r \in DOMAIN d : d[r].cut => r[2] < t
    <3>1. \A r \in DOMAIN d : d[r].cut => r[2] < t
      BY <1>2, <1>3, <2>3
    <3>2. ~v.torn
      <4>1. p \in DOMAIN f /\ f[p].cut => p[2] < t
        BY <2>3
      <4> QED BY <1>1, <1>5, <4>1
    <3> QED BY <3>1, <3>2
  <2> QED BY <1>1, <1>2, <1>5, <2>1, <2>2, <2>3 DEF ListOK
<1>8. InFiles(f) \subseteq InFiles(d)
  <2>1. IsDir(d) /\ DOMAIN f \subseteq DOMAIN d
    BY <1>2
  <2>2. \A r \in DOMAIN f : /\ Len(f[r].recs) <= Len(d[r].recs)
                             /\ \A a \in 1 .. Len(f[r].recs) : d[r].recs[a] = f[r].recs[a]
    <3>1. \A r \in DOMAIN f : Len(f[r].recs) \in Nat
      BY <1>0
    <3> QED BY <1>2, <3>1
  <2>3. IsDir(f)
    BY <1>0
  <2> QED BY <2>1, <2>2, <2>3, InFilesGrow
<1>9. Full(d, v) = d
  <2>1. IsDir(d) /\ p \in DOMAIN d /\ v.torn \in BOOLEAN /\ (v.torn => d[p].cut)
    BY <1>2, <1>5
  <2> QED BY <1>5, <2>1, FileWithNothing DEF Full
<1> QED BY <1>2, <1>4, <1>6, <1>7, <1>8, <1>9 DEF d, v

LEMMA NewFileOrder ==
  ASSUME NumbersOK(seqOf), NEW f, NEW c \in Nat, FilesOK(f, seqOf, c), NEW g \in 0 .. Len(seqOf),
         NEW t \in Nat, NEW ss \in Seq(Path), NEW p, p = <<g, t>>, p \notin DOMAIN f,
         Numbered(f, seqOf), Apart(f), Listed(f, ss), \A r \in DOMAIN f : End(f, r) <= g
  PROVE  /\ Numbered(WithFile(f, p), seqOf) /\ Apart(WithFile(f, p)) /\ Listed(WithFile(f, p), Append(ss, p))
         /\ Ahead(WithFile(f, p), OpenAt(f, p, g), g)
<1> DEFINE d == WithFile(f, p)
<1>0. /\ IsDir(f) /\ DOMAIN f \subseteq Path /\ Len(seqOf) \in Nat
      /\ \A r \in DOMAIN f : r[1] \in Nat /\ f[r].recs \in Seq(1 .. Len(seqOf)) /\ Len(f[r].recs) \in Nat
  BY DEF FilesOK, NumbersOK, Path
<1>1. p \in Path /\ p[1] = g /\ g \in Nat
  BY <1>0 DEF Path
<1>2. /\ DOMAIN d = DOMAIN f \cup {p} /\ d[p].recs = <<>>
      /\ \A r \in DOMAIN f : d[r] = f[r]
  <2>1. IsDir(f)
    BY <1>0
  <2>2. DOMAIN d = DOMAIN f \cup {p} /\ d[p] = Empty
    BY <2>1, WithFileFacts
  <2>3. \A r \in DOMAIN f : d[r] = f[r]
    BY <2>1, WithFileOld
  <2> QED BY <2>2, <2>3 DEF Empty
<1> HIDE DEF d
<1>3. /\ End(d, p) = g
      /\ \A r \in DOMAIN f : End(d, r) = End(f, r) /\ End(f, r) \in Nat /\ r[1] <= End(f, r)
  BY <1>0, <1>1, <1>2 DEF End
<1>4. Numbered(d, seqOf)
  <2>1. \A a \in 1 .. Len(d[p].recs) : FALSE
    BY <1>2
  <2>2. \A r \in DOMAIN f : \A a \in 1 .. Len(d[r].recs) : seqOf[d[r].recs[a]] = r[1] + a - 1
    BY <1>2 DEF Numbered
  <2> QED BY <1>2, <2>1, <2>2 DEF Numbered
<1>5. Apart(d)
  <2> SUFFICES ASSUME NEW a \in DOMAIN d, NEW b \in DOMAIN d
               PROVE  /\ a[1] < b[1] => End(d, a) <= b[1]
                      /\ a # b /\ a[1] = b[1] => d[a].recs = <<>> \/ d[b].recs = <<>>
    BY DEF Apart
  <2>1. CASE a = p
    <3>1. b \in DOMAIN f => b[1] <= g
      BY <1>0, <1>1, <1>3
    <3>2. ~(a[1] < b[1])
      BY <1>0, <1>1, <1>2, <2>1, <3>1
    <3> QED BY <1>2, <2>1, <3>2
  <2>2. CASE b = p
    BY <1>1, <1>2, <1>3, <2>2
  <2>3. CASE a \in DOMAIN f /\ b \in DOMAIN f
    BY <1>2, <1>3, <2>3 DEF Apart
  <2> QED BY <1>2, <2>1, <2>2, <2>3
<1>6. Listed(d, Append(ss, p))
  <2>1. /\ DOMAIN Append(ss, p) = 1 .. Len(ss) + 1 /\ Append(ss, p)[Len(ss) + 1] = p
        /\ \A i \in 1 .. Len(ss) : Append(ss, p)[i] = ss[i]
        /\ ToSet(Append(ss, p)) = ToSet(ss) \cup {p}
    BY <1>1, AppendedList
  <2>2. Len(ss) \in Nat /\ DOMAIN ss = 1 .. Len(ss) /\ \A i \in 1 .. Len(ss) : ss[i] \in ToSet(ss)
    BY DEF ToSet
  <2>3. \A i \in 1 .. Len(ss) : ss[i] # p /\ ss[i][1] <= g
    <3>1. \A i \in 1 .. Len(ss) : ss[i] \in DOMAIN f
      BY <2>2 DEF Listed
    <3>2. \A r \in DOMAIN f : r # p /\ r[1] <= g
      <4>1. \A r \in DOMAIN f : r[1] \in Nat /\ End(f, r) \in Nat /\ r[1] <= End(f, r) /\ End(f, r) <= g
        BY <1>0, <1>3
      <4> QED BY <1>1, <4>1
    <3> QED BY <3>1, <3>2
  <2> SUFFICES ASSUME NEW i \in 1 .. Len(ss) + 1, NEW j \in 1 .. Len(ss) + 1, i < j
               PROVE  Append(ss, p)[i] # Append(ss, p)[j] /\ Append(ss, p)[i][1] <= Append(ss, p)[j][1]
    BY <1>2, <2>1 DEF Listed
  <2>4. i \in 1 .. Len(ss)
    BY <2>2
  <2>5. CASE j = Len(ss) + 1
    BY <1>1, <2>1, <2>3, <2>4, <2>5
  <2>6. CASE j # Len(ss) + 1
    <3>1. j \in 1 .. Len(ss)
      BY <2>2, <2>6
    <3> QED BY <2>1, <2>2, <2>4, <3>1 DEF Listed
  <2> QED BY <2>5, <2>6
<1>7. Ahead(d, OpenAt(f, p, g), g)
  <2>1. OpenAt(f, p, g).path = p /\ OpenAt(f, p, g).next = g
    BY DEF OpenAt
  <2>2. \A r \in DOMAIN d : End(d, r) <= g
    BY <1>1, <1>2, <1>3
  <2>3. \A r \in DOMAIN d \ {p} : End(d, r) <= p[1]
    BY <1>1, <2>2
  <2> QED BY <1>3, <2>1, <2>2, <2>3 DEF Ahead
<1> QED BY <1>4, <1>5, <1>6, <1>7 DEF d

-----------------------------------------------------------------------------
(* Writing to a file. *)

LEMMA FileWithAll ==
  ASSUME NEW d, NEW q, NEW t, FilesOK(d, q, t), Len(q) \in Nat, NEW p \in DOMAIN d, NEW cut \in BOOLEAN,
         NEW more \in Seq(1 .. Len(q)), NEW e, e = FileWith(d, p, more, cut)
  PROVE  /\ FilesOK(e, q, t) /\ DOMAIN e = DOMAIN d
         /\ (e[p].cut <=> d[p].cut \/ cut)
         /\ \A r \in DOMAIN d \ {p} : e[r] = d[r]
         /\ e[p].recs = d[p].recs \o more
         /\ InFiles(d) \cup ToSet(more) \subseteq InFiles(e)
<1>0. /\ IsDir(d) /\ DOMAIN d \subseteq Path /\ IsFiniteSet(DOMAIN d)
      /\ \A r \in DOMAIN d : r[1] <= Len(q) /\ r[2] <= t /\ d[r].recs \in Seq(1 .. Len(q))
  BY DEF FilesOK
<1>1. more \in Seq(Nat)
  <2>1. 1 .. Len(q) \subseteq Nat
    OBVIOUS
  <2>2. Len(more) \in Nat /\ more \in [1 .. Len(more) -> Nat]
    BY <2>1
  <2> QED BY <2>2
<1>2. IsDir(e) /\ DOMAIN e = DOMAIN d /\ (e[p].cut <=> d[p].cut \/ cut) /\ e[p].recs = d[p].recs \o more
  <2> DEFINE x == cut
  <2>1. x \in BOOLEAN /\ e = FileWith(d, p, more, x)
    OBVIOUS
  <2> HIDE DEF x
  <2>2. /\ IsDir(e) /\ DOMAIN e = DOMAIN d /\ (e[p].cut <=> d[p].cut \/ x)
        /\ e[p].recs = d[p].recs \o more
    BY <1>0, <1>1, <2>1, FileWithFacts, SMTT(60)
  <2> QED BY <2>2 DEF x
<1>3. \A r \in DOMAIN d \ {p} : e[r] = d[r]
  BY <1>0, FileWithOther
<1>5. e[p].recs \in Seq(1 .. Len(q))
  BY <1>0, <1>2, ConcatProperties
<1>6. FilesOK(e, q, t)
  BY <1>0, <1>2, <1>3, <1>5 DEF FilesOK
<1>7. /\ d[p].recs \in Seq(1 .. Len(q)) /\ Len(e[p].recs) = Len(d[p].recs) + Len(more)
      /\ \A a \in 1 .. Len(d[p].recs) : e[p].recs[a] = d[p].recs[a]
      /\ \A a \in 1 .. Len(more) : e[p].recs[Len(d[p].recs) + a] = more[a]
  <2>1. d[p].recs \in Seq(1 .. Len(q))
    BY <1>0
  <2> QED BY <1>2, <2>1
<1>8. InFiles(d) \subseteq InFiles(e)
  <2>1. \A r \in DOMAIN d : /\ Len(d[r].recs) <= Len(e[r].recs)
                            /\ \A a \in 1 .. Len(d[r].recs) : e[r].recs[a] = d[r].recs[a]
    <3>1. \A r \in DOMAIN d : Len(d[r].recs) \in Nat
      BY <1>0
    <3>2. Len(more) \in Nat
      OBVIOUS
    <3>3. ASSUME NEW r \in DOMAIN d
          PROVE  /\ Len(d[r].recs) <= Len(e[r].recs)
                 /\ \A a \in 1 .. Len(d[r].recs) : e[r].recs[a] = d[r].recs[a]
      <4>1. CASE r = p
        <5>1. Len(d[p].recs) <= Len(e[p].recs)
          BY <1>7, <3>2
        <5> QED BY <1>7, <4>1, <5>1
      <4>2. CASE r # p
        BY <1>3, <3>1, <4>2
      <4> QED BY <4>1, <4>2
    <3> QED BY <3>3
  <2>2. IsDir(d) /\ IsDir(e) /\ DOMAIN d \subseteq DOMAIN e
    BY <1>0, <1>2
  <2> QED BY <2>1, <2>2, InFilesGrow
<1>9. ToSet(more) \subseteq InFiles(e)
  <2> SUFFICES ASSUME NEW a \in 1 .. Len(more) PROVE more[a] \in InFiles(e)
    BY DEF ToSet
  <2>1. e[p].recs[Len(d[p].recs) + a] = more[a]
    BY <1>7
  <2>2. Len(d[p].recs) \in Nat /\ Len(more) \in Nat /\ Len(e[p].recs) = Len(d[p].recs) + Len(more)
    BY <1>7
  <2>3. Len(d[p].recs) + a \in 1 .. Len(e[p].recs)
    BY <2>2
  <2> QED BY <1>2, <2>1, <2>3, InFilesIs
<1> QED BY <1>2, <1>3, <1>6, <1>8, <1>9

(* What the manager finds and leaves when it writes its buffer out.         *)
LEMMA FlushFacts ==
  ASSUME ManagerInv
  PROVE  /\ FilesOK(Flushed, seqOf, clock) /\ DOMAIN Flushed = DOMAIN dir
         /\ \A r \in DOMAIN dir : Flushed[r].cut => dir[r].cut \/ (w.open /\ w.torn)
         /\ w.open => (Flushed[w.path].cut <=> dir[w.path].cut \/ w.torn)
         /\ InFiles(dir) \cup ToSet(w.pending) \subseteq InFiles(Flushed)
         /\ Flushed = Full(dir, w)
<1>0. FilesOK(dir, seqOf, clock) /\ Len(seqOf) \in Nat /\ w.pending \in Seq(1 .. Len(seqOf))
      /\ w.torn \in BOOLEAN
  BY DEF ManagerInv, NumbersOK, WriterOK, Writer
<1>1. Flushed = Full(dir, w)
  BY DEF Flushed, Full
<1>2. CASE w.open
  <2>1. w.path \in DOMAIN dir
    <3>1. ListOK(dir, clock, segments, w) /\ clock \in Nat
      BY <1>2, OptionAssumption DEF ManagerInv, SessionOK, ScalarsOK
    <3> QED BY <3>1 DEF ListOK
  <2>2. Flushed = FileWith(dir, w.path, w.pending, w.torn)
    BY <1>2 DEF Flushed
  <2>3. /\ FilesOK(Flushed, seqOf, clock) /\ DOMAIN Flushed = DOMAIN dir
        /\ (Flushed[w.path].cut <=> dir[w.path].cut \/ w.torn)
        /\ \A r \in DOMAIN dir \ {w.path} : Flushed[r] = dir[r]
        /\ InFiles(dir) \cup ToSet(w.pending) \subseteq InFiles(Flushed)
    BY <1>0, <2>1, <2>2, FileWithAll
  <2>4. \A r \in DOMAIN dir : Flushed[r].cut => dir[r].cut \/ w.torn
    BY <2>3
  <2> QED BY <1>1, <1>2, <2>3, <2>4
<1>3. CASE ~w.open
  <2>1. Flushed = dir /\ w.pending = <<>>
    BY <1>3 DEF Flushed, ManagerInv, WriterOK
  <2>2. ToSet(<<>>) = {}
    BY DEF ToSet
  <2> QED BY <1>0, <1>1, <1>3, <2>1, <2>2
<1> QED BY <1>2, <1>3

-----------------------------------------------------------------------------
(* How numbers and files change. *)

LEMMA LongerNumbers ==
  ASSUME NEW q, NumbersOK(q), NEW n \in 0 .. Len(q), Len(q) + 1 <= MaxAppends
  PROVE  /\ NumbersOK(Append(q, n)) /\ Len(Append(q, n)) = Len(q) + 1 /\ Append(q, n)[Len(q) + 1] = n
         /\ \A id \in 1 .. Len(q) : Append(q, n)[id] = q[id]
<1>1. q \in Seq(Nat) /\ Len(q) \in Nat /\ n \in Nat /\ n < Len(q) + 1
  BY DEF NumbersOK
<1>2. /\ Append(q, n) \in Seq(Nat) /\ Len(Append(q, n)) = Len(q) + 1 /\ Append(q, n)[Len(q) + 1] = n
      /\ \A id \in 1 .. Len(q) : Append(q, n)[id] = q[id]
  BY <1>1
<1>3. \A id \in 1 .. Len(q) + 1 : Append(q, n)[id] < id
  BY <1>1, <1>2 DEF NumbersOK
<1> QED BY <1>2, <1>3 DEF NumbersOK

LEMMA WiderSeq ==
  ASSUME NEW m \in Nat, NEW n \in Nat, m <= n, NEW s \in Seq(1 .. m)
  PROVE  s \in Seq(1 .. n)
<1>1. 1 .. m \subseteq 1 .. n
  OBVIOUS
<1>2. Len(s) \in Nat /\ s \in [1 .. Len(s) -> 1 .. n]
  BY <1>1
<1> QED BY <1>2

LEMMA FilesWider ==
  ASSUME NEW d, NEW q, NEW r, NEW t, FilesOK(d, q, t), Len(q) \in Nat, Len(r) \in Nat, Len(q) <= Len(r)
  PROVE  FilesOK(d, r, t)
<1>1. \A p \in DOMAIN d : p[1] \in Nat
  BY DEF FilesOK, Path
<1>2. \A p \in DOMAIN d : p[1] <= Len(r) /\ d[p].recs \in Seq(1 .. Len(r))
  BY <1>1, WiderSeq DEF FilesOK
<1> QED BY <1>2 DEF FilesOK

LEMMA InFilesRange ==
  ASSUME NEW d, NEW q, NEW t, FilesOK(d, q, t)
  PROVE  InFiles(d) \subseteq 1 .. Len(q)
<1> SUFFICES ASSUME NEW id \in InFiles(d) PROVE id \in 1 .. Len(q)
  OBVIOUS
<1>1. IsDir(d) /\ \A p \in DOMAIN d : d[p].recs \in Seq(1 .. Len(q))
  BY DEF FilesOK
<1>2. PICK p \in DOMAIN d : \E a \in 1 .. Len(d[p].recs) : d[p].recs[a] = id
  BY <1>1, InFilesIs
<1>3. d[p].recs \in Seq(1 .. Len(q))
  BY <1>1
<1> QED BY <1>2, <1>3

(* Files that are removed, or lose records at their ends, stay apart.       *)
LEMMA ShorterOrder ==
  ASSUME NEW f, NEW q, NEW t, FilesOK(f, q, t), NEW h, FilesOK(h, q, t), DOMAIN h \subseteq DOMAIN f,
         \A p \in DOMAIN h : /\ Len(h[p].recs) <= Len(f[p].recs)
                             /\ \A a \in 1 .. Len(h[p].recs) : h[p].recs[a] = f[p].recs[a],
         Numbered(f, q), Apart(f)
  PROVE  Numbered(h, q) /\ Apart(h)
<1>1. \A p \in DOMAIN h : /\ p \in DOMAIN f /\ p[1] \in Nat /\ Len(h[p].recs) \in Nat /\ Len(f[p].recs) \in Nat
                          /\ h[p].recs \in Seq(1 .. Len(q))
  BY DEF FilesOK, Path
<1>2. Numbered(h, q)
  <2> SUFFICES ASSUME NEW p \in DOMAIN h, NEW a \in 1 .. Len(h[p].recs)
               PROVE  q[h[p].recs[a]] = p[1] + a - 1
    BY DEF Numbered
  <2>1. a \in 1 .. Len(f[p].recs)
    BY <1>1
  <2> QED BY <1>1, <2>1 DEF Numbered
<1>3. \A p \in DOMAIN h : End(h, p) <= End(f, p) /\ End(h, p) \in Nat /\ End(f, p) \in Nat
  BY <1>1 DEF End
<1>4. \A p \in DOMAIN h : f[p].recs = <<>> => h[p].recs = <<>>
  BY <1>1
<1> SUFFICES ASSUME NEW p \in DOMAIN h, NEW r \in DOMAIN h
             PROVE  /\ p[1] < r[1] => End(h, p) <= r[1]
                    /\ p # r /\ p[1] = r[1] => h[p].recs = <<>> \/ h[r].recs = <<>>
  BY <1>2 DEF Apart
<1>5. p[1] < r[1] => End(f, p) <= r[1]
  BY <1>1 DEF Apart
<1>6. p # r /\ p[1] = r[1] => f[p].recs = <<>> \/ f[r].recs = <<>>
  BY <1>1 DEF Apart
<1> QED BY <1>1, <1>3, <1>4, <1>5, <1>6

(* One more record at the end of the writer's file.                         *)
LEMMA AddRecord ==
  ASSUME NEW f, NEW q, NEW t, FilesOK(f, q, t), NumbersOK(q), NEW h, DOMAIN h = DOMAIN f,
         NEW p \in DOMAIN f, \A r \in DOMAIN f \ {p} : h[r] = f[r],
         h[p].recs = f[p].recs \o <<Len(q) + 1>>, NEW g \in 0 .. Len(q),
         Numbered(f, q), Apart(f), NEW v, v.open, ~v.torn, v.path = p, Ahead(f, v, g),
         NEW u, u.path = p, u.next = g + 1
  PROVE  Numbered(h, Append(q, g)) /\ Apart(h) /\ Ahead(h, u, g + 1)
<1>0. q \in Seq(Nat) /\ Len(q) \in Nat /\ g \in Nat
  BY DEF NumbersOK
<1>1. \A r \in DOMAIN f : r[1] \in Nat /\ f[r].recs \in Seq(1 .. Len(q)) /\ Len(f[r].recs) \in Nat
  BY DEF FilesOK, Path
<1>2. /\ Len(h[p].recs) = Len(f[p].recs) + 1 /\ h[p].recs[Len(f[p].recs) + 1] = Len(q) + 1
      /\ \A a \in 1 .. Len(f[p].recs) : h[p].recs[a] = f[p].recs[a]
  <2>1. f[p].recs \in Seq(1 .. Len(q))
    BY <1>1
  <2> QED BY <2>1
<1>3. Append(q, g)[Len(q) + 1] = g /\ \A id \in 1 .. Len(q) : Append(q, g)[id] = q[id]
  BY <1>0
<1>4. /\ End(f, p) = g /\ \A r \in DOMAIN f \ {p} : End(f, r) <= p[1]
      /\ \A r \in DOMAIN f : End(f, r) \in Nat /\ r[1] <= End(f, r) /\ End(f, r) <= g
  <2>1. \A r \in DOMAIN f : End(f, r) \in Nat /\ r[1] <= End(f, r)
    BY <1>1 DEF End
  <2> QED BY <2>1 DEF Ahead
<1>5. End(h, p) = g + 1 /\ \A r \in DOMAIN f \ {p} : End(h, r) = End(f, r)
  <2>0. p[1] \in Nat /\ Len(f[p].recs) \in Nat
    BY <1>1
  <2>1. p[1] + (Len(f[p].recs) + 1) = (p[1] + Len(f[p].recs)) + 1
    BY <2>0
  <2> QED BY <1>2, <1>4, <2>1 DEF End
<1>6. Numbered(h, Append(q, g))
  <2> SUFFICES ASSUME NEW r \in DOMAIN f, NEW a \in 1 .. Len(h[r].recs)
               PROVE  Append(q, g)[h[r].recs[a]] = r[1] + a - 1
    BY DEF Numbered
  <2>1. ASSUME a \in 1 .. Len(f[r].recs), h[r].recs[a] = f[r].recs[a]
        PROVE  Append(q, g)[h[r].recs[a]] = r[1] + a - 1
    <3>1. f[r].recs[a] \in 1 .. Len(q)
      BY <1>1, <2>1, SMTT(60)
    <3>2. q[f[r].recs[a]] = r[1] + a - 1
      BY <2>1 DEF Numbered
    <3> QED BY <1>3, <2>1, <3>1, <3>2
  <2>2. CASE r # p
    BY <2>1, <2>2
  <2>3. CASE r = p /\ a \in 1 .. Len(f[p].recs)
    BY <1>2, <2>1, <2>3
  <2>4. CASE r = p /\ a = Len(f[p].recs) + 1
    <3>1. g = p[1] + (Len(f[p].recs) + 1) - 1
      BY <1>1, <1>4 DEF End
    <3> QED BY <1>2, <1>3, <2>4, <3>1
  <2>5. r # p \/ a \in 1 .. Len(f[p].recs) \/ a = Len(f[p].recs) + 1
    BY <1>1, <1>2, SMTT(60)
  <2> QED BY <2>2, <2>3, <2>4, <2>5
<1>7. Apart(h)
  <2> SUFFICES ASSUME NEW a \in DOMAIN f, NEW b \in DOMAIN f
               PROVE  /\ a[1] < b[1] => End(h, a) <= b[1]
                      /\ a # b /\ a[1] = b[1] => h[a].recs = <<>> \/ h[b].recs = <<>>
    BY DEF Apart
  <2>1. \A r \in DOMAIN f \ {p} : r[1] <= p[1] /\ (r[1] = p[1] => h[r].recs = <<>>)
    <3> SUFFICES ASSUME NEW r \in DOMAIN f \ {p}
                 PROVE  r[1] <= p[1] /\ (r[1] = p[1] => h[r].recs = <<>>)
      OBVIOUS
    <3>1. r[1] + Len(f[r].recs) <= p[1]
      BY <1>4 DEF End
    <3>2. r[1] \in Nat /\ p[1] \in Nat /\ Len(f[r].recs) \in Nat /\ f[r].recs \in Seq(1 .. Len(q))
      BY <1>1
    <3>3. r[1] <= p[1] /\ (r[1] = p[1] => Len(f[r].recs) = 0)
      BY <3>1, <3>2
    <3>4. Len(f[r].recs) = 0 => f[r].recs = <<>>
      BY <3>2, EmptySeq
    <3>5. h[r].recs = f[r].recs
      OBVIOUS
    <3> QED BY <3>3, <3>4, <3>5, Zenon
  <2>2. CASE a = p
    <3>0. p[1] \in Nat /\ b[1] \in Nat /\ b[1] <= p[1]
      BY <1>1, <2>1
    <3>1. ~(a[1] < b[1])
      BY <2>2, <3>0
    <3> QED BY <2>1, <2>2, <3>1
  <2>3. CASE a # p /\ b = p
    BY <1>4, <1>5, <2>1, <2>3
  <2>4. CASE a # p /\ b # p
    BY <1>5, <2>4 DEF Apart
  <2> QED BY <2>2, <2>3, <2>4
<1>8. Ahead(h, u, g + 1)
  <2>1. \A r \in DOMAIN f : End(h, r) <= g + 1
    <3>1. \A r \in DOMAIN f \ {p} : End(h, r) \in Nat /\ End(h, r) <= g
      BY <1>4, <1>5
    <3>2. \A r \in DOMAIN f \ {p} : End(h, r) <= g + 1
      BY <1>0, <3>1
    <3>3. End(h, p) <= g + 1
      BY <1>0, <1>5
    <3> QED BY <3>2, <3>3
  <2>2. \A r \in DOMAIN f \ {p} : End(h, r) <= p[1]
    BY <1>4, <1>5
  <2> QED BY <1>5, <2>1, <2>2 DEF Ahead
<1> QED BY <1>6, <1>7, <1>8

(* One more number, whose record is behind part of another one.             *)
LEMMA AddNumber ==
  ASSUME NEW f, NEW q, NEW t, FilesOK(f, q, t), NumbersOK(q), NEW g \in 0 .. Len(q), Numbered(f, q),
         NEW v, v.open, v.path \in DOMAIN f, Ahead(f, v, g), NEW u, u.path = v.path, u.next = g + 1, u.torn
  PROVE  Numbered(f, Append(q, g)) /\ Ahead(f, u, g + 1)
<1>0. q \in Seq(Nat) /\ Len(q) \in Nat /\ g \in Nat
  BY DEF NumbersOK
<1>1. \A id \in 1 .. Len(q) : Append(q, g)[id] = q[id]
  BY <1>0
<1>2. Numbered(f, Append(q, g))
  <2> SUFFICES ASSUME NEW p \in DOMAIN f, NEW a \in 1 .. Len(f[p].recs)
               PROVE  Append(q, g)[f[p].recs[a]] = p[1] + a - 1
    BY DEF Numbered
  <2>1. f[p].recs \in Seq(1 .. Len(q))
    BY DEF FilesOK
  <2>2. f[p].recs[a] \in 1 .. Len(q)
    BY <2>1, ElementOfSeq
  <2>3. q[f[p].recs[a]] = p[1] + a - 1
    BY DEF Numbered
  <2> QED BY <1>1, <2>2, <2>3
<1>3. \A r \in DOMAIN f : End(f, r) \in Nat /\ End(f, r) <= g
  <2>1. \A r \in DOMAIN f : r[1] \in Nat /\ Len(f[r].recs) \in Nat
    BY DEF FilesOK, Path
  <2> QED BY <2>1 DEF Ahead, End
<1>4. \A r \in DOMAIN f : End(f, r) <= g + 1
  BY <1>0, <1>3
<1> QED BY <1>2, <1>4 DEF Ahead

(* What only the records decide.                                            *)
LEMMA SameRecords ==
  ASSUME NEW f, NEW h, DOMAIN h = DOMAIN f, \A r \in DOMAIN f : h[r].recs = f[r].recs, NEW q
  PROVE  /\ Numbered(f, q) => Numbered(h, q)
         /\ Apart(f) => Apart(h)
         /\ \A r \in DOMAIN f : End(h, r) = End(f, r)
<1>1. \A r \in DOMAIN f : End(h, r) = End(f, r)
  BY DEF End
<1>2. Numbered(f, q) => Numbered(h, q)
  BY DEF Numbered
<1>3. Apart(f) => Apart(h)
  BY <1>1 DEF Apart
<1> QED BY <1>1, <1>2, <1>3

-----------------------------------------------------------------------------
(* What the invariant says of its parts. *)

LEMMA OptionFacts == {MaxRecs, MaxSegBytes, MaxAppends, MaxSegs} \subseteq Nat \ {0} /\ Sizes \subseteq Nat
  BY OptionAssumption

LEMMA ManagerFacts ==
  ASSUME ManagerInv
  PROVE  /\ NumbersOK(seqOf) /\ Len(seqOf) \in Nat /\ FilesOK(dir, seqOf, clock) /\ WriterOK(w, seqOf)
         /\ phase # "down" => ListOK(dir, clock, segments, w)
         /\ w.open \in BOOLEAN /\ (w.open => phase = "open") /\ (~w.open => w.pending = <<>>)
         /\ w.pending \in Seq(1 .. Len(seqOf)) /\ w.next \in Nat /\ w.next <= Len(seqOf)
         /\ clock \in 0 .. MaxSegs /\ clock \in Nat /\ globalSeq \in 0 .. Len(seqOf)
         /\ segCount \in 0 .. MaxRecs /\ upset \in BOOLEAN /\ opts \in OptionSets
         /\ opts.checkpoint \in BOOLEAN /\ opts.sync \in BOOLEAN
         /\ acked \subseteq 1 .. Len(seqOf) /\ gone \subseteq 1 .. Len(seqOf) /\ Kept
         /\ lost \subseteq 1 .. Len(seqOf) /\ (IoFaults \/ lost = {})
         /\ w \in Writer /\ w.torn \in BOOLEAN /\ IoFaults \in BOOLEAN
<1>1. w \in Writer /\ w.open \in BOOLEAN /\ w.next \in Nat /\ w.torn \in BOOLEAN
  BY DEF ManagerInv, WriterOK, Writer
<1>2. opts.checkpoint \in BOOLEAN /\ opts.sync \in BOOLEAN /\ IoFaults \in BOOLEAN
  BY OptionAssumption DEF ManagerInv, ScalarsOK
<1>3. Len(seqOf) \in Nat /\ clock \in Nat
  BY OptionFacts DEF ManagerInv, NumbersOK, ScalarsOK
<1> QED BY <1>1, <1>2, <1>3 DEF ManagerInv, WriterOK, SessionOK, ScalarsOK

-----------------------------------------------------------------------------
(* Closing the writer, or losing its process. *)

LEMMA WrittenPart ==
  ASSUME NEW m \in Nat, NEW a \in Seq(1 .. m), NEW b \in Seq(1 .. m), NEW n \in 0 .. Len(b)
  PROVE  /\ SubSeq(b, 1, n) \in Seq(1 .. m)
         /\ Len(a \o SubSeq(b, 1, n)) <= Len(a \o b)
         /\ \A k \in 1 .. Len(a \o SubSeq(b, 1, n)) : (a \o SubSeq(b, 1, n))[k] = (a \o b)[k]
<1> DEFINE c == SubSeq(b, 1, n)
<1>0. Len(a) \in Nat /\ Len(b) \in Nat /\ n \in Nat /\ n <= Len(b)
  OBVIOUS
<1>1. c \in Seq(1 .. m) /\ Len(c) = n /\ \A k \in 1 .. n : c[k] = b[k]
  <2>1. \A k \in 1 .. n : b[k] \in 1 .. m
    <3>1. \A k \in 1 .. Len(b) : b[k] \in 1 .. m
      BY ElementOfSeq
    <3> QED BY <1>0, <3>1
  <2>2. SubSeq(b, 1, n) = [k \in 1 .. n |-> b[k]]
    BY <1>0
  <2> QED BY <1>0, <2>1, <2>2
<1> HIDE DEF c
<1>2. /\ Len(a \o c) = Len(a) + n /\ Len(a \o b) = Len(a) + Len(b)
      /\ \A k \in 1 .. Len(a) : (a \o c)[k] = a[k] /\ (a \o b)[k] = a[k]
      /\ \A k \in Len(a) + 1 .. Len(a) + n : (a \o c)[k] = c[k - Len(a)]
      /\ \A k \in Len(a) + 1 .. Len(a) + Len(b) : (a \o b)[k] = b[k - Len(a)]
  <2>1. /\ Len(a \o b) = Len(a) + Len(b) /\ \A k \in 1 .. Len(a) : (a \o b)[k] = a[k]
        /\ \A k \in Len(a) + 1 .. Len(a) + Len(b) : (a \o b)[k] = b[k - Len(a)]
    BY ConcatProperties
  <2>2. /\ Len(a \o c) = Len(a) + Len(c) /\ \A k \in 1 .. Len(a) : (a \o c)[k] = a[k]
        /\ \A k \in Len(a) + 1 .. Len(a) + Len(c) : (a \o c)[k] = c[k - Len(a)]
    <3>1. c \in Seq(1 .. m)
      BY <1>1
    <3> QED BY <3>1, ConcatProperties
  <2> QED BY <1>1, <2>1, <2>2
<1>3. ASSUME NEW k \in 1 .. Len(a) + n PROVE (a \o c)[k] = (a \o b)[k]
  <2>1. CASE k \in 1 .. Len(a)
    BY <1>2, <2>1
  <2>2. CASE k \in Len(a) + 1 .. Len(a) + n
    <3>1. k \in Len(a) + 1 .. Len(a) + Len(b) /\ k - Len(a) \in 1 .. n
      BY <1>0, <2>2
    <3> QED BY <1>1, <1>2, <2>2, <3>1
  <2>3. k \in 1 .. Len(a) \/ k \in Len(a) + 1 .. Len(a) + n
    BY <1>0
  <2> QED BY <2>1, <2>2, <2>3
<1>4. Len(a) + n <= Len(a) + Len(b)
  BY <1>0
<1> QED BY <1>1, <1>2, <1>3, <1>4 DEF c

(* Whatever part of the buffer gets into the file, the records that do not  *)
(* are its last ones.                                                       *)
LEMMA ClosedFacts ==
  ASSUME ManagerInv, NEW fails \in BOOLEAN, NEW o \in Outcomes(fails)
  PROVE  /\ FilesOK(Closed(o), seqOf, clock) /\ DOMAIN Closed(o) = DOMAIN dir
         /\ \A r \in DOMAIN dir : Closed(o)[r].cut => dir[r].cut \/ o.cut
         /\ InFiles(dir) \cup ToSet(w.pending) \subseteq InFiles(Closed(o)) \cup Unwritten(o)
         /\ Unwritten(o) \subseteq 1 .. Len(seqOf)
         /\ ~fails => Unwritten(o) = {} /\ o.cut = w.torn
         /\ ~upset => Numbered(Closed(o), seqOf) /\ Apart(Closed(o))
         /\ \A r \in DOMAIN dir : End(Closed(o), r) <= End(Flushed, r)
         /\ \A r \in DOMAIN dir : End(Closed(o), r) \in Nat /\ End(Flushed, r) \in Nat
<1> DEFINE p == w.path
           out == SubSeq(w.pending, 1, o.n)
           c == Closed(o)
<1>0. /\ FilesOK(dir, seqOf, clock) /\ Len(seqOf) \in Nat /\ w.pending \in Seq(1 .. Len(seqOf))
      /\ clock \in Nat /\ (w.open => p \in DOMAIN dir) /\ (~w.open => w.pending = <<>>) /\ w.open \in BOOLEAN
  BY ManagerFacts DEF ListOK
<1>1. o.n \in 0 .. Len(w.pending) /\ o.cut \in BOOLEAN
  BY DEF Outcomes
<1>2. ~fails => o.n = Len(w.pending) /\ o.cut = w.torn
  BY DEF Outcomes
<1>3. /\ FilesOK(Flushed, seqOf, clock) /\ DOMAIN Flushed = DOMAIN dir
  BY FlushFacts
<1>4. /\ out \in Seq(1 .. Len(seqOf)) /\ Unwritten(o) = ToSet(w.pending) \ ToSet(out)
      /\ ToSet(w.pending) \subseteq 1 .. Len(seqOf)
  <2>1. out \in Seq(1 .. Len(seqOf))
    <3> DEFINE b == w.pending
               m == Len(seqOf)
               n == o.n
    <3>1. m \in Nat /\ b \in Seq(1 .. m) /\ n \in 0 .. Len(b) /\ <<>> \in Seq(1 .. m)
      BY <1>0, <1>1
    <3> HIDE DEF b, m, n
    <3>2. SubSeq(b, 1, n) \in Seq(1 .. m)
      BY <3>1, WrittenPart
    <3> QED BY <3>2 DEF b, m, n
  <2>2. ToSet(w.pending) \subseteq 1 .. Len(seqOf)
    BY <1>0 DEF ToSet
  <2> QED BY <2>1, <2>2 DEF Unwritten
<1>5. ~fails => Unwritten(o) = {}
  <2> SUFFICES ASSUME ~fails PROVE Unwritten(o) = {}
    OBVIOUS
  <2>1. out = w.pending
    BY <1>0, <1>2
  <2> QED BY <1>4, <2>1
<1>6. /\ FilesOK(c, seqOf, clock) /\ DOMAIN c = DOMAIN dir
      /\ \A r \in DOMAIN dir : c[r].cut => dir[r].cut \/ o.cut
      /\ InFiles(dir) \cup ToSet(out) \subseteq InFiles(c)
      /\ \A r \in DOMAIN dir : /\ Len(c[r].recs) <= Len(Flushed[r].recs)
                               /\ \A a \in 1 .. Len(c[r].recs) : c[r].recs[a] = Flushed[r].recs[a]
  <2>0. \A r \in DOMAIN dir : Len(dir[r].recs) \in Nat /\ dir[r].recs \in Seq(1 .. Len(seqOf))
    BY <1>0 DEF FilesOK
  <2>1. CASE w.open
    <3>1. p \in DOMAIN dir /\ c = FileWith(dir, p, out, o.cut)
      BY <1>0, <2>1 DEF Closed
    <3>2. Flushed = FileWith(dir, p, w.pending, w.torn) /\ w.torn \in BOOLEAN
      BY <2>1, ManagerFacts DEF Flushed
    <3> HIDE DEF p, out, c
    <3>3. /\ FilesOK(c, seqOf, clock) /\ DOMAIN c = DOMAIN dir
          /\ (c[p].cut <=> dir[p].cut \/ o.cut)
          /\ \A r \in DOMAIN dir \ {p} : c[r] = dir[r]
          /\ c[p].recs = dir[p].recs \o out
          /\ InFiles(dir) \cup ToSet(out) \subseteq InFiles(c)
      <4> DEFINE x == o.cut
      <4>1. x \in BOOLEAN /\ c = FileWith(dir, p, out, x)
        BY <1>1, <3>1
      <4> HIDE DEF x
      <4>2. /\ FilesOK(c, seqOf, clock) /\ DOMAIN c = DOMAIN dir
            /\ (c[p].cut <=> dir[p].cut \/ x)
            /\ \A r \in DOMAIN dir \ {p} : c[r] = dir[r]
            /\ c[p].recs = dir[p].recs \o out
            /\ InFiles(dir) \cup ToSet(out) \subseteq InFiles(c)
        BY <1>0, <1>4, <3>1, <4>1, FileWithAll, SMTT(60)
      <4> QED BY <4>2 DEF x
    <3>4. /\ Flushed[p].recs = dir[p].recs \o w.pending
          /\ \A r \in DOMAIN dir \ {p} : Flushed[r] = dir[r]
      <4> DEFINE b == w.pending
                 x == w.torn
      <4>1. b \in Seq(1 .. Len(seqOf)) /\ x \in BOOLEAN /\ Flushed = FileWith(dir, p, b, x)
        BY <1>0, <3>2
      <4> HIDE DEF b, x
      <4>2. /\ Flushed[p].recs = dir[p].recs \o b
            /\ \A r \in DOMAIN dir \ {p} : Flushed[r] = dir[r]
        BY <1>0, <3>1, <4>1, FileWithAll, SMTT(60)
      <4> QED BY <4>2 DEF b, x
    <3>5. /\ Len(dir[p].recs \o out) <= Len(dir[p].recs \o w.pending)
          /\ \A k \in 1 .. Len(dir[p].recs \o out) : (dir[p].recs \o out)[k] = (dir[p].recs \o w.pending)[k]
      <4> DEFINE a == dir[p].recs
                 b == w.pending
                 m == Len(seqOf)
                 n == o.n
      <4>1. m \in Nat /\ a \in Seq(1 .. m) /\ b \in Seq(1 .. m) /\ n \in 0 .. Len(b)
        BY <1>0, <1>1, <2>0, <3>1
      <4> HIDE DEF a, b, m, n
      <4>2. /\ Len(a \o SubSeq(b, 1, n)) <= Len(a \o b)
            /\ \A k \in 1 .. Len(a \o SubSeq(b, 1, n)) : (a \o SubSeq(b, 1, n))[k] = (a \o b)[k]
        BY <4>1, WrittenPart
      <4> QED BY <4>2 DEF a, b, m, n, out
    <3>6. ASSUME NEW r \in DOMAIN dir
          PROVE  /\ Len(c[r].recs) <= Len(Flushed[r].recs)
                 /\ \A a \in 1 .. Len(c[r].recs) : c[r].recs[a] = Flushed[r].recs[a]
      <4>1. CASE r = p
        BY <3>3, <3>4, <3>5, <4>1
      <4>2. CASE r # p
        <5>1. c[r] = dir[r] /\ Flushed[r] = dir[r]
          BY <3>3, <3>4, <4>2
        <5> QED BY <2>0, <5>1
      <4> QED BY <4>1, <4>2
    <3>7. \A r \in DOMAIN dir : c[r].cut => dir[r].cut \/ o.cut
      BY <3>3
    <3> QED BY <3>3, <3>6, <3>7
  <2>2. CASE ~w.open
    <3>1. c = dir /\ Flushed = dir /\ w.pending = <<>>
      BY <1>0, <2>2 DEF Closed, Flushed
    <3>2. ToSet(out) = {}
      <4>1. out = <<>>
        BY <1>1, <3>1
      <4>2. ToSet(<<>>) = {}
        BY DEF ToSet
      <4> HIDE DEF out
      <4> QED BY <4>1, <4>2
    <3> HIDE DEF out, c
    <3> QED BY <1>0, <2>0, <2>2, <3>1, <3>2
  <2> QED BY <1>0, <2>1, <2>2
<1> HIDE DEF p, out, c
<1>7. \A r \in DOMAIN dir : End(c, r) <= End(Flushed, r) /\ End(c, r) \in Nat /\ End(Flushed, r) \in Nat
  <2>1. \A r \in DOMAIN dir : r[1] \in Nat /\ Len(c[r].recs) \in Nat /\ Len(Flushed[r].recs) \in Nat
    BY <1>3, <1>6 DEF FilesOK, Path
  <2> QED BY <1>6, <2>1 DEF End
<1>8. ~upset => Numbered(c, seqOf) /\ Apart(c)
  <2>1. ~upset => Numbered(Flushed, seqOf) /\ Apart(Flushed)
    BY DEF ManagerInv, OrderOK
  <2> QED BY <1>3, <1>6, <2>1, ShorterOrder
<1> QED BY <1>2, <1>4, <1>5, <1>6, <1>7, <1>8 DEF c

-----------------------------------------------------------------------------
(* What append() writes to, after a roll or not. *)
TargetOK(x) ==
  /\ FilesOK(x.dir, seqOf, x.clock) /\ WriterOK(x.w, seqOf)
  /\ ListOK(x.dir, x.clock, x.segments, x.w)
  /\ InFiles(dir) \cup ToSet(w.pending) \subseteq InFiles(x.dir) \cup ToSet(x.w.pending) \cup x.lost
  /\ lost \subseteq x.lost /\ x.lost \subseteq 1 .. Len(seqOf) /\ (IoFaults \/ x.lost = {})
  /\ DOMAIN dir \subseteq DOMAIN x.dir
  /\ x.count \in 0 .. MaxRecs - 1 /\ x.clock \in 0 .. MaxSegs
  /\ x.upset \in BOOLEAN /\ (upset => x.upset)
  /\ ~x.upset => /\ Numbered(Full(x.dir, x.w), seqOf) /\ Apart(Full(x.dir, x.w))
                 /\ Listed(x.dir, x.segments) /\ Ahead(Full(x.dir, x.w), x.w, globalSeq)

(* A roll leaves a target that satisfies the invariant.                     *)
LEMMA RolledOK ==
  ASSUME ManagerInv, phase = "open", NEW t \in RollStamps, NEW o \in Outcomes(IoFaults), NEW x,
         x.dir = RollDir(o, t), x.w = RollW(o, t), x.count = 0, x.clock = t,
         x.segments = Append(segments, RollPath(t)), x.lost = lost \cup Unwritten(o),
         x.upset = (upset \/ RollPath(t) \in DOMAIN dir)
  PROVE  TargetOK(x)
<1>0. /\ NumbersOK(seqOf) /\ FilesOK(dir, seqOf, clock) /\ WriterOK(w, seqOf)
      /\ ListOK(dir, clock, segments, w) /\ clock \in Nat /\ clock \in 0 .. MaxSegs
      /\ globalSeq \in 0 .. Len(seqOf) /\ segCount \in 0 .. MaxRecs /\ upset \in BOOLEAN
      /\ MaxRecs \in Nat \ {0} /\ MaxSegs \in Nat
  BY OptionFacts DEF ManagerInv, SessionOK, ScalarsOK
<1>1. ~upset => /\ Numbered(Flushed, seqOf) /\ Apart(Flushed)
                /\ Listed(dir, segments) /\ Ahead(Flushed, w, globalSeq)
  BY DEF ManagerInv, OrderOK
<1>2. Flushed = Full(dir, w) /\ DOMAIN Flushed = DOMAIN dir
  BY FlushFacts
<1>3. /\ x.dir = RollDir(o, t) /\ x.w = RollW(o, t) /\ x.count = 0 /\ x.clock = t
      /\ x.segments = Append(segments, RollPath(t)) /\ x.lost = lost \cup Unwritten(o)
      /\ x.upset = (upset \/ RollPath(t) \in DOMAIN dir)
  OBVIOUS
<1>4. t \in Nat /\ clock <= t /\ t \in 0 .. MaxSegs
  BY <1>0 DEF RollStamps, Stamps
<1> DEFINE p == RollPath(t)
           c == Closed(o)
<1>5. p = <<globalSeq, t>> /\ RollDir(o, t) = WithFile(c, p) /\ RollW(o, t) = OpenAt(c, p, globalSeq)
  BY DEF RollPath, RollDir, RollW
<1>6. /\ FilesOK(c, seqOf, clock) /\ DOMAIN c = DOMAIN dir
      /\ \A r \in DOMAIN dir : c[r].cut => dir[r].cut \/ o.cut
      /\ InFiles(dir) \cup ToSet(w.pending) \subseteq InFiles(c) \cup Unwritten(o)
      /\ Unwritten(o) \subseteq 1 .. Len(seqOf)
      /\ ~IoFaults => Unwritten(o) = {} /\ o.cut = w.torn
      /\ ~upset => Numbered(c, seqOf) /\ Apart(c)
      /\ \A r \in DOMAIN dir : End(c, r) <= End(Flushed, r) /\ End(c, r) \in Nat /\ End(Flushed, r) \in Nat
  BY <1>0, ClosedFacts, ManagerFacts
<1> HIDE DEF p, c
<1>7. /\ segments \in Seq(Path) /\ DOMAIN c \subseteq ToSet(segments)
      /\ ~IoFaults => \A r \in DOMAIN c : c[r].cut => r[2] < t
  <2>1. \A r \in DOMAIN dir : r[2] \in Nat
    BY <1>0 DEF FilesOK, Path
  <2>2. segments \in Seq(Path) /\ DOMAIN dir \subseteq ToSet(segments)
    BY <1>0 DEF ListOK
  <2>3. ~IoFaults => ~w.torn /\ \A r \in DOMAIN dir : dir[r].cut => r[2] < clock
    BY <1>0 DEF ListOK
  <2>4. ASSUME ~IoFaults, NEW r \in DOMAIN dir, c[r].cut
        PROVE  r[2] < t
    <3>1. dir[r].cut
      BY <1>6, <2>3, <2>4
    <3> QED BY <1>0, <1>4, <2>1, <2>3, <2>4, <3>1
  <2> QED BY <1>6, <2>2, <2>4
<1>8. /\ FilesOK(x.dir, seqOf, t) /\ WriterOK(x.w, seqOf)
      /\ ListOK(x.dir, t, Append(segments, p), x.w)
      /\ InFiles(c) \subseteq InFiles(x.dir) /\ DOMAIN c \subseteq DOMAIN x.dir
      /\ Full(x.dir, x.w) = x.dir
  BY <1>0, <1>3, <1>4, <1>5, <1>6, <1>7, NewFileShape, SMTT(60)
<1>9. ASSUME ~x.upset
      PROVE  /\ Numbered(Full(x.dir, x.w), seqOf) /\ Apart(Full(x.dir, x.w))
             /\ Listed(x.dir, x.segments) /\ Ahead(Full(x.dir, x.w), x.w, globalSeq)
  <2>1. ~upset /\ p \notin DOMAIN c
    BY <1>3, <1>6, <1>9 DEF p
  <2>2. /\ Numbered(c, seqOf) /\ Apart(c) /\ Listed(c, segments)
        /\ \A r \in DOMAIN c : End(c, r) <= globalSeq
    <3>1. \A r \in DOMAIN dir : End(Flushed, r) <= globalSeq
      BY <1>1, <1>2, <2>1 DEF Ahead
    <3>2. \A r \in DOMAIN c : End(c, r) <= globalSeq
      BY <1>0, <1>6, <3>1
    <3>3. Listed(c, segments)
      BY <1>1, <1>6, <2>1 DEF Listed
    <3> QED BY <1>6, <2>1, <3>2, <3>3
  <2>3. /\ Numbered(x.dir, seqOf) /\ Apart(x.dir) /\ Listed(x.dir, Append(segments, p))
        /\ Ahead(x.dir, x.w, globalSeq)
    BY <1>0, <1>3, <1>4, <1>5, <1>6, <1>7, <2>1, <2>2, NewFileOrder
  <2> QED BY <1>3, <1>8, <2>3 DEF p
<1>10. x.upset \in BOOLEAN /\ (upset => x.upset) /\ x.count \in 0 .. MaxRecs - 1
  BY <1>0, <1>3
<1>11. lost \subseteq x.lost /\ x.lost \subseteq 1 .. Len(seqOf) /\ (IoFaults \/ x.lost = {})
  BY <1>3, <1>6, ManagerFacts
<1>12. /\ InFiles(dir) \cup ToSet(w.pending) \subseteq InFiles(x.dir) \cup ToSet(x.w.pending) \cup x.lost
       /\ DOMAIN dir \subseteq DOMAIN x.dir
  BY <1>3, <1>6, <1>8
<1> QED BY <1>3, <1>4, <1>8, <1>9, <1>10, <1>11, <1>12 DEF TargetOK, p

LEMMA TargetsOK ==
  ASSUME ManagerInv, phase = "open", NEW size, NEW x \in Targets(size)
  PROVE  TargetOK(x)
<1>0. /\ NumbersOK(seqOf) /\ FilesOK(dir, seqOf, clock) /\ WriterOK(w, seqOf)
      /\ ListOK(dir, clock, segments, w) /\ clock \in Nat /\ clock \in 0 .. MaxSegs
      /\ globalSeq \in 0 .. Len(seqOf) /\ segCount \in 0 .. MaxRecs /\ upset \in BOOLEAN
      /\ MaxRecs \in Nat \ {0} /\ MaxSegs \in Nat
  BY OptionFacts DEF ManagerInv, SessionOK, ScalarsOK
<1>1. ~upset => /\ Numbered(Flushed, seqOf) /\ Apart(Flushed)
                /\ Listed(dir, segments) /\ Ahead(Flushed, w, globalSeq)
  BY DEF ManagerInv, OrderOK
<1>2. Flushed = Full(dir, w) /\ DOMAIN Flushed = DOMAIN dir
  BY FlushFacts
<1>3. CASE NeedRoll(size)
  <2>1. PICK t \in RollStamps, o \in Outcomes(IoFaults) :
          x = [dir |-> RollDir(o, t), w |-> RollW(o, t), count |-> 0, clock |-> t,
               segments |-> Append(segments, RollPath(t)), lost |-> lost \cup Unwritten(o),
               upset |-> upset \/ RollPath(t) \in DOMAIN dir]
    BY <1>3 DEF Targets
  <2>2. /\ x.dir = RollDir(o, t) /\ x.w = RollW(o, t) /\ x.count = 0 /\ x.clock = t
        /\ x.segments = Append(segments, RollPath(t)) /\ x.lost = lost \cup Unwritten(o)
        /\ x.upset = (upset \/ RollPath(t) \in DOMAIN dir)
    BY <2>1
  <2> QED BY <2>2, RolledOK
<1>4. CASE ~NeedRoll(size)
  <2>1. x = [dir |-> dir, w |-> w, count |-> segCount, clock |-> clock, segments |-> segments,
             lost |-> lost, upset |-> upset]
    BY <1>4 DEF Targets
  <2>2. x.dir = dir /\ x.w = w /\ x.count = segCount /\ x.clock = clock /\ x.segments = segments
        /\ x.lost = lost /\ x.upset = upset
    BY <2>1
  <2>3. segCount \in 0 .. MaxRecs - 1
    BY <1>0, <1>4 DEF NeedRoll
  <2>4. lost \subseteq 1 .. Len(seqOf) /\ (IoFaults \/ lost = {})
    BY ManagerFacts
  <2> QED BY <1>0, <1>1, <1>2, <2>2, <2>3, <2>4 DEF TargetOK
<1> QED BY <1>3, <1>4

-----------------------------------------------------------------------------
(* The steps. *)

LEMMA EmptyDirectory ==
  ASSUME Len(seqOf) \in Nat
  PROVE  /\ FilesOK(<<>>, seqOf, clock) /\ DOMAIN <<>> = {} /\ InFiles(<<>>) = {}
         /\ Numbered(<<>>, seqOf) /\ Apart(<<>>)
<1>1. DOMAIN <<>> = {}
  OBVIOUS
<1>2. IsDir(<<>>)
  BY DEF IsDir
<1> QED BY <1>1, <1>2, FS_EmptySet DEF FilesOK, InFiles, Numbered, Apart

(* After a non-empty last segment the sequence resumes behind every file.   *)
LEMMA ResumeBehind ==
  ASSUME NumbersOK(seqOf), NEW d, NEW t, FilesOK(d, seqOf, t), NEW s \in Scans(d),
         Numbered(d, seqOf), Apart(d), s = <<>> \/ d[Last(s)].recs # <<>>
  PROVE  \A r \in DOMAIN d : End(d, r) <= ResumeSeq(s, d)
<1>0. IsFiniteSet(DOMAIN d) /\ DOMAIN d \subseteq Path /\ Len(seqOf) \in Nat
      /\ \A r \in DOMAIN d : r[1] \in Nat /\ d[r].recs \in Seq(1 .. Len(seqOf)) /\ Len(d[r].recs) \in Nat
  BY DEF FilesOK, Path, NumbersOK
<1>1. /\ s \in Seq(Path) /\ ToSet(s) = DOMAIN d /\ DOMAIN s = 1 .. Len(s) /\ Len(s) \in Nat
      /\ \A i, j \in DOMAIN s : i < j => s[i] # s[j] /\ s[i][1] <= s[j][1]
  <2>1. s \in Seq(Path)
    BY <1>0, ScansAll
  <2> QED BY <1>0, <2>1, ScansAll
<1>2. CASE s = <<>>
  <2>1. ToSet(<<>>) = {}
    BY DEF ToSet
  <2> QED BY <1>1, <1>2, <2>1
<1>3. CASE s # <<>>
  <2> DEFINE l == Last(s)
  <2>1. Len(s) \in 1 .. Len(s) /\ l = s[Len(s)]
    BY <1>1, <1>3 DEF Last
  <2>2. l \in DOMAIN d
    BY <1>1, <2>1 DEF ToSet
  <2> HIDE DEF l
  <2>3. d[l].recs # <<>> /\ Len(d[l].recs) \in Nat \ {0} /\ l[1] \in Nat
    BY <1>0, <1>3, <2>2 DEF l
  <2>4. seqOf[d[l].recs[Len(d[l].recs)]] = l[1] + Len(d[l].recs) - 1
    BY <2>2, <2>3 DEF Numbered
  <2>5. ResumeSeq(s, d) = l[1] + Len(d[l].recs)
    <3>1. ResumeSeq(s, d) = After(d[l].recs)
      BY <1>3 DEF ResumeSeq, l
    <3>2. After(d[l].recs) = seqOf[d[l].recs[Len(d[l].recs)]] + 1
      BY <2>3 DEF After, Last
    <3> QED BY <2>3, <2>4, <3>1, <3>2, SMTT(60)
  <2> SUFFICES ASSUME NEW r \in DOMAIN d PROVE End(d, r) <= ResumeSeq(s, d)
    OBVIOUS
  <2>6. CASE r = l
    BY <2>3, <2>5, <2>6 DEF End
  <2>7. CASE r # l
    <3>1. PICK i \in 1 .. Len(s) : s[i] = r
      BY <1>1 DEF ToSet
    <3>2. i < Len(s)
      BY <1>1, <2>1, <2>7, <3>1
    <3>3. r[1] <= l[1]
      BY <1>1, <2>1, <3>1, <3>2
    <3>4. CASE r[1] < l[1]
      <4>1. End(d, r) <= l[1] /\ End(d, r) \in Nat
        BY <1>0, <2>2, <3>4 DEF Apart, End
      <4> QED BY <2>3, <2>5, <4>1
    <3>5. CASE r[1] = l[1]
      <4>1. d[r].recs = <<>>
        BY <2>2, <2>3, <2>7, <3>5 DEF Apart
      <4>2. End(d, r) = l[1]
        BY <1>0, <3>5, <4>1 DEF End
      <4> QED BY <2>3, <2>5, <4>2
    <3> QED BY <1>0, <2>3, <3>3, <3>4, <3>5
  <2> QED BY <2>6, <2>7
<1> QED BY <1>2, <1>3

LEMMA OpenInv ==
  ASSUME ManagerInv, NEW reset \in BOOLEAN, Open(reset)
  PROVE  ManagerInv'
<1>0. /\ NumbersOK(seqOf) /\ Len(seqOf) \in Nat /\ FilesOK(dir, seqOf, clock)
      /\ phase # "down" => ListOK(dir, clock, segments, w)
      /\ ~w.open /\ w.pending = <<>> /\ clock \in Nat /\ clock \in 0 .. MaxSegs /\ upset \in BOOLEAN
      /\ opts \in OptionSets /\ opts.checkpoint \in BOOLEAN
      /\ acked \subseteq 1 .. Len(seqOf) /\ gone \subseteq 1 .. Len(seqOf) /\ Kept
      /\ MaxSegs \in Nat /\ MaxRecs \in Nat
  BY ManagerFacts, OptionFacts DEF Open
<1>1. /\ phase # "open" /\ clock < MaxSegs /\ phase' = "open" /\ segCount' = 0
      /\ ready' = ~opts.checkpoint /\ committed' = FALSE /\ UNCHANGED <<opts, seqOf, acked, lost>>
  BY DEF Open
<1> DEFINE d == IF reset THEN <<>> ELSE dir
<1>2. PICK s \in Scans(d), t \in Stamps :
        LET g == ResumeSeq(s, d)
            p == <<g, t>>
        IN  /\ clock' = t /\ globalSeq' = g /\ segments' = Append(s, p)
            /\ dir' = WithFile(d, p) /\ w' = OpenAt(d, p, g)
            /\ upset' = (upset \/ Upsets(s, d, p))
  BY DEF Open
<1>3. gone' = gone \cup IF reset THEN InFiles(dir) ELSE {}
  BY DEF Open
<1>4. /\ FilesOK(d, seqOf, clock) /\ InFiles(dir) \subseteq InFiles(d) \cup (gone' \ gone) \cup gone
      /\ (~upset => Numbered(d, seqOf) /\ Apart(d))
  <2>1. CASE reset
    BY <1>0, <1>3, <2>1, EmptyDirectory
  <2>2. CASE ~reset
    <3>1. Flushed = dir
      BY <1>0 DEF Flushed
    <3> QED BY <1>0, <2>2, <3>1 DEF ManagerInv, OrderOK
  <2> QED BY <2>1, <2>2
<1>5. t \in Nat /\ clock <= t /\ t <= MaxSegs /\ (~IoFaults => \A r \in DOMAIN d : d[r].cut => r[2] < t)
  <2>1. t \in {clock, clock + 1} /\ (phase = "down" => t = clock + 1)
    BY <1>2 DEF Stamps
  <2>2. t \in Nat /\ clock <= t /\ t <= MaxSegs
    BY <1>0, <1>1, <2>1
  <2>3. \A r \in DOMAIN dir : r[2] \in Nat /\ r[2] <= clock
    BY <1>0 DEF FilesOK, Path
  <2>4. ~IoFaults => \A r \in DOMAIN dir : dir[r].cut => r[2] < t
    <3>1. CASE phase = "down"
      BY <1>0, <2>1, <2>3, <3>1
    <3>2. CASE phase # "down"
      BY <1>0, <2>2, <2>3, <3>2 DEF ListOK
    <3> QED BY <3>1, <3>2
  <2>5. reset => DOMAIN d = {}
    OBVIOUS
  <2> QED BY <2>2, <2>4, <2>5
<1> HIDE DEF d
<1>6. s \in Seq(Path) /\ ToSet(s) = DOMAIN d /\ Listed(d, s)
  <2>1. IsFiniteSet(DOMAIN d) /\ DOMAIN d \subseteq Path
    BY <1>4 DEF FilesOK
  <2>2. s \in Seq(Path) /\ ToSet(s) = DOMAIN d
    BY <2>1, ScansAll
  <2>3. \A i, j \in DOMAIN s : i < j => s[i] # s[j] /\ s[i][1] <= s[j][1]
    BY <2>1, ScansAll
  <2> QED BY <2>2, <2>3 DEF Listed
<1> DEFINE g == ResumeSeq(s, d)
           p == <<g, t>>
<1>7. /\ clock' = t /\ globalSeq' = g /\ segments' = Append(s, p)
      /\ dir' = WithFile(d, p) /\ w' = OpenAt(d, p, g) /\ upset' = (upset \/ Upsets(s, d, p))
  BY <1>2
<1>8. g \in 0 .. Len(seqOf)
  <2>1. CASE s = <<>>
    BY <1>0, <2>1 DEF ResumeSeq
  <2>2. CASE s # <<>>
    <3>1. Last(s) \in DOMAIN d
      BY <1>6, <2>2 DEF Last, ToSet
    <3>2. d[Last(s)].recs \in Seq(1 .. Len(seqOf))
      BY <1>4, <3>1 DEF FilesOK
    <3> QED BY <1>0, <2>2, <3>2, AfterBound DEF ResumeSeq
  <2> QED BY <2>1, <2>2
<1> HIDE DEF g
<1>9. p = <<g, t>>
  OBVIOUS
<1> HIDE DEF p
<1>10. /\ FilesOK(dir', seqOf, t) /\ WriterOK(w', seqOf) /\ ListOK(dir', t, Append(s, p), w')
       /\ InFiles(d) \subseteq InFiles(dir') /\ Full(dir', w') = dir'
  BY <1>0, <1>4, <1>5, <1>6, <1>7, <1>8, <1>9, NewFileShape, SMTT(60)
<1>11. Flushed' = dir'
  BY <1>10 DEF Flushed, Full
<1>12. ASSUME ~upset'
       PROVE  /\ Numbered(dir', seqOf) /\ Apart(dir') /\ Listed(dir', segments')
              /\ Ahead(dir', w', globalSeq')
  <2>1. ~upset /\ p \notin DOMAIN d /\ (s = <<>> \/ d[Last(s)].recs # <<>>)
    BY <1>7, <1>12 DEF Upsets
  <2>2. \A r \in DOMAIN d : End(d, r) <= g
    BY <1>0, <1>4, <2>1, ResumeBehind DEF g
  <2> QED BY <1>0, <1>4, <1>5, <1>6, <1>7, <1>8, <1>9, <2>1, <2>2, NewFileOrder
<1>13. OrderOK'
  BY <1>1, <1>11, <1>12 DEF OrderOK
<1>14. SessionOK'
  BY <1>0, <1>1, <1>7, <1>10 DEF SessionOK
<1>15. Kept'
  <2>1. acked \subseteq InFiles(dir) \cup gone \cup lost
    <3>1. ToSet(<<>>) = {}
      BY DEF ToSet
    <3> QED BY <1>0, <3>1 DEF Kept
  <2> QED BY <1>1, <1>3, <1>4, <1>10, <2>1 DEF Kept
<1>16. ScalarsOK'
  <2>1. gone' \subseteq 1 .. Len(seqOf)
    BY <1>0, <1>3, InFilesRange
  <2>2. upset' \in BOOLEAN /\ t \in 0 .. MaxSegs /\ 0 \in 0 .. MaxRecs /\ ready' \in BOOLEAN
    BY <1>0, <1>1, <1>5, <1>7
  <2>3. lost' \subseteq 1 .. Len(seqOf) /\ (IoFaults \/ lost' = {})
    BY <1>1, ManagerFacts
  <2> QED BY <1>0, <1>1, <1>7, <1>8, <2>1, <2>2, <2>3 DEF ScalarsOK
<1> QED BY <1>0, <1>1, <1>7, <1>10, <1>13, <1>14, <1>15, <1>16 DEF ManagerInv

(* read_all() writes the buffer out.                                        *)
LEMMA ReadAllInv ==
  ASSUME ManagerInv, ReadAll
  PROVE  ManagerInv'
<1>0. /\ NumbersOK(seqOf) /\ Len(seqOf) \in Nat /\ WriterOK(w, seqOf) /\ w \in Writer /\ w.torn \in BOOLEAN
      /\ phase # "down" => ListOK(dir, clock, segments, w)
      /\ clock \in 0 .. MaxSegs /\ globalSeq \in 0 .. Len(seqOf) /\ upset \in BOOLEAN
  BY ManagerFacts
<1>1. /\ phase = "open" /\ w.open /\ dir' = Flushed /\ w' = [w EXCEPT !.pending = <<>>]
      /\ UNCHANGED <<opts, upset, clock, phase, segments, globalSeq, segCount, ready, seqOf, acked, gone, lost,
                     committed>>
  BY DEF ReadAll
<1>2. /\ FilesOK(Flushed, seqOf, clock) /\ DOMAIN Flushed = DOMAIN dir
      /\ \A r \in DOMAIN dir : Flushed[r].cut => dir[r].cut \/ (w.open /\ w.torn)
      /\ Flushed[w.path].cut <=> dir[w.path].cut \/ w.torn
      /\ InFiles(dir) \cup ToSet(w.pending) \subseteq InFiles(Flushed)
  BY <1>1, FlushFacts
<1>3. /\ w' \in Writer /\ w'.path = w.path /\ w'.next = w.next /\ w'.pending = <<>> /\ w'.open /\ w'.torn = w.torn
  <2>1. <<>> \in Seq(Nat)
    OBVIOUS
  <2> QED BY <1>0, <1>1, <2>1 DEF Writer
<1>4. WriterOK(w', seqOf)
  <2>1. <<>> \in Seq(1 .. Len(seqOf))
    OBVIOUS
  <2> QED BY <1>0, <1>3, <2>1 DEF WriterOK
<1>5. ListOK(dir', clock, segments, w')
  <2>1. ListOK(dir, clock, segments, w)
    BY <1>0, <1>1
  <2>2. dir'[w'.path].cut => w'.torn
    BY <1>1, <1>2, <1>3, <2>1 DEF ListOK
  <2>3. ~IoFaults => ~w'.torn /\ \A r \in DOMAIN dir' : dir'[r].cut => r[2] < clock
    BY <1>1, <1>2, <1>3, <2>1 DEF ListOK
  <2> QED BY <1>1, <1>2, <1>3, <2>1, <2>2, <2>3 DEF ListOK
<1>6. Flushed' = dir'
  <2>1. IsDir(dir') /\ w.path \in DOMAIN dir' /\ (w.torn => dir'[w.path].cut)
    BY <1>0, <1>1, <1>2 DEF FilesOK, ListOK
  <2>2. FileWith(dir', w.path, <<>>, w.torn) = dir'
    BY <1>0, <2>1, FileWithNothing
  <2> QED BY <1>3, <2>2 DEF Flushed
<1>7. OrderOK'
  <2> SUFFICES ASSUME ~upset
               PROVE  /\ Numbered(Flushed, seqOf) /\ Apart(Flushed) /\ Listed(dir', segments)
                      /\ Ahead(Flushed, w', globalSeq)
    BY <1>1, <1>6 DEF OrderOK
  <2>1. /\ Numbered(Flushed, seqOf) /\ Apart(Flushed) /\ Listed(dir, segments)
        /\ Ahead(Flushed, w, globalSeq)
    BY <1>1 DEF ManagerInv, OrderOK
  <2>2. Listed(dir', segments)
    BY <1>1, <1>2, <2>1 DEF Listed
  <2>3. Ahead(Flushed, w', globalSeq)
    BY <1>1, <1>3, <2>1 DEF Ahead
  <2> QED BY <2>1, <2>2, <2>3
<1>8. SessionOK'
  BY <1>1, <1>3, <1>5 DEF ManagerInv, SessionOK
<1>9. Kept'
  BY <1>1, <1>2 DEF ManagerInv, Kept
<1>10. ScalarsOK'
  BY <1>1 DEF ManagerInv, ScalarsOK
<1> QED BY <1>0, <1>1, <1>2, <1>4, <1>7, <1>8, <1>9, <1>10 DEF ManagerInv

(* close(), and a roll that fails, close the writer.                        *)
LEMMA CloseInv ==
  ASSUME ManagerInv, Close \/ \E size \in Sizes : RollFails(size)
  PROVE  ManagerInv'
<1>0. /\ NumbersOK(seqOf) /\ Len(seqOf) \in Nat /\ WriterOK(w, seqOf) /\ w \in Writer /\ w.torn \in BOOLEAN
      /\ phase # "down" => ListOK(dir, clock, segments, w)
      /\ clock \in 0 .. MaxSegs /\ globalSeq \in 0 .. Len(seqOf) /\ upset \in BOOLEAN
      /\ lost \subseteq 1 .. Len(seqOf) /\ (IoFaults \/ lost = {}) /\ IoFaults \in BOOLEAN /\ Kept
  BY ManagerFacts
<1>1. /\ phase = "open" /\ phase' \in {"open", "closed"}
      /\ w' = [w EXCEPT !.open = FALSE, !.pending = <<>>, !.torn = FALSE]
      /\ UNCHANGED <<opts, upset, clock, segments, globalSeq, segCount, ready, seqOf, acked, gone, committed>>
  BY DEF Close, RollFails
<1>2. PICK o \in Outcomes(IoFaults) : dir' = Closed(o) /\ lost' = lost \cup Unwritten(o)
  <2>1. CASE Close
    BY <2>1 DEF Close
  <2>2. CASE \E size \in Sizes : RollFails(size)
    <3>1. IoFaults = TRUE
      BY <1>0, <2>2 DEF RollFails
    <3> QED BY <2>2, <3>1 DEF RollFails
  <2> QED BY <2>1, <2>2
<1> DEFINE c == Closed(o)
<1>3. /\ FilesOK(c, seqOf, clock) /\ DOMAIN c = DOMAIN dir
      /\ \A r \in DOMAIN dir : c[r].cut => dir[r].cut \/ o.cut
      /\ InFiles(dir) \cup ToSet(w.pending) \subseteq InFiles(c) \cup Unwritten(o)
      /\ Unwritten(o) \subseteq 1 .. Len(seqOf)
      /\ ~IoFaults => Unwritten(o) = {} /\ o.cut = w.torn
      /\ ~upset => Numbered(c, seqOf) /\ Apart(c)
      /\ \A r \in DOMAIN dir : End(c, r) <= End(Flushed, r) /\ End(c, r) \in Nat /\ End(Flushed, r) \in Nat
  BY <1>0, ClosedFacts
<1> HIDE DEF c
<1>4. dir' = c
  BY <1>2 DEF c
<1>5. /\ w' \in Writer /\ w'.path = w.path /\ w'.next = w.next /\ w'.pending = <<>> /\ ~w'.open /\ ~w'.torn
  <2>1. <<>> \in Seq(Nat)
    OBVIOUS
  <2> QED BY <1>0, <1>1, <2>1 DEF Writer
<1>6. WriterOK(w', seqOf)
  <2>1. <<>> \in Seq(1 .. Len(seqOf))
    OBVIOUS
  <2> QED BY <1>0, <1>5, <2>1 DEF WriterOK
<1>7. ListOK(dir', clock, segments, w')
  <2>1. ListOK(dir, clock, segments, w)
    BY <1>0, <1>1
  <2>2. ~IoFaults => \A r \in DOMAIN c : c[r].cut => r[2] < clock
    BY <1>3, <2>1 DEF ListOK
  <2> QED BY <1>3, <1>4, <1>5, <2>1, <2>2 DEF ListOK
<1>8. Flushed' = dir'
  BY <1>5 DEF Flushed
<1>9. OrderOK'
  <2> SUFFICES ASSUME ~upset
               PROVE  /\ Numbered(c, seqOf) /\ Apart(c) /\ Listed(c, segments)
                      /\ Ahead(c, w', globalSeq)
    BY <1>1, <1>4, <1>8 DEF OrderOK
  <2>1. Listed(dir, segments) /\ Ahead(Flushed, w, globalSeq)
    BY <1>1 DEF ManagerInv, OrderOK
  <2>2. Listed(c, segments)
    BY <1>3, <2>1 DEF Listed
  <2>3. \A r \in DOMAIN c : End(c, r) <= globalSeq
    <3>1. \A r \in DOMAIN dir : End(Flushed, r) <= globalSeq
      BY <2>1, FlushFacts DEF Ahead
    <3> QED BY <1>0, <1>3, <3>1
  <2> QED BY <1>3, <1>5, <2>2, <2>3 DEF Ahead
<1>10. SessionOK'
  BY <1>1, <1>5, <1>7 DEF ManagerInv, SessionOK
<1>11. Kept'
  BY <1>0, <1>1, <1>2, <1>3, <1>4 DEF Kept
<1>12. ScalarsOK'
  <2>1. lost' \subseteq 1 .. Len(seqOf) /\ (IoFaults \/ lost' = {})
    BY <1>0, <1>2, <1>3
  <2> QED BY <1>1, <2>1 DEF ManagerInv, ScalarsOK
<1> QED BY <1>0, <1>1, <1>3, <1>4, <1>6, <1>9, <1>10, <1>11, <1>12 DEF ManagerInv

LEMMA CheckpointInv ==
  ASSUME ManagerInv, Commit \/ Clear \/ UNCHANGED vars
  PROVE  ManagerInv'
<1>1. UNCHANGED <<opts, upset, dir, clock, phase, segments, w, globalSeq, segCount, seqOf, acked, gone, lost>>
  BY DEF Commit, Clear, vars, session
<1>2. /\ ready' \in BOOLEAN /\ committed' \in BOOLEAN
      /\ phase # "down" /\ opts.checkpoint /\ ready' => committed'
  <2>1. opts.checkpoint \in BOOLEAN /\ ready \in BOOLEAN /\ committed \in BOOLEAN
        /\ (phase # "down" /\ opts.checkpoint /\ ready => committed)
    BY ManagerFacts DEF ManagerInv, ScalarsOK, SessionOK
  <2>2. CASE Commit
    BY <2>2 DEF Commit
  <2>3. CASE Clear
    BY <2>1, <2>3 DEF Clear
  <2>4. CASE UNCHANGED vars
    BY <2>1, <2>4 DEF vars
  <2> QED BY <2>2, <2>3, <2>4
<1>3. Flushed' = Flushed
  BY <1>1 DEF Flushed
<1>4. SessionOK' /\ ScalarsOK' /\ Kept' /\ OrderOK'
  BY <1>1, <1>2, <1>3 DEF ManagerInv, SessionOK, ScalarsOK, Kept, OrderOK
<1> QED BY <1>1, <1>4 DEF ManagerInv

-----------------------------------------------------------------------------
(* append() *)

LEMMA AppendEmptyInv ==
  ASSUME ManagerInv, AppendEmpty
  PROVE  ManagerInv'
<1>0. NumbersOK(seqOf) /\ Kept /\ MaxRecs \in Nat
  BY ManagerFacts, OptionFacts
<1>1. /\ phase = "open"
      /\ UNCHANGED <<opts, phase, globalSeq, ready, seqOf, acked, gone, committed>>
  BY DEF AppendEmpty
<1>2. PICK x \in Targets(0) : /\ Move(x) /\ dir' = x.dir /\ w' = x.w /\ segCount' = x.count
                              /\ lost' = x.lost /\ upset' = x.upset
  BY DEF AppendEmpty
<1>3. TargetOK(x)
  BY <1>1, TargetsOK
<1>4. dir' = x.dir /\ clock' = x.clock /\ segments' = x.segments
  BY <1>2 DEF Move
<1>5. Flushed' = Full(x.dir, x.w)
  BY <1>2, <1>4 DEF Flushed, Full
<1>6. OrderOK'
  BY <1>1, <1>2, <1>3, <1>4, <1>5 DEF OrderOK, TargetOK
<1>7. SessionOK'
  BY <1>1, <1>2, <1>3, <1>4 DEF ManagerInv, SessionOK, TargetOK
<1>8. Kept'
  BY <1>0, <1>1, <1>2, <1>3, <1>4 DEF Kept, TargetOK
<1>9. ScalarsOK'
  <2>1. x.count \in 0 .. MaxRecs
    BY <1>0, <1>3 DEF TargetOK
  <2> QED BY <1>1, <1>2, <1>3, <1>4, <2>1 DEF ManagerInv, ScalarsOK, TargetOK
<1> QED BY <1>0, <1>1, <1>2, <1>3, <1>4, <1>6, <1>7, <1>8, <1>9 DEF ManagerInv, TargetOK

(* The record that append() writes, with or without a failing fsync.        *)
LEMMA TargetFacts ==
  ASSUME ManagerInv, NEW x, TargetOK(x), x.w.open, Len(seqOf) + 1 <= MaxAppends,
         NEW q, q = Append(seqOf, x.w.next), NEW more, more = Buffered(x.w, Len(seqOf) + 1)
  PROVE  /\ NumbersOK(q) /\ Len(q) = Len(seqOf) + 1 /\ Len(q) \in Nat /\ FilesOK(x.dir, q, x.clock)
         /\ x.w.path \in DOMAIN x.dir /\ x.w.torn \in BOOLEAN
         /\ x.dir[x.w.path].cut => x.w.torn /\ more = <<>>
         /\ more \in Seq(1 .. Len(q))
         /\ x.w.pending \in Seq(1 .. Len(seqOf)) /\ x.w.pending \in Seq(1 .. Len(q))
         /\ x.w.torn => more = x.w.pending /\ Behind(x.w, Len(seqOf) + 1) = {Len(seqOf) + 1}
         /\ ~x.w.torn => more = x.w.pending \o <<Len(seqOf) + 1>> /\ Behind(x.w, Len(seqOf) + 1) = {}
         /\ ToSet(more) \cup Behind(x.w, Len(seqOf) + 1) = ToSet(x.w.pending) \cup {Len(seqOf) + 1}
<1>0. NumbersOK(seqOf) /\ Len(seqOf) \in Nat
  BY ManagerFacts
<1>1. FilesOK(x.dir, seqOf, x.clock) /\ WriterOK(x.w, seqOf) /\ ListOK(x.dir, x.clock, x.segments, x.w) /\ x.clock \in Nat
  BY OptionFacts DEF TargetOK
<1>2. x.w.next \in 0 .. Len(seqOf) /\ x.w.pending \in Seq(1 .. Len(seqOf)) /\ x.w.torn \in BOOLEAN
  <2>1. x.w.next \in Nat /\ x.w.next <= Len(seqOf) /\ x.w.torn \in BOOLEAN
    BY <1>1 DEF WriterOK, Writer
  <2> QED BY <1>0, <1>1, <2>1 DEF WriterOK
<1>3. NumbersOK(q) /\ Len(q) = Len(seqOf) + 1
  BY <1>0, <1>2, LongerNumbers
<1>4. FilesOK(x.dir, q, x.clock)
  <2>1. Len(q) \in Nat /\ Len(seqOf) <= Len(q)
    BY <1>0, <1>3
  <2> QED BY <1>0, <1>1, <2>1, FilesWider
<1>5. x.w.path \in DOMAIN x.dir /\ (x.dir[x.w.path].cut => x.w.torn /\ x.w.pending = <<>>)
  BY <1>1 DEF ListOK
<1> DEFINE s == x.w.pending
           id == Len(seqOf) + 1
           added == s \o <<id>>
<1>6. s \in Seq(1 .. Len(q)) /\ <<id>> \in Seq(1 .. Len(q)) /\ id \in 1 .. Len(q)
  <2>1. s \in Seq(1 .. Len(q))
    BY <1>0, <1>2, <1>3, WiderSeq
  <2>2. id \in 1 .. Len(q)
    BY <1>0, <1>3
  <2> QED BY <2>1, <2>2
<1>7. added \in Seq(1 .. Len(q)) /\ added = Append(s, id)
  BY <1>6, AppendIsConcat, ConcatProperties
<1>8. ToSet(added) = ToSet(s) \cup {id}
  <2>1. /\ DOMAIN s = 1 .. Len(s) /\ Len(s) \in Nat /\ DOMAIN added = 1 .. Len(s) + 1
        /\ added[Len(s) + 1] = id /\ \A i \in 1 .. Len(s) : added[i] = s[i]
    BY <1>6, <1>7
  <2> HIDE DEF s, added, id
  <2>2. 1 .. Len(s) + 1 = 1 .. Len(s) \cup {Len(s) + 1}
    BY <2>1
  <2>3. ToSet(added) = {added[i] : i \in 1 .. Len(s)} \cup {added[Len(s) + 1]}
    BY <2>1, <2>2 DEF ToSet
  <2>4. ToSet(s) = {added[i] : i \in 1 .. Len(s)}
    BY <2>1 DEF ToSet
  <2> QED BY <2>1, <2>3, <2>4
<1>9. /\ x.w.torn => more = s /\ Behind(x.w, id) = {id}
      /\ ~x.w.torn => more = added /\ Behind(x.w, id) = {}
  BY <1>7 DEF Buffered, Behind
<1> HIDE DEF added
<1>10. more \in Seq(1 .. Len(q)) /\ ToSet(more) \cup Behind(x.w, id) = ToSet(s) \cup {id}
  <2>1. CASE x.w.torn
    BY <1>6, <1>9, <2>1
  <2>2. CASE ~x.w.torn
    BY <1>7, <1>8, <1>9, <2>2
  <2> QED BY <2>1, <2>2
<1>11. x.dir[x.w.path].cut => x.w.torn /\ more = <<>>
  BY <1>5, <1>9
<1>12. Len(q) \in Nat
  BY <1>0, <1>3
<1> QED BY <1>2, <1>3, <1>4, <1>5, <1>6, <1>9, <1>10, <1>11, <1>12, Zenon DEF s, id, added

Adds(v, size, more) == [v EXCEPT !.next = @ + 1, !.bytes = @ + size, !.pending = more]

LEMMA WriterAdds ==
  ASSUME NEW v, NEW q, WriterOK(v, q), Len(q) \in Nat, NEW r, Len(r) = Len(q) + 1, NEW size \in Nat,
         v.open, NEW more, more \in Seq(1 .. Len(r)),
         NEW u, u = Adds(v, size, more)
  PROVE  WriterOK(u, r) /\ u.path = v.path /\ u.pending = more /\ u.open /\ u.next = v.next + 1 /\ u.torn = v.torn
<1>1. v \in Writer
      /\ v.next <= Len(q)
  BY DEF WriterOK
<1>2. more \in Seq(Nat)
  <2>1. 1 .. Len(r) \subseteq Nat
    OBVIOUS
  <2>2. Len(more) \in Nat /\ more \in [1 .. Len(more) -> Nat]
    BY <2>1
  <2> QED BY <2>2
<1>3. v.next + 1 \in Nat /\ v.bytes + size \in Nat /\ v.next + 1 <= Len(r)
  BY <1>1 DEF Writer
<1>4. /\ u \in Writer
      /\ u.path = v.path /\ u.pending = more /\ u.open = v.open /\ u.next = v.next + 1 /\ u.torn = v.torn
  BY <1>1, <1>2, <1>3 DEF Adds, Writer
<1> QED BY <1>3, <1>4 DEF WriterOK

LEMMA AppendSyncFailsInv ==
  ASSUME ManagerInv, NEW size \in Sizes, AppendSyncFails(size)
  PROVE  ManagerInv'
<1> DEFINE id == Len(seqOf) + 1
<1>1. /\ phase = "open" /\ id <= MaxAppends /\ upset' = TRUE
      /\ UNCHANGED <<opts, phase, globalSeq, ready, acked, gone, committed>>
  BY DEF AppendSyncFails
<1>2. PICK x \in Targets(size) :
        /\ x.w.open /\ Move(x) /\ dir' = x.dir
        /\ w' = [x.w EXCEPT !.next = @ + 1, !.bytes = @ + size, !.pending = Buffered(x.w, id)]
        /\ lost' = x.lost \cup Behind(x.w, id)
        /\ seqOf' = Append(seqOf, x.w.next) /\ segCount' = x.count
  BY DEF AppendSyncFails
<1>3. TargetOK(x) /\ IoFaults
  BY <1>1, TargetsOK DEF AppendSyncFails
<1>4. dir' = x.dir /\ clock' = x.clock /\ segments' = x.segments
  BY <1>2 DEF Move
<1> DEFINE more == Buffered(x.w, id)
<1>5. /\ NumbersOK(seqOf') /\ Len(seqOf') = Len(seqOf) + 1 /\ FilesOK(x.dir, seqOf', x.clock)
      /\ more \in Seq(1 .. Len(seqOf')) /\ Len(seqOf) \in Nat
      /\ ToSet(more) \cup Behind(x.w, id) = ToSet(x.w.pending) \cup {id}
      /\ x.dir[x.w.path].cut => x.w.torn /\ more = <<>>
  BY <1>1, <1>2, <1>3, TargetFacts, ManagerFacts
<1>6. WriterOK(w', seqOf') /\ w'.path = x.w.path /\ w'.pending = more /\ w'.open /\ w'.torn = x.w.torn
  <2>1. size \in Nat /\ WriterOK(x.w, seqOf)
    BY <1>3, OptionFacts DEF TargetOK
  <2>2. w' = Adds(x.w, size, more)
    BY <1>2 DEF Adds
  <2>3. more \in Seq(1 .. Len(seqOf')) /\ x.w.open
    BY <1>2, <1>5
  <2>4. Len(seqOf) \in Nat /\ Len(seqOf') = Len(seqOf) + 1
    BY <1>5
  <2> HIDE DEF more
  <2> DEFINE v == x.w
             u == w'
             q == seqOf
             n == seqOf'
  <2>5. /\ WriterOK(v, q) /\ Len(q) \in Nat /\ Len(n) = Len(q) + 1 /\ size \in Nat /\ v.open
        /\ more \in Seq(1 .. Len(n)) /\ u = Adds(v, size, more)
    BY <2>1, <2>2, <2>3, <2>4
  <2> HIDE DEF v, u, q, n
  <2>6. WriterOK(u, n) /\ u.path = v.path /\ u.pending = more /\ u.open /\ u.torn = v.torn
    BY <2>5, WriterAdds
  <2> QED BY <2>6 DEF v, u, q, n
<1> HIDE DEF more
<1>7. SessionOK'
  <2>1. ListOK(dir', clock', segments', w')
    BY <1>3, <1>4, <1>5, <1>6 DEF TargetOK, ListOK
  <2> QED BY <1>1, <2>1 DEF ManagerInv, SessionOK
<1>8. Kept'
  <2>1. acked \subseteq InFiles(dir) \cup ToSet(w.pending) \cup gone \cup lost
    BY DEF ManagerInv, Kept
  <2>2. /\ InFiles(dir) \cup ToSet(w.pending) \subseteq InFiles(x.dir) \cup ToSet(x.w.pending) \cup x.lost
        /\ lost \subseteq x.lost
    BY <1>3 DEF TargetOK
  <2> QED BY <1>1, <1>2, <1>4, <1>5, <1>6, <2>1, <2>2 DEF Kept, more
<1>9. ScalarsOK'
  <2>1. /\ globalSeq \in 0 .. Len(seqOf) /\ acked \subseteq 1 .. Len(seqOf) /\ gone \subseteq 1 .. Len(seqOf)
        /\ x.count \in 0 .. MaxRecs - 1 /\ MaxRecs \in Nat /\ x.lost \subseteq 1 .. Len(seqOf)
    BY <1>3, ManagerFacts, OptionFacts DEF TargetOK
  <2>2. globalSeq \in 0 .. Len(seqOf') /\ x.count \in 0 .. MaxRecs
        /\ 1 .. Len(seqOf) \subseteq 1 .. Len(seqOf') /\ id \in 1 .. Len(seqOf')
    BY <1>5, <2>1
  <2>3. lost' \subseteq 1 .. Len(seqOf')
    BY <1>2, <2>1, <2>2 DEF Behind
  <2> QED BY <1>1, <1>2, <1>3, <1>4, <2>1, <2>2, <2>3 DEF ManagerInv, ScalarsOK, TargetOK
<1>10. OrderOK'
  BY <1>1 DEF OrderOK
<1> QED BY <1>4, <1>5, <1>6, <1>7, <1>8, <1>9, <1>10 DEF ManagerInv

LEMMA AppendTornInv ==
  ASSUME ManagerInv, NEW size \in Sizes, AppendFails(size)
  PROVE  ManagerInv'
<1>1. /\ phase = "open" /\ IoFaults
      /\ UNCHANGED <<opts, phase, globalSeq, ready, seqOf, acked, gone, committed>>
  BY DEF AppendFails
<1>2. PICK x \in Targets(size), cut \in BOOLEAN :
        /\ x.w.open /\ Move(x) /\ dir' = x.dir /\ segCount' = x.count
        /\ w' = [x.w EXCEPT !.torn = @ \/ cut] /\ lost' = x.lost /\ upset' = x.upset
  BY DEF AppendFails
<1>3. TargetOK(x) /\ NumbersOK(seqOf) /\ Len(seqOf) \in Nat /\ Kept /\ MaxRecs \in Nat
  BY <1>1, TargetsOK, ManagerFacts, OptionFacts
<1>4. dir' = x.dir /\ clock' = x.clock /\ segments' = x.segments
  BY <1>2 DEF Move
<1>5. /\ FilesOK(x.dir, seqOf, x.clock) /\ WriterOK(x.w, seqOf) /\ ListOK(x.dir, x.clock, x.segments, x.w)
      /\ x.w \in Writer /\ x.w.torn \in BOOLEAN /\ x.w.pending \in Seq(1 .. Len(seqOf))
  BY <1>3 DEF TargetOK, WriterOK, Writer
<1>6. /\ w' \in Writer /\ w'.path = x.w.path /\ w'.next = x.w.next /\ w'.pending = x.w.pending
      /\ w'.open = x.w.open /\ w'.torn = (x.w.torn \/ cut)
  BY <1>2, <1>5 DEF Writer
<1>7. WriterOK(w', seqOf)
  BY <1>5, <1>6 DEF WriterOK
<1>8. SessionOK'
  <2>1. ListOK(dir', clock', segments', w')
    BY <1>1, <1>4, <1>5, <1>6 DEF ListOK
  <2> QED BY <1>1, <2>1 DEF ManagerInv, SessionOK
<1>9. Kept'
  BY <1>1, <1>2, <1>3, <1>4, <1>6 DEF Kept, TargetOK
<1>10. ScalarsOK'
  <2>1. x.count \in 0 .. MaxRecs
    BY <1>3 DEF TargetOK
  <2> QED BY <1>1, <1>2, <1>3, <1>4, <2>1 DEF ManagerInv, ScalarsOK, TargetOK
<1>11. OrderOK'
  <2> DEFINE f == Full(x.dir, x.w)
  <2> SUFFICES ASSUME ~x.upset
               PROVE  /\ Numbered(Flushed', seqOf) /\ Apart(Flushed') /\ Listed(dir', segments')
                      /\ Ahead(Flushed', w', globalSeq)
    BY <1>1, <1>2 DEF OrderOK
  <2>1. Numbered(f, seqOf) /\ Apart(f) /\ Listed(x.dir, x.segments) /\ Ahead(f, x.w, globalSeq)
    BY <1>3 DEF TargetOK
  <2>2. DOMAIN Flushed' = DOMAIN f /\ x.w.path \in DOMAIN f /\ \A r \in DOMAIN f : Flushed'[r].recs = f[r].recs
    <3> DEFINE d == x.dir
               p == x.w.path
               b == x.w.pending
               m == x.w.torn
               n == w'.torn
               h == Flushed'
               t == x.clock
    <3>0. Len(seqOf) \in Nat
      BY <1>3
    <3>1. /\ FilesOK(d, seqOf, t) /\ p \in DOMAIN d /\ b \in Seq(1 .. Len(seqOf)) /\ m \in BOOLEAN /\ n \in BOOLEAN
      BY <1>5, <1>6 DEF ListOK
    <3>2. f = FileWith(d, p, b, m) /\ h = FileWith(d, p, b, n)
      BY <1>2, <1>4, <1>6 DEF Full, Flushed
    <3> HIDE DEF d, p, b, m, n, h, f, t
    <3>3. /\ DOMAIN f = DOMAIN d /\ \A r \in DOMAIN d \ {p} : f[r] = d[r]
          /\ f[p].recs = d[p].recs \o b
      BY <3>0, <3>1, <3>2, FileWithAll, SMTT(60)
    <3>4. /\ DOMAIN h = DOMAIN d /\ \A r \in DOMAIN d \ {p} : h[r] = d[r]
          /\ h[p].recs = d[p].recs \o b
      BY <3>0, <3>1, <3>2, FileWithAll, SMTT(60)
    <3>5. DOMAIN h = DOMAIN f /\ p \in DOMAIN f /\ \A r \in DOMAIN f : h[r].recs = f[r].recs
      BY <3>1, <3>3, <3>4
    <3> QED BY <3>5 DEF p, h
  <2> HIDE DEF f
  <2>3. Numbered(Flushed', seqOf) /\ Apart(Flushed') /\ \A r \in DOMAIN f : End(Flushed', r) = End(f, r)
    BY <2>1, <2>2, SameRecords
  <2>4. Ahead(Flushed', w', globalSeq)
    BY <1>2, <1>6, <2>1, <2>2, <2>3 DEF Ahead
  <2> QED BY <1>4, <2>1, <2>3, <2>4
<1> QED BY <1>1, <1>3, <1>4, <1>5, <1>7, <1>8, <1>9, <1>10, <1>11 DEF ManagerInv

LEMMA OneMore ==
  ASSUME NEW n \in Nat, NEW a \in Seq(1 .. n), NEW b \in Seq(1 .. n)
  PROVE  a \o (b \o <<n + 1>>) = (a \o b) \o <<n + 1>>
<1>1. n + 1 \in Nat /\ a \in Seq(1 .. n + 1) /\ b \in Seq(1 .. n + 1)
  <2>1. n + 1 \in Nat /\ n <= n + 1
    OBVIOUS
  <2> QED BY <2>1, WiderSeq
<1>2. <<n + 1>> \in Seq(1 .. n + 1)
  OBVIOUS
<1> QED BY <1>1, <1>2, ConcatAssociative

LEMMA AppendRecordInv ==
  ASSUME ManagerInv, NEW size \in Sizes, AppendRecord(size)
  PROVE  ManagerInv'
<1> DEFINE id == Len(seqOf) + 1
<1>1. /\ phase = "open" /\ id <= MaxAppends /\ acked' = acked \cup {id} /\ globalSeq' = globalSeq + 1
      /\ UNCHANGED <<opts, phase, ready, gone, committed>>
  BY DEF AppendRecord
<1>2. PICK x \in Targets(size) :
        /\ x.w.open /\ clock' = x.clock /\ segments' = x.segments /\ upset' = x.upset
        /\ dir' = IF opts.sync THEN FileWith(x.dir, x.w.path, Buffered(x.w, id), x.w.torn) ELSE x.dir
        /\ w' = [x.w EXCEPT !.next = @ + 1, !.bytes = @ + size,
                            !.pending = IF opts.sync THEN <<>> ELSE Buffered(x.w, id)]
        /\ lost' = x.lost \cup Behind(x.w, id)
        /\ seqOf' = Append(seqOf, x.w.next) /\ segCount' = x.count + 1
  BY DEF AppendRecord, Move
<1>3. TargetOK(x)
  BY <1>1, TargetsOK
<1> DEFINE p == x.w.path
           old == x.w.pending
           torn == x.w.torn
           more == Buffered(x.w, id)
           behind == Behind(x.w, id)
           full == FileWith(x.dir, p, more, torn)
<1>0. /\ id = Len(seqOf) + 1 /\ p = x.w.path /\ old = x.w.pending /\ torn = x.w.torn
      /\ more = Buffered(x.w, id) /\ behind = Behind(x.w, id) /\ full = FileWith(x.dir, p, more, torn)
  OBVIOUS
<1>4. /\ NumbersOK(seqOf') /\ Len(seqOf') = Len(seqOf) + 1 /\ Len(seqOf') \in Nat
      /\ FilesOK(x.dir, seqOf', x.clock) /\ p \in DOMAIN x.dir /\ torn \in BOOLEAN
      /\ x.dir[p].cut => torn /\ more = <<>>
      /\ more \in Seq(1 .. Len(seqOf')) /\ old \in Seq(1 .. Len(seqOf))
      /\ torn => more = old /\ behind = {id}
      /\ ~torn => more = old \o <<id>> /\ behind = {}
      /\ ToSet(more) \cup behind = ToSet(old) \cup {id}
  <2> DEFINE q == seqOf'
             n == Len(seqOf) + 1
  <2>1. n <= MaxAppends /\ x.w.open /\ q = Append(seqOf, x.w.next) /\ more = Buffered(x.w, n)
    BY <1>1, <1>2
  <2> HIDE DEF q, more
  <2>2. /\ NumbersOK(q) /\ Len(q) = n /\ Len(q) \in Nat /\ FilesOK(x.dir, q, x.clock)
        /\ x.w.path \in DOMAIN x.dir /\ x.w.torn \in BOOLEAN
        /\ x.w.pending \in Seq(1 .. Len(seqOf)) /\ more \in Seq(1 .. Len(q))
    BY <1>3, <2>1, TargetFacts
  <2>3. x.dir[x.w.path].cut => x.w.torn /\ more = <<>>
    BY <1>3, <2>1, TargetFacts
  <2>4. /\ x.w.torn => more = x.w.pending /\ Behind(x.w, n) = {n}
        /\ ~x.w.torn => more = x.w.pending \o <<n>> /\ Behind(x.w, n) = {}
        /\ ToSet(more) \cup Behind(x.w, n) = ToSet(x.w.pending) \cup {n}
    BY <1>3, <2>1, TargetFacts
  <2> QED BY <2>2, <2>3, <2>4 DEF q
<1> HIDE DEF id, p, old, torn, more, behind, full
<1>5. /\ Len(seqOf) \in Nat /\ globalSeq \in 0 .. Len(seqOf) /\ acked \subseteq 1 .. Len(seqOf)
      /\ gone \subseteq 1 .. Len(seqOf) /\ opts.sync \in BOOLEAN /\ MaxRecs \in Nat /\ size \in Nat
      /\ NumbersOK(seqOf) /\ Kept
  <2>1. size \in Nat /\ MaxRecs \in Nat
    BY OptionFacts
  <2> QED BY <2>1, ManagerFacts
<1>6. /\ w'.open /\ w'.path = p /\ w'.next = x.w.next + 1 /\ w'.torn = torn /\ WriterOK(w', seqOf')
      /\ w'.pending = IF opts.sync THEN <<>> ELSE more
  <2> DEFINE rest == IF opts.sync THEN <<>> ELSE more
  <2>1. rest \in Seq(1 .. Len(seqOf'))
    <3>1. <<>> \in Seq(1 .. Len(seqOf'))
      OBVIOUS
    <3> QED BY <1>4, <3>1
  <2>2. w' = Adds(x.w, size, rest)
    BY <1>0, <1>2 DEF Adds
  <2> HIDE DEF rest
  <2>3. WriterOK(x.w, seqOf) /\ x.w.open
    BY <1>2, <1>3 DEF TargetOK
  <2>4. /\ WriterOK(w', seqOf') /\ w'.path = x.w.path /\ w'.pending = rest /\ w'.open
        /\ w'.next = x.w.next + 1 /\ w'.torn = x.w.torn
    BY <1>4, <1>5, <2>1, <2>2, <2>3, WriterAdds
  <2> QED BY <1>0, <2>4 DEF rest
<1>7. dir' = IF opts.sync THEN full ELSE x.dir
  BY <1>0, <1>2
<1>8. /\ FilesOK(full, seqOf', x.clock) /\ DOMAIN full = DOMAIN x.dir
      /\ (full[p].cut <=> x.dir[p].cut \/ torn)
      /\ \A r \in DOMAIN x.dir \ {p} : full[r] = x.dir[r]
      /\ full[p].recs = x.dir[p].recs \o more
      /\ InFiles(x.dir) \cup ToSet(more) \subseteq InFiles(full)
  <2> DEFINE d == x.dir
             q == seqOf'
             t == x.clock
  <2>1. /\ FilesOK(d, q, t) /\ Len(q) \in Nat /\ p \in DOMAIN d /\ torn \in BOOLEAN
        /\ more \in Seq(1 .. Len(q)) /\ full = FileWith(d, p, more, torn)
    BY <1>0, <1>4
  <2> HIDE DEF d, q, t
  <2>2. /\ FilesOK(full, q, t) /\ DOMAIN full = DOMAIN d
        /\ (full[p].cut <=> d[p].cut \/ torn)
        /\ \A r \in DOMAIN d \ {p} : full[r] = d[r]
        /\ full[p].recs = d[p].recs \o more
        /\ InFiles(d) \cup ToSet(more) \subseteq InFiles(full)
    BY <2>1, FileWithAll, SMTT(60)
  <2> QED BY <2>2 DEF d, q, t
<1>9. Flushed' = full
  <2>1. CASE opts.sync
    <3>1. IsDir(full) /\ p \in DOMAIN full /\ (torn => full[p].cut)
      BY <1>4, <1>8 DEF FilesOK
    <3>2. FileWith(full, p, <<>>, torn) = full
      BY <1>4, <3>1, FileWithNothing
    <3> QED BY <1>6, <1>7, <2>1, <3>2 DEF Flushed
  <2>2. CASE ~opts.sync
    BY <1>0, <1>6, <1>7, <2>2 DEF Flushed
  <2> QED BY <2>1, <2>2
<1>10. FilesOK(dir', seqOf', clock') /\ ListOK(dir', clock', segments', w')
  <2>1. ListOK(x.dir, x.clock, x.segments, x.w)
    BY <1>3 DEF TargetOK
  <2>2. CASE opts.sync
    <3>1. /\ w'.path = x.w.path /\ w'.torn = x.w.torn /\ w'.pending = <<>> /\ DOMAIN full = DOMAIN x.dir
          /\ full[w'.path].cut => w'.torn
          /\ \A r \in DOMAIN x.dir : full[r].cut => x.dir[r].cut \/ x.w.torn
      BY <1>0, <1>4, <1>6, <1>8, <2>2
    <3>2. ListOK(full, x.clock, x.segments, w')
      BY <2>1, <3>1 DEF ListOK
    <3> QED BY <1>2, <1>4, <1>7, <1>8, <2>2, <3>2
  <2>3. CASE ~opts.sync
    <3>1. /\ w'.path = x.w.path /\ w'.torn = x.w.torn
          /\ x.dir[w'.path].cut => w'.torn /\ w'.pending = <<>>
      BY <1>0, <1>4, <1>6, <2>3
    <3>2. ListOK(x.dir, x.clock, x.segments, w')
      BY <2>1, <3>1 DEF ListOK
    <3> QED BY <1>2, <1>4, <1>7, <2>3, <3>2
  <2> QED BY <2>2, <2>3
<1>11. SessionOK'
  BY <1>1, <1>10 DEF ManagerInv, SessionOK
<1>12. Kept'
  <2>1. acked \subseteq InFiles(x.dir) \cup ToSet(old) \cup gone \cup x.lost
    BY <1>0, <1>3, <1>5 DEF Kept, TargetOK
  <2>2. InFiles(x.dir) \cup ToSet(old) \cup {id} \subseteq InFiles(dir') \cup ToSet(w'.pending) \cup behind
    <3>1. CASE opts.sync
      BY <1>4, <1>7, <1>8, <3>1
    <3>2. CASE ~opts.sync
      BY <1>4, <1>6, <1>7, <3>2
    <3> QED BY <3>1, <3>2
  <2>3. lost' = x.lost \cup behind
    BY <1>0, <1>2
  <2> QED BY <1>1, <2>1, <2>2, <2>3 DEF Kept
<1>13. ScalarsOK'
  <2>1. /\ x.count \in 0 .. MaxRecs - 1 /\ x.clock \in 0 .. MaxSegs /\ x.upset \in BOOLEAN
        /\ x.lost \subseteq 1 .. Len(seqOf) /\ (IoFaults \/ x.lost = {}) /\ (~IoFaults => ~torn)
    BY <1>0, <1>3 DEF TargetOK, ListOK
  <2>2. x.count + 1 \in 0 .. MaxRecs /\ globalSeq + 1 \in 0 .. Len(seqOf')
        /\ 1 .. Len(seqOf) \subseteq 1 .. Len(seqOf') /\ id \in 1 .. Len(seqOf')
    BY <1>0, <1>4, <1>5, <2>1
  <2>3. lost' = x.lost \cup behind /\ behind \subseteq {id} /\ (~torn => behind = {})
    BY <1>0, <1>2, <1>4
  <2>4. lost' \subseteq 1 .. Len(seqOf') /\ (IoFaults \/ lost' = {})
    BY <2>1, <2>2, <2>3
  <2> QED BY <1>0, <1>1, <1>2, <1>5, <2>1, <2>2, <2>4 DEF ManagerInv, ScalarsOK
<1>14. OrderOK'
  <2> SUFFICES ASSUME ~x.upset
               PROVE  /\ Numbered(full, seqOf') /\ Apart(full) /\ Listed(dir', segments')
                      /\ Ahead(full, w', globalSeq')
    BY <1>1, <1>2, <1>9 DEF OrderOK
  <2> DEFINE f == Full(x.dir, x.w)
             d == x.dir
             v == x.w
             t == x.clock
  <2>1. /\ Numbered(f, seqOf) /\ Apart(f) /\ Listed(x.dir, x.segments) /\ Ahead(f, v, globalSeq)
        /\ FilesOK(d, seqOf, t)
    BY <1>3 DEF TargetOK
  <2>2. f = FileWith(d, p, old, torn) /\ v.path = p /\ v.open /\ v.torn = torn
    BY <1>0, <1>2 DEF Full
  <2>3. /\ p \in DOMAIN d /\ DOMAIN full = DOMAIN d
        /\ \A r \in DOMAIN d \ {p} : full[r] = d[r]
        /\ full[p].recs = d[p].recs \o more /\ full = FileWith(d, p, more, torn)
    BY <1>0, <1>4, <1>8
  <2>4. x.w.next = globalSeq
    BY <1>2, <2>1 DEF Ahead
  <2>5. seqOf' = Append(seqOf, globalSeq) /\ w'.next = globalSeq + 1 /\ w'.path = p /\ w'.torn = torn
    BY <1>2, <1>6, <2>4
  <2>6. NumbersOK(seqOf) /\ old \in Seq(1 .. Len(seqOf)) /\ globalSeq \in 0 .. Len(seqOf)
    BY <1>4, <1>5
  <2> HIDE DEF f, d, v, t
  <2>7. /\ FilesOK(f, seqOf, t) /\ DOMAIN f = DOMAIN d
        /\ \A r \in DOMAIN d \ {p} : f[r] = d[r]
        /\ f[p].recs = d[p].recs \o old
    <3>1. FilesOK(d, seqOf, t) /\ Len(seqOf) \in Nat /\ p \in DOMAIN d /\ torn \in BOOLEAN
      BY <1>4, <1>5, <2>1, <2>3
    <3>2. old \in Seq(1 .. Len(seqOf)) /\ f = FileWith(d, p, old, torn)
      BY <2>2, <2>6
    <3> QED BY <3>1, <3>2, FileWithAll, SMTT(60)
  <2> DEFINE u == w'
             g == globalSeq
  <2>8. /\ u.path = p /\ u.next = g + 1 /\ u.torn = torn /\ v.path = p /\ v.open /\ v.torn = torn
        /\ g \in 0 .. Len(seqOf) /\ Ahead(f, v, g) /\ p \in DOMAIN f
    BY <2>1, <2>2, <2>3, <2>5, <2>6, <2>7
  <2> HIDE DEF u, g
  <2>9. Numbered(full, Append(seqOf, g)) /\ Apart(full) /\ Ahead(full, u, g + 1)
    <3>1. CASE torn
      <4>1. full = f
        BY <1>4, <2>2, <2>3, <3>1
      <4>2. Numbered(f, Append(seqOf, g)) /\ Ahead(f, u, g + 1)
        BY <2>1, <2>6, <2>7, <2>8, <3>1, AddNumber, ZenonT(60)
      <4> QED BY <2>1, <4>1, <4>2
    <3>2. CASE ~torn
      <4>1. DOMAIN full = DOMAIN f /\ \A r \in DOMAIN f \ {p} : full[r] = f[r]
        BY <2>3, <2>7
      <4>2. full[p].recs = f[p].recs \o <<Len(seqOf) + 1>>
        <5>1. d[p].recs \in Seq(1 .. Len(seqOf))
          BY <2>1, <2>3 DEF FilesOK
        <5>2. d[p].recs \o (old \o <<Len(seqOf) + 1>>) = (d[p].recs \o old) \o <<Len(seqOf) + 1>>
          BY <1>5, <2>6, <5>1, OneMore
        <5> QED BY <1>0, <1>4, <2>3, <2>7, <3>2, <5>2
      <4> QED BY <2>1, <2>6, <2>7, <2>8, <3>2, <4>1, <4>2, AddRecord, ZenonT(60)
    <3> QED BY <3>1, <3>2
  <2>10. Listed(dir', segments')
    BY <1>2, <1>7, <1>8, <2>1 DEF Listed, d
  <2> QED BY <1>1, <2>5, <2>9, <2>10 DEF u, g
<1> QED BY <1>4, <1>6, <1>10, <1>11, <1>12, <1>13, <1>14 DEF ManagerInv

-----------------------------------------------------------------------------
(* remove_segment() *)

LEMMA RemoveInv ==
  ASSUME ManagerInv, NEW p \in ToSet(segments), RemoveSegment(p)
  PROVE  ManagerInv'
<1>0. /\ NumbersOK(seqOf) /\ Len(seqOf) \in Nat /\ FilesOK(dir, seqOf, clock) /\ WriterOK(w, seqOf)
      /\ gone \subseteq 1 .. Len(seqOf) /\ Kept
  BY ManagerFacts
<1>1. /\ phase # "down" /\ p # Last(segments)
      /\ dir' = [q \in DOMAIN dir \ {p} |-> dir[q]] /\ gone' = gone \cup ToSet(Recs(dir, p))
      /\ UNCHANGED <<opts, upset, clock, phase, w, globalSeq, segCount, ready, seqOf, acked, lost, committed>>
  BY DEF RemoveSegment
<1>2. PICK i \in DOMAIN segments : segments[i] = p /\ segments' = RemoveAt(segments, i)
  BY DEF RemoveSegment
<1>3. ListOK(dir, clock, segments, w)
  BY <1>1, ManagerFacts
<1>4. segments \in Seq(Path) /\ i \in 1 .. Len(segments) /\ Len(segments) \in Nat
  BY <1>2, <1>3 DEF ListOK
<1>5. /\ segments' \in Seq(Path) /\ Len(segments') = Len(segments) - 1 /\ segments' # <<>>
      /\ \A k \in 1 .. Len(segments) - 1 : segments'[k] = IF k < i THEN segments[k] ELSE segments[k + 1]
      /\ Last(segments') = Last(segments)
      /\ \A r \in ToSet(segments) : r # p => r \in ToSet(segments')
  BY <1>1, <1>2, <1>4, RemovedFromList
<1>6. /\ DOMAIN dir' = DOMAIN dir \ {p} /\ \A r \in DOMAIN dir' : dir'[r] = dir[r]
      /\ IsDir(dir') /\ IsDir(dir)
  <2>1. DOMAIN dir' = DOMAIN dir \ {p} /\ \A r \in DOMAIN dir' : dir'[r] = dir[r]
    BY <1>1
  <2>2. IsDir(dir)
    BY <1>0 DEF FilesOK
  <2>3. IsDir(dir')
    BY <1>1, <2>2 DEF IsDir
  <2> QED BY <2>1, <2>2, <2>3
<1>7. FilesOK(dir', seqOf, clock)
  <2>1. IsFiniteSet(DOMAIN dir')
    BY <1>0, <1>6, FS_Subset DEF FilesOK
  <2> QED BY <1>0, <1>6, <2>1 DEF FilesOK
<1>8. ListOK(dir', clock, segments', w)
  <2>1. w.path \in DOMAIN dir' /\ dir'[w.path] = dir[w.path]
    BY <1>1, <1>3, <1>6 DEF ListOK
  <2>2. DOMAIN dir' \subseteq ToSet(segments')
    BY <1>3, <1>5, <1>6 DEF ListOK
  <2> QED BY <1>3, <1>5, <1>6, <2>1, <2>2 DEF ListOK
<1>9. SessionOK'
  BY <1>1, <1>8 DEF ManagerInv, SessionOK
<1>10. Kept' /\ gone' \subseteq 1 .. Len(seqOf)
  <2>1. InFiles(dir) \subseteq InFiles(dir') \cup ToSet(Recs(dir, p))
    <3> SUFFICES ASSUME NEW id \in InFiles(dir) PROVE id \in InFiles(dir') \cup ToSet(Recs(dir, p))
      OBVIOUS
    <3>1. PICK r \in DOMAIN dir : id \in ToSet(dir[r].recs)
      BY DEF InFiles
    <3>2. CASE r = p
      BY <3>1, <3>2 DEF Recs
    <3>3. CASE r # p
      <4>1. r \in DOMAIN dir' /\ dir'[r] = dir[r]
        BY <1>6, <3>3
      <4> QED BY <3>1, <4>1 DEF InFiles
    <3> QED BY <3>2, <3>3
  <2>2. ToSet(Recs(dir, p)) \subseteq 1 .. Len(seqOf)
    <3>1. Recs(dir, p) \in Seq(1 .. Len(seqOf))
      <4>1. <<>> \in Seq(1 .. Len(seqOf))
        OBVIOUS
      <4> QED BY <1>0, <4>1 DEF Recs, FilesOK
    <3> QED BY <3>1 DEF ToSet
  <2> QED BY <1>0, <1>1, <2>1, <2>2 DEF Kept
<1>11. ScalarsOK'
  BY <1>1, <1>10 DEF ManagerInv, ScalarsOK
<1>12. OrderOK'
  <2> SUFFICES ASSUME ~upset
               PROVE  /\ Numbered(Flushed', seqOf) /\ Apart(Flushed') /\ Listed(dir', segments')
                      /\ phase = "open" => Ahead(Flushed', w, globalSeq)
    BY <1>1 DEF OrderOK
  <2>1. /\ Numbered(Flushed, seqOf) /\ Apart(Flushed) /\ Listed(dir, segments)
        /\ phase = "open" => Ahead(Flushed, w, globalSeq)
    BY <1>1 DEF ManagerInv, OrderOK
  <2>2. /\ DOMAIN Flushed' = DOMAIN Flushed \ {p} /\ FilesOK(Flushed', seqOf, clock)
        /\ \A r \in DOMAIN Flushed' : Flushed'[r] = Flushed[r]
    <3>0. w.pending \in Seq(1 .. Len(seqOf)) /\ clock \in Nat /\ w.torn \in BOOLEAN
      BY ManagerFacts
    <3>1. CASE w.open
      <4>1. w.path = Last(segments) /\ w.path \in DOMAIN dir /\ w.path # p
        BY <1>1, <1>3, <3>0 DEF ListOK
      <4>2. w.path \in DOMAIN dir' /\ dir'[w.path] = dir[w.path]
        BY <1>6, <4>1
      <4>3. /\ Flushed = FileWith(dir, w.path, w.pending, w.torn)
              /\ Flushed' = FileWith(dir', w.path, w.pending, w.torn)
        BY <1>1, <3>1 DEF Flushed
      <4>4. /\ DOMAIN Flushed = DOMAIN dir /\ \A r \in DOMAIN dir \ {w.path} : Flushed[r] = dir[r]
        BY <1>0, <3>0, <4>1, <4>3, FileWithAll
      <4>5. /\ FilesOK(Flushed', seqOf, clock) /\ DOMAIN Flushed' = DOMAIN dir'
            /\ \A r \in DOMAIN dir' \ {w.path} : Flushed'[r] = dir'[r]
        BY <1>0, <1>7, <3>0, <4>1, <4>2, <4>3, FileWithAll
      <4>6. Flushed'[w.path] = Flushed[w.path]
        BY <1>6, <4>1, <4>2, <4>3 DEF FileWith, IsDir
      <4> QED BY <1>6, <4>4, <4>5, <4>6
    <3>2. CASE ~w.open
      <4>1. Flushed = dir /\ Flushed' = dir'
        BY <1>1, <3>2 DEF Flushed
      <4> QED BY <1>6, <1>7, <4>1
    <3> QED BY <3>1, <3>2
  <2>3. FilesOK(Flushed, seqOf, clock) /\ DOMAIN Flushed = DOMAIN dir
    BY FlushFacts
  <2>4. Numbered(Flushed', seqOf) /\ Apart(Flushed')
    <3>1. \A r \in DOMAIN Flushed' : /\ Len(Flushed'[r].recs) <= Len(Flushed[r].recs)
                                     /\ \A a \in 1 .. Len(Flushed'[r].recs) : Flushed'[r].recs[a] = Flushed[r].recs[a]
      <4>1. \A r \in DOMAIN Flushed : Len(Flushed[r].recs) \in Nat
        BY <2>3 DEF FilesOK
      <4> QED BY <2>2, <4>1
    <3>2. DOMAIN Flushed' \subseteq DOMAIN Flushed
      BY <2>2
    <3> QED BY <2>1, <2>2, <2>3, <3>1, <3>2, ShorterOrder
  <2>5. phase = "open" => Ahead(Flushed', w, globalSeq)
    <3>1. \A r \in DOMAIN Flushed' : End(Flushed', r) = End(Flushed, r) /\ r \in DOMAIN Flushed
      BY <2>2 DEF End
    <3>2. w.path \in DOMAIN Flushed'
      BY <1>1, <1>3, <2>2, <2>3 DEF ListOK
    <3> QED BY <2>1, <3>1, <3>2 DEF Ahead
  <2>6. Listed(dir', segments')
    <3> DEFINE at(k) == IF k < i THEN k ELSE k + 1
    <3>1. DOMAIN segments' = 1 .. Len(segments) - 1 /\ DOMAIN segments = 1 .. Len(segments)
      BY <1>4, <1>5
    <3>2. \A k \in 1 .. Len(segments) - 1 :
             at(k) \in 1 .. Len(segments) /\ at(k) # i /\ segments'[k] = segments[at(k)]
      BY <1>4, <1>5
    <3>3. \A k, m \in 1 .. Len(segments) - 1 : k < m => at(k) < at(m)
      BY <1>4
    <3>4. \A k \in 1 .. Len(segments) : k # i => segments[k] \in DOMAIN dir'
      <4> SUFFICES ASSUME NEW k \in 1 .. Len(segments), k # i PROVE segments[k] \in DOMAIN dir'
        OBVIOUS
      <4>1. segments[k] \in DOMAIN dir
        BY <2>1, <3>1 DEF Listed, ToSet
      <4>2. segments[k] # segments[i]
        <5>1. k < i \/ i < k
          BY <1>4
        <5> QED BY <1>4, <2>1, <3>1, <5>1 DEF Listed
      <4> QED BY <1>2, <1>6, <4>1, <4>2
    <3> HIDE DEF at
    <3>5. ToSet(segments') \subseteq DOMAIN dir'
      BY <3>1, <3>2, <3>4 DEF ToSet
    <3>6. \A k, m \in DOMAIN segments' : k < m => segments'[k] # segments'[m] /\ segments'[k][1] <= segments'[m][1]
      BY <2>1, <3>1, <3>2, <3>3 DEF Listed
    <3> QED BY <3>5, <3>6 DEF Listed
  <2> QED BY <2>4, <2>5, <2>6
<1> QED BY <1>0, <1>1, <1>7, <1>9, <1>10, <1>11, <1>12 DEF ManagerInv

-----------------------------------------------------------------------------
(* Crashes *)

LEMMA NoWriterOK ==
  ASSUME NEW q, Len(q) \in Nat
  PROVE  WriterOK(NoWriter, q) /\ ~NoWriter.open /\ NoWriter.pending = <<>>
<1>1. <<>> \in Seq(Nat) /\ <<>> \in Seq(1 .. Len(q)) /\ 0 \in Nat /\ 0 <= Len(q)
  OBVIOUS
<1> QED BY <1>1 DEF WriterOK, Writer, NoWriter

(* After a crash there is only the directory. *)
LEMMA DownInv ==
  ASSUME ManagerInv, FilesOK(dir', seqOf, clock'), clock' \in 0 .. MaxSegs,
         phase' = "down", segments' = <<>>, w' = NoWriter, globalSeq' = 0, segCount' = 0,
         ready' = TRUE, committed' = FALSE, UNCHANGED <<opts, upset, seqOf, acked>>,
         gone' \subseteq 1 .. Len(seqOf), lost' \subseteq 1 .. Len(seqOf), IoFaults \/ lost' = {},
         acked \subseteq InFiles(dir') \cup gone' \cup lost',
         ~upset => Numbered(dir', seqOf) /\ Apart(dir')
  PROVE  ManagerInv'
<1>0. NumbersOK(seqOf) /\ Len(seqOf) \in Nat /\ MaxRecs \in Nat
  BY ManagerFacts, OptionFacts
<1>1. WriterOK(w', seqOf) /\ ~w'.open /\ w'.pending = <<>>
  BY <1>0, NoWriterOK
<1>2. Flushed' = dir'
  BY <1>1 DEF Flushed
<1>3. OrderOK'
  BY <1>2 DEF OrderOK
<1>4. SessionOK'
  BY <1>1 DEF SessionOK
<1>5. Kept'
  BY DEF Kept
<1>6. ScalarsOK'
  <2>1. 0 \in 0 .. Len(seqOf) /\ 0 \in 0 .. MaxRecs
    BY <1>0
  <2> QED BY <2>1 DEF ManagerInv, ScalarsOK
<1> QED BY <1>0, <1>1, <1>3, <1>4, <1>5, <1>6 DEF ManagerInv

LEMMA CrashInv ==
  ASSUME ManagerInv, Crash
  PROVE  ManagerInv'
<1>1. PICK o \in Outcomes(TRUE) : dir' = Closed(o) /\ gone' = gone \cup Unwritten(o)
  BY DEF Crash
<1>2. /\ phase' = "down" /\ segments' = <<>> /\ w' = NoWriter /\ globalSeq' = 0 /\ segCount' = 0
      /\ ready' = TRUE /\ committed' = FALSE /\ UNCHANGED <<opts, upset, clock, seqOf, acked, lost>>
  BY DEF Crash
<1>3. /\ gone \subseteq 1 .. Len(seqOf) /\ lost \subseteq 1 .. Len(seqOf) /\ (IoFaults \/ lost = {})
      /\ Kept /\ clock \in 0 .. MaxSegs
  BY ManagerFacts
<1>4. /\ FilesOK(Closed(o), seqOf, clock) /\ Unwritten(o) \subseteq 1 .. Len(seqOf)
      /\ InFiles(dir) \cup ToSet(w.pending) \subseteq InFiles(Closed(o)) \cup Unwritten(o)
      /\ ~upset => Numbered(Closed(o), seqOf) /\ Apart(Closed(o))
  BY ClosedFacts
<1>5. gone' \subseteq 1 .. Len(seqOf) /\ acked \subseteq InFiles(dir') \cup gone' \cup lost'
  BY <1>1, <1>2, <1>3, <1>4 DEF Kept
<1>6. /\ FilesOK(dir', seqOf, clock') /\ clock' \in 0 .. MaxSegs
      /\ lost' \subseteq 1 .. Len(seqOf) /\ (IoFaults \/ lost' = {})
  BY <1>1, <1>2, <1>3, <1>4
<1>7. ~upset => Numbered(dir', seqOf) /\ Apart(dir')
  BY <1>1, <1>4
<1> QED BY <1>2, <1>5, <1>6, <1>7, DownInv

LEMMA CrashInRollInv ==
  ASSUME ManagerInv, NEW size \in Sizes, CrashInRoll(size)
  PROVE  ManagerInv'
<1>1. PICK t \in RollStamps, o \in Outcomes(IoFaults) :
        dir' = RollDir(o, t) /\ clock' = t /\ lost' = lost \cup Unwritten(o)
  BY DEF CrashInRoll
<1>2. /\ phase = "open" /\ NeedRoll(size) /\ phase' = "down" /\ segments' = <<>> /\ w' = NoWriter
      /\ globalSeq' = 0 /\ segCount' = 0 /\ ready' = TRUE /\ committed' = FALSE
      /\ UNCHANGED <<opts, upset, seqOf, acked, gone>>
  BY DEF CrashInRoll
<1>3. PICK x : x = [dir |-> RollDir(o, t), w |-> RollW(o, t), count |-> 0, clock |-> t,
                    segments |-> Append(segments, RollPath(t)), lost |-> lost \cup Unwritten(o),
                    upset |-> upset \/ RollPath(t) \in DOMAIN dir]
  OBVIOUS
<1>4. /\ x.dir = RollDir(o, t) /\ x.w = RollW(o, t) /\ x.count = 0 /\ x.clock = t
      /\ x.segments = Append(segments, RollPath(t)) /\ x.lost = lost \cup Unwritten(o)
      /\ x.upset = (upset \/ RollPath(t) \in DOMAIN dir)
  BY <1>3
<1>5. TargetOK(x)
  BY <1>2, <1>4, RolledOK
<1>6. x.w.open /\ x.w.pending = <<>> /\ x.w.torn \in BOOLEAN
  <2>1. x.w.open /\ x.w.pending = <<>>
    BY <1>4 DEF RollW, OpenAt
  <2> QED BY <1>5, <2>1 DEF TargetOK, WriterOK, Writer
<1>7. FilesOK(dir', seqOf, clock') /\ clock' \in 0 .. MaxSegs
  BY <1>1, <1>4, <1>5 DEF TargetOK
<1>8. /\ gone' \subseteq 1 .. Len(seqOf) /\ lost' \subseteq 1 .. Len(seqOf) /\ (IoFaults \/ lost' = {})
      /\ acked \subseteq InFiles(dir') \cup gone' \cup lost'
  <2>1. ToSet(<<>>) = {}
    BY DEF ToSet
  <2>2. gone \subseteq 1 .. Len(seqOf) /\ Kept
    BY ManagerFacts
  <2> QED BY <1>1, <1>2, <1>4, <1>5, <1>6, <2>1, <2>2 DEF Kept, TargetOK
<1>9. ~upset => Numbered(dir', seqOf) /\ Apart(dir')
  <2> SUFFICES ASSUME ~upset PROVE Numbered(dir', seqOf) /\ Apart(dir')
    OBVIOUS
  <2>1. CASE RollPath(t) \in DOMAIN dir
    <3>1. DOMAIN Closed(o) = DOMAIN dir /\ Numbered(Closed(o), seqOf) /\ Apart(Closed(o))
      BY ClosedFacts, ManagerFacts
    <3>2. dir' = Closed(o)
      BY <1>1, <2>1, <3>1 DEF RollDir, WithFile
    <3> QED BY <3>1, <3>2
  <2>2. CASE RollPath(t) \notin DOMAIN dir
    <3>1. Numbered(Full(x.dir, x.w), seqOf) /\ Apart(Full(x.dir, x.w))
      BY <1>4, <1>5, <2>2 DEF TargetOK
    <3>2. IsDir(x.dir) /\ x.w.path \in DOMAIN x.dir
      BY <1>5 DEF TargetOK, FilesOK, ListOK
    <3>3. x.w.torn => x.dir[x.w.path].cut
      BY <1>4, <2>2, ClosedFacts, ManagerFacts DEF RollW, OpenAt
    <3>4. Full(x.dir, x.w) = x.dir
      BY <1>6, <3>2, <3>3, FileWithNothing DEF Full
    <3> QED BY <1>1, <1>4, <3>1, <3>4
  <2> QED BY <2>1, <2>2
<1> QED BY <1>2, <1>7, <1>8, <1>9, DownInv

-----------------------------------------------------------------------------
(* The invariant holds initially and in every step. *)

LEMMA InitInv ==
  ASSUME Init
  PROVE  ManagerInv
<1>1. /\ opts \in OptionSets /\ upset = FALSE /\ dir = << >> /\ clock = 0 /\ phase = "down" /\ segments = <<>>
      /\ w = NoWriter /\ globalSeq = 0 /\ segCount = 0 /\ ready = TRUE /\ seqOf = <<>> /\ acked = {} /\ gone = {}
      /\ lost = {} /\ committed = FALSE
  BY DEF Init
<1>2. MaxRecs \in Nat /\ MaxAppends \in Nat /\ MaxSegs \in Nat
  BY OptionFacts
<1>3. NumbersOK(seqOf) /\ Len(seqOf) = 0
  <2>1. <<>> \in Seq(Nat) /\ Len(<<>>) = 0 /\ 1 .. 0 = {}
    OBVIOUS
  <2> QED BY <1>1, <1>2, <2>1 DEF NumbersOK
<1>4. WriterOK(w, seqOf) /\ ~w.open /\ w.pending = <<>>
  BY <1>1, <1>3, NoWriterOK
<1>5. FilesOK(dir, seqOf, clock) /\ Numbered(dir, seqOf) /\ Apart(dir)
  BY <1>1, <1>3, EmptyDirectory
<1>6. OrderOK
  BY <1>1, <1>4, <1>5 DEF OrderOK, Flushed
<1>7. SessionOK
  BY <1>1, <1>4 DEF SessionOK
<1>8. ScalarsOK
  <2>1. 0 \in 0 .. MaxSegs /\ 0 \in 0 .. Len(seqOf) /\ 0 \in 0 .. MaxRecs
    BY <1>2, <1>3
  <2>2. globalSeq \in 0 .. Len(seqOf) /\ clock \in 0 .. MaxSegs /\ segCount \in 0 .. MaxRecs
    BY <1>1, <2>1
  <2>3. acked \subseteq 1 .. Len(seqOf) /\ gone \subseteq 1 .. Len(seqOf) /\ lost \subseteq 1 .. Len(seqOf)
    BY <1>1
  <2> QED BY <1>1, <2>2, <2>3, Zenon DEF ScalarsOK
<1> QED BY <1>1, <1>3, <1>4, <1>5, <1>6, <1>7, <1>8 DEF ManagerInv, Kept

LEMMA StepInv ==
  ASSUME ManagerInv, [Next]_vars
  PROVE  ManagerInv'
<1>1. CASE \E reset \in BOOLEAN : Open(reset)
  BY <1>1, OpenInv
<1>2. CASE \E size \in Sizes : AppendRecord(size)
  BY <1>2, AppendRecordInv
<1>3. CASE \E size \in Sizes : AppendSyncFails(size)
  BY <1>3, AppendSyncFailsInv
<1>4. CASE Close \/ \E size \in Sizes : RollFails(size)
  BY <1>4, CloseInv
<1>5. CASE \E size \in Sizes : CrashInRoll(size)
  BY <1>5, CrashInRollInv
<1>6. CASE AppendEmpty
  BY <1>6, AppendEmptyInv
<1>7. CASE Commit \/ Clear \/ UNCHANGED vars
  BY <1>7, CheckpointInv
<1>8. CASE \E p \in ToSet(segments) : RemoveSegment(p)
  BY <1>8, RemoveInv
<1>9. CASE Crash
  BY <1>9, CrashInv
<1>10. CASE ReadAll
  BY <1>10, ReadAllInv
<1>11. CASE \E size \in Sizes : AppendFails(size)
  BY <1>11, AppendTornInv
<1> QED BY <1>1, <1>2, <1>3, <1>4, <1>5, <1>6, <1>7, <1>8, <1>9, <1>10, <1>11 DEF Next

(* A step of the instance is a step of the manager or leaves it alone. *)
LEMMA InstanceStep ==
  ASSUME [WalNext]_<<part, vars, logAll>>
  PROVE  [Next]_vars
  BY DEF WalNext

(* In every state of every behaviour the files, the list of segments, the   *)
(* writer and the counters fit together as ManagerInv says, whatever limits *)
(* and options the directory is opened with.                                *)
THEOREM WalManager_Protocol == WalSpec => []ManagerInv
<1>1. WalInit => ManagerInv
  BY InitInv DEF WalInit
<1>2. ManagerInv /\ [WalNext]_<<part, vars, logAll>> => ManagerInv'
  BY StepInv, InstanceStep
<1> QED BY <1>1, <1>2, PTL DEF WalSpec

-----------------------------------------------------------------------------
(* What follows from the invariant. *)

LEMMA TypeFacts ==
  ASSUME ManagerInv
  PROVE  TypeOK
<1>0. /\ NumbersOK(seqOf) /\ Len(seqOf) \in Nat /\ FilesOK(dir, seqOf, clock) /\ WriterOK(w, seqOf)
      /\ w.pending \in Seq(1 .. Len(seqOf)) /\ clock \in Nat /\ clock \in 0 .. MaxSegs
      /\ globalSeq \in 0 .. Len(seqOf) /\ (phase # "down" => ListOK(dir, clock, segments, w))
  BY ManagerFacts
<1>1. DOMAIN dir \subseteq (0 .. MaxAppends) \X (0 .. MaxSegs)
  <2> SUFFICES ASSUME NEW p \in DOMAIN dir PROVE p \in (0 .. MaxAppends) \X (0 .. MaxSegs)
    OBVIOUS
  <2>1. p \in Path /\ p[1] <= Len(seqOf) /\ p[2] <= clock /\ Len(seqOf) <= MaxAppends
    BY <1>0 DEF FilesOK, NumbersOK
  <2>2. p = <<p[1], p[2]>> /\ p[1] \in Nat /\ p[2] \in Nat
    BY <2>1 DEF Path
  <2>3. p[1] \in 0 .. MaxAppends /\ p[2] \in 0 .. MaxSegs
    BY <1>0, <2>1, <2>2, OptionFacts
  <2> QED BY <2>2, <2>3
<1>2. \A p \in DOMAIN dir : dir[p].recs \in Seq(1 .. Len(seqOf)) /\ dir[p].cut \in BOOLEAN
  <2>1. \A p \in DOMAIN dir : dir[p] \in Seg
    BY <1>0 DEF FilesOK, IsDir
  <2> QED BY <1>0, <2>1 DEF FilesOK, Seg
<1>3. phase # "down" => segments # <<>>
  BY <1>0 DEF ListOK
<1>4. upset \/ ToSet(segments) \subseteq DOMAIN dir
  <2>1. CASE phase = "down"
    <3>1. segments = <<>>
      BY <2>1 DEF ManagerInv, SessionOK
    <3>2. ToSet(<<>>) = {}
      BY DEF ToSet
    <3> QED BY <3>1, <3>2
  <2>2. CASE phase # "down"
    BY <2>2 DEF ManagerInv, OrderOK, Listed
  <2> QED BY <2>1, <2>2
<1>5. w.open \in BOOLEAN /\ w.next \in Nat /\ w.bytes \in Nat /\ ToSet(w.pending) \subseteq 1 .. Len(seqOf)
  <2>1. ToSet(w.pending) \subseteq 1 .. Len(seqOf)
    BY <1>0 DEF ToSet
  <2> QED BY <1>0, <2>1 DEF WriterOK, Writer
<1>6. globalSeq \in Nat
  BY <1>0
<1>7. w.torn \in BOOLEAN /\ (w.open /\ w.path \in DOMAIN dir /\ dir[w.path].cut => w.torn /\ w.pending = <<>>)
  BY ManagerFacts DEF ListOK
<1>8. acked \cup gone \cup lost \subseteq 1 .. Len(seqOf)
  BY ManagerFacts
<1> QED BY <1>0, <1>1, <1>2, <1>3, <1>4, <1>5, <1>6, <1>7, <1>8 DEF TypeOK, ManagerInv, ScalarsOK

LEMMA KeptFacts ==
  ASSUME ManagerInv
  PROVE  AckedKept /\ ActiveOnDisk
<1>0. (w.open => phase = "open") /\ (phase # "down" => ListOK(dir, clock, segments, w)) /\ Kept
  BY ManagerFacts
<1>1. ActiveOnDisk
  BY <1>0 DEF ActiveOnDisk, ListOK
<1>2. ASSUME phase = "open", NEW id \in acked, id \notin gone, id \notin lost
      PROVE  id \in UNION {ToSet(Reads(i)) : i \in DOMAIN segments}
  <2>1. id \in InFiles(Flushed)
    BY <1>0, <1>2, FlushFacts DEF Kept
  <2>2. PICK p \in DOMAIN Flushed : id \in ToSet(Flushed[p].recs)
    BY <2>1 DEF InFiles
  <2>3. PICK i \in DOMAIN segments : segments[i] = p
    <3>1. p \in ToSet(segments)
      BY <1>0, <1>2, <2>2, FlushFacts DEF ListOK
    <3> QED BY <3>1 DEF ToSet
  <2>4. Reads(i) = Flushed[p].recs
    BY <2>2, <2>3 DEF Reads, Recs
  <2> QED BY <2>2, <2>4
<1>3. AckedKept
  <2> DEFINE U == UNION {ToSet(Reads(i)) : i \in DOMAIN segments}
  <2>1. ASSUME phase = "open", NEW id \in acked, id \notin gone, id \notin lost PROVE id \in U
    BY <1>2, <2>1
  <2>2. AckedKept <=> (phase = "open" => acked \subseteq U \cup gone \cup lost) /\ (IoFaults \/ lost = {})
    BY DEF AckedKept
  <2>3. IoFaults \/ lost = {}
    BY ManagerFacts
  <2> HIDE DEF U
  <2> QED BY <2>1, <2>2, <2>3
<1> QED BY <1>1, <1>3

LEMMA PruneFacts ==
  ASSUME ManagerInv, [Next]_vars, phase # "down", phase' = phase, opts.checkpoint, ~committed
  PROVE  DOMAIN dir \subseteq DOMAIN dir'
<1>0. DOMAIN Flushed = DOMAIN dir /\ ~ready
  BY FlushFacts DEF ManagerInv, SessionOK, ScalarsOK
<1>1. CASE dir' = dir \/ dir' = Flushed
  BY <1>0, <1>1
<1>12. ASSUME NEW o, dir' = Closed(o)
      PROVE  DOMAIN dir \subseteq DOMAIN dir'
  BY <1>12 DEF Closed, FileWith
<1>2. ASSUME NEW size, NEW x \in Targets(size), phase = "open",
             DOMAIN dir' = DOMAIN x.dir
      PROVE  DOMAIN dir \subseteq DOMAIN dir'
  BY <1>2, TargetsOK DEF TargetOK
<1>3. CASE \E size \in Sizes : AppendRecord(size)
  <2>1. PICK size \in Sizes : AppendRecord(size)
    BY <1>3
  <2>2. PICK x \in Targets(size) :
          dir' = IF opts.sync THEN FileWith(x.dir, x.w.path, Buffered(x.w, Len(seqOf) + 1), x.w.torn) ELSE x.dir
    BY <2>1 DEF AppendRecord
  <2>3. DOMAIN dir' = DOMAIN x.dir /\ phase = "open"
    BY <2>1, <2>2 DEF FileWith, AppendRecord
  <2> QED BY <1>2, <2>3
<1>4. CASE AppendEmpty \/ \E size \in Sizes : AppendSyncFails(size) \/ AppendFails(size)
  BY <1>2, <1>4 DEF AppendEmpty, AppendSyncFails, AppendFails
<1>5. CASE \E reset \in BOOLEAN : Open(reset)
  BY <1>5 DEF Open
<1>6. CASE Close \/ \E size \in Sizes : RollFails(size)
  BY <1>6, <1>12 DEF Close, RollFails
<1>7. CASE \E size \in Sizes : CrashInRoll(size)
  BY <1>7 DEF CrashInRoll
<1>8. CASE Crash
  BY <1>8 DEF Crash
<1>9. CASE \E p \in ToSet(segments) : RemoveSegment(p)
  BY <1>0, <1>9 DEF RemoveSegment
<1>10. CASE ReadAll \/ Commit \/ Clear \/ UNCHANGED vars
  BY <1>1, <1>10 DEF ReadAll, Commit, Clear, vars
<1> QED BY <1>3, <1>4, <1>5, <1>6, <1>7, <1>8, <1>9, <1>10 DEF Next

(* What append() acknowledged is returned by read_all() unless its segment  *)
(* was removed, it sat in the buffer of a process that crashed or, if calls *)
(* may fail, its segment could not be flushed before it was closed or part  *)
(* of another record is in front of it; the file being written is never     *)
(* removed, and remove_segment() waits for a checkpoint where one is        *)
(* required.                                                                *)
THEOREM WalManager_Keeps == WalSpec => ManagerKeeps
<1>1. ManagerInv => TypeOK /\ AckedKept /\ ActiveOnDisk
  BY TypeFacts, KeptFacts
<1>2. ManagerInv /\ [WalNext]_<<part, vars, logAll>>
        => [phase # "down" /\ phase' = phase /\ opts.checkpoint /\ ~committed
              => DOMAIN dir \subseteq DOMAIN dir']_vars
  BY PruneFacts, InstanceStep
<1> QED BY <1>1, <1>2, WalManager_Protocol, PTL DEF WalSpec, ManagerKeeps, PruneNeedsCheckpoint

LEMMA ReadOrder ==
  ASSUME ManagerInv, ~upset, phase = "open", NEW i \in DOMAIN segments, NEW a \in DOMAIN Reads(i)
  PROVE  /\ segments[i] \in DOMAIN Flushed /\ segments[i][1] \in Nat
         /\ Reads(i) = Flushed[segments[i]].recs /\ Len(Reads(i)) \in Nat /\ a \in 1 .. Len(Reads(i))
         /\ seqOf[Reads(i)[a]] = segments[i][1] + a - 1
         /\ End(Flushed, segments[i]) = segments[i][1] + Len(Reads(i))
<1>1. Numbered(Flushed, seqOf) /\ Listed(dir, segments)
  BY DEF ManagerInv, OrderOK
<1>2. FilesOK(Flushed, seqOf, clock) /\ DOMAIN Flushed = DOMAIN dir
  BY FlushFacts
<1>3. segments[i] \in DOMAIN Flushed
  BY <1>1, <1>2 DEF Listed, ToSet
<1>4. segments[i][1] \in Nat /\ Flushed[segments[i]].recs \in Seq(1 .. Len(seqOf))
  BY <1>2, <1>3 DEF FilesOK, Path
<1>5. Reads(i) = Flushed[segments[i]].recs
  BY <1>3 DEF Reads, Recs
<1>6. Len(Reads(i)) \in Nat /\ a \in 1 .. Len(Reads(i))
  BY <1>4, <1>5
<1> QED BY <1>1, <1>3, <1>4, <1>5, <1>6 DEF Numbered, End

LEMMA OrderFacts ==
  ASSUME ManagerInv
  PROVE  UpsetOnly
<1> SUFFICES ASSUME ~upset, phase = "open"
             PROVE  /\ ReadInOrder
                    /\ w.open =>
                         /\ w.next = globalSeq
                         /\ \A i \in DOMAIN segments : \A a \in DOMAIN Reads(i) : seqOf[Reads(i)[a]] < globalSeq
  BY DEF UpsetOnly, ReadInOrder
<1>0. /\ Apart(Flushed) /\ Listed(dir, segments) /\ Ahead(Flushed, w, globalSeq)
      /\ segments \in Seq(Path) /\ globalSeq \in Nat
  <2>1. ListOK(dir, clock, segments, w) /\ globalSeq \in 0 .. Len(seqOf)
    BY ManagerFacts
  <2> QED BY <2>1 DEF ManagerInv, OrderOK, ListOK
<1>1. ASSUME NEW i \in DOMAIN segments, NEW a \in DOMAIN Reads(i)
      PROVE  seqOf[Reads(i)[a]] < globalSeq
  <2>1. /\ segments[i] \in DOMAIN Flushed /\ segments[i][1] \in Nat /\ Len(Reads(i)) \in Nat
        /\ a \in 1 .. Len(Reads(i)) /\ seqOf[Reads(i)[a]] = segments[i][1] + a - 1
        /\ End(Flushed, segments[i]) = segments[i][1] + Len(Reads(i))
    BY ReadOrder
  <2>2. End(Flushed, segments[i]) <= globalSeq
    BY <1>0, <2>1 DEF Ahead
  <2> QED BY <1>0, <2>1, <2>2
<1>2. ASSUME NEW i \in DOMAIN segments, NEW j \in DOMAIN segments,
             NEW a \in DOMAIN Reads(i), NEW b \in DOMAIN Reads(j), i < j \/ (i = j /\ a < b)
      PROVE  seqOf[Reads(i)[a]] < seqOf[Reads(j)[b]]
  <2> DEFINE p == segments[i]
             r == segments[j]
  <2>1. /\ p \in DOMAIN Flushed /\ p[1] \in Nat /\ Len(Reads(i)) \in Nat /\ a \in 1 .. Len(Reads(i))
        /\ Reads(i) = Flushed[p].recs /\ seqOf[Reads(i)[a]] = p[1] + a - 1
        /\ End(Flushed, p) = p[1] + Len(Reads(i))
    BY ReadOrder
  <2>2. /\ r \in DOMAIN Flushed /\ r[1] \in Nat /\ Len(Reads(j)) \in Nat /\ b \in 1 .. Len(Reads(j))
        /\ Reads(j) = Flushed[r].recs /\ seqOf[Reads(j)[b]] = r[1] + b - 1
    BY ReadOrder
  <2>3. CASE i = j /\ a < b
    <3>1. p[1] + a - 1 < p[1] + b - 1
      BY <2>1, <2>2, <2>3
    <3> QED BY <2>1, <2>2, <2>3, <3>1
  <2>4. CASE i < j
    <3>1. p # r /\ p[1] <= r[1]
      BY <1>0, <2>4 DEF Listed
    <3>2. Reads(i) # <<>> /\ Reads(j) # <<>>
      BY <2>1, <2>2
    <3>3. p[1] # r[1]
      BY <1>0, <2>1, <2>2, <3>1, <3>2 DEF Apart
    <3>4. End(Flushed, p) <= r[1]
      BY <1>0, <2>1, <2>2, <3>1, <3>3, SMTT(60) DEF Apart
    <3> HIDE DEF p, r
    <3>5. p[1] + a - 1 < r[1] + b - 1
      BY <2>1, <2>2, <3>4, SMTT(60)
    <3> QED BY <2>1, <2>2, <3>5
  <2> QED BY <1>2, <2>3, <2>4
<1>3. ReadInOrder
  BY <1>2 DEF ReadInOrder
<1> QED BY <1>0, <1>1, <1>3 DEF Ahead

(* read_all() returns strictly increasing numbers, and global_seq_ and the  *)
(* writer's next number agree and are beyond them, unless one of the three  *)
(* events named with Upsets took place.                                     *)
THEOREM WalManager_UpsetOnly == WalSpec => []UpsetOnly
  BY WalManager_Protocol, OrderFacts, PTL
=============================================================================
