---------------------------- MODULE PagePruning ----------------------------
(***************************************************************************)
(* What lets a reader skip data: the statistics of a chunk                 *)
(* (statistics.hpp), the column index and its builder (column_index.hpp),  *)
(* the split block Bloom filter (bloom/split_block.hpp) and the Z-order    *)
(* keys (z_order.hpp).                                                     *)
(*                                                                         *)
(* A value is an integer, NaN or Null.                                     *)
(***************************************************************************)
EXTENDS Integers, Sequences, SequencesExt, FiniteSets, FiniteSetsExt

CONSTANTS
  NaN, Null,
  Blocks,            \* blocks of a Bloom filter
  WordsPerBlock,     \* kWordsPerBlock
  BitsPerWord,       \* 32
  HashBits,          \* half the width of a hash
  ColumnBits,        \* width of a normalized Z-order column
  CharBase, KeyChars \* characters, and how many of them a key has room for

-----------------------------------------------------------------------------
(* ColumnStatistics *)

NoStats == [nulls |-> 0, values |-> 0, has |-> FALSE, min |-> 0, max |-> 0]

UpdateNull(s) == [s EXCEPT !.nulls = @ + 1]

\* update_numeric, update_float, update_string: the first value sets both bounds.
UpdateBounds(s, v) ==
  [s EXCEPT !.has = TRUE,
            !.min = IF ~s.has \/ v < @ THEN v ELSE @,
            !.max = IF ~s.has \/ v > @ THEN v ELSE @]

\* update(): NaN counts for nothing.
Update(s, v) == IF v = NaN THEN s ELSE [UpdateBounds(s, v) EXCEPT !.values = @ + 1]

\* merge(): typed_merge compares as the physical type does.
MergeStats(s, o) ==
  [s EXCEPT !.nulls = @ + o.nulls, !.values = @ + o.values, !.has = @ \/ o.has,
            !.min = IF o.has /\ (~s.has \/ o.min < @) THEN o.min ELSE @,
            !.max = IF o.has /\ (~s.has \/ o.max > @) THEN o.max ELSE @]

PageStats(page) ==
  FoldLeft(LAMBDA s, v : IF v = Null THEN UpdateNull(s) ELSE Update(s, v), NoStats, page)

-----------------------------------------------------------------------------
(* ColumnIndexBuilder: a page has its bounds set only if there are any.  A *)
(* bound is a string: <<>> when it was never set, which is below any other. *)

Below(a, b) == b # <<>> /\ (a = <<>> \/ a[1] < b[1])

\* A page of NaNs only has no bounds and is no null page.
IndexPage(page) ==
  LET s == PageStats(page)
  IN [null |-> s.nulls = Len(page), min |-> IF s.has THEN <<s.min>> ELSE <<>>,
      max |-> IF s.has THEN <<s.max>> ELSE <<>>, nulls |-> s.nulls]

DetectBoundaryOrder(mins) ==
  LET rises(i) == Below(mins[i - 1], mins[i])
      falls(i) == Below(mins[i], mins[i - 1])
      steps == 2 .. Len(mins)
  IN IF \A i \in steps : ~falls(i) THEN "ASCENDING"
     ELSE IF \A i \in steps : ~rises(i) THEN "DESCENDING" ELSE "UNORDERED"

BuildColumnIndex(pages) ==
  LET all == [i \in DOMAIN pages |-> IndexPage(pages[i])]
  IN [pages |-> all, order |-> DetectBoundaryOrder([i \in DOMAIN all |-> all[i].min])]

FilterPages(index, lo, hi) ==
  {i \in DOMAIN index.pages :
     /\ ~index.pages[i].null
     /\ ~Below(index.pages[i].max, lo)
     /\ ~Below(hi, index.pages[i].min)}

-----------------------------------------------------------------------------
(* SplitBlockBloomFilter: the set of the (block, word, bit) that are set.  *)
(* A hash is a pair: the half that picks the block and the half that is    *)
(* multiplied by the salts.                                                *)

BlockIndex(hash) == (hash.hi * Blocks) \div 2 ^ HashBits

Salt(word) == 2 * word + 1
BitPos(key, word) == ((key * Salt(word)) % 2 ^ HashBits) \div (2 ^ HashBits \div BitsPerWord)

HashBitsOf(hash) == {<<BlockIndex(hash), w, BitPos(hash.lo, w)>> : w \in 1 .. WordsPerBlock}

BloomInsert(filter, hash) == filter \cup HashBitsOf(hash)

MightContain(filter, hash) == HashBitsOf(hash) \subseteq filter

BloomMerge(filter, other) == filter \cup other

-----------------------------------------------------------------------------
(* Z-order.  Floats are bit patterns with the sign in the top bit; a      *)
(* string is a sequence of characters below CharBase.                      *)

NormalizeInt(v, bits) == v + 2 ^ (bits - 1)

\* Mutant: the sign bit is flipped, the magnitude of a negative float is not.
NormalizeFloatSignOnly(v, bits) ==
  IF v >= 2 ^ (bits - 1) THEN v - 2 ^ (bits - 1) ELSE v + 2 ^ (bits - 1)

NormalizeFloat(v, bits) ==
  IF v >= 2 ^ (bits - 1) THEN 2 ^ bits - 1 - v ELSE v + 2 ^ (bits - 1)

\* The first characters, padded with zeros, as a big-endian number.
NormalizeString(v) ==
  LET char(i) == IF i <= Len(v) THEN v[i] ELSE 0
  IN FoldFunction(+, 0, [i \in 1 .. KeyChars |-> char(i) * CharBase ^ (KeyChars - i)])

\* A 64-bit column keeps the upper half of its normalized bits.
Truncate(v) == v \div 2 ^ ColumnBits

NormalizeColumn(type, v) ==
  CASE type = "INT32"      -> NormalizeInt(v, ColumnBits)
    [] type = "INT64"      -> Truncate(NormalizeInt(v, 2 * ColumnBits))
    [] type = "FLOAT"      -> NormalizeFloat(v, ColumnBits)
    [] type = "DOUBLE"     -> Truncate(NormalizeFloat(v, 2 * ColumnBits))
    [] type = "BYTE_ARRAY" -> NormalizeString(v)
    [] OTHER               -> 0

Bit(v, b) == (v \div 2 ^ b) % 2

\* morton_2d: y above x.
Morton2d(x, y) ==
  FoldFunction(+, 0, [b \in 0 .. ColumnBits - 1 |-> Bit(x, b) * 4 ^ b + 2 * Bit(y, b) * 4 ^ b])

Deinterleave2d(code) ==
  [x |-> FoldFunction(+, 0, [b \in 0 .. ColumnBits - 1 |-> Bit(code, 2 * b) * 2 ^ b]),
   y |-> FoldFunction(+, 0, [b \in 0 .. ColumnBits - 1 |-> Bit(code, 2 * b + 1) * 2 ^ b])]

\* morton_nd: most significant bits first, column one first; compared as bytes.
MortonNd(row) ==
  LET n == Len(row)
  IN FoldFunction(+, 0, [k \in 0 .. n * ColumnBits - 1 |->
        Bit(row[(k % n) + 1], ColumnBits - 1 - k \div n) * 2 ^ (n * ColumnBits - 1 - k)])

\* ZOrderSorter::sort orders the rows by this key.
ZKey(types, row) ==
  LET normalized == [c \in DOMAIN row |-> NormalizeColumn(types[c], row[c])]
  IN IF Len(row) = 2 THEN Morton2d(normalized[1], normalized[2]) ELSE MortonNd(normalized)
=============================================================================
