----------------------------- MODULE Encodings -----------------------------
(***************************************************************************)
(* The column encodings of encoding/: RLE and bit-packing hybrid, delta    *)
(* binary packed, dictionary, byte stream split.  Each is an encoder and a *)
(* decoder over sequences of bytes; a decoder takes the number of values   *)
(* the page header promised and may return fewer.                          *)
(***************************************************************************)
EXTENDS Integers, Sequences, SequencesExt

CONSTANTS
  DeltaBits,         \* width of the integers that are delta encoded (64)
  NarrowBits,        \* width of an int32 column (32)
  BlockSize,         \* DEFAULT_BLOCK_SIZE
  MiniBlocks,        \* DEFAULT_MINIBLOCK_COUNT
  MaxDictionary      \* MAX_DICTIONARY_ENTRIES

CeilDiv(a, b) == (a + b - 1) \div b
Copies(x, n) == [i \in 1 .. n |-> x]
Sum(f) == FoldLeft(LAMBDA a, b : a + b, 0, f)

-----------------------------------------------------------------------------
(* Bits and varints *)

\* bit_pack_8: least significant bit first, across bytes.
BitPack(values, width) ==
  LET bit(k) == IF k >= Len(values) * width THEN 0
                ELSE (values[(k \div width) + 1] \div 2 ^ (k % width)) % 2
  IN [j \in 1 .. CeilDiv(Len(values) * width, 8) |->
        Sum([k \in 1 .. 8 |-> bit(8 * (j - 1) + k - 1) * 2 ^ (k - 1)])]

BitUnpack(bytes, count, width) ==
  LET bit(k) == (bytes[(k \div 8) + 1] \div 2 ^ (k % 8)) % 2
  IN [i \in 1 .. count |->
        Sum([k \in 1 .. width |-> bit((i - 1) * width + k - 1) * 2 ^ (k - 1)])]

RECURSIVE EncodeVarint(_)
EncodeVarint(u) ==
  IF u >= 128 THEN <<128 + (u % 128)>> \o EncodeVarint(u \div 128) ELSE <<u>>

\* An unfinished varint gives its partial value and leaves the position alone.
RECURSIVE DecodeVarint(_, _, _, _)
DecodeVarint(w, pos, at, acc) ==
  IF at = Len(w) THEN [v |-> acc, pos |-> pos]
  ELSE LET sum == acc + (w[at + 1] % 128) * 128 ^ (at - pos)
       IN IF w[at + 1] < 128 THEN [v |-> sum, pos |-> at + 1]
          ELSE DecodeVarint(w, pos, at + 1, sum)

VarintAt(w, pos) == DecodeVarint(w, pos, pos, 0)

-----------------------------------------------------------------------------
(* RleEncoder: a run that may become an RLE run, up to eight values that   *)
(* will be bit-packed, and the groups packed since the last RLE run.       *)

RleEncoder == [out |-> <<>>, run |-> 0, value |-> 0, bp |-> <<>>, groups |-> <<>>, count |-> 0]

FlushBpGroup(e, width) ==
  [e EXCEPT !.groups = @ \o BitPack(e.bp, width), !.count = @ + 1, !.bp = <<>>]

FlushBpGroups(e) ==
  IF e.count = 0 THEN e
  ELSE [e EXCEPT !.out = @ \o EncodeVarint(2 * e.count + 1) \o e.groups,
                 !.groups = <<>>, !.count = 0]

FlushRleRun(e, width) ==
  LET f == FlushBpGroups(e)
  IN [f EXCEPT !.out = @ \o EncodeVarint(2 * e.run)
                         \o BitPack(<<e.value>>, width), !.run = 0]

PushBp(e, v, width) ==
  LET f == [e EXCEPT !.bp = Append(@, v)]
  IN IF Len(f.bp) = 8 THEN FlushBpGroup(f, width) ELSE f

\* The values of the run, one by one, into the bit-pack buffer.
RunToBp(e, width) ==
  FoldLeft(LAMBDA f, v : PushBp(f, v, width), [e EXCEPT !.run = 0], Copies(e.value, e.run))

\* Mutant: a run is extended even after values were bit-packed.
RlePutAnyRun(e, v, width) ==
  IF e.run = 0 \/ v = e.value THEN [e EXCEPT !.value = v, !.run = @ + 1]
  ELSE IF e.run >= 8 THEN [FlushRleRun(e, width) EXCEPT !.value = v, !.run = 1]
  ELSE PushBp(RunToBp(e, width), v, width)

RlePut(e, v, width) ==
  IF e.run = 0 \/ (v = e.value /\ e.bp = <<>>) THEN [e EXCEPT !.value = v, !.run = @ + 1]
  ELSE IF e.bp = <<>> /\ e.run >= 8
       THEN [FlushRleRun(e, width) EXCEPT !.value = v, !.run = 1]
  ELSE PushBp(RunToBp(e, width), v, width)

RleFlush(e, width) ==
  LET moved == IF e.bp # <<>> THEN RunToBp(e, width) ELSE e
      ran == IF moved.run > 0 THEN FlushRleRun(moved, width) ELSE moved
      padded == IF ran.bp = <<>> THEN ran
                ELSE FlushBpGroup([ran EXCEPT !.bp = @ \o Copies(0, 8 - Len(@))], width)
  IN FlushBpGroups(padded)

\* Width zero: nothing is written, whatever the values.
RleEncode(values, width) ==
  IF width = 0 THEN <<>>
  ELSE RleFlush(FoldLeft(LAMBDA e, v : RlePut(e, v, width), RleEncoder, values), width).out

LengthPrefix(n) == [i \in 1 .. 4 |-> (n \div 256 ^ (i - 1)) % 256]

RleEncodeWithLength(values, width) ==
  LET payload == RleEncode(values, width) IN LengthPrefix(Len(payload)) \o payload

(* RleDecoder: get() reads a header when the run before it is used up.     *)

NoRun == [ok |-> FALSE, values |-> <<>>, pos |-> 0]

RleRun(w, h, width) ==
  LET size == CeilDiv(width, 8)
  IN IF h.v \div 2 = 0 \/ h.pos + size > Len(w) THEN NoRun
     ELSE [ok |-> TRUE, pos |-> h.pos + size,
           values |-> Copies(Sum([i \in 1 .. size |-> w[h.pos + i] * 256 ^ (i - 1)]), h.v \div 2)]

\* Truncated groups: the whole ones that are there.
BpRun(w, h, width) ==
  LET avail == Len(w) - h.pos
      groups == IF h.v \div 2 > avail \div width + 1 THEN avail \div width + 1 ELSE h.v \div 2
      whole == IF groups * width > avail THEN avail \div width ELSE groups
  IN IF groups = 0 \/ whole = 0 THEN NoRun
     ELSE [ok |-> TRUE,
           pos |-> IF groups * width > avail THEN Len(w) ELSE h.pos + groups * width,
           values |-> BitUnpack(SubSeq(w, h.pos + 1, Len(w)), 8 * whole, width)]

RECURSIVE RleRuns(_, _, _, _, _)
RleRuns(w, pos, width, n, acc) ==
  IF Len(acc) >= n THEN SubSeq(acc, 1, n)
  ELSE IF pos >= Len(w) THEN acc
  ELSE LET h == VarintAt(w, pos)
           r == IF h.v % 2 = 0 THEN RleRun(w, h, width) ELSE BpRun(w, h, width)
       IN IF r.ok THEN RleRuns(w, r.pos, width, n, acc \o r.values) ELSE acc

RleDecode(w, width, n) ==
  IF width = 0 THEN (IF w = <<>> THEN Copies(0, n) ELSE <<>>)
  ELSE RleRuns(w, 0, width, n, <<>>)

RleDecodeWithLength(w, width, n) ==
  IF Len(w) < 4 THEN <<>>
  ELSE LET len == Sum([i \in 1 .. 4 |-> w[i] * 256 ^ (i - 1)])
           avail == IF len < Len(w) - 4 THEN len ELSE Len(w) - 4
       IN RleDecode(SubSeq(w, 5, 4 + avail), width, n)

-----------------------------------------------------------------------------
(* Delta binary packed.  Integers are two's complement of DeltaBits bits.  *)

Wrap(u) == u % 2 ^ DeltaBits
Signed(u) == IF u >= 2 ^ (DeltaBits - 1) THEN u - 2 ^ DeltaBits ELSE u
InRange(v) == v \in -(2 ^ (DeltaBits - 1)) .. 2 ^ (DeltaBits - 1) - 1

ZigzagEncode(v) == IF v >= 0 THEN 2 * v ELSE -2 * v - 1
ZigzagDecode(u) == IF u % 2 = 0 THEN u \div 2 ELSE -(u \div 2) - 1

RECURSIVE BitWidthFor(_)
BitWidthFor(u) == IF u = 0 THEN 0 ELSE 1 + BitWidthFor(u \div 2)

\* bit_pack_values and bit_unpack_values: the same layout for any number of values.
BitPackValues(values, width) == BitPack(values, width)
BitUnpackValues(bytes, count, width) == BitUnpack(bytes, count, width)

Lowest(s) == CHOOSE x \in ToSet(s) : \A y \in ToSet(s) : x <= y
Highest(s) == CHOOSE x \in ToSet(s) : \A y \in ToSet(s) : x >= y

PerMini == BlockSize \div MiniBlocks

\* One block of at most BlockSize deltas, padded with adjusted values of zero.
DeltaBlock(deltas) ==
  LET least == Lowest(deltas)
      adjusted == [i \in 1 .. BlockSize |->
                     IF i <= Len(deltas) THEN Wrap(deltas[i] - least) ELSE 0]
      mini == [m \in 1 .. MiniBlocks |-> SubSeq(adjusted, (m - 1) * PerMini + 1, m * PerMini)]
      widths == [m \in 1 .. MiniBlocks |-> BitWidthFor(Highest(mini[m]))]
  IN EncodeVarint(ZigzagEncode(least)) \o widths
     \o FlattenSeq([m \in 1 .. MiniBlocks |-> BitPackValues(mini[m], widths[m])])

DeltaEncode(values) ==
  LET n == Len(values)
      deltas == [i \in 1 .. n - 1 |-> Signed(Wrap(values[i + 1] - values[i]))]
      blocks == [b \in 1 .. CeilDiv(n - 1, BlockSize) |->
                   SubSeq(deltas, (b - 1) * BlockSize + 1,
                          IF b * BlockSize < n - 1 THEN b * BlockSize ELSE n - 1)]
  IN EncodeVarint(BlockSize) \o EncodeVarint(MiniBlocks) \o EncodeVarint(n)
     \o EncodeVarint(ZigzagEncode(IF n = 0 THEN 0 ELSE values[1]))
     \o (IF n < 2 THEN <<>>
         ELSE FlattenSeq([b \in DOMAIN blocks |-> DeltaBlock(blocks[b])]))

\* The values of a miniblock after `out`; the sum is checked, not wrapped.
RECURSIVE Emit(_, _, _)
Emit(out, deltas, n) ==
  IF deltas = <<>> \/ Len(out) = n THEN [ok |-> TRUE, out |-> out]
  ELSE LET v == Last(out) + Head(deltas)
       IN IF InRange(v) THEN Emit(Append(out, v), Tail(deltas), n)
          ELSE [ok |-> FALSE, out |-> out]

RECURSIVE DeltaMinis(_, _, _, _, _, _)
RECURSIVE DeltaBlocks(_, _, _, _, _)
\* Miniblock m of a block; a truncated one is padded with zero bytes.
DeltaMinis(w, pos, least, widths, n, out) ==
  IF widths = <<>> THEN [ok |-> TRUE, pos |-> pos, out |-> out]
  ELSE IF Len(out) = n THEN [ok |-> TRUE, pos |-> pos, out |-> out]
  ELSE IF Head(widths) > DeltaBits THEN [ok |-> FALSE, pos |-> pos, out |-> out]
  ELSE LET size == CeilDiv(PerMini * Head(widths), 8)
           bytes == [i \in 1 .. size |-> IF pos + i <= Len(w) THEN w[pos + i] ELSE 0]
           adjusted == BitUnpackValues(bytes, PerMini, Head(widths))
           e == Emit(out, [i \in 1 .. PerMini |-> Signed(Wrap(adjusted[i] + least))], n)
           next == IF pos + size > Len(w) THEN Len(w) ELSE pos + size
       IN IF e.ok THEN DeltaMinis(w, next, least, Tail(widths), n, e.out)
          ELSE [ok |-> FALSE, pos |-> next, out |-> e.out]

DeltaBlocks(w, pos, minis, n, out) ==
  IF Len(out) = n \/ pos >= Len(w) THEN out
  ELSE LET h == VarintAt(w, pos)
           widths == [m \in 1 .. minis |-> IF h.pos + m <= Len(w) THEN w[h.pos + m] ELSE 0]
           after == IF h.pos + minis > Len(w) THEN Len(w) ELSE h.pos + minis
           r == DeltaMinis(w, after, Signed(Wrap(ZigzagDecode(h.v))), widths, n, out)
       IN IF r.ok THEN DeltaBlocks(w, r.pos, minis, n, r.out) ELSE r.out

\* The header of the stream is checked for shape, its total count is not used.
DeltaDecode(w, n) ==
  IF n = 0 \/ w = <<>> THEN <<>>
  ELSE LET size == VarintAt(w, 0)
           minis == VarintAt(w, size.pos)
           total == VarintAt(w, minis.pos)
           first == VarintAt(w, total.pos)
       IN IF minis.v = 0 \/ size.v = 0 \/ size.v % minis.v # 0 THEN <<>>
          ELSE DeltaBlocks(w, first.pos, minis.v, n, <<Signed(Wrap(ZigzagDecode(first.v)))>>)

\* int32 columns go through the wide form; a value that does not fit leaves nothing.
Narrow(v) == v \in -(2 ^ (NarrowBits - 1)) .. 2 ^ (NarrowBits - 1) - 1

DeltaEncode32(values) == DeltaEncode(values)

DeltaDecode32(w, n) ==
  LET wide == DeltaDecode(w, n)
  IN IF \A i \in DOMAIN wide : Narrow(wide[i]) THEN wide ELSE <<>>

-----------------------------------------------------------------------------
(* Dictionary: values are byte strings, as the dictionary page holds them. *)

DictBitWidth(size) == IF size <= 1 THEN 0 ELSE BitWidthFor(size - 1)

\* put(): FALSE, and no index, when a new value meets a full dictionary.
DictPut(e, v) ==
  LET at == SelectInSeq(e.dict, LAMBDA x : x = v)
  IN IF at > 0 THEN [e EXCEPT !.indices = Append(@, at - 1)]
     ELSE IF Len(e.dict) >= MaxDictionary THEN [e EXCEPT !.full = TRUE]
     ELSE [e EXCEPT !.dict = Append(@, v), !.indices = Append(@, Len(e.dict))]

DictEncode(values) ==
  FoldLeft(DictPut, [dict |-> <<>>, indices |-> <<>>, full |-> FALSE], values)

PlainEncode(v) == LengthPrefix(Len(v)) \o v

DictionaryPage(e) == FlattenSeq([i \in DOMAIN e.dict |-> PlainEncode(e.dict[i])])

IndicesPage(e) ==
  LET width == DictBitWidth(Len(e.dict)) IN <<width>> \o RleEncode(e.indices, width)

IsWorthwhile(e) == e.indices # <<>> /\ Len(e.dict) < (Len(e.indices) * 4) \div 10

RECURSIVE PlainDecode(_, _, _)
PlainDecode(page, pos, entries) ==
  IF entries = 0 THEN <<>>
  ELSE IF pos + 4 > Len(page) THEN Copies(<<>>, entries)
  ELSE LET len == Sum([i \in 1 .. 4 |-> page[pos + i] * 256 ^ (i - 1)])
           fits == pos + 4 + len <= Len(page)
       IN <<IF fits THEN SubSeq(page, pos + 5, pos + 4 + len) ELSE <<>>>>
          \o PlainDecode(page, IF fits THEN pos + 4 + len ELSE pos + 4, entries - 1)

\* An index outside the dictionary is an error.
DictDecode(dict, page, n) ==
  IF page = <<>> \/ n = 0 THEN [ok |-> TRUE, v |-> <<>>]
  ELSE LET indices == RleDecode(Tail(page), Head(page), n)
       IN IF \E i \in DOMAIN indices : indices[i] >= Len(dict) THEN [ok |-> FALSE, v |-> <<>>]
          ELSE [ok |-> TRUE, v |-> [i \in DOMAIN indices |-> dict[indices[i] + 1]]]

-----------------------------------------------------------------------------
(* Byte stream split: byte b of every value, then byte b + 1 of every one. *)

SplitEncode(values, width) ==
  LET n == Len(values)
  IN [k \in 1 .. n * width |-> values[((k - 1) % n) + 1][((k - 1) \div n) + 1]]

SplitDecode(w, n, width) ==
  IF n * width > Len(w) THEN <<>>
  ELSE [i \in 1 .. n |-> [b \in 1 .. width |-> w[(b - 1) * n + i]]]
=============================================================================
