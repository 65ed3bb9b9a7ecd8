---------------------------- MODULE Compression ----------------------------
(***************************************************************************)
(* compression/codec.hpp (the registry's compress and decompress) and the  *)
(* Snappy codec of compression/snappy.hpp, byte by byte.  The other codecs *)
(* call a library (zlib, lz4, zstd) and are external: `foreign` stands for *)
(* one that packs any page into PackedSize bytes.                          *)
(***************************************************************************)
EXTENDS Integers, Sequences, SequencesExt, FiniteSets

CONSTANTS
  HashBuckets,       \* kHashTableSize
  MaxRatio,          \* MAX_DECOMPRESSION_RATIO
  MaxOutput,         \* MAX_DECOMPRESS_SIZE
  PackedSize         \* size of a page packed by an external codec

Good(v) == [ok |-> TRUE, v |-> v]
Bad(error) == [ok |-> FALSE, v |-> error]
Corrupt == Bad("CORRUPT_PAGE")
Little(bytes) == FoldRight(LAMBDA b, acc : b + 256 * acc, bytes, 0)
LittleBytes(v, n) == [i \in 1 .. n |-> (v \div 256 ^ (i - 1)) % 256]

RECURSIVE SnappyVarint(_)
SnappyVarint(u) ==
  IF u >= 128 THEN <<128 + (u % 128)>> \o SnappyVarint(u \div 128) ELSE <<u>>

-----------------------------------------------------------------------------
(* Compressor *)

\* Tags 60 to 63 say how many bytes of length follow.
EmitLiteral(bytes) ==
  LET n == Len(bytes) - 1
      extra == IF n < 60 THEN 0 ELSE IF n < 256 THEN 1 ELSE IF n < 65536 THEN 2 ELSE 3
  IN (IF extra = 0 THEN <<4 * n>> ELSE <<4 * (59 + extra)>> \o LittleBytes(n, extra)) \o bytes

\* Mutant: copy-1 also for a length of twelve, which its three bits cannot hold.
RECURSIVE EmitCopyTwelve(_, _)
EmitCopyTwelve(offset, length) ==
  IF length = 0 THEN <<>>
  ELSE IF length \in 4 .. 12 /\ offset <= 2047
       THEN <<(32 * (offset \div 256) + 4 * (length - 4) + 1) % 256, offset % 256>>
  ELSE LET chunk == IF length > 64 THEN 64 ELSE length
       IN <<4 * (chunk - 1) + 2>> \o LittleBytes(offset, 2) \o EmitCopyTwelve(offset, length - chunk)

RECURSIVE EmitCopy(_, _)
EmitCopy(offset, length) ==
  IF length = 0 THEN <<>>
  ELSE IF length \in 4 .. 11 /\ offset <= 2047
       THEN <<32 * (offset \div 256) + 4 * (length - 4) + 1, offset % 256>>
  ELSE LET chunk == IF length > 64 THEN 64 ELSE length
           wide == IF offset <= 65535 THEN 2 ELSE 4
       IN <<4 * (chunk - 1) + (IF wide = 2 THEN 2 ELSE 3)>> \o LittleBytes(offset, wide)
          \o EmitCopy(offset, length - chunk)

\* Any function of the four bytes; the table keeps the latest position of each value.
Hash4(data, pos) == (data[pos + 1] + 3 * data[pos + 2] + 5 * data[pos + 3] + 7 * data[pos + 4])
                    % HashBuckets

Same4(data, p, q) == \A i \in 1 .. 4 : data[p + i] = data[q + i]

RECURSIVE MatchLength(_, _, _)
MatchLength(data, p, q) ==
  IF p < Len(data) /\ data[p + 1] = data[q + 1] THEN 1 + MatchLength(data, p + 1, q + 1) ELSE 0

\* The positions of a match enter the table as far as four bytes remain.
Remember(table, data, from, to) ==
  [h \in DOMAIN table |->
     LET here == {p \in from .. to - 1 : p + 4 <= Len(data) /\ Hash4(data, p) = h}
     IN IF here = {} THEN table[h] ELSE CHOOSE p \in here : \A q \in here : q <= p]

RECURSIVE Scan(_, _, _, _)
Scan(data, table, pos, literal) ==
  IF pos + 4 > Len(data)
  THEN IF literal < Len(data) THEN EmitLiteral(SubSeq(data, literal + 1, Len(data))) ELSE <<>>
  ELSE LET seen == table[Hash4(data, pos)]
           hit == seen >= 0 /\ pos - seen <= 65535 /\ Same4(data, pos, seen)
           ml == MatchLength(data, pos, seen)
       IN IF ~hit THEN Scan(data, Remember(table, data, pos, pos + 1), pos + 1, literal)
          ELSE (IF pos > literal THEN EmitLiteral(SubSeq(data, literal + 1, pos)) ELSE <<>>)
               \o EmitCopy(pos - seen, ml)
               \o Scan(data, Remember(table, data, pos, pos + ml), pos + ml, pos + ml)

SnappyCompress(data) ==
  SnappyVarint(Len(data))
  \o (CASE data = <<>> -> <<>>
        [] Len(data) \in 1 .. 3 -> EmitLiteral(data)
        [] OTHER -> Scan(data, [h \in 0 .. HashBuckets - 1 |-> -1], 0, 0))

-----------------------------------------------------------------------------
(* Decompressor *)

\* A copy may overlap what it produces: byte by byte.
RECURSIVE CopyBack(_, _, _)
CopyBack(out, offset, length) ==
  IF length = 0 THEN out
  ELSE CopyBack(Append(out, out[Len(out) + 1 - offset]), offset, length - 1)

\* One literal or copy at w[pos + 1]: how many bytes it takes and what it adds.
LiteralElement(w, pos, out, size) ==
  LET code == w[pos + 1] \div 4
      extra == IF code >= 60 THEN code - 59 ELSE 0
      length == 1 + (IF extra = 0 THEN code ELSE Little(SubSeq(w, pos + 2, pos + 1 + extra)))
      start == pos + 1 + extra
  IN IF start > Len(w) THEN Corrupt
     ELSE IF start + length > Len(w) \/ Len(out) + length > size THEN Corrupt
     ELSE Good([pos |-> start + length, out |-> out \o SubSeq(w, start + 1, start + length)])

CopyElement(w, pos, out, size) ==
  LET tag == w[pos + 1]
      bytes == CASE tag % 4 = 1 -> 1 [] tag % 4 = 2 -> 2 [] OTHER -> 4
      length == IF tag % 4 = 1 THEN ((tag \div 4) % 8) + 4 ELSE (tag \div 4) + 1
      offset == Little(SubSeq(w, pos + 2, pos + 1 + bytes))
                + (IF tag % 4 = 1 THEN 256 * (tag \div 32) ELSE 0)
  IN IF pos + 1 + bytes > Len(w) THEN Corrupt
     ELSE IF offset = 0 \/ offset > Len(out) \/ Len(out) + length > size THEN Corrupt
     ELSE Good([pos |-> pos + 1 + bytes, out |-> CopyBack(out, offset, length)])

RECURSIVE Elements4(_, _, _, _)
Elements4(w, pos, out, size) ==
  IF pos = Len(w) THEN (IF Len(out) = size THEN Good(out) ELSE Corrupt)
  ELSE LET e == IF w[pos + 1] % 4 = 0 THEN LiteralElement(w, pos, out, size)
                ELSE CopyElement(w, pos, out, size)
       IN IF e.ok THEN Elements4(w, e.v.pos, e.v.out, size) ELSE Corrupt

RECURSIVE SnappyLength(_, _, _)
SnappyLength(w, pos, acc) ==
  IF pos = Len(w) \/ pos = 5 THEN [ok |-> FALSE, v |-> 0, pos |-> pos]
  ELSE LET sum == acc + (w[pos + 1] % 128) * 128 ^ pos
       IN IF w[pos + 1] < 128 THEN [ok |-> TRUE, v |-> sum, pos |-> pos + 1]
          ELSE SnappyLength(w, pos + 1, sum)

SnappyDecompress(w, size) ==
  IF w = <<>> THEN (IF size = 0 THEN Good(<<>>) ELSE Corrupt)
  ELSE LET len == SnappyLength(w, 0, 0)
       IN IF ~len.ok \/ len.v # size THEN Corrupt ELSE Elements4(w, len.pos, <<>>, size)

-----------------------------------------------------------------------------
(* codec.hpp: compress and decompress through the registry.                *)

Packed(data) == <<"packed", data>>        \* what an external codec wrote

Compress(codec, registered, data) ==
  IF codec = "UNCOMPRESSED" THEN Good(data)
  ELSE IF codec \notin registered THEN Bad("UNSUPPORTED_COMPRESSION")
  ELSE Good(IF codec = "SNAPPY" THEN SnappyCompress(data) ELSE Packed(data))

SizeOf(codec, w) == IF codec \in {"UNCOMPRESSED", "SNAPPY"} THEN Len(w) ELSE PackedSize

\* The limits on size and ratio come before the codec is asked.
Decompress(codec, registered, w, size) ==
  IF codec = "UNCOMPRESSED" THEN Good(w)
  ELSE IF \/ size > MaxOutput
          \/ SizeOf(codec, w) = 0 /\ size > 0
          \/ SizeOf(codec, w) > 0 /\ size \div SizeOf(codec, w) >= MaxRatio THEN Corrupt
  ELSE IF codec \notin registered THEN Bad("UNSUPPORTED_COMPRESSION")
  ELSE IF codec = "SNAPPY" THEN SnappyDecompress(w, size) ELSE Good(w[2])

AutoSelect(registered) ==
  IF registered \cap {"ZSTD", "SNAPPY", "LZ4_RAW", "LZ4"} = {} THEN "UNCOMPRESSED"
  ELSE LET order == <<"ZSTD", "SNAPPY", "LZ4_RAW", "LZ4">>
       IN order[SelectInSeq(order, LAMBDA c : c \in registered)]
=============================================================================
