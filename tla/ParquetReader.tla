--------------------------- MODULE ParquetReader ---------------------------
(***************************************************************************)
(* ParquetReader (reader.hpp) and MmapParquetReader (mmap_reader.hpp) over *)
(* the blocks that ParquetWriter leaves on the disk.  A reader r is        *)
(* [kind, keys, image, meta]: which of the two classes, the columns it has *)
(* a key for (and whether it has any encryption configuration), the bytes  *)
(* of the file, the footer.                                                *)
(***************************************************************************)
EXTENDS ParquetWriter

CONSTANTS
  MaxPageSize,      \* PARQUET_MAX_PAGE_SIZE, MMAP_MAX_PAGE_SIZE and MAX_DECOMPRESS_SIZE
  MaxRatio,         \* MAX_DECOMPRESSION_RATIO, and the 1024 of both readers
  MaxValues         \* MAX_VALUES_PER_PAGE and MMAP_MAX_VALUES_PER_PAGE

Good(v) == [ok |-> TRUE, v |-> v]
Bad(error) == [ok |-> FALSE, v |-> error]

Ending(image) == image[Len(image)].kind
MetaOf(image) == image[Len(image) - 2]

\* What both classes ask of a file: the magic numbers and the length of the footer.
WellFormed(image) ==
  /\ Len(image) >= 3 /\ image[1].kind = "PAR1"
  /\ Ending(image) \in {"PAR1", "PARE"} /\ image[Len(image) - 1].kind = "LENGTH"

\* FileMetaData and the schema made of it.  A signature of the footer is not looked at.
Opened(kind, keys, image) ==
  Good([kind |-> kind, keys |-> keys, image |-> image, meta |-> MetaOf(image)])

OpenBuffer(config, keys, image) ==
  CASE ~WellFormed(image) -> Bad("INVALID_FILE")
    [] Ending(image) = "PARE" /\ (~config \/ MetaOf(image).damaged) -> Bad("ENCRYPTION_ERROR")
    [] OTHER -> Opened("buffer", keys, image)

\* A mapping of nothing is an error; MmapParquetReader cannot decrypt.
OpenMmap(image) ==
  CASE image = <<>> -> Bad("IO_ERROR")
    [] ~WellFormed(image) -> Bad("INVALID_FILE")
    [] Ending(image) = "PARE" -> Bad("ENCRYPTION_ERROR")
    [] OTHER -> Opened("mmap", {}, image)

OpenReader(kind, config, keys, image) ==
  IF kind = "mmap" THEN OpenMmap(image) ELSE OpenBuffer(config, keys, image)

-----------------------------------------------------------------------------
(* Pages *)

IsPage(r, offset) == offset \in DOMAIN r.image /\ r.image[offset].kind \in {"DATA", "DICTIONARY"}

\* The limits on what a page unpacks to, and decompress(), whose own limit is one tighter.  An
\* encrypted page that was not decrypted does not unpack.
Unpack(p, codec, codecs, encrypted) ==
  CASE codec = "UNCOMPRESSED" -> Good(p)
    [] p.size = 0 \/ p.size > MaxPageSize -> Bad("CORRUPT_PAGE")
    [] p.size \div p.packed > MaxRatio -> Bad("CORRUPT_DATA")
    [] p.size \div p.packed >= MaxRatio \/ codec \notin codecs \/ encrypted ->
         Bad("UNSUPPORTED_COMPRESSION")
    [] OTHER -> Good(p)

\* Mutant: the checksum of a page is not compared.
ReadPageAtNoCrc(r, offset, codec, c, g, codecs) ==
  LET p == r.image[offset] IN
  CASE ~IsPage(r, offset) -> Bad("CORRUPT_PAGE")
    [] p.headerKey # <<>> /\ c \notin r.keys -> Bad("ENCRYPTION_ERROR")
    [] OTHER -> Good(IF p.damaged THEN [p EXCEPT !.values = Reverse(@)] ELSE p)

\* read_page_at(): a damaged page does not match its checksum; a page that the reader has
\* a key for must have been encrypted for this column, row group and place.
ReadPageAt(r, offset, codec, c, g, codecs) ==
  LET p == r.image[offset]
      mine == c \in r.keys
  IN CASE ~IsPage(r, offset) -> Bad("CORRUPT_PAGE")
       [] p.headerKey # <<>> /\ (~mine \/ p.headerKey # <<c, g, "HEADER">>) -> Bad("ENCRYPTION_ERROR")
       [] p.damaged -> Bad("CORRUPT_PAGE")
       [] mine /\ p.key # <<c, g, p.kind>> -> Bad("ENCRYPTION_ERROR")
       [] OTHER -> Unpack(p, codec, codecs, ~mine /\ p.key # <<>>)

\* The mapped form takes an encrypted header for a Thrift struct, which it is not.
MmapReadPageAt(r, offset, codec, codecs) ==
  LET p == r.image[offset] IN
  CASE ~IsPage(r, offset) -> Bad("CORRUPT_PAGE")
    [] p.headerKey # <<>> -> Bad("THRIFT_DECODE_ERROR")
    [] p.damaged -> Bad("CORRUPT_PAGE")
    [] OTHER -> Unpack(p, codec, codecs, p.key # <<>>)

PageAt(r, offset, m, g, codecs) ==
  IF r.kind = "mmap" THEN MmapReadPageAt(r, offset, m.codec, codecs)
  ELSE ReadPageAt(r, offset, m.codec, m.column, g, codecs)

\* The data page of a chunk, whose number of values every way to read a column limits.
DataPageOf(r, m, g, codecs) ==
  LET p == PageAt(r, m.data, m, g, codecs)
  IN IF p.ok /\ p.v.n > MaxValues THEN Bad("CORRUPT_PAGE") ELSE p

\* delta::decode stops where a sum leaves the range.
DeltaValues(values) ==
  LET wide == {i \in 2 .. Len(values) : values[i] - values[i - 1] > MaxStep
                                        \/ values[i - 1] - values[i] > MaxStep}
  IN IF wide = {} THEN values ELSE SubSeq(values, 1, Min(wide) - 1)

\* Only ParquetReader counts what it decoded.
ReadColumnDelta(r, m, g, codecs) ==
  LET p == DataPageOf(r, m, g, codecs)
      values == DeltaValues(p.v.values)
  IN IF ~p.ok THEN p
     ELSE IF r.kind = "buffer" /\ Len(values) # p.v.n THEN Bad("CORRUPT_PAGE")
     ELSE Good(values)

ReadColumnSplit(r, m, g, codecs) ==
  LET p == DataPageOf(r, m, g, codecs)
  IN IF p.ok THEN Good(p.v.values) ELSE p

ReadColumnRleBool(r, m, g, codecs) ==
  LET p == DataPageOf(r, m, g, codecs)
  IN IF p.ok THEN Good(p.v.values) ELSE p

\* Fewer indices than promised are not an error.
ReadColumnDict(r, m, g, codecs) ==
  LET d == PageAt(r, m.dict, m, g, codecs)
      p == DataPageOf(r, m, g, codecs)
  IN CASE ~d.ok -> d
       [] d.v.kind # "DICTIONARY" -> Bad("CORRUPT_PAGE")
       [] ~p.ok -> p
       [] \E i \in Range(p.v.values) : i \notin DOMAIN d.v.values -> Bad("CORRUPT_DATA")
       [] OTHER -> Good([i \in DOMAIN p.v.values |-> d.v.values[p.v.values[i]]])

\* ColumnReader::read_batch over the PLAIN bytes of a page.
ReadBatch(values, n) == IF Len(values) < n THEN Bad("OUT_OF_RANGE") ELSE Good(SubSeq(values, 1, n))

MakeColumnReader(r, m, g, codecs) ==
  LET p == DataPageOf(r, m, g, codecs)
  IN IF p.ok THEN ReadBatch(p.v.values, p.v.n) ELSE p

\* read_column<T>() with the T of the column: the list of encodings in the footer says how.
ReadColumn(r, g, c, codecs) ==
  IF g \notin DOMAIN r.meta.groups \/ c \notin DOMAIN r.meta.types \/ c \notin DOMAIN r.meta.groups[g]
  THEN Bad("OUT_OF_RANGE")
  ELSE LET m == r.meta.groups[g][c] IN
       CASE "DICT" \in m.encodings ->
              IF m.type \in {"BOOLEAN", "FIXED"} THEN Bad("UNSUPPORTED_ENCODING")
              ELSE ReadColumnDict(r, m, g, codecs)
         [] "DELTA" \in m.encodings ->
              IF m.type # "INT64" THEN Bad("UNSUPPORTED_ENCODING") ELSE ReadColumnDelta(r, m, g, codecs)
         [] "SPLIT" \in m.encodings ->
              IF m.type # "DOUBLE" THEN Bad("UNSUPPORTED_ENCODING") ELSE ReadColumnSplit(r, m, g, codecs)
         [] "RLE" \in m.encodings /\ m.type = "BOOLEAN" -> ReadColumnRleBool(r, m, g, codecs)
         [] OTHER -> MakeColumnReader(r, m, g, codecs)

-----------------------------------------------------------------------------
(* Whole files *)

\* A number, a truth value or the hexadecimal bytes of a fixed length value as a text.
ToText(type, v) ==
  CASE type = "BYTE_ARRAY" -> v
    [] type = "FIXED" -> <<"hex", v>>
    [] type = "BOOLEAN" -> IF v = 1 THEN "true" ELSE "false"
    [] OTHER -> <<type, v>>

AsTexts(types, c, typed) ==
  IF typed.ok THEN Good([i \in DOMAIN typed.v |-> ToText(types[c], typed.v[i])]) ELSE typed

\* A fixed length column is read through its PLAIN bytes, whatever the footer says.
ReadColumnAsStrings(r, g, c, codecs) ==
  AsTexts(r.meta.types, c,
          IF c \in DOMAIN r.meta.types /\ g \in DOMAIN r.meta.groups /\ r.meta.types[c] = "FIXED"
          THEN MakeColumnReader(r, r.meta.groups[g][c], g, codecs)
          ELSE ReadColumn(r, g, c, codecs))

\* The first error of a sequence of results, or all their values.
Collect(results) ==
  IF \A i \in DOMAIN results : results[i].ok THEN Good([i \in DOMAIN results |-> results[i].v])
  ELSE results[SelectInSeq(results, LAMBDA x : ~x.ok)]

ReadRowGroup(r, g, codecs) ==
  Collect([c \in DOMAIN r.meta.types |-> ReadColumnAsStrings(r, g, c, codecs)])

\* The first column says how many rows there are; a missing cell is empty.
Rows(columns) ==
  [i \in DOMAIN columns[1] |-> [c \in DOMAIN columns |->
                                  IF i <= Len(columns[c]) THEN columns[c][i] ELSE ""]]

ReadAll(r, codecs) ==
  LET groups == Collect([g \in DOMAIN r.meta.groups |-> ReadRowGroup(r, g, codecs)])
  IN IF groups.ok THEN Good(FlattenSeq([g \in DOMAIN groups.v |-> Rows(groups.v[g])])) ELSE groups

\* read_columns(): a projection, each column over all row groups.
ReadColumns(r, wanted, codecs) ==
  IF \E i \in DOMAIN wanted : wanted[i] \notin DOMAIN r.meta.types THEN Bad("SCHEMA_MISMATCH")
  ELSE LET column(c) == Collect([g \in DOMAIN r.meta.groups |-> ReadColumnAsStrings(r, g, c, codecs)])
           all == Collect([i \in DOMAIN wanted |-> column(wanted[i])])
       IN IF all.ok THEN Good([i \in DOMAIN all.v |-> FlattenSeq(all.v[i])]) ELSE all

-----------------------------------------------------------------------------
(* What a query asks before it reads *)

ReadBlock(r, offset, kind) ==
  IF offset = 0 THEN Bad("INVALID_FILE")
  ELSE IF offset \notin DOMAIN r.image \/ r.image[offset].kind # kind THEN Bad("CORRUPT_PAGE")
  ELSE Good(r.image[offset])

\* Without a filter nothing can be ruled out.
BloomMightContain(r, g, c, v) ==
  LET b == ReadBlock(r, r.meta.groups[g][c].bloom, "BLOOM") IN ~b.ok \/ v \in b.v.set

ReadColumnIndex(r, g, c) == ReadBlock(r, r.meta.groups[g][c].columnIndex, "COLUMN_INDEX")
ReadOffsetIndex(r, g, c) == ReadBlock(r, r.meta.groups[g][c].offsetIndex, "OFFSET_INDEX")
=============================================================================
