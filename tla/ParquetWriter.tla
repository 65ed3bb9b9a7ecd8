--------------------------- MODULE ParquetWriter ---------------------------
(***************************************************************************)
(* ParquetWriter (writer.hpp) and ColumnWriter (column_writer.hpp).        *)
(*                                                                         *)
(* A file is a sequence of blocks (a magic number, a page with its header, *)
(* a Bloom filter, an index, the footer, its length) and an offset is the  *)
(* index of a block.  How pages are encoded, compressed and put in Thrift  *)
(* is the subject of Codecs; here a page holds its values and says in      *)
(* which form its bytes are.  A method takes the writer s and the options  *)
(* o and returns [res, s]: "ok", "error" (an Error) or "throw" (write_raw  *)
(* and a ColumnWriter throw).                                              *)
(***************************************************************************)
EXTENDS Integers, Sequences, SequencesExt, FiniteSets, FiniteSetsExt

CONSTANTS
  Cell,             \* what each text of a cell parses to
  RowGroupSize,     \* Options::row_group_size
  MaxDict,          \* MAX_DICTIONARY_ENTRIES
  Buffer,           \* blocks that the output stream holds back
  MaxStep           \* INT64_MAX, the largest difference of two integers

\* schema_, col_writers_ .. of an opened writer; codecs is the process-wide registry.
Closed == [open |-> FALSE, pending |-> <<>>, cols |-> <<>>, bloom |-> <<>>, index |-> <<>>,
           groups |-> <<>>, rows |-> 0, file |-> <<>>, codecs |-> {}]

Columns(o) == 1 .. Len(o.types)
Result(res, s) == [res |-> res, s |-> s]
Bytes(type) == type \in {"BYTE_ARRAY", "FIXED"}

\* write_raw(): the stream takes a block into its buffer until the disk is full.
Emit(st, o, block) ==
  IF st.res # "ok" THEN st
  ELSE IF Len(st.s.file) >= o.room + Buffer THEN [st EXCEPT !.res = "throw"]
  ELSE [st EXCEPT !.s.file = Append(@, block)]

OpenWriter(s, o) ==
  LET fresh == [Closed EXCEPT !.open = TRUE, !.codecs = s.codecs,
                              !.cols = [c \in Columns(o) |-> <<>>],
                              !.bloom = [c \in Columns(o) |-> {}],
                              !.index = [c \in Columns(o) |-> <<>>]]
      st == Emit(Result("ok", fresh), o, [kind |-> "PAR1"])
  IN IF st.res = "ok" THEN st ELSE Result("throw", s)

-----------------------------------------------------------------------------
(* Cells and columns *)

\* from_chars takes the leading integer; a text without one goes through a double.
ParseInt(cell) == IF cell.int # <<>> THEN cell.int[1]
                  ELSE IF cell.dbl # <<>> THEN cell.dbl[1] \div 10 ELSE 0

Parse(type, text) ==
  CASE type = "BOOLEAN" -> IF Cell[text].bool = "true" THEN 1 ELSE 0
    [] type = "INT64"   -> ParseInt(Cell[text])
    [] type = "DOUBLE"  -> IF Cell[text].dbl # <<>> THEN Cell[text].dbl[1] ELSE 0
    [] OTHER            -> text

\* The texts that from_chars takes as a whole, to their last character, for an integer and
\* that try_parse_double takes for a number.
IsInt(text) == "int" \in Cell[text].whole
IsDouble(text) == "double" \in Cell[text].whole

Fits(o, c, text) == o.types[c] = "FIXED" => Cell[text].len = o.length

Rank(type, v) == IF Bytes(type) THEN Cell[v].rank ELSE v
MinOf(type, vs) == CHOOSE v \in Range(vs) : \A u \in Range(vs) : Rank(type, v) <= Rank(type, u)
MaxOf(type, vs) == CHOOSE v \in Range(vs) : \A u \in Range(vs) : Rank(type, u) <= Rank(type, v)

\* bloom_ensure_filter and insert_value: the filter is the set of what was put into it.
BloomInsert(s, o, c, values) ==
  IF c \in o.bloom THEN [s EXCEPT !.bloom[c] = @ \cup Range(values)] ELSE s

\* ColumnWriter::write_batch of one column.
AppendColumn(s, o, c, values) ==
  BloomInsert([s EXCEPT !.cols[c] = @ \o values], o, c, values)

\* The first row whose cell does not fit ends the loop inside its column.
EncodeColumn(st, o, c) ==
  IF st.res # "ok" THEN st
  ELSE LET texts == [i \in DOMAIN st.s.pending |-> st.s.pending[i][c]]
           bad == {i \in DOMAIN texts : ~Fits(o, c, texts[i])}
           upto == IF bad = {} THEN Len(texts) ELSE Min(bad) - 1
           values == [i \in 1 .. upto |-> Parse(o.types[c], texts[i])]
       IN Result(IF bad = {} THEN "ok" ELSE "error", AppendColumn(st.s, o, c, values))


EncodePendingRows(s, o) ==
  LET st == FoldLeft(LAMBDA acc, c : EncodeColumn(acc, o, c), Result("ok", s),
                     [c \in Columns(o) |-> c])
  IN IF st.res = "ok" THEN [st EXCEPT !.s.pending = <<>>] ELSE st

-----------------------------------------------------------------------------
(* Pages *)

\* The distinct count of the statistics is never set: strings stay PLAIN.
ChooseEncoding(o, c) ==
  IF o.encoding # "auto" THEN o.encoding
  ELSE CASE o.types[c] = "INT64" -> "DELTA"
         [] o.types[c] = "DOUBLE" -> "SPLIT"
         [] o.types[c] = "BOOLEAN" -> "RLE"
         [] OTHER -> "PLAIN"

\* options_.compression, or auto_select_compression's first one that is registered.
ChooseCodec(s, o) ==
  IF o.codec # "auto" THEN o.codec
  ELSE IF "ZSTD" \in s.codecs THEN "ZSTD"
  ELSE IF "SNAPPY" \in s.codecs THEN "SNAPPY" ELSE "UNCOMPRESSED"

Available(s, codec) == codec = "UNCOMPRESSED" \/ codec \in s.codecs

\* encode_column_data(): a type that the encoding does not support stays PLAIN.
EncodeColumnData(type, encoding) ==
  IF <<encoding, type>> \in {<<"DELTA", "INT64">>, <<"SPLIT", "DOUBLE">>, <<"RLE", "BOOLEAN">>}
  THEN encoding ELSE "PLAIN"

\* is_column_encrypted(), and the column, row group and kind that go into the AAD.
Encrypted(o, c) == o.crypt # "none" /\ c \in o.keyed
Key(s, o, c, kind) == IF Encrypted(o, c) THEN <<c, Len(s.groups) + 1, kind>> ELSE <<>>

\* The bytes of a page, one unit for a value or, where the encoding has them, for a run; packed,
\* what is left of them: ZSTD stands for the codecs that put equal units into one, Snappy's
\* copies are of 64 bytes at most, which never comes near to the readers' limit.
Units(form, values) ==
  {i \in DOMAIN values : form \notin {"RLE", "INDICES"} \/ i = 1 \/ values[i] # values[i - 1]}
SizeOf(form, values) == Cardinality(Units(form, values))
PackedSize(codec, form, values) ==
  IF codec = "ZSTD" THEN Cardinality(Range(values)) ELSE SizeOf(form, values)

DataPage(s, o, c, encoding, form, values) ==
  [kind |-> "DATA", n |-> Len(s.cols[c]), encoding |-> encoding, form |-> form,
   values |-> values, codec |-> ChooseCodec(s, o), damaged |-> FALSE,
   size |-> SizeOf(form, values), packed |-> PackedSize(ChooseCodec(s, o), form, values),
   key |-> Key(s, o, c, "DATA"), headerKey |-> Key(s, o, c, "HEADER")]

WritePage(st, o, c, encoding) ==
  IF ~Available(st.s, ChooseCodec(st.s, o)) THEN [st EXCEPT !.res = "error"]
  ELSE Emit(st, o, DataPage(st.s, o, c, encoding, EncodeColumnData(o.types[c], encoding),
                            st.s.cols[c]))

\* DictionaryEncoder::put: a value that finds the dictionary full is dropped, and
\* write_dictionary_column does not look at what put returns.
DictPut(d, v) ==
  IF v \in Range(d.dict) \/ Len(d.dict) < MaxDict
  THEN LET dict == IF v \in Range(d.dict) THEN d.dict ELSE Append(d.dict, v)
       IN [dict |-> dict, indices |-> Append(d.indices, SelectInSeq(dict, LAMBDA x : x = v))]
  ELSE d

\* Neither a boolean nor a fixed length column has a dictionary.  The header of the
\* dictionary page is never encrypted.
WriteDictionaryColumn(st, o, c) ==
  IF o.types[c] \in {"BOOLEAN", "FIXED"} \/ ~Available(st.s, ChooseCodec(st.s, o))
  THEN [st EXCEPT !.res = "error"]
  ELSE LET d == FoldLeft(DictPut, [dict |-> <<>>, indices |-> <<>>], st.s.cols[c])
           dictPage == [DataPage(st.s, o, c, "PLAIN_DICTIONARY", "PLAIN", d.dict)
                          EXCEPT !.kind = "DICTIONARY", !.n = Len(d.dict),
                                 !.key = Key(st.s, o, c, "DICTIONARY"), !.headerKey = <<>>]
       IN Emit(Emit(st, o, dictPage), o,
               DataPage(st.s, o, c, "DICT", "INDICES", d.indices))

-----------------------------------------------------------------------------
(* Row groups *)

\* One page per column and row group; a page of a dictionary column is given the size of
\* the whole chunk.
IndexEntry(s, o, c, size) ==
  [offset |-> Len(s.file), size |-> size, first |-> 0, null |-> FALSE,
   min |-> MinOf(o.types[c], s.cols[c]), max |-> MaxOf(o.types[c], s.cols[c])]

Chunk(s, o, c, start) ==
  [column |-> c, type |-> o.types[c], codec |-> ChooseCodec(s, o), n |-> Len(s.cols[c]),
   encodings |-> IF ChooseEncoding(o, c) = "DICT" THEN {"PLAIN", "DICT"}
                 ELSE {ChooseEncoding(o, c)},
   dict |-> IF ChooseEncoding(o, c) = "DICT" THEN start ELSE 0, data |-> Len(s.file),
   min |-> MinOf(o.types[c], s.cols[c]), max |-> MaxOf(o.types[c], s.cols[c]),
   bloom |-> 0, columnIndex |-> 0, offsetIndex |-> 0]

WriteBloom(st, o, c) ==
  IF st.res # "ok" \/ c \notin o.bloom THEN st
  ELSE LET w == Emit(st, o, [kind |-> "BLOOM", set |-> st.s.bloom[c]])
       IN [w EXCEPT !.chunk.bloom = Len(w.s.file)]

WriteIndexes(st, o, c) ==
  IF st.res # "ok" \/ ~o.pageIndex THEN st
  ELSE LET ci == Emit(st, o, [kind |-> "COLUMN_INDEX", pages |-> st.s.index[c]])
           oi == Emit(ci, o, [kind |-> "OFFSET_INDEX", pages |-> st.s.index[c]])
       IN [oi EXCEPT !.chunk.columnIndex = Len(oi.s.file) - 1, !.chunk.offsetIndex = Len(oi.s.file)]

\* The index builder sees the page, then the chunk is described.
DescribeChunk(p, o, c, before) ==
  LET entry == IndexEntry(p.s, o, c, Len(p.s.file) - before)
  IN [p EXCEPT !.s.index[c] = IF o.pageIndex THEN Append(@, entry) ELSE @,
               !.chunk = Chunk(p.s, o, c, before + 1)]

AddChunk(w) == [w EXCEPT !.chunks = Append(@, w.chunk)]

\* What follows the pages of a column, if they were written.
FinishColumn(p, o, c, before) ==
  IF p.res # "ok" THEN p
  ELSE AddChunk(WriteIndexes(WriteBloom(DescribeChunk(p, o, c, before), o, c), o, c))

\* The body of the loop over the columns.
FlushColumn(st, o, c) ==
  IF st.res # "ok" THEN st
  ELSE FinishColumn(IF ChooseEncoding(o, c) = "DICT" THEN WriteDictionaryColumn(st, o, c)
                    ELSE WritePage(st, o, c, ChooseEncoding(o, c)),
                    o, c, Len(st.s.file))

\* Mutant: the page index builders keep the pages of the last row group.
RecordRowGroupKeepIndex(st, o) ==
  Result("ok", [st.s EXCEPT !.groups = Append(@, st.chunks), !.rows = @ + Len(st.s.cols[1]),
                            !.cols = [c \in Columns(o) |-> <<>>],
                            !.bloom = [c \in Columns(o) |-> {}]])

RecordRowGroup(st, o) ==
  Result("ok", [st.s EXCEPT !.groups = Append(@, st.chunks), !.rows = @ + Len(st.s.cols[1]),
                            !.cols = [c \in Columns(o) |-> <<>>],
                            !.bloom = [c \in Columns(o) |-> {}],
                            !.index = [c \in Columns(o) |-> <<>>]])

\* The row group whose chunks are written, and the pending rows p that become one.
FinishRowGroup(st, o) == IF st.res # "ok" THEN Result(st.res, st.s) ELSE RecordRowGroup(st, o)

FlushEncoded(p, o) ==
  IF p.res # "ok" \/ \A c \in Columns(o) : p.s.cols[c] = <<>> THEN p
  ELSE IF \E c \in Columns(o) : Len(p.s.cols[c]) # Len(p.s.cols[1]) THEN Result("error", p.s)
  ELSE FinishRowGroup(FoldLeft(LAMBDA acc, c : FlushColumn(acc, o, c),
                               [res |-> "ok", s |-> p.s, chunks |-> <<>>, chunk |-> <<>>],
                               [c \in Columns(o) |-> c]), o)

FlushRowGroup(s, o) ==
  IF ~s.open THEN Result("error", s)
  ELSE FlushEncoded(EncodePendingRows([s EXCEPT !.codecs = @ \cup {"SNAPPY"}], o), o)

-----------------------------------------------------------------------------
(* Rows, columns and the end of the file *)

WriteRow(s, o, row) ==
  IF ~s.open \/ Len(row) # Len(o.types) THEN Result("error", s)
  ELSE LET p == [s EXCEPT !.pending = Append(@, row)]
       IN IF Len(p.pending) >= RowGroupSize THEN FlushRowGroup(p, o) ELSE Result("ok", p)

\* write_column<T> and its string form: a string of the wrong length throws in the middle.
WriteColumn(s, o, c, type, values) ==
  IF ~s.open \/ c \notin Columns(o) THEN Result("error", s)
  ELSE IF type # o.types[c] /\ ~(type = "BYTE_ARRAY" /\ o.types[c] = "FIXED") THEN Result("error", s)
  ELSE LET bad == {i \in DOMAIN values : Bytes(type) /\ ~Fits(o, c, values[i])}
       IN IF bad = {} THEN Result("ok", AppendColumn(s, o, c, values))
          ELSE Result("throw", [s EXCEPT !.cols[c] = @ \o SubSeq(values, 1, Min(bad) - 1)])

Footer(s, o) ==
  [kind |-> "FOOTER", types |-> o.types, groups |-> s.groups, rows |-> s.rows,
   crypt |-> o.crypt, damaged |-> FALSE]

Magic(o) == [kind |-> IF o.crypt = "footer" THEN "PARE" ELSE "PAR1"]

EmitFooter(f, o) == Emit(Emit(Emit(f, o, Footer(f.s, o)), o, [kind |-> "LENGTH"]), o, Magic(o))

\* What close() does behind its flush f: an exception leaves the writer open.
CloseWritten(e) == IF e.res = "throw" THEN e ELSE Result("ok", [e.s EXCEPT !.open = FALSE])
CloseFlushed(f, o) ==
  IF f.res = "error" THEN Result("error", [f.s EXCEPT !.open = FALSE])
  ELSE CloseWritten(EmitFooter(f, o))

\* Mutant: a file whose last row group could not be written gets a footer.
CloseWriterAnyway(s, o) ==
  IF ~s.open THEN Result("ok", s)
  ELSE LET f == FlushRowGroup(s, o)
       IN [EmitFooter(Result("ok", f.s), o)
             EXCEPT !.res = IF f.res = "ok" THEN @ ELSE f.res, !.s.open = FALSE]

\* close(): whatever the last flush of the stream did, the answer is a success.
CloseWriter(s, o) ==
  IF ~s.open THEN Result("ok", s)
  ELSE IF o.types = <<>> THEN Result("error", [s EXCEPT !.open = FALSE])
  ELSE CloseFlushed(FlushRowGroup(s, o), o)

\* What is on the disk once the stream has been closed.
OnDisk(s, o) == SubSeq(s.file, 1, Min({Len(s.file), o.room}))

-----------------------------------------------------------------------------
(* csv_to_parquet *)

\* Every line is padded or cut to the width of the header; empty lines do not count.
CsvRows(width, lines) ==
  LET full == SelectSeq(lines, LAMBDA l : l # <<>>)
  IN [i \in DOMAIN full |-> [c \in 1 .. width |-> IF c <= Len(full[i]) THEN full[i][c] ELSE ""]]

\* Empty cells do not take part in the detection of the type.
DetectType(texts) ==
  LET seen == Range(texts) \ {""}
  IN IF \A t \in seen : IsInt(t) THEN "INT64"
     ELSE IF \A t \in seen : IsDouble(t) THEN "DOUBLE"
     ELSE IF \A t \in seen : Cell[t].bool # "no" THEN "BOOLEAN" ELSE "BYTE_ARRAY"

CsvTypes(width, rows) == [c \in 1 .. width |-> DetectType([i \in DOMAIN rows |-> rows[i][c]])]

\* The rows up to the first error; then the writer is closed, by its destructor if need be.
CsvClose(st, o) ==
  LET closed == CloseWriter(st.s, o)
  IN IF st.res = "ok" THEN closed ELSE Result(st.res, closed.s)
CsvWrite(s, o, rows) ==
  CsvClose(FoldLeft(LAMBDA acc, r : IF acc.res = "ok" THEN WriteRow(acc.s, o, r) ELSE acc,
                    OpenWriter(s, o), rows), o)
=============================================================================
