---------------------------- MODULE ParquetFile ----------------------------
(***************************************************************************)
(* The life of one Parquet file: a writer with some schema and options,    *)
(* its rows or columns, its end (close, destructor, exception, crash), the *)
(* damage a disk may do, and the readers that open it, in the same process *)
(* or in a new one.                                                        *)
(***************************************************************************)
EXTENDS ParquetReader

CONSTANTS
  Configs,          \* options and schemas
  RowsFor(_),       \* rows that are written under a schema
  BatchesFor(_),    \* batches of values for a column of a type
  CsvInputs,        \* tables read from a CSV file
  MaxRows,          \* rows, and values of a column, that are written
  MaxBlocks,        \* length of the file after which nothing is retried
  BuiltIn           \* codecs that ParquetReader registers

VARIABLES
  o,        \* schema and options
  s,        \* the writer
  phase,    \* "new", "writing", "closed", "failed" (closed with an error) or "gone"
  disk,     \* the blocks on the disk once the writer is gone
  given,    \* the rows and the column values that the writer accepted
  rd,       \* the open readers' last one
  out       \* what it answered last

vars == <<o, s, phase, disk, given, rd, out>>

Init ==
  /\ o \in Configs
  /\ s = Closed /\ phase = "new" /\ disk = <<>>
  /\ given = [rows |-> <<>>, cols |-> [c \in Columns(o) |-> <<>>]]
  /\ rd = <<>> /\ out = <<"none">>

-----------------------------------------------------------------------------
(* Writing *)

Written == Len(given.rows) + (IF given.cols = <<>> THEN 0
                              ELSE Max({Len(given.cols[c]) : c \in DOMAIN given.cols}))

Retry == Len(s.file) <= MaxBlocks /\ \A c \in DOMAIN s.cols : Len(s.cols[c]) <= MaxRows

Open ==
  /\ phase = "new" /\ ~o.csv
  /\ LET r == OpenWriter(s, o)
     IN s' = r.s /\ phase' = (IF r.res = "ok" THEN "writing" ELSE "gone")
  /\ UNCHANGED <<o, disk, given, rd, out>>

\* The row is queued before the flush that may fail.
Row ==
  /\ phase = "writing" /\ Written < MaxRows /\ Retry
  /\ \E row \in RowsFor(o.types) :
       /\ s' = WriteRow(s, o, row).s
       /\ given' = IF Len(row) = Len(o.types) THEN [given EXCEPT !.rows = Append(@, row)] ELSE given
  /\ UNCHANGED <<o, phase, disk, rd, out>>

Column ==
  /\ phase = "writing"
  /\ \E c \in Columns(o), type \in Range(o.types) : \E batch \in BatchesFor(type) :
       /\ Len(given.rows) + Len(given.cols[c]) + Len(batch) <= MaxRows
       /\ LET r == WriteColumn(s, o, c, type, batch)
          IN /\ s' = r.s
             /\ given' = [given EXCEPT !.cols[c] = @ \o SubSeq(r.s.cols[c], Len(s.cols[c]) + 1,
                                                               Len(r.s.cols[c]))]
  /\ UNCHANGED <<o, phase, disk, rd, out>>

Flush ==
  /\ phase = "writing" /\ Retry
  /\ s' = FlushRowGroup(s, o).s
  /\ UNCHANGED <<o, phase, disk, given, rd, out>>

\* close(), the destructor and the target of a move assignment.
Close ==
  /\ phase = "writing"
  /\ LET r == CloseWriter(s, o)
     IN /\ s' = r.s
        /\ phase' = CASE r.res = "ok" -> "closed" [] r.res = "error" -> "failed" [] OTHER -> "writing"
        /\ disk' = IF r.res = "throw" THEN disk ELSE OnDisk(r.s, o)
  /\ UNCHANGED <<o, given, rd, out>>

\* The process ends, by itself or by an exception: what the stream held back is lost.
Crash ==
  /\ phase = "writing"
  /\ \E k \in 0 .. Len(OnDisk(s, o)) : disk' = SubSeq(s.file, 1, k)
  /\ phase' = "gone" /\ s' = Closed
  /\ UNCHANGED <<o, given, rd, out>>

Csv ==
  /\ phase = "new" /\ o.csv
  /\ \E t \in CsvInputs :
       LET rows == CsvRows(t.width, t.lines)
           opt == [o EXCEPT !.types = CsvTypes(t.width, rows)]
           r == CsvWrite(s, opt, rows)
       IN IF rows = <<>> THEN phase' = "gone" /\ UNCHANGED <<o, s, disk, given>>
          ELSE /\ o' = opt /\ s' = r.s
               /\ phase' = (IF r.res = "ok" THEN "closed" ELSE "failed")
               /\ disk' = OnDisk(r.s, opt)
               /\ given' = [rows |-> rows, cols |-> [c \in Columns(opt) |-> <<>>]]
  /\ UNCHANGED <<rd, out>>

-----------------------------------------------------------------------------
(* The file on the disk and its readers *)

\* The payload of a page or an encrypted footer changes; the other blocks carry no checksum.
Damage ==
  /\ phase = "closed" /\ rd = <<>>
  /\ \A i \in DOMAIN disk : disk[i].kind \in {"DATA", "DICTIONARY", "FOOTER"} => ~disk[i].damaged
  /\ \E i \in DOMAIN disk :
       /\ \/ disk[i].kind \in {"DATA", "DICTIONARY"} /\ Len(disk[i].values) > 1
          \/ disk[i].kind = "FOOTER" /\ o.crypt = "footer"
       /\ disk' = [disk EXCEPT ![i].damaged = TRUE]
  /\ UNCHANGED <<o, s, phase, given, rd, out>>

\* A new process knows no codec yet.
NewProcess ==
  /\ phase \notin {"new", "writing"} /\ s.codecs # {} /\ rd = <<>>
  /\ s' = [s EXCEPT !.codecs = {}]
  /\ UNCHANGED <<o, phase, disk, given, rd, out>>

\* A file that is being written is what has left the stream's buffer so far.
Image == IF phase = "writing" THEN {SubSeq(s.file, 1, k) : k \in 0 .. Len(OnDisk(s, o))} ELSE {disk}

OpenFile ==
  /\ phase # "new" /\ rd = <<>>
  /\ \E kind \in {"buffer", "mmap"}, config \in BOOLEAN, image \in Image :
       /\ kind = "mmap" => ~config
       /\ LET r == OpenReader(kind, config, IF config THEN o.keyed ELSE {}, image)
          IN rd' = IF r.ok THEN <<r.v>> ELSE <<>>
       /\ s' = IF kind = "buffer" THEN [s EXCEPT !.codecs = @ \cup BuiltIn] ELSE s
  /\ UNCHANGED <<o, phase, disk, given, out>>

ReadFile ==
  /\ rd # <<>>
  /\ \/ out' = <<"rows", ReadAll(rd[1], s.codecs)>>
     \/ \E c \in Columns(o) : out' = <<"columns", c, ReadColumns(rd[1], <<c>>, s.codecs)>>
  /\ UNCHANGED <<o, s, phase, disk, given, rd>>

Next == \/ Open \/ Row \/ Column \/ Flush \/ Close \/ Crash \/ Csv
        \/ Damage \/ NewProcess \/ OpenFile \/ ReadFile

Spec == Init /\ [][Next]_vars

-----------------------------------------------------------------------------
(* Properties *)

\* What the writer was given for a column: batches go before the rows of their group.
GivenColumn(c) ==
  given.cols[c] \o [i \in DOMAIN given.rows |-> Parse(o.types[c], given.rows[i][c])]

Texts(c, values) == [i \in DOMAIN values |-> ToText(o.types[c], values[i])]
SameBag(a, b) == \A v \in Range(a) \cup Range(b) :
                   Cardinality({i \in DOMAIN a : a[i] = v}) = Cardinality({i \in DOMAIN b : b[i] = v})

Mixed == given.rows # <<>> /\ \E c \in Columns(o) : given.cols[c] # <<>>

AsTold(c, read) ==
  LET told == Texts(c, GivenColumn(c)) IN IF Mixed THEN SameBag(read, told) ELSE read = told

\* An encoding that the type does not have keeps its name in the footer, and the readers
\* refuse the column.
Readable(c) == LET e == ChooseEncoding(o, c)
               IN EncodeColumnData(o.types[c], e) = e \/ e \notin {"DELTA", "SPLIT"}
                  \/ o.types[c] = "FIXED"

HasKeys == rd[1].kind = "buffer" /\ o.keyed \subseteq rd[1].keys
Intact == \A i \in DOMAIN disk : disk[i].kind \in {"DATA", "DICTIONARY", "FOOTER"} => ~disk[i].damaged
Decompresses == rd[1].kind = "buffer" \/ \A g \in DOMAIN rd[1].meta.groups :
                  \A c \in Columns(o) : Available(s, rd[1].meta.groups[g][c].codec)

\* The pages of a column that the readers' limits let through: the writer knows none of them.
WithinLimits(c) ==
  \A g \in DOMAIN rd[1].meta.groups :
    LET m == rd[1].meta.groups[g][c]
        small(p) == \/ m.codec = "UNCOMPRESSED"
                    \/ p.size <= MaxPageSize /\ p.size < MaxRatio * p.packed
    IN /\ small(disk[m.data]) /\ disk[m.data].n <= MaxValues
       /\ m.dict = 0 \/ small(disk[m.dict])

\* A column of a whole file, read by someone who has the keys and the codecs.
Expected ==
  out[1] = "columns" /\ phase = "closed" /\ Intact /\ Readable(out[2]) /\ Decompresses
  /\ (o.crypt = "none" \/ o.keyed = {} \/ HasKeys)

\* Once close() has succeeded, every column of the file reads back with exactly the values
\* that were accepted, through both readers: across row groups that were cut by the row
\* limit, by hand or by close, after flushes that failed, for every encoding the type has,
\* compressed and encrypted.  With one API the order is kept; with both, the values are.
\* Excepted are columns with a page beyond the readers' limits (EveryColumnReads).
ReadBack ==
  Expected /\ WithinLimits(out[2]) => out[3].ok /\ AsTold(out[2], out[3].v[1])

\* The limits are there, reader.hpp says, against "malicious or corrupt files", and a file that
\* close() was content with is "a complete, spec-valid Parquet file": no column of it is refused.
EveryColumnReads == Expected => out[3].ok

\* Whole rows keep their cells together, and no row is lost at the border of two groups.
RowsReadBack ==
  out[1] = "rows" /\ phase = "closed" /\ Intact /\ out[2].ok /\ ~Mixed
    => /\ \A c \in Columns(o) : Len(GivenColumn(c)) = s.rows
       /\ out[2].v = [i \in 1 .. s.rows |-> [c \in Columns(o) |-> ToText(o.types[c], GivenColumn(c)[i])]]

\* A damaged page is an error for whoever reads its column and nothing to the others; a
\* damaged encrypted footer never opens.
DamagedIsError ==
  phase = "closed" /\ ~Intact
    => /\ out[1] = "rows" => ~out[2].ok
       /\ out[1] = "columns" /\ out[3].ok => AsTold(out[2], out[3].v[1])

\* A file without a successful close (still being written, a crash, a failed last flush,
\* an exception) is never taken for a whole file.
UnfinishedNeverOpens == rd # <<>> => phase = "closed"

\* What a query prunes with tells the truth about the page it stands for: the chunk's
\* bounds, one entry per page with the bounds of exactly its values, the offset of the
\* data page, and a Bloom filter without false negatives.
IndexDescribesPage ==
  rd # <<>> => \A g \in DOMAIN rd[1].meta.groups : \A c \in Columns(o) :
    LET m == rd[1].meta.groups[g][c]
        values == ReadColumn(rd[1], g, c, s.codecs)
        ci == ReadColumnIndex(rd[1], g, c)
        oi == ReadOffsetIndex(rd[1], g, c)
        t == o.types[c]
        bounds(e) == \A v \in Range(values.v) : Rank(t, e.min) <= Rank(t, v) /\ Rank(t, v) <= Rank(t, e.max)
    IN values.ok /\ Intact =>
         /\ bounds(m) /\ \A v \in Range(values.v) : BloomMightContain(rd[1], g, c, v)
         /\ ci.ok => Len(ci.v.pages) = 1 /\ bounds(ci.v.pages[1])
         /\ oi.ok => Len(oi.v.pages) = 1 /\ oi.v.pages[1].offset = m.data

\* A successful close() leaves a complete file.
ClosedIsComplete == phase = "closed" => OpenReader("buffer", TRUE, o.keyed, disk).ok


-----------------------------------------------------------------------------
(* The instance for TLC. *)

\* Texts of cells: the integer and the number (in tenths) at their front, what they are as a
\* whole, their truth value, length and place in the order of strings.
Text(int, dbl, whole, bool, len, rank) ==
  [int |-> int, dbl |-> dbl, whole |-> whole, bool |-> bool, len |-> len, rank |-> rank]

MCCell ==
  [t \in {"", "1", "1x", "2.5", "true", "zz"} |->
     CASE t = ""     -> Text(<<>>, <<>>, {}, "no", 0, 0)
       [] t = "1"    -> Text(<<1>>, <<10>>, {"int", "double"}, "true", 1, 1)
       [] t = "1x"   -> Text(<<1>>, <<10>>, {}, "no", 2, 2)
       [] t = "2.5"  -> Text(<<2>>, <<25>>, {"double"}, "no", 3, 3)
       [] t = "true" -> Text(<<>>, <<>>, {}, "true", 4, 4)
       [] t = "zz"   -> Text(<<>>, <<>>, {}, "no", 2, 5)]

Plain(types) ==
  [types |-> types, length |-> 2, encoding |-> "PLAIN", codec |-> "UNCOMPRESSED", bloom |-> {},
   pageIndex |-> FALSE, crypt |-> "none", keyed |-> {}, csv |-> FALSE, room |-> 99]

MCConfigs ==
  {Plain(<<"INT64", "FIXED">>), Plain(<<>>),
   [Plain(<<"DOUBLE", "BOOLEAN">>) EXCEPT !.encoding = "auto", !.codec = "auto", !.pageIndex = TRUE],
   [Plain(<<"INT64", "BYTE_ARRAY">>) EXCEPT !.encoding = "DICT", !.codec = "SNAPPY",
                                            !.bloom = {1, 2}, !.pageIndex = TRUE],
   [Plain(<<"INT64", "BOOLEAN">>) EXCEPT !.encoding = "DICT", !.pageIndex = TRUE],
   [Plain(<<"INT64", "DOUBLE">>) EXCEPT !.encoding = "DELTA", !.codec = "ZSTD", !.bloom = {1}],
   [Plain(<<"INT64", "BYTE_ARRAY">>) EXCEPT !.encoding = "DICT", !.crypt = "footer", !.keyed = {2}],
   [Plain(<<"INT64", "BOOLEAN">>) EXCEPT !.encoding = "auto", !.crypt = "signed", !.keyed = {1},
                                         !.codec = "SNAPPY"],
   [Plain(<<"INT64">>) EXCEPT !.csv = TRUE, !.codec = "SNAPPY"],
   [Plain(<<"INT64">>) EXCEPT !.csv = TRUE, !.codec = "ZSTD"],
   [Plain(<<"INT64">>) EXCEPT !.room = 0], [Plain(<<"INT64">>) EXCEPT !.room = 1]}

MCFullDisk == {[Plain(<<"INT64">>) EXCEPT !.room = n] : n \in 1 .. 6}
MCPacked == {[Plain(<<"INT64">>) EXCEPT !.codec = "ZSTD"]}
MCDictionary == {[Plain(<<"INT64", "BYTE_ARRAY">>) EXCEPT !.encoding = "DICT"]}

MCRowsFor(types) ==
  CASE Len(types) = 2 /\ types[2] = "FIXED" -> {<<"1", "zz">>, <<"2.5", "zz">>, <<"zz", "1">>, <<"1">>}
    [] Len(types) = 2 /\ types[2] # "FIXED" -> {<<"1", "zz">>, <<"2.5", "true">>}
    [] Len(types) = 1 -> {<<"1">>, <<"2.5">>}
    [] OTHER -> {<<>>}

MCBatchesFor(type) ==
  CASE type \in {"BYTE_ARRAY", "FIXED"} -> {<<"zz">>, <<"zz", "1">>}
    [] type = "INT64" -> {<<7>>, <<9, -9>>}
    [] type = "DOUBLE" -> {<<3>>}
    [] OTHER -> {<<1>>, <<0, 1>>}

MCCsvInputs ==
  {[width |-> 2, lines |-> l] :
     l \in {<<>>, <<<<>>>>, <<<<"1", "1">>, <<>>, <<"1">>, <<"1", "2.5", "zz">>>>,
            <<<<"", "true">>, <<"zz", "1">>>>, <<<<"2.5", "">>, <<"1", "zz">>, <<"1", "1">>>>,
            <<<<"1x", "true">>, <<"1", "1">>>>, <<<<"2.5", "2.5">>, <<"2.5", "true">>>>}}
=============================================================================
