------------------------------- MODULE Codecs -------------------------------
(***************************************************************************)
(* One conversation between the writing and the reading side of the file   *)
(* format: a job is encoded, the bytes may be cut short or may come from a *)
(* newer writer that knows one more field, and they are decoded.  The      *)
(* pruning structures are built and then queried in the same way.          *)
(***************************************************************************)
EXTENDS ThriftTypes, Encodings, Compression, PagePruning

CONSTANTS
  RleInputs,        \* records [values, width]
  DeltaInputs, DictInputs, SplitInputs, PageInputs,
  IndexInputs,      \* sequences of pages
  Hashes,           \* hashes put into Bloom filters
  ZValues(_)        \* values of a Z-order column of each type

VARIABLES
  job,              \* what is encoded
  stage,            \* "start", "encoded", "cut", "extended", "spoiled" or "decoded"
  wire,             \* the bytes, or the structure that was built
  out               \* what the decoder answered

vars == <<job, stage, wire, out>>

Structs ==
  [TimeUnit |-> TimeUnit, IntType |-> IntType, DecimalType |-> DecimalType,
   TimestampType |-> TimestampType, LogicalTypeUnion |-> LogicalTypeUnion,
   Statistics |-> Statistics, KeyValue |-> KeyValue, SchemaElement |-> SchemaElement,
   DataPageHeader |-> DataPageHeader, DictionaryPageHeader |-> DictionaryPageHeader,
   DataPageHeaderV2 |-> DataPageHeaderV2, PageHeader |-> PageHeader,
   ColumnMetaData |-> ColumnMetaData, AesGcmV1 |-> AesGcmV1, AesGcmCtrV1 |-> AesGcmCtrV1,
   EncryptionAlgorithm |-> EncryptionAlgorithm,
   EncryptionWithColumnKey |-> EncryptionWithColumnKey,
   ColumnCryptoMetaData |-> ColumnCryptoMetaData, FileCryptoMetaData |-> FileCryptoMetaData,
   BloomFilterAlgorithm |-> BloomFilterAlgorithm, BloomFilterHash |-> BloomFilterHash,
   BloomFilterCompression |-> BloomFilterCompression,
   BloomFilterHeader |-> BloomFilterHeader, ColumnChunk |-> ColumnChunk,
   ColumnOrder |-> ColumnOrder, SortingColumn |-> SortingColumn, RowGroup |-> RowGroup,
   FileMetaData |-> FileMetaData, PageLocation |-> PageLocation,
   OffsetIndex |-> OffsetIndex, ColumnIndexStruct |-> ColumnIndexStruct]

Registered == {"SNAPPY", "ZSTD"}

-----------------------------------------------------------------------------
(* Jobs *)

\* The values that an int32 holds.
Narrowed(s) == SelectSeq(s, LAMBDA v : Narrow(v))

ThriftJob == \E name \in DOMAIN Structs : \E v \in Values(Structs[name]) :
               job = [kind |-> "thrift", struct |-> name, v |-> v]
RleJob    == \E i \in RleInputs : job = [kind |-> "rle", values |-> i.values, width |-> i.width]
DeltaJob  == \E s \in DeltaInputs :
               \/ job = [kind |-> "delta", values |-> s]
               \/ job = [kind |-> "delta32", values |-> Narrowed(s)]
DictJob   == \E s \in DictInputs : job = [kind |-> "dict", values |-> s]
SplitJob  == \E s \in SplitInputs : job = [kind |-> "split", values |-> s]
PageJob   == \E s \in PageInputs, c \in {"UNCOMPRESSED", "SNAPPY", "ZSTD", "LZ4"} :
               job = [kind |-> "page", codec |-> c, data |-> s]
IndexJob  == \E s \in IndexInputs : job = [kind |-> "index", pages |-> s]
BloomJob  == \E A, B \in SUBSET Hashes :
               job = [kind |-> "bloom", mine |-> A, theirs |-> B]
ZTypes    == {"INT32", "INT64", "FLOAT", "DOUBLE", "BYTE_ARRAY", "BOOLEAN"}
ZJob      == \E t, u \in ZTypes : \E a, b \in ZValues(t), c, d \in ZValues(u) :
               \/ job = [kind |-> "zorder", types |-> <<t, u>>, r |-> <<a, c>>, s |-> <<b, d>>]
               \/ job = [kind |-> "zorder", types |-> <<t, u, "FLOAT">>,
                         r |-> <<a, c, 9>>, s |-> <<b, d, 9>>]

Init ==
  /\ ThriftJob \/ RleJob \/ DeltaJob \/ DictJob \/ SplitJob \/ PageJob
     \/ IndexJob \/ BloomJob \/ ZJob
  /\ stage = "start" /\ wire = <<>> /\ out = <<>>

-----------------------------------------------------------------------------
(* Encoding *)

EncodeJob(j) ==
  CASE j.kind = "thrift" -> Serialize(Structs[j.struct], j.v)
    [] j.kind = "rle"    -> RleEncodeWithLength(j.values, j.width)
    [] j.kind = "delta"  -> DeltaEncode(j.values)
    [] j.kind = "delta32" -> DeltaEncode32(j.values)
    [] j.kind = "dict"   -> DictEncode(j.values)
    [] j.kind = "split"  -> SplitEncode(j.values, 4)
    [] j.kind = "page"   -> Compress(j.codec, Registered, j.data)
    [] j.kind = "index"  -> BuildColumnIndex(j.pages)
    [] j.kind = "bloom"  -> BloomMerge(FoldSet(LAMBDA h, f : BloomInsert(f, h), {}, j.mine),
                                       FoldSet(LAMBDA h, f : BloomInsert(f, h), {}, j.theirs))
    [] j.kind = "zorder" -> <<ZKey(j.types, j.r), ZKey(j.types, j.s)>>

Encode ==
  /\ stage = "start"
  /\ stage' = "encoded" /\ wire' = EncodeJob(job)
  /\ UNCHANGED <<job, out>>

\* The bytes of a struct, of a compressed page or of a run end early.
Cut ==
  /\ stage = "encoded"
  /\ \/ job.kind = "thrift" /\ job.v = Full(Structs[job.struct])
        /\ \E n \in 0 .. Len(wire) - 1 : wire' = SubSeq(wire, 1, n)
     \/ job.kind = "page" /\ job.codec = "SNAPPY"
        /\ \E n \in 0 .. Len(wire.v) - 1 : wire' = Good(SubSeq(wire.v, 1, n))
  /\ stage' = "cut"
  /\ UNCHANGED <<job, out>>

Inner == Plain(<<Always(1, I64), ListOf(17, BINARY, "always", Nothing)>>)
Flagged == Plain(<<Always(1, BOOL_TRUE), Always(2, I32)>>)

\* A field that this version does not know, with an id above all others; bools says whether it
\* has a bool in a field header or bools as the elements of a list, a set or a map.
Extra(type, of, v, bools) == [field |-> Field(40, type, "always", of), v |-> v, bools |-> bools]
Pairs(key, value) == [key |-> key, type |-> value, of |-> Nothing]

Extras ==
  <<Extra(I8, Nothing, 5, "none"), Extra(I64, Nothing, -300, "none"),
    Extra(DOUBLE, Nothing, Copies(9, 8), "none"), Extra(BINARY, Nothing, <<0, 16>>, "none"),
    Extra(LIST, Elements(I32, Nothing), <<1, -1, 700>>, "none"),
    Extra(LIST, Elements(STRUCT, Inner), Copies(Full(Inner), 16), "none"),
    Extra(SET, Elements(BINARY, Nothing), <<<<7>>, <<>>>>, "none"),
    Extra(MAP, Pairs(I32, BINARY), <<<<9, <<0>>>>, <<-1, <<>>>>>>, "none"),
    Extra(STRUCT, Inner, Full(Inner), "none"),
    Extra(BOOL_TRUE, Nothing, TRUE, "field"), Extra(BOOL_TRUE, Nothing, FALSE, "field"),
    Extra(STRUCT, Flagged, Full(Flagged), "field"),
    Extra(LIST, Elements(BOOL_TRUE, Nothing), <<TRUE, FALSE, TRUE>>, "elements"),
    Extra(SET, Elements(BOOL_TRUE, Nothing), <<TRUE>>, "elements"),
    Extra(MAP, Pairs(I32, BOOL_TRUE), <<<<3, TRUE>>, <<4, FALSE>>>>, "elements")>>

\* Where skip_field goes wrong: it takes no byte for an element that is a bool, and what it leaves
\* pending of a bool that it skipped is taken for the first element of a list of bools behind it.
Spoils(x, behind) ==
  \/ x.bools = "elements"
  \/ x.bools = "field" /\ \E i \in DOMAIN behind : behind[i].type = LIST /\ behind[i].of.type = BOOL_TRUE

\* An unknown field stands before the p-th.
Extend ==
  /\ stage = "encoded" /\ job.kind = "thrift"
  /\ LET s == Structs[job.struct]
         fs == Present(s, job.v) IN
     /\ job.v = Full(s)
     /\ \E i \in DOMAIN Extras, p \in 1 .. Len(fs) + 1 :
          LET x == Extras[i] IN
          /\ wire' = Serialize([s EXCEPT !.fields = InsertAt(fs, p, x.field)], (40 :> x.v) @@ job.v)
          /\ stage' = IF Spoils(x, SubSeq(fs, p, Len(fs))) THEN "spoiled" ELSE "extended"
  /\ UNCHANGED <<job, out>>

-----------------------------------------------------------------------------
(* Decoding *)

DecodeThrift(j, w) ==
  LET r == Deserialize(Structs[j.struct], w, Decoder)
  IN IF r.d.err THEN Bad(<<>>) ELSE Good(r.v)

\* ParquetReader insists on the number of values the header promised.
Counted(values, n) == IF Len(values) = n THEN Good(values) ELSE Bad(values)

DecodeDict(j, e) ==
  LET n == Len(j.values)
      dict == PlainDecode(DictionaryPage(e), 0, Len(e.dict))
  IN DictDecode(dict, IndicesPage(e), n)

DecodeJob(j, w) ==
  CASE j.kind = "thrift" -> DecodeThrift(j, w)
    [] j.kind = "rle"    -> Counted(RleDecodeWithLength(w, j.width, Len(j.values)), Len(j.values))
    [] j.kind = "delta"  -> Counted(DeltaDecode(w, Len(j.values)), Len(j.values))
    [] j.kind = "delta32" -> Counted(DeltaDecode32(w, Len(j.values)), Len(j.values))
    [] j.kind = "dict"   -> DecodeDict(j, w)
    [] j.kind = "split"  -> Counted(SplitDecode(w, Len(j.values), 4), Len(j.values))
    [] j.kind = "page"   -> IF w.ok THEN Decompress(j.codec, Registered, w.v, Len(j.data)) ELSE w
    [] OTHER             -> <<>>      \* the structure itself is queried

Decode ==
  /\ stage \in {"encoded", "cut", "extended", "spoiled"}
  /\ out' = <<stage, DecodeJob(job, wire)>> /\ stage' = "decoded"
  /\ UNCHANGED <<job, wire>>

Next == Encode \/ Cut \/ Extend \/ Decode

Spec == Init /\ [][Next]_vars

-----------------------------------------------------------------------------
(* Properties *)

\* No step between neighbours leaves the range of the integers.
Steps(values) == \A i \in 2 .. Len(values) : InRange(values[i] - values[i - 1])

\* The jobs for which the code promises to give the values back.
Promised(j) ==
  CASE j.kind = "delta" -> Steps(j.values)
    [] j.kind = "dict"  -> ~DictEncode(j.values).full
    [] j.kind = "page"  -> /\ j.codec \in Registered \cup {"UNCOMPRESSED"}
                           /\ j.codec = "ZSTD" => Len(j.data) < MaxRatio * PackedSize
    [] OTHER -> TRUE

Original(j) == CASE j.kind = "thrift" -> j.v [] j.kind = "page" -> j.data [] OTHER -> j.values

\* Every codec gives back exactly what was encoded: the Thrift structs with every
\* combination of optional fields and the ends of the integer ranges, RLE runs of every
\* length around the groups of eight, delta blocks that end in the middle of a miniblock,
\* a dictionary that is not full, Snappy with overlapping copies and long literals.
RoundTrip ==
  stage = "decoded" /\ out[1] = "encoded" /\ job.kind \notin {"index", "bloom", "zorder"}
    => /\ Promised(job) => out[2].ok /\ out[2].v = Original(job)
       /\ job.kind # "dict" => (out[2].ok => out[2].v = Original(job))

\* A Thrift struct or a Snappy page that ends early is an error, whichever byte is the
\* last one: a reader never takes half a footer or half a page for a whole one (nothing
\* at all is the empty page).
CutIsError ==
  stage = "decoded" /\ out[1] = "cut"
    => ~out[2].ok \/ (job.kind = "page" /\ job.data = <<>>)

\* A field of a type and id the reader does not know, before any of the known ones, costs
\* nothing but itself: the known fields come out as they were written (skip_field).  Excepted are
\* the fields that Spoils names, with bools where skip_field does not expect them.
SkipKeepsRest ==
  stage = "decoded" /\ out[1] = "extended" => out[2].ok /\ out[2].v = job.v

\* What compact.hpp says of skip_field, "Used for forward compatibility when encountering unknown
\* field IDs": that holds for every field a newer version may have added.
SkipsEveryField ==
  stage = "decoded" /\ out[1] \in {"extended", "spoiled"} => out[2].ok /\ out[2].v = job.v

Matches(page, lo, hi) ==
  \E i \in DOMAIN page : page[i] \notin {NaN, Null} /\ page[i] \in lo .. hi

\* What lets a reader skip data never hides a match: a page with a value of the queried
\* range passes filter_pages, whatever NaNs and nulls stand beside it, the merged
\* statistics bound it too, and a hash inserted into either of two merged Bloom filters is found.
PruneSound ==
  stage = "decoded" =>
    CASE job.kind = "index" ->
           LET whole == FoldLeft(LAMBDA s, p : MergeStats(s, PageStats(p)), NoStats, job.pages)
           IN \A lo, hi \in -2 .. 2, i \in DOMAIN job.pages :
                Matches(job.pages[i], lo, hi)
                  => /\ i \in FilterPages(wire, <<lo>>, <<hi>>)
                     /\ whole.has /\ whole.min <= hi /\ whole.max >= lo
      [] job.kind = "bloom" -> \A h \in job.mine \cup job.theirs : MightContain(wire, h)
      [] OTHER -> TRUE

\* The order of the values of a column; floats are bit patterns.
NotAbove(type, a, b) ==
  LET number(v, bits) == IF v >= 2 ^ (bits - 1) THEN 2 ^ (bits - 1) - v ELSE v
      char(v, i) == IF i <= Len(v) THEN v[i] + 1 ELSE 0
      differ(i) == char(a, i) # char(b, i) /\ \A k \in 1 .. i - 1 : char(a, k) = char(b, k)
  IN CASE type = "FLOAT"  -> number(a, ColumnBits) < number(b, ColumnBits) \/ a = b
       [] type = "DOUBLE" -> number(a, 2 * ColumnBits) < number(b, 2 * ColumnBits) \/ a = b
       [] type = "BYTE_ARRAY" -> \A i \in 1 .. 4 : differ(i) => char(a, i) < char(b, i)
       [] OTHER -> a <= b

\* A Z-order key grows with every one of its columns: rows that are ordered in all
\* columns, whatever their types, keep their order under ZOrderSorter::sort; and the
\* two-column key gives its columns back.
KeyKeepsOrder ==
  stage = "decoded" /\ job.kind = "zorder" =>
    /\ (\A i \in DOMAIN job.r : NotAbove(job.types[i], job.r[i], job.s[i])) => wire[1] <= wire[2]
    /\ Len(job.r) = 2 =>
         Deinterleave2d(wire[1]) = [x |-> NormalizeColumn(job.types[1], job.r[1]),
                                    y |-> NormalizeColumn(job.types[2], job.r[2])]

\* A reader of Thrift structs and pages takes nothing for what it is not: what is cut is an
\* error, and a field it does not know, other than those of Spoils, costs nothing but itself.
ReaderHonest == CutIsError /\ SkipKeepsRest

\* What is decided from an order of the values is right: pruning hides no match, and a Z-order
\* key grows with its columns.
OrderSound == PruneSound /\ KeyKeepsOrder
=============================================================================
