---------------------------- MODULE ThriftTypes ----------------------------
(***************************************************************************)
(* The structs of thrift/types.hpp and column_index.hpp as tables of their *)
(* fields, in the order in which serialize() writes them.  The struct      *)
(* pattern itself is ThriftCompact!Serialize and Deserialize.              *)
(***************************************************************************)
EXTENDS ThriftCompact

CONSTANT MaxStructList      \* the 10000 of every list in types.hpp

Nothing == {}

Always(id, type) == Field(id, type, "always", Nothing)
Maybe(id, type) == Field(id, type, "some", Nothing)
Sub(id, of) == Field(id, STRUCT, "always", of)
MaybeSub(id, of) == Field(id, STRUCT, "some", of)
Elements(type, of) == [type |-> type, of |-> of]
ListOf(id, type, when, of) == Field(id, LIST, when, Elements(type, of))

Plain(fields) == Struct(fields, {}, FALSE, TRUE, MaxStructList)
Strict(fields, required) == Struct(fields, required, FALSE, TRUE, MaxStructList)
Union(fields) == Struct(fields, {}, TRUE, TRUE, MaxStructList)
Unchecked(fields) == Struct(fields, {}, FALSE, FALSE, MaxCollection)

\* The empty structs that mark a variant of a union.
Empty == Plain(<<>>)

-----------------------------------------------------------------------------
(* Section 1: logical types *)
TimeUnit == Union(<<MaybeSub(1, Empty), MaybeSub(2, Empty), MaybeSub(3, Empty)>>)

IntType == Plain(<<Always(1, I8), Always(2, BOOL_TRUE)>>)

DecimalType == Plain(<<Always(1, I32), Always(2, I32)>>)

TimestampType == Plain(<<Always(1, BOOL_TRUE), Sub(2, TimeUnit)>>)

LogicalTypeUnion ==
  Union(<<MaybeSub(1, Empty), MaybeSub(5, DecimalType), MaybeSub(9, TimestampType),
          MaybeSub(11, IntType), MaybeSub(15, Empty)>>)

(* Section 2: statistics, schema and page headers *)
Statistics ==
  Plain(<<Maybe(1, BINARY), Maybe(2, BINARY), Maybe(3, I64), Maybe(4, I64),
          Maybe(5, BINARY), Maybe(6, BINARY)>>)

KeyValue == Strict(<<Always(1, BINARY), Maybe(2, BINARY)>>, {1})

SchemaElement ==
  Plain(<<Maybe(1, I32), Maybe(2, I32), Maybe(3, I32), Always(4, BINARY), Maybe(5, I32),
          Maybe(6, I32), Maybe(7, I32), Maybe(8, I32), Maybe(9, I32),
          MaybeSub(10, LogicalTypeUnion)>>)

DataPageHeader ==
  Strict(<<Always(1, I32), Always(2, I32), Always(3, I32), Always(4, I32),
           MaybeSub(5, Statistics)>>, 1 .. 4)

DictionaryPageHeader == Plain(<<Always(1, I32), Always(2, I32), Maybe(3, BOOL_TRUE)>>)

DataPageHeaderV2 ==
  Plain(<<Always(1, I32), Always(2, I32), Always(3, I32), Always(4, I32), Always(5, I32),
          Always(6, I32), Maybe(7, BOOL_TRUE)>>)

\* field 6, the index page header, is neither written nor read
PageHeader ==
  Plain(<<Always(1, I32), Always(2, I32), Always(3, I32), Maybe(4, I32),
          MaybeSub(5, DataPageHeader), MaybeSub(7, DictionaryPageHeader),
          MaybeSub(8, DataPageHeaderV2)>>)

(* Section 3: column metadata *)
ColumnMetaDataFields ==
  <<Always(1, I32), ListOf(2, I32, "always", Nothing), ListOf(3, BINARY, "always", Nothing),
    Always(4, I32), Always(5, I64), Always(6, I64), Always(7, I64),
    ListOf(8, STRUCT, "some", KeyValue), Always(9, I64), Maybe(10, I64), Maybe(11, I64),
    MaybeSub(12, Statistics)>>

\* deserialize() insists on every field but the optional ones.
ColumnMetaData == Strict(ColumnMetaDataFields, (1 .. 7) \cup {9})

(* Section 4: encryption *)
AesGcmV1 == Plain(<<Maybe(1, BINARY), Maybe(2, BOOL_TRUE), Maybe(3, BOOL_TRUE)>>)

AesGcmCtrV1 == Plain(<<Maybe(1, BINARY), Maybe(2, BOOL_TRUE), Maybe(3, BOOL_TRUE)>>)

EncryptionAlgorithm == Union(<<MaybeSub(1, AesGcmV1), MaybeSub(2, AesGcmCtrV1)>>)

EncryptionWithColumnKey == Plain(<<ListOf(1, BINARY, "always", Nothing), Maybe(2, BINARY)>>)

ColumnCryptoMetaData == Union(<<MaybeSub(1, Empty), MaybeSub(2, EncryptionWithColumnKey)>>)

FileCryptoMetaData == Plain(<<Sub(1, EncryptionAlgorithm), Maybe(2, BINARY)>>)

(* Section 5: Bloom filter *)
BloomFilterAlgorithm == Union(<<MaybeSub(1, Empty)>>)

BloomFilterHash == Union(<<MaybeSub(1, Empty)>>)

BloomFilterCompression == Union(<<MaybeSub(1, Empty)>>)

BloomFilterHeader ==
  Plain(<<Always(1, I32), Sub(2, BloomFilterAlgorithm), Sub(3, BloomFilterHash),
          Sub(4, BloomFilterCompression)>>)

(* Sections 6 to 8: column chunk, orders, row group, file *)
ColumnChunk ==
  Plain(<<Maybe(1, BINARY), Always(2, I64), MaybeSub(3, ColumnMetaData),
          MaybeSub(4, ColumnCryptoMetaData), Maybe(8, I64), Maybe(9, I32), Maybe(10, I64),
          Maybe(11, I32), Maybe(12, I64), Maybe(13, I32)>>)

ColumnOrder == Union(<<MaybeSub(1, Empty)>>)

SortingColumn == Plain(<<Always(1, I32), Always(2, BOOL_TRUE), Always(3, BOOL_TRUE)>>)

RowGroup ==
  Plain(<<ListOf(1, STRUCT, "always", ColumnChunk), Always(2, I64), Always(3, I64),
          ListOf(4, STRUCT, "full", SortingColumn)>>)

\* The list of key/value pairs may be a hundred times longer than the others.
FileMetaData ==
  Plain(<<Always(1, I32), ListOf(2, STRUCT, "always", SchemaElement), Always(3, I64),
          ListOf(4, STRUCT, "always", RowGroup), ListOf(5, STRUCT, "some", KeyValue),
          Maybe(6, BINARY), ListOf(7, STRUCT, "some", ColumnOrder)>>)

(* column_index.hpp: the wire types are not compared *)
PageLocation == Unchecked(<<Always(1, I64), Always(2, I32), Always(3, I64)>>)

OffsetIndex == Unchecked(<<ListOf(1, STRUCT, "always", PageLocation)>>)

ColumnIndexStruct ==
  Unchecked(<<ListOf(1, BOOL_TRUE, "always", Nothing), ListOf(2, BINARY, "always", Nothing),
              ListOf(3, BINARY, "always", Nothing), Always(4, I32),
              ListOf(5, I64, "full", Nothing)>>)

-----------------------------------------------------------------------------
(* Values to try a struct with: one of each field, then every choice of    *)
(* present fields, then every value of one field.                          *)

Ints(type) == LET top == 2 ^ (Width(type) - 1) IN {0, 63, 64, -65, top - 1, -top}

RECURSIVE Full(_)
One(type, of) ==
  CASE type = BOOL_TRUE -> TRUE
    [] type = I8 -> -3
    [] type \in {I32, I64} -> 65
    [] type = BINARY -> <<7, 255>>
    [] type = STRUCT -> Full(of)
    [] type = LIST -> <<IF of.type = STRUCT THEN Full(of.of) ELSE
                        CASE of.type = BOOL_TRUE -> FALSE
                          [] of.type = BINARY -> <<0>>
                          [] OTHER -> -1>>

Ids(s) == {s.fields[i].id : i \in DOMAIN s.fields}
FieldOf(s, id) == CHOOSE f \in ToSet(s.fields) : f.id = id
Mandatory(s) == {id \in Ids(s) : FieldOf(s, id).when = "always"}

\* Every field set (in a union, the last variant only).
Full(s) ==
  LET ids == IF s.union THEN {id \in Ids(s) : \A j \in Ids(s) : j <= id} ELSE Ids(s)
  IN [id \in ids |-> One(FieldOf(s, id).type, FieldOf(s, id).of)]

Least(s) == [id \in Mandatory(s) |-> One(FieldOf(s, id).type, FieldOf(s, id).of)]

Domain(f) ==
  CASE f.type = BOOL_TRUE -> BOOLEAN
    [] f.type = I8 -> {0, 127, -128}
    [] f.type \in {I32, I64} -> Ints(f.type)
    [] f.type = BINARY -> {<<>>, <<128>>, [i \in 1 .. MaxStringBytes |-> i % 256]}
    [] f.type = STRUCT -> {Full(f.of), Least(f.of)}
                          \cup (IF f.of.union THEN {id :> One(STRUCT, FieldOf(f.of, id).of) :
                                                    id \in Ids(f.of)} ELSE {})
    [] f.type = LIST -> LET x == One(LIST, f.of)[1]
                        IN {[i \in 1 .. n |-> x] : n \in (IF f.when = "full" THEN {} ELSE {0})
                                                         \cup {1, 2, 14, 15}}

Values(s) ==
  LET one(id) == One(FieldOf(s, id).type, FieldOf(s, id).of)
      shapes == IF s.union THEN {{}} \cup {{id} : id \in Ids(s)}
                ELSE {Mandatory(s) \cup P : P \in SUBSET (Ids(s) \ Mandatory(s))}
  IN {[id \in P |-> one(id)] : P \in shapes}
     \cup (IF s.union THEN {} ELSE
           UNION {{[Full(s) EXCEPT ![id] = x] : x \in Domain(FieldOf(s, id))} : id \in Ids(s)})
=============================================================================
