--------------------------- MODULE ThriftCompact ---------------------------
(***************************************************************************)
(* The Thrift compact protocol of thrift/compact.hpp, byte by byte, and    *)
(* the one pattern that every serialize() and deserialize() pair of        *)
(* thrift/types.hpp and column_index.hpp follows.  A struct is a table of  *)
(* its fields (module ThriftTypes); its value is a function from the ids   *)
(* of the fields that are present.  Integers have I32Bits and I64Bits      *)
(* bits, so that the edges of the ranges are within TLC's integers.        *)
(***************************************************************************)
EXTENDS Integers, Sequences, SequencesExt, TLC

CONSTANTS
  I32Bits, I64Bits,     \* widths of the integers of the model
  MaxDepth,             \* MAX_NESTING_DEPTH
  MaxFieldCount,        \* MAX_FIELD_COUNT
  MaxTotalFields,       \* MAX_TOTAL_FIELDS
  MaxStringBytes,       \* MAX_STRING_BYTES
  MaxCollection         \* MAX_COLLECTION_SIZE

(* namespace compact_type *)
STOP == 0
BOOL_TRUE == 1
BOOL_FALSE == 2
I8 == 3
I16 == 4
I32 == 5
I64 == 6
DOUBLE == 7
BINARY == 8
LIST == 9
SET == 10
MAP == 11
STRUCT == 12

Width(type) == IF type = I64 THEN I64Bits ELSE I32Bits

-----------------------------------------------------------------------------
(* CompactEncoder *)

RECURSIVE Varint(_)
Varint(u) == IF u > 127 THEN <<128 + (u % 128)>> \o Varint(u \div 128) ELSE <<u>>

Zigzag(v) == IF v >= 0 THEN 2 * v ELSE -2 * v - 1

\* write_field: the id as a difference if that fits four bits.
FieldHeader(last, id, type) ==
  IF id - last \in 1 .. 15 THEN <<16 * (id - last) + type>>
  ELSE <<type>> \o Varint(Zigzag(id))

ListHeader(type, n) ==
  IF n <= 14 THEN <<16 * n + type>> ELSE <<240 + type>> \o Varint(n)

Binary(bytes) == Varint(Len(bytes)) \o bytes

-----------------------------------------------------------------------------
(* A struct: its fields in the order in which they are written.  `when` is *)
(* "always", "some" (an std::optional that is set) or "full" (a list that  *)
(* is not empty); `of` is the struct of the field or of its elements.      *)

Field(id, type, when, of) == [id |-> id, type |-> type, when |-> when, of |-> of]

\* checked: deserialize() compares the wire type.  required: the ids it insists
\* on.  union: a later variant replaces an earlier one.  cap: the longest list.
Struct(fields, required, union, checked, cap) ==
  [fields |-> fields, required |-> required, union |-> union,
   checked |-> checked, cap |-> cap]

Present(s, v) == SelectSeq(s.fields, LAMBDA f : f.id \in DOMAIN v)

RECURSIVE Serialize(_, _)
RECURSIVE Payload(_, _, _)

\* What follows the header of a field (or stands for an element of a list).
Payload(type, of, x) ==
  CASE type \in {I32, I64, I16} -> Varint(Zigzag(x))
    [] type = I8     -> <<x % 256>>
    [] type = DOUBLE -> x
    [] type = BINARY -> Binary(x)
    [] type = STRUCT -> Serialize(of, x)
    [] type = BOOL_TRUE -> <<IF x THEN 1 ELSE 0>>       \* write_bool, in a list
    [] type \in {LIST, SET} ->
         ListHeader(of.type, Len(x)) \o FlattenSeq([i \in DOMAIN x |-> Payload(of.type, of.of, x[i])])
    [] type = MAP ->                  \* no struct of the library has one: from the format
         Varint(Len(x)) \o <<16 * of.key + of.type>>
         \o FlattenSeq([i \in DOMAIN x |-> Payload(of.key, of.of, x[i][1])
                                          \o Payload(of.type, of.of, x[i][2])])

Serialize(s, v) ==
  LET fs == Present(s, v)
      Prev(i) == IF i = 1 THEN 0 ELSE fs[i - 1].id
      One(i) == IF fs[i].type = BOOL_TRUE
                THEN FieldHeader(Prev(i), fs[i].id,
                                 IF v[fs[i].id] THEN BOOL_TRUE ELSE BOOL_FALSE)
                ELSE FieldHeader(Prev(i), fs[i].id, fs[i].type)
                     \o Payload(fs[i].type, fs[i].of, v[fs[i].id])
  IN FlattenSeq([i \in DOMAIN fs |-> One(i)]) \o <<STOP>>

-----------------------------------------------------------------------------
(* CompactDecoder: position, error flag, cached bool, stack of last ids and *)
(* the two field counters.                                                  *)

NoBool == <<>>
Decoder == [pos |-> 0, err |-> FALSE, bool |-> NoBool, ids |-> <<0>>, count |-> 0, total |-> 0]

Fail(d) == [d EXCEPT !.err = TRUE]
Result(d, v) == [d |-> d, v |-> v]

\* ensure(n) and the read behind it, of n bytes.
Take(w, d, n) ==
  IF d.err \/ d.pos + n > Len(w) THEN Result(Fail(d), <<>>)
  ELSE Result([d EXCEPT !.pos = @ + n], SubSeq(w, d.pos + 1, d.pos + n))

\* read_varint32 and read_varint64: at most Ceil(bits / 7) bytes, excess bits lost.
RECURSIVE VarintFrom(_, _, _, _, _)
VarintFrom(w, d, bits, shift, acc) ==
  IF shift >= 7 * ((bits + 6) \div 7) \/ d.err \/ d.pos >= Len(w) THEN Result(Fail(d), 0)
  ELSE LET byte == w[d.pos + 1]
           next == [d EXCEPT !.pos = @ + 1]
           sum == (acc + (byte % 128) * 2 ^ shift) % 2 ^ bits
       IN IF byte < 128 THEN Result(next, sum)
          ELSE VarintFrom(w, next, bits, shift + 7, sum)

ReadVarint(w, d, bits) == VarintFrom(w, d, bits, 0, 0)

Unzigzag(u) == IF u % 2 = 0 THEN u \div 2 ELSE -(u \div 2) - 1

ReadInt(w, d, type) ==
  LET r == ReadVarint(w, d, Width(type)) IN Result(r.d, Unzigzag(r.v))

ReadBinary(w, d) ==
  LET r == ReadVarint(w, d, I32Bits) IN
  IF r.v > MaxStringBytes THEN Result(Fail(r.d), <<>>) ELSE Take(w, r.d, r.v)

\* read_bool: the value cached by a header, wherever that header was read.
ReadBool(w, d) ==
  IF d.bool # NoBool THEN Result([d EXCEPT !.bool = NoBool], d.bool[1])
  ELSE LET t == Take(w, d, 1) IN
       Result(t.d, IF t.d.err THEN FALSE ELSE t.v[1] # 0)

NoList == [type |-> 0, n |-> 0]

\* The list whose size r is known; t is its first byte.
ListOfSize(t, r) ==
  IF r.v > MaxCollection THEN Result(Fail(r.d), NoList)
  ELSE Result(r.d, [type |-> t.v[1] % 16, n |-> r.v])

ReadListHeader(w, d) ==
  LET t == Take(w, d, 1) IN
  IF t.d.err THEN Result(t.d, NoList)
  ELSE ListOfSize(t, IF t.v[1] \div 16 = 15 THEN ReadVarint(w, t.d, I32Bits)
                     ELSE Result(t.d, t.v[1] \div 16))

NoField == [id |-> 0, type |-> STOP]

\* The decoder e behind the header of a field, unless there were too many.
Counting(e, id, type) ==
  IF e.count > MaxFieldCount \/ e.total > MaxTotalFields
  THEN Result(Fail(e), NoField)
  ELSE Result(e, [id |-> id, type |-> type])

HeaderAt(d, id, type) ==
  Counting([d EXCEPT !.ids[Len(d.ids)] = id, !.count = @ + 1, !.total = @ + 1,
                     !.bool = CASE type = BOOL_TRUE -> <<TRUE>>
                                [] type = BOOL_FALSE -> <<FALSE>>
                                [] OTHER -> @],
           id, type)

HeaderOf(r, type) == HeaderAt(r.d, r.v, type)

\* Mutant: the end of the data ends the struct without an error.
ReadFieldHeaderAtEnd(w, d) ==
  IF d.pos >= Len(w) \/ w[d.pos + 1] = 0
  THEN Result([d EXCEPT !.pos = @ + 1], NoField)
  ELSE HeaderAt([d EXCEPT !.pos = @ + 1],
                d.ids[Len(d.ids)] + w[d.pos + 1] \div 16, w[d.pos + 1] % 16)

\* read_field_header: an error looks like the end of the struct.
ReadFieldHeader(w, d) ==
  LET t == Take(w, d, 1) IN
  IF t.d.err \/ t.v[1] = 0 THEN Result(t.d, NoField)
  ELSE HeaderOf(IF t.v[1] \div 16 = 0 THEN ReadInt(w, t.d, I32)
                ELSE Result(t.d, Last(t.d.ids) + t.v[1] \div 16),
                t.v[1] % 16)

BeginStruct(d) ==
  IF Len(d.ids) >= MaxDepth THEN Fail(d)
  ELSE [d EXCEPT !.ids = Append(@, 0), !.count = 0]

EndStruct(d) == IF d.ids = <<>> THEN Fail(d) ELSE [d EXCEPT !.ids = Front(@)]

SkipBinary(w, d) == LET r == ReadVarint(w, d, I32Bits) IN Take(w, r.d, r.v).d

\* The types of what follows the header of a list and of a map.
ListTypes(r) == Result(r.d, [i \in 1 .. r.v.n |-> r.v.type])
PairTypes(t, n) == Result(t.d, [i \in 1 .. 2 * n |->
                                  IF i % 2 = 1 THEN t.v[1] \div 16 ELSE t.v[1] % 16])
MapTypes(w, r) ==
  IF r.v = 0 THEN Result(r.d, <<>>)
  ELSE IF r.v > MaxCollection \/ Take(w, r.d, 1).d.err THEN Result(Fail(r.d), <<>>)
  ELSE PairTypes(Take(w, r.d, 1), r.v)

\* skip_field, with the loops over elements, pairs and fields.
RECURSIVE SkipField(_, _, _)
RECURSIVE SkipMany(_, _, _)
RECURSIVE SkipFields(_, _)
RECURSIVE SkipBehind(_, _)
SkipMany(w, d, types) ==
  IF types = <<>> \/ d.err THEN d ELSE SkipMany(w, SkipField(w, d, Head(types)), Tail(types))
SkipFields(w, d) ==
  IF d.err THEN d
  ELSE SkipBehind(w, ReadFieldHeader(w, d))
SkipBehind(w, h) ==
  IF h.v = NoField THEN h.d ELSE SkipFields(w, SkipField(w, h.d, h.v.type))
SkipField(w, d, type) ==
  CASE type \in {BOOL_TRUE, BOOL_FALSE} -> d
    [] type = I8 -> Take(w, d, 1).d
    [] type \in {I16, I32, I64} -> ReadVarint(w, d, Width(type)).d
    [] type = DOUBLE -> Take(w, d, 8).d
    [] type = BINARY -> SkipBinary(w, d)
    [] type \in {LIST, SET, MAP} ->
         LET m == IF type = MAP THEN MapTypes(w, ReadVarint(w, d, I32Bits))
                  ELSE ListTypes(ReadListHeader(w, d))
         IN SkipMany(w, m.d, m.v)
    [] type = STRUCT -> EndStruct(SkipFields(w, BeginStruct(d)))
    [] OTHER -> Fail(d)

-----------------------------------------------------------------------------
(* deserialize(): read headers until STOP, each known field by its type,   *)
(* skip the others, then insist on the required ones.                      *)

TypeMatches(f, type) ==
  type = f.type \/ (f.type = BOOL_TRUE /\ type = BOOL_FALSE)

RECURSIVE ReadValue(_, _, _, _, _)
RECURSIVE ReadElements(_, _, _, _, _, _)
RECURSIVE NextElement(_, _, _, _, _, _)
RECURSIVE ReadFields(_, _, _)
RECURSIVE ReadFrom(_, _, _, _)
RECURSIVE ReadField(_, _, _, _)
RECURSIVE Deserialize(_, _, _)

\* The other elements of a list, behind the element r.
NextElement(w, r, of, n, cap, acc) == ReadElements(w, r.d, of, n - 1, cap, Append(acc, r.v))

ReadElements(w, d, of, n, cap, acc) ==
  IF n = 0 \/ d.err THEN Result(d, acc)
  ELSE NextElement(w, ReadValue(w, d, of.type, of.of, cap), of, n, cap, acc)

ReadByte(t) ==
  Result(t.d, IF t.d.err THEN 0 ELSE IF t.v[1] > 127 THEN t.v[1] - 256 ELSE t.v[1])

Capped(r, cap) == IF r.v.n > cap THEN Result(Fail(r.d), NoList) ELSE r

ReadValue(w, d, type, of, cap) ==
  CASE type = BOOL_TRUE -> ReadBool(w, d)
    [] type = I8 -> ReadByte(Take(w, d, 1))
    [] type \in {I32, I64} -> ReadInt(w, d, type)
    [] type = BINARY -> ReadBinary(w, d)
    [] type = STRUCT -> Deserialize(of, w, d)
    [] type = LIST -> LET r == Capped(ReadListHeader(w, d), cap) IN
                      ReadElements(w, r.d, of, r.v.n, cap, <<>>)

\* A field that was read; in a union it takes the place of the others.
StoreField(s, id, r, acc) == Result(r.d, IF s.union THEN id :> r.v ELSE (id :> r.v) @@ acc)

\* One field of a struct, behind its header h.
ReadField(s, w, h, acc) ==
  LET known == SelectSeq(s.fields, LAMBDA f : f.id = h.v.id) IN
  IF known = <<>> THEN Result(SkipField(w, h.d, h.v.type), acc)
  ELSE IF s.checked /\ ~TypeMatches(known[1], h.v.type) THEN Result(Fail(h.d), acc)
  ELSE StoreField(s, h.v.id, ReadValue(w, h.d, known[1].type, known[1].of, s.cap), acc)

\* The loop over the headers; r holds the fields read so far.
ReadFields(s, w, r) == IF r.d.err THEN r ELSE ReadFrom(s, w, ReadFieldHeader(w, r.d), r.v)
ReadFrom(s, w, h, acc) ==
  IF h.v.type = STOP THEN Result(h.d, acc) ELSE ReadFields(s, w, ReadField(s, w, h, acc))

\* The end of the struct: the required fields are there.
Complete(s, r) ==
  Result(IF s.required \subseteq DOMAIN r.v THEN EndStruct(r.d) ELSE Fail(EndStruct(r.d)), r.v)

Deserialize(s, w, d) == Complete(s, ReadFields(s, w, Result(BeginStruct(d), <<>>)))
=============================================================================
