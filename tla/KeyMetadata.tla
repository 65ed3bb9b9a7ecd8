---------------------------- MODULE KeyMetadata ----------------------------
(***************************************************************************)
(* How the encryption metadata of crypto/key_metadata.hpp is written and   *)
(* read back, in Signet's tag-length-value form and in the Thrift form.    *)
(* Strings and keys are sequences of bytes; an empty one is <<>>.  A       *)
(* behaviour writes one value, changes the bytes and reads them back.      *)
(***************************************************************************)
EXTENDS ThriftTypes

CONSTANTS
  MaxTlvLength,         \* MAX_TLV_LENGTH
  MaxMetadataSize,      \* MAX_METADATA_SIZE
  KeyMetas, FileProps   \* metadata values

VARIABLE wire           \* metadata as written: <<>> or <<[job, bytes, whole]>>

Accepted(v) == [ok |-> TRUE, v |-> v]
Refused     == [ok |-> FALSE, v |-> <<>>]

(* KeyMode and EncryptionAlgorithm, by their values *)
INTERNAL == 0
EXTERNAL == 1
AES_GCM_V1 == 0
AES_GCM_CTR_V1 == 1

-----------------------------------------------------------------------------
(* namespace detail::meta *)

LE32(n) == <<n % 256, n \div 256, 0, 0>>
ReadLE(bytes, i) == bytes[i] + 256 * bytes[i + 1]

\* append_tlv
Tlv(tag, bytes) == LE32(tag) \o LE32(Len(bytes)) \o bytes

TlvIfAny(tag, bytes) == IF bytes = <<>> THEN <<>> ELSE Tlv(tag, bytes)

\* read_tlv, at the offset i.
TlvFieldAt(buf, i) ==
  LET n == ReadLE(buf, i + 5) IN
  IF i + 8 > Len(buf) THEN Refused
  ELSE IF n > MaxTlvLength \/ n > Len(buf) - (i + 8) THEN Refused
  ELSE Accepted([tag |-> ReadLE(buf, i + 1), bytes |-> SubSeq(buf, i + 9, i + 8 + n),
                 next |-> i + 8 + n])

\* The loop of deserialize(): every field, or an error for a truncated one.
RECURSIVE TlvFields(_, _)
TlvFields(buf, i) ==
  IF i >= Len(buf) THEN Accepted(<<>>)
  ELSE LET f == TlvFieldAt(buf, i) IN
       IF ~f.ok THEN Refused
       ELSE LET rest == TlvFields(buf, f.v.next) IN
            IF rest.ok THEN Accepted(<<f.v>> \o rest.v) ELSE Refused

Tagged(fields, tag) == SelectSeq(fields, LAMBDA f : f.tag = tag)

\* What the last field with a tag holds, and what stands there without one.
LastOf(fields, tag, default) ==
  LET s == Tagged(fields, tag) IN IF s = <<>> THEN default ELSE Last(s).bytes

\* An enumeration with the values 0 and 1 in an int32 field.
GoodEnum(fields, tag) ==
  \A f \in ToSet(Tagged(fields, tag)) :
    Len(f.bytes) = 4 /\ f.bytes \in {LE32(0), LE32(1)}

-----------------------------------------------------------------------------
(* EncryptionKeyMetadata: [mode, material, id] *)

KeyMetaToTlv(m) ==
  Tlv(1, LE32(m.mode))
  \o (IF m.mode = INTERNAL THEN TlvIfAny(2, m.material) ELSE <<>>)
  \o TlvIfAny(3, m.id)

KeyMetaFromTlv(buf) ==
  LET f == TlvFields(buf, 0) IN
  IF Len(buf) > MaxMetadataSize \/ ~f.ok THEN Refused
  ELSE IF ~GoodEnum(f.v, 1) \/ Tagged(f.v, 1) = <<>> THEN Refused
  ELSE Accepted([mode |-> LastOf(f.v, 1, <<>>)[1],
                 material |-> LastOf(f.v, 2, <<>>), id |-> LastOf(f.v, 3, <<>>)])

(* FileEncryptionProperties: [alg, footer, prefix] *)

PropsToTlv(p) ==
  Tlv(16, LE32(p.alg)) \o Tlv(17, <<IF p.footer THEN 1 ELSE 0>>) \o TlvIfAny(18, p.prefix)

PropsFromTlv(buf) ==
  LET f == TlvFields(buf, 0) IN
  IF Len(buf) > MaxMetadataSize \/ ~f.ok THEN Refused
  ELSE IF ~GoodEnum(f.v, 16) \/ Tagged(f.v, 16) = <<>>
          \/ \E g \in ToSet(Tagged(f.v, 17)) : Len(g.bytes) # 1 THEN Refused
  ELSE Accepted([alg |-> LastOf(f.v, 16, <<>>)[1],
                 footer |-> LastOf(f.v, 17, <<1>>)[1] # 0, prefix |-> LastOf(f.v, 18, <<>>)])

-----------------------------------------------------------------------------
(* namespace detail::thrift_crypto *)

AlgorithmUnion(alg, aes) == (IF alg = AES_GCM_V1 THEN 1 ELSE 2) :> aes
PrefixField(prefix) == IF prefix = <<>> THEN <<>> ELSE 1 :> prefix

LE16(n) == <<n % 256, n \div 256>>
Marked(marker, bytes) == IF bytes = <<>> THEN <<>> ELSE <<marker>> \o LE16(Len(bytes)) \o bytes

KeyMetaStruct == Unchecked(<<Sub(1, EncryptionAlgorithm), Always(2, BINARY)>>)

KeyMetaToThrift(m, alg, prefix) ==
  LET blob == <<m.mode>> \o (IF m.mode = INTERNAL THEN Marked(1, m.material) ELSE <<>>)
              \o Marked(2, m.id)
  IN Serialize(KeyMetaStruct, (1 :> AlgorithmUnion(alg, PrefixField(prefix))) @@ (2 :> blob))

\* The items of the blob behind the mode.  A length that does not fit leaves
\* the item out and goes on behind the length.
RECURSIVE BlobItems(_, _, _)
BlobItems(blob, i, m) ==
  IF i >= Len(blob) THEN m
  ELSE IF blob[i + 1] \notin {1, 2} \/ i + 3 > Len(blob) THEN m
  ELSE LET n == ReadLE(blob, i + 2)
           bytes == SubSeq(blob, i + 4, i + 3 + n)
       IN IF i + 3 + n > Len(blob) THEN BlobItems(blob, i + 3, m)
          ELSE BlobItems(blob, i + 3 + n,
                         IF blob[i + 1] = 1 THEN [m EXCEPT !.material = bytes]
                         ELSE [m EXCEPT !.id = bytes])

KeyMetaDefault == [mode |-> INTERNAL, material |-> <<>>, id |-> <<>>]

\* deserialize_key_metadata: errors of the decoder look like the end of the
\* struct and are not asked for; only a missing blob is refused.
RECURSIVE KeyMetaFields(_, _)
RECURSIVE KeyMetaFrom(_, _, _)

\* Field 2, the blob b.
KeyMetaBlob(b, acc) ==
  Result(b.d, IF b.v = <<>> THEN acc
              ELSE Accepted(BlobItems(b.v, 1, [(IF acc.ok THEN acc.v ELSE KeyMetaDefault)
                                                 EXCEPT !.mode = b.v[1]])))

KeyMetaFields(w, r) == KeyMetaFrom(w, ReadFieldHeader(w, r.d), r.v)
KeyMetaFrom(w, h, acc) ==
  IF h.v.type = STOP THEN acc
  ELSE KeyMetaFields(w, IF h.v.id = 2 THEN KeyMetaBlob(ReadBinary(w, h.d), acc)
                        ELSE Result(SkipField(w, h.d, h.v.type), acc))

KeyMetaFromThrift(w) ==
  IF Len(w) > MaxMetadataSize THEN Refused ELSE KeyMetaFields(w, Result(Decoder, Refused))

PropsStruct == Unchecked(<<Sub(1, EncryptionAlgorithm), Always(3, BOOL_TRUE)>>)

PropsToThrift(p) ==
  LET aes == IF p.prefix = <<>> THEN <<>> ELSE (1 :> p.prefix) @@ (3 :> TRUE)
  IN Serialize(PropsStruct, (1 :> AlgorithmUnion(p.alg, aes)) @@ (3 :> p.footer))

PrefixOf(b, p) == Result(b.d, [p EXCEPT !.prefix = b.v])

\* The prefix in the struct of the algorithm.
RECURSIVE AesFields(_, _)
RECURSIVE AesFrom(_, _, _)
AesFields(w, r) == AesFrom(w, ReadFieldHeader(w, r.d), r.v)
AesFrom(w, h, p) ==
  IF h.v.type = STOP THEN Result(h.d, p)
  ELSE AesFields(w, IF h.v.id = 1 /\ h.v.type = BINARY THEN PrefixOf(ReadBinary(w, h.d), p)
                    ELSE Result(SkipField(w, h.d, h.v.type), p))

\* Field 1: the union with its header h, its struct, and what else the union holds.
AlgorithmRest(w, a) == Result(EndStruct(SkipFields(w, EndStruct(a.d))), Accepted(a.v))
AlgorithmFrom(w, h, acc) ==
  IF h.v.type = STOP THEN Result(EndStruct(h.d), acc)
  ELSE AlgorithmRest(w, AesFields(w, Result(BeginStruct(h.d),
         [acc.v EXCEPT !.alg = IF h.v.id = 1 THEN AES_GCM_V1 ELSE AES_GCM_CTR_V1])))
AlgorithmField(w, d, acc) == AlgorithmFrom(w, ReadFieldHeader(w, BeginStruct(d)), acc)

\* deserialize_file_properties.  r.v.ok says that an algorithm was found.
RECURSIVE PropsFields(_, _)
RECURSIVE PropsFrom(_, _, _)
PropsFields(w, r) == PropsFrom(w, ReadFieldHeader(w, r.d), r.v)
PropsFrom(w, h, acc) ==
  IF h.v.type = STOP THEN acc
  ELSE PropsFields(w, IF h.v.id = 1 THEN AlgorithmField(w, h.d, acc)
                      ELSE IF h.v.id = 3
                           THEN Result(h.d, [acc EXCEPT !.v.footer = h.v.type = BOOL_TRUE])
                      ELSE Result(SkipField(w, h.d, h.v.type), acc))

PropsDefault == [alg |-> AES_GCM_CTR_V1, footer |-> TRUE, prefix |-> <<>>]

PropsFromThrift(w) ==
  LET r == PropsFields(w, Result(Decoder, [ok |-> FALSE, v |-> PropsDefault]))
  IN IF Len(w) > MaxMetadataSize \/ ~r.ok THEN Refused ELSE r

-----------------------------------------------------------------------------
(* Written in one of the two forms, cut at any byte or extended, read back. *)

Written(job) ==
  CASE job.kind = "key" /\ job.form = "TLV" -> KeyMetaToTlv(job.v)
    [] job.kind = "key" /\ job.form = "THRIFT" -> KeyMetaToThrift(job.v, AES_GCM_V1, <<7>>)
    [] job.kind = "props" /\ job.form = "TLV" -> PropsToTlv(job.v)
    [] job.kind = "props" /\ job.form = "THRIFT" -> PropsToThrift(job.v)

ReadBack(job, bytes) ==
  CASE job.kind = "key" /\ job.form = "TLV" -> KeyMetaFromTlv(bytes)
    [] job.kind = "key" /\ job.form = "THRIFT" -> KeyMetaFromThrift(bytes)
    [] job.kind = "props" /\ job.form = "TLV" -> PropsFromTlv(bytes)
    [] job.kind = "props" /\ job.form = "THRIFT" -> PropsFromThrift(bytes)

WriteMetadata ==
  /\ wire = <<>>
  /\ \E form \in {"TLV", "THRIFT"} :
       \E job \in [kind : {"key"}, form : {form}, v : KeyMetas]
                  \cup [kind : {"props"}, form : {form}, v : FileProps] :
         wire' = <<[job |-> job, bytes |-> Written(job), whole |-> TRUE]>>

\* The last bytes are missing, or a newer writer has added a field.
ChangeMetadata ==
  /\ wire # <<>> /\ wire[1].whole
  /\ \/ \E n \in 0 .. Len(wire[1].bytes) - 1 :
          wire' = <<[wire[1] EXCEPT !.bytes = SubSeq(@, 1, n), !.whole = FALSE]>>
     \/ /\ wire[1].job.form = "TLV" /\ Last(wire[1].bytes) # 99
        /\ wire' = <<[wire[1] EXCEPT !.bytes = @ \o Tlv(200, <<99>>)]>>

MetadataStep == WriteMetadata \/ ChangeMetadata

\* Metadata that is whole is read back as it was written, in either format, with
\* or without a field of a newer version; of metadata that is cut every field is
\* as written or absent (deserialize, deserialize_key_metadata,
\* deserialize_file_properties).
MetadataSurvives ==
  wire # <<>> =>
    LET j == wire[1].job
        r == ReadBack(j, wire[1].bytes)
        absent == IF j.kind = "key" THEN KeyMetaDefault ELSE PropsDefault
    IN /\ wire[1].whole => r = Accepted(j.v)
       /\ r.ok => \A f \in DOMAIN r.v : r.v[f] \in {j.v[f], absent[f]}
=============================================================================
