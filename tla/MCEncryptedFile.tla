-------------------------- MODULE MCEncryptedFile --------------------------
(***************************************************************************)
(* A file with two columns, two row groups and two pages; configurations   *)
(* with own, default, missing and short keys, both AAD formats and both    *)
(* algorithms; readers with the same keys, none, the wrong ones, another   *)
(* prefix.  A behaviour about "metadata" is one of KeyMetadata.            *)
(***************************************************************************)
EXTENDS EncryptedFile, KeyMetadata

MCInit == Init /\ wire = <<>>

MCNext ==
  \/ Next /\ UNCHANGED wire
  \/ part = "metadata" /\ MetadataStep /\ UNCHANGED vars

MCSpec == MCInit /\ [][MCNext]_<<vars, wire>>

\* Who holds the master keys gets the keys of a file back: from wrapped keys, from key files
\* after restarts, and through the metadata that carries them.
KeysSurvive == KeysRestored /\ WrapSurvives /\ MetadataSurvives

Place(type, col, rg, page) == [type |-> type, col |-> col, rg |-> rg, page |-> page]

MCPlaces ==
  {Place("footer", "", 0, 0), Place("signed_footer", "", 0, 0)}
  \cup {Place("data_page", c, r, p) : c \in {"a", "b"}, r \in {0, 1}, p \in {0, 1}}
  \cup {Place("dict_page", "a", r, 0) : r \in {0, 1}}
  \cup {Place("page_header", "a", 0, p) : p \in {0, 1}}
  \cup {Place(t, c, r, 0) : t \in MetaTypes, c \in {"a", "b"}, r \in {0, 1}}

Slot(name, key, id) == [name |-> name, key |-> key, id |-> id]

Own == [alg |-> "GCM", fmt |-> "LEGACY", prefix |-> "f1",
        footerKey |-> RawKey("kf"), footerId |-> NoId,
        cols |-> <<Slot("a", RawKey("ka"), NoId)>>,
        defKey |-> RawKey("kd"), defId |-> NoId,
        mode |-> "INTERNAL", kms |-> FALSE, licensed |-> TRUE]

Wrapped == [Own EXCEPT !.footerId = "m1", !.cols[1].id = "m2",
                       !.mode = "EXTERNAL", !.kms = TRUE]

MCWriterConfigs ==
  {Own, [Own EXCEPT !.alg = "GCM_CTR"], [Own EXCEPT !.fmt = "SPEC_BINARY"],
   [Own EXCEPT !.defKey = NoKey], [Own EXCEPT !.footerKey = ShortKey, !.defKey = ShortKey],
   [Own EXCEPT !.licensed = FALSE], [Own EXCEPT !.cols = <<>>],
   Wrapped, [Wrapped EXCEPT !.footerId = NoId, !.defId = "m1"]}

Stripped(c) ==
  [c EXCEPT !.footerKey = NoKey, !.defKey = NoKey,
            !.cols = [i \in DOMAIN c.cols |-> [c.cols[i] EXCEPT !.key = NoKey]]]

\* The configuration that a reader makes of the key metadata of the columns.
FromMetadata(c) ==
  [c EXCEPT !.cols = [i \in DOMAIN c.cols |->
      Slot(c.cols[i].name, ColumnKeyMetadata(c, c.cols[i].name).material,
           ColumnKeyMetadata(c, c.cols[i].name).id)]]

MCReaderConfigs(c) ==
  IF c.kms THEN {Stripped(c)}
  ELSE {c, Stripped(c), FromMetadata(c), [c EXCEPT !.prefix = "f2"],
        [c EXCEPT !.defKey = RawKey("kx")], [c EXCEPT !.defKey = c.footerKey],
        [c EXCEPT !.licensed = FALSE]}

MCFacadeOptions ==
  {[alg |-> a, prefix |-> "f1", authorised |-> {},
    classes |-> ("a" :> "PII") @@ ("b" :> k)] : a \in {"GCM", "GCM_CTR"}, k \in {"REFERENCE", "HEALTH"}}

MCReaderOptions(c) ==
  {[alg |-> c.alg, prefix |-> "f1", authorised |-> who,
    classes |-> ("a" :> "PII") @@ ("b" :> "HEALTH")] : who \in {{}, {"a"}, {"b"}}}

MCMasters == {RawKey("m"), ShortKey, HandleFromSeed("seed").key}
MCKeyIds == {"m1", "m2"}
MCMasterKeys == <<"g1", "g2", "g3", "g4">>

Bytes(n) == [i \in 1 .. n |-> i]
MCKeyMetas ==
  {[mode |-> INTERNAL, material |-> k, id |-> i] : k \in {<<>>, Bytes(3)}, i \in {<<>>, <<2>>, <<5, 6>>}}
  \cup {[mode |-> EXTERNAL, material |-> <<>>, id |-> i] : i \in {<<>>, <<5, 6>>}}
MCFileProps == [alg : {AES_GCM_V1, AES_GCM_CTR_V1}, footer : BOOLEAN, prefix : {<<>>, <<3>>, <<8, 9>>}]

MCSubjects == {"s1", "s2"}
MCDeks == {RawKey("d1"), RawKey("d2"), RawKey("d3")}
MCAads == {<<>>, <<"x">>, <<"y">>}
=============================================================================
