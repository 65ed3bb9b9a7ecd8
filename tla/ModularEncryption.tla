------------------------- MODULE ModularEncryption -------------------------
(***************************************************************************)
(* Parquet modular encryption: the ciphers of crypto/cipher_interface.hpp  *)
(* over AES-GCM and AES-CTR, FileEncryptor and FileDecryptor of            *)
(* crypto/pme.hpp, and the facade of crypto/pme_facade.hpp.                *)
(*                                                                         *)
(* What lies on the disk is a blob [form, key, aad, data, cut].  The       *)
(* arithmetic of AES is left out: a GCM blob opens under its own key and   *)
(* AAD and is an error otherwise, a CTR blob opens under every key but     *)
(* shows its data under its own key only.                                  *)
(***************************************************************************)
EXTENDS KeyStore, SequencesExt

CONSTANTS
  OrdinalSpace,         \* 2^16: ordinals are cut to 16 bits in the binary AAD
  MaxInvocations        \* MAX_INVOCATIONS of one cipher object

Blob(form, key, aad, data) ==
  [form |-> form, key |-> key, aad |-> aad, data |-> data, cut |-> "whole"]

NoAad == <<>>
Clear(data) == Blob("plain", NoKey, NoAad, data)
Garbage == Blob("garbage", NoKey, NoAad, <<>>)

-----------------------------------------------------------------------------
(* AesGcmCipher and AesCtrCipher *)

GcmEncrypt(key, aad, data) == Blob("gcm", key, aad, data)

\* The IV header, then the tag over AAD and ciphertext.
GcmDecrypt(key, aad, b) ==
  IF b.form = "gcm" /\ b.cut = "whole" /\ b.key = key /\ b.aad = aad
  THEN {Answer(Clear(b.data))} ELSE {NoAnswer}

\* With an AAD the CTR blob carries a tag and says so in its first byte.
CtrEncrypt(key, aad, data) == Blob(IF aad = NoAad THEN "ctr" ELSE "tagged", key, aad, data)

\* A blob of another form has a first byte that may or may not be an IV size.
CtrDecrypt(key, aad, b) ==
  CASE b.cut = "header" -> {NoAnswer}
    [] b.cut # "header" /\ b.form = "tagged" ->
         IF aad # NoAad /\ aad = b.aad /\ b.key = key /\ b.cut = "whole"
         THEN {Answer(Clear(b.data))} ELSE {NoAnswer}
    [] b.cut # "header" /\ b.form = "ctr" ->
         {Answer(IF b.key = key /\ b.cut = "whole" THEN Clear(b.data) ELSE Garbage)}
    [] OTHER -> {NoAnswer, Answer(Garbage)}

\* A cipher object is [alg, key, count, called]; only GCM counts.
NewCipher(alg, key) == [alg |-> alg, key |-> key, count |-> 0, called |-> 0]

\* The rotation callback is called once, at half of the limit in this model.
RotationThreshold == MaxInvocations \div 2

CipherEncrypt(c, aad, data) ==
  LET next == [c EXCEPT !.count = @ + 1,
                        !.called = IF c.count = RotationThreshold THEN @ + 1 ELSE @]
  IN IF c.alg = "CTR"
     THEN [answer |-> Answer(CtrEncrypt(c.key, aad, data)), cipher |-> c]
     ELSE IF c.count >= MaxInvocations
     THEN [answer |-> NoAnswer, cipher |-> [c EXCEPT !.count = @ + 1]]
     ELSE [answer |-> Answer(GcmEncrypt(c.key, aad, data)), cipher |-> next]

CipherDecrypt(c, aad, b) ==
  IF c.alg = "GCM" THEN GcmDecrypt(c.key, aad, b) ELSE CtrDecrypt(c.key, aad, b)

-----------------------------------------------------------------------------
(* A module of the file, by its place [type, col, rg, page].  Names of     *)
(* columns hold no colon.                                                  *)

MetaTypes == {"column_meta", "meta_header"}

\* The "extra" of each module: name and ordinals.
ExtraName(m) == IF m.type = "footer" \/ m.type = "signed_footer" THEN <<>> ELSE <<m.col>>
ExtraOrdinals(m) ==
  IF ExtraName(m) = <<>> \/ m.type \in MetaTypes THEN <<>>
  ELSE IF m.type = "dict_page" THEN <<m.rg, 0>> ELSE <<m.rg, m.page>>

ModuleType(m) == IF m.type = "signed_footer" THEN "footer" ELSE m.type

AadRecord(fmt, prefix, m, name, ordinals) ==
  <<[fmt |-> fmt, prefix |-> prefix, type |-> ModuleType(m), name |-> name,
     ordinals |-> ordinals]>>

\* Mutant: the ordinals are left out.
BuildAadNameOnly(c, m) == AadRecord(c.fmt, c.prefix, m, ExtraName(m), <<>>)

\* build_aad.  The binary form takes the ordinals from behind two colons; the
\* ordinal of the column is never given and stays 0.
BuildAad(c, m) ==
  IF c.fmt = "LEGACY" THEN AadRecord(c.fmt, c.prefix, m, ExtraName(m), ExtraOrdinals(m))
  ELSE LET o == IF ExtraOrdinals(m) = <<>> THEN <<0, 0>> ELSE ExtraOrdinals(m) IN
       AadRecord(c.fmt, c.prefix, m, <<>>,
                 IF ExtraName(m) = <<>> THEN <<>>
                 ELSE <<o[1] % OrdinalSpace, 0, o[2] % OrdinalSpace>>)

-----------------------------------------------------------------------------
(* EncryptionConfig c: [alg, fmt, prefix, footerKey, footerId, cols,       *)
(* defKey, defId, mode, kms, licensed]; cols is a sequence of              *)
(* [name, key, id].                                                        *)

\* key_cache_: the last slot with the name, else the default key.
ColumnKey(c, col) ==
  LET mine == {i \in DOMAIN c.cols : c.cols[i].name = col} IN
  IF mine = {} THEN c.defKey ELSE c.cols[CHOOSE i \in mine : \A j \in mine : j <= i].key

ModuleKey(c, m) == IF ExtraName(m) = <<>> THEN c.footerKey ELSE ColumnKey(c, m.col)

\* Pages under AES_GCM_CTR_V1 are encrypted without authentication.
Authenticated(c, m) == ~(m.type \in {"data_page", "dict_page"} /\ c.alg = "GCM_CTR")

SigningKey(c) == Hkdf(c.footerKey, <<c.prefix>>, <<"footer-sign">>)

\* sign_footer and verify_footer_signature: a MAC over AAD and footer.
SignFooter(c, m, data) == Blob("signed", SigningKey(c), BuildAad(c, m), data)
VerifyFooter(c, m, b) ==
  IF b = SignFooter(c, m, b.data) THEN {Answer(Clear(b.data))} ELSE {NoAnswer}

\* encrypt_footer, encrypt_column_page, encrypt_dict_page,
\* encrypt_data_page_header, encrypt_column_metadata, encrypt_column_meta_header.
EncryptModule(c, m, data) ==
  LET key == ModuleKey(c, m) IN
  IF ~c.licensed THEN NoAnswer
  ELSE IF ExtraName(m) # <<>> /\ key = NoKey THEN Answer(Clear(data))
  ELSE IF key.size # 32 THEN NoAnswer
  ELSE IF m.type = "signed_footer"
       THEN Answer(SignFooter(c, m, data))
  ELSE IF Authenticated(c, m) THEN Answer(GcmEncrypt(key, BuildAad(c, m), data))
  ELSE Answer(CtrEncrypt(key, NoAad, data))

\* The decrypting functions.
DecryptModule(c, m, b) ==
  LET key == ModuleKey(c, m) IN
  IF ~c.licensed THEN {NoAnswer}
  ELSE IF ExtraName(m) # <<>> /\ key = NoKey THEN {Answer(b)}
  ELSE IF key.size # 32 THEN {NoAnswer}
  ELSE IF m.type = "signed_footer"
       THEN VerifyFooter(c, m, b)
  ELSE IF Authenticated(c, m) THEN GcmDecrypt(key, BuildAad(c, m), b)
  ELSE CtrDecrypt(key, NoAad, b)

\* column_key_metadata: the first slot with the name, else the default.
ColumnKeyMetadata(c, col) ==
  LET mine == SelectSeq(c.cols, LAMBDA s : s.name = col)
      from == IF mine = <<>> THEN [key |-> c.defKey, id |-> c.defId] ELSE mine[1]
  IN [mode |-> c.mode, material |-> IF c.mode = "INTERNAL" THEN from.key ELSE NoKey,
      id |-> from.id]

-----------------------------------------------------------------------------
(* wrap_keys and unwrap_keys *)

KeySlots(c) ==
  <<[id |-> c.footerId, key |-> c.footerKey]>>
  \o [i \in DOMAIN c.cols |-> [id |-> c.cols[i].id, key |-> c.cols[i].key]]
  \o <<[id |-> c.defId, key |-> c.defKey]>>

Used(s) == s.id # NoId /\ s.key # NoKey

\* A step of either loop: stop at the first key the service refuses.
WrapSlot(acc, s) ==
  LET w == WrapKey(acc.ks, s.id, s.key) IN
  IF ~acc.ok \/ ~Used(s) THEN acc
  ELSE IF ~w.ok THEN [acc EXCEPT !.ok = FALSE]
  ELSE [acc EXCEPT !.ks = AfterUse(@, s.id), !.v = Append(@, [id |-> s.id, w |-> w.v])]

WrapKeys(c, ks) ==
  IF ~c.licensed \/ ~c.kms THEN [ok |-> FALSE, ks |-> ks, v |-> <<>>]
  ELSE LET slots == KeySlots(c)
           after[i \in 0 .. Len(slots)] ==
             IF i = 0 THEN [ok |-> TRUE, ks |-> ks, v |-> <<>>] ELSE WrapSlot(after[i - 1], slots[i])
       IN after[Len(slots)]

\* The footer's slot, else the default slot, else the first column with the id.
AssignKey(c, id, key) ==
  LET at == {i \in DOMAIN c.cols : c.cols[i].id = id} IN
  IF id = c.footerId THEN Answer([c EXCEPT !.footerKey = key])
  ELSE IF id = c.defId THEN Answer([c EXCEPT !.defKey = key])
  ELSE IF at = {} THEN NoAnswer
  ELSE Answer([c EXCEPT !.cols[CHOOSE i \in at : \A j \in at : i <= j].key = key])

UnwrapOne(acc, pair) ==
  LET k == UnwrapKey(acc.ks, pair.id, pair.w)
      a == AssignKey(acc.c, pair.id, k.v)
  IN IF ~acc.ok \/ ~k.ok THEN [acc EXCEPT !.ok = FALSE]
     ELSE [ok |-> a.ok, c |-> IF a.ok THEN a.v ELSE acc.c, ks |-> AfterUse(acc.ks, pair.id)]

UnwrapKeys(c, ks, pairs) ==
  IF ~c.licensed \/ ~c.kms THEN [ok |-> FALSE, c |-> c, ks |-> ks]
  ELSE LET after[i \in 0 .. Len(pairs)] ==
             IF i = 0 THEN [ok |-> TRUE, c |-> c, ks |-> ks] ELSE UnwrapOne(after[i - 1], pairs[i])
       IN after[Len(pairs)]

-----------------------------------------------------------------------------
(* The facade *)

\* KeyHandle: generate(), from_bytes(), from_seed(); a move leaves it invalid.
Handle(key) == [valid |-> key.size = 32, key |-> key]
HandleFromSeed(seed) == Handle(Hkdf(RawKey(seed), <<>>, <<"test-key">>))
MovedFrom == [valid |-> FALSE, key |-> NoKey]

ClassKey(h, col, class) == Hkdf(h.key, <<>>, <<class, col>>)

\* Mutant: the right to a column is not asked for.
BuildConfigForAll(o, h) ==
  LET cols == {c \in DOMAIN o.classes : o.classes[c] # "REFERENCE"}
  IN [alg |-> o.alg, fmt |-> "LEGACY", prefix |-> o.prefix, footerKey |-> h.key,
      footerId |-> NoId, defKey |-> NoKey, defId |-> NoId, mode |-> "INTERNAL",
      kms |-> FALSE, licensed |-> TRUE,
      cols |-> [i \in 1 .. Cardinality(cols) |->
                  [name |-> SetToSeq(cols)[i], id |-> NoId,
                   key |-> ClassKey(h, SetToSeq(cols)[i], o.classes[SetToSeq(cols)[i]])]]]

\* is_authorised: an empty list gives access to all.
IsAuthorised(o, col) == o.authorised = {} \/ col \in o.authorised

\* build_config of the writer (o.authorised = {}) and of the reader; it throws
\* for an invalid handle.
BuildConfig(o, h) ==
  LET cols == SetToSeq({c \in DOMAIN o.classes :
                          o.classes[c] # "REFERENCE" /\ IsAuthorised(o, c)})
  IN [alg |-> o.alg, fmt |-> "LEGACY", prefix |-> o.prefix, footerKey |-> h.key,
      footerId |-> NoId, defKey |-> NoKey, defId |-> NoId, mode |-> "INTERNAL",
      kms |-> FALSE, licensed |-> TRUE,
      cols |-> [i \in DOMAIN cols |->
                  [name |-> cols[i], id |-> NoId,
                   key |-> ClassKey(h, cols[i], o.classes[cols[i]])]]]
=============================================================================
