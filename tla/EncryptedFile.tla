--------------------------- MODULE EncryptedFile ---------------------------
(***************************************************************************)
(* An encrypted file and the keys it depends on: modules are encrypted,    *)
(* keys wrapped by a key service that may restart, regenerate and destroy  *)
(* master keys, blobs are moved or cut on the disk, and a reader with keys *)
(* of its own, or with unwrapped ones, opens the modules.  Besides, one    *)
(* cipher object on its own, and subjects whose keys are shredded.  (The   *)
(* metadata that carries keys from one to the other is KeyMetadata.)       *)
(***************************************************************************)
EXTENDS ModularEncryption

CONSTANTS
  Parts,                \* what a behaviour may be about
  Places,               \* modules of the file
  MaxModules,           \* how many of them are written
  WriterConfigs, ReaderConfigs(_),
  FacadeOptions, ReaderOptions(_), Masters,
  KeyIds, MasterKeys,   \* master keys of the key service
  MaxGenerations,       \* master keys generated in all
  Subjects, Deks, Aads

\* The place of a module of the file: what build_aad is not given is fixed.
ASSUME PlaceAssumption ==
  \A m \in Places :
    /\ m = [type |-> m.type, col |-> m.col, rg |-> m.rg, page |-> m.page]
    /\ m.type \in {"footer", "signed_footer"} => m.col = "" /\ m.rg = 0
    /\ m.type \notin {"data_page", "page_header"} => m.page = 0

\* The configurations a writer can have.
Configs == WriterConfigs \cup {BuildConfig(o, Handle(key)) : o \in FacadeOptions, key \in Masters}

\* A reader's options classify finitely many columns.
ASSUME OptionAssumption ==
  \A c \in Configs : \A o \in ReaderOptions(c) : IsFiniteSet(DOMAIN o.classes)

\* column_keys is a list.
ASSUME ColumnsAssumption ==
  \A c \in WriterConfigs : c.cols \in Seq({c.cols[i] : i \in DOMAIN c.cols})

ASSUME InvocationAssumption == MaxInvocations \in Nat \ {0}

VARIABLES
  part,      \* "file", "keys", "cipher" or "subjects"
  cfg,       \* configuration of the writer, <<>> before it is made
  handle,    \* the writer's KeyHandle when it uses the facade
  disk,      \* place -> blob
  hurt,      \* the disk was changed behind the writer's back
  pairs,     \* what wrap_keys returned, <<>> or <<sequence>>
  reader,    \* configuration of the reader
  rights,    \* the columns it was authorised for, {} for all
  ks,        \* the key service
  made,      \* wrapped keys that must still open: [id, dek, w]
  tally,     \* master keys generated
  cipher,    \* the cipher object
  sealed,    \* the AADs of what it encrypted
  sh,        \* the CryptoShredder
  told,      \* [used, live]: keys that were registered, subjects not shredded since
  out        \* the last answer to a reader

fileVars == <<cfg, handle, disk, hurt, pairs, reader, rights>>
keyVars  == <<ks, made, tally>>
restVars == <<cipher, sealed, sh, told>>
vars == <<part, fileVars, keyVars, restVars, out>>

NoOut == [ok |-> FALSE, v |-> Garbage]

Init ==
  /\ part \in Parts
  /\ cfg = <<>> /\ handle = MovedFrom /\ disk = <<>> /\ hurt = FALSE /\ pairs = <<>>
  /\ reader = <<>> /\ rights = {}
  /\ ks \in IF part = "keys" THEN {OpenStore(<<>>, "pass"), NewHsm} ELSE {NewHsm}
  /\ made = {} /\ tally = 0
  /\ cipher = <<>> /\ sealed = <<>> /\ sh = NewShredder /\ told = [used |-> {}, live |-> {}]
  /\ out = NoOut

-----------------------------------------------------------------------------
(* The key service *)

Idle == ks.writing = <<>>

\* generate_key truncates the file first: what was wrapped under the old master
\* key is lost from here on.
Generate(id) ==
  /\ part = "keys" /\ ks.kind = "local" /\ Idle /\ tally < MaxGenerations
  /\ ks' = OpenKeyFile(ks, id, RawKey(MasterKeys[tally + 1]))
  /\ tally' = tally + 1
  /\ made' = {e \in made : e.id # id}
  /\ UNCHANGED <<part, fileVars, restVars, out>>

Store ==
  /\ ~Idle
  /\ \E taken \in {TRUE} \cup {~DiskFull} : ks' = WriteKeyFile(ks, taken)
  /\ UNCHANGED <<part, fileVars, made, tally, restVars, out>>

Register(id) ==
  /\ part = "keys" /\ ks.kind = "hsm" /\ id \notin DOMAIN ks.keks
  /\ \E key \in {RawKey(id), ShortKey} : ks' = RegisterKek(ks, id, key)
  /\ UNCHANGED <<part, fileVars, made, tally, restVars, out>>

Destroy(id) ==
  /\ ks.kind = "local" /\ Idle /\ HasKey(ks, id)
  /\ ks' = DestroyKey(ks, id)
  /\ made' = {e \in made : e.id # id}
  /\ UNCHANGED <<part, fileVars, tally, restVars, out>>

\* The process ends, perhaps in the middle of store_key, and another one opens
\* the directory, perhaps with another passphrase.
Restart ==
  /\ ks.kind = "local" /\ ks.files # <<>>
  /\ \E pass \in {"pass", "other"} : ks' = OpenStore(ks.files, pass)
  /\ made' = {e \in made : ks'.kek = ks.kek}
  /\ UNCHANGED <<part, fileVars, tally, restVars, out>>

-----------------------------------------------------------------------------
(* The writer *)

Configure ==
  /\ part \in {"file", "keys"} /\ cfg = <<>> /\ ~handle.valid
  /\ \E c \in WriterConfigs : (c.kms <=> part = "keys") /\ cfg' = c
  /\ UNCHANGED <<part, handle, disk, hurt, pairs, reader, rights, keyVars, restVars, out>>

NewHandle ==
  /\ part = "file" /\ cfg = <<>> /\ ~handle.valid
  /\ \E key \in Masters : handle' = Handle(key)
  /\ UNCHANGED <<part, cfg, disk, hurt, pairs, reader, rights, keyVars, restVars, out>>

\* std::move of the handle into another object.
MoveHandle ==
  /\ handle.valid /\ cfg # <<>> /\ disk # <<>>
  /\ handle' = MovedFrom
  /\ UNCHANGED <<part, cfg, disk, hurt, pairs, reader, rights, keyVars, restVars, out>>

ConfigureFacade ==
  /\ part = "file" /\ cfg = <<>> /\ handle.valid
  /\ \E o \in FacadeOptions : cfg' = BuildConfig(o, handle)
  /\ UNCHANGED <<part, handle, disk, hurt, pairs, reader, rights, keyVars, restVars, out>>

\* Every module holds data of its own: its place.
Encrypt(m) ==
  /\ part \in {"file", "keys"} /\ cfg # <<>> /\ reader = <<>> /\ ~hurt
  /\ m \notin DOMAIN disk /\ Cardinality(DOMAIN disk) < MaxModules
  /\ LET a == EncryptModule(cfg, m, m) IN a.ok /\ disk' = Put(disk, m, a.v)
  /\ UNCHANGED <<part, cfg, handle, hurt, pairs, reader, rights, keyVars, restVars, out>>

WrapAll ==
  /\ part = "keys" /\ cfg # <<>> /\ pairs = <<>> /\ Idle
  /\ LET r == WrapKeys(cfg, ks) IN
     /\ r.ok
     /\ pairs' = <<r.v>> /\ ks' = r.ks
     /\ made' = made \cup {[id |-> p.id, dek |-> p.w[1].key, w |-> p.w] : p \in ToSet(r.v)}
  /\ UNCHANGED <<part, cfg, handle, disk, hurt, reader, rights, tally, restVars, out>>

-----------------------------------------------------------------------------
(* The disk *)

Move(m, n) ==
  /\ part = "file" /\ m \in DOMAIN disk /\ m # n /\ reader = <<>> /\ ~hurt
  /\ disk' = Put(disk, n, disk[m])
  /\ hurt' = TRUE
  /\ UNCHANGED <<part, cfg, handle, pairs, reader, rights, keyVars, restVars, out>>

CutBlob(m) ==
  /\ part = "file" /\ m \in DOMAIN disk /\ reader = <<>> /\ ~hurt
  /\ \E where \in {"header", "body"} : disk' = [disk EXCEPT ![m].cut = where]
  /\ hurt' = TRUE
  /\ UNCHANGED <<part, cfg, handle, pairs, reader, rights, keyVars, restVars, out>>

-----------------------------------------------------------------------------
(* The reader *)

OpenReader ==
  /\ part \in {"file", "keys"} /\ reader = <<>> /\ cfg # <<>> /\ (disk # <<>> \/ pairs # <<>>)
  /\ \/ \E c \in ReaderConfigs(cfg) : reader' = c /\ rights' = {}
     \/ \E o \in ReaderOptions(cfg) :
          handle.valid /\ reader' = BuildConfig(o, handle) /\ rights' = o.authorised
  /\ UNCHANGED <<part, cfg, handle, disk, hurt, pairs, keyVars, restVars, out>>

UnwrapAll ==
  /\ reader # <<>> /\ pairs # <<>> /\ Idle
  /\ LET r == UnwrapKeys(reader, ks, pairs[1]) IN
     /\ reader' = r.c /\ ks' = r.ks
     /\ out' = [ok |-> r.ok, v |-> IF r.ok THEN Clear("keys") ELSE Garbage]
  /\ UNCHANGED <<part, cfg, handle, disk, hurt, pairs, rights, made, tally, restVars>>

Decrypt(m) ==
  /\ part \in {"file", "keys"} /\ reader # <<>> /\ m \in DOMAIN disk
  /\ \E a \in DecryptModule(reader, m, disk[m]) :
       out' = IF a.ok THEN [ok |-> TRUE, v |-> a.v, place |-> m] ELSE NoOut
  /\ UNCHANGED <<part, fileVars, keyVars, restVars>>

-----------------------------------------------------------------------------
(* One cipher object, shared by its callers *)

MakeCipher ==
  /\ part = "cipher" /\ cipher = <<>>
  /\ \E alg \in {"GCM", "CTR"} : cipher' = NewCipher(alg, RawKey("k"))
  /\ UNCHANGED <<part, fileVars, keyVars, sealed, sh, told, out>>

\* disk[aad] is the last blob that was encrypted under the AAD.
UseCipher(aad) ==
  /\ part = "cipher" /\ cipher # <<>> /\ cipher.count <= MaxInvocations + 1
  /\ LET r == CipherEncrypt(cipher, aad, aad) IN
     /\ cipher' = r.cipher
     /\ disk' = IF r.answer.ok THEN Put(disk, aad, r.answer.v) ELSE disk
     /\ sealed' = IF r.answer.ok /\ cipher.alg = "GCM" THEN Append(sealed, aad) ELSE sealed
  /\ UNCHANGED <<part, cfg, handle, hurt, pairs, reader, rights, keyVars, sh, told, out>>

\* A reader takes the blob of one AAD for that of another.
OpenSealed(aad, given) ==
  /\ part = "cipher" /\ aad \in DOMAIN disk
  /\ \E a \in CipherDecrypt(cipher, given, disk[aad]) :
       out' = IF a.ok THEN [ok |-> TRUE, v |-> a.v, place |-> given] ELSE NoOut
  /\ UNCHANGED <<part, fileVars, keyVars, restVars>>

-----------------------------------------------------------------------------
(* Subjects; every registration brings a new random key *)

RegisterSubj(s, dek) ==
  /\ part = "subjects" /\ dek \notin told.used
  /\ sh' = RegisterSubject(sh, s, dek)
  /\ told' = [told EXCEPT !.used = @ \cup {dek}]
  /\ UNCHANGED <<part, fileVars, keyVars, cipher, sealed, out>>

EncryptFor(s) ==
  /\ part = "subjects" /\ SubjectKey(sh, s).ok
  /\ disk' = Put(disk, s, GcmEncrypt(SubjectKey(sh, s).v, NoAad, s))
  /\ told' = [told EXCEPT !.live = @ \cup {s}]
  /\ UNCHANGED <<part, cfg, handle, hurt, pairs, reader, rights, keyVars, cipher, sealed, sh, out>>

ShredSubject(s) ==
  /\ part = "subjects"
  /\ sh' = Shred(sh, s)
  /\ told' = [told EXCEPT !.live = @ \ {s}]
  /\ out' = NoOut
  /\ UNCHANGED <<part, fileVars, keyVars, cipher, sealed>>

ReadFor(s) ==
  /\ part = "subjects" /\ s \in DOMAIN disk
  /\ \E a \in IF SubjectKey(sh, s).ok
              THEN GcmDecrypt(SubjectKey(sh, s).v, NoAad, disk[s]) ELSE {NoAnswer} :
       out' = IF a.ok THEN [ok |-> TRUE, v |-> a.v, place |-> s] ELSE NoOut
  /\ UNCHANGED <<part, fileVars, keyVars, restVars>>

-----------------------------------------------------------------------------

Next ==
  \/ \E id \in KeyIds : Generate(id) \/ Register(id) \/ Destroy(id)
  \/ Store \/ Restart
  \/ Configure \/ NewHandle \/ MoveHandle \/ ConfigureFacade
  \/ \E m \in Places : Encrypt(m) \/ CutBlob(m) \/ Decrypt(m)
  \/ \E m, n \in Places : Move(m, n)
  \/ WrapAll \/ OpenReader \/ UnwrapAll
  \/ MakeCipher
  \/ \E a \in Aads : UseCipher(a)
  \/ \E a, b \in Aads : OpenSealed(a, b)
  \/ \E s \in Subjects : EncryptFor(s) \/ ShredSubject(s) \/ ReadFor(s)
  \/ \E s \in Subjects, d \in Deks : RegisterSubj(s, d)

Spec == Init /\ [][Next]_vars

-----------------------------------------------------------------------------
(* Properties *)

Shown == "place" \in DOMAIN out /\ out.ok /\ out.v.form = "plain"

\* encrypt_column_metadata and encrypt_column_meta_header are given no row group:
\* those of two row groups of a column can be exchanged.
SamePlace(m, n) == m = n \/ (m.type \in MetaTypes /\ m.type = n.type /\ m.col = n.col)

\* An authenticated module that a reader opens holds what was encrypted for that
\* very place: a blob moved from another row group, page, column or module, a cut
\* one, and one of a file with another prefix are errors (build_aad in the LEGACY
\* format; AesGcmCipher::decrypt and the tag of AesCtrCipher::decrypt).
PlaceBound ==
  /\ part = "file" /\ Shown =>
       \/ SamePlace(out.v.data, out.place)
       \/ reader.fmt # "LEGACY"
       \/ ModuleKey(reader, out.place) # NoKey /\ ~Authenticated(reader, out.place)
       \/ ModuleKey(cfg, out.v.data) = NoKey
  /\ part = "cipher" /\ Shown => out.v.data = out.place \/ disk[out.v.data].form = "ctr"

\* No key, no data: who holds neither the key of a column nor the master key
\* behind it gets an error or the ciphertext, never what the column holds.  For
\* the facade: a column outside authorised_columns stays closed (build_config).
NoKeyNoData ==
  part \in {"file", "keys"} /\ Shown =>
    \/ ModuleKey(cfg, out.v.data) = NoKey
    \/ /\ ModuleKey(cfg, out.v.data) = ModuleKey(reader, out.place)
       /\ rights = {} \/ out.place.col \in rights \cup {""}

DistinctIds(c) ==
  LET s == KeySlots(c) IN
  \A i, j \in DOMAIN s : i # j /\ Used(s[i]) /\ Used(s[j]) => s[i].id # s[j].id

\* unwrap_keys undoes wrap_keys: when it succeeds on what the writer wrapped, and
\* no two keys share an id, the reader has the writer's key for the footer and for
\* every column.
KeysRestored ==
  part = "keys" /\ out.ok /\ "place" \notin DOMAIN out /\ DistinctIds(cfg)
  => /\ cfg.footerId # NoId => reader.footerKey = cfg.footerKey
     /\ \A m \in Places : ColumnKey(reader, m.col) = ColumnKey(cfg, m.col)
                          \/ ColumnKey(cfg, m.col) \notin {s.key : s \in {t \in ToSet(KeySlots(cfg)) : Used(t)}}

\* A wrapped key opens for as long as its master key is neither regenerated nor
\* destroyed, whatever else is stored and however often the process restarts
\* (store_key, load_key_internal).
WrapSurvives ==
  part = "keys" => \A e \in made : UnwrapKey(ks, e.id, e.w) = Answer(e.dek)

\* Data of a subject that was encrypted before the shredding is never shown after
\* it, even when the subject is registered again (shred, get_key).
ErasedUnreadable ==
  part = "subjects" /\ Shown => out.place \in told.live

\* One cipher object encrypts at most MAX_INVOCATIONS modules, and its owner has
\* been told once before that (AesGcmCipher::encrypt).
InvocationLimit ==
  part = "cipher" /\ cipher # <<>> /\ cipher.alg = "GCM" =>
    /\ Len(sealed) <= MaxInvocations
    /\ Len(sealed) > RotationThreshold <=> cipher.called = 1

\* A key is not used beyond its life: nothing of a subject is shown after its shredding, and a
\* cipher stops at its number of invocations.
KeyLifeEnds == ErasedUnreadable /\ InvocationLimit
=============================================================================
