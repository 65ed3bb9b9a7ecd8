------------------------ MODULE EncryptedFile_proofs ------------------------
(***************************************************************************)
(* Proofs about encrypted files and their keys (EncryptedFile) for every   *)
(* set of modules, every configuration of writer and reader, and any       *)
(* number of subjects, keys and master keys.                               *)
(***************************************************************************)
EXTENDS EncryptedFile, FiniteSetTheorems, SequenceTheorems, WellFoundedInduction, TLAPS

(* What a blob is that the writer made for the place m.                     *)
WrittenBy(c, m, b) ==
  \/ b.form = "plain" /\ ModuleKey(c, m) = NoKey
  \/ /\ b.form = "signed" /\ m.type = "signed_footer"
     /\ b.key = SigningKey(c) /\ b.aad = BuildAad(c, m) /\ c.footerKey.size = 32
  \/ /\ b.form = "gcm" /\ m.type # "signed_footer"
     /\ b.key = ModuleKey(c, m) /\ b.aad = BuildAad(c, m)
  \/ b.form = "ctr" /\ b.key = ModuleKey(c, m)

-----------------------------------------------------------------------------
(* The inductive invariant *)

(* What another part needs is unused in this one.                           *)
PartInv ==
  /\ part \notin {"file", "keys"} =>
       cfg = <<>> /\ reader = <<>> /\ pairs = <<>> /\ handle.valid = FALSE
  /\ part = "file" => pairs = <<>>
  /\ part = "keys" => handle.valid = FALSE /\ rights = {}

IsBlob(b) ==
  b = [form |-> b.form, key |-> b.key, aad |-> b.aad, data |-> b.data, cut |-> b.cut]

(* Every blob of the file was made by the writer for some place, nothing is *)
(* shown before there is a reader, and a reader with limited rights has no  *)
(* key of any other column.                                                 *)
FileInv ==
  part \in {"file", "keys"} =>
    /\ cfg = <<>> => disk = <<>> /\ reader = <<>>
    /\ \A n \in DOMAIN disk :
         /\ IsBlob(disk[n])
         /\ \E m \in Places : WrittenBy(cfg, m, disk[n]) /\ disk[n].data = m
    /\ reader = <<>> => "place" \notin DOMAIN out
    /\ rights # {} =>
         \A n \in Places : n.col \notin rights \cup {""} => ModuleKey(reader, n) = NoKey
    /\ PlaceBound /\ NoKeyNoData

(* The facade's options came from the ones of the writer.                   *)
WriterInv ==
  /\ handle.valid => \E key \in Masters : handle = Handle(key)
  /\ cfg # <<>> => cfg \in Configs

(* What the cipher gives for the AAD x. *)
CipherBlob(x) ==
  IF cipher.alg = "GCM" THEN GcmEncrypt(cipher.key, x, x) ELSE CtrEncrypt(cipher.key, x, x)

(* The cipher's blobs are on the disk; the counters agree with what it did. *)
CipherInv ==
  part = "cipher" =>
    /\ cipher = <<>> => disk = <<>> /\ sealed = <<>> /\ "place" \notin DOMAIN out
    /\ cipher # <<>> =>
         /\ cipher \in [alg : {"GCM", "CTR"}, key : {RawKey("k")}, count : Nat, called : Nat]
         /\ cipher.called = IF cipher.count > RotationThreshold THEN 1 ELSE 0
         /\ \A x \in DOMAIN disk : disk[x] = CipherBlob(x)
         /\ cipher.alg = "GCM" =>
              Len(sealed) = IF cipher.count < MaxInvocations THEN cipher.count ELSE MaxInvocations
    /\ sealed \in Seq(Aads)
    /\ Shown => out.v.data \in DOMAIN disk /\ PlaceBound

(* A subject's data is under its present key only if it is not shredded,    *)
(* for a key is never used again.                                           *)
SubjectInv ==
  part = "subjects" =>
    /\ told = [used |-> told.used, live |-> told.live]
    /\ sh = [keys |-> sh.keys, shredded |-> sh.shredded]
    /\ \A s \in DOMAIN sh.keys : sh.keys[s] \in told.used
    /\ \A s \in DOMAIN disk : IsBlob(disk[s]) /\ disk[s].key \in told.used /\ disk[s].form = "gcm"
    /\ \A s \in DOMAIN disk \cap DOMAIN sh.keys : disk[s].key = sh.keys[s] => s \in told.live
    /\ ErasedUnreadable

IInv == PartInv /\ WriterInv /\ FileInv /\ CipherInv /\ SubjectInv

-----------------------------------------------------------------------------
(* What a reader sees *)

LEMMA Encrypted ==
  ASSUME NEW c, NEW m, EncryptModule(c, m, m).ok
  PROVE  LET b == EncryptModule(c, m, m).v
         IN  /\ WrittenBy(c, m, b) /\ b.data = m
             /\ b = [form |-> b.form, key |-> b.key, aad |-> b.aad, data |-> b.data, cut |-> b.cut]
<1>1. CASE ExtraName(m) # <<>> /\ ModuleKey(c, m) = NoKey
  BY <1>1 DEF EncryptModule, Answer, NoAnswer, Clear, Blob, WrittenBy
<1>2. CASE ~(ExtraName(m) # <<>> /\ ModuleKey(c, m) = NoKey) /\ m.type = "signed_footer"
  <2>1. ModuleKey(c, m) = c.footerKey
    BY <1>2 DEF ModuleKey, ExtraName
  <2> QED BY <1>2, <2>1 DEF EncryptModule, Answer, NoAnswer, SignFooter, Blob, WrittenBy
<1>3. CASE ~(ExtraName(m) # <<>> /\ ModuleKey(c, m) = NoKey) /\ m.type # "signed_footer"
  BY <1>3 DEF EncryptModule, Answer, NoAnswer, GcmEncrypt, CtrEncrypt, Blob, WrittenBy
<1> QED BY <1>1, <1>2, <1>3

(* In the LEGACY format two modules with the same AAD have the same place.  *)
LEMMA SameAad ==
  ASSUME NEW c, NEW r, NEW m \in Places, NEW n \in Places,
         BuildAad(c, m) = BuildAad(r, n), r.fmt = "LEGACY",
         m.type = "signed_footer" <=> n.type = "signed_footer"
  PROVE  SamePlace(m, n)
<1>1. BuildAad(r, n) = AadRecord(r.fmt, r.prefix, n, ExtraName(n), ExtraOrdinals(n))
  BY DEF BuildAad
<1>2. c.fmt = "LEGACY"
  BY <1>1 DEF BuildAad, AadRecord
<1>3. BuildAad(c, m) = AadRecord(c.fmt, c.prefix, m, ExtraName(m), ExtraOrdinals(m))
  BY <1>2 DEF BuildAad
<1>4. ModuleType(m) = ModuleType(n) /\ ExtraName(m) = ExtraName(n) /\ ExtraOrdinals(m) = ExtraOrdinals(n)
  BY <1>1, <1>3 DEF AadRecord
<1>5. m.type = n.type
  BY <1>4 DEF ModuleType
<1>6. CASE m.type \in {"footer", "signed_footer"}
  BY <1>5, <1>6, PlaceAssumption DEF SamePlace
<1>7. CASE m.type \notin {"footer", "signed_footer"}
  <2>1. m.col = n.col
    BY <1>4, <1>5, <1>7 DEF ExtraName
  <2>2. CASE m.type \in MetaTypes
    BY <1>5, <2>1, <2>2 DEF SamePlace
  <2>3. CASE m.type \notin MetaTypes
    <3>1. ExtraName(m) # <<>> /\ ExtraName(n) # <<>>
      BY <1>5, <1>7 DEF ExtraName
    <3>2. m.rg = n.rg /\ m.page = n.page
      BY <1>4, <1>5, <2>3, <3>1, PlaceAssumption DEF ExtraOrdinals
    <3> QED BY <1>5, <2>1, <3>2, PlaceAssumption DEF SamePlace
  <2> QED BY <2>2, <2>3
<1> QED BY <1>6, <1>7

(* What a reader r sees at n of a blob that the writer c made for m.        *)
SeesOwn(c, r, m, n) ==
  /\ ModuleKey(c, m) = NoKey \/ (ModuleKey(c, m) = ModuleKey(r, n) /\ ModuleKey(r, n) # NoKey)
  /\ \/ ModuleKey(c, m) = NoKey
     \/ r.fmt # "LEGACY"
     \/ ~Authenticated(r, n)
     \/ SamePlace(m, n)

LEMMA Opened ==
  ASSUME NEW c, NEW r, NEW m \in Places, NEW n \in Places, NEW b, WrittenBy(c, m, b), b.data = m,
         NEW a, a \in DecryptModule(r, n, b), a.ok, a.v.form = "plain"
  PROVE  a.v.data = m /\ SeesOwn(c, r, m, n)
<1> DEFINE key == ModuleKey(r, n)
<1>1. CASE ExtraName(n) # <<>> /\ key = NoKey
  <2>1. a = Answer(b)
    BY <1>1 DEF DecryptModule, NoAnswer
  <2> QED BY <2>1 DEF WrittenBy, Answer, SeesOwn
<1>2. CASE ~(ExtraName(n) # <<>> /\ key = NoKey) /\ n.type = "signed_footer"
  <2>1. key.size = 32 /\ a \in VerifyFooter(r, n, b)
    BY <1>2 DEF DecryptModule, NoAnswer
  <2>2. b = SignFooter(r, n, b.data) /\ a = Answer(Clear(b.data))
    BY <2>1 DEF VerifyFooter, NoAnswer
  <2>3. b.form = "signed" /\ b.key = SigningKey(r) /\ b.aad = BuildAad(r, n)
    BY <2>2 DEF SignFooter, Blob
  <2>4. m.type = "signed_footer" /\ SigningKey(c) = SigningKey(r) /\ BuildAad(c, m) = BuildAad(r, n)
    BY <2>3 DEF WrittenBy
  <2>5. c.footerKey = r.footerKey
    BY <2>4 DEF SigningKey, Hkdf
  <2>6. ModuleKey(c, m) = c.footerKey /\ ModuleKey(r, n) = r.footerKey
    BY <1>2, <2>4 DEF ModuleKey, ExtraName
  <2>7. ModuleKey(r, n) # NoKey
    BY <2>1 DEF NoKey
  <2>8. a.v.data = m
    BY <2>2 DEF Answer, Clear, Blob
  <2> QED BY <1>2, <2>4, <2>5, <2>6, <2>7, <2>8, SameAad DEF SeesOwn
<1>3. CASE ~(ExtraName(n) # <<>> /\ key = NoKey) /\ n.type # "signed_footer" /\ Authenticated(r, n)
  <2>1. key.size = 32 /\ a \in GcmDecrypt(key, BuildAad(r, n), b)
    BY <1>3 DEF DecryptModule, NoAnswer
  <2>2. b.form = "gcm" /\ b.key = key /\ b.aad = BuildAad(r, n) /\ a = Answer(Clear(b.data))
    BY <2>1 DEF GcmDecrypt, NoAnswer
  <2>3. m.type # "signed_footer" /\ ModuleKey(c, m) = key /\ BuildAad(c, m) = BuildAad(r, n)
    BY <2>2 DEF WrittenBy
  <2>4. key # NoKey
    BY <2>1 DEF NoKey
  <2>5. a.v.data = m
    BY <2>2 DEF Answer, Clear, Blob
  <2> QED BY <1>3, <2>3, <2>4, <2>5, SameAad DEF SeesOwn
<1>4. CASE ~(ExtraName(n) # <<>> /\ key = NoKey) /\ n.type # "signed_footer" /\ ~Authenticated(r, n)
  <2>1. key.size = 32 /\ a \in CtrDecrypt(key, NoAad, b)
    BY <1>4 DEF DecryptModule, NoAnswer
  <2>2. b.form = "ctr" /\ b.key = key /\ a = Answer(Clear(b.data))
    BY <2>1 DEF CtrDecrypt, NoAnswer, Answer, Garbage, Blob, NoAad
  <2>3. ModuleKey(c, m) = key
    BY <2>2 DEF WrittenBy
  <2>4. key # NoKey
    BY <2>1 DEF NoKey
  <2>5. a.v.data = m
    BY <2>2 DEF Answer, Clear, Blob
  <2> QED BY <1>4, <2>3, <2>4, <2>5 DEF SeesOwn
<1> QED BY <1>1, <1>2, <1>3, <1>4

-----------------------------------------------------------------------------
(* Maps and lists *)

LEMMA PutFacts ==
  ASSUME NEW f, NEW k, NEW v
  PROVE  /\ DOMAIN Put(f, k, v) = {k} \cup DOMAIN f
         /\ Put(f, k, v)[k] = v
         /\ \A x \in DOMAIN f : x # k => Put(f, k, v)[x] = f[x]
  BY DEF Put

LEMMA EmptyDomain == DOMAIN <<>> = {}
  OBVIOUS

LEMMA Listed ==
  ASSUME NEW S, IsFiniteSet(S)
  PROVE  SetToSeq(S) \in [1 .. Cardinality(S) -> S]
<1>1. PICK f : f \in Bijection(1 .. Cardinality(S), S)
  BY FS_CardinalityType, Zenon DEF ExistsBijection
<1>2. f \in [1 .. Cardinality(S) -> S] /\ IsInjective(f)
  BY <1>1 DEF Bijection, Injection, IsInjective
<1> QED BY <1>2, Zenon DEF SetToSeq

(* build_config gives a reader no key of a column it has no right to.       *)
LEMMA Unauthorised ==
  ASSUME NEW o, NEW h, IsFiniteSet(DOMAIN o.classes), o.authorised # {},
         NEW n \in Places, n.col \notin o.authorised \cup {""}
  PROVE  ModuleKey(BuildConfig(o, h), n) = NoKey
<1> DEFINE S    == {c \in DOMAIN o.classes : o.classes[c] # "REFERENCE" /\ IsAuthorised(o, c)}
           cols == SetToSeq(S)
           keys == [i \in DOMAIN cols |-> [name |-> cols[i], id |-> NoId,
                                           key |-> ClassKey(h, cols[i], o.classes[cols[i]])]]
           c    == BuildConfig(o, h)
<1>1. cols \in [1 .. Cardinality(S) -> S]
  <2>1. IsFiniteSet(S)
    BY FS_Subset, S \subseteq DOMAIN o.classes, Zenon
  <2> QED BY <2>1, Listed
<1>2. \A i \in DOMAIN cols : cols[i] # n.col
  BY <1>1 DEF IsAuthorised
<1>3. c.cols = keys /\ c.defKey = NoKey
  BY DEF BuildConfig
<1>4. {i \in DOMAIN c.cols : c.cols[i].name = n.col} = {}
  <2>1. DOMAIN keys = DOMAIN cols /\ \A i \in DOMAIN cols : keys[i].name = cols[i]
    OBVIOUS
  <2> HIDE DEF keys, cols, c
  <2> QED BY <1>2, <1>3, <2>1
<1>5. ColumnKey(c, n.col) = NoKey
  BY <1>3, <1>4 DEF ColumnKey
<1>6. ExtraName(n) # <<>>
  BY PlaceAssumption DEF ExtraName
<1> QED BY <1>5, <1>6 DEF ModuleKey

-----------------------------------------------------------------------------
(* What leaves the variables of a part alone keeps its invariant. *)

LEMMA PartSame ==
  ASSUME PartInv, UNCHANGED <<part, cfg, reader, pairs, handle, rights>>
  PROVE  PartInv'
  BY DEF PartInv

LEMMA WriterSame ==
  ASSUME WriterInv, UNCHANGED <<cfg, handle>>
  PROVE  WriterInv'
  BY DEF WriterInv

LEMMA FileSame ==
  ASSUME FileInv, UNCHANGED <<part, cfg, disk, reader, rights, out>>
  PROVE  FileInv'
  BY DEF FileInv, PlaceBound, NoKeyNoData, Shown

LEMMA CipherSame ==
  ASSUME CipherInv, UNCHANGED <<part, cipher, disk, sealed, out>>
  PROVE  CipherInv'
  BY DEF CipherInv, PlaceBound, Shown, CipherBlob

LEMMA SubjectSame ==
  ASSUME SubjectInv, UNCHANGED <<part, sh, told, disk, out>>
  PROVE  SubjectInv'
  BY DEF SubjectInv, ErasedUnreadable, Shown

(* What the key service does touches no other variable. *)
LEMMA KeysInv ==
  ASSUME IInv, UNCHANGED <<part, fileVars, restVars, out>>
  PROVE  IInv'
  BY PartSame, WriterSame, FileSame, CipherSame, SubjectSame DEF IInv, fileVars, restVars

LEMMA InitInv == Init => IInv
<1> SUFFICES ASSUME Init PROVE IInv
  OBVIOUS
<1> USE DEF Init
<1>1. "place" \notin DOMAIN out /\ DOMAIN disk = {}
  BY DEF NoOut
<1>2. ~Shown
  BY <1>1 DEF Shown
<1>3. PartInv /\ WriterInv
  BY DEF PartInv, WriterInv, MovedFrom
<1>4. FileInv
  BY <1>1, <1>2 DEF FileInv, PlaceBound, NoKeyNoData
<1>5. CipherInv
  BY <1>1, <1>2 DEF CipherInv
<1>6. SubjectInv
  BY <1>1, <1>2 DEF SubjectInv, ErasedUnreadable, NewShredder
<1> QED BY <1>3, <1>4, <1>5, <1>6 DEF IInv

-----------------------------------------------------------------------------
(* The writer *)

(* In the parts "file" and "keys" the other two invariants say nothing.     *)
LEMMA FilePart ==
  ASSUME part' \in {"file", "keys"}
  PROVE  CipherInv' /\ SubjectInv'
  BY DEF CipherInv, SubjectInv

LEMMA ConfigureInv == ASSUME IInv, Configure PROVE IInv'
<1> USE DEF Configure, IInv
<1>1. PartInv' /\ CipherInv' /\ SubjectInv'
  BY FilePart DEF PartInv
<1>2. WriterInv'
  BY DEF WriterInv, Configs
<1>3. FileInv'
  <2>1. /\ disk = <<>> /\ reader = <<>> /\ "place" \notin DOMAIN out
        /\ rights # {} => \A n \in Places : n.col \notin rights \cup {""} => ModuleKey(reader, n) = NoKey
    BY DEF FileInv
  <2>2. DOMAIN disk = {}
    BY <2>1, EmptyDomain, Zenon
  <2>3. UNCHANGED <<disk, reader, rights, out>>
    BY DEF keyVars
  <2> QED BY <2>1, <2>2, <2>3 DEF FileInv, PlaceBound, NoKeyNoData, Shown
<1> QED BY <1>1, <1>2, <1>3

LEMMA NewHandleInv == ASSUME IInv, NewHandle PROVE IInv'
<1> USE DEF NewHandle, IInv
<1>1. PartInv' /\ CipherInv' /\ SubjectInv'
  BY FilePart DEF PartInv
<1>2. WriterInv'
  BY DEF WriterInv
<1>3. FileInv'
  BY FileSame DEF keyVars
<1> QED BY <1>1, <1>2, <1>3

LEMMA ConfigureFacadeInv == ASSUME IInv, ConfigureFacade PROVE IInv'
<1> USE DEF ConfigureFacade, IInv
<1>1. PartInv' /\ CipherInv' /\ SubjectInv'
  BY FilePart DEF PartInv
<1>2. WriterInv'
  BY DEF WriterInv, Configs
<1>3. FileInv'
  <2>1. /\ disk = <<>> /\ reader = <<>> /\ "place" \notin DOMAIN out
        /\ rights # {} => \A n \in Places : n.col \notin rights \cup {""} => ModuleKey(reader, n) = NoKey
    BY DEF FileInv
  <2>2. DOMAIN disk = {}
    BY <2>1, EmptyDomain, Zenon
  <2>3. UNCHANGED <<disk, reader, rights, out>>
    BY DEF keyVars
  <2> QED BY <2>1, <2>2, <2>3 DEF FileInv, PlaceBound, NoKeyNoData, Shown
<1> QED BY <1>1, <1>2, <1>3

(* std::move of a handle that only the "file" part makes.                   *)
LEMMA MoveHandleInv == ASSUME IInv, MoveHandle PROVE IInv'
<1> USE DEF MoveHandle, IInv
<1>1. PartInv'
  BY DEF PartInv, MovedFrom
<1>2. WriterInv'
  BY DEF WriterInv, MovedFrom
<1>3. FileInv' /\ CipherInv' /\ SubjectInv'
  BY FileSame, CipherSame, SubjectSame DEF keyVars, restVars
<1> QED BY <1>1, <1>2, <1>3

LEMMA EncryptInv == ASSUME IInv, NEW m \in Places, Encrypt(m) PROVE IInv'
<1> DEFINE b == EncryptModule(cfg, m, m).v
<1>1. /\ part \in {"file", "keys"} /\ reader = <<>> /\ disk' = Put(disk, m, b) /\ cfg # <<>>
      /\ EncryptModule(cfg, m, m).ok
      /\ UNCHANGED <<part, cfg, handle, pairs, reader, rights, out>>
  BY DEF Encrypt
<1>2. WrittenBy(cfg, m, b) /\ b.data = m /\ IsBlob(b)
  BY <1>1, Encrypted DEF IsBlob
<1>3. PartInv' /\ WriterInv' /\ CipherInv' /\ SubjectInv'
  BY <1>1, FilePart, PartSame, WriterSame DEF IInv
<1>4. FileInv'
  <2>1. "place" \notin DOMAIN out
    BY <1>1 DEF IInv, FileInv
  <2>2. ASSUME NEW n \in DOMAIN disk'
        PROVE  IsBlob(disk'[n]) /\ \E p \in Places : WrittenBy(cfg, p, disk'[n]) /\ disk'[n].data = p
    <3> HIDE DEF b
    <3>1. CASE n = m
      BY <1>1, <1>2, <3>1 DEF Put
    <3>2. CASE n # m
      <4>1. n \in DOMAIN disk /\ disk'[n] = disk[n]
        BY <1>1, <3>2 DEF Put
      <4> QED BY <1>1, <4>1 DEF IInv, FileInv
    <3> QED BY <3>1, <3>2
  <2>3. ~Shown'
    BY <1>1, <2>1 DEF Shown
  <2> QED BY <1>1, <2>1, <2>2, <2>3 DEF IInv, FileInv, PlaceBound, NoKeyNoData
<1> QED BY <1>3, <1>4 DEF IInv

-----------------------------------------------------------------------------
(* The disk *)

(* A change of the disk before there is a reader.                           *)
LEMMA DiskInv ==
  ASSUME IInv, part \in {"file", "keys"}, reader = <<>>, cfg # <<>>,
         UNCHANGED <<part, cfg, handle, pairs, reader, rights, out>>,
         \A n \in DOMAIN disk' :
           /\ IsBlob(disk'[n])
           /\ \E p \in Places : WrittenBy(cfg, p, disk'[n]) /\ disk'[n].data = p
  PROVE  IInv'
<1>1. "place" \notin DOMAIN out
  BY DEF IInv, FileInv
<1>2. ~Shown'
  BY <1>1 DEF Shown
<1>3. PartInv' /\ WriterInv' /\ CipherInv' /\ SubjectInv'
  BY FilePart, PartSame, WriterSame DEF IInv
<1>4. FileInv'
  BY <1>1, <1>2 DEF IInv, FileInv, PlaceBound, NoKeyNoData
<1> QED BY <1>3, <1>4 DEF IInv

LEMMA MoveInv == ASSUME IInv, NEW m, NEW n, Move(m, n) PROVE IInv'
<1>1. /\ part \in {"file", "keys"} /\ reader = <<>> /\ m \in DOMAIN disk /\ disk' = Put(disk, n, disk[m])
      /\ UNCHANGED <<part, cfg, handle, pairs, reader, rights, out>>
  BY DEF Move
<1>2. cfg # <<>>
  <2>1. cfg = <<>> => disk = <<>>
    BY <1>1 DEF IInv, FileInv
  <2> QED BY <1>1, <2>1, EmptyDomain, Zenon
<1>3. ASSUME NEW x \in DOMAIN disk'
      PROVE  \E y \in DOMAIN disk : disk'[x] = disk[y]
  BY <1>1 DEF Put
<1>4. \A x \in DOMAIN disk :
        IsBlob(disk[x]) /\ \E p \in Places : WrittenBy(cfg, p, disk[x]) /\ disk[x].data = p
  BY <1>1 DEF IInv, FileInv
<1> QED BY <1>1, <1>2, <1>3, <1>4, DiskInv

LEMMA CutBlobInv == ASSUME IInv, NEW m \in Places, CutBlob(m) PROVE IInv'
<1>1. PICK where : disk' = [disk EXCEPT ![m].cut = where]
  BY DEF CutBlob
<1>2. /\ part \in {"file", "keys"} /\ reader = <<>> /\ m \in DOMAIN disk
      /\ UNCHANGED <<part, cfg, handle, pairs, reader, rights, out>>
  BY DEF CutBlob
<1>3. cfg # <<>>
  <2>1. cfg = <<>> => disk = <<>>
    BY <1>2 DEF IInv, FileInv
  <2> QED BY <1>2, <2>1, EmptyDomain, Zenon
<1>4. \A x \in DOMAIN disk :
        IsBlob(disk[x]) /\ \E p \in Places : WrittenBy(cfg, p, disk[x]) /\ disk[x].data = p
  BY <1>2 DEF IInv, FileInv
<1>5. ASSUME NEW x \in DOMAIN disk'
      PROVE  IsBlob(disk'[x]) /\ \E p \in Places : WrittenBy(cfg, p, disk'[x]) /\ disk'[x].data = p
  <2>1. x \in DOMAIN disk
    BY <1>1, <1>5
  <2>2. CASE x = m
    <3> DEFINE b == disk[m]
    <3>1. disk'[x] = [b EXCEPT !.cut = where] /\ IsBlob(b)
      BY <1>1, <1>2, <1>4, <2>2
    <3>2. /\ disk'[x].form = b.form /\ disk'[x].key = b.key /\ disk'[x].aad = b.aad
          /\ disk'[x].data = b.data /\ IsBlob(disk'[x])
      BY <3>1 DEF IsBlob
    <3>3. PICK p \in Places : WrittenBy(cfg, p, b) /\ b.data = p
      BY <1>2, <1>4
    <3> QED BY <3>2, <3>3 DEF WrittenBy
  <2>3. CASE x # m
    BY <1>1, <1>4, <2>1, <2>3
  <2> QED BY <2>2, <2>3
<1> QED BY <1>2, <1>3, <1>5, DiskInv

-----------------------------------------------------------------------------
(* The key service and the reader *)

LEMMA WrapAllInv == ASSUME IInv, WrapAll PROVE IInv'
<1> USE DEF WrapAll, IInv
<1>1. PartInv' /\ CipherInv' /\ SubjectInv'
  BY FilePart DEF PartInv
<1>2. WriterInv' /\ FileInv'
  BY WriterSame, FileSame DEF restVars
<1> QED BY <1>1, <1>2

LEMMA OpenReaderInv == ASSUME IInv, OpenReader PROVE IInv'
<1>1. /\ part \in {"file", "keys"} /\ reader = <<>> /\ cfg # <<>>
      /\ UNCHANGED <<part, cfg, handle, disk, pairs, out>>
  BY DEF OpenReader, keyVars
<1>2. \/ rights' = {}
      \/ \E o \in ReaderOptions(cfg) :
           handle.valid /\ reader' = BuildConfig(o, handle) /\ rights' = o.authorised
  BY DEF OpenReader
<1>3. PartInv' /\ WriterInv' /\ CipherInv' /\ SubjectInv'
  <2>1. PartInv'
    BY <1>1, <1>2 DEF IInv, PartInv
  <2> QED BY <1>1, <2>1, FilePart, WriterSame DEF IInv
<1>4. FileInv'
  <2>1. "place" \notin DOMAIN out
    BY <1>1 DEF IInv, FileInv
  <2>2. ~Shown'
    BY <1>1, <2>1 DEF Shown
  <2>3. ASSUME rights' # {}, NEW n \in Places, n.col \notin rights' \cup {""}
        PROVE  ModuleKey(reader, n)' = NoKey
    <3>1. PICK o \in ReaderOptions(cfg) : reader' = BuildConfig(o, handle) /\ rights' = o.authorised
      BY <1>2, <2>3
    <3>2. IsFiniteSet(DOMAIN o.classes)
      BY <1>1, OptionAssumption DEF IInv, WriterInv
    <3>3. ModuleKey(BuildConfig(o, handle), n) = NoKey
      BY <2>3, <3>1, <3>2, Unauthorised
    <3>4. ModuleKey(reader', n) = NoKey
      BY <3>1, <3>3
    <3> QED BY <3>4
  <2> QED BY <1>1, <2>1, <2>2, <2>3 DEF IInv, FileInv, PlaceBound, NoKeyNoData
<1> QED BY <1>3, <1>4 DEF IInv

(* unwrap_keys shows no module, and its reader has all rights.              *)
LEMMA UnwrapAllInv == ASSUME IInv, UnwrapAll PROVE IInv'
<1>1. /\ reader # <<>> /\ pairs # <<>>
      /\ UNCHANGED <<part, cfg, handle, disk, pairs, rights>>
  BY DEF UnwrapAll
<1>2. "place" \notin DOMAIN out'
  BY DEF UnwrapAll
<1>3. part = "keys" /\ rights = {}
  BY <1>1 DEF IInv, PartInv
<1>4. PartInv' /\ WriterInv' /\ CipherInv' /\ SubjectInv'
  <2>1. PartInv'
    BY <1>1, <1>3 DEF IInv, PartInv
  <2> QED BY <1>1, <1>3, <2>1, FilePart, WriterSame DEF IInv
<1>5. ~Shown'
  BY <1>2 DEF Shown
<1>6. cfg # <<>>
  BY <1>1, <1>3 DEF IInv, FileInv
<1>7. FileInv'
  BY <1>1, <1>2, <1>3, <1>5, <1>6 DEF IInv, FileInv, PlaceBound, NoKeyNoData
<1> QED BY <1>4, <1>7 DEF IInv

LEMMA DecryptInv == ASSUME IInv, NEW n \in Places, Decrypt(n) PROVE IInv'
<1>1. /\ part \in {"file", "keys"} /\ reader # <<>> /\ n \in DOMAIN disk
      /\ UNCHANGED <<part, cfg, handle, disk, pairs, reader, rights>>
  BY DEF Decrypt, fileVars
<1>2. PICK a \in DecryptModule(reader, n, disk[n]) :
        out' = IF a.ok THEN [ok |-> TRUE, v |-> a.v, place |-> n] ELSE NoOut
  BY DEF Decrypt
<1>3. PartInv' /\ WriterInv' /\ CipherInv' /\ SubjectInv'
  BY <1>1, FilePart, PartSame, WriterSame DEF IInv
<1>4. PICK m \in Places : WrittenBy(cfg, m, disk[n]) /\ disk[n].data = m
  BY <1>1 DEF IInv, FileInv
<1>5. rights # {} /\ n.col \notin rights \cup {""} => ModuleKey(reader, n) = NoKey
  BY <1>1 DEF IInv, FileInv
<1>6. CASE ~Shown'
  <2>1. NoKeyNoData' /\ PlaceBound'
    BY <1>6 DEF NoKeyNoData, PlaceBound
  <2>2. FileInv'
    BY <1>1, <2>1 DEF IInv, FileInv
  <2> QED BY <1>3, <2>2 DEF IInv
<1>7. CASE Shown'
  <2>1. a.ok /\ out' = [ok |-> TRUE, v |-> a.v, place |-> n]
    <3>1. "place" \notin DOMAIN NoOut
      BY DEF NoOut
    <3> QED BY <1>2, <1>7, <3>1 DEF Shown
  <2>2. a.v.form = "plain" /\ out'.v = a.v /\ out'.place = n
    BY <1>7, <2>1 DEF Shown
  <2>3. a.v.data = m /\ SeesOwn(cfg, reader, m, n)
    BY <1>4, <2>1, <2>2, Opened
  <2>4. NoKeyNoData'
    BY <1>1, <1>5, <2>2, <2>3 DEF NoKeyNoData, SeesOwn
  <2>5. PlaceBound'
    BY <1>1, <2>2, <2>3 DEF PlaceBound, SeesOwn
  <2>6. FileInv'
    BY <1>1, <2>4, <2>5 DEF IInv, FileInv
  <2> QED BY <1>3, <2>6 DEF IInv
<1> QED BY <1>3, <1>6, <1>7 DEF IInv

-----------------------------------------------------------------------------
(* The cipher *)

LEMMA CipherPart ==
  ASSUME part' = "cipher"
  PROVE  FileInv' /\ SubjectInv'
  BY DEF FileInv, SubjectInv

LEMMA ThresholdBelow == RotationThreshold \in Nat /\ RotationThreshold < MaxInvocations
  BY InvocationAssumption DEF RotationThreshold

LEMMA MakeCipherInv == ASSUME IInv, MakeCipher PROVE IInv'
<1>1. /\ part = "cipher" /\ cipher = <<>>
      /\ UNCHANGED <<part, cfg, handle, disk, pairs, reader, rights, sealed, out>>
  BY DEF MakeCipher, fileVars
<1>2. PICK alg \in {"GCM", "CTR"} : cipher' = NewCipher(alg, RawKey("k"))
  BY DEF MakeCipher
<1>3. PartInv' /\ WriterInv' /\ FileInv' /\ SubjectInv'
  BY <1>1, CipherPart, PartSame, WriterSame DEF IInv
<1>4. disk = <<>> /\ sealed = <<>> /\ "place" \notin DOMAIN out /\ sealed \in Seq(Aads)
  BY <1>1 DEF IInv, CipherInv
<1>5. DOMAIN disk = {} /\ Len(sealed) = 0
  BY <1>4, EmptyDomain
<1>6. ~Shown'
  BY <1>1, <1>4 DEF Shown
<1>7. /\ cipher' \in [alg : {"GCM", "CTR"}, key : {RawKey("k")}, count : Nat, called : Nat]
      /\ cipher'.count = 0 /\ cipher'.called = 0
  BY <1>2 DEF NewCipher
<1>8. CipherInv'
  BY <1>1, <1>4, <1>5, <1>6, <1>7, ThresholdBelow, InvocationAssumption DEF CipherInv
<1> QED BY <1>3, <1>8 DEF IInv

LEMMA UseCipherInv == ASSUME IInv, NEW aad \in Aads, UseCipher(aad) PROVE IInv'
<1> DEFINE r == CipherEncrypt(cipher, aad, aad)
<1>1. /\ part = "cipher" /\ cipher # <<>> /\ cipher' = r.cipher
      /\ disk' = IF r.answer.ok THEN Put(disk, aad, r.answer.v) ELSE disk
      /\ sealed' = IF r.answer.ok /\ cipher.alg = "GCM" THEN Append(sealed, aad) ELSE sealed
      /\ UNCHANGED <<part, cfg, handle, pairs, reader, rights, out>>
  BY DEF UseCipher
<1>2. PartInv' /\ WriterInv' /\ FileInv' /\ SubjectInv'
  BY <1>1, CipherPart, PartSame, WriterSame DEF IInv
<1>3. /\ cipher \in [alg : {"GCM", "CTR"}, key : {RawKey("k")}, count : Nat, called : Nat]
      /\ cipher.called = IF cipher.count > RotationThreshold THEN 1 ELSE 0
      /\ \A x \in DOMAIN disk : disk[x] = CipherBlob(x)
      /\ cipher.alg = "GCM" =>
           Len(sealed) = IF cipher.count < MaxInvocations THEN cipher.count ELSE MaxInvocations
      /\ sealed \in Seq(Aads)
      /\ Shown => out.v.data \in DOMAIN disk /\ PlaceBound
  BY <1>1 DEF IInv, CipherInv
<1>4. r.answer.ok => r.answer.v = CipherBlob(aad)
  BY <1>3 DEF CipherEncrypt, CipherBlob, Answer, NoAnswer
<1>5. /\ cipher' \in [alg : {"GCM", "CTR"}, key : {RawKey("k")}, count : Nat, called : Nat]
      /\ cipher'.alg = cipher.alg /\ cipher'.key = cipher.key
      /\ cipher'.called = IF cipher'.count > RotationThreshold THEN 1 ELSE 0
  <2>1. CASE cipher.alg = "CTR"
    BY <1>1, <1>3, <2>1 DEF CipherEncrypt
  <2>2. CASE cipher.alg = "GCM" /\ cipher.count >= MaxInvocations
    <3>1. cipher' = [cipher EXCEPT !.count = @ + 1]
      BY <1>1, <2>2 DEF CipherEncrypt
    <3> QED BY <1>3, <2>2, <3>1, ThresholdBelow, InvocationAssumption
  <2>3. CASE cipher.alg = "GCM" /\ ~(cipher.count >= MaxInvocations)
    <3>1. cipher' = [cipher EXCEPT !.count = @ + 1,
                                   !.called = IF cipher.count = RotationThreshold THEN @ + 1 ELSE @]
      BY <1>1, <2>3 DEF CipherEncrypt
    <3>2. /\ cipher'.alg = cipher.alg /\ cipher'.key = cipher.key
          /\ cipher'.count = cipher.count + 1 /\ cipher'.count \in Nat
          /\ cipher'.called = IF cipher.count = RotationThreshold THEN cipher.called + 1 ELSE cipher.called
          /\ DOMAIN cipher' = {"alg", "key", "count", "called"}
      BY <1>3, <3>1
    <3>3. cipher'.called = IF cipher'.count > RotationThreshold THEN 1 ELSE 0
      BY <1>3, <3>2, ThresholdBelow
    <3>4. cipher' \in [alg : {"GCM", "CTR"}, key : {RawKey("k")}, count : Nat, called : Nat]
      <4>1. cipher'.alg \in {"GCM", "CTR"} /\ cipher'.key \in {RawKey("k")} /\ cipher'.called \in Nat
        BY <1>3, <3>2, <3>3
      <4>2. cipher' = [alg |-> cipher'.alg, key |-> cipher'.key,
                       count |-> cipher'.count, called |-> cipher'.called]
        BY <1>3, <3>1, <3>2
      <4> QED BY <3>2, <4>1, <4>2
    <3> QED BY <3>2, <3>3, <3>4
  <2> QED BY <1>3, <2>1, <2>2, <2>3
<1>6. /\ sealed' \in Seq(Aads)
      /\ cipher.alg = "GCM" =>
           Len(sealed') = IF cipher'.count < MaxInvocations THEN cipher'.count ELSE MaxInvocations
  BY <1>1, <1>3, InvocationAssumption DEF CipherEncrypt, Answer, NoAnswer
<1>7. \A x : CipherBlob(x)' = CipherBlob(x)
  BY <1>5 DEF CipherBlob
<1>8. /\ DOMAIN disk \subseteq DOMAIN disk'
      /\ \A x \in DOMAIN disk' : disk'[x] = CipherBlob(x)
  <2>1. CASE r.answer.ok
    <3> HIDE DEF r
    <3> QED BY <1>1, <1>3, <1>4, <2>1 DEF Put
  <2>2. CASE ~r.answer.ok
    <3> HIDE DEF r
    <3> QED BY <1>1, <1>3, <2>2
  <2> QED BY <2>1, <2>2
<1>9. Shown' => out'.v.data \in DOMAIN disk' /\ PlaceBound'
  <2> SUFFICES ASSUME Shown' PROVE out'.v.data \in DOMAIN disk' /\ PlaceBound'
    OBVIOUS
  <2>1. Shown
    BY <1>1 DEF Shown
  <2>2. /\ out.v.data \in DOMAIN disk
        /\ out.v.data = out.place \/ disk[out.v.data].form = "ctr"
    BY <1>1, <1>3, <2>1 DEF PlaceBound
  <2>3. disk'[out.v.data] = disk[out.v.data]
    BY <1>3, <1>8, <2>2
  <2> QED BY <1>1, <1>8, <2>2, <2>3 DEF PlaceBound
<1>10. CipherInv'
  <2>1. cipher' # <<>>
    BY <1>5, EmptyDomain
  <2> QED BY <1>1, <1>5, <1>6, <1>7, <1>8, <1>9, <2>1 DEF CipherInv
<1> QED BY <1>2, <1>10 DEF IInv

LEMMA GcmOpens ==
  ASSUME NEW key, NEW given, NEW b, NEW a, a \in GcmDecrypt(key, given, b), a.ok
  PROVE  b.key = key /\ b.aad = given /\ a = Answer(Clear(b.data))
<1>1. CASE b.form = "gcm" /\ b.cut = "whole" /\ b.key = key /\ b.aad = given
  BY <1>1 DEF GcmDecrypt
<1>2. CASE ~(b.form = "gcm" /\ b.cut = "whole" /\ b.key = key /\ b.aad = given)
  <2>1. a = NoAnswer
    BY <1>2 DEF GcmDecrypt
  <2>2. NoAnswer.ok = FALSE
    BY DEF NoAnswer
  <2> QED BY <2>1, <2>2
<1> QED BY <1>1, <1>2

LEMMA CtrOpens ==
  ASSUME NEW key, NEW given, NEW b, NEW a, a \in CtrDecrypt(key, given, b), a.ok,
         b.form \in {"ctr", "tagged"}, b.cut = "whole", b.key = key
  PROVE  a = Answer(Clear(b.data)) /\ (b.form = "ctr" \/ b.aad = given)
<1>1. CASE b.form = "ctr"
  BY <1>1 DEF CtrDecrypt
<1>2. CASE b.form = "tagged"
  <2>1. CASE given # NoAad /\ given = b.aad
    BY <1>2, <2>1 DEF CtrDecrypt
  <2>2. CASE ~(given # NoAad /\ given = b.aad)
    <3>1. a = NoAnswer
      BY <1>2, <2>2 DEF CtrDecrypt
    <3>2. NoAnswer.ok = FALSE
      BY DEF NoAnswer
    <3> QED BY <3>1, <3>2
  <2> QED BY <2>1, <2>2
<1> QED BY <1>1, <1>2

LEMMA OpenSealedInv == ASSUME IInv, NEW aad, NEW given, OpenSealed(aad, given) PROVE IInv'
<1>1. /\ part = "cipher" /\ aad \in DOMAIN disk
      /\ UNCHANGED <<part, cfg, handle, disk, pairs, reader, rights, cipher, sealed>>
  BY DEF OpenSealed, fileVars, restVars
<1>2. PICK a \in CipherDecrypt(cipher, given, disk[aad]) :
        out' = IF a.ok THEN [ok |-> TRUE, v |-> a.v, place |-> given] ELSE NoOut
  BY DEF OpenSealed
<1>3. PartInv' /\ WriterInv' /\ FileInv' /\ SubjectInv'
  BY <1>1, CipherPart, PartSame, WriterSame DEF IInv
<1>4. /\ cipher # <<>> /\ sealed \in Seq(Aads) /\ disk[aad] = CipherBlob(aad)
      /\ cipher \in [alg : {"GCM", "CTR"}, key : {RawKey("k")}, count : Nat, called : Nat]
  <2>1. cipher # <<>>
    BY <1>1, EmptyDomain, Zenon DEF IInv, CipherInv
  <2> QED BY <1>1, <2>1 DEF IInv, CipherInv
<1>5. ASSUME Shown' PROVE out'.v.data \in DOMAIN disk' /\ PlaceBound'
  <2>1. a.ok /\ out' = [ok |-> TRUE, v |-> a.v, place |-> given]
    <3>1. "place" \notin DOMAIN NoOut
      BY DEF NoOut
    <3> QED BY <1>2, <1>5, <3>1 DEF Shown
  <2>2. a.v.form = "plain" /\ out'.v = a.v /\ out'.place = given
    BY <1>5, <2>1 DEF Shown
  <2>3. a.v.data = aad /\ (aad = given \/ disk[aad].form = "ctr")
    <3> DEFINE b == disk[aad]
    <3>1. CASE cipher.alg = "GCM"
      <4>1. a \in GcmDecrypt(cipher.key, given, b) /\ b = GcmEncrypt(cipher.key, aad, aad)
        BY <1>2, <1>4, <3>1 DEF CipherBlob, CipherDecrypt
      <4>2. b.aad = given /\ a = Answer(Clear(b.data))
        BY <2>1, <4>1, GcmOpens
      <4>3. b.aad = aad /\ b.data = aad
        BY <4>1 DEF GcmEncrypt, Blob
      <4> QED BY <4>2, <4>3 DEF Blob, Answer, Clear
    <3>2. CASE cipher.alg # "GCM"
      <4>1. a \in CtrDecrypt(cipher.key, given, b) /\ b = CtrEncrypt(cipher.key, aad, aad)
        BY <1>2, <1>4, <3>2 DEF CipherBlob, CipherDecrypt
      <4>2. /\ b.form \in {"ctr", "tagged"} /\ b.cut = "whole" /\ b.data = aad /\ b.aad = aad
            /\ b.key = cipher.key
        BY <4>1 DEF CtrEncrypt, Blob
      <4>3. /\ a = Answer(Clear(b.data)) /\ (b.form = "ctr" \/ b.aad = given)
        BY <2>1, <4>1, <4>2, CtrOpens
      <4> QED BY <4>2, <4>3 DEF Blob, Answer, Clear
    <3> QED BY <3>1, <3>2
  <2> QED BY <1>1, <2>2, <2>3 DEF PlaceBound
<1>6. CipherInv'
  BY <1>1, <1>4, <1>5 DEF IInv, CipherInv, CipherBlob
<1> QED BY <1>3, <1>6 DEF IInv

-----------------------------------------------------------------------------
(* The subjects *)

LEMMA SubjectPart ==
  ASSUME part' = "subjects"
  PROVE  FileInv' /\ CipherInv'
  BY DEF FileInv, CipherInv

LEMMA RegisterSubjInv == ASSUME IInv, NEW s, NEW dek, RegisterSubj(s, dek) PROVE IInv'
<1>1. /\ part = "subjects" /\ dek \notin told.used
      /\ sh' = RegisterSubject(sh, s, dek) /\ told' = [told EXCEPT !.used = @ \cup {dek}]
      /\ UNCHANGED <<part, cfg, handle, disk, pairs, reader, rights, out>>
  BY DEF RegisterSubj, fileVars
<1>2. PartInv' /\ WriterInv' /\ FileInv' /\ CipherInv'
  BY <1>1, SubjectPart, PartSame, WriterSame DEF IInv
<1>3. /\ told = [used |-> told.used, live |-> told.live]
      /\ sh = [keys |-> sh.keys, shredded |-> sh.shredded]
      /\ \A t \in DOMAIN sh.keys : sh.keys[t] \in told.used
      /\ \A t \in DOMAIN disk : IsBlob(disk[t]) /\ disk[t].key \in told.used /\ disk[t].form = "gcm"
      /\ \A t \in DOMAIN disk \cap DOMAIN sh.keys : disk[t].key = sh.keys[t] => t \in told.live
      /\ ErasedUnreadable
  BY <1>1 DEF IInv, SubjectInv
<1>4. /\ told'.used = told.used \cup {dek} /\ told'.live = told.live
      /\ told' = [used |-> told'.used, live |-> told'.live]
  BY <1>1, <1>3
<1>5. /\ sh' = [keys |-> sh'.keys, shredded |-> sh'.shredded]
      /\ sh'.keys = sh.keys \/ sh'.keys = Put(sh.keys, s, dek)
  BY <1>1, <1>3 DEF RegisterSubject
<1>6. \A t \in DOMAIN sh'.keys : (t \in DOMAIN sh.keys /\ sh'.keys[t] = sh.keys[t]) \/ sh'.keys[t] = dek
  BY <1>5 DEF Put
<1>7. ErasedUnreadable'
  BY <1>1, <1>3, <1>4 DEF ErasedUnreadable, Shown
<1>8. SubjectInv'
  BY <1>1, <1>3, <1>4, <1>5, <1>6, <1>7 DEF SubjectInv
<1> QED BY <1>2, <1>8 DEF IInv

LEMMA EncryptForInv == ASSUME IInv, NEW s, EncryptFor(s) PROVE IInv'
<1> DEFINE b == GcmEncrypt(SubjectKey(sh, s).v, NoAad, s)
<1>1. /\ part = "subjects" /\ SubjectKey(sh, s).ok
      /\ disk' = Put(disk, s, b) /\ told' = [told EXCEPT !.live = @ \cup {s}]
      /\ UNCHANGED <<part, cfg, handle, pairs, reader, rights, sh, out>>
  BY DEF EncryptFor
<1>2. PartInv' /\ WriterInv' /\ FileInv' /\ CipherInv'
  BY <1>1, SubjectPart, PartSame, WriterSame DEF IInv
<1>3. /\ told = [used |-> told.used, live |-> told.live]
      /\ sh = [keys |-> sh.keys, shredded |-> sh.shredded]
      /\ \A t \in DOMAIN sh.keys : sh.keys[t] \in told.used
      /\ \A t \in DOMAIN disk : IsBlob(disk[t]) /\ disk[t].key \in told.used /\ disk[t].form = "gcm"
      /\ \A t \in DOMAIN disk \cap DOMAIN sh.keys : disk[t].key = sh.keys[t] => t \in told.live
      /\ ErasedUnreadable
  BY <1>1 DEF IInv, SubjectInv
<1>4. /\ told'.used = told.used /\ told'.live = told.live \cup {s}
      /\ told' = [used |-> told'.used, live |-> told'.live]
  BY <1>1, <1>3
<1>5. s \in DOMAIN sh.keys /\ SubjectKey(sh, s).v = sh.keys[s]
  BY <1>1 DEF SubjectKey, Answer, NoAnswer
<1>6. IsBlob(b) /\ b.key = sh.keys[s] /\ b.form = "gcm"
  BY <1>5 DEF GcmEncrypt, Blob, IsBlob
<1> HIDE DEF b
<1>7. \A t \in DOMAIN disk' : (t = s /\ disk'[t] = b) \/ (t \in DOMAIN disk /\ disk'[t] = disk[t])
  BY <1>1 DEF Put
<1>8. ErasedUnreadable'
  BY <1>1, <1>3, <1>4 DEF ErasedUnreadable, Shown
<1>9. \A t \in DOMAIN disk' : IsBlob(disk'[t]) /\ disk'[t].key \in told'.used /\ disk'[t].form = "gcm"
  BY <1>3, <1>4, <1>5, <1>6, <1>7
<1>10. \A t \in DOMAIN disk' \cap DOMAIN sh.keys : disk'[t].key = sh.keys[t] => t \in told'.live
  BY <1>3, <1>4, <1>7
<1>11. SubjectInv'
  BY <1>1, <1>3, <1>4, <1>8, <1>9, <1>10 DEF SubjectInv
<1> QED BY <1>2, <1>11 DEF IInv

LEMMA ShredSubjectInv == ASSUME IInv, NEW s, ShredSubject(s) PROVE IInv'
<1>1. /\ part = "subjects" /\ sh' = Shred(sh, s) /\ told' = [told EXCEPT !.live = @ \ {s}] /\ out' = NoOut
      /\ UNCHANGED <<part, cfg, handle, disk, pairs, reader, rights>>
  BY DEF ShredSubject, fileVars
<1>2. PartInv' /\ WriterInv' /\ FileInv' /\ CipherInv'
  BY <1>1, SubjectPart, PartSame, WriterSame DEF IInv
<1>3. /\ told = [used |-> told.used, live |-> told.live]
      /\ sh = [keys |-> sh.keys, shredded |-> sh.shredded]
      /\ \A t \in DOMAIN sh.keys : sh.keys[t] \in told.used
      /\ \A t \in DOMAIN disk : IsBlob(disk[t]) /\ disk[t].key \in told.used /\ disk[t].form = "gcm"
      /\ \A t \in DOMAIN disk \cap DOMAIN sh.keys : disk[t].key = sh.keys[t] => t \in told.live
  BY <1>1 DEF IInv, SubjectInv
<1>4. /\ told'.used = told.used /\ told'.live = told.live \ {s}
      /\ told' = [used |-> told'.used, live |-> told'.live]
  BY <1>1, <1>3
<1>5. sh' = [keys |-> sh'.keys, shredded |-> sh'.shredded]
  BY <1>1, <1>3 DEF Shred
<1>6. s \notin DOMAIN sh'.keys /\ \A t \in DOMAIN sh'.keys : t \in DOMAIN sh.keys /\ sh'.keys[t] = sh.keys[t]
  BY <1>1, <1>3 DEF Shred, Without
<1>7. ErasedUnreadable'
  BY <1>1 DEF ErasedUnreadable, Shown, NoOut
<1>8. SubjectInv'
  BY <1>1, <1>3, <1>4, <1>5, <1>6, <1>7 DEF SubjectInv
<1> QED BY <1>2, <1>8 DEF IInv

LEMMA ReadForInv == ASSUME IInv, NEW s, ReadFor(s) PROVE IInv'
<1>1. /\ part = "subjects" /\ s \in DOMAIN disk
      /\ UNCHANGED <<part, cfg, handle, disk, pairs, reader, rights, sh, told>>
  BY DEF ReadFor, fileVars, restVars
<1>2. PICK a \in IF SubjectKey(sh, s).ok
                 THEN GcmDecrypt(SubjectKey(sh, s).v, NoAad, disk[s]) ELSE {NoAnswer} :
        out' = IF a.ok THEN [ok |-> TRUE, v |-> a.v, place |-> s] ELSE NoOut
  BY DEF ReadFor
<1>3. PartInv' /\ WriterInv' /\ FileInv' /\ CipherInv'
  BY <1>1, SubjectPart, PartSame, WriterSame DEF IInv
<1>4. ASSUME Shown' PROVE out'.place \in told'.live
  <2>1. a.ok /\ out' = [ok |-> TRUE, v |-> a.v, place |-> s]
    <3>1. "place" \notin DOMAIN NoOut
      BY DEF NoOut
    <3> QED BY <1>2, <1>4, <3>1 DEF Shown
  <2>2. SubjectKey(sh, s).ok /\ a \in GcmDecrypt(SubjectKey(sh, s).v, NoAad, disk[s])
    <3>1. NoAnswer.ok = FALSE
      BY DEF NoAnswer
    <3> QED BY <1>2, <2>1, <3>1
  <2>3. s \in DOMAIN sh.keys /\ SubjectKey(sh, s).v = sh.keys[s]
    BY <2>2 DEF SubjectKey, Answer, NoAnswer
  <2>4. disk[s].key = sh.keys[s]
    BY <2>1, <2>2, <2>3, GcmOpens
  <2> QED BY <1>1, <2>1, <2>3, <2>4 DEF IInv, SubjectInv
<1>5. SubjectInv'
  BY <1>1, <1>4 DEF IInv, SubjectInv, ErasedUnreadable
<1> QED BY <1>3, <1>5 DEF IInv

-----------------------------------------------------------------------------
(* The theorems *)

LEMMA StepInv == ASSUME IInv, [Next]_vars PROVE IInv'
<1>1. ASSUME NEW id \in KeyIds, Generate(id) \/ Register(id) \/ Destroy(id) PROVE IInv'
  BY <1>1, KeysInv DEF Generate, Register, Destroy
<1>2. CASE Store \/ Restart
  BY <1>2, KeysInv DEF Store, Restart
<1>3. CASE Configure \/ NewHandle \/ MoveHandle \/ ConfigureFacade
  BY <1>3, ConfigureInv, NewHandleInv, MoveHandleInv, ConfigureFacadeInv
<1>4. ASSUME NEW m \in Places, Encrypt(m) \/ CutBlob(m) \/ Decrypt(m) PROVE IInv'
  BY <1>4, EncryptInv, CutBlobInv, DecryptInv
<1>5. ASSUME NEW m \in Places, NEW n \in Places, Move(m, n) PROVE IInv'
  BY <1>5, MoveInv
<1>6. CASE WrapAll \/ OpenReader \/ UnwrapAll \/ MakeCipher
  BY <1>6, WrapAllInv, OpenReaderInv, UnwrapAllInv, MakeCipherInv
<1>7. ASSUME NEW a \in Aads, UseCipher(a) PROVE IInv'
  BY <1>7, UseCipherInv
<1>8. ASSUME NEW a \in Aads, NEW b \in Aads, OpenSealed(a, b) PROVE IInv'
  BY <1>8, OpenSealedInv
<1>9. ASSUME NEW s \in Subjects, EncryptFor(s) \/ ShredSubject(s) \/ ReadFor(s) PROVE IInv'
  BY <1>9, EncryptForInv, ShredSubjectInv, ReadForInv
<1>10. ASSUME NEW s \in Subjects, NEW d \in Deks, RegisterSubj(s, d) PROVE IInv'
  BY <1>10, RegisterSubjInv
<1>11. CASE UNCHANGED vars
  BY <1>11, KeysInv DEF vars
<1> QED BY <1>1, <1>2, <1>3, <1>4, <1>5, <1>6, <1>7, <1>8, <1>9, <1>10, <1>11 DEF Next

(* The inductive invariant: every blob on the disk is one that the writer,  *)
(* the cipher or a subject's key made, and who is shown a module has its    *)
(* key.                                                                     *)
THEOREM EncryptedFile_Keys == Spec => []IInv
<1>1. IInv /\ [Next]_vars => IInv'
  BY StepInv
<1> QED BY <1>1, InitInv, PTL DEF Spec

(* An authenticated module that a reader opens holds what was encrypted for *)
(* that very place, wherever a blob was moved or cut (build_aad and the     *)
(* decrypting functions of FileDecryptor and of the cipher objects).        *)
THEOREM EncryptedFile_PlaceBound == Spec => []PlaceBound
<1>1. IInv => PlaceBound
  <2>1. CASE part = "file"
    BY <2>1 DEF IInv, FileInv
  <2>2. CASE part = "cipher"
    BY <2>2 DEF IInv, CipherInv, PlaceBound
  <2>3. CASE part \notin {"file", "cipher"}
    BY <2>3 DEF PlaceBound
  <2> QED BY <2>1, <2>2, <2>3
<1> QED BY <1>1, EncryptedFile_Keys, PTL

(* Who has neither a column's key nor the right to it sees an error or the  *)
(* ciphertext (FileDecryptor, build_config).                                *)
THEOREM EncryptedFile_NoKeyNoData == Spec => []NoKeyNoData
<1>1. IInv => NoKeyNoData
  <2>1. CASE part \in {"file", "keys"}
    BY <2>1 DEF IInv, FileInv
  <2>2. CASE part \notin {"file", "keys"}
    BY <2>2 DEF NoKeyNoData
  <2> QED BY <2>1, <2>2
<1> QED BY <1>1, EncryptedFile_Keys, PTL

(* Nothing of a subject is shown after its shredding, whatever is registered *)
(* later, and a cipher stops at MAX_INVOCATIONS after one rotation callback  *)
(* (CryptoShredder, AesGcmCipher::encrypt).                                  *)
THEOREM EncryptedFile_KeyLifeEnds == Spec => []KeyLifeEnds
<1>1. IInv => ErasedUnreadable
  BY DEF IInv, SubjectInv, ErasedUnreadable
<1>2. IInv => InvocationLimit
  <2> SUFFICES ASSUME IInv, part = "cipher", cipher # <<>>, cipher.alg = "GCM"
               PROVE  /\ Len(sealed) <= MaxInvocations
                      /\ Len(sealed) > RotationThreshold <=> cipher.called = 1
    BY DEF InvocationLimit
  <2>1. /\ cipher.count \in Nat
        /\ cipher.called = IF cipher.count > RotationThreshold THEN 1 ELSE 0
        /\ Len(sealed) = IF cipher.count < MaxInvocations THEN cipher.count ELSE MaxInvocations
    BY DEF IInv, CipherInv
  <2> QED BY <2>1, ThresholdBelow, InvocationAssumption
<1> QED BY <1>1, <1>2, EncryptedFile_Keys, PTL DEF KeyLifeEnds
-----------------------------------------------------------------------------
(* Wrapped keys, as long as the disk takes what is written to a key file    *)

(* What is in the cache of a LocalKeyStore is in its files too, but for the *)
(* key whose file is being written.                                         *)
OnDisk(k) ==
  k.kind = "local" =>
    \A id \in DOMAIN k.cache :
      k.writing = <<>> \/ id # k.writing[1].id =>
        id \in DOMAIN k.files /\ Unwrap(k.kek, k.files[id]) = Answer(k.cache[id])

IsService(k) ==
  /\ k = [kind |-> k.kind, keks |-> k.keks, kek |-> k.kek, cache |-> k.cache,
          files |-> k.files, writing |-> k.writing]
  /\ k.kind \in {"local", "hsm"}

Opens(k, e) == UnwrapKey(k, e.id, e.w) = Answer(e.dek)

(* The inductive invariant: what was wrapped opens, now and after a restart. *)
KeyInv ==
  part = "keys" =>
    /\ IsService(ks) /\ OnDisk(ks)
    /\ ~Idle => /\ ks.kind = "local" /\ ks.writing[1].id \in DOMAIN ks.files
                /\ ks.writing[1].key.size = 32
                /\ \A e \in made : e.id # ks.writing[1].id
    /\ \A e \in made : Opens(ks, e)
    /\ cfg # <<>> => cfg \in WriterConfigs
    /\ pairs # <<>> => Len(pairs[1]) \in Nat

(* wrap_keys and unwrap_keys are loops: induction over the slots they have  *)
(* passed, from the least number at which a statement would fail.           *)

LEMMA Least ==
  ASSUME NEW S \in SUBSET Nat, S # {}
  PROVE  \E n \in S : \A m \in S : n <= m
<1> DEFINE R == {ss \in Nat \X Nat : ss[1] < ss[2]}
<1>1. IsWellFoundedOn(R, Nat)
  BY NatLessThanWellFounded DEF OpToRel
<1>2. \E x \in S : \A y \in S : ~ (<<y, x>> \in R)
  BY <1>1, WFMin, Zenon
<1>3. PICK x \in S : \A y \in S : ~ (<<y, x>> \in R)
  BY <1>2
<1>4. ASSUME NEW y \in S PROVE x <= y
  <2>1. ~ (<<y, x>> \in R)
    BY <1>3, <1>4
  <2>2. x \in Nat /\ y \in Nat
    OBVIOUS
  <2> QED BY <2>1, <2>2
<1> QED BY <1>4

LEMMA Induct ==
  ASSUME NEW S, 0 \in S, \A n \in Nat : n \in S => n + 1 \in S
  PROVE  Nat \subseteq S
<1> DEFINE T == Nat \ S
<1> SUFFICES ASSUME T # {} PROVE FALSE
  OBVIOUS
<1>1. PICK n \in T : \A m \in T : n <= m
  BY Least, T \in SUBSET Nat, Zenon
<1>2. n # 0 /\ n - 1 \in Nat /\ n - 1 \in S
  BY <1>1
<1> QED BY <1>2

(* What a call leaves alone: the master keys and the files.                 *)
Same(k, l) ==
  /\ IsService(k) /\ OnDisk(k)
  /\ k.kind = l.kind /\ k.keks = l.keks /\ k.kek = l.kek
  /\ k.files = l.files /\ k.writing = l.writing
  /\ \A id : MasterKey(k, id) = MasterKey(l, id)

LEMMA AfterUseSame ==
  ASSUME NEW k, NEW l, Same(k, l), l.writing = <<>>, NEW id
  PROVE  Same(AfterUse(k, id), l)
<1> DEFINE n == AfterUse(k, id)
<1>1. CASE k.kind # "local" \/ ~LoadKey(k, id).ok
  BY <1>1 DEF AfterUse, Cached
<1>2. CASE k.kind = "local" /\ LoadKey(k, id).ok
  <2> DEFINE v == LoadKey(k, id).v
  <2>1. n = [k EXCEPT !.cache = Put(@, id, v)]
    BY <1>2 DEF AfterUse, Cached
  <2>2. /\ n.kind = k.kind /\ n.keks = k.keks /\ n.kek = k.kek /\ n.files = k.files
        /\ n.writing = k.writing /\ n.cache = Put(k.cache, id, v)
        /\ IsService(n)
    BY <2>1 DEF Same, IsService
  <2>3. LoadKey(k, id) = Answer(v)
    <3>1. NoAnswer.ok = FALSE
      BY DEF NoAnswer
    <3> QED BY <1>2, <3>1 DEF LoadKey, Unwrap, Answer
  <2> HIDE DEF n, v
  <2>10. /\ DOMAIN n.cache = {id} \cup DOMAIN k.cache /\ n.cache[id] = v
         /\ \A x \in DOMAIN k.cache : x # id => n.cache[x] = k.cache[x]
    BY <2>2 DEF Put
  <2>4. LoadKey(n, id) = Answer(v)
    BY <2>10 DEF LoadKey
  <2>5. \A x : LoadKey(n, x) = LoadKey(k, x)
    <3> TAKE x
    <3>1. CASE x = id
      BY <3>1, <2>3, <2>4
    <3>2. CASE x # id
      BY <3>2, <2>2, <2>10 DEF LoadKey
    <3> QED BY <3>1, <3>2
  <2>6. \A x : MasterKey(n, x) = MasterKey(l, x)
    BY <2>5, <2>2, <1>2 DEF MasterKey, Same
  <2>7. OnDisk(k) /\ k.writing = <<>>
    BY DEF Same
  <2>8. ASSUME NEW x \in DOMAIN n.cache
        PROVE x \in DOMAIN n.files /\ Unwrap(n.kek, n.files[x]) = Answer(n.cache[x])
    <3>1. CASE x \in DOMAIN k.cache /\ x # id
      BY <3>1, <2>2, <2>7, <1>2, <2>10 DEF OnDisk
    <3>2. CASE x = id
      <4>1. n.cache[x] = v
        BY <3>2, <2>10
      <4>2. CASE id \in DOMAIN k.cache
        <5>1. Answer(v) = Answer(k.cache[id])
          BY <4>2, <2>3 DEF LoadKey
        <5> QED BY <5>1, <4>1, <4>2, <3>2, <2>2, <2>7, <1>2 DEF OnDisk
      <4>3. CASE id \notin DOMAIN k.cache
        <5>1. NoAnswer.ok = FALSE
          BY DEF NoAnswer
        <5> QED BY <5>1, <4>1, <4>3, <3>2, <2>2, <2>3, <1>2 DEF LoadKey
      <4> QED BY <4>2, <4>3
    <3> QED BY <3>1, <3>2, <2>2, <2>10
  <2>9. OnDisk(n)
    BY <2>8 DEF OnDisk
  <2> QED BY <2>2, <2>6, <2>9 DEF Same, n
<1> QED BY <1>1, <1>2

(* What wrap_keys has collected at a slot: pairs that the service opens.    *)
Wrapped(a, k) ==
  /\ a = [ok |-> a.ok, ks |-> a.ks, v |-> a.v]
  /\ Same(a.ks, k)
  /\ \E S : a.v \in Seq(S)
  /\ \A i \in 1 .. Len(a.v) : UnwrapKey(k, a.v[i].id, a.v[i].w) = Answer(a.v[i].w[1].key)

LEMMA WrapSlotStep ==
  ASSUME NEW a, NEW k, NEW s, Wrapped(a, k), k.writing = <<>>
  PROVE  Wrapped(WrapSlot(a, s), k)
<1> DEFINE w == WrapKey(a.ks, s.id, s.key)
           pair == [id |-> s.id, w |-> w.v]
           b == WrapSlot(a, s)
<1>1. CASE ~a.ok \/ ~Used(s)
  BY <1>1 DEF WrapSlot
<1>2. CASE a.ok /\ Used(s) /\ ~w.ok
  <2>1. b = [a EXCEPT !.ok = FALSE]
    BY <1>2 DEF WrapSlot
  <2> QED BY <2>1 DEF Wrapped
<1>3. CASE a.ok /\ Used(s) /\ w.ok
  <2>1. b = [a EXCEPT !.ks = AfterUse(@, s.id), !.v = Append(@, pair)]
    BY <1>3 DEF WrapSlot
  <2>2. b = [ok |-> a.ok, ks |-> AfterUse(a.ks, s.id), v |-> Append(a.v, pair)]
    BY <2>1 DEF Wrapped
  <2>3. Same(b.ks, k)
    BY <2>2, AfterUseSame DEF Wrapped
  <2>4. PICK S : a.v \in Seq(S)
    BY DEF Wrapped
  <2>5. a.v \in Seq(S \cup {pair})
    BY <2>4, SeqMonotonic
  <2>6. /\ b.v \in Seq(S \cup {pair}) /\ Len(b.v) = Len(a.v) + 1
        /\ b.v[Len(a.v) + 1] = pair
        /\ \A i \in 1 .. Len(a.v) : b.v[i] = a.v[i]
        /\ Len(a.v) \in Nat
    BY <2>2, <2>5, AppendProperties, LenProperties
  <2>7. UnwrapKey(k, pair.id, pair.w) = Answer(pair.w[1].key)
    <3>1. NoAnswer.ok = FALSE
      BY DEF NoAnswer
    <3>2. MasterKey(a.ks, s.id).ok /\ w = Wrap(MasterKey(a.ks, s.id).v, s.key)
      BY <1>3, <3>1 DEF WrapKey
    <3>3. w.v = <<[kek |-> MasterKey(a.ks, s.id).v, key |-> s.key]>>
      BY <1>3, <3>1, <3>2 DEF Wrap, Answer
    <3>4. MasterKey(a.ks, s.id) = MasterKey(k, s.id)
      BY DEF Wrapped, Same
    <3>5. /\ pair.id = s.id /\ pair.w = w.v /\ pair.w # <<>>
          /\ pair.w[1].kek = MasterKey(k, s.id).v
      BY <3>3, <3>4
    <3> HIDE DEF pair
    <3> QED BY <3>2, <3>4, <3>5 DEF UnwrapKey, Unwrap
  <2> HIDE DEF b, pair
  <2>8. ASSUME NEW i \in 1 .. Len(b.v)
        PROVE  UnwrapKey(k, b.v[i].id, b.v[i].w) = Answer(b.v[i].w[1].key)
    <3>1. CASE i = Len(a.v) + 1
      BY <3>1, <2>6, <2>7
    <3>2. CASE i # Len(a.v) + 1
      <4>1. i \in 1 .. Len(a.v)
        BY <3>2, <2>6
      <4> QED BY <4>1, <2>6 DEF Wrapped
    <3> QED BY <3>1, <3>2
  <2>9. b = [ok |-> b.ok, ks |-> b.ks, v |-> b.v]
    BY <2>2
  <2> QED BY <2>3, <2>6, <2>8, <2>9 DEF Wrapped, b
<1> QED BY <1>1, <1>2, <1>3

LEMMA WrapKeysSame ==
  ASSUME NEW c, NEW k, IsService(k), OnDisk(k), k.writing = <<>>, Len(KeySlots(c)) \in Nat
  PROVE  Wrapped(WrapKeys(c, k), k)
<1> DEFINE first == [ok |-> TRUE, ks |-> k, v |-> <<>>]
           slots == KeySlots(c)
           N == Len(slots)
           IsRun(f, n) == f = [i \in 0 .. n |-> IF i = 0 THEN first ELSE WrapSlot(f[i - 1], slots[i])]
           Run == {n \in Nat : /\ \E f : IsRun(f, n)
                               /\ \A f : IsRun(f, n) => Wrapped(f[n], k)}
<1>1. ASSUME NEW x, x.ks = k, x.v = <<>>, x = [ok |-> x.ok, ks |-> x.ks, v |-> x.v]
      PROVE Wrapped(x, k)
  <2>1. <<>> \in Seq({})
    BY EmptySeq
  <2>2. Len(<<>>) = 0
    BY EmptySeq
  <2>3. Same(x.ks, k)
    BY <1>1 DEF Same
  <2> QED BY <1>1, <2>1, <2>2, <2>3 DEF Wrapped
<1>2. 0 \in Run
  <2> DEFINE f == [i \in 0 .. 0 |-> first]
  <2>1. IsRun(f, 0)
    <3>1. \A i \in 0 .. 0 : i = 0
      OBVIOUS
    <3> HIDE DEF first
    <3> QED BY <3>1
  <2>2. Wrapped(first, k)
    BY <1>1
  <2> HIDE DEF f, first
  <2>3. \A g : IsRun(g, 0) => g[0] = first
    OBVIOUS
  <2> HIDE DEF IsRun
  <2> QED BY <2>1, <2>2, <2>3
<1>3. ASSUME NEW n \in Nat, n \in Run PROVE n + 1 \in Run
  <2> HIDE DEF first, slots
  <2>1. PICK f : IsRun(f, n)
    BY <1>3
  <2> DEFINE e == WrapSlot(f[n], slots[n + 1])
             g == [i \in 0 .. n + 1 |-> IF i = n + 1 THEN e ELSE f[i]]
  <2>2. /\ g[n + 1] = e
        /\ \A i \in 0 .. n : g[i] = f[i]
    OBVIOUS
  <2>3. \A i \in 0 .. n : f[i] = IF i = 0 THEN first ELSE WrapSlot(f[i - 1], slots[i])
    BY <2>1
  <2>4. \A i \in 0 .. n + 1 : g[i] = IF i = 0 THEN first ELSE WrapSlot(g[i - 1], slots[i])
    <3> TAKE i \in 0 .. n + 1
    <3>1. CASE i = n + 1
      <4>1. i # 0 /\ i - 1 = n /\ g[i - 1] = f[n] /\ slots[i] = slots[n + 1]
        BY <3>1, <2>2
      <4>2. g[i] = e
        BY <3>1, <2>2
      <4> HIDE DEF g
      <4> QED BY <4>1, <4>2
    <3>2. CASE i = 0
      BY <3>2, <2>2, <2>3
    <3>3. CASE i # 0 /\ i # n + 1
      <4>1. i \in 0 .. n /\ i - 1 \in 0 .. n
        BY <3>3
      <4>2. g[i] = f[i] /\ g[i - 1] = f[i - 1]
        BY <4>1, <2>2
      <4> HIDE DEF g
      <4> QED BY <4>1, <4>2, <3>3, <2>3
    <3> QED BY <3>1, <3>2, <3>3
  <2>5. g = [i \in 0 .. n + 1 |-> g[i]]
    OBVIOUS
  <2> HIDE DEF g, e
  <2>6. IsRun(g, n + 1)
    BY <2>4, <2>5
  <2>7. ASSUME NEW h, IsRun(h, n + 1) PROVE Wrapped(h[n + 1], k)
    <3> DEFINE r == [i \in 0 .. n |-> h[i]]
    <3>1. /\ \A i \in 0 .. n : h[i] = IF i = 0 THEN first ELSE WrapSlot(h[i - 1], slots[i])
          /\ h[n + 1] = WrapSlot(h[n], slots[n + 1])
      BY <2>7
    <3>2. \A i \in 0 .. n : r[i] = IF i = 0 THEN first ELSE WrapSlot(r[i - 1], slots[i])
      <4> TAKE i \in 0 .. n
      <4>1. r[i] = h[i]
        OBVIOUS
      <4>2. CASE i = 0
        BY <4>1, <4>2, <3>1
      <4>3. CASE i # 0
        <5>1. i - 1 \in 0 .. n
          BY <4>3
        <5>2. r[i - 1] = h[i - 1]
          BY <5>1
        <5> HIDE DEF r
        <5> QED BY <4>1, <4>3, <5>2, <3>1
      <4> QED BY <4>2, <4>3
    <3>3. r = [i \in 0 .. n |-> r[i]] /\ r[n] = h[n]
      OBVIOUS
    <3> HIDE DEF r
    <3>4. IsRun(r, n)
      BY <3>2, <3>3
    <3>5. Wrapped(h[n], k)
      BY <3>3, <3>4, <1>3
    <3> QED BY <3>1, <3>5, WrapSlotStep
  <2> HIDE DEF IsRun
  <2> QED BY <2>6, <2>7
<1>4. N \in Run
  <2> HIDE DEF Run
  <2>1. Nat \subseteq Run
    BY <1>2, <1>3, Induct
  <2> QED BY <2>1
<1>5. CASE ~c.licensed \/ ~c.kms
  <2>1. WrapKeys(c, k) = [ok |-> FALSE, ks |-> k, v |-> <<>>]
    BY <1>5 DEF WrapKeys
  <2> QED BY <2>1, <1>1
<1>6. CASE c.licensed /\ c.kms
  <2> DEFINE after == CHOOSE f : IsRun(f, N)
  <2>1. WrapKeys(c, k) = after[N]
    BY <1>6 DEF WrapKeys
  <2> HIDE DEF IsRun, N
  <2>2. IsRun(after, N)
    BY <1>4
  <2> HIDE DEF after
  <2> QED BY <1>4, <2>1, <2>2
<1> QED BY <1>5, <1>6

(* What unwrap_keys has done at a pair.                                     *)
Unwrapped(a, k) ==
  /\ a = [ok |-> a.ok, c |-> a.c, ks |-> a.ks]
  /\ Same(a.ks, k)

LEMMA UnwrapOneStep ==
  ASSUME NEW a, NEW k, NEW p, Unwrapped(a, k), k.writing = <<>>
  PROVE  Unwrapped(UnwrapOne(a, p), k)
<1> DEFINE u == UnwrapKey(a.ks, p.id, p.w)
           b == UnwrapOne(a, p)
<1>1. CASE ~a.ok \/ ~u.ok
  <2>1. b = [a EXCEPT !.ok = FALSE]
    BY <1>1 DEF UnwrapOne
  <2> QED BY <2>1 DEF Unwrapped
<1>2. CASE a.ok /\ u.ok
  <2>1. b = [ok |-> b.ok, c |-> b.c, ks |-> b.ks] /\ b.ks = AfterUse(a.ks, p.id)
    BY <1>2 DEF UnwrapOne
  <2> QED BY <2>1, AfterUseSame DEF Unwrapped
<1> QED BY <1>1, <1>2

LEMMA UnwrapKeysSame ==
  ASSUME NEW c, NEW k, IsService(k), OnDisk(k), k.writing = <<>>, NEW l, Len(l) \in Nat
  PROVE  Unwrapped(UnwrapKeys(c, k, l), k)
<1> DEFINE first == [ok |-> TRUE, c |-> c, ks |-> k]
           N == Len(l)
           IsRun(f, n) == f = [i \in 0 .. n |-> IF i = 0 THEN first ELSE UnwrapOne(f[i - 1], l[i])]
           Run == {n \in Nat : /\ \E f : IsRun(f, n)
                               /\ \A f : IsRun(f, n) => Unwrapped(f[n], k)}
<1>1. ASSUME NEW x, x.ks = k, x = [ok |-> x.ok, c |-> x.c, ks |-> x.ks] PROVE Unwrapped(x, k)
  BY <1>1 DEF Unwrapped, Same
<1>2. 0 \in Run
  <2> DEFINE f == [i \in 0 .. 0 |-> first]
  <2>1. IsRun(f, 0)
    <3>1. \A i \in 0 .. 0 : i = 0
      OBVIOUS
    <3> HIDE DEF first
    <3> QED BY <3>1
  <2>2. Unwrapped(first, k)
    BY <1>1
  <2> HIDE DEF f, first
  <2>3. \A g : IsRun(g, 0) => g[0] = first
    OBVIOUS
  <2> HIDE DEF IsRun
  <2> QED BY <2>1, <2>2, <2>3
<1>3. ASSUME NEW n \in Nat, n \in Run PROVE n + 1 \in Run
  <2> HIDE DEF first
  <2>1. PICK f : IsRun(f, n)
    BY <1>3
  <2> DEFINE e == UnwrapOne(f[n], l[n + 1])
             g == [i \in 0 .. n + 1 |-> IF i = n + 1 THEN e ELSE f[i]]
  <2>2. /\ g[n + 1] = e
        /\ \A i \in 0 .. n : g[i] = f[i]
    OBVIOUS
  <2>3. \A i \in 0 .. n : f[i] = IF i = 0 THEN first ELSE UnwrapOne(f[i - 1], l[i])
    BY <2>1
  <2>4. \A i \in 0 .. n + 1 : g[i] = IF i = 0 THEN first ELSE UnwrapOne(g[i - 1], l[i])
    <3> TAKE i \in 0 .. n + 1
    <3>1. CASE i = n + 1
      <4>1. i # 0 /\ i - 1 = n /\ g[i - 1] = f[n] /\ l[i] = l[n + 1]
        BY <3>1, <2>2
      <4>2. g[i] = e
        BY <3>1, <2>2
      <4> HIDE DEF g
      <4> QED BY <4>1, <4>2
    <3>2. CASE i = 0
      BY <3>2, <2>2, <2>3
    <3>3. CASE i # 0 /\ i # n + 1
      <4>1. i \in 0 .. n /\ i - 1 \in 0 .. n
        BY <3>3
      <4>2. g[i] = f[i] /\ g[i - 1] = f[i - 1]
        BY <4>1, <2>2
      <4> HIDE DEF g
      <4> QED BY <4>1, <4>2, <3>3, <2>3
    <3> QED BY <3>1, <3>2, <3>3
  <2>5. g = [i \in 0 .. n + 1 |-> g[i]]
    OBVIOUS
  <2> HIDE DEF g, e
  <2>6. IsRun(g, n + 1)
    BY <2>4, <2>5
  <2>7. ASSUME NEW h, IsRun(h, n + 1) PROVE Unwrapped(h[n + 1], k)
    <3> DEFINE r == [i \in 0 .. n |-> h[i]]
    <3>1. /\ \A i \in 0 .. n : h[i] = IF i = 0 THEN first ELSE UnwrapOne(h[i - 1], l[i])
          /\ h[n + 1] = UnwrapOne(h[n], l[n + 1])
      BY <2>7
    <3>2. \A i \in 0 .. n : r[i] = IF i = 0 THEN first ELSE UnwrapOne(r[i - 1], l[i])
      <4> TAKE i \in 0 .. n
      <4>1. r[i] = h[i]
        OBVIOUS
      <4>2. CASE i = 0
        BY <4>1, <4>2, <3>1
      <4>3. CASE i # 0
        <5>1. i - 1 \in 0 .. n
          BY <4>3
        <5>2. r[i - 1] = h[i - 1]
          BY <5>1
        <5> HIDE DEF r
        <5> QED BY <4>1, <4>3, <5>2, <3>1
      <4> QED BY <4>2, <4>3
    <3>3. r = [i \in 0 .. n |-> r[i]] /\ r[n] = h[n]
      OBVIOUS
    <3> HIDE DEF r
    <3>4. IsRun(r, n)
      BY <3>2, <3>3
    <3>5. Unwrapped(h[n], k)
      BY <3>3, <3>4, <1>3
    <3> QED BY <3>1, <3>5, UnwrapOneStep
  <2> HIDE DEF IsRun
  <2> QED BY <2>6, <2>7
<1>4. N \in Run
  <2> HIDE DEF Run
  <2>1. Nat \subseteq Run
    BY <1>2, <1>3, Induct
  <2> QED BY <2>1
<1>5. CASE ~c.licensed \/ ~c.kms
  <2>1. UnwrapKeys(c, k, l) = [ok |-> FALSE, c |-> c, ks |-> k]
    BY <1>5 DEF UnwrapKeys
  <2> QED BY <2>1, <1>1
<1>6. CASE c.licensed /\ c.kms
  <2> DEFINE after == CHOOSE f : IsRun(f, N)
  <2>1. UnwrapKeys(c, k, l) = after[N]
    BY <1>6 DEF UnwrapKeys
  <2> HIDE DEF IsRun, N
  <2>2. IsRun(after, N)
    BY <1>4
  <2> HIDE DEF after
  <2> QED BY <1>4, <2>1, <2>2
<1> QED BY <1>5, <1>6

LEMMA SlotsLen == ASSUME NEW c \in WriterConfigs PROVE Len(KeySlots(c)) \in Nat
<1> DEFINE E == {c.cols[i] : i \in DOMAIN c.cols}
           mid == [i \in DOMAIN c.cols |-> [id |-> c.cols[i].id, key |-> c.cols[i].key]]
           S == {[id |-> c.footerId, key |-> c.footerKey], [id |-> c.defId, key |-> c.defKey]}
                \cup {mid[i] : i \in DOMAIN c.cols}
<1>1. c.cols \in Seq(E) /\ DOMAIN c.cols = 1 .. Len(c.cols) /\ Len(c.cols) \in Nat
  BY ColumnsAssumption, LenProperties
<1>2. mid \in Seq(S)
  <2>1. mid \in [1 .. Len(c.cols) -> S]
    BY <1>1
  <2> HIDE DEF mid, S
  <2> QED BY <1>1, <2>1
<1>3. /\ <<[id |-> c.footerId, key |-> c.footerKey]>> \in Seq(S)
      /\ <<[id |-> c.defId, key |-> c.defKey]>> \in Seq(S)
  OBVIOUS
<1> HIDE DEF mid, S
<1>4. <<[id |-> c.footerId, key |-> c.footerKey]>> \o mid \in Seq(S)
  BY <1>2, <1>3, ConcatProperties
<1>5. (<<[id |-> c.footerId, key |-> c.footerKey]>> \o mid)
      \o <<[id |-> c.defId, key |-> c.defKey]>> \in Seq(S)
  BY <1>3, <1>4, ConcatProperties
<1> QED BY <1>5, LenProperties DEF KeySlots, mid

LEMMA KeyInit == ASSUME Init PROVE KeyInv
<1>1. IsService(ks) /\ ks.writing = <<>> /\ DOMAIN ks.cache = {}
  <2>1. ks = OpenStore(<<>>, "pass") \/ ks = NewHsm
    BY DEF Init
  <2> QED BY <2>1, EmptyDomain DEF OpenStore, NewHsm, IsService
<1> QED BY <1>1 DEF Init, KeyInv, OnDisk, Idle

(* The parts of KeyInv for a step that leaves the writer alone.             *)
LEMMA ServiceStep ==
  ASSUME KeyInv, part' = part, cfg' = cfg, pairs' = pairs, part = "keys",
         IsService(ks)', OnDisk(ks)', \A e \in made' : Opens(ks', e),
         \/ ks'.writing = <<>>
         \/ /\ ks'.kind = "local" /\ ks'.writing[1].id \in DOMAIN ks'.files
            /\ ks'.writing[1].key.size = 32
            /\ \A e \in made' : e.id # ks'.writing[1].id
  PROVE  KeyInv'
  BY DEF KeyInv, Idle

LEMMA MasterOk ==
  ASSUME NEW k, NEW e, Opens(k, e)
  PROVE  MasterKey(k, e.id).ok
<1>1. NoAnswer # Answer(e.dek)
  BY DEF NoAnswer, Answer
<1> QED BY <1>1 DEF Opens, UnwrapKey

LEMMA SameOpens ==
  ASSUME NEW k, NEW l, NEW e, Opens(k, e), MasterKey(k, e.id) = MasterKey(l, e.id)
  PROVE  Opens(l, e)
  BY DEF Opens, UnwrapKey

LEMMA GenerateKeys == ASSUME KeyInv, NEW id, Generate(id) PROVE KeyInv'
<1> DEFINE key == RawKey(MasterKeys[tally + 1])
<1>1. /\ part = "keys" /\ ks.kind = "local" /\ ks.writing = <<>>
      /\ ks' = OpenKeyFile(ks, id, key) /\ made' = {e \in made : e.id # id}
      /\ part' = part /\ cfg' = cfg /\ pairs' = pairs
  BY DEF Generate, Idle, fileVars
<1>2. IsService(ks) /\ OnDisk(ks) /\ \A e \in made : Opens(ks, e)
  BY <1>1 DEF KeyInv
<1>3. key.size = 32
  BY DEF RawKey
<1> HIDE DEF key
<1>4. /\ IsService(ks') /\ ks'.kind = "local" /\ ks'.kek = ks.kek /\ ks'.cache = ks.cache
      /\ ks'.writing = <<[id |-> id, key |-> key]>> /\ ks'.files = Put(ks.files, id, <<>>)
  BY <1>1, <1>2 DEF OpenKeyFile, IsService
<1>5. /\ DOMAIN ks'.files = {id} \cup DOMAIN ks.files
      /\ \A x \in DOMAIN ks.files : x # id => ks'.files[x] = ks.files[x]
  BY <1>4 DEF Put
<1>6. ks'.writing[1].id = id /\ ks'.writing[1].key = key
  BY <1>4
<1>7. OnDisk(ks)'
  <2> SUFFICES ASSUME NEW x \in DOMAIN ks.cache, x # id
               PROVE x \in DOMAIN ks'.files /\ Unwrap(ks'.kek, ks'.files[x]) = Answer(ks'.cache[x])
    BY <1>4, <1>6 DEF OnDisk
  <2>1. x \in DOMAIN ks.files /\ Unwrap(ks.kek, ks.files[x]) = Answer(ks.cache[x])
    BY <1>1, <1>2 DEF OnDisk
  <2> QED BY <2>1, <1>4, <1>5
<1>8. ASSUME NEW e \in made' PROVE Opens(ks', e)
  <2>1. e.id # id /\ Opens(ks, e)
    BY <1>1, <1>2
  <2>2. MasterKey(ks', e.id) = MasterKey(ks, e.id)
    BY <2>1, <1>1, <1>4, <1>5 DEF MasterKey, LoadKey
  <2> QED BY <2>1, <2>2, SameOpens
<1>9. \A e \in made' : e.id # id
  BY <1>1
<1> QED BY <1>1, <1>3, <1>4, <1>5, <1>6, <1>7, <1>8, <1>9, ServiceStep

LEMMA StoreKeys == ASSUME ~DiskFull, KeyInv, Store PROVE KeyInv'
<1> SUFFICES ASSUME part = "keys" PROVE KeyInv'
  BY DEF KeyInv, Store
<1> DEFINE id == ks.writing[1].id
           key == ks.writing[1].key
<1>1. /\ ~Idle /\ ks' = WriteKeyFile(ks, TRUE) /\ made' = made
      /\ part' = part /\ cfg' = cfg /\ pairs' = pairs
  BY DEF Store, fileVars
<1>2. /\ IsService(ks) /\ OnDisk(ks) /\ \A e \in made : Opens(ks, e) /\ e.id # id
      /\ ks.kind = "local" /\ id \in DOMAIN ks.files /\ key.size = 32
  BY <1>1 DEF KeyInv
<1> DEFINE wrapped == Wrap(ks.kek, key).v
<1>3. Unwrap(ks.kek, wrapped) = Answer(key)
  <2>1. wrapped = <<[kek |-> ks.kek, key |-> key]>>
    BY <1>2 DEF Wrap, Answer
  <2> QED BY <2>1 DEF Unwrap
<1>4. /\ IsService(ks') /\ ks'.kind = "local" /\ ks'.kek = ks.kek /\ ks'.writing = <<>>
      /\ ks'.cache = Put(ks.cache, id, key) /\ ks'.files = [ks.files EXCEPT ![id] = wrapped]
  BY <1>1, <1>2 DEF WriteKeyFile, IsService
<1> HIDE DEF id, key, wrapped
<1>5. /\ DOMAIN ks'.cache = {id} \cup DOMAIN ks.cache /\ ks'.cache[id] = key
      /\ \A x \in DOMAIN ks.cache : x # id => ks'.cache[x] = ks.cache[x]
  BY <1>4 DEF Put
<1>6. /\ DOMAIN ks'.files = DOMAIN ks.files /\ ks'.files[id] = wrapped
      /\ \A x \in DOMAIN ks.files : x # id => ks'.files[x] = ks.files[x]
  BY <1>2, <1>4
<1>7. OnDisk(ks)'
  <2> SUFFICES ASSUME NEW x \in DOMAIN ks'.cache
               PROVE x \in DOMAIN ks'.files /\ Unwrap(ks'.kek, ks'.files[x]) = Answer(ks'.cache[x])
    BY DEF OnDisk
  <2>1. CASE x = id
    BY <2>1, <1>2, <1>3, <1>4, <1>5, <1>6
  <2>2. CASE x # id
    <3>1. x \in DOMAIN ks.files /\ Unwrap(ks.kek, ks.files[x]) = Answer(ks.cache[x])
      BY <2>2, <1>2, <1>5 DEF OnDisk, id
    <3> QED BY <2>2, <3>1, <1>4, <1>5, <1>6
  <2> QED BY <2>1, <2>2
<1>8. ASSUME NEW e \in made' PROVE Opens(ks', e)
  <2>1. e.id # id /\ Opens(ks, e)
    BY <1>1, <1>2
  <2>2. MasterKey(ks', e.id) = MasterKey(ks, e.id)
    BY <2>1, <1>2, <1>4, <1>5, <1>6 DEF MasterKey, LoadKey
  <2> QED BY <2>1, <2>2, SameOpens
<1> QED BY <1>1, <1>4, <1>7, <1>8, ServiceStep

LEMMA RegisterKeys == ASSUME KeyInv, NEW id, Register(id) PROVE KeyInv'
<1>1. /\ part = "keys" /\ ks.kind = "hsm" /\ id \notin DOMAIN ks.keks /\ made' = made
      /\ part' = part /\ cfg' = cfg /\ pairs' = pairs
  BY DEF Register, fileVars
<1>2. PICK key : ks' = RegisterKek(ks, id, key)
  BY DEF Register
<1>3. IsService(ks) /\ OnDisk(ks) /\ ks.writing = <<>> /\ \A e \in made : Opens(ks, e)
  BY <1>1 DEF KeyInv, Idle
<1>4. CASE ks' = ks
  BY <1>1, <1>3, <1>4, ServiceStep
<1>5. CASE ks' = [ks EXCEPT !.keks = Put(@, id, key)]
  <2>1. IsService(ks') /\ ks'.kind = "hsm" /\ ks'.writing = <<>> /\ ks'.keks = Put(ks.keks, id, key)
    BY <1>1, <1>3, <1>5 DEF IsService
  <2>2. OnDisk(ks)'
    BY <2>1 DEF OnDisk
  <2>3. ASSUME NEW e \in made' PROVE Opens(ks', e)
    <3>1. Opens(ks, e) /\ MasterKey(ks, e.id).ok
      BY <1>1, <1>3, MasterOk
    <3>2. e.id \in DOMAIN ks.keks
      <4>1. NoAnswer.ok = FALSE
        BY DEF NoAnswer
      <4> QED BY <3>1, <4>1, <1>1 DEF MasterKey
    <3>3. e.id \in DOMAIN ks'.keks /\ ks'.keks[e.id] = ks.keks[e.id]
      BY <3>2, <2>1, <1>1 DEF Put
    <3>4. MasterKey(ks', e.id) = MasterKey(ks, e.id)
      BY <3>2, <3>3, <2>1, <1>1 DEF MasterKey
    <3> QED BY <3>1, <3>4, SameOpens
  <2> QED BY <1>1, <2>1, <2>2, <2>3, ServiceStep
<1> QED BY <1>2, <1>4, <1>5 DEF RegisterKek

LEMMA DestroyKeys == ASSUME KeyInv, NEW id, Destroy(id) PROVE KeyInv'
<1> SUFFICES ASSUME part = "keys" PROVE KeyInv'
  BY DEF KeyInv, Destroy
<1>1. /\ ks.kind = "local" /\ ks.writing = <<>> /\ ks' = DestroyKey(ks, id)
      /\ made' = {e \in made : e.id # id}
      /\ part' = part /\ cfg' = cfg /\ pairs' = pairs
  BY DEF Destroy, Idle, fileVars
<1>2. IsService(ks) /\ OnDisk(ks) /\ \A e \in made : Opens(ks, e)
  BY DEF KeyInv
<1>3. /\ IsService(ks') /\ ks'.kind = "local" /\ ks'.kek = ks.kek /\ ks'.writing = <<>>
      /\ ks'.cache = Without(ks.cache, id) /\ ks'.files = Without(ks.files, id)
  BY <1>1, <1>2 DEF DestroyKey, IsService
<1>4. /\ DOMAIN ks'.cache = DOMAIN ks.cache \ {id} /\ DOMAIN ks'.files = DOMAIN ks.files \ {id}
      /\ \A x \in DOMAIN ks'.cache : ks'.cache[x] = ks.cache[x]
      /\ \A x \in DOMAIN ks'.files : ks'.files[x] = ks.files[x]
  BY <1>3 DEF Without
<1>5. OnDisk(ks)'
  <2> SUFFICES ASSUME NEW x \in DOMAIN ks'.cache
               PROVE x \in DOMAIN ks'.files /\ Unwrap(ks'.kek, ks'.files[x]) = Answer(ks'.cache[x])
    BY DEF OnDisk
  <2>1. x \in DOMAIN ks.files /\ Unwrap(ks.kek, ks.files[x]) = Answer(ks.cache[x])
    BY <1>1, <1>2, <1>4 DEF OnDisk
  <2> QED BY <2>1, <1>3, <1>4
<1>6. ASSUME NEW e \in made' PROVE Opens(ks', e)
  <2>1. e.id # id /\ Opens(ks, e)
    BY <1>1, <1>2
  <2>2. MasterKey(ks', e.id) = MasterKey(ks, e.id)
    BY <2>1, <1>1, <1>3, <1>4 DEF MasterKey, LoadKey
  <2> QED BY <2>1, <2>2, SameOpens
<1> QED BY <1>1, <1>3, <1>5, <1>6, ServiceStep

(* A restart loses the cache: what it held is in the files.                 *)
LEMMA RestartKeys == ASSUME KeyInv, Restart PROVE KeyInv'
<1> SUFFICES ASSUME part = "keys" PROVE KeyInv'
  BY DEF KeyInv, Restart
<1>1. PICK pass : ks' = OpenStore(ks.files, pass)
  BY DEF Restart
<1>2. /\ ks.kind = "local" /\ made' = {e \in made : ks'.kek = ks.kek}
      /\ part' = part /\ cfg' = cfg /\ pairs' = pairs
  BY DEF Restart, fileVars
<1>3. /\ IsService(ks') /\ ks'.kind = "local" /\ ks'.writing = <<>> /\ ks'.files = ks.files
      /\ DOMAIN ks'.cache = {}
  BY <1>1, EmptyDomain DEF OpenStore, IsService
<1>4. OnDisk(ks)'
  BY <1>3 DEF OnDisk
<1>5. ASSUME NEW e \in made' PROVE Opens(ks', e)
  <2>1. Opens(ks, e) /\ ks'.kek = ks.kek
    BY <1>2 DEF KeyInv
  <2>2. ks.writing = <<>> \/ e.id # ks.writing[1].id
    BY <1>2 DEF KeyInv, Idle
  <2>3. LoadKey(ks', e.id) = IF e.id \notin DOMAIN ks.files THEN NoAnswer ELSE Unwrap(ks.kek, ks.files[e.id])
    BY <1>3, <2>1 DEF LoadKey
  <2>4. LoadKey(ks', e.id) = LoadKey(ks, e.id)
    <3>1. CASE e.id \in DOMAIN ks.cache
      <4>1. e.id \in DOMAIN ks.files /\ Unwrap(ks.kek, ks.files[e.id]) = Answer(ks.cache[e.id])
        BY <3>1, <2>2, <1>2 DEF KeyInv, OnDisk
      <4> QED BY <4>1, <3>1, <2>3 DEF LoadKey
    <3>2. CASE e.id \notin DOMAIN ks.cache
      BY <3>2, <2>3 DEF LoadKey
    <3> QED BY <3>1, <3>2
  <2>5. MasterKey(ks', e.id) = MasterKey(ks, e.id)
    BY <2>4, <1>2, <1>3 DEF MasterKey
  <2> QED BY <2>1, <2>5, SameOpens
<1> QED BY <1>2, <1>3, <1>4, <1>5, ServiceStep

LEMMA WrapAllKeys == ASSUME KeyInv, WrapAll PROVE KeyInv'
<1> DEFINE r == WrapKeys(cfg, ks)
<1>1. /\ part = "keys" /\ cfg # <<>> /\ ks.writing = <<>>
      /\ pairs' = <<r.v>> /\ ks' = r.ks
      /\ made' = made \cup {[id |-> p.id, dek |-> p.w[1].key, w |-> p.w] : p \in ToSet(r.v)}
      /\ part' = part /\ cfg' = cfg
  BY DEF WrapAll, Idle
<1>2. IsService(ks) /\ OnDisk(ks) /\ cfg \in WriterConfigs /\ \A e \in made : Opens(ks, e)
  BY <1>1 DEF KeyInv
<1>3. Wrapped(r, ks)
  BY <1>1, <1>2, SlotsLen, WrapKeysSame
<1> HIDE DEF r
<1>4. IsService(ks') /\ OnDisk(ks)' /\ ks'.writing = <<>> /\ \A id : MasterKey(ks', id) = MasterKey(ks, id)
  BY <1>1, <1>3 DEF Wrapped, Same
<1>5. Len(r.v) \in Nat /\ DOMAIN r.v = 1 .. Len(r.v)
  <2>1. PICK S : r.v \in Seq(S)
    BY <1>3 DEF Wrapped
  <2> QED BY <2>1, LenProperties
<1>6. ASSUME NEW e \in made' PROVE Opens(ks', e)
  <2>1. CASE e \in made
    BY <2>1, <1>2, <1>4, SameOpens
  <2>2. CASE e \notin made
    <3>1. PICK i \in DOMAIN r.v : e = [id |-> r.v[i].id, dek |-> r.v[i].w[1].key, w |-> r.v[i].w]
      BY <2>2, <1>1 DEF ToSet
    <3>2. UnwrapKey(ks, r.v[i].id, r.v[i].w) = Answer(r.v[i].w[1].key)
      BY <3>1, <1>3, <1>5 DEF Wrapped
    <3>3. Opens(ks, e)
      BY <3>1, <3>2 DEF Opens
    <3> QED BY <3>3, <1>4, SameOpens
  <2> QED BY <2>1, <2>2
<1>7. pairs'[1] = r.v
  BY <1>1
<1> QED BY <1>1, <1>2, <1>4, <1>5, <1>6, <1>7 DEF KeyInv, Idle

LEMMA UnwrapAllKeys == ASSUME KeyInv, UnwrapAll PROVE KeyInv'
<1> SUFFICES ASSUME part = "keys" PROVE KeyInv'
  BY DEF KeyInv, UnwrapAll
<1> DEFINE r == UnwrapKeys(reader, ks, pairs[1])
<1>1. /\ pairs # <<>> /\ ks.writing = <<>> /\ ks' = r.ks /\ made' = made
      /\ part' = part /\ cfg' = cfg /\ pairs' = pairs
  BY DEF UnwrapAll, Idle
<1>2. IsService(ks) /\ OnDisk(ks) /\ Len(pairs[1]) \in Nat /\ \A e \in made : Opens(ks, e)
  BY <1>1 DEF KeyInv
<1>3. Unwrapped(r, ks)
  BY <1>1, <1>2, UnwrapKeysSame
<1> HIDE DEF r
<1>4. IsService(ks') /\ OnDisk(ks)' /\ ks'.writing = <<>> /\ \A id : MasterKey(ks', id) = MasterKey(ks, id)
  BY <1>1, <1>3 DEF Unwrapped, Same
<1>5. \A e \in made' : Opens(ks', e)
  BY <1>1, <1>2, <1>4, SameOpens
<1> QED BY <1>1, <1>4, <1>5, ServiceStep

LEMMA KeyStep == ASSUME ~DiskFull, KeyInv, [Next]_vars PROVE KeyInv'
<1>1. ASSUME NEW id \in KeyIds, Generate(id) \/ Register(id) \/ Destroy(id) PROVE KeyInv'
  BY <1>1, GenerateKeys, RegisterKeys, DestroyKeys
<1>2. CASE Store \/ Restart
  BY <1>2, StoreKeys, RestartKeys
<1>3. CASE WrapAll \/ UnwrapAll
  BY <1>3, WrapAllKeys, UnwrapAllKeys
<1>4. ASSUME part' = part, cfg' = cfg, pairs' = pairs, ks' = ks, made' = made PROVE KeyInv'
  BY <1>4 DEF KeyInv, Idle
<1>5. CASE Configure
  BY <1>5 DEF Configure, keyVars, KeyInv, Idle
<1>6. CASE ConfigureFacade
  BY <1>6 DEF ConfigureFacade, KeyInv
<1>7. CASE NewHandle \/ MoveHandle \/ OpenReader
  BY <1>7, <1>4 DEF NewHandle, MoveHandle, OpenReader, keyVars
<1>8. ASSUME NEW m \in Places, Encrypt(m) \/ CutBlob(m) \/ Decrypt(m) PROVE KeyInv'
  BY <1>8, <1>4 DEF Encrypt, CutBlob, Decrypt, fileVars, keyVars
<1>9. ASSUME NEW m \in Places, NEW n \in Places, Move(m, n) PROVE KeyInv'
  BY <1>9, <1>4 DEF Move, keyVars
<1>10. CASE MakeCipher
  BY <1>10, <1>4 DEF MakeCipher, fileVars, keyVars
<1>11. ASSUME NEW a \in Aads, UseCipher(a) PROVE KeyInv'
  BY <1>11, <1>4 DEF UseCipher, keyVars
<1>12. ASSUME NEW a \in Aads, NEW b \in Aads, OpenSealed(a, b) PROVE KeyInv'
  BY <1>12, <1>4 DEF OpenSealed, fileVars, keyVars
<1>13. ASSUME NEW s \in Subjects, EncryptFor(s) \/ ShredSubject(s) \/ ReadFor(s) PROVE KeyInv'
  BY <1>13, <1>4 DEF EncryptFor, ShredSubject, ReadFor, fileVars, keyVars
<1>14. ASSUME NEW s \in Subjects, NEW d \in Deks, RegisterSubj(s, d) PROVE KeyInv'
  BY <1>14, <1>4 DEF RegisterSubj, fileVars, keyVars
<1>15. CASE UNCHANGED vars
  BY <1>15, <1>4 DEF vars, fileVars, keyVars
<1> QED BY <1>1, <1>2, <1>3, <1>5, <1>6, <1>7, <1>8, <1>9, <1>10, <1>11, <1>12, <1>13, <1>14, <1>15 DEF Next

(* A wrapped key opens for as long as its master key is neither regenerated *)
(* nor destroyed, whatever else is stored and wherever the process ends and *)
(* starts again, on a disk that takes what is written to a key file         *)
(* (store_key and load_key_internal of LocalKeyStore, HsmClientStub).       *)
THEOREM EncryptedFile_WrapSurvives ==
  ASSUME ~DiskFull
  PROVE  Spec => []WrapSurvives
<1>1. KeyInv /\ [Next]_vars => KeyInv'
  BY KeyStep
<1>2. Init => KeyInv
  BY KeyInit
<1>3. KeyInv => WrapSurvives
  BY DEF KeyInv, WrapSurvives, Opens
<1> QED BY <1>1, <1>2, <1>3, PTL DEF Spec
=============================================================================
