------------------------------ MODULE KeyStore ------------------------------
(***************************************************************************)
(* The two key services behind IKmsClient, crypto/hsm_client_stub.hpp and  *)
(* crypto/kms_local.hpp, and the CryptoShredder of crypto/key_metadata.hpp.*)
(* A key is [size, seed]: its length in bytes and where its bits come from.*)
(* AES key wrap and HKDF are terms: what was wrapped under one key cannot  *)
(* be unwrapped under another, and different inputs derive different keys. *)
(***************************************************************************)
EXTENDS Integers, Sequences, FiniteSets, TLC

CONSTANT DiskFull       \* TRUE: a key file may be opened and yet take no bytes

NoKey == [size |-> 0, seed |-> <<>>]
NoId  == ""
RawKey(name) == [size |-> 32, seed |-> <<name>>]
ShortKey     == [size |-> 16, seed |-> <<"short">>]

\* hkdf_extract and hkdf_expand to 32 bytes: extract takes the key and the
\* salt, expand the info; equal inputs give equal keys, others do not.
Hkdf(key, salt, info) == [size |-> 32, seed |-> <<key, salt, info>>]

\* The map f with v under k.
Put(f, k, v) == [x \in {k} \cup DOMAIN f |-> IF x = k THEN v ELSE f[x]]

Answer(v) == [ok |-> TRUE, v |-> v]
NoAnswer  == [ok |-> FALSE, v |-> <<>>]

-----------------------------------------------------------------------------
(* namespace detail::aes_key_wrap *)

Wrap(kek, key) ==
  IF key.size < 16 \/ key.size % 8 # 0 THEN NoAnswer
  ELSE Answer(<<[kek |-> kek, key |-> key]>>)

\* <<>> is what a truncated file holds: shorter than 24 bytes.
Unwrap(kek, w) ==
  IF w = <<>> THEN NoAnswer
  ELSE IF w[1].kek # kek THEN NoAnswer
  ELSE Answer(w[1].key)

-----------------------------------------------------------------------------
(* A key service ks is [kind, keks, kek, cache, files, writing]: the keys   *)
(* of the HSM stub; the key-encryption key, the cached master keys and the *)
(* key files of a LocalKeyStore, and the key it is storing.                *)

\* derive_kek: PBKDF2 and HKDF of the passphrase.
DeriveKek(passphrase) == Hkdf(RawKey(passphrase), <<"salt">>, <<"kek">>)

OpenStore(files, passphrase) ==
  [kind |-> "local", keks |-> <<>>, kek |-> DeriveKek(passphrase), cache |-> <<>>,
   files |-> files, writing |-> <<>>]

NewHsm == [kind |-> "hsm", keks |-> <<>>, kek |-> NoKey, cache |-> <<>>,
           files |-> <<>>, writing |-> <<>>]

RegisterKek(ks, id, key) ==
  IF key.size # 32 THEN ks ELSE [ks EXCEPT !.keks = Put(@, id, key)]

\* load_key_internal: the cache, else the file.
LoadKey(ks, id) ==
  IF id \in DOMAIN ks.cache THEN Answer(ks.cache[id])
  ELSE IF id \notin DOMAIN ks.files THEN NoAnswer
  ELSE Unwrap(ks.kek, ks.files[id])

Cached(ks, id) ==
  IF LoadKey(ks, id).ok THEN [ks EXCEPT !.cache = Put(@, id, LoadKey(ks, id).v)] ELSE ks

MasterKey(ks, id) ==
  IF ks.kind = "local" THEN LoadKey(ks, id)
  ELSE IF id \in DOMAIN ks.keks THEN Answer(ks.keks[id]) ELSE NoAnswer

AfterUse(ks, id) == IF ks.kind = "local" THEN Cached(ks, id) ELSE ks

\* wrap_key and unwrap_key; AfterUse is the service behind either call.
WrapKey(ks, id, dek) ==
  IF ~MasterKey(ks, id).ok THEN NoAnswer ELSE Wrap(MasterKey(ks, id).v, dek)

UnwrapKey(ks, id, w) ==
  IF ~MasterKey(ks, id).ok THEN NoAnswer ELSE Unwrap(MasterKey(ks, id).v, w)

\* generate_key: store_key truncates the file, writes it without looking at the
\* stream, and puts the key into the cache.
OpenKeyFile(ks, id, key) ==
  [ks EXCEPT !.files = Put(@, id, <<>>), !.writing = <<[id |-> id, key |-> key]>>]

\* Mutant: the wrapped key is kept in memory only.
WriteKeyFileLater(ks, taken) ==
  LET w == ks.writing[1] IN
  [ks EXCEPT !.cache = Put(@, w.id, w.key), !.writing = <<>>]

WriteKeyFile(ks, taken) ==
  LET w == ks.writing[1]
      wrapped == Wrap(ks.kek, w.key).v
  IN [ks EXCEPT !.files[w.id] = IF taken THEN wrapped ELSE <<>>,
                !.cache = Put(@, w.id, w.key), !.writing = <<>>]

Without(f, id) == [i \in DOMAIN f \ {id} |-> f[i]]

DestroyKey(ks, id) ==
  [ks EXCEPT !.cache = Without(@, id), !.files = Without(@, id)]

HasKey(ks, id) == id \in DOMAIN ks.cache \cup DOMAIN ks.files

-----------------------------------------------------------------------------
(* CryptoShredder: [keys, shredded] *)

NewShredder == [keys |-> <<>>, shredded |-> {}]

RegisterSubject(sh, subject, dek) ==
  IF subject = NoId \/ subject \in DOMAIN sh.keys THEN sh
  ELSE [sh EXCEPT !.keys = Put(@, subject, dek)]

SubjectKey(sh, subject) ==
  IF subject \in DOMAIN sh.keys THEN Answer(sh.keys[subject]) ELSE NoAnswer

\* Mutant: the subject is marked, its key is left.
ShredMarkOnly(sh, subject) ==
  IF subject \notin DOMAIN sh.keys THEN sh ELSE [sh EXCEPT !.shredded = @ \cup {subject}]

Shred(sh, subject) ==
  IF subject \notin DOMAIN sh.keys THEN sh
  ELSE [sh EXCEPT !.keys = Without(@, subject), !.shredded = @ \cup {subject}]
=============================================================================
