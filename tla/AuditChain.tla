---------------------------- MODULE AuditChain ----------------------------
(***************************************************************************)
(* The hash chain of ai/audit_chain.hpp.  SHA-256 is taken as free of      *)
(* collisions: the hash of a value is a term that holds the value.  The    *)
(* all-zero hash is <<>>.                                                  *)
(***************************************************************************)
EXTENDS Integers, Sequences, SequencesExt, FiniteSets

Zeros == <<>>
Sha256(x) == <<x>>

-----------------------------------------------------------------------------
(* HashChainEntry *)

\* compute_entry_hash(): over the number, the time, and the two hashes.
EntryHash(e) == Sha256(<<e.sequence_number, e.timestamp_ns, e.prev_hash, e.data_hash>>)

\* HashChainEntry::verify()
SelfConsistent(e) == e.entry_hash = EntryHash(e)

-----------------------------------------------------------------------------
(* AuditChainWriter: [entries, last_hash, next_seq] *)

EmptyChain == [entries |-> <<>>, last_hash |-> Zeros, next_seq |-> 0]

\* Mutant: the hash of the entry is not kept for the next one.
AppendToChainForgets(c, data, ts) ==
  LET bare == [sequence_number |-> c.next_seq, timestamp_ns |-> ts, prev_hash |-> c.last_hash,
               data_hash |-> Sha256(data), entry_hash |-> Zeros]
  IN [c EXCEPT !.entries = Append(@, [bare EXCEPT !.entry_hash = EntryHash(bare)]),
               !.next_seq = @ + 1]

\* append(record, timestamp_ns)
AppendToChain(c, data, ts) ==
  LET bare == [sequence_number |-> c.next_seq, timestamp_ns |-> ts, prev_hash |-> c.last_hash,
               data_hash |-> Sha256(data), entry_hash |-> Zeros]
      e == [bare EXCEPT !.entry_hash = EntryHash(bare)]
  IN [entries |-> Append(c.entries, e), last_hash |-> e.entry_hash, next_seq |-> c.next_seq + 1]

\* reset(initial_prev_hash, initial_seq)
ResetChain(prev, seq) == [entries |-> <<>>, last_hash |-> prev, next_seq |-> seq]

\* serialize_chain(): the count and the entries, each of one unit; a cut of
\* the bytes leaves a number of whole units.
SerializeChain(c) == <<Len(c.entries)>> \o c.entries

-----------------------------------------------------------------------------
(* AuditChainVerifier *)

\* The four checks of one entry, in their order.
EntryFault(entries, i) ==
  IF entries[i].sequence_number # i - 1 THEN "sequence"
  ELSE IF entries[i].prev_hash # (IF i = 1 THEN Zeros ELSE entries[i - 1].entry_hash)
  THEN "prev_hash"
  ELSE IF ~SelfConsistent(entries[i]) THEN "entry_hash"
  ELSE IF i > 1 /\ entries[i].timestamp_ns < entries[i - 1].timestamp_ns THEN "timestamp"
  ELSE "none"

\* verify(entries): [valid, entries_checked, first_bad_index]
VerifyEntries(entries) ==
  LET bad == {i \in DOMAIN entries : EntryFault(entries, i) # "none"} IN
  IF bad = {} THEN [valid |-> TRUE, entries_checked |-> Len(entries), first_bad_index |-> -1]
  ELSE LET i == CHOOSE k \in bad : \A l \in bad : k <= l IN
       [valid |-> FALSE, entries_checked |-> i - 1, first_bad_index |-> i - 1]

\* verify(chain_data, chain_size)
VerifyBytes(units) ==
  IF units = <<>> \/ Len(units) < 1 + units[1]
  THEN [valid |-> FALSE, entries_checked |-> 0, first_bad_index |-> -1]
  ELSE VerifyEntries(SubSeq(units, 2, 1 + units[1]))

\* verify_continuity(file1_last_hash, file2_entries)
VerifyContinuity(last, entries) == entries = <<>> \/ entries[1].prev_hash = last

\* verify_entry(entry, expected_prev_hash)
VerifyEntry(e, prev) == e.prev_hash = prev /\ SelfConsistent(e)

\* deserialize_and_verify_chain(): the entries, or HASH_CHAIN_BROKEN
DeserializeAndVerify(units) ==
  IF VerifyBytes(units).valid
  THEN [ok |-> TRUE, entries |-> SubSeq(units, 2, 1 + units[1])]
  ELSE [ok |-> FALSE, entries |-> <<>>]

-----------------------------------------------------------------------------
(* AuditMetadata: a list of tokens <<key, value, reads>>; reads says       *)
(* whether the text is that of a number or a hash.                         *)

\* build_audit_metadata(writer, chain_id)
BuildMetadata(c, id) ==
  IF c.entries = <<>> THEN [ok |-> FALSE, meta |-> <<>>]
  ELSE [ok |-> TRUE,
        meta |-> [chain_id |-> id, start_seq |-> Head(c.entries).sequence_number,
                  end_seq |-> Last(c.entries).sequence_number,
                  first_prev |-> Head(c.entries).prev_hash,
                  last_hash |-> Last(c.entries).entry_hash]]

MetaKeys == <<"chain_id", "start_seq", "end_seq", "first_prev", "last_hash">>

\* serialize(): "key=value" tokens between semicolons; created_by comes last
SerializeMeta(m) ==
  [i \in 1 .. 6 |-> IF i = 6 THEN <<"created_by", "signet", FALSE>> ELSE <<MetaKeys[i], m[MetaKeys[i]], TRUE>>]

\* Required keys that no token has.
MetaMissing(tokens) == {k \in ToSet(MetaKeys) : \A t \in ToSet(tokens) : t[1] # k}

\* find_key(): the first token with a key counts.
FindKey(tokens, k) == Head(SelectSeq(tokens, LAMBDA t : t[1] = k))

\* deserialize(): every required key is there; stoll and hex_to_hash read all but the chain_id.
DeserializeMeta(tokens) ==
  IF MetaMissing(tokens) # {} \/ \E k \in ToSet(MetaKeys) \ {"chain_id"} : ~FindKey(tokens, k)[3]
  THEN [ok |-> FALSE, meta |-> <<>>]
  ELSE [ok |-> TRUE, meta |-> [k \in ToSet(MetaKeys) |-> FindKey(tokens, k)[2]]]
=============================================================================
