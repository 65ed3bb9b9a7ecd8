----------------------------- MODULE AuditLog -----------------------------
(***************************************************************************)
(* DecisionLogWriter/Reader (ai/decision_log.hpp), InferenceLogWriter/     *)
(* Reader (ai/inference_log.hpp) and HumanOverrideLogWriter/Reader         *)
(* (ai/human_oversight.hpp), which differ in their record only, and        *)
(* RowLineageTracker (ai/row_lineage.hpp).                                 *)
(*                                                                         *)
(* A file is named by the chain, its first and its last sequence number.   *)
(* That a Parquet file brings back the rows written to it is the subject   *)
(* of ParquetFile; here a file is its metadata and its rows.               *)
(***************************************************************************)
EXTENDS AuditRecords, AuditChain

-----------------------------------------------------------------------------
(* RowLineageTracker: [next_row_id, prev_hash] *)

FreshLineage == [next_row_id |-> 0, prev_hash |-> Zeros]

\* next(): the hash runs over the previous hash and the row
AdvanceLineage(l, data) ==
  [next_row_id |-> l.next_row_id + 1, prev_hash |-> Sha256(<<l.prev_hash, data>>)]

\* The trackers before each of the rows of a flush and after the last.
Lineages(l, datas) ==
  LET before[i \in 1 .. Len(datas) + 1] ==
        IF i = 1 THEN l ELSE AdvanceLineage(before[i - 1], datas[i - 1])
  IN before

-----------------------------------------------------------------------------
(* The writer.  pending holds a record with its entry and its bytes.       *)

NewLog(kind, id, max) ==
  [kind |-> kind, chain_id |-> id, max_records |-> max, chain |-> EmptyChain,
   pending |-> <<>>, lineage |-> FreshLineage, total |-> 0, file_count |-> 0]

Entries(ps) == [i \in DOMAIN ps |-> ps[i].entry]
Datas(ps)   == [i \in DOMAIN ps |-> ps[i].data]

FileName(w) ==
  [kind |-> w.kind, chain_id |-> w.chain_id, start |-> Head(w.pending).entry.sequence_number,
   end |-> Last(w.pending).entry.sequence_number]

\* current_metadata(), as to_key_values() puts it in the footer
CurrentMetadata(w) ==
  LET e == Entries(w.pending)
      h == w.chain.entries IN
  IF e # <<>>
  THEN [chain_id |-> w.chain_id, first_seq |-> Head(e).sequence_number,
        last_seq |-> Last(e).sequence_number, first_hash |-> Head(e).entry_hash,
        last_hash |-> Last(e).entry_hash, prev_file_hash |-> Head(e).prev_hash,
        record_count |-> Len(e)]
  ELSE IF h # <<>>
  THEN [chain_id |-> w.chain_id, first_seq |-> Last(h).sequence_number,
        last_seq |-> Last(h).sequence_number, first_hash |-> Last(h).entry_hash,
        last_hash |-> Last(h).entry_hash, prev_file_hash |-> Zeros, record_count |-> 0]
  ELSE [chain_id |-> w.chain_id, first_seq |-> 0, last_seq |-> 0, first_hash |-> Zeros,
        last_hash |-> Zeros, prev_file_hash |-> Zeros, record_count |-> 0]

\* The cells of one row: the record's, the chain's and the lineage's.
RowOf(w, i, lineage) ==
  [cells |-> ToRow(w.kind, w.pending[i].rec), chain_seq |-> w.pending[i].entry.sequence_number,
   chain_hash |-> w.pending[i].entry.entry_hash, prev_hash |-> w.pending[i].entry.prev_hash,
   row_id |-> lineage.next_row_id, row_prev_hash |-> lineage.prev_hash]

\* How a flush ends: "open" leaves no file; "row" and "close" leave one
\* without a footer, the rows having gone through the tracker; "silent" leaves
\* the same, but close() does not look at the stream and reports success.
FlushOutcomes == {"ok", "open", "row", "close", "silent"}

\* The file of a flush: readable when its footer was written.  lost is history:
\* flush() reported success of a file that does not open.
FileOf(w, outcome) ==
  LET ls == Lineages(w.lineage, Datas(w.pending)) IN
  [name |-> FileName(w), meta |-> CurrentMetadata(w), readable |-> outcome = "ok",
   lost |-> outcome = "silent",
   rows |-> IF outcome = "ok" THEN [i \in DOMAIN w.pending |-> RowOf(w, i, ls[i])] ELSE <<>>]

\* Mutant: the buffers are cleared before the file is closed.
FlushLogEarlyClear(w, disk, outcome) ==
  LET done == [w EXCEPT !.pending = <<>>, !.file_count = @ + 1]
      ls == Lineages(w.lineage, Datas(w.pending)) IN
  IF w.pending = <<>> THEN [ok |-> TRUE, w |-> w, disk |-> disk]
  ELSE IF outcome # "ok" THEN [ok |-> FALSE, w |-> done, disk |-> disk]
  ELSE [ok |-> TRUE, w |-> [done EXCEPT !.lineage = Last(ls)],
        disk |-> {f \in disk : f.name # FileName(w)} \cup {FileOf(w, "ok")}]

\* flush(): [ok, w, disk]
FlushLog(w, disk, outcome) ==
  LET others == {f \in disk : f.name # FileName(w)}
      ls == Lineages(w.lineage, Datas(w.pending)) IN
  IF w.pending = <<>> THEN [ok |-> TRUE, w |-> w, disk |-> disk]
  ELSE IF outcome = "open" THEN [ok |-> FALSE, w |-> w, disk |-> disk]
  ELSE IF outcome \in {"ok", "silent"}
  THEN [ok |-> TRUE, disk |-> others \cup {FileOf(w, outcome)},
        w |-> [w EXCEPT !.pending = <<>>, !.lineage = Last(ls), !.file_count = @ + 1]]
  ELSE [ok |-> FALSE, disk |-> others \cup {FileOf(w, outcome)},
        w |-> [w EXCEPT !.lineage = IF outcome = "row" THEN ls[2] ELSE Last(ls)]]

\* log(record): usage and the instrument validator may refuse it before
\* anything changes.  now is what now_ns() would return.
LogRecord(w, disk, rec, refused, now, outcome) ==
  LET data == Serialize(w.kind, rec)
      ts == IF rec.timestamp_ns = 0 THEN now ELSE rec.timestamp_ns
      chain == AppendToChain(w.chain, data, ts)
      w1 == [w EXCEPT !.chain = chain,
                      !.pending = Append(@, [rec |-> rec, entry |-> Last(chain.entries),
                                             data |-> data])]
      r == FlushLog(w1, disk, outcome) IN
  IF refused THEN [ok |-> FALSE, w |-> w, disk |-> disk]
  ELSE IF Len(w1.pending) < w.max_records
  THEN [ok |-> TRUE, w |-> [w1 EXCEPT !.total = @ + 1], disk |-> disk]
  ELSE IF r.ok THEN [r EXCEPT !.w.total = @ + 1]
  ELSE r

\* The constructor's checks: an output directory, no ".." in it, and a chain
\* identifier of letters, digits, '_' and '-'.
LogArgumentsOk(dir, id) == dir.segments # <<>> /\ ".." \notin ToSet(dir.segments) /\ id.plain

-----------------------------------------------------------------------------
(* The reader *)

\* load_columns() and validate_loaded_columns(): every column has as many
\* rows as the first; a file without a footer does not open.
CanOpen(file) == file.readable

\* read_all()
ReadAll(file) == [i \in DOMAIN file.rows |-> FromRow(file.name.kind, file.rows[i].cells)]

\* The entry that verify_chain() builds from a row: the record is hashed anew.
EntryFromRow(kind, row) ==
  [sequence_number |-> row.chain_seq, timestamp_ns |-> row.cells["timestamp_ns"],
   prev_hash |-> row.prev_hash, entry_hash |-> row.chain_hash,
   data_hash |-> Sha256(Serialize(kind, FromRow(kind, row.cells)))]

\* Mutant: the record is not hashed anew, the entry is taken as it says.
VerifyChainTrusting(file) ==
  VerifyEntries([i \in DOMAIN file.rows |->
    LET e == EntryFromRow(file.name.kind, file.rows[i])
    IN [e EXCEPT !.entry_hash = EntryHash(e)]])

\* verify_chain()
VerifyChain(file) ==
  VerifyEntries([i \in DOMAIN file.rows |-> EntryFromRow(file.name.kind, file.rows[i])])
=============================================================================
