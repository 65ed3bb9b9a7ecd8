--------------------------- MODULE AuditRecords ---------------------------
(***************************************************************************)
(* DecisionRecord (ai/decision_log.hpp), InferenceRecord                   *)
(* (ai/inference_log.hpp) and HumanOverrideRecord (ai/human_oversight.hpp):*)
(* the bytes that are hashed into the audit chain, and the rows of the     *)
(* Parquet files that keep only some of the fields.                        *)
(*                                                                         *)
(* Bytes are counted in cells of four: an int32, a float or a length is    *)
(* one cell, an int64 or a double two, and a string of n cells has the     *)
(* length n before it.                                                     *)
(***************************************************************************)
EXTENDS Integers, Sequences, SequencesExt, FiniteSets, FiniteSetsExt

CONSTANT MaxStringLen       \* MAX_STRING_LEN

(* The fields in the order of serialize(): name, type, and the group they  *)
(* are read in.  Group 0 is read always, the others when bytes are left.   *)
F(name, type, group) == [name |-> name, type |-> type, group |-> group]

DecisionLayout ==
  << F("timestamp_ns", "i64", 0), F("strategy_id", "i32", 0), F("model_version", "str", 0),
     F("decision_type", "i32", 0), F("input_features", "vec", 0), F("model_output", "i32", 0),
     F("confidence", "i32", 0), F("risk_result", "i32", 0), F("order_id", "str", 0),
     F("symbol", "str", 0), F("price", "i64", 0), F("quantity", "i64", 0),
     F("venue", "str", 0), F("notes", "str", 0),
     F("buy_sell", "i32", 1), F("order_type", "i32", 1), F("time_in_force", "i32", 1),
     F("isin", "str", 1), F("currency", "str", 1), F("short_selling_flag", "i32", 1),
     F("aggregated_order", "i32", 1), F("validity_period_ns", "i64", 1),
     F("parent_order_id", "str", 1) >>

InferenceLayout ==
  << F("timestamp_ns", "i64", 0), F("model_id", "str", 0), F("model_version", "str", 0),
     F("inference_type", "i32", 0), F("input_embedding", "vec", 0), F("input_hash", "str", 0),
     F("output_hash", "str", 0), F("output_score", "i32", 0), F("latency_ns", "i64", 0),
     F("batch_size", "i32", 0), F("input_tokens", "i32", 0), F("output_tokens", "i32", 0),
     F("user_id_hash", "str", 0), F("session_id", "str", 0), F("metadata_json", "str", 0),
     F("training_dataset_id", "str", 1), F("training_dataset_size", "i64", 1),
     F("training_data_characteristics", "str", 1),
     F("model_training_end_ns", "i64", 2), F("model_training_data_cutoff_ns", "i64", 2),
     F("model_retraining_schedule", "str", 2) >>

OverrideLayout ==
  << F("timestamp_ns", "i64", 0), F("operator_id", "str", 0), F("operator_role", "str", 0),
     F("source", "i32", 0), F("action", "i32", 0), F("system_id", "str", 0),
     F("original_decision_id", "str", 0), F("original_output", "str", 0),
     F("original_confidence", "i32", 0), F("override_output", "str", 0),
     F("rationale", "str", 0), F("urgency", "i32", 0) >>

Layout(kind) == CASE kind = "decision"  -> DecisionLayout
                  [] kind = "inference" -> InferenceLayout
                  [] kind = "override"  -> OverrideLayout
FieldNames(kind) == {f.name : f \in ToSet(Layout(kind))}
VecFields == {"input_features", "input_embedding"}

\* The members' initial values.
DefaultRecord(kind) ==
  [n \in FieldNames(kind) |->
     LET f == CHOOSE g \in ToSet(Layout(kind)) : g.name = n IN
     IF f.type \in {"str", "vec"} THEN <<>>
     ELSE IF n = "decision_type" THEN 7
     ELSE IF n \in {"batch_size", "source"} THEN 1 ELSE 0]

\* What an int32 read for an enumeration becomes: its value, or the first one.
Enumerator(name, v) ==
  CASE name = "decision_type" -> IF v \in 0 .. 7 THEN v ELSE 0
    [] name = "risk_result"   -> IF v \in 0 .. 3 THEN v ELSE 0
    [] name \in {"buy_sell", "source"} -> IF v \in 0 .. 2 THEN v ELSE 0
    [] name = "action"        -> IF v \in 0 .. 4 THEN v ELSE 0
    [] name \in {"order_type", "time_in_force"} -> IF v \in 0 .. 4 \cup {99} THEN v ELSE 0
    [] name = "inference_type" -> IF v \in 0 .. 6 \cup {255} THEN v ELSE 0
    [] name \in {"short_selling_flag", "aggregated_order"} -> IF v # 0 THEN 1 ELSE 0
    [] OTHER -> v

-----------------------------------------------------------------------------
(* serialize() and deserialize() *)

CellsOf(type, v) ==
  CASE type = "i32" -> <<v>>
    [] type = "i64" -> <<v, 0>>
    [] type \in {"str", "vec"} -> <<Len(v)>> \o v

Serialize(kind, rec) ==
  FlattenSeq([i \in DOMAIN Layout(kind) |->
                CellsOf(Layout(kind)[i].type, rec[Layout(kind)[i].name])])

Took(v, off) == [ok |-> TRUE, v |-> v, off |-> off]
Short(off)   == [ok |-> FALSE, v |-> 0, off |-> off]

\* An override's strings may have any length an int32 can say.
StringLimit(kind) == IF kind = "override" THEN 2147483647 ELSE MaxStringLen

\* read_le32 .. read_string at the offset off.  A string that is cut has had
\* its length read: the offset stays behind it.
ReadCells(kind, type, buf, off) ==
  CASE type = "i32" -> IF off + 1 > Len(buf) THEN Short(off) ELSE Took(buf[off + 1], off + 1)
    [] type = "i64" -> IF off + 2 > Len(buf) THEN Short(off) ELSE Took(buf[off + 1], off + 2)
    [] type \in {"str", "vec"} ->
         IF off + 1 > Len(buf) THEN Short(off)
         ELSE LET n == buf[off + 1] IN
              IF (type = "str" /\ n > StringLimit(kind)) \/ off + 1 + n > Len(buf) THEN Short(off + 1)
              ELSE Took(SubSeq(buf, off + 2, off + 1 + n), off + 1 + n)

\* A field that is missing is an error, except that the group of a
\* DecisionRecord that was added later is read as far as it goes.
MustRead(kind, group) == kind # "decision" \/ group = 0

\* One field: st = [ok, off, rec, skip], where skip is the group found empty.
ReadField(kind, buf, f, st) ==
  LET prev == st.group
      enters == f.group # prev
      skip == IF enters /\ f.group > 0 THEN st.off >= Len(buf) ELSE st.skip
      r == ReadCells(kind, f.type, buf, st.off) IN
  IF ~st.ok \/ skip THEN [st EXCEPT !.group = f.group, !.skip = skip]
  ELSE IF r.ok THEN [ok |-> TRUE, off |-> r.off, group |-> f.group, skip |-> skip,
                     rec |-> [st.rec EXCEPT ![f.name] = Enumerator(f.name, r.v)]]
  ELSE [st EXCEPT !.ok = ~MustRead(kind, f.group), !.off = r.off, !.group = f.group, !.skip = skip]

\* deserialize(): the record, or ok = FALSE for CORRUPT_PAGE.
Deserialize(kind, buf) ==
  LET st == FoldLeft(LAMBDA s, f : ReadField(kind, buf, f, s),
                     [ok |-> TRUE, off |-> 0, group |-> 0, skip |-> FALSE,
                      rec |-> DefaultRecord(kind)],
                     Layout(kind))
  IN [ok |-> st.ok, rec |-> st.rec]

\* How many cells the fields of the groups up to g take.
CellsUpTo(kind, rec, g) ==
  FoldLeft(LAMBDA n, f : IF f.group <= g THEN n + Len(CellsOf(f.type, rec[f.name])) ELSE n,
           0, Layout(kind))

-----------------------------------------------------------------------------
(* The rows of a log file *)

\* decision_log_schema(), inference_log_schema(), human_override_log_schema(): the record's columns are
\* those of group 0; the later groups are hashed and not stored.
StoredFields(kind) == {f.name : f \in {g \in ToSet(Layout(kind)) : g.group = 0}}

\* features_to_json, json_to_features: "%.8g" keeps eight digits of a float.
\* A float with a ninth digit is an odd number, and reads back as the even one below.
JsonRoundTrip(vec) == [i \in DOMAIN vec |-> vec[i] - (vec[i] % 2)]

ToRow(kind, rec) ==
  [n \in StoredFields(kind) |-> IF n \in VecFields THEN JsonRoundTrip(rec[n]) ELSE rec[n]]

\* The record that read_all() and verify_chain() build from a row.
FromRow(kind, row) ==
  [n \in FieldNames(kind) |->
     IF n \in StoredFields(kind) THEN Enumerator(n, row[n]) ELSE DefaultRecord(kind)[n]]

\* What a row brings back unchanged: no later field set, no ninth digit.
Storable(kind, rec) == FromRow(kind, ToRow(kind, rec)) = rec
=============================================================================
