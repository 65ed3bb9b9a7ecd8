--------------------------- MODULE MCAuditTrail ---------------------------
(* A small instance of AuditTrail: three decisions, two inferences and two *)
(* overrides, files of one or two records, one failed flush, one restart,  *)
(* one edit.                                                               *)
EXTENDS AuditTrail

Decision(ts, type, vec, sell) ==
  [DefaultRecord("decision") EXCEPT
     !.timestamp_ns = ts, !.decision_type = type, !.input_features = vec, !.buy_sell = sell,
     !.symbol = <<5>>, !.price = 7, !.parent_order_id = <<3>>,
     !.isin = IF sell = 0 THEN <<>> ELSE <<1, 2>>]

Plainly(r) == [r EXCEPT !.parent_order_id = <<>>]

Inference(ts, lat, data) ==
  [DefaultRecord("inference") EXCEPT
     !.timestamp_ns = ts, !.latency_ns = lat, !.model_id = <<1>>, !.output_score = 40 + lat,
     !.input_embedding = <<2, 4>>, !.training_dataset_id = data, !.inference_type = 255]

\* An override whose rationale is longer than the other records' strings may be.
Override(ts, act, why) ==
  [DefaultRecord("override") EXCEPT
     !.timestamp_ns = ts, !.action = act, !.operator_id = <<6>>, !.rationale = why, !.urgency = 1]

MCRecords ==
  [decision |-> {Plainly(Decision(1, 1, <<2>>, 0)), Plainly(Decision(2, 6, <<>>, 0)),
                 Decision(0, 1, <<3>>, 1)},
   inference |-> {Inference(1, 10, <<>>), Inference(2, 20, <<>>)},
   override |-> {Override(1, 2, <<>>), Override(2, 1, <<1, 2, 3, 4>>)}]

MCMonitor == [window_ns |-> 2, alert_threshold |-> 2, auto_halt |-> TRUE]

\* Two log files and one of another suffix.
MCLogDir ==
  {[path |-> "a", mod_time_ns |-> 0, size_bytes |-> 5, managed |-> TRUE],
   [path |-> "b", mod_time_ns |-> 2, size_bytes |-> 3, managed |-> TRUE],
   [path |-> "c", mod_time_ns |-> 0, size_bytes |-> 1, managed |-> FALSE]}

MCPolicies ==
  [archive_after_ns : {1, 3}, max_retention_ns : {2}, enable_deletion : BOOLEAN,
   enable_archival : BOOLEAN, has_archive_cb : BOOLEAN, has_pre_delete_cb : BOOLEAN]

Opts(s, verify, format, licensed) ==
  [start_ns |-> s, end_ns |-> 2, verify_chain |-> verify, format |-> format,
   firm_id |-> IF format = "NDJSON" THEN 9 ELSE 0, granularity |-> IF format = "CSV" THEN 2 ELSE 1,
   include_features |-> verify, threshold |-> 50, purpose |-> "", licensed |-> licensed]

MCOpts == {Opts(0, TRUE, "JSON", TRUE), Opts(2, FALSE, "CSV", TRUE), Opts(1, TRUE, "NDJSON", TRUE),
           Opts(0, TRUE, "JSON", FALSE)}

\* Eleven usual latencies and an unusual one, and short samples.
Sample(lats) == [i \in DOMAIN lats |-> Inference(i, lats[i], <<>>)]
MCSamples ==
  {Sample([i \in 1 .. 11 |-> IF i = k THEN x ELSE 1 + (i % b)]) :
     k \in {1, 6, 11}, x \in {1, 4, 12, 40}, b \in {1, 2, 4}}
  \cup {Sample(l) : l \in UNION {[1 .. n -> {1, 3, 90}] : n \in 1 .. 4}}
=============================================================================
