------------------------- MODULE ComplianceReports -------------------------
(***************************************************************************)
(* MiFID2Reporter (ai/compliance/mifid2_reporter.hpp), EUAIActReporter and *)
(* Art15MetricsCalculator (ai/compliance/eu_ai_act_reporter.hpp).  A       *)
(* report is the values that its JSON or CSV shows; how they are laid out  *)
(* and escaped is left out.  An average is kept as a sum and a count.      *)
(*                                                                         *)
(* An order of records is a permutation of their indices: std::sort leaves *)
(* records of equal timestamps in any order.                               *)
(***************************************************************************)
EXTENDS AuditLog, TLC

Failed == [ok |-> FALSE]

-----------------------------------------------------------------------------
(* Reading the log files *)

\* Mutant: the end of the period is taken as exclusive.
InPeriodHalfOpen(rec, opts) == rec.timestamp_ns >= opts.start_ns /\ rec.timestamp_ns < opts.end_ns

InPeriod(rec, opts) == rec.timestamp_ns >= opts.start_ns /\ rec.timestamp_ns <= opts.end_ns

\* The loop over the files that each generator has: the chain's verdict, the
\* identifier from the first file, and the records of the period.  read_all()
\* repeats a check that open() has made, so its error branch adds nothing.
Gather(files, opts) ==
  IF \E i \in DOMAIN files : ~CanOpen(files[i]) THEN Failed
  ELSE [ok |-> TRUE,
        chain_ok |-> opts.verify_chain => \A i \in DOMAIN files : VerifyChain(files[i]).valid,
        chain_id |-> IF files = <<>> THEN "" ELSE files[1].meta.chain_id,
        records |-> FlattenSeq([i \in DOMAIN files |->
                      SelectSeq(ReadAll(files[i]), LAMBDA r : InPeriod(r, opts))])]

\* The orders that std::sort by timestamp may leave.
SortedOrders(records) ==
  {p \in [DOMAIN records -> DOMAIN records] :
     /\ IsInjective(p)
     /\ \A i, j \in DOMAIN records :
          i < j => records[p[i]].timestamp_ns <= records[p[j]].timestamp_ns}

InOrderOf(records, p) == [i \in DOMAIN records |-> records[p[i]]]

Skeleton(standard, total, chain_ok, chain_id) ==
  [standard |-> standard, total_records |-> total, chain_verified |-> chain_ok,
   chain_id |-> chain_id, incomplete_data |-> FALSE]

-----------------------------------------------------------------------------
(* MiFID II RTS 24 *)

\* ns_to_iso8601(ns, granularity): digits below the unit are cut off; what
\* is not positive is shown as the epoch.
IsoTime(ns, unit) == IF ns <= 0 THEN 0 ELSE ns - (ns % unit)

\* record_to_json_line(): what every format shows of a record
LineFields ==
  {"order_id", "strategy_id", "model_version", "symbol", "venue", "decision_type", "price",
   "quantity", "risk_result", "model_output", "confidence", "buy_sell", "order_type",
   "time_in_force", "isin", "currency", "short_selling_flag", "aggregated_order"}

JsonLine(rec, opts) ==
  [n \in LineFields \cup {"ts"} |->
     IF n = "ts" THEN IsoTime(rec.timestamp_ns, opts.granularity) ELSE rec[n]]

\* The firm is the strategy's number when the options name none.
Firm(rec, opts) == IF opts.firm_id = 0 THEN rec.strategy_id ELSE opts.firm_id

\* format_csv(): one row; the columns of the chain stay empty
CsvRow(rec, opts) ==
  JsonLine(rec, opts) @@ [firm |-> Firm(rec, opts), parent_order_id |-> rec.parent_order_id]

\* format_json(): one object; three of its members are there only when set
JsonObject(rec, opts) ==
  LET optional == (IF rec.validity_period_ns > 0 THEN {"validity_period_ns"} ELSE {})
                  \cup (IF rec.parent_order_id # <<>> THEN {"parent_order_id"} ELSE {})
                  \cup (IF opts.include_features /\ rec.input_features # <<>>
                        THEN {"input_features"} ELSE {}) IN
  JsonLine(rec, opts) @@ [firm |-> Firm(rec, opts)]
    @@ [n \in optional \cup {"notes"} |-> rec[n]]

AnnexFields(rec, opts) ==
  CASE opts.format = "JSON"   -> JsonObject(rec, opts)
    [] opts.format = "NDJSON" -> JsonLine(rec, opts)
    [] opts.format = "CSV"    -> CsvRow(rec, opts)

MiFID2Generate(files, opts, licensed, p) ==
  LET g == Gather(files, opts) IN
  IF ~licensed \/ files = <<>> \/ ~g.ok THEN Failed
  ELSE [ok |-> TRUE,
        report |-> Skeleton("MIFID2_RTS24", Len(g.records), g.chain_ok, g.chain_id),
        body |-> LET s == InOrderOf(g.records, p)
                 IN [i \in DOMAIN s |-> AnnexFields(s[i], opts)]]

-----------------------------------------------------------------------------
(* compute_perf() *)

Numbers(records, field) == [i \in DOMAIN records |-> records[i][field]]
Total(s) == FoldLeft(LAMBDA a, x : a + x, 0, s)
CountIf(s, Test(_)) == Len(SelectSeq(s, Test))
Ascending(s) == SortSeq(s, LAMBDA a, b : a < b)

\* pct(): p in hundredths of the last index, rounded down
PercentileOf(s, p) == Ascending(s)[1 + (p * (Len(s) - 1)) \div 100]

\* n times the deviation from the mean, and n * n times the variance
Deviation(s, x) == Len(s) * x - Total(s)
Variance(s) == LET n == Len(s) IN n * Total([i \in DOMAIN s |-> s[i] * s[i]]) - Total(s) * Total(s)

\* latency > mean + 3 sigma, without the square root
IsAnomaly(s, x) == Deviation(s, x) > 0 /\ Deviation(s, x) * Deviation(s, x) > 9 * Variance(s)

Fewest(S) == CHOOSE x \in S : \A y \in S : x <= y
Most(S)   == CHOOSE x \in S : \A y \in S : x >= y

\* mean + 3 sigma, cut to an integer
ThresholdFloor(s) == Most({t \in 0 .. 4 * Most(ToSet(s)) : ~IsAnomaly(s, t)})

\* The flag of a record in an Article 12 report.
FlagsAnomaly(s, x) == x > ThresholdFloor(s)

NoPerf == [total |-> 0, sum_latency |-> 0, p50 |-> 0, p95 |-> 0, p99 |-> 0, sum_score |-> 0,
           low |-> 0, anomalies |-> 0, in_tokens |-> 0, out_tokens |-> 0, batches |-> 0]

ComputePerf(records, threshold) ==
  LET lat == Numbers(records, "latency_ns")
      score == Numbers(records, "output_score") IN
  IF records = <<>> THEN NoPerf
  ELSE [total |-> Len(records), sum_latency |-> Total(lat), sum_score |-> Total(score),
        p50 |-> PercentileOf(lat, 50), p95 |-> PercentileOf(lat, 95), p99 |-> PercentileOf(lat, 99),
        low |-> CountIf(score, LAMBDA x : x < threshold),
        anomalies |-> CountIf(lat, LAMBDA x : IsAnomaly(lat, x)),
        in_tokens |-> Total(Numbers(records, "input_tokens")),
        out_tokens |-> Total(Numbers(records, "output_tokens")),
        batches |-> Total(Numbers(records, "batch_size"))]

-----------------------------------------------------------------------------
(* EU AI Act *)

\* format_article12_json: the summary, and each record with its flag
Article12Body(records, opts) ==
  [perf |-> ComputePerf(records, opts.threshold),
   records |-> [i \in DOMAIN records |->
     [ts |-> records[i].timestamp_ns, model |-> records[i].model_id,
      version |-> records[i].model_version, type |-> records[i].inference_type,
      input |-> records[i].input_hash, output |-> records[i].output_hash,
      score |-> records[i].output_score, latency |-> records[i].latency_ns,
      anomaly |-> FlagsAnomaly(Numbers(records, "latency_ns"), records[i].latency_ns)]]]

GenerateArticle12(files, opts, licensed, p) ==
  LET g == Gather(files, opts) IN
  IF ~licensed \/ opts.format # "JSON" \/ files = <<>> \/ ~g.ok THEN Failed
  ELSE [ok |-> TRUE,
        report |-> Skeleton("EU_AI_ACT_ART12", Len(g.records), g.chain_ok, g.chain_id),
        body |-> Article12Body(InOrderOf(g.records, p), opts)]

\* The first text that is not empty.
FirstSet(texts) ==
  LET set == SelectSeq(texts, LAMBDA d : d # <<>>) IN IF set = <<>> THEN <<>> ELSE Head(set)

\* format_article13_json: types are counted for the values below 8; a
\* version is shown when it differs from the one before it.
Article13Body(records, opts) ==
  [perf |-> ComputePerf(records, opts.threshold),
   types |-> {t \in 0 .. 7 : \E i \in DOMAIN records : records[i].inference_type = t},
   versions |-> LET vs == Numbers(records, "model_version")
                    new == SelectSeq([i \in DOMAIN vs |-> i], LAMBDA i :
                             vs[i] # (IF i = 1 THEN <<>> ELSE vs[i - 1]))
                IN [i \in DOMAIN new |-> vs[new[i]]],
   purpose |-> IF opts.purpose = "" THEN "not specified" ELSE opts.purpose,
   training |-> [id |-> FirstSet(Numbers(records, "training_dataset_id")),
                 size |-> Most(ToSet(Numbers(records, "training_dataset_size")) \cup {0}),
                 characteristics |-> FirstSet(Numbers(records, "training_data_characteristics"))]]

GenerateArticle13(files, opts, licensed) ==
  LET g == Gather(files, opts) IN
  IF ~licensed \/ files = <<>> \/ ~g.ok THEN Failed
  ELSE [ok |-> TRUE,
        report |-> Skeleton("EU_AI_ACT_ART13", Len(g.records), g.chain_ok, g.chain_id),
        body |-> Article13Body(g.records, opts)]

\* format_article19_json
Article19Body(dec, inf, opts, dec_ok, inf_ok) ==
  [conformant |-> dec_ok /\ inf_ok, decisions |-> Len(dec),
   orders |-> CountIf(dec, LAMBDA r : r.decision_type = 1),
   rejected |-> CountIf(dec, LAMBDA r : r.risk_result = 1),
   overrides |-> CountIf(dec, LAMBDA r : r.decision_type = 6),
   perf |-> ComputePerf(inf, opts.threshold)]

\* The cross-check of the two logs' chain identifiers.
SameAuditContext(d, i, opts) ==
  opts.verify_chain /\ d.chain_id # "" /\ i.chain_id # "" => d.chain_id = i.chain_id

GenerateArticle19(decision_files, inference_files, opts, licensed) ==
  LET d == Gather(decision_files, opts)
      i == Gather(inference_files, opts) IN
  IF ~licensed \/ (decision_files = <<>> /\ inference_files = <<>>) THEN Failed
  ELSE IF ~d.ok \/ ~i.ok THEN Failed
  ELSE IF ~SameAuditContext(d, i, opts) THEN Failed
  ELSE [ok |-> TRUE,
        report |-> Skeleton("EU_AI_ACT_ART19", Len(d.records) + Len(i.records),
                            d.chain_ok /\ i.chain_ok,
                            IF d.chain_id = "" THEN i.chain_id ELSE d.chain_id),
        body |-> Article19Body(d.records, i.records, opts, d.chain_ok, i.chain_ok)]

-----------------------------------------------------------------------------
(* Art15MetricsCalculator::compute.  Scores are in hundredths; the Population *)
(* Stability Index, a sum of logarithms from twenty records on, is left out.  *)

\* percentile(): between the two neighbours, in halves for the median
MedianTwice(s) ==
  LET a == Ascending(s)
      lo == (Len(s) - 1) \div 2 IN
  IF lo + 1 >= Len(s) THEN 2 * Last(a)
  ELSE IF Len(s) % 2 = 1 THEN 2 * a[lo + 1] ELSE a[lo + 1] + a[lo + 2]

\* The period starts at the first timestamp after which none is smaller; 0
\* stands for "not set yet".
PeriodStart(ts) ==
  FoldLeft(LAMBDA s, t : IF s = 0 \/ t < s THEN t ELSE s, 0, ts)

Art15Compute(records, threshold) ==
  LET score == Numbers(records, "output_score")
      lat == Numbers(records, "latency_ns")
      ts == Numbers(records, "timestamp_ns") IN
  [total |-> Len(records), low |-> CountIf(score, LAMBDA x : x < threshold),
   min |-> Fewest(ToSet(score) \cup {100}), max |-> Most(ToSet(score) \cup {0}),
   median2 |-> MedianTwice(score), sum_score |-> Total(score),
   mean_latency |-> Total(lat) \div Len(records),
   p50 |-> PercentileOf(lat, 50), p95 |-> PercentileOf(lat, 95), p99 |-> PercentileOf(lat, 99),
   max_latency |-> Last(Ascending(lat)),
   versions |-> Cardinality(ToSet(Numbers(records, "model_version"))),
   period_start |-> PeriodStart(ts), period_end |-> Most(ToSet(ts) \cup {0})]
=============================================================================
