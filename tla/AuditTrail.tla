---------------------------- MODULE AuditTrail ----------------------------
(***************************************************************************)
(* The audit trail at work: a process logs records, flushes them to files  *)
(* with an unreliable disk, dies and starts a new writer; someone may edit *)
(* a file; a report is made of the files.  Beside it stand the parts that  *)
(* have no file in common with it: threads that take their times from      *)
(* now_ns() and report overrides to the rate monitor, the retention of old *)
(* files, a record or a chain taken through its bytes, and the statistics  *)
(* of a report.                                                            *)
(***************************************************************************)
EXTENDS ComplianceReports, HumanOversight, LogRetention

CONSTANTS
  Records,          \* Records[kind]: the records that are logged
  Kinds,            \* "decision", "inference", "override"
  ChainIds,
  MaxRecords,       \* values of max_records
  ReuseId,          \* whether a restarted process gives its writer the same chain_id
  MaxLogged,        \* bound on the records logged
  MaxFaults,        \* bound on failed flushes and restarts
  ReportOpts,       \* values of ReportOptions
  Threads, MaxTime, \* callers of now_ns(), bound on the system clock
  MaxCalls,         \* bound on the calls of now_ns()
  MonitorOpts,      \* the OverrideRateMonitorOptions
  Policies, LogDir, \* retention policies, and the directory they are enforced on
  Samples           \* sequences of inference records for the statistics

ASSUME OversightAssumption ==
  /\ MaxTime \in Nat
  /\ MonitorOpts.window_ns \in Int /\ MonitorOpts.alert_threshold \in Int

VARIABLES
  part,     \* which part this behaviour is about
  w,        \* the log writer
  disk,     \* the files
  now,      \* what now_ns() returns next
  used,     \* kinds and chain identifiers of the writers so far
  logged,   \* records that log() put in the chain of the present writer
  written,  \* history: the readable files as flush() left them
  budget,   \* how many of the bounded events may still happen
  report,   \* the report made last, with its inputs
  job       \* the state of the other parts

vars == <<part, w, disk, now, used, logged, written, budget, report, job>>
logVars == <<w, disk, now, used, logged, written, budget, report>>

NoReport == [standard |-> "none"]

-----------------------------------------------------------------------------
(* The other parts' initial states *)

ClockInit == [last |-> 0, pc |-> [t \in Threads |-> "idle"], ns |-> [t \in Threads |-> 0],
              expected |-> [t \in Threads |-> 0], floor |-> [t \in Threads |-> 0],
              returned |-> <<>>, monitor |-> NewMonitor(MonitorOpts), calls |-> <<>>,
              began |-> [t \in Threads |-> 0]]

\* lost: the files that left the directory, with their ages then
RetentionInit(policy) ==
  [policy |-> policy, dir |-> LogDir, now |-> 0, lost |-> {}, archive |-> {}, pass |-> <<>>]

ChainOf(n) == FoldLeft(LAMBDA c, i : AppendToChain(c, <<i>>, i), EmptyChain, [i \in 1 .. n |-> i])

\* A log whose records were all written, and its files.
FinishedLog(k, id, m, recs) ==
  LET end == FoldLeft(LAMBDA s, r : LogRecord(s.w, s.disk, r, FALSE, 1, "ok"),
                      [ok |-> TRUE, w |-> NewLog(k, id, m), disk |-> {}], recs)
  IN FlushLog(end.w, end.disk, "ok").disk

Remembered(files, recs) ==
  {[file |-> f, recs |-> SubSeq(recs, f.name.start + 1, f.name.end + 1)] : f \in files}

UpTo(n, S) == UNION {[1 .. l -> S] : l \in 0 .. n}

InitLog ==
  /\ part \in {"log", "clock", "retention", "record", "chain", "stats"}
  /\ \E k \in Kinds, m \in MaxRecords, id \in {CHOOSE x \in ChainIds : TRUE} :
       /\ w = NewLog(k, id, m)
       /\ used = {<<k, id>>}
       /\ part # "log" => k = "decision" /\ m = 1
  /\ disk = {} /\ written = {}
  /\ \/ part = "log" /\ job = <<>>
     \/ part = "clock" /\ job = ClockInit
     \/ part = "retention" /\ \E policy \in Policies : job = RetentionInit(policy)
     \/ /\ part = "record"
        /\ \E k \in Kinds : \E r \in Records[k] : \E n \in 0 .. Len(Serialize(k, r)) :
             job = [kind |-> k, rec |-> r, cut |-> n]
     \/ /\ part = "chain"
        /\ \E n \in 0 .. MaxLogged + 1, cut \in 0 .. MaxLogged + 2, drop, spoil \in 0 .. 6 :
             /\ drop = 0 \/ spoil = 0
             /\ job = [n |-> n, cut |-> cut, drop |-> drop, spoil |-> spoil]
     \/ part = "stats" /\ \E s \in Samples : job = s

\* A report is made of a decision log and an inference log that are finished.
InitReport ==
  /\ part = "report" /\ job = <<>> /\ used = {}
  /\ \E m \in MaxRecords, b \in ChainIds, a \in {CHOOSE x \in ChainIds : TRUE},
        d \in UpTo(2, Records["decision"]), i \in UpTo(2, Records["inference"]) :
       /\ Len(d) + Len(i) <= MaxLogged
       /\ LET df == FinishedLog("decision", a, m, d)
              if == FinishedLog("inference", b, m, i) IN
          /\ disk = df \cup if
          /\ written = Remembered(df, d) \cup Remembered(if, i)
       /\ w = NewLog("decision", a, m)

Init ==
  /\ InitLog \/ InitReport
  /\ now = 1 /\ logged = <<>> /\ report = NoReport
  /\ budget = [records |-> MaxLogged, faults |-> MaxFaults, edits |-> 1]

-----------------------------------------------------------------------------
(* The log *)

\* Events of a bounded number.
Spend(events) ==
  /\ \A e \in events : budget[e] > 0
  /\ budget' = [e \in DOMAIN budget |-> IF e \in events THEN budget[e] - 1 ELSE budget[e]]

Fault(o) == IF o = "ok" THEN {} ELSE {"faults"}

\* History: the files that were completed, with the records they hold.
Remember(r, recs) ==
  written' = written \cup Remembered({f \in r.disk \ disk : f.readable}, recs)

Log(rec, o) ==
  /\ part = "log" /\ Spend({"records"} \cup Fault(o))
  /\ Len(w.pending) + 1 < w.max_records => o = "ok"
  /\ LET r == LogRecord(w, disk, rec, FALSE, now, o) IN
       /\ w' = r.w /\ disk' = r.disk /\ Remember(r, Append(logged, rec))
       /\ logged' = Append(logged, rec)
       /\ now' = IF rec.timestamp_ns = 0 THEN now + 1 ELSE now
  /\ UNCHANGED <<part, used, report, job>>

\* record_usage_rows() or the instrument validator says no.
LogRefused(rec) ==
  /\ part = "log"
  /\ LET r == LogRecord(w, disk, rec, TRUE, now, "ok") IN w' = r.w /\ disk' = r.disk
  /\ UNCHANGED <<part, now, used, logged, written, budget, report, job>>

\* flush(), and close(), which does nothing else
Flush(o) ==
  /\ part = "log" /\ w.pending # <<>> /\ Spend(Fault(o))
  /\ LET r == FlushLog(w, disk, o) IN w' = r.w /\ disk' = r.disk /\ Remember(r, logged)
  /\ UNCHANGED <<part, now, used, logged, report, job>>

\* The process ends without close() and a new one opens a writer: what was
\* pending is gone, and the chain begins at zero.
Restart(k, id) ==
  /\ part = "log" /\ w.chain.next_seq > 0 /\ Spend({"faults"})
  /\ ReuseId \/ <<k, id>> \notin used
  /\ LogArgumentsOk([segments |-> <<"logs">>], [plain |-> TRUE])
  /\ w' = NewLog(k, id, w.max_records)
  /\ used' = used \cup {<<k, id>>} /\ logged' = <<>>
  /\ UNCHANGED <<part, disk, now, written, report, job>>

\* What may be done to the rows of a file behind the library's back.
Edits(rows) ==
  {RemoveAt(rows, i) : i \in DOMAIN rows}
  \cup {[rows EXCEPT ![i] = rows[j], ![j] = rows[i]] : i, j \in DOMAIN rows}
  \cup {[rows EXCEPT ![i].cells[n] = @ + 1] :
          i \in DOMAIN rows, n \in {"timestamp_ns", "price", "latency_ns"} \cap DOMAIN rows[1].cells}
  \cup {[rows EXCEPT ![i].chain_seq = @ + 1] : i \in DOMAIN rows}
  \cup {Append(rows, [rows[i] EXCEPT !.chain_seq = Len(rows)]) : i \in DOMAIN rows}

Edit(f) ==
  /\ part = "report" /\ report = NoReport /\ Spend({"edits"})
  /\ \E rows \in Edits(f.rows) :
       rows # f.rows /\ disk' = (disk \ {f}) \cup {[f EXCEPT !.rows = rows]}
  /\ UNCHANGED <<part, w, now, used, logged, written, report, job>>

\* The files a report is made of, in the order of their numbers.
FilesOf(k, id) ==
  SetToSortSeq({f \in disk : f.name.kind = k /\ f.name.chain_id = id},
               LAMBDA a, b : a.name.start < b.name.start)

Report(std, d, i, opts) ==
  LET main == IF std = "MIFID2_RTS24" THEN d ELSE i
      g == Gather(main, opts)
      orders == IF g.ok THEN SortedOrders(g.records) ELSE {<<>>} IN
  /\ part = "report" /\ report = NoReport
  /\ \E p \in orders :
       report' = [standard |-> std, decisions |-> d, inferences |-> i, opts |-> opts,
                  result |-> CASE std = "MIFID2_RTS24" -> MiFID2Generate(d, opts, opts.licensed, p)
                               [] std = "EU_AI_ACT_ART12" -> GenerateArticle12(i, opts, opts.licensed, p)
                               [] std = "EU_AI_ACT_ART13" -> GenerateArticle13(i, opts, opts.licensed)
                               [] std = "EU_AI_ACT_ART19" -> GenerateArticle19(d, i, opts, opts.licensed)]
  /\ UNCHANGED <<part, w, disk, now, used, logged, written, budget, job>>

Standards == {"MIFID2_RTS24", "EU_AI_ACT_ART12", "EU_AI_ACT_ART13", "EU_AI_ACT_ART19"}

\* Bound: of an edited file only JSON reports that verify it are made.
MakeReport ==
  \E std \in Standards, opts \in ReportOpts, a, b \in ChainIds :
    /\ disk # {}
    /\ budget.edits > 0 \/ (opts.verify_chain /\ opts.licensed /\ opts.format = "JSON")
    /\ std # "EU_AI_ACT_ART19" => a = b
    /\ Report(std,
              IF std \in {"MIFID2_RTS24", "EU_AI_ACT_ART19"} THEN FilesOf("decision", a) ELSE <<>>,
              IF std = "MIFID2_RTS24" THEN <<>> ELSE FilesOf("inference", b), opts)

-----------------------------------------------------------------------------
(* now_ns() *)

\* The system clock is read; it may have been set back.
ReadClock(t) ==
  /\ part = "clock" /\ job.pc[t] = "idle" 
  /\ Len(job.returned) + Cardinality({u \in Threads : job.pc[u] \in {"load", "cas"}}) < MaxCalls
  /\ \E ns \in 1 .. MaxTime :
       job' = [job EXCEPT !.pc[t] = "load", !.ns[t] = ns, !.floor[t] = Len(job.returned),
                          !.began[t] = Len(job.calls)]
  /\ UNCHANGED <<part, logVars>>

LoadLast(t) ==
  /\ part = "clock" /\ job.pc[t] = "load"
  /\ job' = [job EXCEPT !.pc[t] = "cas", !.expected[t] = job.last,
                        !.ns[t] = IF @ <= job.last THEN job.last + 1 ELSE @]
  /\ UNCHANGED <<part, logVars>>

\* Mutant: a failed exchange keeps the time it had.
ExchangeKeepsTime(t) ==
  /\ part = "clock" /\ job.pc[t] = "cas"
  /\ job' = IF job.last = job.expected[t]
            THEN [job EXCEPT !.last = job.ns[t], !.pc[t] = "timed",
                             !.returned = Append(@, [ns |-> job.ns[t], floor |-> job.floor[t]])]
            ELSE [job EXCEPT !.expected[t] = job.last]
  /\ UNCHANGED <<part, logVars>>

\* compare_exchange_weak: a failure brings the value found, and the time is
\* moved past it.
Exchange(t) ==
  /\ part = "clock" /\ job.pc[t] = "cas"
  /\ job' = IF job.last = job.expected[t]
            THEN [job EXCEPT !.last = job.ns[t], !.pc[t] = "timed",
                             !.returned = Append(@, [ns |-> job.ns[t], floor |-> job.floor[t]])]
            ELSE [job EXCEPT !.expected[t] = job.last,
                             !.ns[t] = IF @ <= job.last THEN job.last + 1 ELSE @]
  /\ UNCHANGED <<part, logVars>>

(* What a thread does with its time: it reports an override, asks for the  *)
(* present count, or uses it for something else.                           *)

Call(t, op, r) ==
  job' = [job EXCEPT !.pc[t] = "idle", !.ns[t] = 0, !.expected[t] = 0, !.floor[t] = 0,
            !.began[t] = 0, !.monitor = r.m,
            !.calls = Append(@, [op |-> op, ns |-> job.ns[t], count |-> r.count,
                                 began |-> job.began[t]])]

ReportOverride(t) ==
  /\ part = "clock" /\ job.pc[t] = "timed"
  /\ Call(t, "record", RecordOverride(job.monitor, job.ns[t]))
  /\ UNCHANGED <<part, logVars>>

AskCount(t) ==
  /\ part = "clock" /\ job.pc[t] = "timed"
  /\ Call(t, "count", CurrentCount(job.monitor, job.ns[t]))
  /\ UNCHANGED <<part, logVars>>

-----------------------------------------------------------------------------
(* Retention *)

RetentionTick ==
  /\ part = "retention" /\ job.now < MaxTime
  /\ job' = [job EXCEPT !.now = @ + 1]
  /\ UNCHANGED <<part, logVars>>

\* One pass of enforce(); the callbacks and the file system answer as they like.
RetentionPass(ok, removed, moved) ==
  LET r == Enforce(job.dir, job.policy, job.now, ok, removed, moved)
      archived == {f \in job.dir : f.path \in r.summary.archived_paths} IN
  /\ part = "retention"
  /\ job' = [job EXCEPT
       !.dir = r.dir,
       !.lost = @ \cup {[file |-> f, age |-> Age(f, job.now), allowed |-> ok[f.path]] :
                          f \in job.dir \ r.dir},
       !.archive = IF job.policy.enable_archival /\ job.policy.has_archive_cb
                   THEN @ \cup archived ELSE @,
       !.pass = <<[summary |-> r.summary, before |-> job.dir,
                   listed |-> ListFiles(job.dir, job.policy, job.now)]>>]
  /\ UNCHANGED <<part, logVars>>

Paths == {f.path : f \in LogDir}
Answers == [Paths -> BOOLEAN]

-----------------------------------------------------------------------------
Next ==
  \/ \E rec \in Records[w.kind] : \/ \E o \in FlushOutcomes : Log(rec, o)
                                  \/ LogRefused(rec)
  \/ \E o \in FlushOutcomes : Flush(o)
  \/ \E k \in Kinds, id \in ChainIds : Restart(k, id)
  \/ \E f \in disk : Edit(f)
  \/ MakeReport
  \/ \E t \in Threads : \/ ReadClock(t) \/ LoadLast(t) \/ Exchange(t)
                        \/ ReportOverride(t) \/ AskCount(t)
  \/ RetentionTick
  \/ \E ok, removed \in Answers, moved \in BOOLEAN : RetentionPass(ok, removed, moved)

Spec == Init /\ [][Next]_vars

-----------------------------------------------------------------------------
(* Properties *)

Written(f) == (CHOOSE x \in written : x.file.name = f.name).file
Untouched(f) == \E x \in written : x.file = f

\* Every entry of the chain is held exactly once, by a file that flush()
\* reported as written or by the pending buffer, whatever flushes failed on the
\* way.  Such a file holds its entries unless it is lost: its close() did not
\* see that the footer never reached the disk.  Files that follow each other
\* link: the next one's first prev_hash, which is also its prev_file_hash, is
\* the last_hash of the one before.
TrailComplete ==
  LET own == {f \in disk : /\ f.readable \/ f.lost
                           /\ f.name.kind = w.kind /\ f.name.chain_id = w.chain_id} IN
  part = "log" =>
    /\ \A n \in DOMAIN w.chain.entries :
         LET e == w.chain.entries[n]
             files == {f \in own : f.name.start <= n - 1 /\ n - 1 <= f.name.end}
             held == {i \in DOMAIN w.pending : w.pending[i].entry = e} IN
           /\ Cardinality(files) + Cardinality(held) = 1
           /\ \A f \in files :
                ~ f.lost => f.readable /\ f.rows[n - f.name.start].chain_hash = e.entry_hash
    /\ \A f, g \in own : g.name.start = f.name.end + 1 /\ f.readable /\ g.readable =>
         /\ g.meta.prev_file_hash = f.meta.last_hash
         /\ VerifyContinuity(f.meta.last_hash,
                             [i \in DOMAIN g.rows |-> EntryFromRow(g.name.kind, g.rows[i])])

\* What flush() says of the file before it clears the pending records: "Close
\* the file (flushes internal buffers and writes footer)".  So every number
\* below the pending ones is in a file of the chain that opens.
FlushedReadable ==
  part = "log" =>
    \A n \in 0 .. w.chain.next_seq - Len(w.pending) - 1 :
      \E f \in disk : /\ CanOpen(f) /\ f.name.kind = w.kind /\ f.name.chain_id = w.chain_id
                      /\ f.name.start <= n /\ n <= f.name.end

\* The first file of a chain verifies as flush() left it when its records
\* carry their own, non-decreasing timestamps and only fields that the
\* file's columns keep.
CleanFileVerifies ==
  \A x \in written :
    LET Clean(i) == /\ x.recs[i].timestamp_ns > 0
                    /\ Storable(x.file.name.kind, x.recs[i])
                    /\ i > 1 => x.recs[i - 1].timestamp_ns <= x.recs[i].timestamp_ns
    IN x.file.name.start = 0 /\ (\A i \in DOMAIN x.recs : Clean(i)) => VerifyChain(x.file).valid

\* A report that verified its sources and calls their chain verified was made
\* of files whose rows are those that were written, or the first of them.
ReportHonest ==
  report # NoReport /\ report.result.ok =>
    (report.opts.verify_chain /\ report.result.report.chain_verified =>
       \A f \in ToSet(report.decisions) \cup ToSet(report.inferences) :
         IsPrefix(f.rows, Written(f).rows))

\* A report of untouched files has each record of the period once, in the
\* order of the timestamps for MiFID II and Article 12, and an Article 19
\* report joins logs of one chain identifier.
ReportExact ==
  report # NoReport /\ report.result.ok
  /\ (\A f \in ToSet(report.decisions) \cup ToSet(report.inferences) : Untouched(f)) =>
    LET files == report.decisions \o report.inferences
        In(f, i) == f.rows[i].cells["timestamp_ns"] \in report.opts.start_ns .. report.opts.end_ns
        rows == {x \in ToSet(files) \X (1 .. MaxLogged) :
                   x[2] \in DOMAIN x[1].rows /\ In(x[1], x[2])}
        Time(x) == IsoTime(x[1].rows[x[2]].cells["timestamp_ns"], report.opts.granularity)
        body == report.result.body IN
      /\ report.result.report.total_records = Cardinality(rows)
      /\ report.standard = "MIFID2_RTS24" =>
           /\ \A i \in 2 .. Len(body) : body[i - 1].ts <= body[i].ts
           /\ \A x \in rows :
                Cardinality({i \in DOMAIN body : body[i].ts = Time(x)})
                = Cardinality({y \in rows : Time(y) = Time(x)})
      /\ report.standard = "EU_AI_ACT_ART12" =>
           body.perf.anomalies = CountIf(body.records, LAMBDA r : r.anomaly)
      /\ report.standard = "EU_AI_ACT_ART19" /\ report.opts.verify_chain =>
           \A f, g \in ToSet(files) : f.name.chain_id = g.name.chain_id

\* The times that now_ns() returns are distinct, and a call returns a later
\* time than every call that had returned before it began, however the
\* system clock jumps.
ClockMonotone ==
  part = "clock" =>
    LET r == job.returned IN
    \A i \in DOMAIN r :
      /\ \A j \in 1 .. r[i].floor : r[j].ns < r[i].ns
      /\ \A j \in DOMAIN r : i # j => r[i].ns # r[j].ns

\* An override is counted unless one with a later time, whose call ran
\* beside its own, was counted first: threads that take turns lose none.  A
\* count is that of the overrides let in that no call since then found older
\* than the window, and an alert was raised for every count that reached the
\* threshold.
OverridesCounted ==
  part = "clock" =>
    LET c == job.calls
        Old(j, i) == \E k \in j .. i : c[k].count >= 0 /\ c[j].ns < c[k].ns - MonitorOpts.window_ns
        Recorded(i) == {j \in 1 .. i : c[j].op = "record" /\ c[j].count >= 0} IN
    /\ \A i \in DOMAIN c :
         IF c[i].count = -1
         THEN \E j \in Recorded(i) : j > c[i].began /\ c[j].ns > c[i].ns
         ELSE c[i].count = Cardinality({j \in Recorded(i) : ~Old(j, i)})
    /\ Len(job.monitor.alerts) =
         Cardinality({j \in Recorded(Len(c)) : c[j].count >= MonitorOpts.alert_threshold})

\* The times of an override are those of its thread's turn, and it is counted at that time.
OversightTimely == ClockMonotone /\ OverridesCounted

\* What is written is read back: a whole record, or one in the form that an
\* older version wrote; an inference record that is cut anywhere else is
\* refused, and so are a chain's bytes and its metadata with a part missing
\* or with a text where a number or a hash should be.
BytesSurvive ==
  /\ part = "record" =>
       LET buf == Serialize(job.kind, job.rec)
           r == Deserialize(job.kind, SubSeq(buf, 1, job.cut)) IN
       /\ job.cut = Len(buf) => r.ok /\ r.rec = job.rec
       /\ \A g \in 0 .. 2 : job.cut = CellsUpTo(job.kind, job.rec, g) =>
            r.ok /\ \A f \in ToSet(Layout(job.kind)) : f.group <= g => r.rec[f.name] = job.rec[f.name]
       /\ job.kind = "inference" \/ job.cut < CellsUpTo(job.kind, job.rec, 0) =>
            (r.ok => \E g \in 0 .. 2 : job.cut = CellsUpTo(job.kind, job.rec, g))
  /\ part = "chain" =>
       LET c == ChainOf(job.n)
           units == SerializeChain(c)
           cut == SubSeq(units, 1, IF job.cut > Len(units) THEN Len(units) ELSE job.cut)
           m == BuildMetadata(c, "a") IN
       /\ \A i \in DOMAIN c.entries :
            VerifyEntry(c.entries[i], IF i = 1 THEN Zeros ELSE c.entries[i - 1].entry_hash)
       /\ VerifyContinuity(c.last_hash,
            AppendToChain(ResetChain(c.last_hash, c.next_seq), <<0>>, 0).entries)
       /\ DeserializeAndVerify(cut).ok <=> cut = units
       /\ DeserializeAndVerify(units).entries = c.entries
       /\ m.ok <=> job.n > 0
       /\ m.ok =>
            LET t == SerializeMeta(m.meta)
                d == DeserializeMeta(CASE job.drop # 0 -> RemoveAt(t, job.drop)
                                       [] job.spoil # 0 -> [t EXCEPT ![job.spoil][3] = FALSE]
                                       [] OTHER -> t) IN
            /\ d.ok = (job.drop \in {0, 6} /\ job.spoil \in {0, 1, 6})
            /\ d.ok => d.meta = m.meta

\* The statistics agree with each other: an Article 12 report flags as many
\* records as its summary counts, though the one compares integers and the
\* other a fraction; percentiles ascend and stay within the observed values.
StatsSound ==
  part = "stats" =>
    LET lat == Numbers(job, "latency_ns")
        p == ComputePerf(job, 50)
        a == Article12Body(job, [threshold |-> 50])
        m == Art15Compute(job, 50) IN
      /\ p.anomalies = CountIf(a.records, LAMBDA r : r.anomaly)
      /\ p.p50 <= p.p95 /\ p.p95 <= p.p99 /\ p.p99 <= m.max_latency
      /\ {p.p50, p.p95, p.p99} \subseteq ToSet(lat)
      /\ 2 * m.min <= m.median2 /\ m.median2 <= 2 * m.max
      /\ m.low = p.low /\ m.period_start <= m.period_end

\* What the header of decision_log.hpp promises of rotation: every file of a
\* chain can be verified as flush() left it.
EveryFileVerifies ==
  \A x \in written :
    (\A i \in DOMAIN x.recs : x.recs[i].timestamp_ns = x.file.name.start + i
                               /\ Storable(x.file.name.kind, x.recs[i]))
    => VerifyChain(x.file).valid

\* compliance_types.hpp: chain_verified is "False if any file failed
\* verification or verification was skipped (opts.verify_chain == false)."
SkippedNotVerified ==
  report # NoReport /\ report.result.ok =>
    (report.result.report.chain_verified => report.opts.verify_chain)

\* A flush never takes the place of a file that an earlier flush completed.
FilesKept == [][\A f \in disk : f.readable /\ budget'.edits = budget.edits => f \in disk']_vars

\* What the log wrote is taken for what it is: the first file of a chain verifies, and records,
\* chains and metadata go through their bytes unchanged or are refused.
WrittenVerifies == CleanFileVerifies /\ BytesSurvive

\* No log file is lost early: one that left the directory is in the archive,
\* or was older than the retention allows and its deletion was not refused.
\* The summary of a pass counts every file it scanned once and with its
\* size, as list_files() classified it, and a dry run changes nothing.
RetentionSound ==
  part = "retention" =>
    /\ \A x \in job.lost :
         \/ x.file \in job.archive
         \/ x.age > job.policy.max_retention_ns /\ (job.policy.has_pre_delete_cb => x.allowed)
    /\ \A i \in DOMAIN job.pass :
         LET p == job.pass[i]
             s == p.summary
             In(status) == {x \in p.listed : x.status = status} IN
         /\ s.files_scanned = s.files_active + s.files_archived + s.files_deleted + s.files_failed
         /\ s.files_scanned = Cardinality(p.listed)
         /\ s.files_active = Cardinality(In("ACTIVE"))
         /\ s.active_size_bytes = SizeOf(In("ACTIVE"))
         /\ s.deleted_paths \subseteq {x.path : x \in In("DELETE_ELIGIBLE")}
         /\ s.dry_run => job.dir = LogDir

\* A report shows the records of its period and no others, its figures agree with each other,
\* and so do those of a retention pass.
ReportSound == ReportExact /\ StatsSound /\ RetentionSound
=============================================================================
