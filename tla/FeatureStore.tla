---------------------------- MODULE FeatureStore ----------------------------
(***************************************************************************)
(* The feature store at work: a process writes rows through one            *)
(* FeatureWriter after another, with a storage that fails now and then;    *)
(* files of the store are opened by a FeatureReader, and the threads that  *)
(* share it answer queries.  ensure_cached() runs under rg_cache_mutex_    *)
(* but hands out a pointer to the cache, and fetch_row() reads through it  *)
(* with the mutex free: its reads of the key columns and of the features   *)
(* are steps of their own.                                                 *)
(***************************************************************************)
EXTENDS FeatureWriter, FeatureReader

CONSTANTS
  Options,      \* values of FeatureWriterOptions
  Keys,         \* Keys[n]: what <<entity_id, timestamp_ns, version>> the n-th row may have
  Damages,      \* <<column, "lost" or "short">>: damage done to a row group
  Queries,      \* Queries[t]: what thread t may ask
  Threads,
  MaxRows,      \* bound on the rows written
  MaxWriters,   \* bound on the calls of create()
  MaxFaults,    \* bound on failures of the storage
  MaxFailed,    \* bound on the calls of the writer that fail
  MaxOpens,     \* bound on the calls of FeatureReader::open()
  MaxQueries    \* bound on the queries

\* feature_names is a list of texts.
ASSUME OptionsAssumption == \A o \in Options : o.feature_names \in Seq(STRING)

VARIABLES
  fw,       \* <<>> or the writer
  disk,     \* the files, by path
  past,     \* output_files() of the earlier writers
  sent,     \* history: the rows that the present writer took
  closed,   \* history: the last call was a close() that returned success
  reader,   \* <<>> or the reader
  cache,    \* rg_cache_
  thr,      \* the threads
  dead,     \* std::terminate was called
  count     \* how often the bounded events happened

vars == <<fw, disk, past, sent, closed, reader, cache, thr, dead, count>>
writerVars == <<fw, disk, past, sent, closed, dead>>
readerVars == <<reader, cache, thr>>

NoCache == [file |-> 0, group |-> 0, eids |-> <<>>, tss |-> <<>>, vers |-> <<>>, feats |-> <<>>]
Idle == [pc |-> "idle"]

Init ==
  /\ fw = <<>> /\ disk = <<>> /\ past = <<>> /\ sent = <<>> /\ closed = FALSE
  /\ reader = <<>> /\ cache = NoCache /\ thr = [t \in Threads |-> Idle]
  /\ dead = FALSE
  /\ count = [rows |-> 0, writers |-> 0, faults |-> 0, failed |-> 0, opens |-> 0, queries |-> 0]

Files == past \o (IF fw = <<>> THEN <<>> ELSE fw[1].out)

\* A reader holds its files in memory and sees nothing that happens to them after open(): the steps
\* of the writer are taken up to then.
Alive == fw # <<>> /\ reader = <<>> /\ ~dead

\* The client gives up after MaxFailed calls that failed.
Writing == Alive /\ count.failed < MaxFailed

Faulty(o) == IF o = "ok" THEN 0 ELSE 1

-----------------------------------------------------------------------------
(* The writer *)

Create(opts) ==
  /\ fw = <<>> /\ reader = <<>> /\ ~dead /\ count.writers < MaxWriters
  /\ count' = [count EXCEPT !.writers = @ + 1]
  /\ fw' = IF CreateAccepts(opts) THEN <<CreateWriter(opts, count.writers + 1)>> ELSE <<>>
  /\ sent' = <<>> /\ closed' = FALSE
  /\ UNCHANGED <<disk, past, dead>> /\ UNCHANGED readerVars

\* The row with key k that the client makes as its n-th, of as many values as names.
Row(k, n, names) == [eid |-> k[1], ts |-> k[2], ver |-> k[3],
                     values |-> [i \in 1 .. Len(names) |-> <<n, names[i]>>]]

Failing(r) == IF r.res = "ok" THEN 0 ELSE 1

Took(r, f) ==
  /\ fw' = <<r.fw>> /\ disk' = r.disk /\ closed' = FALSE
  /\ count' = [count EXCEPT !.rows = @ + (r.fw.total - fw[1].total), !.faults = @ + f,
                              !.failed = @ + Failing(r)]
  /\ UNCHANGED <<past, dead>> /\ UNCHANGED readerVars

\* A call of write(), with as many values as features or with none.
WriteRow(o) ==
  /\ Writing /\ count.rows < MaxRows /\ count.faults + Faulty(o) <= MaxFaults
  /\ \E names \in {fw[1].names, <<>>}, k \in Keys[count.rows + 1] :
       LET row == Row(k, count.rows + 1, names)
           r == Write(fw[1], disk, row, o)
       IN /\ Took(r, Faulty(o))
          /\ sent' = IF r.fw.total = fw[1].total THEN sent ELSE Append(sent, row)

\* A call of write_batch() with two rows.
WriteRows(o1, o2) ==
  /\ Writing /\ count.rows + 1 < MaxRows
  /\ count.faults + Faulty(o1) + Faulty(o2) <= MaxFaults
  /\ \E k1 \in Keys[count.rows + 1], k2 \in Keys[count.rows + 2] :
       LET rows == <<Row(k1, count.rows + 1, fw[1].names), Row(k2, count.rows + 2, fw[1].names)>>
           r == WriteBatch(fw[1], disk, rows, <<o1, o2>>)
       IN /\ Took(r, Faulty(o1) + Faulty(o2))
          /\ sent' = sent \o SubSeq(rows, 1, r.fw.total - fw[1].total)

FlushWriter(o) ==
  /\ Writing /\ count.faults + Faulty(o) <= MaxFaults
  /\ Took(FlushRows(fw[1], disk, o), Faulty(o))
  /\ UNCHANGED sent

Close(o) ==
  /\ Writing /\ count.faults + Faulty(o) <= MaxFaults
  /\ LET r == CloseWriter(fw[1], disk, o)
     IN /\ fw' = <<r.fw>> /\ disk' = r.disk /\ closed' = (r.res = "ok")
        /\ count' = [count EXCEPT !.faults = @ + Faulty(o), !.failed = @ + Failing(r)]
  /\ UNCHANGED <<past, sent, dead>> /\ UNCHANGED readerVars

\* ~FeatureWriter: an open file is closed, rows without one are dropped; what close() throws ends
\* the process, and a file that it cannot flush is left without a footer.
Destroy(o) ==
  /\ Alive /\ count.faults + Faulty(o) <= MaxFaults
  /\ LET r == IF fw[1].open THEN CloseWriter(fw[1], disk, o) ELSE Result("ok", fw[1], disk)
     IN /\ disk' = r.disk /\ dead' = (r.res = "throw")
        /\ past' = past \o r.fw.out
  /\ fw' = <<>> /\ closed' = FALSE
  /\ count' = [count EXCEPT !.faults = @ + Faulty(o)]
  /\ UNCHANGED sent /\ UNCHANGED readerVars

\* A column chunk of a finished file is damaged.
Damage(p, g, c, kind) ==
  /\ ~dead /\ reader = <<>> /\ count.faults < MaxFaults
  /\ p \in ToSet(Files) /\ g \in 1 .. Len(disk[p].groups) /\ c \in ColumnNumbers(disk[p])
  /\ disk' = [disk EXCEPT ![p].damage = @ \union {<<g, c, kind>>}]
  /\ count' = [count EXCEPT !.faults = @ + 1]
  /\ UNCHANGED <<fw, past, sent, closed, dead>> /\ UNCHANGED readerVars

-----------------------------------------------------------------------------
(* The reader *)

\* open() on the finished files, with or without the one that is being written.
OpenReader ==
  /\ ~dead /\ count.opens < MaxOpens /\ \A t \in Threads : thr[t].pc = "idle"
  /\ \E active \in {<<>>} \union (IF fw = <<>> THEN {} ELSE {<<fw[1].path>>}) :
       LET r == BuildIndex(disk, Files \o active)
       IN reader' = IF r.ok THEN <<r.v>> ELSE <<>>
  /\ cache' = NoCache
  /\ count' = [count EXCEPT !.opens = @ + 1]
  /\ UNCHANGED thr /\ UNCHANGED writerVars

\* The locations of as_of(), history() and as_of_batch(); get() is as_of() at the end of time.
Locations(q) ==
  CASE q.op = "as_of" -> AsOf(reader[1], q.es[1], q.to)
    [] q.op = "history" -> History(reader[1], q.es[1], q.from, q.to)
    [] q.op = "batch" -> AsOfBatch(reader[1], q.es, q.to)

Ask(t, q) ==
  /\ ~dead /\ reader # <<>> /\ thr[t].pc = "idle" /\ count.queries < MaxQueries
  /\ LET todo == Locations(q)
     IN thr' = [thr EXCEPT ![t] = [pc |-> IF todo = <<>> THEN "done" ELSE "ensure", q |-> q,
                                   todo |-> todo, key |-> <<>>, found |-> <<>>, ok |-> TRUE,
                                   refilled |-> FALSE]]
  /\ count' = [count EXCEPT !.queries = @ + 1]
  /\ UNCHANGED <<reader, cache>> /\ UNCHANGED writerVars

\* What a thread is left with when fetch_row() fails: the query returns the error.
Failed(th) == [th EXCEPT !.pc = "done", !.ok = FALSE]

Reading(u) == thr[u].pc \in {"key", "values"}

EnsureCached(t) ==
  /\ ~dead /\ thr[t].pc = "ensure"
  /\ LET loc == Head(thr[t].todo)
         hit == cache.file = loc.file /\ cache.group = loc.group
         new == IF hit THEN Ok(cache) ELSE DecodeGroup(reader[1], loc)
     IN /\ cache' = IF new.ok THEN new.v ELSE cache
        /\ thr' = [u \in Threads |->
                     IF u = t THEN (IF new.ok THEN [thr[t] EXCEPT !.pc = "key"] ELSE Failed(thr[t]))
                     ELSE IF Reading(u) /\ new.ok /\ ~hit THEN [thr[u] EXCEPT !.refilled = TRUE]
                     ELSE thr[u]]
  /\ UNCHANGED <<reader, count>> /\ UNCHANGED writerVars

FetchKey(t) ==
  /\ ~dead /\ thr[t].pc = "key"
  /\ LET key == KeyFrom(cache, Head(thr[t].todo))
     IN thr' = [thr EXCEPT ![t] = IF key.ok THEN [@ EXCEPT !.pc = "values", !.key = <<key.v>>]
                                  ELSE Failed(@)]
  /\ UNCHANGED <<reader, cache, count>> /\ UNCHANGED writerVars

FetchValues(t) ==
  /\ ~dead /\ thr[t].pc = "values"
  /\ LET th == thr[t]
         values == ValuesFrom(reader[1], cache, Head(th.todo), th.q.project)
         row == [eid |-> th.key[1].eid, ts |-> th.key[1].ts, ver |-> th.key[1].ver,
                 values |-> values.v]
     IN thr' = [thr EXCEPT ![t] =
          IF ~values.ok THEN Failed(th)
          ELSE [th EXCEPT !.found = Append(@, row), !.todo = Tail(@), !.key = <<>>,
                          !.pc = IF Len(th.todo) = 1 THEN "done" ELSE "ensure"]]
  /\ UNCHANGED <<reader, cache, count>> /\ UNCHANGED writerVars

Return(t) ==
  /\ ~dead /\ thr[t].pc = "done"
  /\ thr' = [thr EXCEPT ![t] = Idle]
  /\ UNCHANGED <<reader, cache, count>> /\ UNCHANGED writerVars

-----------------------------------------------------------------------------
Next ==
  \/ \E opts \in Options : Create(opts)
  \/ \E o \in Outcomes : WriteRow(o)
  \/ \E o1, o2 \in Outcomes : WriteRows(o1, o2)
  \/ \E o \in Outcomes : FlushWriter(o)
  \/ \E o \in Outcomes : Close(o)
  \/ \E o \in Outcomes : Destroy(o)
  \/ \E p \in DOMAIN disk, g \in 1 .. MaxRows, d \in Damages : Damage(p, g, d[1], d[2])
  \/ OpenReader
  \/ \E t \in Threads : \/ \E q \in Queries[t] : Ask(t, q)
                        \/ EnsureCached(t)
                        \/ FetchKey(t)
                        \/ FetchValues(t)
                        \/ Return(t)

Spec == Init /\ [][Next]_vars

-----------------------------------------------------------------------------
(* Properties *)

GroupRows(group) ==
  [j \in 1 .. Len(group.eids) |->
     [eid |-> group.eids[j], ts |-> group.tss[j], ver |-> group.vers[j],
      values |-> [i \in 1 .. Len(group.feats) |-> group.feats[i][j]]]]

\* The rows in row groups, in order.
RowsIn(groups) == FlattenSeq([g \in 1 .. Len(groups) |-> GroupRows(groups[g])])

\* The row groups that a finished file answers for: its own when it opens, and the lost ones when
\* close() did not see that its footer never reached the disk.
Account(file) == IF file.footer THEN file.groups ELSE file.lost

RowsOfFiles(paths) == FlattenSeq([i \in 1 .. Len(paths) |-> RowsIn(Account(disk[paths[i]]))])

\* The files of output_files(), the row groups of the open file and the buffers together hold
\* every row that write() took, once and in order, whatever open, flush or close failed and was
\* tried again; after a close() that returned success the files alone hold them all.  The rows of
\* a file whose close() lost the footer silently are the only ones that cannot be read again.
RowsKept ==
  fw # <<>> =>
    LET filed == RowsOfFiles(fw[1].out)
        unfiled == IF fw[1].open THEN RowsIn(fw[1].groups) ELSE <<>>
    IN filed \o unfiled \o fw[1].pend = sent /\ (closed => filed = sent)

\* feature_writer.hpp: a file is registered "only after confirmed successful close", so every file
\* that output_files() names opens.
RegisteredOpens == \A p \in ToSet(Files) : disk[p].footer

\* A file that output_files() names is never written again, by this writer or a later one.
FiledIsFinal ==
  [][\A p \in ToSet(Files) : disk'[p].groups = disk[p].groups /\ disk'[p].footer = disk[p].footer]_vars

\* The rows that the reader's files hold, with their places; a query sees exactly these.
Stored ==
  UNION {{[place |-> <<i, n>>, row |-> RowsIn(reader[1].readers[i][1].groups)[n],
           names |-> reader[1].readers[i][1].names]
            : n \in 1 .. Len(RowsIn(reader[1].readers[i][1].groups))}
          : i \in {i \in DOMAIN reader[1].readers : reader[1].readers[i] # <<>>}}

Undamaged == \A i \in DOMAIN reader[1].readers :
               reader[1].readers[i] # <<>> => reader[1].readers[i][1].damage = {}

Before(a, b) ==
  \/ a.row.ts < b.row.ts
  \/ a.row.ts = b.row.ts /\ a.row.ver < b.row.ver
  \/ /\ a.row.ts = b.row.ts /\ a.row.ver = b.row.ver
     /\ (a.place[1] < b.place[1] \/ (a.place[1] = b.place[1] /\ a.place[2] < b.place[2]))

\* The row as the query shows it.
Shown(s, project) ==
  [s.row EXCEPT !.values = IF project = <<>> THEN @
                           ELSE [i \in 1 .. Len(project) |-> @[SelectInSeq(s.names, LAMBDA f : f = project[i])]]]

\* The last row of e at or before ts.
Latest(e, ts) ==
  LET S == {s \in Stored : s.row.eid = e /\ s.row.ts <= ts}
  IN {s \in S : \A x \in S : x = s \/ Before(x, s)}

Answer(q) ==
  CASE q.op = "as_of" -> SetToSeq(Latest(q.es[1], q.to))
    [] q.op = "history" -> SetToSortSeq({s \in Stored : s.row.eid = q.es[1] /\ q.from <= s.row.ts
                                                        /\ s.row.ts <= q.to}, Before)
    [] q.op = "batch" -> FlattenSeq([i \in 1 .. Len(q.es) |-> SetToSeq(Latest(q.es[i], q.to))])

\* The answer of thread t is the rows asked for, or an error that the files call for.
RightAnswer(t) ==
  LET th == thr[t]
      answer == Answer(th.q)
      unknown == \E s \in ToSet(answer) : ~(ToSet(th.q.project) \subseteq ToSet(s.names))
  IN IF th.ok THEN th.found = [i \in 1 .. Len(answer) |-> Shown(answer[i], th.q.project)]
     ELSE unknown \/ ~Undamaged

\* as_of(), history() and as_of_batch() answer with the rows that a scan of the files would give,
\* corrections last, unless another thread filled the row group cache in the middle of a fetch.
PointInTime == \A t \in Threads : thr[t].pc = "done" /\ ~thr[t].refilled => RightAnswer(t)

\* The same for every query, whatever other threads ask meanwhile.
PointInTimeShared == \A t \in Threads : thr[t].pc = "done" => RightAnswer(t)

-----------------------------------------------------------------------------
(* The instance for TLC. *)

Plain(names) == [output_dir |-> "plain", group |-> "plain", file_prefix |-> "plain",
                 feature_names |-> names]

\* Two schemas of one group, and options that create() refuses.
MCOptions == {Plain(<<"f", "g">>), Plain(<<"g">>), [Plain(<<"g">>) EXCEPT !.group = "path"]}

\* Corrections in and out of order, two entities.
MCKeys == <<{<<"a", 1, 2>>, <<"a", 2, 1>>}, {<<"a", 1, 1>>, <<"b", 2, 1>>}, {<<"a", 1, 1>>, <<"a", 1, 3>>}>>

Query(op, es, from, to, project) == [op |-> op, es |-> es, from |-> from, to |-> to, project |-> project]

\* The first thread asks all there is to ask, the others disturb it.
First == CHOOSE t \in Threads : TRUE
MCQueries ==
  [t \in Threads |->
     IF t = First
     THEN {Query("as_of", <<"a">>, 0, 1, <<>>), Query("as_of", <<"b">>, 0, 1, <<>>),
           Query("history", <<"a">>, 1, 2, <<"f">>), Query("batch", <<"b", "a">>, 0, 2, <<"g">>)}
     ELSE {Query("as_of", <<"a">>, 0, 2, <<>>)}]

MCDamages == {<<1, "short">>, <<3, "lost">>}

\* After open() only the reader and its threads matter.
View == IF reader = <<>> THEN <<vars>> ELSE <<readerVars, count.queries>>
=============================================================================
