--------------------------- MODULE StreamingSink ----------------------------
(***************************************************************************)
(* signet::forge::StreamingSink::Impl (ai/streaming_sink.hpp): producers   *)
(* submit records into the SPSC ring under submit_mutex_; a background     *)
(* thread (compaction_loop) and flush() drain it under consumer_mutex_     *)
(* into rolling Parquet files; a client thread starts, stops and flushes.  *)
(*                                                                         *)
(* A record is its number of acceptance.  The ring is the FIFO that        *)
(* SpscRing implements.  ParquetWriter is modelled by what its callers     *)
(* see: open() may return an error, any write may throw (write_raw throws  *)
(* on a bad stream, which stays bad), and close() ends with an unchecked   *)
(* file_.flush(), so it may report success for a file without a footer.    *)
(* An exception leaving compaction_loop ends the process.                  *)
(***************************************************************************)
EXTENDS Integers, Sequences, FiniteSets, SequencesExt

CONSTANTS
  Producers,      \* threads that call submit()
  SoftCap,        \* Options::ring_buffer_capacity
  RingCap,        \* what the physical ring holds: kRingCap - 1
  RowGroup,       \* Options::row_group_size
  MaxFileRows,    \* Options::max_file_rows
  AutoStart,      \* Options::auto_start
  ClientOps,      \* what the client calls: start, stop, stop_nowait, flush
  IoFaults,       \* whether the file system may fail
  MaxRecords      \* bound: records accepted

ASSUME SizeAssumption ==
  /\ {SoftCap, RingCap, RowGroup, MaxFileRows, MaxRecords} \subseteq Nat \ {0}
  /\ AutoStart \in BOOLEAN /\ IoFaults \in BOOLEAN
  /\ ClientOps \subseteq {"start", "stop", "stop_nowait", "flush"}

NoWriter == [rows |-> <<>>, state |-> "none"]
Sides    == {"worker", "client"}     \* who may hold consumer_mutex_

VARIABLES
  ring,           \* ring_: accepted records not yet popped
  accepted,       \* history: records accepted so far, numbered from 1
  counting,       \* producers holding submit_mutex_ after their push
  submitted, dropped, written,   \* the statistics
  running, stopReq,              \* running_, stop_requested_
  at,             \* control point of the worker and of the client
  final,          \* the worker is in its final drain
  consumer,       \* holder of consumer_mutex_, or "none"
  batch,          \* each side's local vector
  cur, fileRows,  \* current_writer_, current_file_rows_
  files,          \* output_files_: [rows, footer] in registration order
  lost,           \* history: records popped and never to be written
  dead,           \* std::terminate was called
  early,          \* history: stop_nowait() was called since the thread started
  reply,          \* result of the client's last start(), flush() or stop()
  snap            \* history: accepted when the client's call began

ringVars   == <<ring, accepted, counting, submitted, dropped>>
fileVars   == <<cur, fileRows, files, written, lost>>
threadVars == <<running, stopReq, at, final, consumer, batch, dead>>
callVars   == <<reply, snap, early>>
vars == <<ringVars, fileVars, threadVars, callVars>>

Init ==
  /\ ring = <<>> /\ accepted = 0 /\ counting = {}
  /\ submitted = 0 /\ dropped = 0 /\ written = 0
  /\ running = AutoStart /\ stopReq = FALSE
  /\ at = [worker |-> IF AutoStart THEN "wait" ELSE "none", client |-> "idle"]
  /\ final = FALSE /\ consumer = "none"
  /\ batch = [s \in Sides |-> <<>>]
  /\ cur = NoWriter /\ fileRows = 0 /\ files = <<>>
  /\ lost = {} /\ dead = FALSE
  /\ reply = "none" /\ snap = 0 /\ early = FALSE

Goto(s, from, to) == at[s] = from /\ at' = [at EXCEPT ![s] = to]

-----------------------------------------------------------------------------
(* submit(): under submit_mutex_, soft cap first, then the physical ring.   *)
FullNoSoftCap == Len(ring) >= RingCap     \* mutant: only the physical ring counts

Full == Len(ring) >= SoftCap \/ Len(ring) >= RingCap

Submit(p) ==
  /\ ~dead /\ counting = {} /\ accepted < MaxRecords
  /\ \/ /\ Full
        /\ dropped < MaxRecords
        /\ dropped' = dropped + 1
        /\ UNCHANGED <<ring, accepted, counting>>
     \/ /\ ~Full
        /\ accepted' = accepted + 1
        /\ ring' = Append(ring, accepted + 1)
        /\ counting' = {p}
        /\ dropped' = dropped
  /\ UNCHANGED <<submitted, fileVars, threadVars, callVars>>

(* records_submitted_ is raised after the consumer can already see the record. *)
SubmitCount(p) ==
  /\ ~dead /\ p \in counting
  /\ counting' = {}
  /\ submitted' = submitted + 1
  /\ UNCHANGED <<ring, accepted, dropped, fileVars, threadVars, callVars>>

-----------------------------------------------------------------------------
(* The client's calls. *)
Start ==
  /\ "start" \in ClientOps /\ ~dead /\ at.client = "idle"
  /\ IF running
       THEN UNCHANGED <<running, stopReq, at, final, early>>
       ELSE /\ running' = TRUE
            /\ early' = FALSE
            /\ stopReq' = FALSE
            /\ at' = [at EXCEPT !.worker = "wait"]
            /\ final' = FALSE
  /\ reply' = "started"
  /\ UNCHANGED <<consumer, batch, dead, snap, ringVars, fileVars>>

StopNowait ==
  /\ "stop_nowait" \in ClientOps /\ ~dead /\ at.client = "idle"
  /\ stopReq' = TRUE
  /\ early' = TRUE
  /\ UNCHANGED <<running, at, final, consumer, batch, dead, ringVars, fileVars, reply, snap>>

Stop ==
  /\ "stop" \in ClientOps /\ ~dead
  /\ snap' = accepted
  /\ IF running
       THEN stopReq' = TRUE /\ Goto("client", "idle", "join") /\ reply' = "none"
       ELSE /\ at.client = "idle" /\ reply' = "ok"
            /\ UNCHANGED <<stopReq, at>>
  /\ UNCHANGED <<running, final, consumer, batch, dead, early, ringVars, fileVars>>

Flush ==
  /\ "flush" \in ClientOps /\ ~dead
  /\ Goto("client", "idle", "lock")
  /\ snap' = accepted /\ reply' = "none"
  /\ UNCHANGED <<running, stopReq, final, consumer, batch, dead, early, ringVars, fileVars>>

-----------------------------------------------------------------------------
(* close() of the current writer: "ok" wrote the footer, "bad" did not but  *)
(* says it did, "throw" left the writer open on a bad stream.               *)
CloseOutcomes ==
  IF cur.state = "bad" THEN {"throw"}
  ELSE IF IoFaults THEN {"ok", "bad", "throw"} ELSE {"ok"}

(* close(), register_output_file() if it has rows, reset(): for outcome o   *)
(* of closing a file of n rows holding rs.                                  *)
CloseInto(o, rs, n) ==
  /\ files' = IF n > 0 THEN Append(files, [rows |-> rs, footer |-> o = "ok"]) ELSE files
  /\ cur' = NoWriter
  /\ fileRows' = 0

(* An exception leaves side s: the worker takes the process with it, the    *)
(* client's call ends without a result; either way consumer_mutex_ is freed.*)
Throw(s) ==
  /\ at' = [at EXCEPT ![s] = IF s = "worker" THEN "exited" ELSE "idle"]
  /\ dead' = (s = "worker")
  /\ reply' = IF s = "client" THEN "throw" ELSE reply
  /\ consumer' = "none"
  /\ lost' = lost \cup ToSet(batch[s]) \cup ToSet(cur.rows)
  /\ batch' = [batch EXCEPT ![s] = <<>>]

(* Both sides take consumer_mutex_; a mutant that forgets to. *)
LockNoMutex(s) ==
  /\ ~dead
  /\ Goto(s, "lock", "drain")
  /\ consumer' = s
  /\ batch' = [batch EXCEPT ![s] = <<>>]
  /\ UNCHANGED <<running, stopReq, final, dead, ringVars, fileVars, callVars>>

Lock(s) ==
  /\ ~dead /\ consumer = "none"
  /\ Goto(s, "lock", "drain")
  /\ consumer' = s
  /\ batch' = [batch EXCEPT ![s] = <<>>]
  /\ UNCHANGED <<running, stopReq, final, dead, ringVars, fileVars, callVars>>

(* drain_ring_locked: flush() and the final drain have no limit. *)
BatchFull(s) == s = "worker" /\ ~final /\ Len(batch[s]) >= RowGroup

DrainPop(s) ==
  /\ ~dead /\ at[s] = "drain"
  /\ ~BatchFull(s) /\ ring # <<>>
  /\ batch' = [batch EXCEPT ![s] = Append(@, Head(ring))]
  /\ ring' = Tail(ring)
  /\ UNCHANGED <<accepted, counting, submitted, dropped, running, stopReq, at,
                 final, consumer, dead, fileVars, callVars>>

DrainEnd(s) ==
  /\ ~dead /\ (BatchFull(s) \/ ring = <<>>)
  /\ Goto(s, "drain", "write")
  /\ UNCHANGED <<running, stopReq, final, consumer, batch, dead, ringVars,
                 fileVars, callVars>>

(* What fits into the open file. *)
Chunk(s) == LET room == MaxFileRows - fileRows
            IN  IF Len(batch[s]) < room THEN Len(batch[s]) ELSE room

(* One turn of write_batch's loop: open a file if none is open, write what  *)
(* fits into it as a row group, close and register it when it is full.      *)
WriteChunk(s) ==
  LET n  == Chunk(s)
      rs == cur.rows \o SubSeq(batch[s], 1, n)
  IN  /\ ~dead /\ at[s] = "write" /\ batch[s] # <<>> /\ cur.state # "bad"
      /\ batch' = [batch EXCEPT ![s] = SubSeq(@, n + 1, Len(@))]
      /\ written' = written + n
      /\ IF fileRows + n >= MaxFileRows
           THEN \E o \in CloseOutcomes \ {"throw"} : CloseInto(o, rs, fileRows + n)
           ELSE /\ cur' = [rows |-> rs, state |-> "open"]
                /\ fileRows' = fileRows + n
                /\ files' = files
      /\ UNCHANGED <<lost, running, stopReq, at, final, consumer, dead, ringVars, callVars>>

(* A write throws: rows and column buffers stay with a stream gone bad. *)
WriteThrow(s) ==
  /\ ~dead /\ at[s] = "write" /\ batch[s] # <<>>
  /\ IoFaults \/ cur.state = "bad"
  /\ cur' = [cur EXCEPT !.state = "bad"]
  /\ Throw(s)
  /\ UNCHANGED <<fileRows, files, written, running, stopReq, final, snap, early, ringVars>>

(* The close() of a file just filled throws, after its rows were counted. *)
CloseFullThrow(s) ==
  /\ ~dead /\ at[s] = "write" /\ batch[s] # <<>> /\ cur.state # "bad" /\ IoFaults
  /\ fileRows + Chunk(s) >= MaxFileRows
  /\ cur' = [cur EXCEPT !.state = "bad"]
  /\ fileRows' = fileRows + Chunk(s)
  /\ written' = written + Chunk(s)
  /\ Throw(s)
  /\ UNCHANGED <<files, running, stopReq, final, snap, early, ringVars>>

(* ParquetWriter::open() fails: write_batch returns the error and the rest  *)
(* of the batch is gone.  flush() passes it on, compaction_loop ignores it. *)
WriteError(s) ==
  /\ ~dead /\ at[s] = "write" /\ batch[s] # <<>> /\ IoFaults /\ cur.state = "none"
  /\ lost' = lost \cup ToSet(batch[s])
  /\ batch' = [batch EXCEPT ![s] = <<>>]
  /\ IF s = "client"
       THEN Goto(s, "write", "idle") /\ reply' = "error" /\ consumer' = "none"
       ELSE UNCHANGED <<at, reply, consumer>>
  /\ UNCHANGED <<cur, fileRows, files, written, running, stopReq, final, dead, snap, early, ringVars>>

(* The whole batch is written: flush() and the final drain go on to close   *)
(* the file, the loop releases the mutex.                                   *)
WriteEnd(s) ==
  /\ ~dead /\ batch[s] = <<>>
  /\ IF s = "client" \/ final
       THEN Goto(s, "write", "close") /\ consumer' = consumer
       ELSE Goto(s, "write", "check") /\ consumer' = "none"
  /\ UNCHANGED <<running, stopReq, final, batch, dead, ringVars, fileVars, callVars>>

(* Mutant: flush() leaves the file open. *)
CloseKeepsFile(s) ==
  /\ ~dead
  /\ Goto(s, "close", IF s = "client" THEN "idle" ELSE "exited")
  /\ consumer' = "none"
  /\ reply' = IF s = "client" THEN "ok" ELSE reply
  /\ UNCHANGED <<fileVars, running, stopReq, final, batch, dead, snap, early, ringVars>>

(* flush() and compaction_loop close the file under the mutex and return. *)
Close(s) ==
  /\ ~dead
  /\ Goto(s, "close", IF s = "client" THEN "idle" ELSE "exited")
  /\ consumer' = "none"
  /\ reply' = IF s = "client" THEN "ok" ELSE reply
  /\ IF cur.state = "none"
       THEN UNCHANGED fileVars
       ELSE /\ \E o \in CloseOutcomes \ {"throw"} : CloseInto(o, cur.rows, fileRows)
            /\ UNCHANGED <<written, lost>>
  /\ UNCHANGED <<running, stopReq, final, batch, dead, snap, early, ringVars>>

CloseThrow(s) ==
  /\ ~dead /\ at[s] = "close" /\ cur.state # "none" /\ "throw" \in CloseOutcomes
  /\ cur' = [cur EXCEPT !.state = "bad"]
  /\ Throw(s)
  /\ UNCHANGED <<fileRows, files, written, running, stopReq, final, snap, early, ringVars>>

-----------------------------------------------------------------------------
(* Mutant: the thread waits for a whole row group, without the timeout. *)
WorkerWakeFullGroup ==
  /\ ~dead /\ (stopReq \/ Len(ring) >= RowGroup)
  /\ Goto("worker", "wait", "lock")
  /\ UNCHANGED <<running, stopReq, final, consumer, batch, dead, ringVars,
                 fileVars, callVars>>

(* compaction_loop: wait_for returns on a notification or after             *)
(* flush_interval, so the wait always ends.                                 *)
WorkerWake ==
  /\ ~dead
  /\ Goto("worker", "wait", "lock")
  /\ UNCHANGED <<running, stopReq, final, consumer, batch, dead, ringVars,
                 fileVars, callVars>>

(* Mutant: the loop ends without its final drain. *)
WorkerCheckExits ==
  /\ ~dead
  /\ IF stopReq THEN Goto("worker", "check", "exited") /\ final' = final
                ELSE Goto("worker", "check", "wait") /\ final' = final
  /\ UNCHANGED <<running, stopReq, consumer, batch, dead, ringVars, fileVars, callVars>>

WorkerCheck ==
  /\ ~dead
  /\ IF stopReq THEN Goto("worker", "check", "lock") /\ final' = TRUE
                ELSE Goto("worker", "check", "wait") /\ final' = final
  /\ UNCHANGED <<running, stopReq, consumer, batch, dead, ringVars, fileVars, callVars>>

(* stop(): join, then close a writer the worker did not finalise, without   *)
(* the mutex.  The result is always success.                                *)
Join ==
  /\ ~dead /\ at.worker = "exited"
  /\ Goto("client", "join", "idle")
  /\ running' = FALSE
  /\ \E o \in IF cur.state = "none" THEN {"ok"} ELSE CloseOutcomes :
       IF o = "throw"
         THEN reply' = "throw" /\ UNCHANGED fileVars
         ELSE /\ reply' = "ok"
              /\ IF cur.state = "none" THEN UNCHANGED fileVars
                 ELSE CloseInto(o, cur.rows, fileRows) /\ UNCHANGED <<written, lost>>
  /\ UNCHANGED <<stopReq, final, consumer, batch, dead, snap, early, ringVars>>

-----------------------------------------------------------------------------
SideStep(s) == \/ Lock(s) \/ DrainPop(s) \/ DrainEnd(s) \/ WriteChunk(s)
               \/ WriteThrow(s) \/ CloseFullThrow(s) \/ WriteError(s) \/ WriteEnd(s)
               \/ Close(s) \/ CloseThrow(s)

Next ==
  \/ \E p \in Producers : Submit(p) \/ SubmitCount(p)
  \/ Start \/ StopNowait \/ Stop \/ Flush \/ Join
  \/ WorkerWake \/ WorkerCheck
  \/ \E s \in Sides : SideStep(s)

Spec == Init /\ [][Next]_vars

(* Threads that can run do run.  Nothing is assumed of consumer_mutex_: a    *)
(* std::mutex is not fair, so liveness is claimed of the worker alone.       *)
FairSpec == /\ Spec
            /\ WF_vars(WorkerWake) /\ WF_vars(WorkerCheck) /\ WF_vars(Join)
            /\ \A s \in Sides : WF_vars(SideStep(s))

-----------------------------------------------------------------------------
(* HybridReader(sink).read(): the rows of the registered files that open,   *)
(* in registration order, filtered and cut off at max_rows.                 *)
ReadFiles(fs, match, maxRows) ==
  LET rows == FlattenSeq([i \in 1 .. Len(fs) |-> IF fs[i].footer THEN fs[i].rows ELSE <<>>])
      hits == SelectSeq(rows, LAMBDA r : r \in match)
  IN  SubSeq(hits, 1, IF Len(hits) < maxRows THEN Len(hits) ELSE maxRows)

(* The records of the files in fs, and of those that open. *)
RowsOf(fs)     == UNION {ToSet(fs[i].rows) : i \in 1 .. Len(fs)}
ReadableIn(fs) == UNION {ToSet(fs[i].rows) : i \in {j \in 1 .. Len(fs) : fs[j].footer}}
Readable       == ReadableIn(files)

(* The filter and the row limit on a fixed list of files, and on every list *)
(* of up to three small files: without a limit read() returns what matches  *)
(* of the files that open.                                                  *)
ASSUME LET fs == <<[rows |-> <<1, 2>>, footer |-> TRUE],
                   [rows |-> <<3>>,    footer |-> FALSE],
                   [rows |-> <<4, 5>>, footer |-> TRUE]>>
       IN  /\ ReadFiles(fs, 1 .. 5, 9) = <<1, 2, 4, 5>>
           /\ ReadFiles(fs, 2 .. 5, 2) = <<2, 4>>
ASSUME \A n \in 0 .. 3, match \in SUBSET (1 .. 3) :
         \A fs \in [1 .. n -> [rows : {<<>>, <<1>>, <<2, 3>>}, footer : BOOLEAN]] :
           ToSet(ReadFiles(fs, match, 6)) = ReadableIn(fs) \cap match

-----------------------------------------------------------------------------
Record == 1 .. MaxRecords

TypeOK ==
  /\ ring \in Seq(Record) /\ Len(ring) <= SoftCap /\ Len(ring) <= RingCap
  /\ accepted \in 0 .. MaxRecords /\ counting \subseteq Producers
  /\ submitted \in 0 .. MaxRecords /\ dropped \in Nat /\ written \in 0 .. MaxRecords
  /\ running \in BOOLEAN /\ stopReq \in BOOLEAN /\ final \in BOOLEAN /\ dead \in BOOLEAN
  /\ at \in [worker : {"none", "wait", "lock", "drain", "write", "check", "close", "exited"},
            client : {"idle", "lock", "drain", "write", "close", "join"}]
  /\ consumer \in Sides \cup {"none"}
  /\ batch \in [Sides -> Seq(Record)]
  /\ cur \in [rows : Seq(Record), state : {"none", "open", "bad"}]
  /\ fileRows \in Nat /\ lost \subseteq Record
  /\ files \in Seq([rows : Seq(Record), footer : BOOLEAN])
  /\ reply \in {"none", "started", "ok", "error", "throw"} /\ snap \in 0 .. MaxRecords
  /\ early \in BOOLEAN

(* What is accepted and in no registered file, oldest first: the open file, *)
(* the batch in hand, the ring.  Throw counts the rows of a bad file lost.  *)
Open    == IF cur.state = "bad" THEN <<>> ELSE cur.rows
InHand  == batch["worker"] \o batch["client"]
Pending == Open \o InHand \o ring

Increasing(s) == \A i, j \in 1 .. Len(s) : i < j => s[i] < s[j]
Ahead(s, t)   == \A i \in 1 .. Len(s), j \in 1 .. Len(t) : s[i] < t[j]

(* The records of the files fs and then p are in the order of acceptance.   *)
InOrder(fs, p) ==
  /\ \A i \in 1 .. Len(fs) : Increasing(fs[i].rows) /\ Ahead(fs[i].rows, p)
  /\ \A i, j \in 1 .. Len(fs) : i < j => Ahead(fs[i].rows, fs[j].rows)
  /\ Increasing(p)

(* Records are never duplicated or reordered between submit() and the       *)
(* files, and none disappears except those counted as lost to an I/O error, *)
(* whichever of flush() and the background thread drains the ring.          *)
ExactlyOnceInOrder ==
  /\ InOrder(files, Pending)
  /\ RowsOf(files) \cup ToSet(Pending) = (1 .. accepted) \ lost

\* Every accepted record is written once and in order, over all of the sink's states.
Delivered == TypeOK /\ ExactlyOnceInOrder

(* Records an I/O error took: never written, or in a file without a footer. *)
Failed ==
  lost \cup UNION {ToSet(files[i].rows) : i \in {j \in 1 .. Len(files) : ~files[j].footer}}

(* flush(): "Drain the ring buffer and write all pending records, then      *)
(* close the current Parquet file so it ... is immediately readable": when  *)
(* it reports success, a HybridReader finds every record accepted before    *)
(* the call, but for those an I/O error took, even if the background thread *)
(* was in the middle of a batch, and whether or not it still runs.          *)
FlushMakesReadable ==
  [][at.client = "close" /\ reply' = "ok"
       => \A r \in 1 .. snap : r \in Readable' \cup Failed']_vars

(* A stop() that stops the background thread has drained and closed         *)
(* everything: every record accepted before the call is readable when it    *)
(* returns, but for those an I/O error took, including those whose submit() *)
(* raced the worker's last batch.                                           *)
StopDrains ==
  [][at.client = "join" /\ reply' = "ok" /\ ~early
       => \A r \in 1 .. snap : r \in Readable' \cup Failed']_vars

(* stop(): "Stop the background thread, drain remaining records, and close  *)
(* open files", in whatever state it is called.                             *)
StopAlwaysDrains ==
  [][at'.client = "idle" /\ reply' = "ok" /\ (at.client = "join" \/ Stop)
       => \A r \in 1 .. snap' : r \in Readable']_vars

(* Every accepted record eventually leaves the ring for a file (or an I/O   *)
(* error) as long as a background thread runs: no wakeup is lost, nobody    *)
(* keeps consumer_mutex_, and flush() calls do not starve the drain.        *)
EventuallyDrained ==
  \A r \in 1 .. MaxRecords :
    r \in ToSet(ring) ~> r \notin ToSet(ring) \/ at.worker \in {"none", "exited"}

(* start(): "Start the background compaction thread (no-op if already       *)
(* running)": after it, a background thread is running.                     *)
StartRuns == [][Start => at'.worker \notin {"none", "exited"}]_vars

(* stop(): "@return Error on I/O failure during final drain": success means *)
(* that no record was lost in the drain.                                    *)
StopReportsLoss ==
  [][at.client = "join" /\ reply' = "ok" => lost = {}]_vars

(* "HybridReader never sees a file without a valid Parquet footer". *)
RegisteredHaveFooter == \A i \in 1 .. Len(files) : files[i].footer

(* flush(): "@return Error on I/O failure", not an exception. *)
FlushNeverThrows == [][at.client \in {"write", "close"} => reply' # "throw"]_vars
=============================================================================
