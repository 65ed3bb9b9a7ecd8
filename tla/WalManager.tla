----------------------------- MODULE WalManager -----------------------------
(***************************************************************************)
(* signet::forge::WalManager (ai/wal.hpp): rolling WAL segments in a       *)
(* directory, across sessions and process crashes.                         *)
(*                                                                         *)
(* A segment file is the sequence of its readable records and whether a    *)
(* cut record follows them; WalWriter has the file format and what it      *)
(* survives.  A path is <<seq_start, timestamp_ms>>, as make_segment_path  *)
(* builds it.  Records have ids, seqOf[id] is the number append() used.    *)
(* Every method runs under mu_, so one action per method; a crash may fall *)
(* into append() between its roll and its write.  A segment's header is    *)
(* written whole, WalWriter has the one that is not; and stdio keeps what  *)
(* it could not write until the stream is closed.                          *)
(***************************************************************************)
EXTENDS Integers, Sequences, FiniteSets, SequencesExt, FiniteSetsExt

CONSTANTS
  MaxRecs,            \* Options::max_records
  MaxSegBytes,        \* Options::max_segment_bytes, in units
  Sizes,              \* record sizes, in units with the frame; 0 is an empty record
  OptionSets,         \* Options a directory may be opened with, as records of:
                      \*   sync: sync_on_append, strict: strict_replay,
                      \*   checkpoint: require_checkpoint_before_prune,
                      \*   production: lifecycle_mode is Production
  SameMs,             \* two segments may be created in one millisecond
  IoFaults,           \* open(), fwrite, fflush and fsync may fail
  MaxAppends,         \* bound: records appended
  MaxSegs             \* bound: segments created, and listed when one is added by a roll

ASSUME OptionAssumption ==
  /\ {MaxRecs, MaxSegBytes, MaxAppends, MaxSegs} \subseteq Nat \ {0}
  /\ Sizes \subseteq Nat
  /\ OptionSets \subseteq [sync : BOOLEAN, strict : BOOLEAN,
                            checkpoint : BOOLEAN, production : BOOLEAN]
  /\ {SameMs, IoFaults} \subseteq BOOLEAN

NoWriter == [open |-> FALSE, path |-> <<>>, next |-> 0, bytes |-> 0,
             pending |-> <<>>, torn |-> FALSE]
Empty    == [recs |-> <<>>, cut |-> FALSE]

VARIABLES
  opts,           \* opts_: the options this directory is always opened with
  dir,            \* the directory: a function from paths to segment files
  clock,          \* CLOCK_REALTIME in ms, and segments created, see Stamp
  phase,          \* "down", "open", "closed": the WalManager object
  segments,       \* segments_
  w,              \* writer_: [open, path_, next_seq_, bytes_written_, the whole records of
                  \* the stdio buffer, whether part of a record is behind them or in the file]
  globalSeq, segCount,   \* global_seq_, segment_record_count_
  ready,          \* prune_checkpoint_ready_
  seqOf,          \* history: number of every record written
  acked,          \* history: ids whose append() returned success
  gone,           \* history: ids removed by the caller or lost in a crash
  lost,           \* history: ids whose segment could not be flushed when it was closed, or
                  \* that were appended behind part of a record
  committed,      \* history: a checkpoint was committed and not cleared
  upset           \* history: the numbering was upset, see Upsets

session == <<phase, segments, w, globalSeq, segCount>>
vars == <<opts, dir, clock, session, ready, seqOf, acked, gone, lost, committed, upset>>

Init ==
  /\ opts \in OptionSets /\ upset = FALSE
  /\ dir = << >> /\ clock = 0
  /\ phase = "down" /\ segments = <<>> /\ w = NoWriter
  /\ globalSeq = 0 /\ segCount = 0 /\ ready = TRUE
  /\ seqOf = <<>> /\ acked = {} /\ gone = {} /\ lost = {} /\ committed = FALSE

-----------------------------------------------------------------------------
(* scan_segments: sorted by the number in the name; std::sort leaves equal  *)
(* ones in any order.                                                       *)
Scans(d) ==
  {s \in SetToSeqs(DOMAIN d) : \A i, j \in DOMAIN s : i < j => s[i][1] <= s[j][1]}

(* The next number after the last record of a file, 0 if it has none: the   *)
(* rule of WalWriter::open for an existing file and of WalManager::open.    *)
After(recs) == IF recs = <<>> THEN 0 ELSE seqOf[Last(recs)] + 1

(* Timestamps a new segment may carry.  clock is the latest one used; a new *)
(* process does not start within the millisecond in which the old one died. *)
Stamps == IF SameMs /\ phase # "down" THEN {clock, clock + 1} ELSE {clock + 1}

(* Writing out the buffer: whole records, then perhaps part of one, behind  *)
(* which nothing can be read.                                               *)
FileWith(d, p, more, cut) ==
  [d EXCEPT ![p] = [recs |-> @.recs \o more, cut |-> @.cut \/ cut]]
Flushed == IF w.open THEN FileWith(dir, w.path, w.pending, w.torn) ELSE dir

(* What may get into the file when the writer is closed, or its process     *)
(* dies: all of the buffer or, if writing may fail, any part of it.         *)
Outcomes(fails) ==
  {o \in [n : 0 .. Len(w.pending), cut : BOOLEAN] :
     \/ o.n = Len(w.pending) /\ o.cut = w.torn
     \/ fails /\ (o.cut => o.n < Len(w.pending) \/ w.torn)}

ClosedNoFlush(o) == dir                           \* mutant: the buffer is dropped
Closed(o) == IF w.open THEN FileWith(dir, w.path, SubSeq(w.pending, 1, o.n), o.cut) ELSE dir
Unwritten(o) == ToSet(w.pending) \ ToSet(SubSeq(w.pending, 1, o.n))

(* WalWriter::open(path): creates the file or scans the existing one. *)
WithFile(d, p) ==
  IF p \in DOMAIN d THEN d ELSE [q \in {p} \cup DOMAIN d |-> IF q = p THEN Empty ELSE d[q]]
OpenAt(d, p, start) ==
  [open |-> TRUE, path |-> p, next |-> IF p \in DOMAIN d THEN After(d[p].recs) ELSE start,
   bytes |-> 0, pending |-> <<>>, torn |-> p \in DOMAIN d /\ d[p].cut]

(* The records of a file, none if it was removed under another entry.       *)
Recs(d, p) == IF p \in DOMAIN d THEN d[p].recs ELSE <<>>

InFiles(d) == UNION {ToSet(d[p].recs) : p \in DOMAIN d}

(* What can make a number be used twice: open() finds the last segment      *)
(* empty, or a new segment gets the path of an existing one.  The third way *)
(* is AppendSyncFails.                                                      *)
Upsets(s, d, p) == p \in DOMAIN d \/ (s # <<>> /\ d[Last(s)].recs = <<>>)

-----------------------------------------------------------------------------
(* Mutant: the sequence resumes from the number of the last record. *)
ResumeSeqLast(s, d) ==
  IF s = <<>> \/ d[Last(s)].recs = <<>> THEN 0 ELSE seqOf[Last(d[Last(s)].recs)]

(* global_seq: from the last segment only. *)
ResumeSeq(s, d) == IF s = <<>> THEN 0 ELSE After(d[Last(s)].recs)

(* open().  strict_replay makes no difference to segments with a cut        *)
(* record: WalReader's move constructor leaves the validation mode behind.  *)
Open(reset) ==
  /\ phase # "open" /\ Cardinality(DOMAIN dir) < MaxSegs /\ clock < MaxSegs
  /\ reset => ~opts.production
  /\ LET d == IF reset THEN << >> ELSE dir
     IN  /\ \E s \in Scans(d), t \in Stamps :
              LET g == ResumeSeq(s, d)
                  p == <<g, t>>
              IN  /\ clock' = t
                  /\ globalSeq' = g
                  /\ segments' = Append(s, p)
                  /\ dir' = WithFile(d, p)
                  /\ w' = OpenAt(d, p, g)
                  /\ upset' = (upset \/ Upsets(s, d, p))
         /\ gone' = gone \cup IF reset THEN InFiles(dir) ELSE {}
  /\ phase' = "open" /\ segCount' = 0
  /\ ready' = ~opts.checkpoint /\ committed' = FALSE
  /\ UNCHANGED <<opts, seqOf, acked, lost>>

NeedRoll(size) == segCount >= MaxRecs \/ w.bytes + size > MaxSegBytes

(* roll_locked() to the segment stamped t; what flush() and close() of the  *)
(* old segment return is ignored.                                           *)
RollPath(t) == <<globalSeq, t>>
RollDir(o, t) == WithFile(Closed(o), RollPath(t))
RollW(o, t) == OpenAt(Closed(o), RollPath(t), globalSeq)
RollStamps == {t \in Stamps : t <= MaxSegs /\ Len(segments) < MaxSegs}

(* What append() works on: the current segment or, after a roll, a new one. *)
Targets(size) ==
  IF NeedRoll(size)
    THEN {[dir |-> RollDir(o, t), w |-> RollW(o, t), count |-> 0, clock |-> t,
           segments |-> Append(segments, RollPath(t)), lost |-> lost \cup Unwritten(o),
           upset |-> upset \/ RollPath(t) \in DOMAIN dir] :
            t \in RollStamps, o \in Outcomes(IoFaults)}
    ELSE {[dir |-> dir, w |-> w, count |-> segCount, clock |-> clock, segments |-> segments,
           lost |-> lost, upset |-> upset]}

Move(x) == clock' = x.clock /\ segments' = x.segments

(* The records of the buffer with record id behind them, readable unless    *)
(* part of a record is in front of it.                                      *)
Buffered(v, id) == IF v.torn THEN v.pending ELSE Append(v.pending, id)
Behind(v, id) == IF v.torn THEN {id} ELSE {}

AppendRecord(size) ==
  LET id == Len(seqOf) + 1
  IN  /\ phase = "open" /\ size > 0 /\ id <= MaxAppends
      /\ \E x \in Targets(size) :
           /\ x.w.open
           /\ Move(x) /\ upset' = x.upset
           /\ dir' = IF opts.sync THEN FileWith(x.dir, x.w.path, Buffered(x.w, id), x.w.torn)
                                     ELSE x.dir
           /\ w' = [x.w EXCEPT !.next = @ + 1, !.bytes = @ + size,
                               !.pending = IF opts.sync THEN <<>> ELSE Buffered(x.w, id)]
           /\ lost' = x.lost \cup Behind(x.w, id)
           /\ seqOf' = Append(seqOf, x.w.next)
           /\ segCount' = x.count + 1
      /\ acked' = acked \cup {id}
      /\ globalSeq' = globalSeq + 1
      /\ UNCHANGED <<opts, phase, ready, gone, committed>>

(* An empty record is refused, after the roll. *)
AppendEmpty ==
  /\ phase = "open" /\ 0 \in Sizes /\ NeedRoll(0)
  /\ \E x \in Targets(0) :
       /\ Move(x) /\ dir' = x.dir /\ w' = x.w /\ segCount' = x.count
       /\ lost' = x.lost /\ upset' = x.upset
  /\ UNCHANGED <<opts, phase, globalSeq, ready, seqOf, acked, gone, committed>>

(* One of the fwrite calls of WalWriter::append fails, which leaves part of *)
(* the record behind or nothing, and no number moves on.                    *)
AppendFails(size) ==
  /\ phase = "open" /\ IoFaults /\ size > 0
  /\ \E x \in Targets(size), part \in BOOLEAN :
       /\ x.w.open
       /\ Move(x) /\ dir' = x.dir /\ segCount' = x.count
       /\ w' = [x.w EXCEPT !.torn = @ \/ part]
       /\ lost' = x.lost /\ upset' = x.upset
  /\ UNCHANGED <<opts, phase, globalSeq, ready, seqOf, acked, gone, committed>>

(* fflush or fsync fails in WalWriter::append: the record stays and         *)
(* next_seq_ moves on, append() returns the error and global_seq_ does not. *)
AppendSyncFails(size) ==
  LET id == Len(seqOf) + 1
  IN  /\ phase = "open" /\ IoFaults /\ opts.sync /\ size > 0 /\ id <= MaxAppends
      /\ \E x \in Targets(size) :
           /\ x.w.open
           /\ Move(x) /\ dir' = x.dir
           /\ w' = [x.w EXCEPT !.next = @ + 1, !.bytes = @ + size,
                               !.pending = Buffered(x.w, id)]
           /\ lost' = x.lost \cup Behind(x.w, id)
           /\ seqOf' = Append(seqOf, x.w.next)
           /\ segCount' = x.count
      /\ upset' = TRUE
      /\ UNCHANGED <<opts, phase, globalSeq, ready, acked, gone, committed>>

(* The new segment cannot be opened: the old one is closed already. *)
RollFails(size) ==
  /\ phase = "open" /\ IoFaults /\ NeedRoll(size)
  /\ \E o \in Outcomes(TRUE) : dir' = Closed(o) /\ lost' = lost \cup Unwritten(o)
  /\ w' = [w EXCEPT !.open = FALSE, !.pending = <<>>, !.torn = FALSE]
  /\ UNCHANGED <<opts, upset, clock, phase, segments, globalSeq, segCount, ready, seqOf, acked, gone, committed>>

(* read_all() flushes the active segment first. *)
ReadAll ==
  /\ phase = "open" /\ w.open
  /\ dir' = Flushed
  /\ w' = [w EXCEPT !.pending = <<>>]
  /\ UNCHANGED <<opts, upset, clock, phase, segments, globalSeq, segCount, ready, seqOf, acked, gone, lost,
                 committed>>

(* What it returns for the i-th segment of the list, whose records come     *)
(* behind those of the segments before it.  (An entry whose file is gone is *)
(* skipped; strict_replay would report it.)                                 *)
Reads(i) == Recs(Flushed, segments[i])

-----------------------------------------------------------------------------
Commit ==
  /\ phase # "down"
  /\ ready' = TRUE /\ committed' = TRUE
  /\ UNCHANGED <<opts, upset, dir, clock, session, seqOf, acked, gone, lost>>

Clear ==
  /\ phase # "down"
  /\ ready' = ~opts.checkpoint /\ committed' = FALSE
  /\ UNCHANGED <<opts, upset, dir, clock, session, seqOf, acked, gone, lost>>

RemoveSegment(p) ==
  /\ phase # "down" /\ p # Last(segments)
  /\ opts.checkpoint => ready
  /\ dir' = [q \in DOMAIN dir \ {p} |-> dir[q]]
  /\ \E i \in DOMAIN segments :
       /\ segments[i] = p /\ \A j \in 1 .. i - 1 : segments[j] # p
       /\ segments' = RemoveAt(segments, i)
  /\ gone' = gone \cup ToSet(Recs(dir, p))
  /\ UNCHANGED <<opts, upset, clock, phase, w, globalSeq, segCount, ready, seqOf, acked, lost, committed>>

Close ==
  /\ phase = "open"
  /\ phase' = "closed"
  /\ \E o \in Outcomes(IoFaults) : dir' = Closed(o) /\ lost' = lost \cup Unwritten(o)
  /\ w' = [w EXCEPT !.open = FALSE, !.pending = <<>>, !.torn = FALSE]
  /\ UNCHANGED <<opts, upset, clock, segments, globalSeq, segCount, ready, seqOf, acked, gone, committed>>

(* The process dies: some of the stdio buffer had been written out, perhaps *)
(* cutting a record.                                                        *)
Crash ==
  /\ phase = "open"
  /\ \E o \in Outcomes(TRUE) : dir' = Closed(o) /\ gone' = gone \cup Unwritten(o)
  /\ phase' = "down" /\ segments' = <<>> /\ w' = NoWriter
  /\ globalSeq' = 0 /\ segCount' = 0 /\ ready' = TRUE /\ committed' = FALSE
  /\ UNCHANGED <<opts, upset, clock, seqOf, acked, lost>>

(* The process dies inside append(), after the roll. *)
CrashInRoll(size) ==
  /\ phase = "open" /\ NeedRoll(size)
  /\ \E t \in RollStamps, o \in Outcomes(IoFaults) :
       dir' = RollDir(o, t) /\ clock' = t /\ lost' = lost \cup Unwritten(o)
  /\ phase' = "down" /\ segments' = <<>> /\ w' = NoWriter
  /\ globalSeq' = 0 /\ segCount' = 0 /\ ready' = TRUE /\ committed' = FALSE
  /\ UNCHANGED <<opts, upset, seqOf, acked, gone>>

Next ==
  \/ \E reset \in BOOLEAN : Open(reset)
  \/ \E size \in Sizes : \/ AppendRecord(size) \/ AppendFails(size) \/ AppendSyncFails(size)
                         \/ RollFails(size) \/ CrashInRoll(size)
  \/ AppendEmpty \/ ReadAll \/ Commit \/ Clear
  \/ \E p \in ToSet(segments) : RemoveSegment(p)
  \/ Close \/ Crash

Spec == Init /\ [][Next]_vars

-----------------------------------------------------------------------------
TypeOK ==
  /\ DOMAIN dir \subseteq (0 .. MaxAppends) \X (0 .. MaxSegs)
  /\ \A p \in DOMAIN dir : dir[p].recs \in Seq(1 .. Len(seqOf)) /\ dir[p].cut \in BOOLEAN
  /\ clock \in 0 .. MaxSegs /\ phase \in {"down", "open", "closed"}
  /\ phase # "down" => segments # <<>>
  /\ upset \/ ToSet(segments) \subseteq DOMAIN dir
  /\ w.open \in BOOLEAN /\ w.torn \in BOOLEAN /\ w.next \in Nat /\ w.bytes \in Nat
  /\ w.open /\ w.path \in DOMAIN dir /\ dir[w.path].cut => w.torn /\ w.pending = <<>>
  /\ ToSet(w.pending) \subseteq 1 .. Len(seqOf)
  /\ globalSeq \in Nat /\ segCount \in 0 .. MaxRecs
  /\ ready \in BOOLEAN /\ committed \in BOOLEAN /\ upset \in BOOLEAN
  /\ opts \in OptionSets
  /\ acked \cup gone \cup lost \subseteq 1 .. Len(seqOf)

(* read_all(): "Records are returned in sequence order": strictly           *)
(* increasing numbers over rolls, removals, crashes and reopened            *)
(* directories, so that a number names one record.                          *)
ReadInOrder ==
  phase = "open" =>
    \A i, j \in DOMAIN segments : \A a \in DOMAIN Reads(i), b \in DOMAIN Reads(j) :
      i < j \/ (i = j /\ a < b) => seqOf[Reads(i)[a]] < seqOf[Reads(j)[b]]

(* A record whose append() succeeded is returned by read_all() unless its   *)
(* segment was removed, it sat in the stdio buffer of a crashed process or, *)
(* when calls may fail, its segment could not be flushed before it was      *)
(* closed or part of another record is in front of it.                      *)
AckedKept ==
  /\ phase = "open" =>
       acked \subseteq (UNION {ToSet(Reads(i)) : i \in DOMAIN segments}) \cup gone \cup lost
  /\ IoFaults \/ lost = {}

(* "Flush + fsync the current segment": an append() that succeeds does not  *)
(* lose acknowledged records by its roll.                                   *)
RollKeeps == [][acked' # acked => lost' \cap acked \subseteq lost]_vars

(* append() "writes a complete record [...] atomically": a record whose     *)
(* append() succeeded is not behind part of one.                            *)
AppendAtomic == [][acked' # acked => lost' \cap acked' \subseteq acked]_vars

(* strict_replay: "fail closed on corrupt/unreadable segments during        *)
(* replay": open() does not succeed on a directory with a cut segment.      *)
StrictReplay ==
  [][phase # "open" /\ phase' = "open" /\ opts.strict
       => \A p \in DOMAIN dir' : ~dir'[p].cut]_vars

(* Numbers are out of order or used twice only after one of the three       *)
(* events that upset the numbering; until then global_seq_ and next_seq_    *)
(* agree and are beyond every record in the log, over rolls, failed rolls,  *)
(* removals, crashes and reopened directories.                              *)
UpsetOnly ==
  upset \/ /\ ReadInOrder
           /\ phase = "open" /\ w.open =>
                /\ w.next = globalSeq
                /\ \A i \in DOMAIN segments : \A a \in DOMAIN Reads(i) : seqOf[Reads(i)[a]] < globalSeq

(* remove_segment() never takes the file the writer is writing to.          *)
ActiveOnDisk == w.open => w.path \in DOMAIN dir

(* With require_checkpoint_before_prune, records leave the directory of an  *)
(* open manager only while a committed checkpoint is in force.              *)
PruneNeedsCheckpoint ==
  [][phase # "down" /\ phase' = phase /\ opts.checkpoint /\ ~committed
       => DOMAIN dir \subseteq DOMAIN dir']_vars
=============================================================================
