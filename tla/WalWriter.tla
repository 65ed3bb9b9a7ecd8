------------------------------ MODULE WalWriter -----------------------------
(***************************************************************************)
(* signet::forge::WalWriter and WalReader (ai/wal.hpp): one append-only    *)
(* log file, its stdio buffer, the page cache and the disk below it, and   *)
(* the process or the machine crashing between any two steps.              *)
(*                                                                         *)
(* A record on file is two cells: its front (magic, seq, size, some of the *)
(* data) and its back (the rest, with the CRC), so a record can be cut.    *)
(* Every append attempt has its own id, because a sequence number may be   *)
(* used again after a crash; attempts[id] is the sequence number.  Id 0 is *)
(* the file header.  CRC and magic checks succeed exactly when a front is  *)
(* followed by its own back.                                               *)
(***************************************************************************)
EXTENDS Integers, Sequences, SequencesExt, FiniteSetsExt

CONSTANTS
  StartSeq,       \* Options::start_seq
  SyncOptions,    \* Options: the records [append, flush] of sync_on_append and
                  \*   sync_on_flush that a log may be opened with
  IoFaults,       \* whether fwrite, fflush and fsync may fail
  MaxAppends,     \* bound: append attempts
  MaxOpens        \* bound: calls of open()

VARIABLES
  file,       \* cells in the page cache: what a reader sees
  dur,        \* how many of them are on the disk
  buf,        \* cells in the stdio buffer
  sync,       \* opts_: the options this log is always opened with
  isOpen,     \* ~closed_
  nextSeq,    \* next_seq_
  attempts,   \* history: sequence number of every append attempt
  acked,      \* history: ids whose append() returned success, not lost since
  flushed,    \* history: ids covered by a successful flush()
  promised,   \* history: ids covered by a successful fsync
  opens       \* bound: calls of open() so far

vars == <<file, dur, buf, sync, isOpen, nextSeq, attempts, acked, flushed, promised, opens>>

Cells(id) == << <<id, 1>>, <<id, 2>> >>
Header    == Cells(0)

Init ==
  /\ file = <<>> /\ dur = 0 /\ buf = <<>>
  /\ sync \in SyncOptions /\ isOpen = FALSE /\ nextSeq = 0
  /\ attempts = <<>> /\ acked = {} /\ flushed = {} /\ promised = {}
  /\ opens = 0

-----------------------------------------------------------------------------
(* WalReader: n records can be read when the header and n whole records     *)
(* come first; reading stops at the first cut or foreign cell.              *)
Intact(f, n) ==
  \/ n = 0
  \/ /\ Len(f) >= 2 * n + 2
     /\ \A k \in 0 .. n : f[2 * k + 1][2] = 1 /\ f[2 * k + 2] = <<f[2 * k + 1][1], 2>>
     /\ f[1][1] = 0
Count(f)   == Max({n \in 0 .. Len(f) : Intact(f, n)})
ReadAll(f) == [k \in 1 .. Count(f) |-> f[2 * k + 1][1]]

(* Records whose cells are all in f, readable or behind a cut one. *)
Whole(f) == {f[k][1] : k \in {j \in 1 .. Len(f) - 1 :
                                f[j][2] = 1 /\ f[j + 1] = <<f[j][1], 2>>}}

(* The cells at k do not belong together: a cut record, or header, with     *)
(* something written behind it.                                             *)
CutAt(f, k) == f[k][2] = 1 /\ f[k + 1] # <<f[k][1], 2>>

-----------------------------------------------------------------------------
(* Mutant: the scan continues with the last number, not the one after it.   *)
OpenLast ==
  /\ ~isOpen /\ opens < MaxOpens
  /\ opens' = opens + 1
  /\ isOpen' = TRUE
  /\ IF file = <<>>
       THEN /\ nextSeq' = StartSeq
            /\ file' = Header /\ buf' = <<>>
       ELSE /\ nextSeq' = IF Count(file) = 0 THEN 0 ELSE attempts[Last(ReadAll(file))]
            /\ UNCHANGED <<file, buf>>
  /\ UNCHANGED <<sync, dur, attempts, acked, flushed, promised>>

(* open(): a new file gets a header, flushed without a look at the result;  *)
(* an existing one is scanned for the last good record.  A file without any *)
(* continues at 0, whatever start_seq says.                                 *)
Open ==
  /\ ~isOpen /\ opens < MaxOpens
  /\ opens' = opens + 1
  /\ isOpen' = TRUE
  /\ IF file = <<>>
       THEN /\ nextSeq' = StartSeq
            /\ \/ file' = Header /\ buf' = <<>>
               \/ IoFaults /\ file' = <<>> /\ buf' = Header
       ELSE /\ nextSeq' = IF Count(file) = 0 THEN 0 ELSE attempts[Last(ReadAll(file))] + 1
            /\ UNCHANGED <<file, buf>>
  /\ UNCHANGED <<sync, dur, attempts, acked, flushed, promised>>

(* append(): three fwrite calls into the buffer, then the optional sync.    *)
AppendRecord ==
  LET id  == Len(attempts) + 1
      all == buf \o Cells(id)
  IN  /\ isOpen /\ id <= MaxAppends
      /\ attempts' = Append(attempts, nextSeq)
      /\ nextSeq' = nextSeq + 1
      /\ acked' = acked \cup {id}
      /\ IF sync.append
           THEN /\ file' = file \o all /\ buf' = <<>> /\ dur' = Len(file')
                /\ flushed' = acked' /\ promised' = acked'
           ELSE /\ buf' = all
                /\ UNCHANGED <<file, dur, flushed, promised>>
      /\ UNCHANGED <<sync, isOpen, opens>>

(* An fwrite fails: what it wrote of the record stays, the number does not  *)
(* advance.                                                                 *)
AppendFails ==
  LET id == Len(attempts) + 1
  IN  /\ isOpen /\ IoFaults /\ id <= MaxAppends
      /\ attempts' = Append(attempts, nextSeq)
      /\ \E n \in 0 .. 1 : buf' = buf \o SubSeq(Cells(id), 1, n)
      /\ UNCHANGED <<sync, file, dur, isOpen, nextSeq, acked, flushed, promised, opens>>

(* fflush or fsync fails after the record was written: append() returns an  *)
(* error but the record stays and its number is used.                       *)
AppendSyncFails ==
  LET id == Len(attempts) + 1
  IN  /\ isOpen /\ IoFaults /\ sync.append /\ id <= MaxAppends
      /\ attempts' = Append(attempts, nextSeq)
      /\ nextSeq' = nextSeq + 1
      /\ buf' = buf \o Cells(id)
      /\ UNCHANGED <<sync, file, dur, isOpen, acked, flushed, promised, opens>>

(* Mutant: close-like flush that leaves what it wrote in the buffer and     *)
(* counts it as synced.                                                     *)
FlushKeepsBuffer(doSync) ==
  /\ isOpen
  /\ flushed' = acked
  /\ dur' = Len(file) + Len(buf) /\ promised' = acked
  /\ UNCHANGED <<sync, file, buf, isOpen, nextSeq, attempts, acked, opens>>

Flush(doSync) ==
  /\ isOpen
  /\ file' = file \o buf /\ buf' = <<>>
  /\ flushed' = acked
  /\ IF doSync \/ sync.flush THEN dur' = Len(file') /\ promised' = acked
                            ELSE UNCHANGED <<dur, promised>>
  /\ UNCHANGED <<sync, isOpen, nextSeq, attempts, acked, opens>>

(* Mutant: close() without the fsync. *)
CloseNoSync ==
  /\ isOpen
  /\ isOpen' = FALSE
  /\ file' = file \o buf /\ buf' = <<>> /\ dur' = dur
  /\ flushed' = acked /\ promised' = acked
  /\ UNCHANGED <<sync, nextSeq, attempts, acked, opens>>

Close ==
  /\ isOpen
  /\ isOpen' = FALSE
  /\ file' = file \o buf /\ buf' = <<>> /\ dur' = Len(file')
  /\ flushed' = acked /\ promised' = acked
  /\ UNCHANGED <<sync, nextSeq, attempts, acked, opens>>

(* close() fails: closed all the same, what was not written yet is gone.    *)
CloseFails ==
  /\ isOpen /\ IoFaults
  /\ isOpen' = FALSE
  /\ \E n \in 0 .. Len(buf) : file' = file \o SubSeq(buf, 1, n)
  /\ buf' = <<>>
  /\ acked' = acked \cap Whole(file')
  /\ UNCHANGED <<sync, dur, nextSeq, attempts, flushed, promised, opens>>

-----------------------------------------------------------------------------
(* The environment.  stdio writes its buffer out when it is full, wherever  *)
(* that cuts it; flush() failing half-way is such a step, too.              *)
Spill ==
  /\ buf # <<>>
  /\ \E n \in 1 .. Len(buf) :
       /\ file' = file \o SubSeq(buf, 1, n)
       /\ buf'  = SubSeq(buf, n + 1, Len(buf))
  /\ UNCHANGED <<sync, dur, isOpen, nextSeq, attempts, acked, flushed, promised, opens>>

(* The process dies: the stdio buffer is lost. *)
ProcessCrash ==
  /\ isOpen
  /\ isOpen' = FALSE
  /\ buf' = <<>>
  /\ acked' = acked \cap Whole(file)
  /\ UNCHANGED <<sync, file, dur, nextSeq, attempts, flushed, promised, opens>>

(* The machine loses power: any part of the page cache that was not synced  *)
(* may be missing from the end of the file.                                 *)
PowerLoss ==
  /\ \E n \in dur .. Len(file) :
       /\ file' = SubSeq(file, 1, n)
       /\ dur' = n
  /\ isOpen' = FALSE /\ buf' = <<>>
  /\ acked' = acked \cap Whole(file')
  /\ flushed' = promised
  /\ UNCHANGED <<sync, nextSeq, attempts, promised, opens>>

Next ==
  \/ Open \/ AppendRecord \/ AppendFails \/ AppendSyncFails
  \/ \E doSync \in BOOLEAN : Flush(doSync)
  \/ Close \/ CloseFails
  \/ Spill \/ ProcessCrash \/ PowerLoss

Spec == Init /\ [][Next]_vars

-----------------------------------------------------------------------------
TypeOK ==
  /\ dur \in 0 .. Len(file)
  /\ attempts \in Seq(Nat) /\ nextSeq \in Nat /\ sync \in SyncOptions
  /\ ToSet(file) \cup ToSet(buf) \subseteq (0 .. Len(attempts)) \X {1, 2}
  /\ isOpen \in BOOLEAN /\ (~isOpen => buf = <<>>)
  /\ promised \subseteq flushed /\ flushed \subseteq 1 .. Len(attempts)
  /\ acked \subseteq 1 .. Len(attempts)
  /\ opens \in 0 .. MaxOpens

(* A record for which fsync was reported done, by append() with             *)
(* sync_on_append, flush(true) or close(), is found by WalReader for ever   *)
(* after: through process crashes, power loss and later sessions.           *)
DurableReadable == promised \subseteq ToSet(ReadAll(file))

(* The records of ids are in the file, and readable unless a cut record is  *)
(* in front of them.                                                        *)
KeptBeforeCut(ids) ==
  /\ ids \subseteq Whole(file)
  /\ \A id \in ids \ ToSet(ReadAll(file)) :
       \E j, k \in 1 .. Len(file) - 1 : j < k /\ CutAt(file, j) /\ file[k] = <<id, 1>>

(* A record for which fsync was reported done stays in the file through     *)
(* failed writes, crashes, power loss and later sessions, and only a cut    *)
(* record in front of it can keep WalReader from finding it.                *)
DurableKept == KeptBeforeCut(promised)

(* The same of a record covered by a successful flush(), until the machine  *)
(* itself fails, whatever happens to the process.                           *)
FlushedKept == KeptBeforeCut(flushed)

(* Readers see consecutive sequence numbers: no gap, no repetition and no   *)
(* step back, across sessions, failed writes and whatever was cut off.      *)
ReadContiguous ==
  LET r == ReadAll(file)
  IN  \A k \in 1 .. Len(r) - 1 : attempts[r[k + 1]] = attempts[r[k]] + 1

(* "First sequence number for brand-new files": the first record carries it.*)
FirstIsStartSeq ==
  ReadAll(file) # <<>> => attempts[Head(ReadAll(file))] = StartSeq
=============================================================================
