# TLA+ verification of Signet Forge

Signet Forge is a header-mostly C++20 Parquet library with extensions for
streaming, logging, encryption and compliance. This directory holds TLA+ models
translated from the headers under `include/signet/`, the TLC configurations
that check them, and TLAPS proofs.

* `PROJECT.json` lists components, runs, mutants, the definition-to-line map,
  findings, hazards and theorems.
* `X.tla` models a part of the system, `X_proofs.tla` holds theorems. The
  instance for TLC is `MCX.tla` or, for `StreamingSink`, `WalMmapWriter`,
  `ParquetFile` and `FeatureStore`, the end of the module.
* `tlc -config Y.cfg M` runs a configuration (the pairs are the `runs` of
  `PROJECT.json`), `tlapm X_proofs.tla` checks proofs.

## 1. Inventory

| Component | State | Operations | Hard part | What makes it correct |
|---|---|---|---|---|
| `MpmcRing` (`ai/mpmc_ring.hpp`) | two cursors, one sequence number and one plain element per slot | `push`, `pop` by any thread | lock-free claims, delayed threads, wrap-around | exactly-once FIFO, no two threads on one slot |
| `SpscRingBuffer` (`ai/streaming_sink.hpp`) | `head_`, `tail_`, storage | `push`, `pop`, bulk forms | indices read stale across threads, modulo arithmetic | FIFO of Capacity - 1, no shared slot |
| `MpscRingBuffer` (`ai/streaming_sink.hpp`) | as MpmcRing, consumer position plain | `push`, `pop`, bulk forms | as MpmcRing, capacity 1 | FIFO of Capacity |
| `StreamingSink`, `HybridReader` (`ai/streaming_sink.hpp`) | SPSC ring, flags, worker thread, current Parquet writer, list of files | `submit`, `start`, `stop`, `stop_nowait`, `flush`, background loop; `read` | two drainers, stop against late submits, failing I/O | every accepted record written once, in order; flush and stop mean what they say |
| `WalWriter`, `WalReader` (`ai/wal.hpp`) | stdio buffer, file, `next_seq_` | `open`, `append`, `flush`, `close`, `next` | crash between any two steps, torn tail, failing writes | synced records stay readable, numbers consecutive |
| `WalManager` (`ai/wal.hpp`) | segment list, active writer, `global_seq_`, checkpoint flag | `open`, `append` with roll, `read_all`, checkpoint, `remove_segment`, `close` | several segments over several sessions | acknowledged records kept, numbers increasing |
| `WalMmapWriter` (`ai/wal_mapped_segment.hpp`) | ring of mapped segments with a state each, ids | `append`, `rotate`, `close`, moves, background thread | slot states are the only synchronisation | the writer touches only its own live mapping |
| `EventBus` (`ai/event_bus.hpp`) | tier-2 ring, attached sink, counters | `publish`, `pop`, `attach_sink`, `detach_sink`, `reset_stats` | sink swapped inside a call, counters reset inside a call | tier 3 offered before tier 2, counters account for calls |
| Encodings (`encoding/`), Thrift (`thrift/`), Snappy and the codec registry (`compression/`) | buffers | encode, decode | group and block boundaries, integer widths, data cut short, fields of a newer version | decode inverts encode or reports an error |
| Statistics, column and offset index, Bloom filter, Z-order | bounds, bits | build, merge, query | NaN, null pages, signed and short keys | what is skipped holds no match |
| `ParquetWriter`, `ColumnWriter` (`writer.hpp`, `column_writer.hpp`) | stream, pending rows, column buffers, row groups, codec registry | `open`, `write_row`, `write_column`, `flush_row_group`, `close`, CSV conversion | a flush that fails after some columns, state carried from group to group | a closed file has exactly the accepted values |
| `ParquetReader`, `MmapParquetReader` (`reader.hpp`, `mmap_reader.hpp`) | footer, keys | open, read columns, rows, index, Bloom filter | unfinished, damaged and encrypted files | never half a file, never damaged data without an error |
| Modular encryption (`crypto/pme.hpp`, `pme_facade.hpp`, `cipher_interface.hpp`) | keys per slot, AAD prefix, invocation counter | encrypt and decrypt each kind of module, wrap, unwrap | modules moved on the disk, readers with other keys | a module opens at its own place with its own key |
| Key management (`crypto/key_metadata.hpp`, `kms_local.hpp`, `hsm_client_stub.hpp`) | key files, KEKs, subjects | generate, store, wrap, destroy, shred; two metadata formats | a crash while a key file is written, metadata cut short | keys survive a restart, erased ones stay erased |
| `AuditChain` (`ai/audit_chain.hpp`), decision and inference logs, row lineage | hash chain, pending records, files | `append`, `log`, `flush`, `verify_chain`, `now_ns` | failing flushes, restarts, rotation, edited files | each record once in a chain that links; a verified report was made of what was written |
| Compliance reporters (`ai/compliance/`) | none | MiFID II, Articles 12, 13, 15, 19 | order of equal times, thresholds as fractions | a report has the records of its period, its figures agree |
| Human oversight (`ai/human_oversight.hpp`) | a third kind of audit log; a sliding window of override times | `log`, `record_override`, `current_count` | the time is taken before the lock | no override of a thread whose turn it was is lost |
| Log retention (`ai/log_retention.hpp`) | policy; the directory | `enforce`, `list_files` | callbacks and deletions that fail in the middle | nothing leaves early, the summary is exact |
| Feature store (`ai/feature_writer.hpp`, `feature_reader.hpp`) | buffered rows, current file; index and one cached row group | `write`, `write_batch`, `flush`, `close`; `as_of`, `history`, `as_of_batch` | failed flushes retried, threads that share a reader | each row once, answers as of the time asked |
| Incident response, regulatory monitor, vectors, bridges, crypto arithmetic, bindings | registries or none | look-up, pure computation | arithmetic | not modelled, see section 5 |

How they interact: `EventBus.publish` calls `StreamingSink::submit` and then
`MpmcRing::push`. `StreamingSink` is an `SpscRingBuffer` between the producers
(serialised by `submit_mutex_`) and the drainers (serialised by
`consumer_mutex_`), followed by a `ParquetWriter`; `HybridReader` reads the
files it registered. `WalManager` owns one `WalWriter` and reads with
`WalReader`; `WalMmapWriter` writes the same file format, and `WalManager` lists
its files by the number in their name. `ParquetWriter` puts values through the
encodings and a codec, describes them with Thrift structs, statistics and
indexes, and hands pages and footer to `FileEncryptor`. The audit logs and the
feature store write Parquet files; the reporters read the audit logs, the
retention manager removes them.

The hazards are in `PROJECT.json` under `hazards`, each at its line, with the
properties that cover it or the reason why none does.

## 2. Modules

```
BoundedFifo  what a ring promises
   ^ implemented by
MpmcRing   SpscRing   MpscRing
   |          |
EventBus   StreamingSink      WalWriter -> WalManager      WalMmapWriter

ThriftCompact -> ThriftTypes   Encodings   Compression   PagePruning
        |              \_________ Codecs ___________________/
        |                            | pages, footers and indexes as blocks
   KeyMetadata   KeyStore       ParquetWriter -> ParquetReader -> ParquetFile
        |           |                | files
        |    ModularEncryption       +--> FeatureWriter, FeatureReader -> FeatureStore
        +-- EncryptedFile            +--> AuditRecords, AuditChain -> AuditLog
                                            -> ComplianceReports -> AuditTrail
                                                HumanOversight, LogRetention ^
```

Theorems are in eight modules (section 4): `EventBus_proofs` (`MpmcRing` and
`EventBus`), `Rings_proofs` (`SpscRing` and `MpscRing`), `StreamingSink_proofs`,
`Wal_proofs` (`WalWriter` and `WalManager`), `WalMmapWriter_proofs`,
`EncryptedFile_proofs`, `FeatureStore_proofs` and `AuditTrail_proofs`.

A later layer takes the result of an earlier one as given: `EventBus` uses the
bounded FIFO that `MpmcRing` implements, a page of `ParquetWriter` holds the
values that `Codecs` shows to come back from its bytes, and a log file of
`AuditLog` the rows that `ParquetFile` shows to come back from a closed file.

**BoundedFifo** is the abstract specification of a ring: put at the end if
fewer than Size are inside, take from the front.

**MpmcRing** has one action per atomic access of `push` and `pop`. A thread's
`pc` names its next access; `pos`, `val` are its locals. `PushCasFail` covers
both a lost exchange and the spurious failure of `compare_exchange_weak`. The
histories `log` (elements in claim order) and `popped` are what the properties
speak of. Positions are naturals: a `size_t` wraps after 2^64 pushes.

**SpscRing** has the same grain: load the other side's index, move elements,
store one's own index. Single and bulk calls share the actions. **MpscRing**
combines the producer of the first with the consumer of the second. Reading the
sequence and reloading the cursor is one step there, since a sequence number
above `pos` stays above it.

**StreamingSink** models producers, the background thread and one client. The
two drainers are the same actions, indexed by the side that takes them; the
ring is the FIFO that SpscRing implements. `ParquetWriter` is modelled by what
the sink sees of it: `open()` may fail, a write may throw, `close()` may report
success without a footer.

**WalWriter** has three layers: stdio buffer, page cache (`file`), disk (`dur`).
A record is two cells so that it can be cut. `ProcessCrash` loses the buffer,
`PowerLoss` what was not synced, `Spill` moves part of the buffer at any time.
`ReadAll` is `WalReader`: it stops at the first cell that is not part of a
whole record. The sync options are chosen in `Init` and never change.

**WalManager** stands on WalWriter's result: a segment is its readable records
and a cut flag. Every method holds `mu_`, so each is one action, except that a
crash may fall between `append`'s roll and its write (`CrashInRoll`). Paths are
`<<seq_start, ms>>`; `SameMs` lets two segments be created within one
millisecond. The options are a variable that never changes, chosen in `Init`
from `OptionSets`; `strict` makes no difference in any action, since
`WalReader`'s move constructor drops the validation mode. A writer is `torn`
when part of a record is in its buffer or file, from a failed `fwrite` or a
crash: what is appended behind it cannot be read. Closing a writer writes out
any part of its buffer if calls may fail (`Outcomes`), and a roll does not look
at the result. The history `lost` names the records that either of the two took.
The history `upset` records that one of three events happened after which a
number may be used twice: `open()` found the last segment empty, a new segment
got the path of an existing one, or `append()` failed in its fsync.

**WalMmapWriter** has one action per access to a slot's state. `AppendCheck`
and `AppendWrite` are separate because the background thread may unmap in
between. The moves stop and restart the thread. A record that is written is in
the file (a mapping is shared memory); power loss is not modelled here.

**EventBus** uses the queues that MpmcRing and StreamingSink show to their
callers. A batch is the number of its `publish` call.

**ThriftCompact** is the compact protocol byte by byte with the limits of its
decoder; **ThriftTypes** has each struct of `thrift/types.hpp` as a table of
fields, so that one `Serialize` and one `Deserialize` stand for all of them.
**Encodings** and **Compression** are encoder and decoder pairs over bytes, with
narrow integers in place of 32 and 64 bits. **PagePruning** has what lets a
reader skip data. **Codecs** makes a state machine of them: a job is encoded,
its bytes may be cut or extended by a field that the reader does not know, of
any type, and they are decoded. `Spoils` names the unknown fields that
`skip_field` gets wrong: lists, sets and maps of bools, and a bool before a list
of bools. The other ones cost nothing (`SkipKeepsRest`).

**ParquetWriter** and **ParquetReader** work on a file that is a sequence of
blocks (magic, page, filter, index, footer). Every method is an operator that
takes the writer and returns it with "ok", "error" or "throw", following the
early returns of the code. **ParquetFile** is the life of one file: calls of
one writer in any order, close, crash, damage, and readers of both classes in
the same or a new process. The stream keeps a block back until it has filled
its buffer, and the disk has room for so many blocks. A page carries its number
of values, its size in units (one a value or, with run lengths, one a run)
and the size it is packed to; "ZSTD" packs equal values into one unit.
The readers refuse a compressed page that is empty or larger than `MaxPageSize`, of a ratio from
`MaxRatio` on, or of more than `MaxValues` values. `WithinLimits` names the
columns that this leaves, and `ReadBack` speaks of those.

**ModularEncryption** treats a blob as the key, the AAD and the data it was
made from: GCM opens it with the same key and AAD only, CTR shows garbage under
another key. **KeyStore** has the key services and the shredder,
**KeyMetadata** both metadata formats as bytes. **EncryptedFile** composes them.

**AuditRecords**, **AuditChain** and **AuditLog** are the records, the chain over
a collision-free hash, and the three log writers and readers, which differ in
the record only. A flush has an outcome for each call that may fail and one,
"silent", for a `close()` that succeeds although no footer reached the disk: its
records are no longer pending and its file, marked `lost`, does not open.
**ComplianceReports** are functions from files to the values a
report shows. **HumanOversight** is the sliding window of overrides,
**LogRetention** a pass over a directory. **AuditTrail** composes them; its
variable `part` chooses which of the independent parts a behaviour is about,
so that their states are added and not multiplied.

**FeatureWriter** and **FeatureReader** are operators in the same style as
ParquetWriter; a file whose stream failed unnoticed in `close()` ("close_bad")
has no footer and none of its row groups can be read, which its history `lost`
keeps. **FeatureStore** lets writers, damage, and threads that share
one reader act. `ensure_cached()` and the two reads of `fetch_row()` are steps
of their own, for the mutex is free between them.

Memory model: accesses interleave one at a time. A relaxed load that returns an
old value is a thread delayed after its load; every plain field is published by
a release store and read after an acquire load, and `SlotExclusive` is the
absence of a data race on it.

## 3. Runs

| Run | Bounds | Shows |
|---|---|---|
| `event_bus` | ring: 2 producers, 2 consumers, 2 slots, 3 claims; bus: 2 producers, 2 workers, 2 sinks, 3 calls, 1 reset | exactly-once delivery, honest full and empty answers, refinement of BoundedFifo; the sink is offered a batch before a worker sees it, the counters account for every call |
| `rings` | SPSC: 4 slots, bulk calls of up to 3, 7 elements; MPSC: 2 producers, 2 slots, 4 claims, fair threads | order, honest answers and refinement for both buffers of the sink; a polling consumer gets every element |
| `sink` | 2 producers, 3 records, row group and file of 2 rows, every client call, failing I/O, fair worker | every record is written once and in order or lost to an I/O error; `flush()` and `stop()` leave everything else readable; the background thread always drains the ring |
| `wal` | one file: 4 appends, 3 sessions, all sync options, failing calls, crashes, power losses; segments: 3 records of up to more than a segment, 3 milliseconds, two sets of options, failing rolls, writes, closes and syncs, crashes also inside a roll | synced records stay in the file for good, flushed ones as long as the machine lives, and only a cut record in front hides them; numbers are consecutive; acknowledged records are returned or named in `lost` by a call that failed, the active file stays, pruning needs its checkpoint, numbers are in order until one of the three events of `upset` |
| `wal_mmap` | 3 slots of 2 units, 3 records, 2 sessions, 1 failed allocation, moves, fair threads | the writer only writes to its own live mapping; no record of the session is lost or doubled; a standby comes back; `close()` and the moves return |
| `codecs` | all patterns of up to three runs around the group of eight, delta blocks of 4 with 2 miniblocks, every Thrift struct with every combination of its optional fields and the edge values of each, the full ones cut at every byte and extended by 15 kinds of unknown fields at every place | round trip, errors for data cut short, unknown fields skipped except those of `Spoils`, sound skipping and ordering |
| `parquet` | 12 combinations of types, encoding, codec, index and encryption; 4 rows or values, row groups of 2, pages of at most 3 units and values and ratio 2; CSV columns of each detected type; crash at every block, one damaged page | a closed file reads back through both readers but for columns beyond their limits; damage is an error; an unfinished file never opens; statistics, filter and index describe the page |
| `encryption` | 9 writer and 7 reader configurations per writer, 2 columns, row groups and pages, one moved or cut blob, 3 key generations, metadata cut at every byte | a blob opens at its place only, no data without the key, keys survive restarts, shredded keys and used-up ciphers stay so |
| `audit` | 3 records in files of 1 or 2, one failed flush or restart, one edit; 4 report options; 2 threads with 3 calls of `now_ns()`; samples of 1 to 4 and of 11 latencies; 3 files under 32 retention policies | each record exactly once, pending, in files that link, or in a file lost by an unnoticed failure of `close()`; written files, records, chains and metadata verify or are refused; a verified report is honest, its figures agree; times and overrides are counted in order; no file leaves early |
| `feature_store` | 2 writers with 2 schemas, 3 rows, 1 fault, 2 threads with 2 queries | each accepted row once, in files that open or counted as lost with a file whose `close()` failed unnoticed; answers are the newest row at the time asked; a filed row never changes |

Runs that put two modules side by side (`event_bus`, `rings`, `wal`, `audit`,
`encryption`) choose in the initial state which one moves.

Why the bounds are enough for the interesting cases: every ring wraps at least
once with a thread delayed on each side; a file fills and rolls in the middle
of a batch; a crash finds the log empty, with half a header, with a cut record
and with whole records; a segment rolls by its count, by its bytes and while it
is empty; a slot is recycled while the writer looks for one; a Parquet file has
two row groups of which the second is shorter, with a flush that failed in
between; pages lie on both sides of each of the readers' limits; an audit chain
has two files and a third record pending; the row group cache changes under a
thread. A constant named `Max...` is a bound and nothing
else.

CHECK_DEADLOCK is off where a behaviour may really end: the process was
terminated, the file closed and read, or a bound on calls reached. Symmetry is
used in `event_bus`, which checks no liveness. `feature_store` has a VIEW: once
a reader is open the writer no longer moves, and its variables are dropped.

Fairness. `rings`: a producer past its exchange goes on, and the consumer
keeps polling. `sink`: weak fairness of the worker (it waits at most
`flush_interval`), of `stop()`'s join and of each side inside a drain; nothing
is assumed of `consumer_mutex_`, a `std::mutex` that may favour one side
forever, and either side empties the ring. `wal_mmap`: weak fairness of the
background thread (its wait times out after 100 ms) and of a writer inside a
call; callers need not call again.

Every property of a passing run has a mutant: a plausible slip in the mapped
definition that makes TLC report the property violated. A property that is a
conjunction (`LogKept`, `RoundTrip`, `ReportSound`...) has named parts.

### Where the code and its comments disagree

Two runs each check one statement of the repository and end in a violation
(`findings` in `PROJECT.json` has the quotes):

| Run | What happens |
|---|---|
| `wal_torn` | records appended behind a torn record or header cannot be read, synced or not |
| `feature_race` | a thread reads through a pointer to the row group cache while another replaces its contents |

The modules state more such sentences as properties. TLC refutes them for the
module's specification under the constants of the configuration, changed as
given:

| Property | Configuration and change | What happens |
|---|---|---|
| `MpmcRing!EmptyMeansEmpty` | `EventBus.cfg` | `pop()` answers "empty" although a completed `push()` is in the ring, behind a slower producer |
| `MpscRing!Occupancy` | `Rings.cfg`, capacity 1 | a filled slot looks free and is overwritten |
| `StreamingSink!StopAlwaysDrains` | `Sink.cfg` without faults | after `stop_nowait()` the worker is gone and `stop()` leaves late records in the ring |
| `StreamingSink!StopReportsLoss` | `Sink.cfg` | the final drain fails and `stop()` returns success |
| `StreamingSink!RegisteredHaveFooter` | `Sink.cfg` | a file whose last flush failed is registered without footer |
| `StreamingSink!FlushNeverThrows` | `Sink.cfg` | `flush()` throws instead of returning an Error |
| `StreamingSink!StartRuns` | `Sink.cfg` | after `stop_nowait()` `start()` does nothing |
| `WalWriter!DurableReadable` | `WalTorn.cfg`, `IoFaults = TRUE` | records behind a half-written record of a failed `append()` cannot be read |
| `WalWriter!FirstIsStartSeq` | `WalTorn.cfg`, `StartSeq = 2` | a header-only file forgets `start_seq` |
| `WalManager!ReadInOrder` | `Wal.cfg` | an empty last segment restarts the numbering at 0; one path twice in the segment list returns records twice; after a failed fsync the next segment repeats a number |
| `WalManager!RollKeeps` | `Wal.cfg` | `append()` rolls, the old segment cannot be flushed, nobody looks, and records acknowledged before are lost while `append()` succeeds |
| `WalManager!AppendAtomic` | `Wal.cfg` | a failed `fwrite` leaves part of a record, and records acknowledged after it cannot be read |
| `WalManager!StrictReplay` | `Wal.cfg` | with `strict_replay` a directory with a cut segment opens all the same |
| `WalMmapWriter!WritesActive` | `WalMmap.cfg`, `RetryAfterError = TRUE` | after a failed `rotate()` the writer appends to a slot that is being unmapped |
| `WalMmapWriter!AckedInFiles` | `WalMmap.cfg` | a second session truncates the first one's segments |
| `WalMmapWriter!AllocatingEnds` | `WalMmap.cfg`, `MaxSessions = 1` | a slot whose header flush failed stays ALLOCATING |
| `WalMmapWriter!SegmentOrder` | `WalMmap.cfg` with `Spec`, `Cap = 1`, `Sizes = {1}`, `MaxAppends = 8`, `MaxSessions = 1`, `MaxFaults = 0` | segment ids are taken before the slot is owned, so names and records get out of order |
| `EventBus!Tier3DropsComplete` | `EventBus.cfg` | a batch published with no sink attached is not counted in `tier3_drops` |
| `Codecs!SkipsEveryField` | `Codecs.cfg` | an unknown list, set or map of bools, or an unknown bool before a list of bools, spoils the fields behind it |
| `ParquetFile!ReadBack` | `ParquetFile.cfg`, `Configs <- MCDictionary`, `MaxDict = 1` | a full dictionary drops values, the column comes back shorter |
| `ParquetFile!ClosedIsComplete` | `ParquetFile.cfg`, `Configs <- MCFullDisk` | `close()` succeeds although the disk took no footer |
| `ParquetFile!EveryColumnReads` | `ParquetFile.cfg`, `Configs <- MCPacked` | a column that compresses too well, or a page that is too large, is written with success and refused by both readers |
| `MCEncryptedFile!KeysSurvive` | `EncryptedFile.cfg`, `DiskFull = TRUE` | `store_key()` does not look at the stream after its write: a key whose file took no bytes is in use, and what it wrapped is lost with the process |
| `AuditTrail!EveryFileVerifies` | `AuditTrail.cfg` | no file after the first of a rotated chain verifies |
| `AuditTrail!SkippedNotVerified` | `AuditTrail.cfg` | a report that skipped verification says the chain is verified |
| `AuditTrail!FilesKept` | `AuditTrail.cfg`, `ReuseId = TRUE` | a restarted writer with the same chain identifier overwrites the first file |
| `AuditTrail!FlushedReadable` | `AuditTrail.cfg` | `flush()` of an audit log clears its pending records although the footer never reached the disk |
| `FeatureStore!RegisteredOpens` | `FeatureStore.cfg` | `output_files()` names a file that does not open, for the same reason |

The passing runs do not exclude these triggers where a property can say what
holds in spite of them (`DurableKept`, `UpsetOnly`, `SessionKept`, the
`Failed` records of the sink, `CleanFileVerifies`), and where one must exempt
what a trigger took, the exemption is a named set or predicate with a row above
and a finding: `lost` in `WalManager` (empty unless calls fail, `AckedKept`), the
`lost` files of `TrailComplete` and `RowsKept`, `WithinLimits`, `Spoils`.
Assumptions on the caller
that remain: `RetryAfterError = FALSE` in `wal_mmap`, a caller that stops
appending after "ring full"; `ReuseId = FALSE` in `audit`, a process that gives
its writer a chain identifier of its own; `DiskFull = FALSE` in `encryption`, a
disk that takes the bytes of a key file once it opened.

## 4. Proofs

The theorems hold for every value of the constants under the assumptions named
in the modules. Most are types and bounds (`Max...` may be any number). Those
that say more: the ring of `MpmcRing` has two slots or more, as `RoundUp` makes
it; `SpscRing` too, since with one slot its buffer holds nothing; `MpscRing`
too, for one slot, which its `static_assert` lets pass, is the failure listed in
section 3; no thread is producer and consumer of an `MpmcRing` at once; and
three assumptions on the caller or the disk, written in front of the theorems
that need them: `~RetryAfterError` for those on `WalMmapWriter`, `~ReuseId` for
those on the audit logs, and `~DiskFull` for `EncryptedFile_WrapSurvives`. Section
3 shows what happens without each. The theorems
on `EventBus`, `WalWriter` and `WalManager` and `MpscRing_Refinement` are about the
run's specification, which composes modules (`BothSpec`, `WalSpec`, `RingsSpec`).
The other ones are about the module's `Spec`, which a run checks itself, with
fairness (`FairSpec`), or beside another module (`BothSpec`, `RingsSpec`, `MCSpec`
of `EncryptedFile` with the metadata formats, whose module declares RECURSIVE
operators and cannot be used in a proof).

Each development has an inductive invariant, which TLC checked before it was
proved: the theorem `..._Protocol`, `EncryptedFile_Keys`, or in the lemmas
(`BusInv`, `KeyInv`, `StoreInv`, `ClockInv`). What it adds to the property, and
why that is needed:

* **EventBus_proofs, MpmcRing**: two positions less than `n` apart have
  different `p % n`, and every argument about slots comes down to that
  (`SameSlot`, `NextCycle`). Exclusive access is not inductive by itself: one needs
  that each slot's sequence number names its phase (`SlotInv`: free or being
  written for position t, or holding element t), that a thread past its exchange
  owns that phase (`ProducerInv`, `ConsumerInv`), that a stale `pos` is below the
  sequence number it will meet (so its exchange must fail), and that a published
  element is in its slot (`DataInv`). From it: no data race on a slot
  (`MpmcRing_SlotExclusive`), exactly-once delivery and bounded occupancy
  (`MpmcRing_ExactlyOnce`), honest answers (`MpmcRing_HonestAnswers`), and the
  implementation of BoundedFifo (`MpmcRing_Refinement`).
* **Rings_proofs, SpscRing**: `head_` and `tail_` are the history lengths modulo
  Capacity and at most Capacity - 1 apart, a side past its check still has the
  room or the element it saw (the other side can only add to it), and every
  unread element is in its slot. From it: order and exclusive
  slots, honest answers, and the implementation of a FIFO of Capacity - 1.
* **Rings_proofs, MpscRing**: the consumer moves its position last, so every slot
  belongs to one position of the window that starts at `dequeue_pos_`
  (`WindowInv`). With the owners past their exchange (`MpscProducerInv`,
  `OwnersInv`), the consumer's claim and the published elements it is inductive
  and gives the implementation of a FIFO of Capacity (`MpscRing_Refinement`).
  The window argument fails for one slot, where a filled slot and the next free
  one have the same sequence number.
* **EventBus_proofs, EventBus**: `BusAccounts` bounds the counters by the calls, but a
  counter lags behind the calls that are under way. `CountInv` adds to each
  counter the number of producers at the control points from which they will
  still reach it, during a reset with one bound for each counter already
  cleared. `OfferInv` says of every batch past the sink, in a producer's hands,
  in the ring or taken, that its sink has it or refused it. From it:
  `EventBus_Accounts`.
* **Wal_proofs, WalWriter**: what is read depends on what a crash leaves of the stdio
  buffer, so the invariant speaks of the file as it will be once the buffer is
  written out: it begins with n whole records numbered consecutively and goes on
  with nothing, part of a record, or a record that was cut (`Clean`,
  `Consecutive`), and every front part of such a file is one again. The promised,
  flushed and acknowledged records are whole in the synced part, in the file,
  and in file and buffer. From it: `WalWriter_Kept`, `WalWriter_Contiguous`.
* **Wal_proofs, WalManager**: for `UpsetOnly` each file, with the buffer written out,
  holds the numbers from the one in its name on (`Numbered`); files do not
  overlap, and of two with the same number in their name one is empty (`Apart`);
  the list is in this order (`Listed`); `global_seq_` is behind all of them and
  the writer at the end of the last (`Ahead`). A directory found by `open()`
  keeps the first two from the session before, whatever a crash cut off, and
  that is why a resume from the last segment alone is sound as long as it is not
  empty. For `ManagerKeeps` the list names every file and ends with the
  writer's (`ListOK`), and nothing readable is buffered for a file that ends in
  part of a record: without that a flush could land behind a cut. What is
  appended behind one, or cannot be written when its segment is closed, goes to
  `lost` in the same step. Without failing calls (`~IoFaults`) the writer's file
  has the newest timestamp while every cut file is older, so no writer is ever
  torn and `lost` stays empty, which is part of the theorem. The parts take the
  state as parameters, since `append()` rolls first and what it rolls to
  satisfies them as well (`TargetOK`). From it: `WalManager_Keeps`, an invariant
  and the action property on pruning, and `WalManager_UpsetOnly`.
* **WalMmapWriter_proofs**: each thread knows the state of the slot it works on
  at each of its control points (`WriterInv`, `BgInv`), except for the
  background thread between its store of FREE and its exchange; segment ids are
  handed out once per session and those in hand name no mapped segment
  (`IdInv`); a segment that may still be truncated holds no record of the
  session, and a record is in one place (`RecordInv`). From it:
  `WalMmapWriter_SlotSafe`, `WalMmapWriter_SessionKept`.
* **StreamingSink_proofs**: `Delivered` says of every accepted record that it is in
  a registered file, the open file, a batch or the ring, or was lost, once and in
  order. It is kept because only one side at a time holds `consumer_mutex_`
  and only that side has a batch in hand (`MutexInv`), because the open writer
  has `current_file_rows_` rows, fewer than a full file, and the rows of a stream
  that went bad are among the lost ones (`WriterInv`), and because the three
  ways on (accepting a record, moving it to the front of the pending ones,
  losing it) each keep the order (`AcceptOne`, `FilePrefix`, `LosePrefix`).
  `ControlInv` says which control points of the worker and of the client go
  together, and `SnapInv` that after the drain of `flush()` or of the worker's
  end everything in the ring was accepted after the snapshot; these give
  `FlushMakesReadable` and `StopDrains`. For every ring, row group and file size,
  every number of producers and records, with and without failing I/O.
* **EncryptedFile_proofs**: every blob on the disk was made by the writer for some
  place (`FileInv`), with that place in its AAD if it is authenticated, and
  different places have different AADs (lemma `SameAad`, from
  `PlaceAssumption`: a place gives 0 or "" for what its type of module does not
  have). A reader with limited rights holds no key of another column. The cipher
  counts what it sealed (`CipherInv`), and a subject's blob is under the present key
  only while the subject is live, for keys are never handed out twice
  (`SubjectInv`). From it: `PlaceBound`, `NoKeyNoData`, `KeyLifeEnds`. The key store
  has an invariant of its own, `KeyInv`: what is in memory is on the disk too,
  except for the key whose file is being written, with which nothing was wrapped
  yet; so what was wrapped opens after a crash at any point, until its master key
  is regenerated or destroyed (`WrapSurvives`, proved for `~DiskFull`, a disk that
  takes what is written). The loops over the key slots are unwound by induction.
  Assumptions: `PlaceAssumption`, `OptionAssumption` and `ColumnsAssumption` (lists
  are finite), `InvocationAssumption` (the limit is positive).
* **FeatureStore_proofs**: `StoreInv` counts the rows of a writer as files, then row
  groups of the open file, then the buffers of its columns. The case to fear is a
  flush that fails and is called again: what it left in the column writers
  (`Leftover`) comes with a stream that went bad or with a page that is too
  large, so no retry ever succeeds and no row is written twice. File names are
  fresh because an index is used up even when `open()` fails, and files of earlier
  writers have smaller identifiers. A file that lost its footer in `close()` has no
  row group left and answers for those it had (`Account`), so the theorem says
  what can be read as well as what cannot. From it: `FeatureStore_RowsKept`
  and the action property `FeatureStore_FiledIsFinal`, for all options, keys,
  schemas, limits and failures (`LimitsAssumption`: sizes are positive;
  `OptionsAssumption`: feature names are a list).
* **AuditTrail_proofs, logs**: a chain numbers its entries from 0 and each carries
  the hash of the one before (`ChainOk`); the pending records are its last
  entries (`PendingOk`); the writer's readable files, with those that an unnoticed
  failure of `close()` lost, hold the numbers below
  the first pending one, each number in one file, and the rows and metadata of a
  readable one carry the chain's hashes (`FilesOk`), so the name of the next file is not on the disk
  and a failed flush, which leaves an unreadable file under that name, replaces
  nothing. From it: `AuditTrail_TrailComplete` and `AuditTrail_FilesKept`. Both
  assume `~ReuseId`, without which section 3 shows `FilesKept` to be false.
* **AuditTrail_proofs, oversight**: the times given out ascend and none is above
  `last`; a thread inside the exchange has a time above the value it expects; a
  thread that holds a time got it after the calls that it counts as made
  (`ThreadOk`); the window of the monitor is the sequence of the times of the calls that
  are live, in the order of the calls (`Matches`), where eviction from the front
  is exact because the window is sorted. From it: `AuditTrail_OversightTimely`,
  for any number of threads and calls, any clock and any window and threshold
  (`OversightAssumption`: they are integers).

Only model-checked:

* all liveness properties and the fairness they rest on (`EventuallyDrained`, a
  standby that comes back, calls that return, a polling consumer that gets every
  element), which are out of the prover's reach; liveness of MpmcRing, whose
  loops MpscRing shares, is not checked at all, because the graph without
  symmetry is too large;
* what recursive definitions compute for every input. The installed provers
  cannot use the library's induction theorems, which take an operator as a
  parameter. Where an induction was short it was done by a least counterexample
  (`WFMin`: the loops over key slots, the concatenation of a writer's
  files); the encodings, the Thrift structs, the key metadata (in `KeysSurvive`,
  whose other part is the theorem `EncryptedFile_WrapSurvives`), `RoundUp`
  (checked for capacities 1 to 70) and Parquet files are left to TLC, since their
  modules declare RECURSIVE operators or compute over bytes;
* of the audit logs what is read back from bytes and rows (`WrittenVerifies`) and the
  reports (`ReportHonest`, `ReportSound`): they depend on sorting, on folds over
  records and on the layouts of records;
* `FeatureStore`'s `PointInTime`, which compares binary searches with the set of
  all rows.

## 5. Not modelled

In the modelled components: weak memory beyond the argument in section 2,
exceptions from allocation failure, several clients calling `flush()` and
`stop()` of one sink at once, the event bus's map of named channels (each access
is one critical section), the checkpoint manifest's contents, power loss under
`WalMmapWriter`, a mapped file that another process truncates, the layout of
JSON and CSV, the Population Stability Index, pages above 2 GiB (the writer
refuses them), move construction where a moved
object is only destroyed.

Whole components:

* zlib, lz4 and zstd are libraries; a codec that packs any page into a given
  number of bytes stands for them.
* AES, key wrap, HKDF, SHA-2, X25519 and the post-quantum schemes: what opens
  under which key is modelled, the arithmetic is a matter of bit-level proofs.
* Vectors, quantization, tensors, Arrow, NumPy and ONNX bridges: numeric kernels
  and memory layouts without control state.
* Incident response and regulatory monitor: registries that overwrite or append
  under a key. One finding (`all_steps_complete()`) is recorded from reading.
* `ColumnBatch`, schema, types, errors, arena: value types that one thread uses.
* Data classification and threat model: static tables. Bindings, tools,
  benchmarks, fuzzers: wrappers and programs around the library.

## 6. Plan

Done: rings, sink, logs, mapped log, event bus; codecs, Parquet files, modular
encryption and keys; audit logs, reports, oversight and retention; the feature
store; proofs of the three rings, the event bus, the sink, the three logs,
encrypted files and their keys, the writers of the feature store, the audit
logs and the override monitor.

Left, in order of importance:

1. Proofs: the answers of the feature store (`PointInTime`); `WrittenVerifies` of
   the audit logs from the layouts of records.
2. StreamingSink over ParquetWriter in place of its assumptions on it.
3. Two clients of one sink, power loss under the mapped log, liveness of
   WalManager after a failed roll.
4. `ColumnBatch` as a conversion over bounded inputs.
