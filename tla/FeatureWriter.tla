--------------------------- MODULE FeatureWriter ---------------------------
(***************************************************************************)
(* FeatureWriter (ai/feature_writer.hpp): rows of a feature group are      *)
(* buffered, flushed as row groups and rolled over files.  A writer is a   *)
(* record, a file one of columns; an operation takes the writer, the disk  *)
(* and one outcome o of the storage and returns [res, fw, disk], res being *)
(* "ok", "error" (an Error) or "throw" (ParquetWriter::write_raw throws).  *)
(* The files are plain and uncompressed, so ParquetWriter::close() returns *)
(* no Error once its row groups are flushed, and the branch that removes a *)
(* file for that reason cannot be taken.                                   *)
(***************************************************************************)
EXTENDS Integers, Sequences, SequencesExt, FiniteSets

CONSTANTS
  RowGroupSize,   \* opts.row_group_size
  MaxFileRows,    \* opts.max_file_rows
  MaxPageRows     \* rows that fit in a page of INT32_MAX bytes

ASSUME LimitsAssumption ==
  RowGroupSize \in Nat \ {0} /\ MaxFileRows \in Nat \ {0} /\ MaxPageRows \in Nat \ {0}

Outcomes == {"ok", "open_fails", "throw", "close_bad", "close_throw"}

Result(res, fw, disk) == [res |-> res, fw |-> fw, disk |-> disk]

-----------------------------------------------------------------------------
(* Columns: entity_id, timestamp_ns, version and one for each feature *)

EmptyColumns(names) == [eids |-> <<>>, tss |-> <<>>, vers |-> <<>>,
                        feats |-> [i \in 1 .. Len(names) |-> <<>>]]

ColumnsOf(rows, names) ==
  LET column(field) == [j \in 1 .. Len(rows) |-> rows[j][field]]
  IN [eids |-> column("eid"), tss |-> column("ts"), vers |-> column("ver"),
      feats |-> [i \in 1 .. Len(names) |-> [j \in 1 .. Len(rows) |-> rows[j].values[i]]]]

\* write_column on every column: the values go behind those that a failed flush left there.
WriteColumns(cols, new) ==
  [eids |-> cols.eids \o new.eids, tss |-> cols.tss \o new.tss, vers |-> cols.vers \o new.vers,
   feats |-> [i \in DOMAIN cols.feats |-> cols.feats[i] \o new.feats[i]]]

-----------------------------------------------------------------------------
(* The writer *)

\* What create() asks of its options; a text is "plain", "empty", or "path" when it has
\* separators or "..", and a directory "uncreatable" when it cannot be made.
CreateAccepts(opts) ==
  /\ opts.output_dir \notin {"empty", "path"}
  /\ opts.group \notin {"empty", "path"}
  /\ opts.feature_names # <<>>
  /\ opts.file_prefix # "path"
  /\ opts.output_dir # "uncreatable"

\* The n-th writer made in the directory; n stands for the nanoseconds in its file names.
CreateWriter(opts, n) ==
  [names |-> opts.feature_names, id |-> n, open |-> FALSE, bad |-> FALSE, path |-> <<n, 0>>,
   cols |-> EmptyColumns(opts.feature_names), groups |-> <<>>, fileRows |-> 0, index |-> 0,
   total |-> 0, pend |-> <<>>, out |-> <<>>]

OpenNewFileSameName(fw, disk, o) ==
  LET path == <<fw.id, 0>>
      named == [fw EXCEPT !.index = @ + 1, !.path = path]
      file == [names |-> fw.names, groups |-> <<>>, footer |-> FALSE, damage |-> {}, lost |-> <<>>]
  IN IF o = "open_fails" THEN Result("error", named, disk)
     ELSE Result("ok", [named EXCEPT !.open = TRUE, !.bad = FALSE, !.fileRows = 0, !.groups = <<>>,
                                     !.cols = EmptyColumns(fw.names)],
                 [p \in DOMAIN disk \union {path} |-> IF p = path THEN file ELSE disk[p]])

\* The name is used up even when the file cannot be opened.
OpenNewFile(fw, disk, o) ==
  LET path == <<fw.id, fw.index>>
      named == [fw EXCEPT !.index = @ + 1, !.path = path]
      file == [names |-> fw.names, groups |-> <<>>, footer |-> FALSE, damage |-> {}, lost |-> <<>>]
  IN IF o = "open_fails" THEN Result("error", named, disk)
     ELSE Result("ok", [named EXCEPT !.open = TRUE, !.bad = FALSE, !.fileRows = 0, !.groups = <<>>,
                                     !.cols = EmptyColumns(fw.names)],
                 [p \in DOMAIN disk \union {path} |-> IF p = path THEN file ELSE disk[p]])

RegisterFile(out, path) == IF path \in ToSet(out) THEN out ELSE Append(out, path)

\* ParquetWriter::close() and the reset of current_writer_: the footer is written, unless the
\* stream fails, which write_raw notices ("close_throw") or which nobody asks for ("close_bad"):
\* then nothing in the file can be read, and it is registered all the same.  lost is history: the
\* row groups that went with the footer.
CloseFile(fw, disk, o) ==
  IF fw.bad \/ o = "close_throw" THEN Result("throw", [fw EXCEPT !.bad = TRUE], disk)
  ELSE Result("ok", [fw EXCEPT !.open = FALSE, !.fileRows = 0,
                               !.out = IF fw.fileRows > 0 THEN RegisterFile(@, fw.path) ELSE @],
              [disk EXCEPT ![fw.path].groups = IF o = "close_bad" THEN <<>> ELSE fw.groups,
                           ![fw.path].lost = IF o = "close_bad" THEN fw.groups ELSE <<>>,
                           ![fw.path].footer = (o # "close_bad")])

\* flush(): the buffers are cleared only when the row group has been written.
FlushRows(fw, disk, o) ==
  LET opened == IF fw.open THEN Result("ok", fw, disk) ELSE OpenNewFile(fw, disk, o)
      filled == [opened.fw EXCEPT !.cols = WriteColumns(@, ColumnsOf(fw.pend, fw.names))]
      flushed == [filled EXCEPT !.groups = Append(@, filled.cols), !.cols = EmptyColumns(fw.names),
                                !.fileRows = @ + Len(fw.pend), !.pend = <<>>]
  IN IF fw.pend = <<>> THEN Result("ok", fw, disk)
     ELSE IF opened.res # "ok" THEN opened
     ELSE IF Len(filled.cols.eids) > MaxPageRows THEN Result("error", filled, opened.disk)
     ELSE IF filled.bad \/ o = "throw" THEN Result("throw", [filled EXCEPT !.bad = TRUE], opened.disk)
     ELSE IF flushed.fileRows >= MaxFileRows THEN CloseFile(flushed, opened.disk, o)
     ELSE Result("ok", flushed, opened.disk)

WriteClearsEarly(fw, disk, row, o) ==
  LET buffered == [fw EXCEPT !.pend = Append(@, row), !.total = @ + 1]
      r == FlushRows(buffered, disk, o)
  IN IF Len(row.values) # Len(fw.names) THEN Result("error", fw, disk)
     ELSE IF Len(buffered.pend) >= RowGroupSize THEN [r EXCEPT !.fw.pend = <<>>]
     ELSE Result("ok", buffered, disk)

\* write(): the row is in the buffer even when the flush that it starts fails.
Write(fw, disk, row, o) ==
  LET buffered == [fw EXCEPT !.pend = Append(@, row), !.total = @ + 1]
  IN IF Len(row.values) # Len(fw.names) THEN Result("error", fw, disk)
     ELSE IF Len(buffered.pend) >= RowGroupSize THEN FlushRows(buffered, disk, o)
     ELSE Result("ok", buffered, disk)

\* write_batch(): os[i] is the outcome for the i-th row; the rows after a failure are not looked at.
WriteBatch(fw, disk, rows, os) ==
  LET after[i \in 0 .. Len(rows)] ==
        IF i = 0 THEN Result("ok", fw, disk)
        ELSE IF after[i - 1].res # "ok" THEN after[i - 1]
        ELSE Write(after[i - 1].fw, after[i - 1].disk, rows[i], os[i])
  IN after[Len(rows)]

\* close(): a flush that fails leaves the writer as it is.
CloseWriter(fw, disk, o) ==
  LET r == FlushRows(fw, disk, o)
  IN IF r.res # "ok" \/ ~r.fw.open THEN r
     ELSE CloseFile(r.fw, r.disk, o)
=============================================================================
