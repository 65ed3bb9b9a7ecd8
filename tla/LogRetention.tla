--------------------------- MODULE LogRetention ---------------------------
(***************************************************************************)
(* LogRetentionManager (ai/log_retention.hpp): one pass over a directory   *)
(* of log files, [path, mod_time_ns, size_bytes, managed], where managed   *)
(* says whether the name ends in the policy's suffix.                      *)
(***************************************************************************)
EXTENDS Integers, Sequences, FiniteSets, FiniteSetsExt

Age(f, now_ns) == now_ns - f.mod_time_ns

\* list_files(): the class of each managed file
Classification(f, policy, now_ns) ==
  IF Age(f, now_ns) > policy.max_retention_ns THEN "DELETE_ELIGIBLE"
  ELSE IF Age(f, now_ns) > policy.archive_after_ns THEN "ARCHIVE_ELIGIBLE"
  ELSE "ACTIVE"

ListFiles(dir, policy, now_ns) ==
  {[path |-> f.path, age_ns |-> Age(f, now_ns), size_bytes |-> f.size_bytes,
    status |-> Classification(f, policy, now_ns)] : f \in {g \in dir : g.managed}}

\* What becomes of one file.  ok is the answer of the callback asked for it,
\* removed whether fs::remove() reported no error.
Fate(f, policy, now_ns, ok, removed) ==
  CASE Classification(f, policy, now_ns) = "ACTIVE" -> "active"
    [] Classification(f, policy, now_ns) = "ARCHIVE_ELIGIBLE" ->
         IF policy.enable_archival /\ policy.has_archive_cb /\ ~ok THEN "failed" ELSE "archived"
    [] OTHER ->
         IF ~policy.enable_deletion THEN "deleted"
         ELSE IF (policy.has_pre_delete_cb => ok) /\ removed THEN "deleted"
         ELSE "failed"

SizeOf(files) == FoldSet(LAMBDA f, n : f.size_bytes + n, 0, files)

\* enforce(): [summary, dir].  The archive callback moves a file or copies
\* it: moved says whether the archived ones leave the directory.
Enforce(dir, policy, now_ns, ok, removed, moved) ==
  LET files == {f \in dir : f.managed}
      Ended(fate) == {f \in files : Fate(f, policy, now_ns, ok[f.path], removed[f.path]) = fate}
      taken == (IF policy.enable_deletion THEN Ended("deleted") ELSE {})
               \cup (IF policy.enable_archival /\ policy.has_archive_cb /\ moved
                     THEN Ended("archived") ELSE {}) IN
  [summary |-> [files_scanned |-> Cardinality(files), files_active |-> Cardinality(Ended("active")),
                files_archived |-> Cardinality(Ended("archived")),
                files_deleted |-> Cardinality(Ended("deleted")),
                files_failed |-> Cardinality(Ended("failed")),
                active_size_bytes |-> SizeOf(Ended("active")),
                archived_size_bytes |-> SizeOf(Ended("archived")),
                deleted_size_bytes |-> SizeOf(Ended("deleted")),
                dry_run |-> ~(policy.enable_archival \/ policy.enable_deletion),
                archived_paths |-> {f.path : f \in Ended("archived")},
                deleted_paths |-> {f.path : f \in Ended("deleted")}],
   dir |-> dir \ taken]
=============================================================================
