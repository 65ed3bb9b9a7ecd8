-------------------------- MODULE HumanOversight --------------------------
(***************************************************************************)
(* OverrideRateMonitor (ai/human_oversight.hpp): the overrides of the last *)
(* window_ns, oldest first, and the callbacks that were called.  Every     *)
(* method holds mu_ from its first to its last line, so each is one step.  *)
(* The records of the overrides are in AuditRecords, their log in          *)
(* AuditLog.                                                               *)
(***************************************************************************)
EXTENDS Integers, Sequences, SequencesExt, FiniteSets, FiniteSetsExt

\* A monitor: [opts, timestamps, alerts, halts], with
\* opts = [window_ns, alert_threshold, auto_halt].
NewMonitor(opts) == [opts |-> opts, timestamps |-> <<>>, alerts |-> <<>>, halts |-> <<>>]

\* evict_old(): from the front, while the front is older than the cutoff
EvictOld(m, now_ns) ==
  LET fresh == {i \in DOMAIN m.timestamps : m.timestamps[i] >= now_ns - m.opts.window_ns} IN
  [m EXCEPT !.timestamps = IF fresh = {} THEN <<>>
                           ELSE SubSeq(@, Min(fresh), Len(@))]

\* record_override(): [m, count], -1 for a time before the newest one kept
RecordOverride(m, ts) ==
  LET kept == EvictOld([m EXCEPT !.timestamps = Append(@, ts)], ts)
      count == Len(kept.timestamps) IN
  IF m.timestamps # <<>> /\ ts < Last(m.timestamps) THEN [count |-> -1, m |-> m]
  ELSE [count |-> count,
        m |-> IF count < m.opts.alert_threshold THEN kept
              ELSE [kept EXCEPT !.alerts = Append(@, count),
                                !.halts = IF m.opts.auto_halt THEN Append(@, "SAFETY_THRESHOLD")
                                          ELSE @]]

\* current_count(): old overrides are dropped for good
CurrentCount(m, now_ns) ==
  LET kept == EvictOld(m, now_ns) IN [count |-> Len(kept.timestamps), m |-> kept]
=============================================================================
