------------------------------ MODULE EventBus ------------------------------
(***************************************************************************)
(* signet::forge::EventBus (ai/event_bus.hpp): publish() offers a batch to *)
(* the attached sink (tier 3) and then puts it in the shared ring (tier 2),*)
(* while workers pop, sinks are attached and detached, and the counters    *)
(* are reset.                                                              *)
(*                                                                         *)
(* The ring is the bounded queue that MpmcRing implements; a slot being    *)
(* popped is not free yet, and a push that meets it returns false.  A sink *)
(* is what StreamingSink::submit shows: a bounded queue of its own.  A     *)
(* batch is the number of the publish() call it was passed to; a caller    *)
(* that retries makes another call.                                        *)
(***************************************************************************)
EXTENDS Integers, Sequences, FiniteSets, SequencesExt

CONSTANTS
  Producers, Workers,   \* threads that call publish() and pop()
  Sinks, NoSink,        \* the sinks that may be attached; nullptr
  Capacity,             \* tier2_capacity
  SinkCapacity,         \* ring_buffer_capacity of a sink
  EnableTier3,          \* Options::enable_tier3
  MaxCalls, MaxResets   \* bounds: publish() and reset_stats() calls

VARIABLES
  tier2,                \* the shared ring: [call, sink] of each batch
  popping,              \* workers that took a batch and hold its slot
  sink,                 \* sink_
  queued,               \* each sink's queue length
  published, dropped, tier3Drops,
  pc, call, target,     \* each producer's control, batch and loaded sink
  rpc,                  \* reset_stats: the store it makes next
  calls, resets,        \* bounds, and history: calls made so far
  taken, log, lost,     \* history: batches popped, logged, refused by a sink
  recent                \* history: calls that ran or began since the last reset

busVars  == <<tier2, popping, sink, queued>>
statVars == <<published, dropped, tier3Drops, rpc>>
callVars == <<pc, call, target>>
histVars == <<calls, resets, taken, log, lost, recent>>
vars == <<busVars, statVars, callVars, histVars>>

Init ==
  /\ tier2 = <<>> /\ popping = {} /\ sink = NoSink
  /\ queued = [s \in Sinks |-> 0]
  /\ published = 0 /\ dropped = 0 /\ tier3Drops = 0 /\ rpc = "idle"
  /\ pc = [p \in Producers |-> "idle"]
  /\ call = [p \in Producers |-> 0]
  /\ target = [p \in Producers |-> NoSink]
  /\ calls = 0 /\ resets = 0 /\ recent = 0
  /\ taken = <<>> /\ log = [s \in Sinks |-> <<>>] /\ lost = {}

Goto(p, from, to) == pc[p] = from /\ pc' = [pc EXCEPT ![p] = to]

Running == {p \in Producers : pc[p] # "idle"}

-----------------------------------------------------------------------------
(* publish(): load the sink; the copy keeps it alive for the whole call. *)
PublishCall(p) ==
  /\ calls < MaxCalls
  /\ calls' = calls + 1 /\ recent' = recent + 1
  /\ call' = [call EXCEPT ![p] = calls + 1]
  /\ LET s == IF EnableTier3 THEN sink ELSE NoSink
     IN  /\ target' = [target EXCEPT ![p] = s]
         /\ Goto(p, "idle", IF s = NoSink THEN "push" ELSE "submit")
  /\ UNCHANGED <<busVars, statVars, resets, taken, log, lost>>

(* sink->submit, atomic under the sink's submit_mutex_. *)
Submit(p) ==
  LET s == target[p] IN
  /\ pc[p] = "submit"
  /\ IF queued[s] < SinkCapacity
       THEN /\ Goto(p, "submit", "push")
            /\ queued' = [queued EXCEPT ![s] = @ + 1]
            /\ log' = [log EXCEPT ![s] = Append(@, call[p])]
            /\ lost' = lost
       ELSE Goto(p, "submit", "drop3") /\ lost' = lost \cup {call[p]} /\ UNCHANGED <<queued, log>>
  /\ UNCHANGED <<tier2, popping, sink, statVars, call, target, calls, resets, taken, recent>>

CountTier3Drop(p) ==
  /\ Goto(p, "drop3", "push")
  /\ tier3Drops' = tier3Drops + 1
  /\ UNCHANGED <<busVars, published, dropped, rpc, call, target, histVars>>

PushOk(p) ==
  /\ Goto(p, "push", "published")
  /\ Len(tier2) + Cardinality(popping) < Capacity
  /\ tier2' = Append(tier2, [call |-> call[p], sink |-> target[p]])
  /\ UNCHANGED <<popping, sink, queued, statVars, call, target, histVars>>

(* The slot is still used by a batch or by a worker that pops it. *)
PushFull(p) ==
  /\ Goto(p, "push", "full")
  /\ Len(tier2) + Cardinality(popping) >= Capacity \/ popping # {}
  /\ UNCHANGED <<busVars, statVars, call, target, histVars>>

CountPublished(p) ==
  /\ Goto(p, "published", "idle")
  /\ published' = published + 1
  /\ UNCHANGED <<busVars, dropped, tier3Drops, rpc, call, target, histVars>>

CountDropped(p) ==
  /\ Goto(p, "full", "idle")
  /\ dropped' = dropped + 1
  /\ UNCHANGED <<busVars, published, tier3Drops, rpc, call, target, histVars>>

(* pop(): take the oldest batch, then release its slot. *)
PopTake(w) ==
  /\ w \notin popping /\ tier2 # <<>>
  /\ popping' = popping \cup {w}
  /\ taken' = Append(taken, Head(tier2))
  /\ tier2' = Tail(tier2)
  /\ UNCHANGED <<sink, queued, statVars, callVars, calls, resets, log, lost, recent>>

PopRelease(w) ==
  /\ w \in popping
  /\ popping' = popping \ {w}
  /\ UNCHANGED <<tier2, sink, queued, statVars, callVars, histVars>>

AttachSink(s) ==
  /\ sink' = s
  /\ UNCHANGED <<tier2, popping, queued, statVars, callVars, histVars>>

DetachSink ==
  /\ sink' = NoSink
  /\ UNCHANGED <<tier2, popping, queued, statVars, callVars, histVars>>

(* The sink's own thread takes a record. *)
Drain(s) ==
  /\ queued[s] > 0
  /\ queued' = [queued EXCEPT ![s] = @ - 1]
  /\ UNCHANGED <<tier2, popping, sink, statVars, callVars, histVars>>

(* reset_stats(): three stores, not one. *)
ResetPublished ==
  /\ rpc = "idle" /\ resets < MaxResets
  /\ rpc' = "dropped" /\ published' = 0
  /\ resets' = resets + 1 /\ recent' = Cardinality(Running)
  /\ UNCHANGED <<busVars, dropped, tier3Drops, callVars, calls, taken, log, lost>>

(* Mutant: one counter is left out. *)
ResetDroppedMissing ==
  /\ rpc = "dropped" /\ rpc' = "tier3"
  /\ UNCHANGED <<busVars, published, dropped, tier3Drops, callVars, histVars>>

ResetDropped ==
  /\ rpc = "dropped" /\ rpc' = "tier3"
  /\ dropped' = 0
  /\ UNCHANGED <<busVars, published, tier3Drops, callVars, histVars>>

ResetTier3 ==
  /\ rpc = "tier3" /\ rpc' = "idle"
  /\ tier3Drops' = 0
  /\ UNCHANGED <<busVars, published, dropped, callVars, histVars>>

Next ==
  \/ \E p \in Producers : \/ PublishCall(p) \/ Submit(p) \/ CountTier3Drop(p) \/ PushOk(p)
                          \/ PushFull(p) \/ CountPublished(p) \/ CountDropped(p)
  \/ \E w \in Workers : PopTake(w) \/ PopRelease(w)
  \/ \E s \in Sinks : AttachSink(s) \/ Drain(s)
  \/ DetachSink
  \/ ResetPublished \/ ResetDropped \/ ResetTier3

Spec == Init /\ [][Next]_vars

-----------------------------------------------------------------------------
TypeOK ==
  /\ tier2 \in Seq([call : 1 .. MaxCalls, sink : Sinks \cup {NoSink}])
  /\ popping \subseteq Workers /\ Len(tier2) + Cardinality(popping) <= Capacity
  /\ sink \in Sinks \cup {NoSink} /\ queued \in [Sinks -> 0 .. SinkCapacity]
  /\ published \in 0 .. calls /\ dropped \in 0 .. calls /\ tier3Drops \in 0 .. calls
  /\ pc \in [Producers -> {"idle", "submit", "drop3", "push", "published", "full"}]
  /\ call \in [Producers -> 0 .. calls] /\ target \in [Producers -> Sinks \cup {NoSink}]
  /\ rpc \in {"idle", "dropped", "tier3"} /\ recent \in 0 .. calls

(* "Tier 3 first": no worker can see a batch that the sink its publish()    *)
(* call had loaded did not log, unless that sink refused it, however        *)
(* sinks are swapped or detached meanwhile.                                 *)
LoggedBeforeDelivered ==
  \A e \in ToSet(tier2 \o taken) :
    e.sink # NoSink => e.call \in ToSet(log[e.sink]) \/ e.call \in lost

(* When no call is running and nothing was reset, the counters account for  *)
(* every call: put or dropped, and refused by its sink or not.              *)
Accounted ==
  Running = {} /\ resets = 0 =>
    /\ published = Len(tier2) + Len(taken)
    /\ published + dropped = calls
    /\ tier3Drops = Cardinality(lost)

(* After reset_stats() the counters cover only calls that ran or began      *)
(* since: nothing older survives the three separate stores.                 *)
ResetForgets == rpc = "idle" => published + dropped <= recent /\ tier3Drops <= recent

(* "Batches dropped at the Tier-3 sink (full or not attached)": every call  *)
(* that left no record at a sink is counted in tier3_drops.                 *)
Tier3DropsComplete ==
  EnableTier3 /\ Running = {} /\ resets = 0 =>
    tier3Drops = Cardinality({n \in 1 .. calls : \A s \in Sinks : n \notin ToSet(log[s])})
=============================================================================
