---------------------------- MODULE MCEventBus ------------------------------
(***************************************************************************)
(* The event bus and the ring under it, for TLC.  EventBus takes its       *)
(* tier-2 queue as the bounded FIFO that MpmcRing is shown to implement,   *)
(* so the two are checked side by side: a behaviour is one of the ring or  *)
(* one of the bus.                                                         *)
(***************************************************************************)
EXTENDS MpmcRing, TLC

CONSTANTS BusCapacity, SinkCapacity, EnableTier3, MaxCalls, MaxResets

ASSUME BusAssumption ==
  /\ EnableTier3 \in BOOLEAN
  /\ BusCapacity \in Nat \ {0} /\ SinkCapacity \in Nat \ {0}
  /\ MaxCalls \in Nat /\ MaxResets \in Nat

VARIABLES part, tier2, popping, sink, queued, published, dropped, tier3Drops, bpc, call, target,
          rpc, calls, resets, taken, blog, lost, recent

busAll == <<tier2, popping, sink, queued, published, dropped, tier3Drops, bpc, call, target,
            rpc, calls, resets, taken, blog, lost, recent>>

\* The ring's threads are those of the bus, and the model values of its elements name the sinks:
\* one symmetry serves both.
Bus == INSTANCE EventBus WITH Workers <- Consumers, Sinks <- Values, NoSink <- NoValue,
                              Capacity <- BusCapacity, pc <- bpc, log <- blog

BothInit == part \in {"ring", "bus"} /\ Init /\ Bus!Init

BothNext ==
  \/ part = "ring" /\ Next /\ UNCHANGED part /\ UNCHANGED busAll
  \/ part = "bus" /\ Bus!Next /\ UNCHANGED part /\ UNCHANGED vars

BothSpec == BothInit /\ [][BothNext]_<<part, vars, busAll>>

\* publish() offers a batch to the sink it loaded before a worker can see it; when no call is
\* running the three counters account for every call, and after reset_stats() they hold nothing
\* older than it.
BusAccounts == Bus!TypeOK /\ Bus!LoggedBeforeDelivered /\ Bus!Accounted /\ Bus!ResetForgets

Symmetry == Permutations(Producers) \cup Permutations(Consumers) \cup Permutations(Values)

(* The constructor's loop yields the least power of two that is at least   *)
(* two and at least the requested capacity.                                *)
ASSUME \A n \in 1..70 :
         /\ \E k \in 1..7 : RoundUp(n) = 2^k
         /\ RoundUp(n) >= n
         /\ RoundUp(n) > 2 => RoundUp(n) \div 2 < n
=============================================================================
