------------------------------- MODULE MCWal --------------------------------
(***************************************************************************)
(* The write-ahead log for TLC: a behaviour is one of a single file, cells *)
(* and all (WalWriter and WalReader), or one of a directory of segments    *)
(* (WalManager), which takes a segment as what the first part shows.       *)
(***************************************************************************)
EXTENDS WalManager

CONSTANTS
  Parts,                                     \* which of "log" and "manager"
  StartSeq, SyncOptions, MaxWrites, MaxOpens \* the constants of WalWriter

ASSUME LogAssumption ==
  /\ Parts \subseteq {"log", "manager"}
  /\ SyncOptions \subseteq [append : BOOLEAN, flush : BOOLEAN]
  /\ {StartSeq, MaxWrites, MaxOpens} \subseteq Nat

VARIABLES part, file, dur, buf, sync, isOpen, nextSeq, attempts, lacked, flushed, promised, opens

logAll == <<file, dur, buf, sync, isOpen, nextSeq, attempts, lacked, flushed, promised, opens>>

L == INSTANCE WalWriter WITH MaxAppends <- MaxWrites, acked <- lacked

\* The options of the part that rests are fixed.
WalInit ==
  /\ part \in Parts /\ Init /\ L!Init
  /\ part = "log" => opts = CHOOSE o \in OptionSets : TRUE
  /\ part = "manager" => sync = CHOOSE o \in SyncOptions : TRUE

WalNext ==
  \/ part = "log" /\ L!Next /\ UNCHANGED part /\ UNCHANGED vars
  \/ part = "manager" /\ Next /\ UNCHANGED part /\ UNCHANGED logAll

WalSpec == WalInit /\ [][WalNext]_<<part, vars, logAll>>

\* A record for which fsync was reported done stays in the file through failed writes, crashes,
\* power loss and later sessions, one covered by a flush() until the machine itself fails, and
\* only a cut record in front of it can keep WalReader from finding it.
LogKept == L!TypeOK /\ L!DurableKept /\ L!FlushedKept

\* WalReader sees consecutive numbers across sessions, failed writes and cut records.
LogContiguous == L!ReadContiguous

\* A record for which fsync was reported done is found by WalReader for ever after.
LogDurableReadable == L!DurableReadable

AllSyncOptions == [append : BOOLEAN, flush : BOOLEAN]
FlushSync      == {[append |-> FALSE, flush |-> TRUE]}

(* WalReader on files that end in, or contain, a cut record. *)
ASSUME /\ L!ReadAll(<<>>) = <<>>
       /\ L!ReadAll(<< <<0, 1>>, <<1, 1>>, <<1, 2>> >>) = <<>>
       /\ L!ReadAll(L!Header \o L!Cells(1) \o << <<2, 1>> >>) = <<1>>
       /\ L!ReadAll(L!Header \o << <<1, 1>> >> \o L!Cells(2)) = <<>>

(* The defaults with a checkpoint asked for, and a production log that      *)
(* syncs every record; both with strict_replay, which has no effect.        *)
TwoOptionSets ==
  {[sync |-> FALSE, strict |-> TRUE, checkpoint |-> TRUE,  production |-> FALSE],
   [sync |-> TRUE,  strict |-> TRUE, checkpoint |-> FALSE, production |-> TRUE]}

\* WalManager: acknowledged records are returned by read_all() or were lost by a call that failed,
\* the file of the writer is never removed, and nothing is pruned without a checkpoint where one
\* is required.
ManagerKeeps == [](TypeOK /\ AckedKept /\ ActiveOnDisk) /\ PruneNeedsCheckpoint
=============================================================================
