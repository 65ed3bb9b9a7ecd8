---------------------------- MODULE WalMmapWriter ---------------------------
(***************************************************************************)
(* signet::forge::WalMmapWriter (ai/wal_mapped_segment.hpp): one writer    *)
(* thread appends to the active slot of a ring of memory-mapped segments;  *)
(* a background thread recycles drained slots and keeps a standby ready.   *)
(* The slot states are the only synchronisation between the two.           *)
(*                                                                         *)
(* A segment file is the sequence of the numbers written to it; its id is  *)
(* its name.  A slot's seg is the id of the file it maps, NoSeg when it    *)
(* maps none.  used is write_offset, in units of record size.              *)
(***************************************************************************)
EXTENDS Integers, Sequences, FiniteSets, SequencesExt

CONSTANTS
  RingSegments,     \* Options::ring_segments
  Cap,              \* usable(), in units
  Sizes,            \* record sizes, in units
  RetryAfterError,  \* whether the caller appends again after a failed rotate()
  MaxFaults,        \* bound: allocate_slot calls that fail
  MaxAppends,       \* bound: records appended
  MaxSessions       \* bound: writers opened on the directory

ASSUME OptionAssumption ==
  /\ RingSegments \in Nat \ {0, 1} /\ Cap \in Nat \ {0}
  /\ Sizes \subseteq 1 .. Cap
  /\ RetryAfterError \in BOOLEAN /\ MaxFaults \in Nat
  /\ MaxAppends \in Nat /\ MaxSessions \in Nat \ {0}

NoSeg == -1
Ring  == 0 .. RingSegments - 1

VARIABLES
  state, seg, used,     \* per slot: state, mapped file, write_offset
  files,                \* the directory: contents by segment id
  active,               \* active_idx_
  nextSeq, nextId,      \* next_seq_, next_seg_id_
  wpc, wi, size, wseg,  \* writer: control, loop index, record size, and the
                        \*   segment it creates or writes to
  bpc, bi, bid,         \* background thread: control, loop index, new id
  stop, stopSeen,       \* bg_stop_, and the loop's copy of it
  broken,               \* history: a rotate() failed
  stray,                \* history: a record was written through a dead mapping
  sessionStart,         \* history: next_seq_ when this writer was opened
  session, faults       \* bounds: writers opened, allocations failed so far

slotVars   == <<state, seg, used, files>>
writerVars == <<active, nextSeq, wpc, wi, size, wseg, broken, stray>>
bgVars     == <<bpc, bi, bid, stopSeen>>
vars == <<slotVars, writerVars, bgVars, nextId, stop, session, sessionStart, faults>>

(* open(): slot 0 is allocated at once, with segment 0; the others are FREE *)
(* and the thread starts.  Creating a segment truncates an existing file.   *)
Fresh(fs) == [k \in {0} \cup DOMAIN fs |-> IF k = 0 THEN <<>> ELSE fs[k]]

Init ==
  /\ state = [i \in Ring |-> IF i = 0 THEN "ACTIVE" ELSE "FREE"]
  /\ seg   = [i \in Ring |-> IF i = 0 THEN 0 ELSE NoSeg]
  /\ used  = [i \in Ring |-> 0]
  /\ files = Fresh(<<>>)
  /\ active = 0 /\ nextSeq = 0 /\ nextId = 1
  /\ wpc = "idle" /\ wi = 0 /\ size = 0 /\ wseg = NoSeg
  /\ bpc = "wait" /\ bi = 0 /\ bid = 0
  /\ stop = FALSE /\ stopSeen = FALSE
  /\ broken = FALSE /\ stray = FALSE /\ sessionStart = 0 /\ session = 1 /\ faults = 0

-----------------------------------------------------------------------------
(* append(): room in the active slot and a mapping to write to.  Without a  *)
(* mapping append() returns an error.                                       *)
AppendCheck(n) ==
  /\ wpc = "idle" /\ nextSeq < MaxAppends /\ (broken => RetryAfterError)
  /\ used[active] + n <= Cap /\ seg[active] # NoSeg
  /\ wpc' = "write" /\ size' = n /\ wseg' = seg[active]
  /\ UNCHANGED <<slotVars, active, nextSeq, wi, broken, stray, bgVars, nextId, stop, session, sessionStart, faults>>

(* Mutant: the number is taken, the write offset not advanced. *)
AppendWriteInPlace ==
  /\ wpc = "write" /\ wpc' = "idle" /\ nextSeq' = nextSeq + 1
  /\ files' = [files EXCEPT ![wseg] = Append(IF @ = <<>> THEN @ ELSE Front(@), nextSeq)]
  /\ UNCHANGED <<state, seg, used, active, wi, size, wseg, broken, stray, bgVars, nextId, stop, session, sessionStart, faults>>

(* The bytes go to the mapping seen by the check; if it is gone by now this *)
(* is a write to unmapped memory.                                           *)
AppendWrite ==
  /\ wpc = "write"
  /\ wpc' = "idle"
  /\ nextSeq' = nextSeq + 1
  /\ IF seg[active] = wseg
       THEN /\ files' = [files EXCEPT ![wseg] = Append(@, nextSeq)]
            /\ used' = [used EXCEPT ![active] = @ + size]
            /\ stray' = stray
       ELSE stray' = TRUE /\ UNCHANGED <<files, used>>
  /\ UNCHANGED <<state, seg, active, wi, size, wseg, broken, bgVars, nextId, stop, session, sessionStart, faults>>

(* rotate(): gives the full slot away before it has another one.  A failed  *)
(* flush before that returns an error and changes nothing.                  *)
RotateStart(n) ==
  /\ wpc = "idle" /\ nextSeq < MaxAppends /\ (broken => RetryAfterError)
  /\ used[active] + n > Cap
  /\ state' = [state EXCEPT ![active] = "DRAINING"]
  /\ wpc' = "find" /\ wi' = 0 /\ size' = n
  /\ UNCHANGED <<seg, used, files, active, nextSeq, wseg, broken, stray, bgVars, nextId, stop, session, sessionStart, faults>>

(* find_standby_idx, one slot per step. *)
RotateFind ==
  /\ wpc = "find"
  /\ IF wi \notin Ring         THEN wpc' = "free" /\ wi' = 0
     ELSE IF state[wi] = "STANDBY" THEN wpc' = "take" /\ wi' = wi
     ELSE wpc' = "find" /\ wi' = wi + 1
  /\ UNCHANGED <<slotVars, active, nextSeq, size, wseg, broken, stray, bgVars, nextId, stop, session, sessionStart, faults>>

(* No standby: claim a FREE slot, or give up with "ring full". *)
RotateFree ==
  /\ wpc = "free"
  /\ IF wi \notin Ring
       THEN wpc' = "idle" /\ broken' = TRUE /\ UNCHANGED <<state, wi, wseg, nextId>>
       ELSE /\ broken' = broken
            /\ IF state[wi] = "FREE"
                 THEN /\ state' = [state EXCEPT ![wi] = "ALLOCATING"]
                      /\ wpc' = "alloc" /\ wi' = wi
                      /\ wseg' = nextId /\ nextId' = nextId + 1
                 ELSE wi' = wi + 1 /\ UNCHANGED <<state, wpc, wseg, nextId>>
  /\ UNCHANGED <<seg, used, files, active, nextSeq, size, stray, bgVars, stop, session, sessionStart, faults>>

(* allocate_slot(i, id) succeeds, cannot create the file, or cannot flush   *)
(* the header of the file it created.                                       *)
AllocOk(i, id) ==
  /\ files' = [k \in {id} \cup DOMAIN files |-> IF k = id THEN <<>> ELSE files[k]]
  /\ seg'   = [seg EXCEPT ![i] = id]
  /\ used'  = [used EXCEPT ![i] = 0]
  /\ state' = [state EXCEPT ![i] = "STANDBY"]
  /\ faults' = faults
AllocNoFile(i, id) ==
  /\ faults < MaxFaults /\ faults' = faults + 1
  /\ used'  = [used EXCEPT ![i] = 0]
  /\ state' = [state EXCEPT ![i] = "FREE"]
  /\ UNCHANGED <<seg, files>>
AllocNoFlush(i, id) ==
  /\ faults < MaxFaults /\ faults' = faults + 1
  /\ files' = [k \in {id} \cup DOMAIN files |-> IF k = id THEN <<>> ELSE files[k]]
  /\ seg'   = [seg EXCEPT ![i] = id]
  /\ used'  = [used EXCEPT ![i] = 0]
  /\ state' = state

RotateAlloc ==
  /\ wpc = "alloc"
  /\ \/ AllocOk(wi, wseg) /\ wpc' = "take" /\ broken' = broken
     \/ /\ AllocNoFile(wi, wseg) \/ AllocNoFlush(wi, wseg)
        /\ wpc' = "idle" /\ broken' = TRUE
  /\ UNCHANGED <<active, nextSeq, wi, size, wseg, stray, bgVars, nextId, stop, session, sessionStart>>

(* The slot found is taken and append() goes on with it. *)
RotateTake ==
  /\ wpc = "take"
  /\ state' = [state EXCEPT ![wi] = "ACTIVE"]
  /\ used'  = [used EXCEPT ![wi] = 0]
  /\ active' = wi
  /\ wseg' = seg[wi]
  /\ wpc' = IF seg[wi] = NoSeg THEN "idle" ELSE "write"
  /\ UNCHANGED <<seg, files, nextSeq, wi, size, broken, stray, bgVars, nextId, stop, session, sessionStart, faults>>

(* close() and the move operations tell the thread to stop and join it.     *)
StopAndJoin(why) ==
  /\ wpc = "idle"
  /\ wpc' = why /\ stop' = TRUE
  /\ UNCHANGED <<slotVars, active, nextSeq, wi, size, wseg, broken, stray, bgVars, nextId, session, sessionStart, faults>>

(* close() then unmaps every slot. *)
CloseJoin ==
  /\ wpc = "close" /\ bpc = "exited"
  /\ wpc' = "closed"
  /\ seg' = [i \in Ring |-> NoSeg]
  /\ UNCHANGED <<state, used, files, active, nextSeq, wi, size, wseg, broken, stray, bgVars, nextId, stop, session, sessionStart, faults>>

(* A moved writer keeps the ring and the counters and starts a new thread.  *)
MoveJoin ==
  /\ wpc = "move" /\ bpc = "exited"
  /\ wpc' = "idle"
  /\ stop' = FALSE /\ stopSeen' = FALSE /\ bpc' = "wait"
  /\ UNCHANGED <<slotVars, active, nextSeq, wi, size, wseg, broken, stray, bi, bid, nextId, session, sessionStart, faults>>

(* A new writer on the same directory, told where the sequence continues.   *)
Reopen ==
  /\ wpc = "closed" /\ session < MaxSessions
  /\ session' = session + 1 /\ sessionStart' = nextSeq
  /\ state' = [i \in Ring |-> IF i = 0 THEN "ACTIVE" ELSE "FREE"]
  /\ seg'   = [i \in Ring |-> IF i = 0 THEN 0 ELSE NoSeg]
  /\ used'  = [i \in Ring |-> 0]
  /\ files' = Fresh(files)
  /\ active' = 0 /\ nextId' = 1
  /\ wpc' = "idle" /\ broken' = FALSE
  /\ bpc' = "wait" /\ stop' = FALSE /\ stopSeen' = FALSE
  /\ UNCHANGED <<nextSeq, wi, size, wseg, stray, bi, bid, faults>>

-----------------------------------------------------------------------------
(* bg_worker.  The wait ends on a notification, a stop or after 100 ms.     *)
BgWake ==
  /\ bpc = "wait"
  /\ bpc' = "recycle" /\ bi' = 0
  /\ stopSeen' = stop
  /\ UNCHANGED <<slotVars, writerVars, bid, nextId, stop, session, sessionStart, faults>>

(* Step 1: a DRAINING slot is unmapped and gets a new id ... *)
BgRecycle ==
  /\ bpc = "recycle"
  /\ IF bi \notin Ring
       THEN bpc' = "count" /\ UNCHANGED <<bi, bid, seg, nextId>>
       ELSE IF state[bi] # "DRAINING"
       THEN bi' = bi + 1 /\ UNCHANGED <<bpc, bid, seg, nextId>>
       ELSE /\ bpc' = "free"
            /\ seg' = [seg EXCEPT ![bi] = NoSeg]
            /\ bid' = nextId /\ nextId' = nextId + 1
            /\ bi' = bi
  /\ UNCHANGED <<state, used, files, writerVars, stopSeen, stop, session, sessionStart, faults>>

(* ... passes through FREE, where the writer may take it ... *)
BgFree ==
  /\ bpc = "free"
  /\ state' = [state EXCEPT ![bi] = "FREE"]
  /\ bpc' = "cas"
  /\ UNCHANGED <<seg, used, files, writerVars, bi, bid, stopSeen, nextId, stop, session, sessionStart, faults>>

(* Mutant: the slot is allocated without looking at it again. *)
BgCasBlind ==
  /\ bpc = "cas"
  /\ state' = [state EXCEPT ![bi] = "ALLOCATING"] /\ bpc' = "alloc"
  /\ UNCHANGED <<seg, used, files, writerVars, bi, bid, stopSeen, nextId, stop, session, sessionStart, faults>>

(* ... and is allocated if it is still FREE. *)
BgCas ==
  /\ bpc = "cas"
  /\ IF state[bi] = "FREE"
       THEN state' = [state EXCEPT ![bi] = "ALLOCATING"] /\ bpc' = "alloc" /\ bi' = bi
       ELSE state' = state /\ bpc' = "recycle" /\ bi' = bi + 1
  /\ UNCHANGED <<seg, used, files, writerVars, bid, stopSeen, nextId, stop, session, sessionStart, faults>>

BgAlloc ==
  /\ bpc = "alloc"
  /\ AllocOk(bi, bid) \/ AllocNoFile(bi, bid) \/ AllocNoFlush(bi, bid)
  /\ bpc' = "recycle" /\ bi' = bi + 1
  /\ UNCHANGED <<writerVars, bid, stopSeen, nextId, stop, session, sessionStart>>

(* Mutant: slots are only recycled, never filled. *)
BgCountSkips ==
  /\ bpc = "count"
  /\ bpc' = "end" /\ bi' = 0
  /\ UNCHANGED <<slotVars, writerVars, bid, stopSeen, nextId, stop, session, sessionStart, faults>>

(* Step 2: at least one STANDBY, if a slot is FREE. *)
BgCount ==
  /\ bpc = "count"
  /\ bpc' = IF \E i \in Ring : state[i] = "STANDBY" THEN "end" ELSE "fill"
  /\ bi' = 0
  /\ UNCHANGED <<slotVars, writerVars, bid, stopSeen, nextId, stop, session, sessionStart, faults>>

BgFill ==
  /\ bpc = "fill"
  /\ IF bi \notin Ring
       THEN bpc' = "end" /\ UNCHANGED <<bi, bid, state, nextId>>
       ELSE IF state[bi] # "FREE"
       THEN bi' = bi + 1 /\ UNCHANGED <<bpc, bid, state, nextId>>
       ELSE /\ state' = [state EXCEPT ![bi] = "ALLOCATING"]
            /\ bid' = nextId /\ nextId' = nextId + 1
            /\ bpc' = "fillalloc" /\ bi' = bi
  /\ UNCHANGED <<seg, used, files, writerVars, stopSeen, stop, session, sessionStart, faults>>

BgFillAlloc ==
  /\ bpc = "fillalloc"
  /\ AllocOk(bi, bid) \/ AllocNoFile(bi, bid) \/ AllocNoFlush(bi, bid)
  /\ bpc' = "end"
  /\ UNCHANGED <<writerVars, bi, bid, stopSeen, nextId, stop, session, sessionStart>>

(* Mutant: the thread does not look at bg_stop_. *)
BgEndForever ==
  /\ bpc = "end" /\ bpc' = "wait"
  /\ UNCHANGED <<slotVars, writerVars, bi, bid, stopSeen, nextId, stop, session, sessionStart, faults>>

BgEnd ==
  /\ bpc = "end"
  /\ bpc' = IF stopSeen THEN "exited" ELSE "wait"
  /\ UNCHANGED <<slotVars, writerVars, bi, bid, stopSeen, nextId, stop, session, sessionStart, faults>>

-----------------------------------------------------------------------------
WriterStep == \/ \E n \in Sizes : AppendCheck(n) \/ RotateStart(n)
              \/ AppendWrite \/ RotateFind \/ RotateFree \/ RotateAlloc \/ RotateTake
              \/ StopAndJoin("close") \/ CloseJoin \/ StopAndJoin("move") \/ MoveJoin
              \/ Reopen
BgStep == \/ BgWake \/ BgRecycle \/ BgFree \/ BgCas \/ BgAlloc
          \/ BgCount \/ BgFill \/ BgFillAlloc \/ BgEnd

Next == WriterStep \/ BgStep
Spec == Init /\ [][Next]_vars

(* The background thread keeps running, and a writer inside a call goes on; *)
(* the caller need not make another call.                                   *)
FairSpec == /\ Spec /\ WF_vars(BgStep)
            /\ WF_vars(AppendWrite \/ RotateFind \/ RotateFree \/ RotateAlloc
                         \/ RotateTake \/ CloseJoin \/ MoveJoin)

-----------------------------------------------------------------------------
TypeOK ==
  /\ state \in [Ring -> {"FREE", "ALLOCATING", "STANDBY", "ACTIVE", "DRAINING"}]
  /\ seg \in [Ring -> {NoSeg} \cup DOMAIN files] /\ used \in [Ring -> 0 .. Cap]
  /\ \A k \in DOMAIN files : files[k] \in Seq(0 .. MaxAppends)
  /\ active \in Ring /\ nextSeq \in 0 .. MaxAppends /\ nextId \in Nat
  /\ wpc \in {"idle", "write", "find", "free", "alloc", "take", "close", "move", "closed"}
  /\ bpc \in {"wait", "recycle", "free", "cas", "alloc", "count", "fill",
              "fillalloc", "end", "exited"}
  /\ wi \in Nat /\ size \in 0 .. Cap /\ bi \in Nat /\ bid \in Nat /\ wseg \in Nat \cup {NoSeg}
  /\ stop \in BOOLEAN /\ stopSeen \in BOOLEAN /\ broken \in BOOLEAN /\ stray \in BOOLEAN
  /\ faults \in 0 .. MaxFaults /\ session \in 1 .. MaxSessions
  /\ sessionStart \in 0 .. nextSeq

(* "ACTIVE: Writer is appending to this slot", "DRAINING: Writer rotated    *)
(* away": the writer only writes to an ACTIVE slot, through the mapping the *)
(* slot still has, so the background thread never unmaps under its feet.    *)
WritesActive == /\ wpc = "write" => state[active] = "ACTIVE" /\ seg[active] = wseg
                /\ ~stray

(* Where record s is: a segment id and a position in that segment.          *)
Places(s) == {p \in (DOMAIN files) \X (1 .. MaxAppends) :
                p[2] <= Len(files[p[1]]) /\ files[p[1]][p[2]] = s}

(* Every acknowledged record is in exactly one segment file: no recycled,   *)
(* doubly allocated or reused segment loses or repeats one.                 *)
AckedInFiles == \A s \in 0 .. nextSeq - 1 : Cardinality(Places(s)) = 1

(* The same within the session that acknowledged the record: a later        *)
(* session may truncate the segments it names again, nothing else does.     *)
SessionKept == \A s \in sessionStart .. nextSeq - 1 : Cardinality(Places(s)) = 1

(* Two slots never map the same file, and a slot in use maps one.           *)
OwnSegment ==
  /\ \A i, j \in Ring : i # j /\ seg[i] # NoSeg => seg[i] # seg[j]
  /\ \A i \in Ring : state[i] \in {"STANDBY", "ACTIVE"} /\ wpc # "closed" => seg[i] # NoSeg

(* What the two threads owe each other: the writer only writes to an ACTIVE *)
(* slot, through the mapping it still has, and no two slots map one file.   *)
SlotSafe == TypeOK /\ WritesActive /\ OwnSegment

(* Reading the segment files by name, as scan_segments and segment_paths    *)
(* list them, gives the records in sequence order.                          *)
SegmentOrder ==
  \A k, l \in DOMAIN files : k < l =>
    \A a \in ToSet(files[k]), b \in ToSet(files[l]) : a < b

(* An open writer always gets a standby segment again, unless an allocation *)
(* failed.                                                                  *)
StandbyReturns ==
  (wpc # "closed") ~> (wpc = "closed" \/ faults > 0 \/ \E i \in Ring : state[i] = "STANDBY")

(* close() and the moves return: the thread sees bg_stop_ and ends, whatever *)
(* it was doing and whatever failed before.                                 *)
CloseReturns == (wpc = "close" ~> wpc = "closed") /\ (wpc = "move" ~> wpc = "idle")

(* "Slot transitions back to FREE so rotate() can retry": no slot stays in  *)
(* ALLOCATING.                                                              *)
AllocatingEnds == \A i \in Ring : state[i] = "ALLOCATING" ~> state[i] # "ALLOCATING"
=============================================================================
