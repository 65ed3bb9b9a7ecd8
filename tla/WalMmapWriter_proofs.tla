------------------------ MODULE WalMmapWriter_proofs ------------------------
(***************************************************************************)
(* Proofs about WalMmapWriter for every ring size, segment size, set of    *)
(* record sizes and number of appends, sessions and failed allocations,    *)
(* for a caller that stops appending once rotate() has failed: the two     *)
(* threads never share a slot or a segment, and no record of a session is  *)
(* lost or repeated while the session lasts.                               *)
(***************************************************************************)
EXTENDS WalMmapWriter, FiniteSetTheorems, TLAPS

-----------------------------------------------------------------------------
(* The inductive invariant.  What the writer knows of its slots wherever it *)
(* is: the active one is ACTIVE outside rotate(), the one it allocates or   *)
(* takes is in the state in which nobody else touches it.                   *)
WriterInv ==
  /\ broken => wpc \in {"idle", "close", "move", "closed"}
  /\ wpc \in {"write", "find", "free", "alloc", "take"} => nextSeq < MaxAppends
  /\ wpc \in {"idle", "write", "close", "move"} /\ ~broken => state[active] = "ACTIVE"
  /\ wpc = "write" => seg[active] = wseg /\ used[active] + size <= Cap
  /\ wpc = "alloc" => wi \in Ring /\ state[wi] = "ALLOCATING"
  /\ wpc = "take"  => wi \in Ring /\ state[wi] = "STANDBY"
  /\ ~stray

(* The background thread has taken an id for a segment it has yet to create. *)
BgPending == bpc \in {"free", "cas", "alloc", "fillalloc"}

(* The same for the background thread.  Between its store of FREE and its   *)
(* exchange ("cas") it knows nothing of the slot.                           *)
BgInv ==
  /\ wpc = "closed" => bpc = "exited"
  /\ BgPending => bi \in Ring
  /\ bpc = "free" => state[bi] = "DRAINING"
  /\ bpc \in {"alloc", "fillalloc"} => state[bi] = "ALLOCATING"
  /\ wpc = "alloc" /\ bpc \in {"alloc", "fillalloc"} => wi # bi

(* An id is handed out once per session: the ids the threads hold are below *)
(* next_seg_id_, differ, and name no mapped segment.                        *)
IdInv ==
  /\ nextId > 0 /\ DOMAIN files \subseteq Nat
  /\ \A i \in Ring : seg[i] < nextId
  /\ wpc = "alloc" => wseg \in 0 .. nextId - 1 /\ \A i \in Ring : seg[i] # wseg
  /\ BgPending => bid < nextId /\ \A i \in Ring : seg[i] # bid
  /\ wpc = "alloc" /\ BgPending => wseg # bid

(* The segment k may still be created, and truncated, in this session.      *)
Truncatable(k) == k >= nextId \/ (wpc = "alloc" /\ k = wseg) \/ (BgPending /\ k = bid)

(* A record is at one place; a segment that may still be truncated holds    *)
(* none of this session.                                                    *)
RecordInv ==
  /\ \A k \in DOMAIN files : Len(files[k]) <= nextSeq
  /\ \A k \in DOMAIN files : \A j \in 1 .. Len(files[k]) : files[k][j] < nextSeq
  /\ \A k \in DOMAIN files : Truncatable(k) =>
       \A j \in 1 .. Len(files[k]) : files[k][j] < sessionStart
  /\ \A k, l \in DOMAIN files : \A a \in 1 .. Len(files[k]), b \in 1 .. Len(files[l]) :
       files[k][a] = files[l][b] => k = l /\ a = b
  /\ \A s \in sessionStart .. nextSeq - 1 :
       \E k \in DOMAIN files : \E j \in 1 .. Len(files[k]) : files[k][j] = s

IInv == TypeOK /\ WriterInv /\ BgInv /\ IdInv /\ OwnSegment /\ RecordInv

-----------------------------------------------------------------------------
(* open() on an empty directory. *)
LEMMA FirstFiles == DOMAIN Fresh(<<>>) = {0} /\ Fresh(<<>>)[0] = <<>>
  BY DEF Fresh

LEMMA InitInv == Init => IInv
<1> SUFFICES ASSUME Init PROVE IInv
  OBVIOUS
<1> USE OptionAssumption DEF Init, Ring, NoSeg
<1>1. DOMAIN files = {0} /\ files[0] = <<>>
  BY FirstFiles
<1>2. TypeOK
  BY <1>1 DEF TypeOK
<1>3. WriterInv /\ BgInv /\ OwnSegment
  BY DEF WriterInv, BgInv, OwnSegment, BgPending
<1>4. IdInv
  BY <1>1 DEF IdInv, BgPending
<1>5. RecordInv
  BY <1>1 DEF RecordInv, Truncatable, BgPending
<1> QED BY <1>2, <1>3, <1>4, <1>5 DEF IInv

(* A step that leaves the records alone and makes no other segment          *)
(* truncatable keeps RecordInv.                                             *)
LEMMA RecordsLeft ==
  ASSUME RecordInv, UNCHANGED <<files, nextSeq, sessionStart>>,
         \A k \in DOMAIN files : Truncatable(k)' => Truncatable(k)
  PROVE  RecordInv'
  BY DEF RecordInv

(* Creating segment id truncates what the directory has under that name;    *)
(* while the id is held that is never a record of this session.             *)
LEMMA SegmentCreated ==
  ASSUME RecordInv, NEW id, Truncatable(id), nextSeq \in Nat, sessionStart \in Nat,
         files' = [k \in {id} \cup DOMAIN files |-> IF k = id THEN <<>> ELSE files[k]],
         UNCHANGED <<nextSeq, sessionStart>>,
         \A k \in DOMAIN files : Truncatable(k)' => Truncatable(k)
  PROVE  RecordInv'
<1>1. /\ DOMAIN files' = {id} \cup DOMAIN files
      /\ files'[id] = <<>>
      /\ \A k \in DOMAIN files : k # id => files'[k] = files[k]
  OBVIOUS
<1>2. \A k \in DOMAIN files' : k # id => k \in DOMAIN files /\ files'[k] = files[k]
  BY <1>1
<1>3. \A k \in DOMAIN files' : k = id => Len(files'[k]) = 0
  BY <1>1
<1>4. \A k \in DOMAIN files' : Len(files'[k]) <= nextSeq'
  BY <1>2, <1>3 DEF RecordInv
<1>5. \A k \in DOMAIN files' : \A j \in 1 .. Len(files'[k]) : k # id
  BY <1>3
<1>6. \A k \in DOMAIN files' : \A j \in 1 .. Len(files'[k]) : files'[k][j] < nextSeq'
  BY <1>2, <1>5 DEF RecordInv
<1>7. \A k \in DOMAIN files' : Truncatable(k)' =>
        \A j \in 1 .. Len(files'[k]) : files'[k][j] < sessionStart'
  BY <1>2, <1>5 DEF RecordInv
<1>8. \A k, l \in DOMAIN files' : \A a \in 1 .. Len(files'[k]), b \in 1 .. Len(files'[l]) :
        files'[k][a] = files'[l][b] => k = l /\ a = b
  <2> SUFFICES ASSUME NEW k \in DOMAIN files', NEW l \in DOMAIN files',
                      NEW a \in 1 .. Len(files'[k]), NEW b \in 1 .. Len(files'[l]),
                      files'[k][a] = files'[l][b]
               PROVE  k = l /\ a = b
    OBVIOUS
  <2>1. k # id /\ l # id
    BY <1>5
  <2> QED BY <2>1, <1>2 DEF RecordInv
<1>9. \A s \in sessionStart' .. nextSeq' - 1 :
        \E k \in DOMAIN files' : \E j \in 1 .. Len(files'[k]) : files'[k][j] = s
  <2> SUFFICES ASSUME NEW s \in sessionStart .. nextSeq - 1
               PROVE  \E k \in DOMAIN files' : \E j \in 1 .. Len(files'[k]) : files'[k][j] = s
    OBVIOUS
  <2>1. PICK k \in DOMAIN files : \E j \in 1 .. Len(files[k]) : files[k][j] = s
    BY DEF RecordInv
  <2>2. PICK j \in 1 .. Len(files[k]) : files[k][j] = s
    BY <2>1
  <2>3. k # id
    BY <2>2 DEF RecordInv
  <2>4. k \in DOMAIN files' /\ files'[k] = files[k]
    BY <1>1, <2>3
  <2> QED BY <2>2, <2>4
<1> QED BY <1>4, <1>6, <1>7, <1>8, <1>9 DEF RecordInv

(* append() adds the next number at the end of a segment that is not        *)
(* truncatable.                                                             *)
LEMMA RecordAppended ==
  ASSUME RecordInv, NEW id \in DOMAIN files, ~Truncatable(id),
         \A k \in DOMAIN files : files[k] \in Seq(0 .. MaxAppends),
         nextSeq \in Nat, nextSeq < MaxAppends, MaxAppends \in Nat, sessionStart \in 0 .. nextSeq,
         files' = [files EXCEPT ![id] = Append(@, nextSeq)],
         nextSeq' = nextSeq + 1, sessionStart' = sessionStart,
         \A k \in DOMAIN files : Truncatable(k)' => Truncatable(k)
  PROVE  RecordInv' /\ \A k \in DOMAIN files' : files'[k] \in Seq(0 .. MaxAppends)
<1>1. /\ DOMAIN files' = DOMAIN files
      /\ \A k \in DOMAIN files : k # id => files'[k] = files[k]
      /\ files'[id] = Append(files[id], nextSeq)
  OBVIOUS
<1>2. /\ files[id] \in Seq(0 .. MaxAppends) /\ Len(files[id]) \in Nat
      /\ Len(files'[id]) = Len(files[id]) + 1
      /\ files'[id][Len(files[id]) + 1] = nextSeq
      /\ \A j \in 1 .. Len(files[id]) : files'[id][j] = files[id][j]
      /\ files'[id] \in Seq(0 .. MaxAppends)
  BY <1>1
<1>3. \A k \in DOMAIN files : Len(files[k]) \in Nat
  OBVIOUS
<1>4. \A k \in DOMAIN files : \A j \in 1 .. Len(files'[k]) :
        \/ k = id /\ j = Len(files[id]) + 1 /\ files'[k][j] = nextSeq
        \/ j \in 1 .. Len(files[k]) /\ files'[k][j] = files[k][j] /\ files'[k][j] < nextSeq
  BY <1>1, <1>2, <1>3 DEF RecordInv
<1>5. \A k \in DOMAIN files' : Len(files'[k]) <= nextSeq'
  BY <1>1, <1>2, <1>3 DEF RecordInv
<1>6. \A k \in DOMAIN files' : \A j \in 1 .. Len(files'[k]) : files'[k][j] < nextSeq'
  <2> SUFFICES ASSUME NEW k \in DOMAIN files, NEW j \in 1 .. Len(files'[k])
               PROVE  files'[k][j] < nextSeq'
    BY <1>1
  <2>1. files[k] \in Seq(0 .. MaxAppends)
    OBVIOUS
  <2>2. CASE j \in 1 .. Len(files[k]) /\ files'[k][j] = files[k][j] /\ files'[k][j] < nextSeq
    <3>1. files[k][j] \in 0 .. MaxAppends
      BY <2>1, <2>2, SMTT(60)
    <3> QED BY <2>2, <3>1
  <2> QED BY <1>4, <2>2
<1>7. \A k \in DOMAIN files' : Truncatable(k)' =>
        \A j \in 1 .. Len(files'[k]) : files'[k][j] < sessionStart'
  BY <1>1 DEF RecordInv
<1>8. \A k, l \in DOMAIN files' : \A a \in 1 .. Len(files'[k]), b \in 1 .. Len(files'[l]) :
        files'[k][a] = files'[l][b] => k = l /\ a = b
  <2> SUFFICES ASSUME NEW k \in DOMAIN files, NEW l \in DOMAIN files,
                      NEW a \in 1 .. Len(files'[k]), NEW b \in 1 .. Len(files'[l]),
                      files'[k][a] = files'[l][b]
               PROVE  k = l /\ a = b
    BY <1>1
  <2>1. \/ k = id /\ a = Len(files[id]) + 1 /\ files'[k][a] = nextSeq
        \/ a \in 1 .. Len(files[k]) /\ files'[k][a] = files[k][a] /\ files'[k][a] < nextSeq
    BY <1>4
  <2>2. \/ l = id /\ b = Len(files[id]) + 1 /\ files'[l][b] = nextSeq
        \/ b \in 1 .. Len(files[l]) /\ files'[l][b] = files[l][b] /\ files'[l][b] < nextSeq
    BY <1>4
  <2>3. ~(nextSeq < nextSeq)
    OBVIOUS
  <2>4. a \in 1 .. Len(files[k]) /\ b \in 1 .. Len(files[l]) /\ files[k][a] = files[l][b]
          => k = l /\ a = b
    BY SMTT(60) DEF RecordInv
  <2> QED BY <2>1, <2>2, <2>3, <2>4
<1>9. \A s \in sessionStart' .. nextSeq' - 1 :
        \E k \in DOMAIN files' : \E j \in 1 .. Len(files'[k]) : files'[k][j] = s
  <2>0. sessionStart' .. nextSeq' - 1 = sessionStart .. nextSeq
    OBVIOUS
  <2> SUFFICES ASSUME NEW s \in sessionStart .. nextSeq
               PROVE  \E k \in DOMAIN files : \E j \in 1 .. Len(files'[k]) : files'[k][j] = s
    BY <1>1, <2>0
  <2>1. CASE s = nextSeq
    <3>1. Len(files[id]) + 1 \in 1 .. Len(files'[id])
      BY <1>2
    <3> QED BY <1>2, <2>1, <3>1
  <2>2. CASE s # nextSeq
    <3>1. PICK k \in DOMAIN files : \E j \in 1 .. Len(files[k]) : files[k][j] = s
      BY <2>2 DEF RecordInv
    <3>2. PICK j \in 1 .. Len(files[k]) : files[k][j] = s
      BY <3>1
    <3>3. j \in 1 .. Len(files'[k]) /\ files'[k][j] = s
      BY <1>1, <1>2, <1>3, <3>2
    <3> QED BY <3>3
  <2> QED BY <2>1, <2>2
<1>10. \A k \in DOMAIN files' : files'[k] \in Seq(0 .. MaxAppends)
  BY <1>1, <1>2
<1> QED BY <1>5, <1>6, <1>7, <1>8, <1>9, <1>10 DEF RecordInv

(* A mapped segment has an id below next_seg_id_. *)
LEMMA SegBelow == ASSUME IInv PROVE \A i \in Ring : seg[i] \in Int /\ seg[i] < nextId
  BY DEF IInv, IdInv, TypeOK, NoSeg

-----------------------------------------------------------------------------
(* The steps of the writer. *)
LEMMA AppendCheckInv ==
  ASSUME IInv, ~RetryAfterError, NEW n \in Sizes, AppendCheck(n) PROVE IInv'
<1> USE OptionAssumption DEF IInv, AppendCheck, slotVars, bgVars
<1>1. TypeOK'
  BY DEF TypeOK, IdInv
<1>2. WriterInv' /\ BgInv' /\ IdInv' /\ OwnSegment'
  BY DEF TypeOK, WriterInv, BgInv, IdInv, OwnSegment, BgPending
<1>3. RecordInv'
  BY RecordsLeft DEF Truncatable, BgPending
<1> QED BY <1>1, <1>2, <1>3

LEMMA RotateStartInv ==
  ASSUME IInv, ~RetryAfterError, NEW n \in Sizes, RotateStart(n) PROVE IInv'
<1> USE OptionAssumption DEF IInv, RotateStart, bgVars
<1>1. TypeOK'
  BY DEF TypeOK
<1>2. WriterInv' /\ BgInv' /\ IdInv' /\ OwnSegment'
  BY DEF TypeOK, WriterInv, BgInv, IdInv, OwnSegment, BgPending
<1>3. RecordInv'
  BY RecordsLeft DEF Truncatable, BgPending
<1> QED BY <1>1, <1>2, <1>3

LEMMA AppendWriteInv ==
  ASSUME IInv, ~RetryAfterError, AppendWrite PROVE IInv'
<1> USE OptionAssumption DEF IInv, bgVars
<1>1. seg[active] = wseg /\ wseg # NoSeg /\ wseg \in DOMAIN files
  BY DEF AppendWrite, WriterInv, OwnSegment, TypeOK
<1>2. ~Truncatable(wseg)
  <2>1. wpc # "alloc" /\ active \in Ring /\ wseg \in Int /\ wseg < nextId /\ nextId \in Nat
    BY <1>1, SegBelow DEF AppendWrite, TypeOK
  <2>2. BgPending => wseg # bid
    BY <1>1, <2>1 DEF IdInv
  <2> QED BY <2>1, <2>2 DEF Truncatable
<1>3. /\ files' = [files EXCEPT ![wseg] = Append(@, nextSeq)]
      /\ used' = [used EXCEPT ![active] = @ + size]
      /\ nextSeq' = nextSeq + 1 /\ nextSeq < MaxAppends
      /\ UNCHANGED <<sessionStart, stray>>
  BY <1>1 DEF AppendWrite, WriterInv
<1>4. \A k : Truncatable(k)' => Truncatable(k)
  BY DEF AppendWrite, Truncatable, BgPending
<1>5. RecordInv' /\ \A k \in DOMAIN files' : files'[k] \in Seq(0 .. MaxAppends)
  <2>1. /\ nextSeq \in Nat /\ MaxAppends \in Nat /\ sessionStart \in 0 .. nextSeq
        /\ \A k \in DOMAIN files : files[k] \in Seq(0 .. MaxAppends)
        /\ RecordInv
    BY DEF TypeOK
  <2> QED BY <1>1, <1>2, <1>3, <1>4, <2>1, RecordAppended
<1>6. used' \in [Ring -> 0 .. Cap]
  <2>1. used[active] + size \in 0 .. Cap
    BY DEF AppendWrite, WriterInv, TypeOK
  <2> QED BY <1>3, <2>1 DEF TypeOK
<1>7. DOMAIN files' = DOMAIN files
  BY <1>3
<1>8. TypeOK'
  BY <1>3, <1>5, <1>6, <1>7 DEF AppendWrite, TypeOK
<1>9. WriterInv' /\ BgInv' /\ IdInv' /\ OwnSegment'
  BY <1>3, <1>7 DEF AppendWrite, TypeOK, WriterInv, BgInv, IdInv, OwnSegment, BgPending
<1> QED BY <1>5, <1>8, <1>9

LEMMA RotateFindInv ==
  ASSUME IInv, ~RetryAfterError, RotateFind PROVE IInv'
<1> USE DEF IInv, RotateFind, slotVars, bgVars
<1>1. TypeOK'
  BY DEF TypeOK
<1>2. WriterInv' /\ BgInv' /\ IdInv' /\ OwnSegment'
  BY DEF TypeOK, WriterInv, BgInv, IdInv, OwnSegment, BgPending
<1>3. RecordInv'
  BY RecordsLeft DEF Truncatable, BgPending
<1> QED BY <1>1, <1>2, <1>3

LEMMA RotateFreeInv ==
  ASSUME IInv, ~RetryAfterError, RotateFree PROVE IInv'
<1> USE DEF IInv, bgVars
<1>1. CASE wi \in Ring /\ state[wi] = "FREE"
  <2> USE <1>1 DEF RotateFree
  <2>1. TypeOK'
    BY SMTT(60) DEF TypeOK
  <2>2. WriterInv' /\ BgInv' /\ OwnSegment'
    BY DEF TypeOK, WriterInv, BgInv, OwnSegment, BgPending
  <2>3. IdInv'
    <3>1. \A i \in Ring : seg'[i] < nextId' /\ seg'[i] # wseg'
      <4>1. nextId \in Nat /\ seg' = seg /\ nextId' = nextId + 1 /\ wseg' = nextId
        BY DEF TypeOK
      <4> QED BY <4>1, SegBelow
    <3>2. BgPending' => bid' < nextId' /\ bid' # wseg' /\ \A i \in Ring : seg'[i] # bid'
      BY DEF TypeOK, IdInv, BgPending
    <3> QED BY <3>1, <3>2, SMTT(60) DEF TypeOK, IdInv, BgPending
  <2>4. RecordInv'
    BY RecordsLeft DEF Truncatable, BgPending, TypeOK, IdInv
  <2> QED BY <2>1, <2>2, <2>3, <2>4
<1>2. CASE ~(wi \in Ring /\ state[wi] = "FREE")
  <2>0. /\ wpc = "free" /\ wpc' \in {"free", "idle"} /\ wi' \in {wi, wi + 1}
        /\ wpc' = "free" => broken' = broken
        /\ wpc' = "idle" => broken' = TRUE
        /\ broken' \in BOOLEAN
        /\ UNCHANGED <<state, seg, used, files, active, nextSeq, size, wseg, stray, bpc, bi, bid,
                       stopSeen, nextId, stop, session, sessionStart, faults>>
    BY <1>2 DEF RotateFree, TypeOK
  <2>1. TypeOK'
    BY <2>0 DEF TypeOK
  <2>2. WriterInv' /\ BgInv' /\ IdInv' /\ OwnSegment'
    BY <2>0 DEF TypeOK, WriterInv, BgInv, IdInv, OwnSegment, BgPending
  <2>3. RecordInv'
    BY <2>0, RecordsLeft DEF Truncatable, BgPending
  <2> QED BY <2>1, <2>2, <2>3
<1> QED BY <1>1, <1>2

(* allocate_slot() of slot i with a new id, by whoever owns both.           *)
LEMMA AllocKeeps ==
  ASSUME IInv, NEW i \in Ring, NEW id, state[i] = "ALLOCATING",
         \/ wpc = "alloc" /\ i = wi /\ id = wseg
         \/ bpc \in {"alloc", "fillalloc"} /\ i = bi /\ id = bid,
         AllocOk(i, id) \/ AllocNoFile(i, id) \/ AllocNoFlush(i, id),
         UNCHANGED <<nextId, nextSeq, sessionStart, wseg, bid>>,
         wpc' = "alloc" => wpc = "alloc", BgPending' => BgPending
  PROVE  /\ RecordInv' /\ OwnSegment'
         /\ DOMAIN files' \subseteq Nat
         /\ \A k \in DOMAIN files' : files'[k] \in Seq(0 .. MaxAppends)
         /\ \A j \in Ring : seg'[j] < nextId
         /\ \A j \in Ring : seg'[j] \in {seg[j], id}
         /\ state' \in [Ring -> {"FREE", "ALLOCATING", "STANDBY", "ACTIVE", "DRAINING"}]
         /\ seg' \in [Ring -> {NoSeg} \cup DOMAIN files'] /\ used' \in [Ring -> 0 .. Cap]
         /\ \A j \in Ring : j # i => state'[j] = state[j] /\ seg'[j] = seg[j] /\ used'[j] = used[j]
         /\ faults' \in 0 .. MaxFaults
<1> USE OptionAssumption DEF IInv
<1>1. /\ id \in Nat /\ id < nextId /\ Truncatable(id)
      /\ \A j \in Ring : seg[j] # id
  BY DEF IdInv, TypeOK, Truncatable, BgPending
<1>2. \A k : Truncatable(k)' => Truncatable(k)
  BY DEF Truncatable
<1>0. wpc # "closed"
  BY DEF BgInv
<1>3. CASE AllocNoFile(i, id)
  <2> USE <1>3 DEF AllocNoFile
  <2>1. RecordInv'
    BY <1>2, RecordsLeft
  <2>2. OwnSegment'
    BY <1>0 DEF OwnSegment, TypeOK
  <2> QED BY <2>1, <2>2, SegBelow DEF TypeOK, IdInv
<1>4. CASE AllocOk(i, id) \/ AllocNoFlush(i, id)
  <2>0. /\ files' = [k \in {id} \cup DOMAIN files |-> IF k = id THEN <<>> ELSE files[k]]
        /\ seg' = [seg EXCEPT ![i] = id] /\ used' = [used EXCEPT ![i] = 0]
        /\ state' = state \/ state' = [state EXCEPT ![i] = "STANDBY"]
        /\ faults' \in 0 .. MaxFaults
    BY <1>4 DEF AllocOk, AllocNoFlush, TypeOK
  <2>1. RecordInv'
    BY <1>1, <1>2, <2>0, SegmentCreated DEF TypeOK
  <2>2. OwnSegment'
    <3>1. \A j \in Ring : seg'[j] = IF j = i THEN id ELSE seg[j]
      BY <2>0 DEF TypeOK
    <3>2. \A j, k \in Ring : j # k /\ seg'[j] # NoSeg => seg'[j] # seg'[k]
      BY <1>1, <3>1 DEF OwnSegment
    <3>3. \A j \in Ring : j # i => state'[j] = state[j]
      BY <2>0 DEF TypeOK
    <3>4. id # NoSeg
      BY <1>1 DEF NoSeg
    <3>5. \A j \in Ring : state'[j] \in {"STANDBY", "ACTIVE"} => seg'[j] # NoSeg
      BY <1>0, <3>1, <3>3, <3>4 DEF OwnSegment
    <3> QED BY <3>2, <3>5 DEF OwnSegment
  <2>3. DOMAIN files' = {id} \cup DOMAIN files
    BY <2>0
  <2>4. DOMAIN files' \subseteq Nat
    BY <2>3, <1>1 DEF IdInv
  <2>5. \A k \in DOMAIN files' : files'[k] \in Seq(0 .. MaxAppends)
    <3>1. <<>> \in Seq(0 .. MaxAppends)
      OBVIOUS
    <3>2. \A k \in DOMAIN files : files[k] \in Seq(0 .. MaxAppends)
      BY DEF TypeOK
    <3>3. \A k \in DOMAIN files' : files'[k] = IF k = id THEN <<>> ELSE files[k]
      BY <2>0
    <3> QED BY <2>3, <3>1, <3>2, <3>3
  <2>6. seg' \in [Ring -> {NoSeg} \cup DOMAIN files'] /\ used' \in [Ring -> 0 .. Cap]
    BY <2>0, <2>3 DEF TypeOK
  <2>7. \A j \in Ring : seg'[j] < nextId /\ seg'[j] \in {seg[j], id}
    BY <1>1, <2>0, SegBelow DEF TypeOK
  <2>8. state' \in [Ring -> {"FREE", "ALLOCATING", "STANDBY", "ACTIVE", "DRAINING"}]
    BY <2>0 DEF TypeOK
  <2>9. \A j \in Ring : j # i => state'[j] = state[j] /\ seg'[j] = seg[j] /\ used'[j] = used[j]
    BY <2>0 DEF TypeOK
  <2> QED BY <2>0, <2>1, <2>2, <2>4, <2>5, <2>6, <2>7, <2>8, <2>9
<1> QED BY <1>3, <1>4

LEMMA RotateAllocInv ==
  ASSUME IInv, ~RetryAfterError, RotateAlloc PROVE IInv'
<1> USE OptionAssumption DEF IInv, bgVars
<1>0. /\ wpc = "alloc" /\ wi \in Ring /\ state[wi] = "ALLOCATING" /\ wpc' \in {"take", "idle"}
      /\ AllocOk(wi, wseg) \/ AllocNoFile(wi, wseg) \/ AllocNoFlush(wi, wseg)
      /\ wpc' = "take" => AllocOk(wi, wseg) /\ broken' = broken
      /\ wpc' = "idle" => broken' = TRUE
      /\ UNCHANGED <<active, nextSeq, wi, size, wseg, stray, bpc, bi, bid, stopSeen, nextId, stop,
                     session, sessionStart>>
  BY DEF RotateAlloc, WriterInv
<1>1. /\ RecordInv' /\ OwnSegment'
      /\ DOMAIN files' \subseteq Nat
      /\ \A k \in DOMAIN files' : files'[k] \in Seq(0 .. MaxAppends)
      /\ \A j \in Ring : seg'[j] < nextId
      /\ \A j \in Ring : seg'[j] \in {seg[j], wseg}
      /\ state' \in [Ring -> {"FREE", "ALLOCATING", "STANDBY", "ACTIVE", "DRAINING"}]
      /\ seg' \in [Ring -> {NoSeg} \cup DOMAIN files'] /\ used' \in [Ring -> 0 .. Cap]
      /\ \A j \in Ring : j # wi => state'[j] = state[j] /\ seg'[j] = seg[j] /\ used'[j] = used[j]
      /\ faults' \in 0 .. MaxFaults
  BY <1>0, AllocKeeps DEF BgPending
<1>2. TypeOK'
  BY <1>0, <1>1 DEF TypeOK
<1>3. IdInv'
  BY <1>0, <1>1 DEF IdInv, BgPending, TypeOK
<1>4. BgInv'
  BY <1>0, <1>1 DEF BgInv, BgPending
<1>5. WriterInv'
  BY <1>0, <1>1 DEF WriterInv, AllocOk, TypeOK
<1> QED BY <1>1, <1>2, <1>3, <1>4, <1>5

LEMMA RotateTakeInv ==
  ASSUME IInv, ~RetryAfterError, RotateTake PROVE IInv'
<1> USE OptionAssumption DEF IInv, RotateTake, bgVars
<1>1. TypeOK'
  BY SegBelow DEF TypeOK, WriterInv, IdInv
<1>2. WriterInv'
  BY DEF TypeOK, WriterInv, OwnSegment
<1>3. BgInv' /\ OwnSegment'
  BY DEF TypeOK, WriterInv, BgInv, OwnSegment, BgPending
<1>4. IdInv'
  BY DEF TypeOK, IdInv, BgPending
<1>5. RecordInv'
  BY RecordsLeft DEF Truncatable, BgPending
<1> QED BY <1>1, <1>2, <1>3, <1>4, <1>5

(* close(), the moves and the next writer on the directory. *)
LEMMA StopAndJoinInv ==
  ASSUME IInv, ~RetryAfterError, StopAndJoin("close") \/ StopAndJoin("move") PROVE IInv'
<1> USE DEF IInv, StopAndJoin, slotVars, bgVars
<1>1. TypeOK'
  BY DEF TypeOK
<1>2. WriterInv' /\ BgInv' /\ IdInv' /\ OwnSegment'
  BY DEF WriterInv, BgInv, IdInv, OwnSegment, BgPending
<1>3. RecordInv'
  BY RecordsLeft DEF Truncatable, BgPending
<1> QED BY <1>1, <1>2, <1>3

LEMMA CloseJoinInv ==
  ASSUME IInv, ~RetryAfterError, CloseJoin PROVE IInv'
<1> USE DEF IInv, CloseJoin, bgVars
<1>1. TypeOK'
  BY DEF TypeOK
<1>2. WriterInv' /\ BgInv' /\ OwnSegment'
  BY DEF WriterInv, BgInv, OwnSegment, BgPending
<1>3. IdInv'
  BY DEF IdInv, BgPending, NoSeg, TypeOK
<1>4. RecordInv'
  BY RecordsLeft DEF Truncatable, BgPending
<1> QED BY <1>1, <1>2, <1>3, <1>4

LEMMA MoveJoinInv ==
  ASSUME IInv, ~RetryAfterError, MoveJoin PROVE IInv'
<1> USE DEF IInv, MoveJoin, slotVars
<1>1. TypeOK'
  BY DEF TypeOK
<1>2. WriterInv' /\ BgInv' /\ IdInv' /\ OwnSegment'
  BY DEF WriterInv, BgInv, IdInv, OwnSegment, BgPending
<1>3. RecordInv'
  BY RecordsLeft DEF Truncatable, BgPending
<1> QED BY <1>1, <1>2, <1>3

LEMMA ReopenInv ==
  ASSUME IInv, ~RetryAfterError, Reopen PROVE IInv'
<1> USE OptionAssumption DEF IInv, Reopen, Ring
<1>1. /\ DOMAIN files' = {0} \cup DOMAIN files
      /\ files'[0] = <<>>
      /\ \A k \in DOMAIN files : k # 0 => files'[k] = files[k]
  BY DEF Fresh
<1>2. DOMAIN files' \subseteq Nat
  BY <1>1 DEF IdInv
<1>3. \A k \in DOMAIN files' : files'[k] \in Seq(0 .. MaxAppends)
  <2>1. <<>> \in Seq(0 .. MaxAppends)
    OBVIOUS
  <2> QED BY <1>1, <2>1 DEF TypeOK
<1>4. TypeOK'
  <2>1. seg' \in [Ring -> {NoSeg} \cup DOMAIN files'] /\ used' \in [Ring -> 0 .. Cap]
    BY <1>1
  <2>2. state' \in [Ring -> {"FREE", "ALLOCATING", "STANDBY", "ACTIVE", "DRAINING"}]
    OBVIOUS
  <2>3. active' \in Ring /\ session' \in 1 .. MaxSessions /\ sessionStart' \in 0 .. nextSeq'
    BY DEF TypeOK
  <2> QED BY <1>3, <2>1, <2>2, <2>3 DEF TypeOK
<1>5. WriterInv' /\ BgInv' /\ OwnSegment'
  BY DEF WriterInv, BgInv, OwnSegment, BgPending, NoSeg
<1>6. IdInv'
  BY <1>2 DEF IdInv, BgPending, NoSeg
<1>7. RecordInv'
  <2>1. nextSeq \in Nat /\ nextSeq' = nextSeq /\ sessionStart' = nextSeq
    BY DEF TypeOK
  <2>2. Len(files'[0]) = 0
    BY <1>1
  <2>3. \A k \in DOMAIN files' : \A j \in 1 .. Len(files'[k]) :
          k # 0 /\ k \in DOMAIN files /\ files'[k] = files[k]
    BY <1>1, <2>2
  <2>4. \A k \in DOMAIN files' : Len(files'[k]) <= nextSeq'
    BY <1>1, <2>1, <2>2 DEF RecordInv
  <2>5. \A k \in DOMAIN files' : \A j \in 1 .. Len(files'[k]) : files'[k][j] < nextSeq
    BY <2>3 DEF RecordInv
  <2>6. \A k, l \in DOMAIN files' : \A a \in 1 .. Len(files'[k]), b \in 1 .. Len(files'[l]) :
          files'[k][a] = files'[l][b] => k = l /\ a = b
    BY <2>3 DEF RecordInv
  <2>7. \A s \in sessionStart' .. nextSeq' - 1 : FALSE
    BY <2>1
  <2> QED BY <2>1, <2>4, <2>5, <2>6, <2>7 DEF RecordInv
<1> QED BY <1>4, <1>5, <1>6, <1>7

-----------------------------------------------------------------------------
(* The steps of the background thread. *)
LEMMA BgQuietInv ==
  ASSUME IInv, ~RetryAfterError, BgWake \/ BgCount \/ BgEnd PROVE IInv'
<1>0. /\ UNCHANGED <<slotVars, writerVars, bid, nextId, stop, session, sessionStart, faults>>
      /\ bpc \in {"wait", "count", "end"} /\ bpc' \in {"recycle", "end", "fill", "wait", "exited"}
      /\ bi' \in {bi, 0} /\ stopSeen' \in {stop, stopSeen}
  BY DEF BgWake, BgCount, BgEnd
<1> USE <1>0 DEF IInv, slotVars, writerVars
<1>1. TypeOK'
  BY DEF TypeOK
<1>2. WriterInv' /\ BgInv' /\ IdInv' /\ OwnSegment'
  BY DEF WriterInv, BgInv, IdInv, OwnSegment, BgPending
<1>3. RecordInv'
  BY RecordsLeft DEF Truncatable, BgPending
<1> QED BY <1>1, <1>2, <1>3

LEMMA BgFreeInv ==
  ASSUME IInv, ~RetryAfterError, BgFree PROVE IInv'
<1> USE DEF IInv, BgFree, writerVars
<1>1. TypeOK'
  BY DEF TypeOK
<1>2. WriterInv' /\ BgInv' /\ IdInv' /\ OwnSegment'
  BY DEF WriterInv, BgInv, IdInv, OwnSegment, BgPending, TypeOK
<1>3. RecordInv'
  BY RecordsLeft DEF Truncatable, BgPending
<1> QED BY <1>1, <1>2, <1>3

LEMMA BgCasInv ==
  ASSUME IInv, ~RetryAfterError, BgCas PROVE IInv'
<1> USE DEF IInv, BgCas, writerVars
<1>1. TypeOK'
  BY SMTT(60) DEF TypeOK
<1>2. WriterInv' /\ BgInv' /\ IdInv' /\ OwnSegment'
  BY DEF WriterInv, BgInv, IdInv, OwnSegment, BgPending, TypeOK
<1>3. RecordInv'
  BY RecordsLeft DEF Truncatable, BgPending
<1> QED BY <1>1, <1>2, <1>3

(* A thread that takes the next id leaves the other's claims alone.         *)
LEMMA BgTakesId ==
  ASSUME IInv, bpc \in {"recycle", "fill"}, bpc' \in {"free", "fillalloc"},
         bid' = nextId, nextId' = nextId + 1, \A i \in Ring : seg'[i] \in {seg[i], NoSeg},
         UNCHANGED <<files, wpc, wseg, nextSeq, sessionStart>>
  PROVE  IdInv' /\ RecordInv'
<1> USE DEF IInv
<1>1. nextId \in Nat /\ \A i \in Ring : seg[i] \in Int /\ seg[i] < nextId
  BY SegBelow DEF TypeOK
<1>2. \A i \in Ring : seg'[i] < nextId' /\ seg'[i] # bid'
  BY <1>1 DEF NoSeg
<1>3. wpc = "alloc" => wseg \in 0 .. nextId - 1 /\ \A i \in Ring : seg'[i] # wseg
  BY <1>1 DEF IdInv, NoSeg
<1>4. IdInv'
  BY <1>1, <1>2, <1>3 DEF IdInv, BgPending
<1>5. \A k \in DOMAIN files : Truncatable(k)' => Truncatable(k)
  BY <1>1 DEF Truncatable, BgPending, IdInv
<1> QED BY <1>4, <1>5, RecordsLeft

LEMMA BgRecycleInv ==
  ASSUME IInv, ~RetryAfterError, BgRecycle PROVE IInv'
<1> USE DEF IInv, writerVars
<1>1. CASE bi \in Ring /\ state[bi] = "DRAINING"
  <2> USE <1>1 DEF BgRecycle
  <2>1. TypeOK'
    BY DEF TypeOK
  <2>2. WriterInv' /\ BgInv' /\ OwnSegment'
    BY DEF WriterInv, BgInv, OwnSegment, BgPending, TypeOK
  <2>3. \A i \in Ring : seg'[i] \in {seg[i], NoSeg}
    BY DEF TypeOK
  <2>4. IdInv' /\ RecordInv'
    BY <2>3, BgTakesId
  <2> QED BY <2>1, <2>2, <2>4
<1>2. CASE ~(bi \in Ring /\ state[bi] = "DRAINING")
  <2>0. /\ bpc = "recycle" /\ bpc' \in {"recycle", "count"} /\ bi' \in {bi, bi + 1}
        /\ UNCHANGED <<state, seg, used, files, writerVars, bid, nextId, stopSeen, stop, session,
                       sessionStart, faults>>
    BY <1>2 DEF BgRecycle
  <2>1. TypeOK'
    BY <2>0 DEF TypeOK
  <2>2. WriterInv' /\ BgInv' /\ IdInv' /\ OwnSegment'
    BY <2>0 DEF WriterInv, BgInv, IdInv, OwnSegment, BgPending
  <2>3. RecordInv'
    BY <2>0, RecordsLeft DEF Truncatable, BgPending
  <2> QED BY <2>1, <2>2, <2>3
<1> QED BY <1>1, <1>2

LEMMA BgFillInv ==
  ASSUME IInv, ~RetryAfterError, BgFill PROVE IInv'
<1> USE DEF IInv, writerVars
<1>1. CASE bi \in Ring /\ state[bi] = "FREE"
  <2> USE <1>1 DEF BgFill
  <2>1. TypeOK'
    BY SMTT(60) DEF TypeOK
  <2>2. WriterInv' /\ BgInv' /\ OwnSegment'
    BY DEF WriterInv, BgInv, OwnSegment, BgPending, TypeOK
  <2>3. IdInv' /\ RecordInv'
    BY BgTakesId
  <2> QED BY <2>1, <2>2, <2>3
<1>2. CASE ~(bi \in Ring /\ state[bi] = "FREE")
  <2>0. /\ bpc = "fill" /\ bpc' \in {"fill", "end"} /\ bi' \in {bi, bi + 1}
        /\ UNCHANGED <<state, seg, used, files, writerVars, bid, nextId, stopSeen, stop, session,
                       sessionStart, faults>>
    BY <1>2 DEF BgFill
  <2>1. TypeOK'
    BY <2>0 DEF TypeOK
  <2>2. WriterInv' /\ BgInv' /\ IdInv' /\ OwnSegment'
    BY <2>0 DEF WriterInv, BgInv, IdInv, OwnSegment, BgPending
  <2>3. RecordInv'
    BY <2>0, RecordsLeft DEF Truncatable, BgPending
  <2> QED BY <2>1, <2>2, <2>3
<1> QED BY <1>1, <1>2

LEMMA BgAllocInv ==
  ASSUME IInv, ~RetryAfterError, BgAlloc \/ BgFillAlloc PROVE IInv'
<1> USE DEF IInv, writerVars
<1>0. /\ bpc \in {"alloc", "fillalloc"} /\ bi \in Ring /\ state[bi] = "ALLOCATING"
      /\ AllocOk(bi, bid) \/ AllocNoFile(bi, bid) \/ AllocNoFlush(bi, bid)
      /\ bpc' \in {"recycle", "end"} /\ bi' \in {bi, bi + 1}
      /\ UNCHANGED <<writerVars, bid, stopSeen, nextId, stop, session, sessionStart>>
  BY DEF BgAlloc, BgFillAlloc, BgInv, BgPending
<1>1. /\ RecordInv' /\ OwnSegment'
      /\ DOMAIN files' \subseteq Nat
      /\ \A k \in DOMAIN files' : files'[k] \in Seq(0 .. MaxAppends)
      /\ \A j \in Ring : seg'[j] < nextId
      /\ \A j \in Ring : seg'[j] \in {seg[j], bid}
      /\ state' \in [Ring -> {"FREE", "ALLOCATING", "STANDBY", "ACTIVE", "DRAINING"}]
      /\ seg' \in [Ring -> {NoSeg} \cup DOMAIN files'] /\ used' \in [Ring -> 0 .. Cap]
      /\ \A j \in Ring : j # bi => state'[j] = state[j] /\ seg'[j] = seg[j] /\ used'[j] = used[j]
      /\ faults' \in 0 .. MaxFaults
  BY <1>0, AllocKeeps DEF BgPending
<1>2. TypeOK'
  <2>1. bi' \in Nat /\ bpc' \in {"recycle", "end"}
    BY <1>0 DEF TypeOK
  <2> QED BY <1>0, <1>1, <2>1 DEF TypeOK
<1>3. IdInv'
  BY <1>0, <1>1 DEF IdInv, BgPending, TypeOK
<1>4. BgInv'
  BY <1>0 DEF BgInv, BgPending
<1>5. WriterInv'
  <2>1. wpc \in {"idle", "write", "close", "move"} /\ ~broken => active # bi
    BY <1>0 DEF WriterInv
  <2>2. wpc = "alloc" => wi # bi
    BY <1>0 DEF BgInv
  <2>3. wpc = "take" => wi # bi
    BY <1>0 DEF WriterInv
  <2>4. wpc = "write" => ~broken
    BY DEF WriterInv
  <2> QED BY <1>0, <1>1, <2>1, <2>2, <2>3, <2>4 DEF WriterInv, TypeOK
<1> QED BY <1>1, <1>2, <1>3, <1>4, <1>5

-----------------------------------------------------------------------------
(* Every step of either thread keeps the invariant. *)
LEMMA StepInv == ASSUME IInv, ~RetryAfterError, [Next]_vars PROVE IInv'
<1>1. CASE \E n \in Sizes : AppendCheck(n) \/ RotateStart(n)
  BY <1>1, AppendCheckInv, RotateStartInv
<1>2. CASE AppendWrite \/ RotateFind \/ RotateFree \/ RotateAlloc \/ RotateTake
  BY <1>2, AppendWriteInv, RotateFindInv, RotateFreeInv, RotateAllocInv, RotateTakeInv
<1>3. CASE StopAndJoin("close") \/ CloseJoin \/ StopAndJoin("move") \/ MoveJoin \/ Reopen
  BY <1>3, StopAndJoinInv, CloseJoinInv, MoveJoinInv, ReopenInv
<1>4. CASE BgStep
  BY <1>4, BgQuietInv, BgFreeInv, BgCasInv, BgRecycleInv, BgFillInv, BgAllocInv DEF BgStep
<1>5. CASE UNCHANGED vars
  <2> USE <1>5 DEF IInv, vars, slotVars, writerVars, bgVars
  <2>1. TypeOK' /\ WriterInv' /\ BgInv' /\ IdInv' /\ OwnSegment'
    BY DEF TypeOK, WriterInv, BgInv, IdInv, OwnSegment, BgPending
  <2>2. RecordInv'
    BY RecordsLeft DEF Truncatable, BgPending
  <2> QED BY <2>1, <2>2
<1> QED BY <1>1, <1>2, <1>3, <1>4, <1>5 DEF Next, WriterStep

(* Whatever the two threads do, each slot and each segment id has one owner *)
(* at a time, and a segment that may still be truncated holds no record of  *)
(* this session.  The caller is one that stops appending when rotate() has  *)
(* failed; the README's findings say what happens to one that does not.     *)
THEOREM WalMmapWriter_Protocol == ASSUME ~RetryAfterError PROVE Spec => []IInv
  BY InitInv, StepInv, PTL DEF Spec

(* append() only writes to an ACTIVE slot through the mapping the slot      *)
(* still has, though bg_worker unmaps and remaps slots without a lock, and  *)
(* two slots never map one file.                                            *)
THEOREM WalMmapWriter_SlotSafe == ASSUME ~RetryAfterError PROVE Spec => []SlotSafe
<1>1. IInv => SlotSafe
  BY DEF IInv, SlotSafe, WritesActive, WriterInv
<1> QED BY <1>1, WalMmapWriter_Protocol, PTL

(* The places of a record that is at one place only. *)
LEMMA OnePlace == ASSUME IInv PROVE SessionKept
<1> USE DEF IInv
<1> SUFFICES ASSUME NEW s \in sessionStart .. nextSeq - 1
             PROVE  Cardinality(Places(s)) = 1
  BY DEF SessionKept
<1>1. PICK k \in DOMAIN files : \E j \in 1 .. Len(files[k]) : files[k][j] = s
  BY DEF RecordInv
<1>2. PICK j \in 1 .. Len(files[k]) : files[k][j] = s
  BY <1>1
<1>3. Len(files[k]) \in Nat /\ Len(files[k]) <= MaxAppends
  BY OptionAssumption, SMTT(60) DEF RecordInv, TypeOK
<1>4. <<k, j>> \in Places(s)
  BY <1>2, <1>3, OptionAssumption DEF Places
<1>5. \A p \in Places(s) : p = <<k, j>>
  <2> SUFFICES ASSUME NEW p \in Places(s) PROVE p = <<k, j>>
    OBVIOUS
  <2>1. /\ p = <<p[1], p[2]>> /\ p[1] \in DOMAIN files /\ p[2] \in 1 .. MaxAppends
        /\ p[2] <= Len(files[p[1]]) /\ files[p[1]][p[2]] = s
    BY DEF Places
  <2>2. Len(files[p[1]]) \in Nat
    BY <2>1 DEF TypeOK
  <2>3. p[2] \in 1 .. Len(files[p[1]])
    BY <2>1, <2>2, OptionAssumption
  <2>4. p[1] = k /\ p[2] = j
    BY <1>2, <2>1, <2>3 DEF RecordInv
  <2> QED BY <2>1, <2>4
<1>6. Places(s) = {<<k, j>>}
  BY <1>4, <1>5
<1> QED BY <1>6, FS_Singleton

(* Every record append() acknowledged in this session is at exactly one     *)
(* place of exactly one segment file: rotation, recycling and allocation    *)
(* failures lose none and repeat none.                                      *)
THEOREM WalMmapWriter_SessionKept == ASSUME ~RetryAfterError PROVE Spec => []SessionKept
  BY OnePlace, WalMmapWriter_Protocol, PTL
=============================================================================
