--------------------------- MODULE DdrStatsProofs ---------------------------
(* Theorems about DdrStats, for any readers, record size, chunk size, integer *)
(* width and loop counts.                                                     *)
EXTENDS DdrStats, TLAPS

-----------------------------------------------------------------------------
(* Arithmetic.                                                                *)

LEMMA ModSmall ==
  ASSUME NEW a \in Nat, NEW b \in Nat, a < b
  PROVE  a % b = a
  OBVIOUS

LEMMA ModRange ==
  ASSUME NEW a \in Nat, NEW b \in Nat \ {0}
  PROVE  a % b \in 0 .. b - 1
  OBVIOUS

\* The size is an int ...
LEMMA AsIntType ==
  ASSUME NEW n \in Nat
  PROVE  AsInt(n) \in Int
<1>1. 2 * (IntMax + 1) \in Nat \ {0}
  BY SizesAssumption
<1>2. n % (2 * (IntMax + 1)) \in 0 .. 2 * (IntMax + 1) - 1
  BY <1>1, ModRange, Zenon
<1> QED
  BY <1>1, <1>2 DEF AsInt

\* ... and the number itself where an int can hold it.
LEMMA AsIntFits ==
  ASSUME NEW n \in Nat, n <= IntMax
  PROVE  AsInt(n) = n
<1>1. 2 * (IntMax + 1) \in Nat /\ n < 2 * (IntMax + 1)
  BY SizesAssumption
<1>2. n % (2 * (IntMax + 1)) = n
  BY <1>1, ModSmall
<1> QED
  BY <1>2, SizesAssumption DEF AsInt

LEMMA SizeInNat ==
  ASSUME NEW n \in Nat
  PROVE  RecordSize * n \in Nat
  BY SizesAssumption

\* A chunk is not empty and ends within the buffer.
LEMMA ChunkInBuffer ==
  ASSUME TypeOK, NEW r \in Readers, Asks(r)
  PROVE  /\ ChunkLen(r) \in Nat
         /\ 0 < ChunkLen(r)
         /\ copied[r] + ChunkLen(r) <= total[r]
  BY SizesAssumption DEF TypeOK, Asks, ChunkLen

LEMMA NothingEmpty == DOMAIN Nothing = {}
  BY DEF Nothing

-----------------------------------------------------------------------------
(* The invariant.                                                             *)

\* Reader s does not move.
Stays(s) ==
  /\ pc'[s] = pc[s] /\ loopCount'[s] = loopCount[s] /\ total'[s] = total[s]
  /\ copied'[s] = copied[s] /\ buf'[s] = buf[s] /\ shown'[s] = shown[s]
  /\ since'[s] = since[s] /\ until'[s] = until[s] /\ refused'[s] = refused[s]

\* The device may start or end a job, but jobs are numbered upwards.
DeviceMoves ==
  /\ job' \in Nat
  /\ \/ job' = job /\ (busy' => busy)
     \/ job' = job + 1

\* Whatever the device and others do, a reader that does not move keeps its
\* part of the invariant.
LEMMA OthersKeep ==
  ASSUME TypeOK, NEW s \in Readers, ReaderInv(s), Stays(s), DeviceMoves
  PROVE  ReaderInv(s)'
<1> USE DEF Stays
<1>1. since[s] \in Nat /\ job \in Nat /\ job <= job'
  BY DEF TypeOK, DeviceMoves
<1>2. EmptyBeforeJobs(s)' /\ Fresh(s)'
  BY DEF ReaderInv, EmptyBeforeJobs, Fresh
<1>3. StatusHolds(s)'
  BY <1>1 DEF ReaderInv, StatusHolds, DeviceMoves
<1>4. Sized(s)' /\ InBuffer(s)'
  BY DEF ReaderInv, Sized, InBuffer
<1>5. FilledInPlace(s)'
  BY DEF ReaderInv, FilledInPlace
<1>6. FilledSince(s)'
  <2> SUFFICES ASSUME NEW k \in DOMAIN buf[s]
               PROVE  \/ buf[s][k] = Unset
                      \/ /\ k < copied[s]
                         /\ buf[s][k].job \in since[s] .. job'
                         /\ buf[s][k].job = since[s] => buf[s][k].final
    BY DEF FilledSince
  <2> QED
    BY <1>1 DEF ReaderInv, FilledSince, DeviceMoves
<1>7. FilledInOrder(s)'
  BY DEF ReaderInv, FilledInOrder
<1>8. InPlace(s)'
  BY DEF ReaderInv, InPlace
<1>9. OneJob(s)'
  BY DEF ReaderInv, OneJob
<1>10. NeverOlder(s)'
  BY DEF ReaderInv, NeverOlder
<1> QED
  BY <1>2, <1>3, <1>4, <1>5, <1>6, <1>7, <1>8, <1>9, <1>10 DEF ReaderInv

LEMMA InitInv == Init => DdrInv
<1> SUFFICES ASSUME Init PROVE DdrInv
  OBVIOUS
<1> USE NothingEmpty DEF Init
<1>1. TypeOK
  <2>1. refused \in [Readers -> BOOLEAN] /\ busy \in BOOLEAN
    BY Zenon
  <2>2. Memories(buf) /\ Memories(shown)
    BY DEF Memories
  <2>3. job \in 0 .. MaxJobs
    BY SizesAssumption
  <2> QED
    BY <2>1, <2>2, <2>3 DEF TypeOK
<1>2. ASSUME NEW r \in Readers PROVE ReaderInv(r)
  <2>1. EmptyBeforeJobs(r) /\ Fresh(r) /\ StatusHolds(r) /\ Sized(r) /\ InBuffer(r)
    BY DEF EmptyBeforeJobs, Fresh, StatusHolds, Sized, InBuffer
  <2>2. FilledInPlace(r) /\ FilledSince(r) /\ FilledInOrder(r)
    BY DEF FilledInPlace, FilledSince, FilledInOrder
  <2>3. InPlace(r) /\ OneJob(r) /\ NeverOlder(r)
    BY DEF InPlace, OneJob, NeverOlder
  <2> QED
    BY <2>1, <2>2, <2>3 DEF ReaderInv
<1> QED
  BY <1>1, <1>2 DEF DdrInv, JobsMakeLoops

\* A command that ends with nothing displayed.
LEMMA ReturnNothing ==
  ASSUME TypeOK, NEW r \in Readers, NEW result \in {-1, 0, 1},
         Return(r, result, Nothing), since'[r] <= job', UNCHANGED deviceVars
  PROVE  ReaderInv(r)'
<1> USE NothingEmpty
<1>1. pc'[r] = "done" /\ buf'[r] = Nothing /\ shown'[r] = Nothing
  BY DEF TypeOK, Memories, Return
<1>2. EmptyBeforeJobs(r)' /\ Fresh(r)' /\ StatusHolds(r)' /\ Sized(r)' /\ InBuffer(r)'
  BY <1>1 DEF EmptyBeforeJobs, Fresh, StatusHolds, Sized, InBuffer
<1>3. FilledInPlace(r)' /\ FilledSince(r)' /\ FilledInOrder(r)'
  BY <1>1 DEF FilledInPlace, FilledSince, FilledInOrder
<1>4. InPlace(r)' /\ OneJob(r)' /\ NeverOlder(r)'
  BY <1>1 DEF InPlace, OneJob, NeverOlder
<1> QED
  BY <1>2, <1>3, <1>4 DEF ReaderInv

-----------------------------------------------------------------------------
(* Types.                                                                     *)

LEMMA ReturnType ==
  ASSUME TypeOK, NEW r \in Readers, NEW result \in {-1, 0, 1}, NEW display,
         \A k \in DOMAIN display : display[k] \in Bytes,
         Return(r, result, display)
  PROVE  /\ pc' \in [Readers -> {"idle", "read", "done"}]
         /\ rc' \in [Readers -> {-1, 0, 1}]
         /\ until' \in [Readers -> Nat]
         /\ Memories(buf)'
         /\ Memories(shown)'
<1>1. pc' \in [Readers -> {"idle", "read", "done"}] /\ rc' \in [Readers -> {-1, 0, 1}]
  BY DEF TypeOK, Return
<1>2. until' \in [Readers -> Nat]
  BY SizesAssumption DEF TypeOK, Return
<1>3. Memories(buf)'
  BY NothingEmpty DEF TypeOK, Memories, Return
<1>4. Memories(shown)'
  BY DEF TypeOK, Memories, Return
<1> QED
  BY <1>1, <1>2, <1>3, <1>4

LEMMA StatusType ==
  ASSUME TypeOK, NEW r \in Readers, Status(r)
  PROVE  /\ loopCount' \in [Readers -> Nat]
         /\ total' \in [Readers -> Int]
         /\ since' \in [Readers -> Nat]
<1>1. loops \in Nat /\ job \in Nat
  BY SizesAssumption DEF TypeOK
<1>2. AsInt(RecordSize * loops) \in Int
  BY <1>1, SizeInNat, AsIntType
<1> QED
  BY <1>1, <1>2 DEF TypeOK, Status

LEMMA AdvanceType ==
  ASSUME TypeOK, NEW r \in Readers, Asks(r), Advance(r)
  PROVE  copied' \in [Readers -> Nat]
<1>1. copied[r] + ChunkLen(r) \in Nat
  BY ChunkInBuffer DEF TypeOK
<1> QED
  BY <1>1 DEF TypeOK, Advance

LEMMA UnsetType == Unset \in Bytes
  BY DEF Unset, Bytes

LEMMA NextTypeOK == TypeOK /\ [Next]_vars => TypeOK'
<1> SUFFICES ASSUME TypeOK, [Next]_vars PROVE TypeOK'
  OBVIOUS
<1> USE NothingEmpty
<1>1. ASSUME NEW r \in Readers, StatusFails(r) PROVE TypeOK'
  <2>1. PICK answer \in {-1, 1} : Return(r, answer, Nothing)
    BY <1>1 DEF StatusFails
  <2> QED
    BY <1>1, <2>1, ReturnType DEF StatusFails, TypeOK, deviceVars
<1>2. ASSUME NEW r \in Readers, JobRuns(r) PROVE TypeOK'
  BY <1>2, ReturnType DEF JobRuns, TypeOK, deviceVars
<1>3. ASSUME NEW r \in Readers, NoRoom(r) PROVE TypeOK'
  BY <1>3, ReturnType, StatusType DEF NoRoom, TypeOK, deviceVars
<1>4. ASSUME NEW r \in Readers, Room(r) PROVE TypeOK'
  <2>1. /\ loopCount' \in [Readers -> Nat]
        /\ total' \in [Readers -> Int]
        /\ since' \in [Readers -> Nat]
    BY <1>4, StatusType DEF Room
  <2>2. Memories(buf)'
    BY <1>4, UnsetType DEF Room, TypeOK, Memories
  <2> QED
    BY <1>4, <2>1, <2>2 DEF Room, TypeOK, Memories, deviceVars
<1>5. ASSUME NEW r \in Readers, Received(r) PROVE TypeOK'
  <2>1. copied' \in [Readers -> Nat]
    BY <1>5, AdvanceType DEF Received
  <2>2. ASSUME NEW k \in DOMAIN buf[r], InChunk(r, k)
        PROVE  [job |-> job, off |-> copied[r] + (k - Dest(r)), final |-> ~ busy] \in Bytes
    <3>1. job \in Nat /\ (~ busy) \in BOOLEAN
      BY SizesAssumption DEF TypeOK
    <3>2. ChunkLen(r) \in Nat /\ copied[r] \in Nat
      BY <1>5, ChunkInBuffer DEF TypeOK, Received
    <3>3. copied[r] + (k - Dest(r)) \in Nat
      BY <2>2, <3>2 DEF InChunk, Dest
    <3> QED
      BY <3>1, <3>3 DEF Bytes
  <2>3. Memories(buf)'
    BY <1>5, <2>2 DEF Received, TypeOK, Memories
  <2>4. rc' \in [Readers -> {-1, 0, 1}]
    BY <1>5 DEF Received, TypeOK
  <2> QED
    BY <1>5, <2>1, <2>3, <2>4 DEF Received, TypeOK, Memories, deviceVars
<1>6. ASSUME NEW r \in Readers, Refused(r) PROVE TypeOK'
  <2>1. copied' \in [Readers -> Nat]
    BY <1>6, AdvanceType DEF Refused
  <2>2. refused' \in [Readers -> BOOLEAN] /\ rc' \in [Readers -> {-1, 0, 1}]
    BY <1>6 DEF Refused, TypeOK
  <2> QED
    BY <1>6, <2>1, <2>2 DEF Refused, TypeOK, Memories, deviceVars
<1>7. ASSUME NEW r \in Readers, Failed(r) PROVE TypeOK'
  BY <1>7, ReturnType, AdvanceType DEF Failed, TypeOK, deviceVars
<1>8. ASSUME NEW r \in Readers, Display(r) PROVE TypeOK'
  <2>1. \A k \in DOMAIN Displayed(r, RecordSize * loopCount[r]) :
          Displayed(r, RecordSize * loopCount[r])[k] \in Bytes
    BY UnsetType DEF Displayed, TypeOK, Memories
  <2>2. rc[r] \in {-1, 0, 1}
    BY DEF TypeOK
  <2> QED
    BY <1>8, <2>1, <2>2, ReturnType DEF Display, TypeOK, deviceVars
<1>9. CASE StatsRun
  BY <1>9, SizesAssumption DEF StatsRun, TypeOK, Memories, readerVars
<1>10. CASE JobEnds
  BY <1>10 DEF JobEnds, TypeOK, Memories, readerVars
<1>11. CASE UNCHANGED vars
  BY <1>11 DEF TypeOK, Memories, vars, readerVars, deviceVars
<1> QED
  BY <1>1, <1>2, <1>3, <1>4, <1>5, <1>6, <1>7, <1>8, <1>9, <1>10, <1>11
     DEF Next, Step, AllDone

-----------------------------------------------------------------------------
(* Each action of a reader keeps its own part of the invariant.               *)

LEMMA RoomKeeps ==
  ASSUME TypeOK, JobsMakeLoops, NEW r \in Readers, ReaderInv(r), Room(r)
  PROVE  ReaderInv(r)'
<1>1. /\ pc[r] = "idle" /\ pc'[r] = "read"
      /\ loopCount'[r] = loops /\ since'[r] = job
      /\ total'[r] = AsInt(RecordSize * loops) /\ total'[r] >= 0
      /\ copied'[r] = copied[r] /\ shown'[r] = shown[r]
      /\ until'[r] = until[r] /\ refused'[r] = refused[r]
      /\ ~ busy /\ UNCHANGED <<job, busy, loops>>
  BY DEF Room, Status, TypeOK, deviceVars
<1>2. buf'[r] = [k \in 0 .. total'[r] - 1 |-> Unset]
  BY DEF Room, TypeOK, Memories
<1>3. copied[r] = 0 /\ ~ refused[r] /\ shown[r] = Nothing
  BY <1>1 DEF ReaderInv, Fresh
<1>4. EmptyBeforeJobs(r)'
  <2>1. job = 0 => loops = 0 /\ AsInt(0) = 0
    BY AsIntFits, SizesAssumption DEF JobsMakeLoops
  <2>2. RecordSize * 0 = 0
    BY SizesAssumption
  <2> QED
    BY <1>1, <2>1, <2>2 DEF EmptyBeforeJobs
<1>5. Fresh(r)' /\ Sized(r)'
  BY <1>1, <1>3 DEF Fresh, Sized
<1>6. StatusHolds(r)'
  BY <1>1, SizesAssumption DEF StatusHolds, TypeOK
<1>7. InBuffer(r)'
  BY <1>1, <1>2, <1>3 DEF InBuffer
<1>8. FilledInPlace(r)' /\ FilledSince(r)' /\ FilledInOrder(r)'
  BY <1>1, <1>2, <1>3 DEF FilledInPlace, FilledSince, FilledInOrder
<1>9. InPlace(r)' /\ OneJob(r)' /\ NeverOlder(r)'
  BY <1>1, <1>3, NothingEmpty DEF InPlace, OneJob, NeverOlder
<1> QED
  BY <1>4, <1>5, <1>6, <1>7, <1>8, <1>9 DEF ReaderInv

LEMMA ReceivedKeeps ==
  ASSUME TypeOK, NEW r \in Readers, ReaderInv(r), Received(r)
  PROVE  ReaderInv(r)'
<1> DEFINE n == ChunkLen(r)
<1>1. n \in Nat /\ 0 < n /\ copied[r] + n <= total[r] /\ copied[r] \in Nat
      /\ total[r] \in Int /\ since[r] \in Nat /\ job \in Nat
  BY ChunkInBuffer, SizesAssumption DEF Received, TypeOK
<1>2. /\ pc[r] = "read" /\ pc'[r] = "read"
      /\ loopCount'[r] = loopCount[r] /\ since'[r] = since[r]
      /\ total'[r] = total[r] /\ copied'[r] = copied[r] + n
      /\ shown'[r] = shown[r] /\ until'[r] = until[r]
      /\ refused'[r] = refused[r] /\ UNCHANGED <<job, busy, loops>>
  BY DEF Received, Advance, Asks, TypeOK, deviceVars
<1>3. DOMAIN buf[r] = 0 .. total[r] - 1
  BY <1>2 DEF ReaderInv, InBuffer
<1> DEFINE Byte(k) == [job |-> job, off |-> copied[r] + (k - copied[r]), final |-> ~ busy]
<1>4. /\ DOMAIN buf'[r] = DOMAIN buf[r]
      /\ \A k \in DOMAIN buf[r] :
           buf'[r][k] = IF k \in copied[r] .. copied[r] + n - 1 THEN Byte(k) ELSE buf[r][k]
  BY DEF Received, TypeOK, Memories, InChunk, Dest
<1>4a. ASSUME NEW k \in DOMAIN buf[r], k \in copied[r] .. copied[r] + n - 1
       PROVE  buf'[r][k].job = job /\ buf'[r][k].off = k /\ buf'[r][k].final = ~ busy
  <2>1. buf'[r][k] = Byte(k)
    BY <1>4, <1>4a
  <2>2. Byte(k).job = job /\ Byte(k).final = ~ busy
    BY Zenon
  <2>3. Byte(k).off = k
    BY <1>1, <1>4a
  <2> QED
    BY <2>1, <2>2, <2>3
<1>4b. ASSUME NEW k \in DOMAIN buf[r], k \notin copied[r] .. copied[r] + n - 1
       PROVE  buf'[r][k] = buf[r][k]
  BY <1>4, <1>4b
<1>5. since[r] <= job /\ (since[r] = job => ~ busy)
  BY <1>2 DEF ReaderInv, StatusHolds
<1>6. job > 0
  <2>1. since[r] # 0
    BY <1>1, <1>2 DEF ReaderInv, EmptyBeforeJobs
  <2> QED
    BY <1>1, <1>5, <2>1
<1> HIDE DEF n, Byte
<1>7. EmptyBeforeJobs(r)' /\ Fresh(r)' /\ StatusHolds(r)' /\ Sized(r)'
  BY <1>2 DEF ReaderInv, EmptyBeforeJobs, Fresh, StatusHolds, Sized
<1>8. InBuffer(r)'
  BY <1>1, <1>2, <1>3, <1>4 DEF InBuffer
<1>9. FilledInPlace(r)'
  <2> SUFFICES ASSUME NEW k \in DOMAIN buf[r], k < copied[r] + n
               PROVE  refused[r] \/ (buf'[r][k].job > 0 /\ buf'[r][k].off = k)
    BY <1>2, <1>4 DEF FilledInPlace
  <2>1. k \in Int
    BY <1>3
  <2>2. CASE k < copied[r]
    <3>1. buf'[r][k] = buf[r][k]
      BY <1>1, <1>4b, <2>1, <2>2
    <3> QED
      BY <2>2, <3>1 DEF ReaderInv, FilledInPlace
  <2>3. CASE k >= copied[r]
    <3>1. k \in copied[r] .. copied[r] + n - 1
      BY <1>1, <2>1, <2>3
    <3> QED
      BY <1>4a, <1>6, <3>1
  <2> QED
    BY <1>1, <2>1, <2>2, <2>3
<1>10. FilledSince(r)'
  <2> SUFFICES ASSUME NEW k \in DOMAIN buf[r], buf'[r][k] # Unset
               PROVE  /\ k < copied[r] + n
                      /\ buf'[r][k].job \in since[r] .. job
                      /\ buf'[r][k].job = since[r] => buf'[r][k].final
    BY <1>2, <1>4 DEF FilledSince
  <2>1. k \in Int
    BY <1>3
  <2>2. CASE k \in copied[r] .. copied[r] + n - 1
    <3>1. buf'[r][k].job = job /\ buf'[r][k].final = ~ busy
      BY <1>4a, <2>2
    <3>2. job \in since[r] .. job
      BY <1>1, <1>5
    <3>3. k < copied[r] + n
      BY <1>1, <2>1, <2>2
    <3>4. buf'[r][k].job = since[r] => buf'[r][k].final
      BY <1>5, <3>1
    <3> QED
      BY <3>1, <3>2, <3>3, <3>4
  <2>3. CASE k \notin copied[r] .. copied[r] + n - 1
    <3>1. buf'[r][k] = buf[r][k]
      BY <1>4, <2>3
    <3>2. k < copied[r] => k < copied[r] + n
      BY <1>1, <2>1
    <3> QED
      BY <3>1, <3>2 DEF ReaderInv, FilledSince
  <2> QED
    BY <2>2, <2>3
<1>11. FilledInOrder(r)'
  <2> SUFFICES ASSUME NEW j \in DOMAIN buf[r], NEW k \in DOMAIN buf[r], j <= k,
                      buf'[r][j] # Unset, buf'[r][k] # Unset
               PROVE  buf'[r][j].job <= buf'[r][k].job
    BY <1>4 DEF FilledInOrder
  <2>1. j \in Int /\ k \in Int
    BY <1>3
  <2>2. CASE k \in copied[r] .. copied[r] + n - 1
    <3>1. buf'[r][k].job = job
      BY <1>4a, <2>2
    <3>2. buf'[r][j].job \in since[r] .. job
      BY <1>2, <1>4, <1>10 DEF FilledSince
    <3> QED
      BY <1>1, <3>1, <3>2
  <2>3. CASE k \notin copied[r] .. copied[r] + n - 1
    <3>1. buf'[r][k] = buf[r][k]
      BY <1>4, <2>3
    <3>2. k < copied[r]
      BY <3>1 DEF ReaderInv, FilledSince
    <3>3. j \notin copied[r] .. copied[r] + n - 1
      BY <1>1, <2>1, <3>2
    <3>4. buf'[r][j] = buf[r][j]
      BY <1>4, <3>3
    <3> QED
      BY <3>1, <3>4 DEF ReaderInv, FilledInOrder
  <2> QED
    BY <2>2, <2>3
<1>12. InPlace(r)' /\ OneJob(r)' /\ NeverOlder(r)'
  BY <1>2 DEF ReaderInv, InPlace, OneJob, NeverOlder
<1> QED
  BY <1>7, <1>8, <1>9, <1>10, <1>11, <1>12 DEF ReaderInv

LEMMA RefusedKeeps ==
  ASSUME TypeOK, NEW r \in Readers, ReaderInv(r), Refused(r)
  PROVE  ReaderInv(r)'
<1> DEFINE n == ChunkLen(r)
<1>1. n \in Nat /\ 0 < n /\ copied[r] + n <= total[r] /\ copied[r] \in Nat
  BY ChunkInBuffer DEF Refused, TypeOK
<1>2. /\ pc[r] = "read" /\ pc'[r] = "read"
      /\ loopCount'[r] = loopCount[r] /\ since'[r] = since[r]
      /\ total'[r] = total[r] /\ copied'[r] = copied[r] + n
      /\ shown'[r] = shown[r] /\ until'[r] = until[r] /\ buf'[r] = buf[r]
      /\ refused'[r] = TRUE /\ UNCHANGED <<job, busy, loops>>
  BY DEF Refused, Advance, Asks, TypeOK, deviceVars
<1>3. DOMAIN buf[r] = 0 .. total[r] - 1
  BY <1>2 DEF ReaderInv, InBuffer
<1> HIDE DEF n
<1>4. EmptyBeforeJobs(r)' /\ Fresh(r)' /\ StatusHolds(r)' /\ Sized(r)'
  BY <1>2 DEF ReaderInv, EmptyBeforeJobs, Fresh, StatusHolds, Sized
<1>5. InBuffer(r)' /\ FilledInPlace(r)'
  BY <1>1, <1>2, <1>3 DEF InBuffer, FilledInPlace
<1>6. FilledSince(r)'
  <2> SUFFICES ASSUME NEW k \in DOMAIN buf[r], buf[r][k] # Unset
               PROVE  /\ k < copied[r] + n
                      /\ buf[r][k].job \in since[r] .. job
                      /\ buf[r][k].job = since[r] => buf[r][k].final
    BY <1>2 DEF FilledSince
  <2>1. k \in Int /\ k < copied[r]
    BY <1>3 DEF ReaderInv, FilledSince
  <2>2. k < copied[r] + n
    BY <1>1, <2>1
  <2> QED
    BY <2>2 DEF ReaderInv, FilledSince
<1>7. FilledInOrder(r)'
  BY <1>2 DEF ReaderInv, FilledInOrder
<1>8. InPlace(r)' /\ OneJob(r)' /\ NeverOlder(r)'
  BY <1>2 DEF ReaderInv, InPlace, OneJob, NeverOlder
<1> QED
  BY <1>4, <1>5, <1>6, <1>7, <1>8 DEF ReaderInv

\* What is displayed has the properties the buffer has.
LEMMA DisplayKeeps ==
  ASSUME TypeOK, NEW r \in Readers, ReaderInv(r), Display(r)
  PROVE  ReaderInv(r)'
<1> DEFINE size == RecordSize * loopCount[r]
<1>1. /\ pc[r] = "read" /\ pc'[r] = "done"
      /\ loopCount'[r] = loopCount[r] /\ since'[r] = since[r]
      /\ total'[r] = total[r] /\ copied'[r] = copied[r]
      /\ refused'[r] = refused[r] /\ until'[r] = job
      /\ UNCHANGED <<job, busy, loops>>
      /\ copied[r] >= total[r]
  BY DEF Display, Return, TypeOK, deviceVars
<1>2. buf'[r] = Nothing /\ shown'[r] = Displayed(r, size)
  BY DEF Display, Return, TypeOK, Memories
<1>3. /\ DOMAIN shown'[r] = 0 .. size - 1
      /\ \A k \in 0 .. size - 1 :
           shown'[r][k] = IF k \in DOMAIN buf[r] THEN buf[r][k] ELSE Unset
  BY <1>2 DEF Displayed
<1>4. DOMAIN buf[r] = 0 .. total[r] - 1 /\ copied[r] = total[r]
  <2>1. copied[r] \in Nat /\ total[r] \in Int
    BY DEF TypeOK
  <2> QED
    BY <1>1, <2>1 DEF ReaderInv, InBuffer
<1>5. size \in Nat /\ total[r] \in Int /\ since[r] \in Nat /\ job \in Nat
  BY SizeInNat, SizesAssumption DEF TypeOK
<1>6. total[r] = AsInt(size)
  BY <1>1 DEF ReaderInv, Sized
<1> HIDE DEF size
<1>7. EmptyBeforeJobs(r)' /\ Fresh(r)' /\ Sized(r)' /\ InBuffer(r)'
  BY <1>1, <1>2 DEF EmptyBeforeJobs, Fresh, Sized, InBuffer
<1>8. StatusHolds(r)'
  BY <1>1 DEF ReaderInv, StatusHolds
<1>9. FilledInPlace(r)' /\ FilledSince(r)' /\ FilledInOrder(r)'
  BY <1>2, NothingEmpty DEF FilledInPlace, FilledSince, FilledInOrder
<1>10. InPlace(r)'
  <2> SUFFICES ASSUME ~ refused[r], size <= IntMax, NEW k \in 0 .. size - 1
               PROVE  shown'[r][k].job > 0 /\ shown'[r][k].off = k
    BY <1>1, <1>3 DEF InPlace, Fits, size
  <2>1. total[r] = size
    BY <1>5, <1>6, AsIntFits
  <2>2. k \in DOMAIN buf[r] /\ k < copied[r]
    BY <1>4, <1>5, <2>1
  <2> QED
    BY <1>3, <2>2 DEF ReaderInv, FilledInPlace
<1>11. OneJob(r)'
  <2> SUFFICES ASSUME since[r] = job, NEW k \in 0 .. size - 1, shown'[r][k] # Unset
               PROVE  shown'[r][k].job = since[r] /\ shown'[r][k].final
    BY <1>1, <1>3 DEF OneJob
  <2>1. k \in DOMAIN buf[r] /\ shown'[r][k] = buf[r][k]
    BY <1>3
  <2>2. buf[r][k].job \in since[r] .. job
    BY <2>1 DEF ReaderInv, FilledSince
  <2>3. buf[r][k].job = since[r]
    BY <1>5, <2>2
  <2> QED
    BY <2>1, <2>3 DEF ReaderInv, FilledSince
<1>12. NeverOlder(r)'
  <2> SUFFICES ASSUME NEW j \in 0 .. size - 1, NEW k \in 0 .. size - 1, j <= k,
                      shown'[r][j] # Unset, shown'[r][k] # Unset
               PROVE  since[r] <= shown'[r][j].job /\ shown'[r][j].job <= shown'[r][k].job
    BY <1>1, <1>3 DEF NeverOlder
  <2>1. /\ j \in DOMAIN buf[r] /\ shown'[r][j] = buf[r][j]
        /\ k \in DOMAIN buf[r] /\ shown'[r][k] = buf[r][k]
    BY <1>3
  <2>2. buf[r][j].job \in since[r] .. job
    BY <2>1 DEF ReaderInv, FilledSince
  <2>3. buf[r][j].job <= buf[r][k].job
    BY <2>1 DEF ReaderInv, FilledInOrder
  <2> QED
    BY <1>5, <2>1, <2>2, <2>3
<1> QED
  BY <1>7, <1>8, <1>9, <1>10, <1>11, <1>12 DEF ReaderInv

-----------------------------------------------------------------------------
(* The whole step.                                                            *)

LEMMA OnlyOneMoves ==
  ASSUME TypeOK, NEW r \in Readers, Step(r), NEW s \in Readers, s # r
  PROVE  Stays(s) /\ UNCHANGED deviceVars
<1> USE DEF TypeOK, Memories, Stays, deviceVars
<1>1. CASE StatusFails(r)
  BY <1>1 DEF StatusFails, Return
<1>2. CASE JobRuns(r)
  BY <1>2 DEF JobRuns, Return
<1>3. CASE NoRoom(r)
  BY <1>3 DEF NoRoom, Status, Return
<1>4. CASE Room(r)
  BY <1>4 DEF Room, Status
<1>5. CASE Received(r)
  BY <1>5 DEF Received, Advance
<1>6. CASE Refused(r)
  BY <1>6 DEF Refused, Advance
<1>7. CASE Failed(r)
  BY <1>7 DEF Failed, Advance, Return
<1>8. CASE Display(r)
  BY <1>8 DEF Display, Return
<1> QED
  BY <1>1, <1>2, <1>3, <1>4, <1>5, <1>6, <1>7, <1>8 DEF Step

LEMMA MoverKeeps ==
  ASSUME TypeOK, JobsMakeLoops, NEW r \in Readers, ReaderInv(r), Step(r)
  PROVE  ReaderInv(r)'
<1>1. since[r] <= job /\ job <= job
  BY SizesAssumption DEF ReaderInv, StatusHolds, TypeOK
<1>2. CASE StatusFails(r)
  <2>1. PICK answer \in {-1, 1} : Return(r, answer, Nothing)
    BY <1>2 DEF StatusFails
  <2>2. since'[r] <= job' /\ UNCHANGED deviceVars
    BY <1>1, <1>2 DEF StatusFails, deviceVars
  <2> QED
    BY <2>1, <2>2, ReturnNothing
<1>3. CASE JobRuns(r)
  <2>1. since'[r] <= job' /\ UNCHANGED deviceVars
    BY <1>1, <1>3 DEF JobRuns, deviceVars
  <2> QED
    BY <1>3, <2>1, ReturnNothing DEF JobRuns
<1>4. CASE NoRoom(r)
  <2>1. since'[r] <= job' /\ UNCHANGED deviceVars
    BY <1>1, <1>4 DEF NoRoom, Status, TypeOK, deviceVars
  <2> QED
    BY <1>4, <2>1, ReturnNothing DEF NoRoom
<1>5. CASE Room(r)
  BY <1>5, RoomKeeps
<1>6. CASE Received(r)
  BY <1>6, ReceivedKeeps
<1>7. CASE Refused(r)
  BY <1>7, RefusedKeeps
<1>8. CASE Failed(r)
  <2>1. since'[r] <= job' /\ UNCHANGED deviceVars
    BY <1>1, <1>8 DEF Failed, deviceVars
  <2> QED
    BY <1>8, <2>1, ReturnNothing DEF Failed
<1>9. CASE Display(r)
  BY <1>9, DisplayKeeps
<1> QED
  BY <1>2, <1>3, <1>4, <1>5, <1>6, <1>7, <1>8, <1>9 DEF Step

LEMMA NextInv == DdrInv /\ [Next]_vars => DdrInv'
<1> SUFFICES ASSUME DdrInv, [Next]_vars PROVE DdrInv'
  OBVIOUS
<1>1. TypeOK /\ JobsMakeLoops /\ \A r \in Readers : ReaderInv(r)
  BY DEF DdrInv
<1>2. TypeOK'
  BY <1>1, NextTypeOK
<1>3. job \in Nat
  BY <1>1, SizesAssumption DEF TypeOK
<1>4. ASSUME NEW r \in Readers, Step(r) PROVE DdrInv'
  <2>1. UNCHANGED deviceVars
    <3> USE DEF deviceVars
    <3> QED
      BY <1>4 DEF Step, StatusFails, JobRuns, NoRoom, Room, Received, Refused, Failed, Display
  <2>2. JobsMakeLoops' /\ DeviceMoves
    BY <1>1, <1>3, <2>1 DEF JobsMakeLoops, DeviceMoves, deviceVars
  <2>3. ASSUME NEW s \in Readers PROVE ReaderInv(s)'
    <3>1. CASE s = r
      BY <1>1, <1>4, <3>1, MoverKeeps
    <3>2. CASE s # r
      BY <1>1, <1>4, <2>2, <3>2, OnlyOneMoves, OthersKeep
    <3> QED
      BY <3>1, <3>2
  <2> QED
    BY <1>2, <2>2, <2>3 DEF DdrInv
<1>5. ASSUME UNCHANGED readerVars, DeviceMoves, JobsMakeLoops' PROVE DdrInv'
  <2>1. ASSUME NEW s \in Readers PROVE ReaderInv(s)'
    <3>1. Stays(s)
      BY <1>5 DEF Stays, readerVars
    <3> QED
      BY <1>1, <1>5, <3>1, OthersKeep
  <2> QED
    BY <1>2, <1>5, <2>1 DEF DdrInv
<1>6. CASE StatsRun
  <2>1. UNCHANGED readerVars /\ DeviceMoves /\ JobsMakeLoops'
    BY <1>3, <1>6 DEF StatsRun, DeviceMoves, JobsMakeLoops
  <2> QED
    BY <1>5, <2>1
<1>7. CASE JobEnds
  <2>1. UNCHANGED readerVars /\ DeviceMoves /\ JobsMakeLoops'
    BY <1>1, <1>3, <1>7 DEF JobEnds, DeviceMoves, JobsMakeLoops
  <2> QED
    BY <1>5, <2>1
<1>8. CASE UNCHANGED vars
  <2>1. UNCHANGED readerVars /\ DeviceMoves /\ JobsMakeLoops'
    BY <1>1, <1>3, <1>8 DEF vars, deviceVars, DeviceMoves, JobsMakeLoops
  <2> QED
    BY <1>5, <2>1
<1> QED
  BY <1>4, <1>6, <1>7, <1>8 DEF Next, AllDone

\* The whole invariant, which ddr_get checks as well: what is in the buffer of a
\* get under way is in its place, of the job its status was about, and no older
\* than that status.
THEOREM SpecInv == Spec => []DdrInv
  BY InitInv, NextInv, PTL DEF Spec

-----------------------------------------------------------------------------
(* Theorems.                                                                  *)

\* The variables of the readers and the device keep their types.
THEOREM TypeCorrect == Spec => []TypeOK
<1>1. DdrInv => TypeOK
  BY DEF DdrInv
<1> QED
  BY <1>1, SpecInv, PTL

\* However the sizes come out, no chunk is written past the buffer.
THEOREM ChunksStayInBuffer == Spec => []StaysInBuffer
<1>1. DdrInv => StaysInBuffer
  BY DEF DdrInv, ReaderInv, StaysInBuffer
<1> QED
  BY <1>1, SpecInv, PTL

\* Records of any size, fetched in chunks of any size, are displayed with every
\* byte in its place, if no chunk was refused and their size is an int.
THEOREM RecordsAreInPlace == Spec => []ShownInPlace
<1>1. DdrInv => ShownInPlace
  BY DEF DdrInv, ReaderInv, ShownInPlace
<1> QED
  BY <1>1, SpecInv, PTL

\* Any number of readers and jobs: without a job started in between, what a
\* reader displays is of the one job its status was about.
THEOREM RecordsAreOfOneJob == Spec => []ShownIsOneJob
<1>1. DdrInv => ShownIsOneJob
  BY DEF DdrInv, ReaderInv, ShownIsOneJob
<1> QED
  BY <1>1, SpecInv, PTL

\* With jobs started in between they are never older, and in order.
THEOREM RecordsAreNeverOlder == Spec => []ShownNeverOlder
<1>1. DdrInv => ShownNeverOlder
  BY DEF DdrInv, ReaderInv, ShownNeverOlder
<1> QED
  BY <1>1, SpecInv, PTL

-----------------------------------------------------------------------------
(* Every get ends.                                                            *)

\* What the steps of a reader come to.
LEMMA StepAdvances ==
  ASSUME TypeOK, NEW r \in Readers, Step(r)
  PROVE  \/ pc[r] # "done" /\ pc'[r] = "done"
         \/ pc[r] = "idle" /\ pc'[r] = "read"
         \/ /\ UNCHANGED <<pc, total>>
            /\ pc[r] = "read" /\ copied'[r] \in copied[r] + 1 .. total[r]
<1>1. CASE StatusFails(r) \/ JobRuns(r) \/ NoRoom(r) \/ Failed(r) \/ Display(r)
  BY <1>1 DEF StatusFails, JobRuns, NoRoom, Status, Failed, Asks, Display, Return, TypeOK
<1>2. CASE Room(r)
  BY <1>2 DEF Room, Status, TypeOK
<1>3. CASE Received(r) \/ Refused(r)
  <2>1. Asks(r) /\ Advance(r) /\ UNCHANGED <<pc, total>>
    BY <1>3 DEF Received, Refused
  <2>2. copied'[r] = copied[r] + ChunkLen(r) /\ copied[r] \in Nat /\ total[r] \in Int
    BY <2>1 DEF Advance, TypeOK
  <2> QED
    BY <2>1, <2>2, ChunkInBuffer DEF Asks
<1> QED
  BY <1>1, <1>2, <1>3 DEF Step

\* A reader is not moved by another one.
LEMMA OtherStays ==
  ASSUME TypeOK, NEW r \in Readers, NEW s \in Readers, s # r, Step(s)
  PROVE  pc'[r] = pc[r] /\ total'[r] = total[r] /\ copied'[r] = copied[r]
<1>1. CASE StatusFails(s) \/ JobRuns(s) \/ NoRoom(s) \/ Failed(s) \/ Display(s)
  BY <1>1 DEF StatusFails, JobRuns, NoRoom, Status, Failed, Advance, Display, Return, TypeOK
<1>2. CASE Room(s) \/ Received(s) \/ Refused(s)
  BY <1>2 DEF Room, Status, Received, Refused, Advance, TypeOK
<1> QED
  BY <1>1, <1>2 DEF Step

\* Whatever the sizes, and however often the buffer has a hole: a get is as many
\* steps from its end as there are chunks up to its total.
THEOREM GetsAdvance == Spec => GetAdvances
<1> DEFINE Advances(r) ==
       \/ pc[r] # "done" /\ pc'[r] = "done"
       \/ pc[r] = "idle" /\ pc'[r] = "read"
       \/ /\ UNCHANGED <<pc[r], total[r]>>
          /\ \/ pc[r] = "read" /\ copied'[r] \in copied[r] + 1 .. total[r]
             \/ copied'[r] = copied[r] /\ ~ Step(r)
<1>1. ASSUME TypeOK, Next, NEW r \in Readers PROVE Advances(r) \/ UNCHANGED vars
  <2>1. CASE Step(r)
    BY <1>1, <2>1, StepAdvances
  <2>2. CASE ~ Step(r)
    <3>1. CASE \E s \in Readers : Step(s)
      BY <1>1, <2>2, <3>1, OtherStays
    <3>2. CASE StatsRun \/ JobEnds
      BY <2>2, <3>2 DEF StatsRun, JobEnds, readerVars
    <3> QED
      BY <1>1, <3>1, <3>2 DEF Next, AllDone
  <2> QED
    BY <2>1, <2>2
<1>2. TypeOK /\ [Next]_vars => [\A r \in Readers : Advances(r)]_vars
  BY <1>1
<1>3. TypeOK /\ [Next]_vars =>
        [\A r \in Readers :
           \/ pc[r] # "done" /\ pc'[r] = "done"
           \/ pc[r] = "idle" /\ pc'[r] = "read"
           \/ /\ UNCHANGED <<pc[r], total[r]>>
              /\ \/ pc[r] = "read" /\ copied'[r] \in copied[r] + 1 .. total[r]
                 \/ copied'[r] = copied[r] /\ ~ Step(r)]_vars
  BY <1>2
<1> QED
  BY <1>3, TypeCorrect, PTL DEF Spec, GetAdvances
=============================================================================
