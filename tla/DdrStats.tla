------------------------------ MODULE DdrStats ------------------------------
(* DDR statistics: cxl_cmd_ddr_stats_get and cxl_cmd_ddr_stats_run            *)
(* (cxl/src/cxl_cmd.c) on one device that several processes use.              *)
(*                                                                            *)
(* A run command starts a job on the device; a get command asks whether the   *)
(* job is over and how many loops it made, allocates room for a record of     *)
(* each loop, fetches the records in chunks and displays them.  Nothing keeps *)
(* another process from starting a new job in between.                        *)
(*                                                                            *)
(* The job is the device's, outside the repository: it is modelled from the   *)
(* status (run_status, loop_count) and from the offset and size of a read.    *)
EXTENDS Integers

CONSTANTS
  Readers,     \* processes that run ddr-stats-get, once each
  Loops,       \* loop counts that ddr-stats-run is given
  RecordSize,  \* sizeof(ddr_stats_data_t)
  Chunk,       \* MAX_CXL_TRANSFER_SZ, 16K in the code
  IntMax,      \* INT_MAX
  MaxJobs      \* bound: jobs started

ASSUME SizesAssumption ==
  /\ Loops \subseteq Nat
  /\ RecordSize \in Nat \ {0}
  /\ Chunk \in Nat \ {0}
  /\ IntMax \in Nat
  /\ MaxJobs \in Nat

-----------------------------------------------------------------------------
VARIABLES
  \* the readers
  pc,         \* "idle", "read", "done"
  loopCount,  \* ddr_stats_status.loop_count
  total,      \* total_bytes
  copied,     \* bytes_copied
  buf,        \* the allocated buffer: what was written to each byte
  rc,         \* result of the last call, then of the command
  shown,      \* what was displayed
  since,      \* history: the device's job when the status was read
  until,      \* history: the device's job at the end
  refused,    \* history: a chunk was refused
  \* the device
  job,        \* number of the last job started
  busy,       \* run_status
  loops       \* loop_count of the last job

readerVars == <<pc, loopCount, total, copied, buf, rc, shown, since, until, refused>>
deviceVars == <<job, busy, loops>>
vars == <<readerVars, deviceVars>>

\* A byte received: which job's, from which offset of its records, and whether
\* the job was over.  Memory never written to holds Unset.
Bytes == [job : Nat, off : Nat, final : BOOLEAN]
Unset == [job |-> 0, off |-> 0, final |-> FALSE]
Nothing == [k \in {} |-> Unset]

\* A stretch of memory for each reader.
Memories(mem) ==
  /\ mem = [r \in Readers |-> mem[r]]
  /\ \A r \in Readers : \A k \in DOMAIN mem[r] : mem[r][k] \in Bytes

TypeOK ==
  /\ pc \in [Readers -> {"idle", "read", "done"}]
  /\ loopCount \in [Readers -> Nat]
  /\ total \in [Readers -> Int]
  /\ copied \in [Readers -> Nat]
  /\ Memories(buf)
  /\ rc \in [Readers -> {-1, 0, 1}]
  /\ Memories(shown)
  /\ since \in [Readers -> Nat]
  /\ until \in [Readers -> Nat]
  /\ refused \in [Readers -> BOOLEAN]
  /\ job \in 0 .. MaxJobs
  /\ busy \in BOOLEAN
  /\ loops \in Loops \cup {0}

-----------------------------------------------------------------------------
(* The device.                                                                *)

\* cxl_cmd_ddr_stats_run: a job starts unless one is running.
StatsRun ==
  /\ ~ busy
  /\ job < MaxJobs
  /\ job' = job + 1
  /\ busy' = TRUE
  /\ loops' \in Loops
  /\ UNCHANGED readerVars

JobEnds ==
  /\ busy
  /\ busy' = FALSE
  /\ UNCHANGED <<job, loops, readerVars>>

-----------------------------------------------------------------------------
(* cxl_cmd_ddr_stats_get.                                                     *)

\* A size_t product that ends up in an int.
AsInt(n) ==
  LET low == n % (2 * (IntMax + 1))
  IN  IF low > IntMax THEN low - 2 * (IntMax + 1) ELSE low

\* Every way out releases the buffer.
Return(r, result, display) ==
  /\ pc' = [pc EXCEPT ![r] = "done"]
  /\ rc' = [rc EXCEPT ![r] = result]
  /\ buf' = [buf EXCEPT ![r] = Nothing]
  /\ shown' = [shown EXCEPT ![r] = display]
  /\ until' = [until EXCEPT ![r] = job]

\* The status cannot be read, or the device refuses to tell.
StatusFails(r) ==
  /\ pc[r] = "idle"
  /\ \E answer \in {-1, 1} : Return(r, answer, Nothing)
  /\ UNCHANGED <<loopCount, total, copied, since, refused, deviceVars>>

\* Mutant: the run status is displayed and then ignored.
StatusIgnored(r) ==
  /\ pc[r] = "idle"
  /\ loopCount' = [loopCount EXCEPT ![r] = loops]
  /\ total' = [total EXCEPT ![r] = AsInt(RecordSize * loops)]
  /\ since' = [since EXCEPT ![r] = job]

\* The status of a job that is over, and how much its records take.
Status(r) ==
  /\ pc[r] = "idle"
  /\ ~ busy
  /\ loopCount' = [loopCount EXCEPT ![r] = loops]
  /\ total' = [total EXCEPT ![r] = AsInt(RecordSize * loops)]
  /\ since' = [since EXCEPT ![r] = job]

JobRuns(r) ==
  /\ pc[r] = "idle"
  /\ busy
  /\ Return(r, -1, Nothing)
  /\ UNCHANGED <<loopCount, total, copied, since, refused, deviceVars>>

\* No room for the records: always so when their size is negative as an int.
NoRoom(r) ==
  /\ Status(r)
  /\ Return(r, -1, Nothing)
  /\ UNCHANGED <<copied, refused, deviceVars>>

Room(r) ==
  /\ Status(r)
  /\ total'[r] >= 0
  /\ pc' = [pc EXCEPT ![r] = "read"]
  /\ rc' = [rc EXCEPT ![r] = 0]
  /\ buf' = [buf EXCEPT ![r] = [k \in 0 .. total'[r] - 1 |-> Unset]]
  /\ UNCHANGED <<copied, shown, until, refused, deviceVars>>

\* Mutant: a wrong comparison.
LenSwapped(r) ==
  IF copied[r] - total[r] < Chunk THEN copied[r] - total[r] ELSE Chunk

\* Mutant: always a whole chunk.
LenAlwaysChunk(r) == Chunk

\* bytes_to_cpy.
ChunkLen(r) ==
  IF total[r] - copied[r] < Chunk THEN total[r] - copied[r] ELSE Chunk

\* Mutant: every chunk goes to the start of the buffer.
DestIsStart(r) == 0

\* Mutant: the buffer is filled from its end.
DestFromEnd(r) == total[r] - copied[r] - ChunkLen(r)

\* Where in the buffer the chunk goes; the request's offset is the same number.
Dest(r) == copied[r]

InChunk(r, k) == k \in Dest(r) .. Dest(r) + ChunkLen(r) - 1

Asks(r) == pc[r] = "read" /\ copied[r] < total[r]

Advance(r) == copied' = [copied EXCEPT ![r] = @ + ChunkLen(r)]

Received(r) ==
  /\ Asks(r)
  /\ buf' = [buf EXCEPT ![r] =
               [k \in DOMAIN buf[r] |->
                  IF InChunk(r, k)
                    THEN [job |-> job, off |-> copied[r] + (k - Dest(r)), final |-> ~ busy]
                    ELSE buf[r][k]]]
  /\ rc' = [rc EXCEPT ![r] = 0]
  /\ Advance(r)
  /\ UNCHANGED <<pc, loopCount, total, shown, since, until, refused, deviceVars>>

\* Mutant: after a refused chunk everything is read again.
RefusedRestarts(r) ==
  /\ Asks(r)
  /\ rc' = [rc EXCEPT ![r] = 1]
  /\ refused' = [refused EXCEPT ![r] = TRUE]
  /\ copied' = [copied EXCEPT ![r] = 0]
  /\ UNCHANGED <<pc, loopCount, total, buf, shown, since, until, deviceVars>>

\* A positive return code: the chunk is passed over.
Refused(r) ==
  /\ Asks(r)
  /\ rc' = [rc EXCEPT ![r] = 1]
  /\ refused' = [refused EXCEPT ![r] = TRUE]
  /\ Advance(r)
  /\ UNCHANGED <<pc, loopCount, total, buf, shown, since, until, deviceVars>>

\* A negative one ends the command.
Failed(r) ==
  /\ Asks(r)
  /\ Advance(r)
  /\ Return(r, -1, Nothing)
  /\ UNCHANGED <<loopCount, total, since, refused, deviceVars>>

\* What the display functions find in n bytes from the start of the buffer on.
Displayed(r, n) ==
  [k \in 0 .. n - 1 |-> IF k \in DOMAIN buf[r] THEN buf[r][k] ELSE Unset]

Display(r) ==
  /\ pc[r] = "read"
  /\ copied[r] >= total[r]
  /\ Return(r, rc[r], Displayed(r, RecordSize * loopCount[r]))
  /\ UNCHANGED <<loopCount, total, copied, since, refused, deviceVars>>

\* All that is left is to start jobs, and no more may be started.
AllDone ==
  /\ \A r \in Readers : pc[r] = "done"
  /\ UNCHANGED vars

Init ==
  /\ pc = [r \in Readers |-> "idle"]
  /\ loopCount = [r \in Readers |-> 0]
  /\ total = [r \in Readers |-> 0]
  /\ copied = [r \in Readers |-> 0]
  /\ buf = [r \in Readers |-> Nothing]
  /\ rc = [r \in Readers |-> 0]
  /\ shown = [r \in Readers |-> Nothing]
  /\ since = [r \in Readers |-> 0]
  /\ until = [r \in Readers |-> 0]
  /\ refused = [r \in Readers |-> FALSE]
  /\ job = 0
  /\ busy = FALSE
  /\ loops = 0

Step(r) ==
  \/ StatusFails(r) \/ JobRuns(r) \/ NoRoom(r) \/ Room(r)
  \/ Received(r) \/ Refused(r) \/ Failed(r) \/ Display(r)

Next ==
  \/ \E r \in Readers : Step(r)
  \/ StatsRun
  \/ JobEnds
  \/ AllDone

\* A reader that runs keeps running: it waits for nothing.
Spec == Init /\ [][Next]_vars /\ \A r \in Readers : WF_vars(Step(r))

-----------------------------------------------------------------------------
(* What a get must guarantee.                                                 *)

\* The size of the records is an int.
Fits(n) == RecordSize * n <= IntMax

InBuffer(r) ==
  pc[r] = "read" => copied[r] <= total[r] /\ DOMAIN buf[r] = 0 .. total[r] - 1

\* The chunks fill the buffer and never run past it, although the last one is
\* shorter and the size may have wrapped.
StaysInBuffer == \A r \in Readers : InBuffer(r)

InPlace(r) ==
  ~ refused[r] /\ Fits(loopCount[r])
    => \A k \in DOMAIN shown[r] : shown[r][k].job > 0 /\ shown[r][k].off = k

\* Every byte displayed was received for its place in the records, unless a
\* chunk was refused or the size of the records is no int.
ShownInPlace == \A r \in Readers : InPlace(r)

OneJob(r) ==
  since[r] = until[r]
    => \A k \in DOMAIN shown[r] :
         shown[r][k] # Unset => shown[r][k].job = since[r] /\ shown[r][k].final

\* What is displayed is of one job, the one the status was about, and read
\* after it was over, unless another process started a job meanwhile.
ShownIsOneJob == \A r \in Readers : OneJob(r)

NeverOlder(r) ==
  \A j, k \in DOMAIN shown[r] :
    (j <= k /\ shown[r][j] # Unset /\ shown[r][k] # Unset)
      => since[r] <= shown[r][j].job /\ shown[r][j].job <= shown[r][k].job

\* Even then the records are never older than the status, and never go back in
\* time from one chunk to the next.
ShownNeverOlder == \A r \in Readers : NeverOlder(r)

\* A get ends, whatever is refused and whoever starts jobs.
GetsEnd == \A r \in Readers : <>(pc[r] = "done")

\* Why it ends: a step of a reader ends its get, starts the loop, or moves on
\* towards a total that stays what it is; nobody else moves it at all.
GetAdvances ==
  [][\A r \in Readers :
       \/ pc[r] # "done" /\ pc'[r] = "done"
       \/ pc[r] = "idle" /\ pc'[r] = "read"
       \/ /\ UNCHANGED <<pc[r], total[r]>>
          /\ \/ pc[r] = "read" /\ copied'[r] \in copied[r] + 1 .. total[r]
             \/ copied'[r] = copied[r] /\ ~ Step(r)]_vars

-----------------------------------------------------------------------------
(* What makes these inductive.                                                *)

\* Before a job there are no records.
JobsMakeLoops == job = 0 => loops = 0
EmptyBeforeJobs(r) == pc[r] = "read" /\ since[r] = 0 => total[r] = 0

Fresh(r) ==
  /\ pc[r] = "idle" => copied[r] = 0 /\ ~ refused[r]
  /\ pc[r] # "read" => buf[r] = Nothing
  /\ pc[r] # "done" => shown[r] = Nothing

\* The job the status was about stays over until the next one starts.
StatusHolds(r) ==
  /\ since[r] <= job
  /\ pc[r] = "read" /\ since[r] = job => ~ busy

Sized(r) == pc[r] = "read" => total[r] = AsInt(RecordSize * loopCount[r])

FilledInPlace(r) ==
  \A k \in DOMAIN buf[r] :
    k < copied[r] => refused[r] \/ (buf[r][k].job > 0 /\ buf[r][k].off = k)

\* Each byte received is of the status's job, over, or of a later one.
FilledSince(r) ==
  \A k \in DOMAIN buf[r] :
    \/ buf[r][k] = Unset
    \/ /\ k < copied[r]
       /\ buf[r][k].job \in since[r] .. job
       /\ buf[r][k].job = since[r] => buf[r][k].final

FilledInOrder(r) ==
  \A j, k \in DOMAIN buf[r] :
    (j <= k /\ buf[r][j] # Unset /\ buf[r][k] # Unset)
      => buf[r][j].job <= buf[r][k].job

ReaderInv(r) ==
  /\ EmptyBeforeJobs(r)
  /\ Fresh(r)
  /\ StatusHolds(r)
  /\ Sized(r)
  /\ InBuffer(r)
  /\ FilledInPlace(r)
  /\ FilledSince(r)
  /\ FilledInOrder(r)
  /\ InPlace(r)
  /\ OneJob(r)
  /\ NeverOlder(r)

DdrInv ==
  /\ TypeOK
  /\ JobsMakeLoops
  /\ \A r \in Readers : ReaderInv(r)

\* cmd_action counts a get that returns 0 among the "actions succeeded": such
\* a get has displayed nothing but what the device sent.
SuccessShowsReceived ==
  \A r \in Readers :
    (pc[r] = "done" /\ rc[r] = 0 /\ Fits(loopCount[r]))
      => \A k \in DOMAIN shown[r] : shown[r][k] # Unset
=============================================================================
