------------------------------ MODULE FwUpdate ------------------------------
(* Firmware update: the driver cxl_cmd_update_device_fw (cxl/src/cxl_cmd.c),  *)
(* one instance of it per process of the command-line tool, and the firmware  *)
(* engine of one CXL memory device that all of them talk to.                  *)
(*                                                                            *)
(* The driver sends an image block by block with the Transfer FW command      *)
(* (INITIATE, CONTINUE, ..., END), polls the hidden background status after   *)
(* each block, repeats what fails a bounded number of times, and sends ABORT  *)
(* when it gives up.  The engine is outside the repository: it is modelled    *)
(* from the answers the driver is written for (TRANSFER_FW_ERRORS) and from   *)
(* the CXL rule that a part is accepted in order, or repeated back to back.   *)
(*                                                                            *)
(* A command to the device is one atomic step: the mailbox serialises         *)
(* commands.  Between two commands of a driver anything may happen.           *)
EXTENDS Integers, Sequences, FiniteSets

CONSTANTS
  Procs,       \* processes of the tool that update this device
  Images,      \* firmware files
  FileSize,    \* FileSize[f]: bytes of file f
  BlockSize,   \* FW_BLOCK_SIZE, 128 in the code
  MaxRetries,  \* max_retries, 10 in the code
  MaxRuns,     \* bound: how often each process is started
  Faults       \* what may go wrong, a subset of AllFaults

AllFaults ==
  { "refuse",      \* the device answers an error to a command it could take
    "lostReq",     \* the command never reaches the device
    "lostRsp",     \* the device takes it, the answer is lost
    "background",  \* the device finishes the command in the background
    "boFail",      \* a background operation fails
    "drop",        \* the device drops an open transfer (reset, timeout)
    "nofile",      \* the file cannot be opened, measured, loaded or read
    "nomem",       \* calloc of a request fails
    "kill" }       \* the process is killed

ASSUME ConstantsAssumption ==
  /\ FileSize \in [Images -> Nat]
  /\ BlockSize \in Nat \ {0}
  /\ MaxRetries \in Nat
  /\ MaxRuns \in Nat
  /\ Faults \subseteq AllFaults

-----------------------------------------------------------------------------
VARIABLES
  \* one driver per process: its control point and locals
  pc,      \* where it stands
  img,     \* the file being sent
  op,      \* opcode: "std", or a vendor opcode "os" or "hbo"
  mock,    \* --mock
  i,       \* number of the current block
  rc,      \* result of the last call: 0, a device code (1) or negative (-1)
  retry,   \* retry_count
  held,    \* which of rom file+buffer ("rom") and request ("req") it holds
  how,     \* how the last run ended
  runs,    \* runs started so far
  \* the firmware engine of the device
  xfer,    \* "closed", "open", or "ending" while END is checked in background
  parts,   \* parts of the open transfer
  staged,  \* the package last completed by an END
  bo,      \* background operation: "none" or "running"
  failed   \* return code of the last background operation is an error

localVars == <<img, op, mock, i, rc, retry, held, how, runs>>
deviceVars == <<xfer, parts, staged, bo, failed>>
vars == <<pc, localVars, deviceVars>>

Opcodes == {"std", "os", "hbo"}
Working == {"loop", "send", "resend", "poll", "repoll", "abort"}
Ends == {"complete", "aborted", "mocked", "nomem", "nofile", "killed"}
Parts == [img : Images, idx : Nat, len : Nat]

TypeOK ==
  /\ pc \in [Procs -> {"ready", "exited"} \cup Working]
  /\ img \in [Procs -> Images]
  /\ op \in [Procs -> Opcodes]
  /\ mock \in [Procs -> BOOLEAN]
  /\ i \in [Procs -> Nat]
  /\ rc \in [Procs -> {-1, 0, 1}]
  /\ retry \in [Procs -> Nat]
  /\ held \in [Procs -> SUBSET {"rom", "req"}]
  /\ how \in [Procs -> Ends \cup {"none"}]
  /\ runs \in [Procs -> 0 .. MaxRuns]
  /\ xfer \in {"closed", "open", "ending"}
  /\ parts \in Seq(Parts)
  /\ staged \in Seq(Parts)
  /\ bo \in {"none", "running"}
  /\ failed \in BOOLEAN

-----------------------------------------------------------------------------
(* How the driver cuts a file into parts.                                     *)

NumBlocks(f) ==
  (FileSize[f] \div BlockSize) + (IF FileSize[f] % BlockSize # 0 THEN 1 ELSE 0)

\* Mutant: the last block is never short.
SizeAlwaysFull(f, k) == BlockSize

\* Bytes of the file in block k; only the last block can be short.
Size(f, k) ==
  IF k = NumBlocks(f) - 1 /\ FileSize[f] % BlockSize # 0
    THEN FileSize[f] % BlockSize
    ELSE BlockSize

\* Bytes that go out with block k.  The vendor command always copies as many
\* bytes as the request header has, which is one whole block.
PayloadLen(f, o, k) == IF o = "std" THEN Size(f, k) ELSE BlockSize

\* Mutant: END one block too late.
ActionWithoutEnd(f, k) ==
  IF k = 0 THEN "initiate"
  ELSE IF k = NumBlocks(f) THEN "end"
  ELSE "continue"

\* Mutant: END one block too early.
ActionEarlyEnd(f, k) ==
  IF k = 0 THEN "initiate"
  ELSE IF k >= NumBlocks(f) - 2 THEN "end"
  ELSE "continue"

ActionOf(f, k) ==
  IF k = 0 THEN "initiate"
  ELSE IF k = NumBlocks(f) - 1 THEN "end"
  ELSE "continue"

\* Mutant: offsets one too low.
PartOneLow(p) == [img |-> img[p], idx |-> i[p] - 1,
                  len |-> PayloadLen(img[p], op[p], i[p])]

Part(p) == [img |-> img[p], idx |-> i[p],
            len |-> PayloadLen(img[p], op[p], i[p])]

-----------------------------------------------------------------------------
(* The firmware engine.                                                       *)

\* A transfer opens once; a part comes next in order, or repeats the last one.
Accepts(p) ==
  /\ bo = "none"
  /\ IF ActionOf(img[p], i[p]) = "initiate"
       THEN xfer = "closed" \/ Len(parts) = 1
       ELSE xfer = "open" /\ i[p] \in {Len(parts), Len(parts) - 1}

\* The parts once the device has taken the part p sends: appended, or in
\* place of the part it repeats.
Written(p) == SubSeq(parts, 1, i[p]) \o <<Part(p)>>

TakeNow(p) ==
  /\ IF ActionOf(img[p], i[p]) = "end"
       THEN xfer' = "closed" /\ parts' = <<>> /\ staged' = Written(p)
       ELSE xfer' = "open" /\ parts' = Written(p) /\ UNCHANGED staged
  /\ UNCHANGED <<bo, failed>>

TakeInBackground(p) ==
  /\ "background" \in Faults
  /\ xfer' = IF ActionOf(img[p], i[p]) = "end" THEN "ending" ELSE "open"
  /\ parts' = Written(p)
  /\ bo' = "running"
  /\ failed' = FALSE
  /\ UNCHANGED staged

\* A vendor command reports success when its background operation starts, the
\* standard command reports "Background Command Started".
StartedCode(p) == IF op[p] = "std" THEN 1 ELSE 0

Heard(code) == {code} \cup (IF "lostRsp" \in Faults THEN {-1} ELSE {})

\* No effect on the device: it refuses, or the request is lost.
NoEffect(refused, answer) ==
  /\ \/ answer = 1 /\ (refused \/ "refuse" \in Faults)
     \/ answer = -1 /\ "lostReq" \in Faults
  /\ UNCHANGED deviceVars

TransferFw(p, answer) ==
  \/ NoEffect(~ Accepts(p), answer)
  \/ Accepts(p) /\ TakeNow(p) /\ answer \in Heard(0)
  \/ Accepts(p) /\ TakeInBackground(p) /\ answer \in Heard(StartedCode(p))

\* ABORT_TRANSFER: refused while a background operation runs; with nothing to
\* abort the device may answer either way.
AbortTaken(answer) ==
  /\ bo = "none"
  /\ xfer' = "closed"
  /\ parts' = <<>>
  /\ answer \in Heard(0)
  /\ UNCHANGED <<staged, bo, failed>>

AbortTransfer(answer) ==
  NoEffect(bo = "running" \/ xfer = "closed", answer) \/ AbortTaken(answer)

\* get_hbo_status: 1 while the operation runs; its return code is decoded but
\* no caller looks at it.
HboStatus(answer) ==
  /\ answer \in Heard(IF bo = "running" THEN 1 ELSE 0)
       \cup (IF "refuse" \in Faults THEN {1} ELSE {})
       \cup (IF "lostReq" \in Faults THEN {-1} ELSE {})
  /\ UNCHANGED deviceVars

BackgroundDone ==
  /\ bo = "running"
  /\ bo' = "none"
  /\ IF xfer = "ending"
       THEN xfer' = "closed" /\ parts' = <<>> /\ staged' = parts
       ELSE UNCHANGED <<xfer, parts, staged>>
  /\ UNCHANGED <<pc, localVars, failed>>

\* The part whose operation failed is not in the package; a failed END closes
\* the transfer.
BackgroundFails ==
  /\ "boFail" \in Faults
  /\ bo = "running"
  /\ bo' = "none"
  /\ failed' = TRUE
  /\ IF xfer = "ending" \/ Len(parts) = 1
       THEN xfer' = "closed" /\ parts' = <<>>
       ELSE parts' = SubSeq(parts, 1, Len(parts) - 1) /\ UNCHANGED xfer
  /\ UNCHANGED <<pc, localVars, staged>>

DropTransfer ==
  /\ "drop" \in Faults
  /\ xfer = "open"
  /\ bo = "none"
  /\ xfer' = "closed"
  /\ parts' = <<>>
  /\ UNCHANGED <<pc, localVars, staged, bo, failed>>

-----------------------------------------------------------------------------
(* The driver.  Every way out of it releases what it holds and ends the       *)
(* process's run.                                                             *)

Exit(p, end, answer) ==
  /\ pc' = [pc EXCEPT ![p] = "exited"]
  /\ how' = [how EXCEPT ![p] = end]
  /\ rc' = [rc EXCEPT ![p] = answer]
  /\ held' = [held EXCEPT ![p] = {}]

\* A run starts: a file, an opcode and --mock are chosen by its command line.
Begin(p) ==
  /\ pc[p] \in {"ready", "exited"}
  /\ runs[p] < MaxRuns
  /\ runs' = [runs EXCEPT ![p] = @ + 1]
  /\ img' \in {[img EXCEPT ![p] = f] : f \in Images}
  /\ op' \in {[op EXCEPT ![p] = o] : o \in Opcodes}
  /\ mock' \in {[mock EXCEPT ![p] = m] : m \in BOOLEAN}
  /\ i' = [i EXCEPT ![p] = 0]
  /\ retry' = [retry EXCEPT ![p] = 0]
  /\ UNCHANGED deviceVars

\* The file is opened, measured, loaded and read.
Start(p) ==
  /\ Begin(p)
  /\ pc' = [pc EXCEPT ![p] = "loop"]
  /\ how' = [how EXCEPT ![p] = "none"]
  /\ rc' = [rc EXCEPT ![p] = 0]
  /\ held' = [held EXCEPT ![p] = {"rom"}]

\* One of these steps fails.
StartFails(p) ==
  /\ "nofile" \in Faults
  /\ Begin(p)
  /\ Exit(p, "nofile", -1)

\* Top of the block loop: the request of the next block is allocated.
NextBlock(p) ==
  /\ pc[p] = "loop"
  /\ i[p] < NumBlocks(img[p])
  /\ pc' = [pc EXCEPT ![p] = "send"]
  /\ held' = [held EXCEPT ![p] = @ \cup {"req"}]
  /\ UNCHANGED <<img, op, mock, i, rc, retry, how, runs, deviceVars>>

\* That fails: the driver leaves without an ABORT.
NoRequest(p) ==
  /\ "nomem" \in Faults
  /\ pc[p] = "loop"
  /\ i[p] < NumBlocks(img[p])
  /\ Exit(p, "nomem", -1)
  /\ UNCHANGED <<img, op, mock, i, retry, runs, deviceVars>>

LoopDone(p) ==
  /\ pc[p] = "loop"
  /\ i[p] >= NumBlocks(img[p])
  /\ Exit(p, "complete", rc[p])
  /\ UNCHANGED <<img, op, mock, i, retry, runs, deviceVars>>

\* Mutant: the result of a Transfer FW call is not looked at.
AfterTransferUnchecked(p, answer, count) ==
  /\ rc' = [rc EXCEPT ![p] = answer]
  /\ retry' = [retry EXCEPT ![p] = count]
  /\ pc' = [pc EXCEPT ![p] = "poll"]
  /\ UNCHANGED <<img, op, mock, i, held, how, runs>>

\* Where the driver goes after one call of the Transfer FW loop.
AfterTransfer(p, answer, count) ==
  /\ rc' = [rc EXCEPT ![p] = answer]
  /\ retry' = [retry EXCEPT ![p] = count]
  /\ pc' = [pc EXCEPT ![p] = IF answer = 0 THEN "poll" ELSE "resend"]
  /\ UNCHANGED <<img, op, mock, i, held, how, runs>>

Send(p) ==
  /\ pc[p] = "send"
  /\ \E answer \in {-1, 0, 1} :
       TransferFw(p, answer) /\ AfterTransfer(p, answer, 0)

\* Mutant: a wrong limit on the retries.
ResendTooOften(p) ==
  /\ pc[p] = "resend"
  /\ retry[p] <= MaxRetries + 3
  /\ \E answer \in {-1, 0, 1} :
       TransferFw(p, answer) /\ AfterTransfer(p, answer, retry[p] + 1)

\* Mutant: the retries are not counted.
ResendUncounted(p) ==
  /\ pc[p] = "resend"
  /\ retry[p] <= MaxRetries
  /\ \E answer \in {-1, 0, 1} :
       TransferFw(p, answer) /\ AfterTransfer(p, answer, retry[p])

Resend(p) ==
  /\ pc[p] = "resend"
  /\ retry[p] <= MaxRetries
  /\ \E answer \in {-1, 0, 1} :
       TransferFw(p, answer) /\ AfterTransfer(p, answer, retry[p] + 1)

\* After a status call the driver polls on, ...
PollOn(p) ==
  /\ pc' = [pc EXCEPT ![p] = "repoll"]
  /\ UNCHANGED <<i, held, how>>

\* ... or, in a mock run, aborts after the first block, ...
MockOver(p) ==
  /\ mock[p]
  /\ pc' = [pc EXCEPT ![p] = "abort"]
  /\ how' = [how EXCEPT ![p] = "mocked"]
  /\ UNCHANGED <<i, held>>

\* Mutant: the request of a block is not freed.
BlockOverLeaks(p) ==
  /\ ~ mock[p]
  /\ pc' = [pc EXCEPT ![p] = "loop"]
  /\ i' = [i EXCEPT ![p] = @ + 1]
  /\ UNCHANGED <<held, how>>

\* Mutant: --mock is ignored.
BlockOverInMock(p) ==
  /\ pc' = [pc EXCEPT ![p] = "loop"]
  /\ i' = [i EXCEPT ![p] = @ + 1]
  /\ held' = [held EXCEPT ![p] = @ \ {"req"}]
  /\ UNCHANGED how

\* ... or frees the request and goes on to the next block.
BlockOver(p) ==
  /\ ~ mock[p]
  /\ pc' = [pc EXCEPT ![p] = "loop"]
  /\ i' = [i EXCEPT ![p] = @ + 1]
  /\ held' = [held EXCEPT ![p] = @ \ {"req"}]
  /\ UNCHANGED how

AfterStatus(p, answer, count) ==
  /\ rc' = [rc EXCEPT ![p] = answer]
  /\ retry' = [retry EXCEPT ![p] = count]
  /\ IF answer # 0 THEN PollOn(p) ELSE MockOver(p) \/ BlockOver(p)
  /\ UNCHANGED <<img, op, mock, runs>>

Poll(p) ==
  /\ pc[p] = "poll"
  /\ \E answer \in {-1, 0, 1} :
       HboStatus(answer) /\ AfterStatus(p, answer, 0)

Repoll(p) ==
  /\ pc[p] = "repoll"
  /\ retry[p] <= MaxRetries
  /\ \E answer \in {-1, 0, 1} :
       HboStatus(answer) /\ AfterStatus(p, answer, retry[p] + 1)

GiveUp(p) ==
  /\ pc[p] \in {"resend", "repoll"}
  /\ retry[p] > MaxRetries
  /\ pc' = [pc EXCEPT ![p] = "abort"]
  /\ how' = [how EXCEPT ![p] = "aborted"]
  /\ UNCHANGED <<img, op, mock, i, rc, retry, held, runs, deviceVars>>

\* The ABORT is sent once; its answer becomes the result of the whole run.
Abort(p) ==
  /\ pc[p] = "abort"
  /\ \E answer \in {-1, 0, 1} :
       AbortTransfer(answer) /\ Exit(p, how[p], answer)
  /\ UNCHANGED <<img, op, mock, i, retry, runs>>

Kill(p) ==
  /\ "kill" \in Faults
  /\ pc[p] \in Working
  /\ Exit(p, "killed", rc[p])
  /\ UNCHANGED <<img, op, mock, i, retry, runs, deviceVars>>

\* Every process has used up its runs: nothing is left to start.
AllRunsOver ==
  /\ \A p \in Procs : pc[p] = "exited" /\ runs[p] = MaxRuns
  /\ UNCHANGED vars

-----------------------------------------------------------------------------
Init ==
  /\ pc = [p \in Procs |-> "ready"]
  /\ img \in [Procs -> Images]
  /\ op = [p \in Procs |-> "std"]
  /\ mock = [p \in Procs |-> FALSE]
  /\ i = [p \in Procs |-> 0]
  /\ rc = [p \in Procs |-> 0]
  /\ retry = [p \in Procs |-> 0]
  /\ held = [p \in Procs |-> {}]
  /\ how = [p \in Procs |-> "none"]
  /\ runs = [p \in Procs |-> 0]
  /\ xfer = "closed"
  /\ parts = <<>>
  /\ staged = <<>>
  /\ bo = "none"
  /\ failed = FALSE

Step(p) ==
  \/ NextBlock(p) \/ NoRequest(p) \/ LoopDone(p)
  \/ Send(p) \/ Resend(p) \/ Poll(p) \/ Repoll(p)
  \/ GiveUp(p) \/ Abort(p)

DeviceStep == BackgroundDone \/ BackgroundFails \/ DropTransfer

Next ==
  \/ \E p \in Procs : Start(p) \/ StartFails(p) \/ Step(p) \/ Kill(p)
  \/ DeviceStep
  \/ AllRunsOver

\* Sleeps are finite and the mailbox call of the kernel returns: a driver that
\* runs keeps running.  Nothing is assumed of the device, of who starts a run
\* or of what goes wrong.
Fairness == \A p \in Procs : WF_vars(Step(p))

Spec == Init /\ [][Next]_vars /\ Fairness

-----------------------------------------------------------------------------
(* What the update must guarantee.                                            *)

\* The package of file f: its blocks in order, each with the bytes from
\* (k-1)*BlockSize up to the next block or the end of the file.  (A vendor
\* opcode pads the last one to a whole block.)
Least(a, b) == IF a < b THEN a ELSE b

Package(f, o) ==
  [k \in 1 .. NumBlocks(f) |->
     [img |-> f, idx |-> k - 1,
      len |-> IF o = "std" THEN Least(BlockSize, FileSize[f] - (k - 1) * BlockSize)
              ELSE BlockSize]]

Uses(p) == IF pc[p] \in {"send", "resend", "poll", "repoll", "abort"}
             THEN {"rom", "req"}
             ELSE IF pc[p] = "loop" THEN {"rom"} ELSE {}

\* The image buffer, the file and the request block are there whenever the
\* driver uses them (ABORT reuses the request of the block that failed), and
\* whatever path leads out, nothing stays allocated or open.
HoldsWhatItUses == \A p \in Procs : held[p] = Uses(p)

\* A block is sent, and its status asked for, at most MaxRetries + 2 times:
\* once, and again as long as retry_count <= max_retries.
RetriesBounded == \A p \in Procs : retry[p] <= MaxRetries + 1

\* The run of p ended with the device's word that the transfer is over: the
\* END of an image of several blocks, or an ABORT, was accepted.
ClosedByRun(p) ==
  /\ pc[p] = "exited"
  /\ \/ how[p] = "complete" /\ NumBlocks(img[p]) >= 2
     \/ how[p] \in {"aborted", "mocked"} /\ rc[p] = 0

\* No transfer is left open behind the tool's back: once the last run of every
\* process ended with an accepted END or ABORT, no transfer is open on the
\* device, whichever way the runs interleaved.  (Runs that were killed, that
\* had no memory, or that sent a one-block image, which gets no END, may.)
NoOrphanTransfer ==
  (\A p \in Procs : pc[p] = "ready" \/ ClosedByRun(p)) => xfer # "open"

\* A staged package is one file, whole and in order, never a mixture of two
\* files or of two runs (with one updater at a time).
StagedIsWhole ==
  staged = <<>> \/ \E f \in Images, o \in Opcodes : staged = Package(f, o)

\* A run that sent every block and got no error has put its file on the device
\* -- unless the device failed its last background operation, whose return
\* code the driver never reads, or the image has one block or none and so was
\* never sent with an END.
CompleteMeansStaged ==
  \A p \in Procs :
    (pc[p] = "exited" /\ how[p] = "complete" /\ NumBlocks(img[p]) >= 2)
      => staged = Package(img[p], op[p]) \/ failed

\* A run never hangs: bounded retries and finite sleeps lead out of every
\* loop, whatever the device answers and whoever else uses it.
RunsEnd == \A p \in Procs : (pc[p] \in Working) ~> (pc[p] = "exited")

\* Steps that p's run can still take, at most: a block costs the allocation of
\* its request, one Transfer FW and its repetitions, one status call and its
\* repetitions; the way out costs two more, to give up and to abort.
BlockSteps == 2 * MaxRetries + 5
StepsLater(p) == BlockSteps * (NumBlocks(img[p]) - i[p] - 1) + 2

StepsLeft(p) ==
  CASE pc[p] = "loop" -> BlockSteps * (NumBlocks(img[p]) - i[p]) + 2
    [] pc[p] = "send" -> StepsLater(p) + 2 * MaxRetries + 4
    [] pc[p] = "resend" -> StepsLater(p) + 2 * MaxRetries + 3 - retry[p]
    [] pc[p] = "poll" -> StepsLater(p) + MaxRetries + 2
    [] pc[p] = "repoll" -> StepsLater(p) + MaxRetries + 1 - retry[p]
    [] pc[p] = "abort" -> 1
    [] OTHER -> 0

\* Why a run never hangs: each step of a driver brings the end of its run
\* nearer, whatever the device answers, and no step of another process, of the
\* device or of its failures ever moves it away.
RunShortens ==
  [][\A p \in Procs : pc[p] \in Working =>
       \/ StepsLeft(p)' \in 0 .. StepsLeft(p) - 1
       \/ StepsLeft(p)' = StepsLeft(p) /\ ~ Step(p)]_vars

\* Each part is the one that some file has at its place.
InPlace(package) ==
  \A k \in DOMAIN package : \E f \in Images, o \in Opcodes :
    k \in DOMAIN Package(f, o) /\ package[k] = Package(f, o)[k]

\* It has as many parts as some file, and the last part of that file.
EndsAsFile(package) ==
  \E f \in Images, o \in Opcodes :
    /\ NumBlocks(f) > 0 /\ Len(package) = NumBlocks(f)
    /\ package[NumBlocks(f)] = Package(f, o)[NumBlocks(f)]

\* Updaters that interleave may mix their files, for nothing locks the device;
\* even so no part of a staged package is shifted, missing, cut short or out of
\* order, and the package stops where the file that ended it stops.
StagedInPlace == InPlace(staged) /\ (staged # <<>> => EndsAsFile(staged))

\* A run of a real update starts on a device without an open transfer.
Fresh(p) ==
  /\ pc[p] = "loop" /\ i[p] = 0 /\ ~ mock[p] /\ NumBlocks(img[p]) >= 2
  /\ xfer = "closed" /\ bo = "none"

Delivered(p) ==
  pc[p] = "exited" /\ how[p] = "complete" /\ staged = Package(img[p], op[p])

Killed(p) == pc[p] = "exited" /\ how[p] = "killed"

\* If its device and memory do not fail, it puts its file there, unless it is
\* killed: whatever an earlier run left behind costs one aborted run, never two.
FreshRunDelivers == \A p \in Procs : Fresh(p) ~> (Delivered(p) \/ Killed(p))

\* Blocks of its file that p knows the device to have.
Sent(p) == IF pc[p] = "poll" THEN i[p] + 1 ELSE i[p]

\* The device has exactly these, and p is not repeating anything.
OnCourse(p) ==
  /\ pc[p] \in {"loop", "send", "poll"} /\ ~ mock[p] /\ NumBlocks(img[p]) >= 2
  /\ Sent(p) <= NumBlocks(img[p])
  /\ bo = "none"
  /\ \/ Sent(p) = 0 /\ xfer = "closed"
     \/ Sent(p) \in 1 .. NumBlocks(img[p]) - 1 /\ xfer = "open" /\ Len(parts) = Sent(p)
     \/ Sent(p) = NumBlocks(img[p]) /\ xfer = "closed" /\ staged = Package(img[p], op[p])

\* Why it delivers: a run that starts fresh stays on course, without a single
\* repetition, up to the delivery.
StaysOnCourse ==
  [][\A p \in Procs :
       /\ Fresh(p) => OnCourse(p)
       /\ OnCourse(p) => OnCourse(p)' \/ Delivered(p)' \/ Killed(p)']_vars

\* The dispatcher counts a run that returns 0 as one that succeeded ("count if
\* some actions succeeded"): a real update of several blocks that returns 0 has
\* put its file on the device.
ReturnsZeroMeansStaged ==
  \A p \in Procs :
    (pc[p] = "exited" /\ rc[p] = 0 /\ ~ mock[p] /\ how[p] # "killed"
      /\ NumBlocks(img[p]) >= 2)
      => staged = Package(img[p], op[p])

-----------------------------------------------------------------------------
(* The update as an installation: for files of at least two blocks, one       *)
(* updater at a time and background operations that do not fail, the driver   *)
(* and the engine implement FwInstall.                                        *)

InRun(p) == pc[p] \in Working

Packages == {Package(f, o) : f \in Images, o \in Opcodes}
Wanted == [p \in Procs |-> IF InRun(p) THEN Package(img[p], op[p]) ELSE <<>>]
Dry == [p \in Procs |-> InRun(p) /\ mock[p]]
Report == [p \in Procs |->
  IF InRun(p) \/ how[p] = "none" THEN "none"
  ELSE IF how[p] = "complete" THEN "success" ELSE "failure"]
Late == IF xfer = "ending" THEN parts ELSE <<>>

Installation == INSTANCE FwInstall WITH
  Nothing <- <<>>, want <- Wanted, dry <- Dry, outcome <- Report,
  late <- Late, slot <- staged

\* The blocks, retries, losses and restarts of an update amount to an atomic
\* installation with an honest report.
ImplementsInstallation == Installation!Safety

-----------------------------------------------------------------------------
(* What makes the safety properties inductive.                                *)

AtBlock(p) == pc[p] \in {"send", "resend", "poll", "repoll", "abort"}

BlockInRange == \A p \in Procs : AtBlock(p) => i[p] < NumBlocks(img[p])

LoopInRange == \A p \in Procs : pc[p] = "loop" => i[p] <= NumBlocks(img[p])

\* A driver that is about to abort gave up or is a mock run.
AbortsKnowWhy ==
  \A p \in Procs : pc[p] = "abort" => how[p] \in {"aborted", "mocked"}

\* The END of the image of p was accepted in this run, and p knows it.
EndAccepted(p) ==
  /\ NumBlocks(img[p]) >= 2
  /\ \/ pc[p] \in {"poll", "repoll"} /\ i[p] = NumBlocks(img[p]) - 1
     \/ pc[p] = "loop" /\ i[p] >= NumBlocks(img[p])

\* Who may still have to close a transfer, or has left one behind.
Owner(p) == pc[p] # "ready" /\ ~ EndAccepted(p) /\ ~ ClosedByRun(p)

OpenHasOwner == xfer = "open" => \E p \in Procs : Owner(p)

\* What the device has of a transfer, however many updaters feed it.
PartsInPlace ==
  /\ InPlace(parts)
  /\ xfer = "ending" => EndsAsFile(parts)
  /\ StagedInPlace

\* For any number of updaters.
SharedInv ==
  /\ TypeOK
  /\ HoldsWhatItUses
  /\ RetriesBounded
  /\ BlockInRange
  /\ LoopInRange
  /\ AbortsKnowWhy
  /\ OpenHasOwner
  /\ PartsInPlace

\* The open transfer is the beginning of the package of f.
Begins(f, o) ==
  /\ Len(parts) <= NumBlocks(f)
  /\ \A k \in 1 .. Len(parts) : parts[k] = Package(f, o)[k]

TransferShape ==
  /\ xfer = "closed" => parts = <<>>
  /\ xfer # "closed" => Len(parts) > 0
  /\ xfer = "ending" => bo = "running"
  /\ bo = "running" => xfer # "closed"

\* From the accepted INITIATE of a run on, the device has only parts of it.
PartsOfRun ==
  \A p \in Procs :
    (/\ pc[p] \in Working
     /\ i[p] > 0 \/ pc[p] \in {"poll", "repoll"})
      => Begins(img[p], op[p])

EndingIsWhole ==
  xfer = "ending" => \E f \in Images, o \in Opcodes : parts = Package(f, o)

\* Once END is accepted the package is staged, or being checked, or refused.
EndDelivered ==
  \A p \in Procs :
    EndAccepted(p) =>
      \/ staged = Package(img[p], op[p])
      \/ failed
      \/ pc[p] # "loop" /\ xfer = "ending" /\ parts = Package(img[p], op[p])

\* Nothing runs in the background of a run that is complete, or about to be.
QuietOnceDelivered ==
  \A p \in Procs :
    (\/ pc[p] = "loop" /\ EndAccepted(p)
     \/ pc[p] = "exited" /\ how[p] = "complete" /\ NumBlocks(img[p]) >= 2)
      => bo = "none"

\* For a single updater.
SoleInv ==
  /\ SharedInv
  /\ TransferShape
  /\ PartsOfRun
  /\ EndingIsWhole
  /\ EndDelivered
  /\ QuietOnceDelivered
  /\ StagedIsWhole
  /\ CompleteMeansStaged

=============================================================================
