--------------------------- MODULE FwInstallProofs ---------------------------
(* One updater, with files of at least two blocks and background operations   *)
(* that do not fail, implements FwInstall: whatever is lost, refused, dropped *)
(* or killed, packages appear in one piece, never from a dry run, and a run   *)
(* that reports success has its own package on the device.                    *)
EXTENDS FwUpdateProofs

\* A file of one block is never sent with an END.
FilesHaveEnd == \A f \in Images : NumBlocks(f) >= 2

\* A mock run never gets past its first block, and no operation has failed.
InstallInv ==
  /\ SoleInv
  /\ ~ failed
  /\ \A p \in Procs : mock[p] /\ InRun(p) => i[p] = 0

-----------------------------------------------------------------------------
(* The actions of FwInstall, for the only updater, by what the mapping makes  *)
(* of the state before and after.                                             *)

\* With one process a function over the processes has one value to change.
LEMMA SoleUpdate ==
  ASSUME SoleUpdater, NEW p \in Procs
  PROVE  /\ Wanted' = [Wanted EXCEPT ![p] = Wanted'[p]]
         /\ Dry' = [Dry EXCEPT ![p] = Dry'[p]]
         /\ Report' = [Report EXCEPT ![p] = Report'[p]]
<1>1. \A q \in Procs : q = p
  BY DEF SoleUpdater
<1>2. Wanted' = [Wanted EXCEPT ![p] = Wanted'[p]]
  BY <1>1 DEF Wanted
<1>3. Dry' = [Dry EXCEPT ![p] = Dry'[p]]
  BY <1>1, Zenon DEF Dry
<1>4. Report' = [Report EXCEPT ![p] = Report'[p]]
  BY <1>1 DEF Report
<1> QED
  BY <1>2, <1>3, <1>4

LEMMA Values ==
  ASSUME NEW p \in Procs
  PROVE  /\ Wanted[p] = IF InRun(p) THEN Package(img[p], op[p]) ELSE <<>>
         /\ Dry[p] = (InRun(p) /\ mock[p])
         /\ Report[p] = IF InRun(p) \/ how[p] = "none" THEN "none"
                        ELSE IF how[p] = "complete" THEN "success" ELSE "failure"
<1>1. Dry[p] = (InRun(p) /\ mock[p])
  BY Zenon DEF Dry
<1> QED
  BY <1>1 DEF Wanted, Report

LEMMA StutterStep ==
  ASSUME SoleUpdater, NEW p \in Procs, UNCHANGED <<Late, staged>>,
         Wanted'[p] = Wanted[p], Dry'[p] = Dry[p], Report'[p] = Report[p]
  PROVE  UNCHANGED Installation!vars
<1>1. \A q \in Procs : q = p
  BY DEF SoleUpdater
<1>2. Wanted' = Wanted
  BY <1>1 DEF Wanted
<1>3. Dry' = Dry
  BY <1>1, Zenon DEF Dry
<1>4. Report' = Report
  BY <1>1 DEF Report
<1> QED
  BY <1>2, <1>3, <1>4 DEF Installation!vars

LEMMA BeginStep ==
  ASSUME SoleUpdater, NEW p \in Procs, UNCHANGED <<Late, staged>>,
         Wanted[p] = <<>>, Wanted'[p] \in Packages, Dry'[p] \in BOOLEAN,
         Report'[p] = "none"
  PROVE  Installation!Next
<1>1. Installation!Begin(p)
  BY SoleUpdate DEF Installation!Begin
<1> QED
  BY <1>1 DEF Installation!Next

LEMMA RejectStep ==
  ASSUME SoleUpdater, NEW p \in Procs, UNCHANGED <<Late, staged>>,
         Wanted[p] = <<>>, Wanted'[p] = <<>>, Dry'[p] = Dry[p],
         Report'[p] = "failure"
  PROVE  Installation!Next
<1>1. \A q \in Procs : q = p
  BY DEF SoleUpdater
<1>2. Wanted' = Wanted
  BY <1>1 DEF Wanted
<1>3. Dry' = Dry
  BY <1>1, Zenon DEF Dry
<1>4. Installation!Reject(p)
  BY <1>2, <1>3, SoleUpdate DEF Installation!Reject
<1> QED
  BY <1>4 DEF Installation!Next

LEMMA FailStep ==
  ASSUME SoleUpdater, NEW p \in Procs, UNCHANGED <<Late, staged>>,
         Wanted[p] # <<>>, Wanted'[p] = <<>>, Dry'[p] = FALSE,
         Report'[p] = "failure"
  PROVE  Installation!Next
<1>1. Installation!Fail(p)
  BY SoleUpdate DEF Installation!Fail
<1> QED
  BY <1>1 DEF Installation!Next

LEMMA SucceedStep ==
  ASSUME SoleUpdater, NEW p \in Procs, UNCHANGED <<Late, staged>>,
         Wanted[p] # <<>>, staged = Wanted[p], Dry[p] = FALSE,
         Wanted'[p] = <<>>, Dry'[p] = FALSE, Report'[p] = "success"
  PROVE  Installation!Next
<1>1. Installation!Succeed(p)
  BY SoleUpdate DEF Installation!Succeed
<1> QED
  BY <1>1 DEF Installation!Next

\* The package of the run is on the device at once, or accepted for later.
LEMMA DeliverStep ==
  ASSUME SoleUpdater, NEW p \in Procs, Wanted[p] # <<>>, Dry[p] = FALSE,
         Wanted'[p] = Wanted[p], Dry'[p] = Dry[p], Report'[p] = Report[p],
         Late = <<>>,
         \/ staged' = Wanted[p] /\ Late' = <<>>
         \/ staged' = staged /\ Late' = Wanted[p]
  PROVE  Installation!Next
<1>1. \A q \in Procs : q = p
  BY DEF SoleUpdater
<1>2. Wanted' = Wanted
  BY <1>1 DEF Wanted
<1>3. Dry' = Dry
  BY <1>1, Zenon DEF Dry
<1>4. Report' = Report
  BY <1>1 DEF Report
<1>5. Installation!Install(p) \/ Installation!Accept(p)
  BY <1>2, <1>3, <1>4
     DEF Installation!Install, Installation!Accept, Installation!MayInstall
<1> QED
  BY <1>5 DEF Installation!Next

-----------------------------------------------------------------------------
(* InstallInv is inductive.                                                   *)

LEMMA InitInstallInv == Init => InstallInv
<1> SUFFICES ASSUME Init PROVE InstallInv
  OBVIOUS
<1>1. SoleInv
  BY InitSoleInv
<1>2. ~ failed /\ \A p \in Procs : ~ InRun(p)
  BY DEF Init, InRun, Working
<1> QED
  BY <1>1, <1>2 DEF InstallInv

\* No step but a failing background operation makes the last one a failure.
LEMMA NoFailure ==
  ASSUME ~ failed, [Next]_vars, "boFail" \notin Faults
  PROVE  ~ failed'
<1>1. ASSUME UNCHANGED deviceVars PROVE ~ failed'
  BY <1>1 DEF deviceVars
<1>2. ASSUME NEW p \in Procs, NEW answer, TransferFw(p, answer) PROVE ~ failed'
  BY <1>1, <1>2 DEF TransferFw, NoEffect, TakeNow, TakeInBackground
<1>3. ASSUME NEW answer, AbortTransfer(answer) PROVE ~ failed'
  BY <1>1, <1>3 DEF AbortTransfer, NoEffect, AbortTaken
<1>4. ASSUME NEW p \in Procs, Start(p) \/ StartFails(p) \/ Kill(p) PROVE ~ failed'
  BY <1>1, <1>4 DEF Start, StartFails, Kill, Begin
<1>5. ASSUME NEW p \in Procs, Step(p) PROVE ~ failed'
  <2>1. CASE Send(p) \/ Resend(p)
    BY <1>2, <2>1 DEF Send, Resend
  <2>2. CASE Abort(p)
    BY <1>3, <2>2 DEF Abort
  <2>3. CASE Poll(p) \/ Repoll(p)
    BY <1>1, <2>3 DEF Poll, Repoll, HboStatus
  <2>4. CASE NextBlock(p) \/ NoRequest(p) \/ LoopDone(p) \/ GiveUp(p)
    BY <1>1, <2>4 DEF NextBlock, NoRequest, LoopDone, GiveUp, deviceVars
  <2> QED
    BY <1>5, <2>1, <2>2, <2>3, <2>4 DEF Step
<1>6. ASSUME DeviceStep PROVE ~ failed'
  BY <1>6 DEF DeviceStep, BackgroundDone, BackgroundFails, DropTransfer
<1>7. ASSUME UNCHANGED vars PROVE ~ failed'
  BY <1>7 DEF vars, deviceVars
<1> QED
  BY <1>4, <1>5, <1>6, <1>7 DEF Next, AllRunsOver

\* --mock lets no block but the first begin.
LEMMA MockStays ==
  ASSUME SoleUpdater, TypeOK, [Next]_vars,
         \A p \in Procs : mock[p] /\ InRun(p) => i[p] = 0
  PROVE  \A p \in Procs : (mock[p] /\ InRun(p) => i[p] = 0)'
<1>1. ASSUME UNCHANGED <<mock, i>>,
             NEW p \in Procs, InRun(p) \/ ~ InRun(p)'
      PROVE  (mock[p] /\ InRun(p) => i[p] = 0)'
  BY <1>1 DEF InRun
<1>2. ASSUME NEW p \in Procs, Start(p) \/ StartFails(p)
      PROVE  (mock[p] /\ InRun(p) => i[p] = 0)'
  BY <1>2 DEF Start, StartFails, Begin, TypeOK
<1>3. ASSUME NEW p \in Procs, Kill(p) \/ Step(p)
      PROVE  (mock[p] /\ InRun(p) => i[p] = 0)'
  <2>1. InRun(p)
    BY <1>3 DEF InRun, Working, Kill, Step, NextBlock, NoRequest, LoopDone, Send,
                Resend, Poll, Repoll, GiveUp, Abort
  <2>2. CASE Poll(p) \/ Repoll(p)
    <3>1. CASE BlockOver(p)
      BY <2>2, <3>1, StatusCall DEF BlockOver
    <3>2. CASE PollOn(p) \/ MockOver(p)
      BY <1>1, <2>1, <2>2, <3>2, StatusCall DEF PollOn, MockOver
    <3> QED
      BY <2>2, <3>1, <3>2, StatusCall
  <2>3. CASE ~ (Poll(p) \/ Repoll(p))
    <3>1. UNCHANGED <<mock, i>>
      BY <1>3, <2>3 DEF Kill, Step, NextBlock, NoRequest, LoopDone, Send, Resend,
                        AfterTransfer, GiveUp, Abort
    <3> QED
      BY <1>1, <2>1, <3>1
  <2> QED
    BY <2>2, <2>3
<1>4. ASSUME DeviceStep \/ UNCHANGED vars, NEW p \in Procs
      PROVE  (mock[p] /\ InRun(p) => i[p] = 0)'
  BY <1>1, <1>4 DEF DeviceStep, BackgroundDone, BackgroundFails, DropTransfer,
                    localVars, vars, InRun
<1> QED
  BY <1>2, <1>3, <1>4 DEF SoleUpdater, Next, AllRunsOver

LEMMA NextInstallInv ==
  ASSUME SoleUpdater, "boFail" \notin Faults, InstallInv, [Next]_vars
  PROVE  InstallInv'
<1>1. SoleInv' /\ ~ failed'
  BY NextSoleInv, NoFailure DEF InstallInv
<1>2. \A p \in Procs : (mock[p] /\ InRun(p) => i[p] = 0)'
  BY MockStays DEF InstallInv, SoleInv, SharedInv
<1> QED
  BY <1>1, <1>2 DEF InstallInv

-----------------------------------------------------------------------------
(* Every step of the driver is a step of the installation, or none.           *)

\* A file with an end has a package.
LEMMA PackageIsSome ==
  ASSUME FilesHaveEnd, NEW f \in Images, NEW o \in Opcodes
  PROVE  Package(f, o) # <<>> /\ Package(f, o) \in Packages
<1>1. NumBlocks(f) \in Nat /\ NumBlocks(f) >= 2
  BY BlocksType DEF FilesHaveEnd
<1>2. 1 \in DOMAIN Package(f, o)
  BY <1>1 DEF Package
<1>3. DOMAIN <<>> = {}
  OBVIOUS
<1>4. Package(f, o) # <<>>
  BY <1>2, <1>3
<1> QED
  BY <1>4 DEF Packages

\* What a run in progress looks like.
LEMMA RunningValues ==
  ASSUME FilesHaveEnd, TypeOK, NEW p \in Procs, InRun(p)
  PROVE  /\ Wanted[p] = Package(img[p], op[p])
         /\ Wanted[p] # <<>>
         /\ Dry[p] = mock[p]
         /\ Report[p] = "none"
<1>1. img[p] \in Images /\ op[p] \in Opcodes /\ mock[p] \in BOOLEAN
  BY DEF TypeOK
<1> QED
  BY <1>1, PackageIsSome, Values

\* A step inside a run that does not change what is on the device.
LEMMA InsideRun ==
  ASSUME SoleUpdater, NEW p \in Procs, UNCHANGED <<img, op, mock, Late, staged>>,
         InRun(p), InRun(p)'
  PROVE  UNCHANGED Installation!vars
<1>1. Wanted'[p] = Wanted[p]
  BY DEF Wanted, Package, NumBlocks
<1>2. Dry'[p] = Dry[p]
  BY Zenon DEF Dry
<1>3. Report'[p] = Report[p]
  BY DEF Report
<1> QED
  BY <1>1, <1>2, <1>3, StutterStep

LEMMA SameLate == ASSUME UNCHANGED deviceVars PROVE UNCHANGED <<Late, staged>>
  BY DEF deviceVars, Late

LEMMA StartMaps ==
  ASSUME SoleUpdater, FilesHaveEnd, TypeOK, TypeOK', NEW p \in Procs,
         Start(p) \/ StartFails(p)
  PROVE  Installation!Next
<1>1. ~ InRun(p) /\ UNCHANGED <<Late, staged>>
  BY SameLate DEF Start, StartFails, Begin, InRun, Working
<1>2. Wanted[p] = <<>> /\ Dry[p] = FALSE
  BY <1>1, Zenon DEF Wanted, Dry
<1>3. img'[p] \in Images /\ op'[p] \in Opcodes
  BY DEF TypeOK
<1>4. CASE Start(p)
  <2>1. InRun(p)' /\ how'[p] = "none"
    BY <1>4 DEF Start, InRun, Working, TypeOK
  <2>2. Wanted'[p] = Package(img'[p], op'[p])
    BY <2>1 DEF Wanted, Package, NumBlocks
  <2>3. Dry'[p] \in BOOLEAN
    BY Zenon DEF Dry
  <2>4. Report'[p] = "none"
    BY <2>1 DEF Report
  <2> QED
    BY <1>1, <1>2, <1>3, <2>2, <2>3, <2>4, PackageIsSome, BeginStep
<1>5. CASE StartFails(p)
  <2>1. ~ InRun(p)' /\ how'[p] = "nofile"
    BY <1>5 DEF StartFails, Exit, InRun, Working, TypeOK
  <2>2. Wanted'[p] = <<>> /\ Dry'[p] = FALSE
    BY <2>1, Zenon DEF Wanted, Dry
  <2>3. Report'[p] = "failure"
    BY <2>1 DEF Report
  <2> QED
    BY <1>1, <1>2, <2>2, <2>3, RejectStep
<1> QED
  BY <1>4, <1>5

\* A run that ends without being complete.
LEMMA LeaveMaps ==
  ASSUME SoleUpdater, FilesHaveEnd, TypeOK, NEW p \in Procs, InRun(p),
         pc'[p] = "exited", how'[p] \notin {"none", "complete"},
         UNCHANGED <<Late, staged>>
  PROVE  Installation!Next
<1>1. ~ InRun(p)'
  BY DEF InRun, Working
<1>2. Wanted'[p] = <<>> /\ Dry'[p] = FALSE
  BY <1>1, Zenon DEF Wanted, Dry
<1>3. Report'[p] = "failure"
  BY <1>1 DEF Report
<1> QED
  BY <1>2, <1>3, RunningValues, FailStep

LEMMA FailMaps ==
  ASSUME SoleUpdater, FilesHaveEnd, InstallInv, NEW p \in Procs,
         NoRequest(p) \/ Kill(p) \/ Abort(p)
  PROVE  Installation!Next
<1>0. TypeOK
  BY DEF InstallInv, SoleInv, SharedInv
<1>1. CASE NoRequest(p) \/ Kill(p)
  <2>1. InRun(p) /\ pc'[p] = "exited" /\ how'[p] \notin {"none", "complete"}
    BY <1>0, <1>1 DEF NoRequest, Kill, Exit, InRun, Working, TypeOK
  <2>2. UNCHANGED <<Late, staged>>
    BY <1>1, SameLate DEF NoRequest, Kill
  <2> QED
    BY <1>0, <2>1, <2>2, LeaveMaps
<1>2. CASE Abort(p)
  <2>1. PICK answer \in {-1, 0, 1} : AbortTransfer(answer) /\ Exit(p, how[p], answer)
    BY <1>2 DEF Abort
  <2>2. InRun(p) /\ how[p] \in {"aborted", "mocked"}
    BY <1>2 DEF Abort, InRun, Working, InstallInv, SoleInv, SharedInv, AbortsKnowWhy
  <2>3. pc'[p] = "exited" /\ how'[p] = how[p]
    BY <1>0, <2>1 DEF Exit, TypeOK
  <2>4. UNCHANGED <<Late, staged>>
    <3>1. CASE AbortTaken(answer)
      BY <3>1 DEF AbortTaken, Late, InstallInv, SoleInv, TransferShape
    <3>2. CASE NoEffect(bo = "running" \/ xfer = "closed", answer)
      BY <3>2, SameLate DEF NoEffect
    <3> QED
      BY <2>1, <3>1, <3>2 DEF AbortTransfer
  <2> QED
    BY <1>0, <2>2, <2>3, <2>4, LeaveMaps
<1> QED
  BY <1>1, <1>2

\* A run that is complete has its package on the device, and is no dry run.
LEMMA CompleteMaps ==
  ASSUME SoleUpdater, FilesHaveEnd, InstallInv, NEW p \in Procs, LoopDone(p)
  PROVE  Installation!Next
<1>0. TypeOK
  BY DEF InstallInv, SoleInv, SharedInv
<1>1. /\ InRun(p) /\ pc[p] = "loop" /\ i[p] >= NumBlocks(img[p])
      /\ ~ InRun(p)' /\ how'[p] = "complete"
      /\ UNCHANGED <<Late, staged>>
  BY <1>0, SameLate DEF LoopDone, Exit, InRun, Working, TypeOK
<1>2. /\ img[p] \in Images /\ i[p] \in Nat /\ NumBlocks(img[p]) \in Nat
      /\ NumBlocks(img[p]) >= 2
  BY <1>0, BlocksType DEF TypeOK, Opcodes, FilesHaveEnd
<1>3. staged = Package(img[p], op[p])
  BY <1>1, <1>2 DEF InstallInv, SoleInv, EndDelivered, EndAccepted
<1>4. mock[p] = FALSE
  BY <1>0, <1>1, <1>2 DEF InstallInv, TypeOK
<1>5. Wanted'[p] = <<>> /\ Dry'[p] = FALSE
  BY <1>1, Zenon DEF Wanted, Dry
<1>6. Report'[p] = "success"
  BY <1>1 DEF Report
<1> QED
  BY <1>0, <1>1, <1>3, <1>4, <1>5, <1>6, RunningValues, SucceedStep

\* A part that the device takes is nothing to the installation, but for the
\* last one, which delivers the package.
LEMMA TakenMaps ==
  ASSUME SoleUpdater, FilesHaveEnd, InstallInv, NEW p \in Procs,
         pc[p] \in {"send", "resend"}, Accepts(p),
         TakeNow(p) \/ TakeInBackground(p),
         UNCHANGED <<img, op, mock, i, how>>, InRun(p)'
  PROVE  [Installation!Next]_Installation!vars
<1>0. SoleInv /\ TypeOK /\ InRun(p)
  BY DEF InstallInv, SoleInv, SharedInv, InRun, Working
<1>1. Late = <<>>
  BY DEF Accepts, Late, InstallInv, SoleInv, TransferShape
<1>2. CASE ActionOf(img[p], i[p]) # "end"
  <2>1. staged' = staged /\ xfer' = "open"
    BY <1>2 DEF TakeNow, TakeInBackground
  <2>2. Late' = <<>>
    BY <2>1 DEF Late
  <2> QED
    BY <1>0, <1>1, <2>1, <2>2, InsideRun
<1>3. CASE ActionOf(img[p], i[p]) = "end"
  <2>1. \/ staged' = Package(img[p], op[p]) /\ xfer' = "closed"
        \/ staged' = staged /\ xfer' = "ending" /\ parts' = Package(img[p], op[p])
    <3>1. CASE TakeNow(p)
      <4>1. xfer' = "closed"
        BY <1>3, <3>1 DEF TakeNow
      <4> QED
        BY <1>0, <1>3, <4>1, TakeEffect
    <3>2. CASE TakeInBackground(p)
      <4>1. xfer' = "ending" /\ staged' = staged /\ parts' = Written(p)
        BY <1>3, <3>2 DEF TakeInBackground
      <4>2. i[p] < NumBlocks(img[p]) /\ (i[p] > 0 => Begins(img[p], op[p]))
        BY <1>0 DEF SoleInv, SharedInv, BlockInRange, AtBlock, PartsOfRun, Working
      <4>3. /\ Written(p) \in Seq(Parts)
            /\ Len(Written(p)) = i[p] + 1
            /\ \A k \in 1 .. i[p] + 1 : Written(p)[k] = Package(img[p], op[p])[k]
        BY <1>0, <4>2, WrittenBegins
      <4>4. img[p] \in Images /\ i[p] \in Nat /\ NumBlocks(img[p]) \in Nat
        BY <1>0, BlocksType DEF TypeOK, Opcodes
      <4>5. Len(Written(p)) = NumBlocks(img[p])
        BY <1>3, <4>3, <4>4 DEF ActionOf
      <4> QED
        BY <4>1, <4>3, <4>4, <4>5, AllPartsIsPackage
    <3> QED
      BY <3>1, <3>2
  <2>2. \/ staged' = Package(img[p], op[p]) /\ Late' = <<>>
        \/ staged' = staged /\ Late' = Package(img[p], op[p])
    BY <2>1 DEF Late
  <2>3. mock[p] = FALSE
    <3>1. img[p] \in Images /\ NumBlocks(img[p]) \in Nat /\ NumBlocks(img[p]) >= 2
      BY <1>0, BlocksType DEF TypeOK, Opcodes, FilesHaveEnd
    <3>2. i[p] # 0
      BY <1>3 DEF ActionOf
    <3> QED
      BY <1>0, <3>2 DEF InstallInv, TypeOK
  <2>4. Wanted'[p] = Wanted[p] /\ Report'[p] = Report[p]
    BY <1>0 DEF Wanted, Report, Package, NumBlocks
  <2>5. Dry'[p] = Dry[p]
    BY <1>0, Zenon DEF Dry
  <2> QED
    BY <1>0, <1>1, <2>2, <2>3, <2>4, <2>5, RunningValues, DeliverStep
<1> QED
  BY <1>2, <1>3

LEMMA SendMaps ==
  ASSUME SoleUpdater, FilesHaveEnd, InstallInv, NEW p \in Procs,
         Send(p) \/ Resend(p)
  PROVE  [Installation!Next]_Installation!vars
<1>0. TypeOK
  BY DEF InstallInv, SoleInv, SharedInv
<1>1. pc[p] \in {"send", "resend"}
  BY <1>0, TransferCall
<1>2. PICK answer \in {-1, 0, 1}, count \in 0 .. MaxRetries + 1 :
        TransferFw(p, answer) /\ AfterTransfer(p, answer, count)
  BY <1>0, TransferCall
<1>3. InRun(p) /\ InRun(p)' /\ UNCHANGED <<img, op, mock, i, how>>
  BY <1>0, <1>1, <1>2 DEF AfterTransfer, InRun, Working, TypeOK
<1>4. CASE NoEffect(~ Accepts(p), answer)
  BY <1>3, <1>4, SameLate, InsideRun DEF NoEffect
<1>5. CASE Accepts(p) /\ (TakeNow(p) \/ TakeInBackground(p))
  BY <1>1, <1>3, <1>5, TakenMaps
<1> QED
  BY <1>2, <1>4, <1>5 DEF TransferFw

\* The rest of a run the installation does not see.
LEMMA WithinMaps ==
  ASSUME SoleUpdater, TypeOK, NEW p \in Procs,
         NextBlock(p) \/ Poll(p) \/ Repoll(p) \/ GiveUp(p)
  PROVE  UNCHANGED Installation!vars
<1>1. UNCHANGED <<img, op, mock, Late, staged>>
  BY SameLate, StatusCall DEF NextBlock, GiveUp
<1>2. InRun(p) /\ InRun(p)'
  <2>1. CASE NextBlock(p) \/ GiveUp(p)
    BY <2>1 DEF NextBlock, GiveUp, InRun, Working, TypeOK
  <2>2. CASE Poll(p) \/ Repoll(p)
    <3>1. pc[p] \in {"poll", "repoll"} /\ (PollOn(p) \/ MockOver(p) \/ BlockOver(p))
      BY <2>2, StatusCall
    <3> QED
      BY <3>1 DEF PollOn, MockOver, BlockOver, InRun, Working, TypeOK
  <2> QED
    BY <2>1, <2>2
<1> QED
  BY <1>1, <1>2, InsideRun

-----------------------------------------------------------------------------
(* Steps of the device.                                                       *)

LEMMA DriversSame ==
  ASSUME UNCHANGED <<pc, localVars>>
  PROVE  UNCHANGED <<Wanted, Dry, Report>>
<1>1. UNCHANGED <<pc, img, op, mock, how>>
  BY DEF localVars
<1>2. Wanted' = Wanted
  BY <1>1 DEF Wanted, InRun, Package, NumBlocks
<1>3. Dry' = Dry
  BY <1>1, Zenon DEF Dry, InRun
<1>4. Report' = Report
  BY <1>1 DEF Report, InRun
<1> QED
  BY <1>2, <1>3, <1>4

\* The end of a background END is the late installation.
LEMMA DeviceMaps ==
  ASSUME InstallInv, "boFail" \notin Faults, DeviceStep
  PROVE  [Installation!Next]_Installation!vars
<1>1. UNCHANGED <<pc, localVars>>
  BY DEF DeviceStep, BackgroundDone, BackgroundFails, DropTransfer
<1>2. UNCHANGED <<Wanted, Dry, Report>>
  BY <1>1, DriversSame
<1>3. CASE BackgroundDone /\ xfer = "ending"
  <2>1. Late = parts /\ staged' = parts /\ Late' = <<>>
    BY <1>3 DEF BackgroundDone, Late
  <2>2. parts # <<>>
    <3>1. Len(<<>>) = 0
      OBVIOUS
    <3>2. Len(parts) > 0
      BY <1>3 DEF InstallInv, SoleInv, TransferShape
    <3> QED
      BY <3>1, <3>2
  <2>3. Installation!InstallLate
    BY <1>2, <2>1, <2>2 DEF Installation!InstallLate
  <2> QED
    BY <2>3 DEF Installation!Next
<1>4. CASE BackgroundDone /\ xfer # "ending"
  BY <1>2, <1>4 DEF BackgroundDone, Late, Installation!vars
<1>5. CASE DropTransfer
  BY <1>2, <1>5 DEF DropTransfer, Late, Installation!vars
<1> QED
  BY <1>3, <1>4, <1>5 DEF DeviceStep, BackgroundFails

-----------------------------------------------------------------------------
(* The refinement.                                                            *)

LEMMA InitMaps == Init => Installation!Init
<1> SUFFICES ASSUME Init PROVE Installation!Init
  OBVIOUS
<1>1. \A p \in Procs : ~ InRun(p) /\ how[p] = "none"
  BY DEF Init, InRun, Working
<1>2. Wanted = [p \in Procs |-> <<>>]
  BY <1>1 DEF Wanted
<1>3. Dry = [p \in Procs |-> FALSE]
  BY <1>1, Zenon DEF Dry
<1>4. Report = [p \in Procs |-> "none"]
  BY <1>1 DEF Report
<1>5. Late = <<>> /\ staged = <<>>
  BY DEF Init, Late
<1> QED
  BY <1>2, <1>3, <1>4, <1>5 DEF Installation!Init

LEMMA NextMaps ==
  ASSUME SoleUpdater, FilesHaveEnd, "boFail" \notin Faults, InstallInv, [Next]_vars
  PROVE  [Installation!Next]_Installation!vars
<1>1. TypeOK /\ TypeOK'
  BY NextTypeOK DEF InstallInv, SoleInv, SharedInv
<1>2. ASSUME NEW p \in Procs, Start(p) \/ StartFails(p) \/ Step(p) \/ Kill(p)
      PROVE  [Installation!Next]_Installation!vars
  BY <1>1, <1>2, StartMaps, FailMaps, CompleteMaps, SendMaps, WithinMaps DEF Step
<1>3. CASE UNCHANGED vars
  <2>1. UNCHANGED <<pc, localVars>> /\ UNCHANGED deviceVars
    BY <1>3 DEF vars
  <2>2. UNCHANGED <<Late, staged>>
    BY <2>1, SameLate
  <2> QED
    BY <2>1, <2>2, DriversSame DEF Installation!vars
<1> QED
  BY <1>2, <1>3, DeviceMaps DEF Next, AllRunsOver

\* One process at a time that updates the device with files of at least two
\* blocks, on a device whose background operations do not fail: the driver and
\* the engine, with their blocks, retries, lost answers and restarts, implement
\* an installation in one piece with an honest report.
THEOREM UpdateIsInstallation ==
  ASSUME SoleUpdater, FilesHaveEnd, "boFail" \notin Faults
  PROVE  Spec => ImplementsInstallation
<1>1. InstallInv /\ [Next]_vars => InstallInv'
  BY NextInstallInv
<1>2. InstallInv /\ [Next]_vars => [Installation!Next]_Installation!vars
  BY NextMaps
<1> QED
  BY InitInstallInv, InitMaps, <1>1, <1>2, PTL
     DEF Spec, ImplementsInstallation, Installation!Safety

=============================================================================
