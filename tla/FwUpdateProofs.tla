--------------------------- MODULE FwUpdateProofs ---------------------------
(* Theorems about FwUpdate for every set of processes, every set of files of  *)
(* any size, every block size and retry limit, and every combination of       *)
(* faults.                                                                    *)
EXTENDS FwUpdate, SequenceTheorems, TLAPS

-----------------------------------------------------------------------------
(* Types of the operators.                                                    *)

\* The number of blocks and the bytes of a block are natural numbers.
LEMMA BlocksType ==
  ASSUME NEW f \in Images, NEW o \in Opcodes, NEW k \in Nat
  PROVE  NumBlocks(f) \in Nat /\ Size(f, k) \in Nat /\ PayloadLen(f, o, k) \in Nat
<1>1. FileSize[f] \in Nat /\ BlockSize \in Nat /\ BlockSize > 0
  BY ConstantsAssumption
<1>2. FileSize[f] \div BlockSize \in Nat /\ FileSize[f] % BlockSize \in Nat
  BY <1>1
<1> QED
  BY <1>1, <1>2 DEF NumBlocks, Size, PayloadLen

\* A part that the device takes goes onto the parts it already has.
LEMMA WrittenType ==
  ASSUME TypeOK, NEW p \in Procs, Accepts(p)
  PROVE  /\ i[p] <= Len(parts)
         /\ Part(p) \in Parts
         /\ Written(p) \in Seq(Parts)
         /\ Len(Written(p)) = i[p] + 1
<1>1. i[p] \in Nat /\ img[p] \in Images /\ op[p] \in Opcodes /\ parts \in Seq(Parts)
  BY DEF TypeOK
<1>2. Len(parts) \in Nat
  BY <1>1
<1>3. i[p] <= Len(parts)
  BY <1>1, <1>2 DEF Accepts, ActionOf
<1>4. Part(p) \in Parts
  BY <1>1, BlocksType DEF Part, Parts
<1>5. SubSeq(parts, 1, i[p]) \in Seq(Parts) /\ Len(SubSeq(parts, 1, i[p])) = i[p]
  BY <1>1, <1>2, <1>3, SubSeqProperties
<1>6. <<Part(p)>> \in Seq(Parts) /\ Len(<<Part(p)>>) = 1
  BY <1>4
<1>7. Written(p) \in Seq(Parts) /\ Len(Written(p)) = Len(SubSeq(parts, 1, i[p])) + 1
  BY <1>5, <1>6, ConcatProperties DEF Written
<1> QED
  BY <1>3, <1>4, <1>5, <1>7

-----------------------------------------------------------------------------
(* TypeOK is an inductive invariant.                                          *)

\* The variables of the device keep their types when a driver's Transfer FW
\* command is answered.
LEMMA TransferType ==
  ASSUME TypeOK, NEW p \in Procs, NEW answer, TransferFw(p, answer)
  PROVE  /\ xfer' \in {"closed", "open", "ending"}
         /\ parts' \in Seq(Parts)
         /\ staged' \in Seq(Parts)
         /\ bo' \in {"none", "running"}
         /\ failed' \in BOOLEAN
<1>1. CASE NoEffect(~ Accepts(p), answer)
  BY <1>1 DEF NoEffect, TypeOK, deviceVars
<1>2. CASE Accepts(p) /\ TakeNow(p)
  <2>1. Written(p) \in Seq(Parts) /\ <<>> \in Seq(Parts)
    BY <1>2, WrittenType, EmptySeq
  <2>2. CASE ActionOf(img[p], i[p]) = "end"
    BY <1>2, <2>1, <2>2 DEF TakeNow, TypeOK
  <2>3. CASE ActionOf(img[p], i[p]) # "end"
    BY <1>2, <2>1, <2>3 DEF TakeNow, TypeOK
  <2> QED
    BY <2>2, <2>3
<1>3. CASE Accepts(p) /\ TakeInBackground(p)
  <2>1. Written(p) \in Seq(Parts)
    BY <1>3, WrittenType
  <2> QED
    BY <1>3, <2>1 DEF TakeInBackground, TypeOK
<1> QED
  BY <1>1, <1>2, <1>3 DEF TransferFw

\* So does a start what it chooses.
LEMMA BeginType ==
  ASSUME TypeOK, NEW p \in Procs, Begin(p)
  PROVE  /\ img' \in [Procs -> Images]
         /\ op' \in [Procs -> Opcodes]
         /\ mock' \in [Procs -> BOOLEAN]
         /\ i' \in [Procs -> Nat]
         /\ retry' \in [Procs -> Nat]
         /\ runs' \in [Procs -> 0 .. MaxRuns]
<1>1. img' \in [Procs -> Images]
  <2>1. img \in [Procs -> Images] /\ \E f \in Images : img' = [img EXCEPT ![p] = f]
    BY DEF Begin, TypeOK
  <2> QED
    BY <2>1
<1>2. op' \in [Procs -> Opcodes]
  <2>1. op \in [Procs -> Opcodes] /\ \E o \in Opcodes : op' = [op EXCEPT ![p] = o]
    BY DEF Begin, TypeOK
  <2> QED
    BY <2>1
<1>3. mock' \in [Procs -> BOOLEAN]
  BY Zenon DEF Begin, TypeOK
<1>4. i' \in [Procs -> Nat] /\ retry' \in [Procs -> Nat]
  BY DEF Begin, TypeOK
<1>5. runs' \in [Procs -> 0 .. MaxRuns]
  BY ConstantsAssumption DEF Begin, TypeOK
<1> QED
  BY <1>1, <1>2, <1>3, <1>4, <1>5

\* A start concerns one process, and its first block.
LEMMA BeginMoves ==
  ASSUME TypeOK, NEW p \in Procs, Begin(p)
  PROVE  /\ i'[p] = 0
         /\ \A q \in Procs \ {p} : i'[q] = i[q] /\ img'[q] = img[q]
<1>1. i \in [Procs -> Nat] /\ i' = [i EXCEPT ![p] = 0]
  BY DEF Begin, TypeOK
<1>2. img \in [Procs -> Images] /\ \E f \in Images : img' = [img EXCEPT ![p] = f]
  BY DEF Begin, TypeOK
<1> QED
  BY <1>1, <1>2

\* Leaving the driver keeps the types of what it sets.
LEMMA ExitType ==
  ASSUME TypeOK, NEW p \in Procs, NEW end \in Ends \cup {"none"},
         NEW answer \in {-1, 0, 1}, Exit(p, end, answer)
  PROVE  /\ pc' \in [Procs -> {"ready", "exited"} \cup Working]
         /\ how' \in [Procs -> Ends \cup {"none"}]
         /\ rc' \in [Procs -> {-1, 0, 1}]
         /\ held' \in [Procs -> SUBSET {"rom", "req"}]
  BY DEF Exit, TypeOK

\* So does what follows a status call.
LEMMA StatusType ==
  ASSUME TypeOK, NEW p \in Procs, NEW answer \in {-1, 0, 1}, NEW count \in Nat,
         HboStatus(answer), AfterStatus(p, answer, count)
  PROVE  TypeOK'
<1> USE DEF HboStatus, AfterStatus, TypeOK, deviceVars, Working, Ends
<1>1. CASE answer # 0
  BY <1>1 DEF PollOn
<1>2. CASE answer = 0 /\ MockOver(p)
  BY <1>2 DEF MockOver
<1>3. CASE answer = 0 /\ BlockOver(p)
  BY <1>3 DEF BlockOver
<1> QED
  BY <1>1, <1>2, <1>3

LEMMA InitTypeOK == Init => TypeOK
<1> SUFFICES ASSUME Init PROVE TypeOK
  OBVIOUS
<1>1. <<>> \in Seq(Parts)
  BY EmptySeq
<1>2. 0 \in 0 .. MaxRuns
  BY ConstantsAssumption
<1>3. mock \in [Procs -> BOOLEAN] /\ failed \in BOOLEAN
  BY Zenon DEF Init
<1> QED
  BY <1>1, <1>2, <1>3 DEF Init, TypeOK, Opcodes

LEMMA NextTypeOK == TypeOK /\ [Next]_vars => TypeOK'
<1> SUFFICES ASSUME TypeOK, [Next]_vars PROVE TypeOK'
  OBVIOUS
<1> USE DEF Working, Ends, Opcodes
<1>1. ASSUME NEW p \in Procs, Start(p) PROVE TypeOK'
  BY <1>1, BeginType DEF Start, Begin, TypeOK, deviceVars
<1>1a. ASSUME NEW p \in Procs, StartFails(p) PROVE TypeOK'
  BY <1>1a, BeginType, ExitType DEF StartFails, Begin, TypeOK, deviceVars
<1>2. ASSUME NEW p \in Procs, NextBlock(p) PROVE TypeOK'
  BY <1>2 DEF NextBlock, TypeOK, deviceVars
<1>2a. ASSUME NEW p \in Procs, NoRequest(p) PROVE TypeOK'
  BY <1>2a, ExitType DEF NoRequest, TypeOK, deviceVars
<1>3. ASSUME NEW p \in Procs, LoopDone(p) PROVE TypeOK'
  <2>1. rc[p] \in {-1, 0, 1}
    BY DEF TypeOK
  <2> QED
    BY <1>3, <2>1, ExitType DEF LoopDone, TypeOK, deviceVars
<1>4. ASSUME NEW p \in Procs, Send(p) PROVE TypeOK'
  <2>1. PICK answer \in {-1, 0, 1} : TransferFw(p, answer) /\ AfterTransfer(p, answer, 0)
    BY <1>4 DEF Send
  <2> QED
    BY <2>1, TransferType DEF AfterTransfer, TypeOK
<1>5. ASSUME NEW p \in Procs, Resend(p) PROVE TypeOK'
  <2>1. PICK answer \in {-1, 0, 1} :
          TransferFw(p, answer) /\ AfterTransfer(p, answer, retry[p] + 1)
    BY <1>5 DEF Resend
  <2> QED
    BY <2>1, TransferType DEF AfterTransfer, TypeOK
<1>6. ASSUME NEW p \in Procs, Poll(p) PROVE TypeOK'
  <2>1. PICK answer \in {-1, 0, 1} : HboStatus(answer) /\ AfterStatus(p, answer, 0)
    BY <1>6 DEF Poll
  <2> QED
    BY <2>1, StatusType
<1>7. ASSUME NEW p \in Procs, Repoll(p) PROVE TypeOK'
  <2>1. PICK answer \in {-1, 0, 1} :
          HboStatus(answer) /\ AfterStatus(p, answer, retry[p] + 1)
    BY <1>7 DEF Repoll
  <2>2. retry[p] + 1 \in Nat
    BY DEF TypeOK
  <2> QED
    BY <2>1, <2>2, StatusType
<1>8. ASSUME NEW p \in Procs, GiveUp(p) PROVE TypeOK'
  BY <1>8 DEF GiveUp, TypeOK, deviceVars
<1>9. ASSUME NEW p \in Procs, Abort(p) PROVE TypeOK'
  <2>1. PICK answer \in {-1, 0, 1} : AbortTransfer(answer) /\ Exit(p, how[p], answer)
    BY <1>9 DEF Abort
  <2>2. how[p] \in Ends \cup {"none"}
    BY DEF TypeOK
  <2>3. /\ pc' \in [Procs -> {"ready", "exited"} \cup Working]
        /\ how' \in [Procs -> Ends \cup {"none"}]
        /\ rc' \in [Procs -> {-1, 0, 1}]
        /\ held' \in [Procs -> SUBSET {"rom", "req"}]
    BY <2>1, <2>2, ExitType
  <2>4. UNCHANGED <<img, op, mock, i, retry, runs>>
    BY <1>9 DEF Abort
  <2>5. /\ xfer' \in {"closed", "open", "ending"}
        /\ parts' \in Seq(Parts)
        /\ UNCHANGED <<staged, bo, failed>>
    <3>1. CASE NoEffect(bo = "running" \/ xfer = "closed", answer)
      BY <3>1 DEF NoEffect, TypeOK, deviceVars
    <3>2. CASE AbortTaken(answer)
      BY <3>2, EmptySeq DEF AbortTaken
    <3> QED
      BY <2>1, <3>1, <3>2 DEF AbortTransfer
  <2> QED
    BY <2>3, <2>4, <2>5 DEF TypeOK
<1>10. ASSUME NEW p \in Procs, Kill(p) PROVE TypeOK'
  <2>1. rc[p] \in {-1, 0, 1}
    BY DEF TypeOK
  <2> QED
    BY <1>10, <2>1, ExitType DEF Kill, TypeOK, deviceVars
<1>11. ASSUME DeviceStep PROVE TypeOK'
  <2>1. parts \in Seq(Parts) /\ <<>> \in Seq(Parts)
    BY EmptySeq DEF TypeOK
  <2>2. CASE BackgroundDone
    BY <2>1, <2>2 DEF BackgroundDone, TypeOK, localVars
  <2>3. CASE BackgroundFails
    <3>1. Len(parts) # 0 => SubSeq(parts, 1, Len(parts) - 1) \in Seq(Parts)
      BY <2>1
    <3>2. Len(parts) = 0 => SubSeq(parts, 1, Len(parts) - 1) \in Seq(Parts)
      BY <2>1, SubSeqEmpty
    <3> QED
      BY <2>1, <2>3, <3>1, <3>2 DEF BackgroundFails, TypeOK, localVars
  <2>4. CASE DropTransfer
    BY <2>1, <2>4 DEF DropTransfer, TypeOK, localVars
  <2> QED
    BY <1>11, <2>2, <2>3, <2>4 DEF DeviceStep
<1>12. CASE UNCHANGED vars
  BY <1>12 DEF vars, localVars, deviceVars, TypeOK
<1> QED
  BY <1>1, <1>1a, <1>2, <1>2a, <1>3, <1>4, <1>5, <1>6, <1>7, <1>8, <1>9, <1>10, <1>11, <1>12
     DEF Next, Step, AllRunsOver

\* Every variable of the driver and of the engine keeps its type.
THEOREM TypeCorrect == Spec => []TypeOK
  BY InitTypeOK, NextTypeOK, PTL DEF Spec

-----------------------------------------------------------------------------
(* The steps that call the device, in one form.                               *)

\* A Transfer FW call is the first one of its block or one within the limit.
LEMMA TransferCall ==
  ASSUME TypeOK, NEW p \in Procs, Send(p) \/ Resend(p)
  PROVE  /\ pc[p] \in {"send", "resend"}
         /\ \E answer \in {-1, 0, 1}, count \in 0 .. MaxRetries + 1 :
              TransferFw(p, answer) /\ AfterTransfer(p, answer, count)
<1> USE ConstantsAssumption
<1>1. CASE Send(p)
  <2>1. 0 \in 0 .. MaxRetries + 1
    OBVIOUS
  <2> QED
    BY <1>1, <2>1 DEF Send
<1>2. CASE Resend(p)
  <2>1. retry[p] + 1 \in 0 .. MaxRetries + 1
    BY <1>2 DEF Resend, TypeOK
  <2> QED
    BY <1>2, <2>1 DEF Resend
<1> QED
  BY <1>1, <1>2

\* So is a status call; it ends the block when the answer is 0.
LEMMA StatusCall ==
  ASSUME TypeOK, NEW p \in Procs, Poll(p) \/ Repoll(p)
  PROVE  /\ pc[p] \in {"poll", "repoll"}
         /\ UNCHANGED <<img, op, mock, runs, deviceVars>>
         /\ \E count \in 0 .. MaxRetries + 1 : retry' = [retry EXCEPT ![p] = count]
         /\ \/ PollOn(p)
            \/ bo # "running" /\ MockOver(p)
            \/ bo # "running" /\ BlockOver(p)
<1> USE ConstantsAssumption
<1>1. /\ pc[p] \in {"poll", "repoll"}
      /\ \E answer \in {-1, 0, 1}, count \in 0 .. MaxRetries + 1 :
              HboStatus(answer) /\ AfterStatus(p, answer, count)
  <2>1. CASE Poll(p)
    <3>1. 0 \in 0 .. MaxRetries + 1
      OBVIOUS
    <3> QED
      BY <2>1, <3>1 DEF Poll
  <2>2. CASE Repoll(p)
    <3>1. retry[p] + 1 \in 0 .. MaxRetries + 1
      BY <2>2 DEF Repoll, TypeOK
    <3> QED
      BY <2>2, <3>1 DEF Repoll
  <2> QED
    BY <2>1, <2>2
<1>2. PICK answer \in {-1, 0, 1}, count \in 0 .. MaxRetries + 1 :
        HboStatus(answer) /\ AfterStatus(p, answer, count)
  BY <1>1
<1>3. answer = 0 => bo # "running"
  BY <1>2 DEF HboStatus, Heard
<1> QED
  BY <1>1, <1>2, <1>3 DEF HboStatus, AfterStatus

-----------------------------------------------------------------------------
(* How a file is cut into blocks.                                             *)

LEMMA Division ==
  ASSUME NEW N \in Nat, NEW B \in Nat, B > 0
  PROVE  N = B * (N \div B) + (N % B)
  OBVIOUS

\* The size the code computes for a block is what is left of the file, at most
\* one block: every byte is in exactly one block.
LEMMA SizeIsRest ==
  ASSUME NEW f \in Images, NEW k \in Nat, k < NumBlocks(f)
  PROVE  Size(f, k) = Least(BlockSize, FileSize[f] - k * BlockSize)
<1> DEFINE N == FileSize[f]
           B == BlockSize
           q == N \div B
           r == N % B
           rest == N - k * B
<1>1. N \in Nat /\ B \in Nat /\ B > 0
  BY ConstantsAssumption
<1>2. q \in Nat
  BY <1>1
<1>3. r \in Nat /\ r < B
  BY <1>1
<1>4. N = B * q + r
  BY <1>1, Division
<1>5. rest = B * (q - k) + r
  BY <1>1, <1>2, <1>3, <1>4
<1>6. k < q => B * (q - k) \in Nat /\ B * (q - k) >= B
  <2> SUFFICES ASSUME k < q PROVE B * (q - k) \in Nat /\ B * (q - k) >= B
    OBVIOUS
  <2>1. q - k \in Nat /\ q - k >= 1
    BY <1>2
  <2> QED
    BY <1>1, <2>1
<1>7. NumBlocks(f) = IF r # 0 THEN q + 1 ELSE q
  BY <1>2 DEF NumBlocks
<1>8. Size(f, k) = IF k = NumBlocks(f) - 1 /\ r # 0 THEN r ELSE B
  BY DEF Size
<1>9. Least(B, rest) = IF B < rest THEN B ELSE rest
  BY DEF Least
<1> HIDE DEF N, B, q, r, rest
<1>10. CASE k < q
  <2>1. rest >= B /\ rest \in Int
    BY <1>1, <1>3, <1>5, <1>6, <1>10
  <2>2. Least(B, rest) = B
    BY <1>1, <1>9, <2>1
  <2>3. Size(f, k) = B
    BY <1>2, <1>7, <1>8, <1>10
  <2> QED
    BY <2>2, <2>3 DEF B, N, rest
<1>11. CASE ~ (k < q)
  <2>1. r # 0 /\ k = q
    BY <1>2, <1>7, <1>11
  <2>2. Size(f, k) = r
    BY <1>2, <1>7, <1>8, <2>1
  <2>3. rest = r
    BY <1>1, <1>2, <1>3, <1>5, <2>1
  <2>4. Least(B, rest) = r
    BY <1>1, <1>3, <1>9, <2>3
  <2> QED
    BY <2>2, <2>4 DEF B, N, rest
<1> QED
  BY <1>10, <1>11

\* The part a driver sends is the one its package has in that place.
LEMMA PartOfPackage ==
  ASSUME TypeOK, NEW p \in Procs, i[p] < NumBlocks(img[p])
  PROVE  /\ i[p] + 1 \in 1 .. NumBlocks(img[p])
         /\ Part(p) = Package(img[p], op[p])[i[p] + 1]
<1>1. i[p] \in Nat /\ img[p] \in Images /\ NumBlocks(img[p]) \in Nat
  BY BlocksType DEF TypeOK, Opcodes
<1>2. i[p] + 1 \in 1 .. NumBlocks(img[p]) /\ (i[p] + 1) - 1 = i[p]
  BY <1>1
<1>3. Size(img[p], i[p]) = Least(BlockSize, FileSize[img[p]] - i[p] * BlockSize)
  BY <1>1, SizeIsRest
<1> QED
  BY <1>2, <1>3 DEF Part, PayloadLen, Package

\* A sequence with all the parts of a package is the package.
LEMMA AllPartsIsPackage ==
  ASSUME NEW f \in Images, NEW o, NEW s \in Seq(Parts),
         Len(s) = NumBlocks(f), \A k \in 1 .. Len(s) : s[k] = Package(f, o)[k]
  PROVE  s = Package(f, o)
<1>1. s = [k \in 1 .. Len(s) |-> s[k]]
  OBVIOUS
<1>2. Package(f, o) = [k \in 1 .. NumBlocks(f) |-> Package(f, o)[k]]
  BY DEF Package
<1> QED
  BY <1>1, <1>2

\* The parts the device has after it took the one that p sends: those before
\* it, as they were, and it.
LEMMA WrittenParts ==
  ASSUME TypeOK, NEW p \in Procs, Accepts(p)
  PROVE  /\ Written(p) \in Seq(Parts)
         /\ Len(Written(p)) = i[p] + 1
         /\ i[p] <= Len(parts)
         /\ \A k \in 1 .. i[p] + 1 :
              Written(p)[k] = IF k <= i[p] THEN parts[k] ELSE Part(p)
<1>1. /\ i[p] <= Len(parts)
      /\ Part(p) \in Parts
      /\ Written(p) \in Seq(Parts)
      /\ Len(Written(p)) = i[p] + 1
  BY WrittenType
<1>2. i[p] \in Nat /\ parts \in Seq(Parts) /\ Len(parts) \in Nat
  BY DEF TypeOK
<1> DEFINE before == SubSeq(parts, 1, i[p])
           one == <<Part(p)>>
<1>3. before \in Seq(Parts) /\ Len(before) = i[p] /\ \A k \in 1 .. i[p] : before[k] = parts[k]
  BY <1>1, <1>2, SubSeqProperties
<1>4. one \in Seq(Parts) /\ Len(one) = 1 /\ one[1] = Part(p)
  BY <1>1
<1>5. Written(p) = before \o one
  BY DEF Written
<1> HIDE DEF before, one
<1>6. ASSUME NEW k \in 1 .. i[p] + 1
      PROVE  Written(p)[k] = IF k <= i[p] THEN parts[k] ELSE Part(p)
  <2>1. k \in 1 .. Len(before) + Len(one)
    BY <1>3, <1>4
  <2>2. (before \o one)[k] = IF k <= Len(before) THEN before[k] ELSE one[k - Len(before)]
    BY <1>3, <1>4, <2>1, ConcatProperties
  <2>3. k <= i[p] => k \in 1 .. i[p]
    OBVIOUS
  <2>4. ~ (k <= i[p]) => k - i[p] = 1
    BY <1>2
  <2> QED
    BY <1>3, <1>4, <1>5, <2>2, <2>3, <2>4
<1> QED
  BY <1>1, <1>6

\* The device's parts begin the driver's package after it took one more.
LEMMA WrittenBegins ==
  ASSUME TypeOK, NEW p \in Procs, Accepts(p), i[p] < NumBlocks(img[p]),
         i[p] > 0 => Begins(img[p], op[p])
  PROVE  /\ Written(p) \in Seq(Parts)
         /\ Len(Written(p)) = i[p] + 1
         /\ i[p] + 1 <= NumBlocks(img[p])
         /\ \A k \in 1 .. i[p] + 1 : Written(p)[k] = Package(img[p], op[p])[k]
<1>1. i[p] \in Nat /\ parts \in Seq(Parts) /\ NumBlocks(img[p]) \in Nat
  BY BlocksType DEF TypeOK, Opcodes
<1>2. ASSUME NEW k \in 1 .. i[p] + 1 PROVE Written(p)[k] = Package(img[p], op[p])[k]
  <2>1. CASE k <= i[p]
    BY <1>1, <2>1, WrittenParts DEF Begins
  <2>2. CASE k = i[p] + 1
    BY <1>1, <2>2, WrittenParts, PartOfPackage
  <2> QED
    BY <1>1, <2>1, <2>2
<1> QED
  BY <1>1, <1>2, WrittenParts

\* If the device's parts are each in their place, they are after it took one
\* more; and the last block of a file ends them as that file ends.
LEMMA WrittenInPlace ==
  ASSUME TypeOK, NEW p \in Procs, Accepts(p), i[p] < NumBlocks(img[p]), InPlace(parts)
  PROVE  /\ InPlace(Written(p))
         /\ ActionOf(img[p], i[p]) = "end" => EndsAsFile(Written(p))
<1>1. /\ i[p] \in Nat /\ img[p] \in Images /\ op[p] \in Opcodes
      /\ parts \in Seq(Parts) /\ NumBlocks(img[p]) \in Nat
  BY BlocksType DEF TypeOK
<1>2. DOMAIN Package(img[p], op[p]) = 1 .. NumBlocks(img[p])
  BY DEF Package
<1>3. ASSUME NEW k \in DOMAIN Written(p)
      PROVE  \E f \in Images, o \in Opcodes :
               k \in DOMAIN Package(f, o) /\ Written(p)[k] = Package(f, o)[k]
  <2>1. k \in 1 .. i[p] + 1
    BY WrittenParts
  <2>2. CASE k <= i[p]
    <3>1. k \in DOMAIN parts /\ Written(p)[k] = parts[k]
      BY <1>1, <2>1, <2>2, WrittenParts
    <3> QED
      BY <3>1 DEF InPlace
  <2>3. CASE k = i[p] + 1
    <3>1. Written(p)[k] = Part(p)
      BY <1>1, <2>1, <2>3, WrittenParts
    <3> QED
      BY <1>1, <1>2, <2>3, <3>1, PartOfPackage
  <2> QED
    BY <1>1, <2>1, <2>2, <2>3
<1>4. ASSUME ActionOf(img[p], i[p]) = "end" PROVE EndsAsFile(Written(p))
  <2>1. i[p] = NumBlocks(img[p]) - 1
    BY <1>4 DEF ActionOf
  <2>2. NumBlocks(img[p]) > 0 /\ Len(Written(p)) = NumBlocks(img[p])
    BY <1>1, <2>1, WrittenParts
  <2>3. Written(p)[i[p] + 1] = Part(p)
    BY <1>1, WrittenParts
  <2>4. Written(p)[NumBlocks(img[p])] = Package(img[p], op[p])[NumBlocks(img[p])]
    BY <1>1, <2>1, <2>3, PartOfPackage
  <2> QED
    BY <1>1, <2>2, <2>4 DEF EndsAsFile
<1> QED
  BY <1>3, <1>4 DEF InPlace

-----------------------------------------------------------------------------
(* The invariants that hold for any number of updaters.                       *)

LEMMA InitSharedInv == Init => SharedInv
<1> SUFFICES ASSUME Init PROVE SharedInv
  OBVIOUS
<1>1. TypeOK
  BY InitTypeOK
<1>2. HoldsWhatItUses
  BY DEF Init, HoldsWhatItUses, Uses
<1>3. RetriesBounded
  BY ConstantsAssumption DEF Init, RetriesBounded
<1>4. BlockInRange
  BY DEF Init, BlockInRange, AtBlock
<1>5. OpenHasOwner
  BY DEF Init, OpenHasOwner
<1>6. AbortsKnowWhy
  BY DEF Init, AbortsKnowWhy
<1>7. LoopInRange
  BY DEF Init, LoopInRange
<1>8. PartsInPlace
  <2>1. DOMAIN <<>> = {}
    OBVIOUS
  <2> QED
    BY <2>1 DEF Init, PartsInPlace, StagedInPlace, InPlace
<1> QED
  BY <1>1, <1>2, <1>3, <1>4, <1>5, <1>6, <1>7, <1>8 DEF SharedInv

\* What a process holds is what it uses.
LEMMA NextHolds == SharedInv /\ [Next]_vars => HoldsWhatItUses'
<1> SUFFICES ASSUME SharedInv, [Next]_vars PROVE HoldsWhatItUses'
  OBVIOUS
<1>0. TypeOK /\ HoldsWhatItUses /\ DOMAIN pc = Procs /\ DOMAIN held = Procs
  BY DEF SharedInv, TypeOK
<1> USE DEF HoldsWhatItUses, Uses
<1>1. ASSUME NEW p \in Procs, Start(p) \/ StartFails(p) PROVE HoldsWhatItUses'
  BY <1>0, <1>1 DEF Start, StartFails, Exit
<1>2. ASSUME NEW p \in Procs, NextBlock(p) PROVE HoldsWhatItUses'
  BY <1>0, <1>2 DEF NextBlock
<1>3. ASSUME NEW p \in Procs, NoRequest(p) \/ LoopDone(p) \/ Kill(p) PROVE HoldsWhatItUses'
  BY <1>0, <1>3 DEF NoRequest, LoopDone, Kill, Exit
<1>4. ASSUME NEW p \in Procs, Send(p) \/ Resend(p) PROVE HoldsWhatItUses'
  BY <1>0, <1>4 DEF Send, Resend, AfterTransfer
<1>5. ASSUME NEW p \in Procs, Poll(p) \/ Repoll(p) PROVE HoldsWhatItUses'
  <2>1. CASE PollOn(p)
    BY <1>0, <1>5, <2>1, StatusCall DEF PollOn
  <2>2. CASE MockOver(p)
    BY <1>0, <1>5, <2>2, StatusCall DEF MockOver
  <2>3. CASE BlockOver(p)
    BY <1>0, <1>5, <2>3, StatusCall DEF BlockOver
  <2> QED
    BY <1>0, <1>5, <2>1, <2>2, <2>3, StatusCall
<1>6. ASSUME NEW p \in Procs, GiveUp(p) PROVE HoldsWhatItUses'
  BY <1>0, <1>6 DEF GiveUp
<1>7. ASSUME NEW p \in Procs, Abort(p) PROVE HoldsWhatItUses'
  BY <1>0, <1>7 DEF Abort, Exit
<1>8. CASE DeviceStep
  BY <1>0, <1>8 DEF DeviceStep, BackgroundDone, BackgroundFails, DropTransfer, localVars
<1>9. CASE UNCHANGED vars
  BY <1>0, <1>9 DEF vars, localVars
<1> QED
  BY <1>0, <1>1, <1>2, <1>3, <1>4, <1>5, <1>6, <1>7, <1>8, <1>9 DEF Next, Step, AllRunsOver

\* No call is repeated once the retry counter has passed the limit.
LEMMA NextRetries == SharedInv /\ [Next]_vars => RetriesBounded'
<1> SUFFICES ASSUME SharedInv, [Next]_vars PROVE RetriesBounded'
  OBVIOUS
<1> USE ConstantsAssumption DEF SharedInv, RetriesBounded, TypeOK
<1>1. ASSUME NEW p \in Procs, Begin(p) PROVE RetriesBounded'
  BY <1>1 DEF Begin
<1>2. ASSUME NEW p \in Procs, Send(p) \/ Resend(p) PROVE RetriesBounded'
  <2>1. PICK count \in 0 .. MaxRetries + 1 : retry' = [retry EXCEPT ![p] = count]
    BY <1>2, TransferCall DEF AfterTransfer
  <2> QED
    BY <2>1
<1>3. ASSUME NEW p \in Procs, Poll(p) \/ Repoll(p) PROVE RetriesBounded'
  <2>1. PICK count \in 0 .. MaxRetries + 1 : retry' = [retry EXCEPT ![p] = count]
    BY <1>3, StatusCall
  <2> QED
    BY <2>1
<1>4. ASSUME NEW p \in Procs,
             NextBlock(p) \/ NoRequest(p) \/ LoopDone(p) \/ Kill(p) \/ GiveUp(p) \/ Abort(p)
      PROVE  RetriesBounded'
  BY <1>4 DEF NextBlock, NoRequest, LoopDone, Kill, GiveUp, Abort
<1>5. CASE DeviceStep
  BY <1>5 DEF DeviceStep, BackgroundDone, BackgroundFails, DropTransfer, localVars
<1>6. CASE UNCHANGED vars
  BY <1>6 DEF vars, localVars
<1> QED
  BY <1>1, <1>2, <1>3, <1>4, <1>5, <1>6 DEF Next, Step, AllRunsOver, Start, StartFails

\* The block being sent is one of the file.
LEMMA NextBlockInRange == SharedInv /\ [Next]_vars => BlockInRange'
<1> SUFFICES ASSUME SharedInv, [Next]_vars PROVE BlockInRange'
  OBVIOUS
<1> USE DEF SharedInv, BlockInRange, AtBlock, TypeOK, NumBlocks
<1>1. ASSUME NEW p \in Procs, Start(p) PROVE BlockInRange'
  BY <1>1 DEF Start, Begin
<1>2. ASSUME NEW p \in Procs, StartFails(p) PROVE BlockInRange'
  BY <1>2 DEF StartFails, Begin, Exit
<1>3. ASSUME NEW p \in Procs, NextBlock(p) PROVE BlockInRange'
  BY <1>3 DEF NextBlock
<1>4. ASSUME NEW p \in Procs, NoRequest(p) \/ LoopDone(p) \/ Kill(p) PROVE BlockInRange'
  BY <1>4 DEF NoRequest, LoopDone, Kill, Exit
<1>5. ASSUME NEW p \in Procs, Send(p) \/ Resend(p) PROVE BlockInRange'
  BY <1>5 DEF Send, Resend, AfterTransfer
<1>6. ASSUME NEW p \in Procs, Poll(p) \/ Repoll(p) PROVE BlockInRange'
  <2>1. CASE PollOn(p)
    BY <1>6, <2>1, StatusCall DEF PollOn
  <2>2. CASE MockOver(p)
    BY <1>6, <2>2, StatusCall DEF MockOver
  <2>3. CASE BlockOver(p)
    BY <1>6, <2>3, StatusCall DEF BlockOver
  <2> QED
    BY <1>6, <2>1, <2>2, <2>3, StatusCall
<1>7. ASSUME NEW p \in Procs, GiveUp(p) \/ Abort(p) PROVE BlockInRange'
  BY <1>7 DEF GiveUp, Abort, Exit
<1>8. CASE DeviceStep
  BY <1>8 DEF DeviceStep, BackgroundDone, BackgroundFails, DropTransfer, localVars
<1>9. CASE UNCHANGED vars
  BY <1>9 DEF vars, localVars
<1> QED
  BY <1>1, <1>2, <1>3, <1>4, <1>5, <1>6, <1>7, <1>8, <1>9 DEF Next, Step, AllRunsOver

\* A step of p that touches only the locals of p keeps an owner of the open
\* transfer, if p does not cease to be one while the transfer is open.
LEMMA OwnerKept ==
  ASSUME SharedInv, NEW p \in Procs,
         \A q \in Procs \ {p} : /\ pc'[q] = pc[q]
                                /\ img'[q] = img[q]
                                /\ i'[q] = i[q]
                                /\ how'[q] = how[q]
                                /\ rc'[q] = rc[q],
         xfer' = "open" => Owner(p)' \/ (xfer = "open" /\ ~ Owner(p))
  PROVE  OpenHasOwner'
<1> SUFFICES ASSUME xfer' = "open", ~ Owner(p)' PROVE \E q \in Procs : Owner(q)'
  BY DEF OpenHasOwner
<1>1. PICK q \in Procs : Owner(q)
  BY DEF SharedInv, OpenHasOwner
<1>2. q # p
  BY <1>1
<1>3. Owner(q)'
  BY <1>1, <1>2 DEF Owner, EndAccepted, ClosedByRun, NumBlocks
<1> QED
  BY <1>3

\* What a Transfer FW call of p does to the transfer of the device.
LEMMA TransferEffect ==
  ASSUME TypeOK, NEW p \in Procs, NEW answer \in {-1, 0, 1}, TransferFw(p, answer)
  PROVE  /\ answer = 0 => Accepts(p)
         /\ answer = 0 /\ ActionOf(img[p], i[p]) = "end" => xfer' # "open"
  BY DEF TransferFw, NoEffect, TakeNow, TakeInBackground

LEMMA NextOwner == SharedInv /\ [Next]_vars => OpenHasOwner'
<1> SUFFICES ASSUME SharedInv, [Next]_vars PROVE OpenHasOwner'
  OBVIOUS
<1>0. TypeOK
  BY DEF SharedInv
<1>1. ASSUME NEW p \in Procs, Start(p) PROVE OpenHasOwner'
  <2>1. Owner(p)'
    <3>1. pc'[p] = "loop" /\ i'[p] = 0 /\ img'[p] \in Images
      BY <1>0, <1>1 DEF Start, Begin, TypeOK
    <3>2. NumBlocks(img'[p]) \in Nat
      BY <3>1, BlocksType DEF Opcodes
    <3> QED
      BY <3>1, <3>2 DEF Owner, EndAccepted, ClosedByRun, NumBlocks
  <2> QED
    BY <1>0, <1>1, <2>1, OwnerKept DEF Start, Begin, TypeOK
<1>2. ASSUME NEW p \in Procs, StartFails(p) PROVE OpenHasOwner'
  <2>1. Owner(p)'
    BY <1>0, <1>2 DEF StartFails, Exit, Owner, EndAccepted, ClosedByRun, TypeOK
  <2> QED
    BY <1>0, <1>2, <2>1, OwnerKept DEF StartFails, Begin, Exit, TypeOK
<1>3. ASSUME NEW p \in Procs, NextBlock(p) PROVE OpenHasOwner'
  <2>1. Owner(p)'
    BY <1>0, <1>3 DEF NextBlock, Owner, EndAccepted, ClosedByRun, TypeOK
  <2> QED
    BY <1>0, <1>3, <2>1, OwnerKept DEF NextBlock, TypeOK
<1>4. ASSUME NEW p \in Procs, NoRequest(p) PROVE OpenHasOwner'
  <2>1. Owner(p)'
    BY <1>0, <1>4 DEF NoRequest, Exit, Owner, EndAccepted, ClosedByRun, TypeOK
  <2> QED
    BY <1>0, <1>4, <2>1, OwnerKept DEF NoRequest, Exit, TypeOK
<1>5. ASSUME NEW p \in Procs, LoopDone(p) PROVE OpenHasOwner'
  <2>1. Owner(p) => Owner(p)'
    BY <1>0, <1>5 DEF LoopDone, Exit, Owner, EndAccepted, ClosedByRun, TypeOK, NumBlocks
  <2> QED
    BY <1>0, <1>5, <2>1, OwnerKept DEF LoopDone, Exit, TypeOK, deviceVars
<1>6. ASSUME NEW p \in Procs, Send(p) \/ Resend(p) PROVE OpenHasOwner'
  <2>1. PICK answer \in {-1, 0, 1}, count \in 0 .. MaxRetries + 1 :
          TransferFw(p, answer) /\ AfterTransfer(p, answer, count)
    BY <1>0, <1>6, TransferCall
  <2>2. xfer' = "open" => Owner(p)'
    <3>1. CASE answer = 0 /\ ActionOf(img[p], i[p]) = "end"
      BY <1>0, <2>1, <3>1, TransferEffect
    <3>2. CASE answer = 0 /\ ActionOf(img[p], i[p]) # "end"
      <4>1. pc'[p] = "poll" /\ i'[p] = i[p] /\ img'[p] = img[p]
        BY <1>0, <2>1, <3>2 DEF AfterTransfer, TypeOK
      <4>2. i[p] \in Nat /\ NumBlocks(img[p]) \in Nat
        BY <1>0, BlocksType DEF TypeOK, Opcodes
      <4>3. NumBlocks(img[p]) >= 2 => i[p] # NumBlocks(img[p]) - 1
        BY <3>2, <4>2 DEF ActionOf
      <4> QED
        BY <4>1, <4>2, <4>3 DEF Owner, EndAccepted, ClosedByRun, NumBlocks
    <3>3. CASE answer # 0
      BY <1>0, <2>1, <3>3 DEF AfterTransfer, Owner, EndAccepted, ClosedByRun, TypeOK
    <3> QED
      BY <3>1, <3>2, <3>3
  <2> QED
    BY <1>0, <2>1, <2>2, OwnerKept DEF AfterTransfer, TypeOK
<1>7. ASSUME NEW p \in Procs, Poll(p) \/ Repoll(p) PROVE OpenHasOwner'
  <2>1. /\ pc[p] \in {"poll", "repoll"}
        /\ UNCHANGED <<img, xfer>>
        /\ PollOn(p) \/ MockOver(p) \/ BlockOver(p)
    BY <1>0, <1>7, StatusCall DEF deviceVars
  <2>1a. \A q \in Procs \ {p} : rc'[q] = rc[q]
    BY <1>0, <1>7 DEF Poll, Repoll, AfterStatus, TypeOK
  <2>2. Owner(p) => Owner(p)'
    <3>1. CASE PollOn(p)
      BY <1>0, <2>1, <3>1
         DEF PollOn, Owner, EndAccepted, ClosedByRun, TypeOK, NumBlocks
    <3>2. CASE MockOver(p)
      BY <1>0, <2>1, <3>2 DEF MockOver, Owner, EndAccepted, ClosedByRun, TypeOK
    <3>3. CASE BlockOver(p)
      <4>1. i[p] < NumBlocks(img[p]) /\ i[p] \in Nat /\ NumBlocks(img[p]) \in Nat
        BY <1>0, <2>1, BlocksType DEF SharedInv, BlockInRange, AtBlock, TypeOK, Opcodes
      <4>2. i'[p] = i[p] + 1 /\ pc'[p] = "loop" /\ NumBlocks(img[p])' = NumBlocks(img[p])
        BY <1>0, <2>1, <3>3 DEF BlockOver, TypeOK, NumBlocks
      <4> QED
        BY <2>1, <4>1, <4>2 DEF Owner, EndAccepted, ClosedByRun
    <3> QED
      BY <2>1, <3>1, <3>2, <3>3
  <2>3. \A q \in Procs \ {p} : pc'[q] = pc[q] /\ i'[q] = i[q] /\ how'[q] = how[q]
    BY <1>0, <2>1 DEF PollOn, MockOver, BlockOver, TypeOK
  <2> QED
    BY <2>1, <2>1a, <2>2, <2>3, OwnerKept
<1>8. ASSUME NEW p \in Procs, GiveUp(p) PROVE OpenHasOwner'
  <2>1. Owner(p)'
    BY <1>0, <1>8 DEF GiveUp, Owner, EndAccepted, ClosedByRun, TypeOK
  <2> QED
    BY <1>0, <1>8, <2>1, OwnerKept DEF GiveUp, TypeOK
<1>9. ASSUME NEW p \in Procs, Abort(p) PROVE OpenHasOwner'
  <2>1. PICK answer \in {-1, 0, 1} : AbortTransfer(answer) /\ Exit(p, how[p], answer)
    BY <1>9 DEF Abort
  <2>2. xfer' = "open" => Owner(p)' \/ (xfer = "open" /\ ~ Owner(p))
    <3>1. CASE AbortTaken(answer)
      BY <3>1 DEF AbortTaken
    <3>2. CASE NoEffect(bo = "running" \/ xfer = "closed", answer)
      <4>1. answer # 0 /\ xfer' = xfer
        BY <3>2 DEF NoEffect, deviceVars
      <4>2. pc'[p] = "exited" /\ rc'[p] = answer /\ how'[p] = how[p]
        BY <1>0, <2>1 DEF Exit, TypeOK
      <4>3. how[p] # "complete"
        BY <1>9 DEF Abort, SharedInv, AbortsKnowWhy
      <4> QED
        BY <4>1, <4>2, <4>3 DEF Owner, EndAccepted, ClosedByRun
    <3> QED
      BY <2>1, <3>1, <3>2 DEF AbortTransfer
  <2> QED
    BY <1>0, <1>9, <2>1, <2>2, OwnerKept DEF Abort, Exit, TypeOK
<1>10. ASSUME NEW p \in Procs, Kill(p) PROVE OpenHasOwner'
  <2>1. Owner(p)'
    BY <1>0, <1>10 DEF Kill, Exit, Owner, EndAccepted, ClosedByRun, TypeOK
  <2> QED
    BY <1>0, <1>10, <2>1, OwnerKept DEF Kill, Exit, TypeOK
<1>11. CASE DeviceStep
  BY <1>11 DEF DeviceStep, BackgroundDone, BackgroundFails, DropTransfer, localVars,
               SharedInv, OpenHasOwner, Owner, EndAccepted, ClosedByRun, NumBlocks
<1>12. CASE UNCHANGED vars
  BY <1>12 DEF vars, localVars, deviceVars,
               SharedInv, OpenHasOwner, Owner, EndAccepted, ClosedByRun, NumBlocks
<1> QED
  BY <1>1, <1>2, <1>3, <1>4, <1>5, <1>6, <1>7, <1>8, <1>9, <1>10, <1>11, <1>12
     DEF Next, Step, AllRunsOver

LEMMA NextAbortsKnowWhy == SharedInv /\ [Next]_vars => AbortsKnowWhy'
<1> SUFFICES ASSUME SharedInv, [Next]_vars PROVE AbortsKnowWhy'
  OBVIOUS
<1> USE DEF SharedInv, AbortsKnowWhy, TypeOK
<1>1. ASSUME NEW p \in Procs, Start(p) PROVE AbortsKnowWhy'
  BY <1>1 DEF Start
<1>2. ASSUME NEW p \in Procs, StartFails(p) \/ NoRequest(p) \/ LoopDone(p) \/ Kill(p)
      PROVE  AbortsKnowWhy'
  BY <1>2 DEF StartFails, NoRequest, LoopDone, Kill, Exit
<1>3. ASSUME NEW p \in Procs, NextBlock(p) \/ GiveUp(p) PROVE AbortsKnowWhy'
  BY <1>3 DEF NextBlock, GiveUp
<1>4. ASSUME NEW p \in Procs, Send(p) \/ Resend(p) PROVE AbortsKnowWhy'
  BY <1>4 DEF Send, Resend, AfterTransfer
<1>5. ASSUME NEW p \in Procs, Poll(p) \/ Repoll(p) PROVE AbortsKnowWhy'
  <2>1. PollOn(p) \/ MockOver(p) \/ BlockOver(p)
    BY <1>5, StatusCall
  <2> QED
    BY <2>1 DEF PollOn, MockOver, BlockOver
<1>6. ASSUME NEW p \in Procs, Abort(p) PROVE AbortsKnowWhy'
  BY <1>6 DEF Abort, Exit
<1>7. CASE DeviceStep
  BY <1>7 DEF DeviceStep, BackgroundDone, BackgroundFails, DropTransfer, localVars
<1>8. CASE UNCHANGED vars
  BY <1>8 DEF vars, localVars
<1> QED
  BY <1>1, <1>2, <1>3, <1>4, <1>5, <1>6, <1>7, <1>8 DEF Next, Step, AllRunsOver

\* The block about to be sent is one of the file, or the file is sent.
LEMMA NextLoopInRange == SharedInv /\ [Next]_vars => LoopInRange'
<1> SUFFICES ASSUME SharedInv, [Next]_vars PROVE LoopInRange'
  OBVIOUS
<1> USE DEF SharedInv, LoopInRange, TypeOK
<1>1. ASSUME NEW p \in Procs, Start(p) PROVE LoopInRange'
  <2>1. img' \in [Procs -> Images] /\ i'[p] = 0 /\ \A q \in Procs \ {p} :
          pc'[q] = pc[q] /\ i'[q] = i[q] /\ img'[q] = img[q]
    <3>1. Begin(p) /\ pc' = [pc EXCEPT ![p] = "loop"] /\ DOMAIN pc = Procs
      BY <1>1 DEF Start
    <3>2. TypeOK
      BY DEF SharedInv
    <3>3. \A q \in Procs \ {p} : pc'[q] = pc[q]
      BY <3>1
    <3> QED
      BY <3>1, <3>2, <3>3, BeginType, BeginMoves
  <2>2. NumBlocks(img'[p]) \in Nat
    BY <2>1, BlocksType DEF Opcodes
  <2>3. ASSUME NEW q \in Procs, pc'[q] = "loop" PROVE i'[q] <= NumBlocks(img'[q])
    <3>1. CASE q = p
      BY <2>1, <2>2, <3>1
    <3>2. CASE q # p
      BY <2>1, <2>3, <3>2
    <3> QED
      BY <3>1, <3>2
  <2> QED
    BY <2>3 DEF NumBlocks
<1>2. ASSUME NEW p \in Procs, StartFails(p) PROVE LoopInRange'
  BY <1>2 DEF StartFails, Begin, Exit, NumBlocks
<1>3. ASSUME NEW p \in Procs, NextBlock(p) \/ GiveUp(p) PROVE LoopInRange'
  BY <1>3 DEF NextBlock, GiveUp, NumBlocks
<1>4. ASSUME NEW p \in Procs, NoRequest(p) \/ LoopDone(p) \/ Kill(p) \/ Abort(p) PROVE LoopInRange'
  BY <1>4 DEF NoRequest, LoopDone, Kill, Abort, Exit, NumBlocks
<1>5. ASSUME NEW p \in Procs, Send(p) \/ Resend(p) PROVE LoopInRange'
  BY <1>5 DEF Send, Resend, AfterTransfer, NumBlocks
<1>6. ASSUME NEW p \in Procs, Poll(p) \/ Repoll(p) PROVE LoopInRange'
  <2>1. CASE PollOn(p)
    BY <1>6, <2>1, StatusCall DEF PollOn, NumBlocks
  <2>2. CASE MockOver(p)
    BY <1>6, <2>2, StatusCall DEF MockOver, NumBlocks
  <2>3. CASE BlockOver(p)
    <3>1. pc[p] \in {"poll", "repoll"} /\ img' = img
      BY <1>6, StatusCall
    <3>2. i[p] + 1 <= NumBlocks(img[p])
      <4>1. i[p] \in Nat /\ NumBlocks(img[p]) \in Nat /\ i[p] < NumBlocks(img[p])
        BY <3>1, BlocksType DEF BlockInRange, AtBlock, Opcodes
      <4> QED
        BY <4>1
    <3> QED
      BY <2>3, <3>1, <3>2 DEF BlockOver, NumBlocks
  <2> QED
    BY <1>6, <2>1, <2>2, <2>3, StatusCall
<1>7. CASE DeviceStep
  BY <1>7 DEF DeviceStep, BackgroundDone, BackgroundFails, DropTransfer, localVars, NumBlocks
<1>8. CASE UNCHANGED vars
  BY <1>8 DEF vars, localVars, NumBlocks
<1> QED
  BY <1>1, <1>2, <1>3, <1>4, <1>5, <1>6, <1>7, <1>8 DEF Next, Step, AllRunsOver

\* Every part of the transfer and of the package stays in its place: a driver
\* sends each block under its own number, the device takes it nowhere else, and
\* what is dropped is dropped from the end.
LEMMA NextPartsInPlace == SharedInv /\ [Next]_vars => PartsInPlace'
<1> SUFFICES ASSUME SharedInv, [Next]_vars PROVE PartsInPlace'
  OBVIOUS
<1>0. TypeOK /\ PartsInPlace /\ InPlace(parts) /\ StagedInPlace
  BY DEF SharedInv, PartsInPlace
<1>1. InPlace(<<>>)
  <2>1. DOMAIN <<>> = {}
    OBVIOUS
  <2> QED
    BY <2>1 DEF InPlace
<1>2. ASSUME UNCHANGED deviceVars PROVE PartsInPlace'
  BY <1>0, <1>2 DEF deviceVars, PartsInPlace, StagedInPlace, InPlace, EndsAsFile
<1>3. ASSUME parts' = <<>>, xfer' = "closed", UNCHANGED staged PROVE PartsInPlace'
  BY <1>0, <1>1, <1>3 DEF PartsInPlace, StagedInPlace, InPlace, EndsAsFile
<1>4. ASSUME NEW p \in Procs, Send(p) \/ Resend(p) PROVE PartsInPlace'
  <2>1. pc[p] \in {"send", "resend"} /\ \E answer \in {-1, 0, 1} : TransferFw(p, answer)
    BY <1>0, <1>4, TransferCall
  <2>2. i[p] < NumBlocks(img[p])
    BY <2>1 DEF SharedInv, BlockInRange, AtBlock
  <2>3. CASE Accepts(p) /\ TakeNow(p)
    <3>1. InPlace(Written(p)) /\ (ActionOf(img[p], i[p]) = "end" => EndsAsFile(Written(p)))
      BY <1>0, <2>2, <2>3, WrittenInPlace
    <3>2. CASE ActionOf(img[p], i[p]) = "end"
      <4>1. parts' = <<>> /\ staged' = Written(p) /\ xfer' = "closed"
        BY <2>3, <3>2 DEF TakeNow
      <4> QED
        BY <1>1, <3>1, <3>2, <4>1 DEF PartsInPlace, StagedInPlace, InPlace, EndsAsFile
    <3>3. CASE ActionOf(img[p], i[p]) # "end"
      <4>1. parts' = Written(p) /\ staged' = staged /\ xfer' = "open"
        BY <2>3, <3>3 DEF TakeNow
      <4> QED
        BY <1>0, <3>1, <4>1 DEF PartsInPlace, StagedInPlace, InPlace, EndsAsFile
    <3> QED
      BY <3>2, <3>3
  <2>4. CASE Accepts(p) /\ TakeInBackground(p)
    <3>1. InPlace(Written(p)) /\ (ActionOf(img[p], i[p]) = "end" => EndsAsFile(Written(p)))
      BY <1>0, <2>2, <2>4, WrittenInPlace
    <3>2. /\ parts' = Written(p) /\ staged' = staged
          /\ xfer' = "ending" => ActionOf(img[p], i[p]) = "end"
      BY <2>4 DEF TakeInBackground
    <3> QED
      BY <1>0, <3>1, <3>2 DEF PartsInPlace, StagedInPlace, InPlace, EndsAsFile
  <2> QED
    BY <1>2, <2>1, <2>3, <2>4 DEF TransferFw, NoEffect
<1>5. ASSUME NEW p \in Procs, Abort(p) PROVE PartsInPlace'
  BY <1>2, <1>3, <1>5 DEF Abort, AbortTransfer, AbortTaken, NoEffect
<1>6. ASSUME NEW p \in Procs, Poll(p) \/ Repoll(p) PROVE PartsInPlace'
  BY <1>0, <1>2, <1>6, StatusCall
<1>7. ASSUME NEW p \in Procs,
             Start(p) \/ StartFails(p) \/ NextBlock(p) \/ NoRequest(p) \/ LoopDone(p)
               \/ GiveUp(p) \/ Kill(p)
      PROVE  PartsInPlace'
  BY <1>2, <1>7 DEF Start, StartFails, Begin, NextBlock, NoRequest, LoopDone, GiveUp, Kill
<1>8. CASE BackgroundDone
  <2>1. CASE xfer = "ending"
    <3>1. parts' = <<>> /\ staged' = parts /\ xfer' = "closed"
      BY <1>8, <2>1 DEF BackgroundDone
    <3>2. EndsAsFile(parts)
      BY <1>0, <2>1 DEF PartsInPlace
    <3> QED
      BY <1>0, <1>1, <3>1, <3>2 DEF PartsInPlace, StagedInPlace, InPlace, EndsAsFile
  <2>2. CASE xfer # "ending"
    BY <1>0, <1>8, <2>2 DEF BackgroundDone, PartsInPlace, StagedInPlace, InPlace, EndsAsFile
  <2> QED
    BY <2>1, <2>2
<1>9. CASE BackgroundFails
  <2>1. CASE xfer = "ending" \/ Len(parts) = 1
    BY <1>3, <1>9, <2>1 DEF BackgroundFails
  <2>2. CASE ~ (xfer = "ending" \/ Len(parts) = 1)
    <3>1. parts' = SubSeq(parts, 1, Len(parts) - 1) /\ xfer' # "ending" /\ staged' = staged
      BY <1>9, <2>2 DEF BackgroundFails
    <3>2. parts \in Seq(Parts) /\ Len(parts) \in Nat
      BY <1>0 DEF TypeOK
    <3>3. \A k \in DOMAIN parts' : k \in DOMAIN parts /\ parts'[k] = parts[k]
      <4>1. CASE Len(parts) = 0
        <5>1. parts' = <<>>
          BY <3>1, <3>2, <4>1, SubSeqEmpty
        <5> QED
          BY <5>1
      <4>2. CASE Len(parts) > 0
        BY <3>1, <3>2, <4>2, SubSeqProperties
      <4> QED
        BY <3>2, <4>1, <4>2
    <3> QED
      BY <1>0, <3>1, <3>3 DEF PartsInPlace, StagedInPlace, InPlace, EndsAsFile
  <2> QED
    BY <2>1, <2>2
<1>10. CASE DropTransfer
  BY <1>3, <1>10 DEF DropTransfer
<1>11. CASE UNCHANGED vars
  BY <1>2, <1>11 DEF vars
<1> QED
  BY <1>4, <1>5, <1>6, <1>7, <1>8, <1>9, <1>10, <1>11 DEF Next, Step, DeviceStep, AllRunsOver

LEMMA NextSharedInv == SharedInv /\ [Next]_vars => SharedInv'
  BY NextTypeOK, NextHolds, NextRetries, NextBlockInRange, NextLoopInRange, NextOwner,
     NextAbortsKnowWhy, NextPartsInPlace DEF SharedInv

LEMMA SharedInvInvariant == Spec => []SharedInv
  BY InitSharedInv, NextSharedInv, PTL DEF Spec

\* Whatever path a run takes, it holds its file, buffer and request exactly
\* while it uses them, for any number of processes and any faults.
THEOREM ResourcesBalanced == Spec => []HoldsWhatItUses
<1>1. SharedInv => HoldsWhatItUses
  BY DEF SharedInv
<1> QED
  BY <1>1, SharedInvInvariant, PTL

\* No block is sent, and no status asked for, more than MaxRetries + 2 times.
THEOREM RetriesAreBounded == Spec => []RetriesBounded
<1>1. SharedInv => RetriesBounded
  BY DEF SharedInv
<1> QED
  BY <1>1, SharedInvInvariant, PTL

\* However many updaters interleave: when the last run of each ended with an
\* accepted END or ABORT, the device has no open transfer.
THEOREM NoTransferOrphaned == Spec => []NoOrphanTransfer
<1>1. SharedInv => NoOrphanTransfer
  BY DEF SharedInv, OpenHasOwner, Owner, NoOrphanTransfer
<1> QED
  BY <1>1, SharedInvInvariant, PTL

\* However many updaters interleave: no part of a staged package is shifted,
\* missing, cut short or out of order, and it ends where a file ends.
THEOREM StagedStaysInPlace == Spec => []StagedInPlace
<1>1. SharedInv => StagedInPlace
  BY DEF SharedInv, PartsInPlace
<1> QED
  BY <1>1, SharedInvInvariant, PTL

-----------------------------------------------------------------------------
(* Every step of a driver brings the end of its run nearer.                   *)

\* A block costs BlockSteps.
LEMMA StepsOfBlocks ==
  ASSUME NEW n \in Nat, NEW k \in Nat, k < n
  PROVE  /\ BlockSteps \in Nat
         /\ BlockSteps * (n - k - 1) + 2 \in Nat
         /\ BlockSteps * (n - k - 1) + 2 >= 2
         /\ BlockSteps * (n - k) + 2 = BlockSteps * (n - k - 1) + 2 + BlockSteps
<1>1. BlockSteps \in Nat
  BY ConstantsAssumption DEF BlockSteps
<1> HIDE DEF BlockSteps
<1>2. n - k - 1 \in Nat
  OBVIOUS
<1>3. BlockSteps * (n - k - 1) \in Nat
  BY <1>1, <1>2
<1>4. n - k = (n - k - 1) + 1
  OBVIOUS
<1>5. BlockSteps * ((n - k - 1) + 1) = BlockSteps * (n - k - 1) + BlockSteps
  BY <1>1, <1>2
<1> QED
  BY <1>1, <1>3, <1>4, <1>5

\* The steps left in each control point, for a block of the file.
LEMMA StepsAtBlock ==
  ASSUME SharedInv, NEW p \in Procs, i[p] < NumBlocks(img[p])
  PROVE  /\ BlockSteps = 2 * MaxRetries + 5
         /\ StepsLater(p) \in Nat /\ StepsLater(p) >= 2
         /\ pc[p] = "loop" => StepsLeft(p) = StepsLater(p) + BlockSteps
         /\ pc[p] = "send" => StepsLeft(p) = StepsLater(p) + 2 * MaxRetries + 4
         /\ pc[p] = "resend" => StepsLeft(p) = StepsLater(p) + 2 * MaxRetries + 3 - retry[p]
         /\ pc[p] = "poll" => StepsLeft(p) = StepsLater(p) + MaxRetries + 2
         /\ pc[p] = "repoll" => StepsLeft(p) = StepsLater(p) + MaxRetries + 1 - retry[p]
<1>1. i[p] \in Nat /\ NumBlocks(img[p]) \in Nat
  BY BlocksType DEF SharedInv, TypeOK, Opcodes
<1> QED
  BY <1>1, StepsOfBlocks DEF StepsLeft, StepsLater, BlockSteps

LEMMA StepShortens ==
  ASSUME SharedInv, NEW p \in Procs, Step(p)
  PROVE  StepsLeft(p)' \in 0 .. StepsLeft(p) - 1
<1> DEFINE n == NumBlocks(img[p])
           later == StepsLater(p)
<1>1. TypeOK /\ MaxRetries \in Nat
  BY ConstantsAssumption DEF SharedInv
<1>2. i[p] \in Nat /\ retry[p] \in Nat /\ n \in Nat
  BY <1>1, BlocksType DEF TypeOK, Opcodes
<1>3. AtBlock(p) => i[p] < n
  BY DEF SharedInv, BlockInRange
<1>4. retry[p] <= MaxRetries + 1
  BY DEF SharedInv, RetriesBounded
<1>5. CASE NextBlock(p)
  <2>1. i[p] < n /\ pc[p] = "loop" /\ pc'[p] = "send" /\ UNCHANGED <<img, i>>
    BY <1>1, <1>5 DEF NextBlock, TypeOK
  <2>2. StepsLeft(p)' = later + 2 * MaxRetries + 4
    BY <2>1 DEF StepsLeft, StepsLater, NumBlocks
  <2> QED
    BY <1>1, <2>1, <2>2, StepsAtBlock
<1>6. CASE NoRequest(p) \/ LoopDone(p)
  <2>1. pc[p] = "loop" /\ pc'[p] = "exited" /\ StepsLeft(p)' = 0
    BY <1>1, <1>6 DEF NoRequest, LoopDone, Exit, TypeOK, StepsLeft
  <2>2. CASE i[p] < n
    BY <1>1, <2>1, <2>2, StepsAtBlock
  <2>3. CASE i[p] >= n
    <3>1. i[p] <= n
      BY <2>1 DEF SharedInv, LoopInRange
    <3>2. StepsLeft(p) = BlockSteps * (n - i[p]) + 2 /\ n - i[p] = 0
      BY <1>2, <2>1, <2>3, <3>1 DEF StepsLeft
    <3>3. BlockSteps * 0 = 0
      BY <1>1 DEF BlockSteps
    <3> QED
      BY <2>1, <3>2, <3>3
  <2> QED
    BY <1>2, <2>2, <2>3
<1>7. CASE Send(p) \/ Resend(p)
  <2>1. AtBlock(p)
    BY <1>7 DEF Send, Resend, AtBlock
  <2>2. UNCHANGED <<img, i>> /\ StepsLater(p)' = later
    BY <1>7 DEF Send, Resend, AfterTransfer, StepsLater, NumBlocks
  <2>3. \/ pc'[p] = "poll"
        \/ pc'[p] = "resend" /\ pc[p] = "send" /\ retry'[p] = 0
        \/ pc'[p] = "resend" /\ pc[p] = "resend" /\ retry'[p] = retry[p] + 1
    BY <1>1, <1>7 DEF Send, Resend, AfterTransfer, TypeOK
  <2>4. pc[p] = "send" \/ (pc[p] = "resend" /\ retry[p] <= MaxRetries)
    BY <1>7 DEF Send, Resend
  <2>5. /\ pc'[p] = "poll" => StepsLeft(p)' = later + MaxRetries + 2
        /\ pc'[p] = "resend" => StepsLeft(p)' = later + 2 * MaxRetries + 3 - retry'[p]
    BY <2>2 DEF StepsLeft
  <2> HIDE DEF later
  <2>6. later \in Nat
    BY <1>3, <2>1, StepsAtBlock DEF later
  <2>7. /\ pc[p] = "send" => StepsLeft(p) = later + 2 * MaxRetries + 4
        /\ pc[p] = "resend" => StepsLeft(p) = later + 2 * MaxRetries + 3 - retry[p]
    BY <1>3, <2>1, StepsAtBlock DEF later
  <2> QED
    BY <1>1, <1>2, <2>3, <2>4, <2>5, <2>6, <2>7
<1>8. CASE Poll(p) \/ Repoll(p)
  <2>1. AtBlock(p)
    BY <1>8 DEF Poll, Repoll, AtBlock
  <2>2. pc[p] = "poll" \/ (pc[p] = "repoll" /\ retry[p] <= MaxRetries)
    BY <1>8 DEF Poll, Repoll
  <2>3. UNCHANGED img /\ (PollOn(p) \/ MockOver(p) \/ BlockOver(p))
    BY <1>1, <1>8, StatusCall
  <2>4. retry'[p] = IF pc[p] = "poll" THEN 0 ELSE retry[p] + 1
    BY <1>1, <1>8 DEF Poll, Repoll, AfterStatus, TypeOK
  <2>5. later \in Nat /\ later >= 2
    BY <1>3, <2>1, StepsAtBlock
  <2>6. /\ pc[p] = "poll" => StepsLeft(p) = later + MaxRetries + 2
        /\ pc[p] = "repoll" => StepsLeft(p) = later + MaxRetries + 1 - retry[p]
    BY <1>3, <2>1, StepsAtBlock
  <2>7. StepsLeft(p) - 1 \in Nat /\ StepsLeft(p) - 1 >= later
    BY <1>1, <1>2, <2>2, <2>5, <2>6
  <2>8. CASE PollOn(p)
    <3>1. pc'[p] = "repoll" /\ i' = i
      BY <1>1, <2>8 DEF PollOn, TypeOK
    <3>2. StepsLeft(p)' = later + MaxRetries + 1 - retry'[p]
      BY <2>3, <3>1 DEF StepsLeft, StepsLater, NumBlocks
    <3> HIDE DEF later
    <3> QED
      BY <1>1, <1>2, <2>2, <2>4, <2>5, <2>6, <3>2
  <2>9. CASE MockOver(p)
    <3>1. pc'[p] = "abort"
      BY <1>1, <2>9 DEF MockOver, TypeOK
    <3>2. StepsLeft(p)' = 1
      BY <3>1 DEF StepsLeft
    <3> HIDE DEF later
    <3> QED
      BY <2>5, <2>7, <3>2
  <2>10. CASE BlockOver(p)
    <3>1. pc'[p] = "loop" /\ i'[p] = i[p] + 1
      BY <1>1, <2>10 DEF BlockOver, TypeOK
    <3>2. StepsLeft(p)' = BlockSteps * (n - (i[p] + 1)) + 2
      BY <2>3, <3>1 DEF StepsLeft, NumBlocks
    <3>3. n - (i[p] + 1) = n - i[p] - 1
      BY <1>2
    <3>4. StepsLeft(p)' = later
      BY <3>2, <3>3 DEF StepsLater
    <3> HIDE DEF later
    <3> QED
      BY <2>5, <2>7, <3>4
  <2> QED
    BY <2>3, <2>8, <2>9, <2>10
<1>9. CASE GiveUp(p)
  <2>1. AtBlock(p) /\ pc[p] \in {"resend", "repoll"} /\ retry[p] = MaxRetries + 1
    BY <1>1, <1>2, <1>4, <1>9 DEF GiveUp, AtBlock
  <2>2. StepsLeft(p)' = 1
    BY <1>1, <1>9 DEF GiveUp, TypeOK, StepsLeft
  <2>3. later \in Nat /\ later >= 2
    BY <1>3, <2>1, StepsAtBlock
  <2>4. StepsLeft(p) \in Nat /\ StepsLeft(p) >= later
    <3>1. /\ pc[p] = "resend" => StepsLeft(p) = later + 2 * MaxRetries + 3 - retry[p]
          /\ pc[p] = "repoll" => StepsLeft(p) = later + MaxRetries + 1 - retry[p]
      BY <1>3, <2>1, StepsAtBlock
    <3> HIDE DEF later
    <3> QED
      BY <1>1, <2>1, <2>3, <3>1
  <2> HIDE DEF later
  <2> QED
    BY <2>2, <2>3, <2>4
<1>10. CASE Abort(p)
  <2>1. pc[p] = "abort" /\ pc'[p] = "exited"
    BY <1>1, <1>10 DEF Abort, Exit, TypeOK
  <2>2. StepsLeft(p) = 1 /\ StepsLeft(p)' = 0
    BY <2>1 DEF StepsLeft
  <2> QED
    BY <2>2
<1> QED
  BY <1>5, <1>6, <1>7, <1>8, <1>9, <1>10 DEF Step

\* In a run, the steps left are a number.
LEMMA StepsLeftType ==
  ASSUME SharedInv, NEW p \in Procs, pc[p] \in Working
  PROVE  StepsLeft(p) \in Nat /\ StepsLeft(p) > 0
<1>1. TypeOK /\ MaxRetries \in Nat
  BY ConstantsAssumption DEF SharedInv
<1>2. i[p] \in Nat /\ retry[p] \in Nat /\ NumBlocks(img[p]) \in Nat /\ retry[p] <= MaxRetries + 1
  BY <1>1, BlocksType DEF SharedInv, RetriesBounded, TypeOK, Opcodes
<1>3. CASE AtBlock(p) /\ pc[p] # "abort"
  <2>1. i[p] < NumBlocks(img[p])
    BY <1>3 DEF SharedInv, BlockInRange
  <2> QED
    BY <1>1, <1>2, <1>3, <2>1, StepsAtBlock DEF AtBlock
<1>4. CASE pc[p] = "abort"
  BY <1>4 DEF StepsLeft
<1>5. CASE pc[p] = "loop"
  <2>1. CASE i[p] < NumBlocks(img[p])
    BY <1>1, <1>5, <2>1, StepsAtBlock
  <2>2. CASE ~ (i[p] < NumBlocks(img[p]))
    <3>1. NumBlocks(img[p]) - i[p] = 0
      BY <1>2, <1>5, <2>2 DEF SharedInv, LoopInRange
    <3>2. BlockSteps * 0 = 0
      BY <1>1 DEF BlockSteps
    <3> QED
      BY <1>5, <3>1, <3>2 DEF StepsLeft
  <2> QED
    BY <2>1, <2>2
<1> QED
  BY <1>3, <1>4, <1>5 DEF Working, AtBlock

\* However many updaters interleave and whatever the device does, a run has a
\* bounded number of steps, and each of its own uses up one or more of them.
THEOREM RunsShorten == Spec => RunShortens
<1> DEFINE Nearer(p) == StepsLeft(p)' \in 0 .. StepsLeft(p) - 1
           Left(p) == StepsLeft(p)' = StepsLeft(p) /\ ~ Step(p)
<1>1. ASSUME SharedInv, [Next]_vars, NEW p \in Procs, pc[p] \in Working
      PROVE  Nearer(p) \/ Left(p)
  <2>1. TypeOK
    BY <1>1 DEF SharedInv
  <2>2. CASE Step(p)
    BY <1>1, <2>2, StepShortens
  <2>3. CASE Kill(p)
    <3>1. StepsLeft(p)' = 0
      BY <2>1, <2>3 DEF Kill, Exit, TypeOK, StepsLeft
    <3> QED
      BY <1>1, <3>1, StepsLeftType
  <2>4. CASE pc'[p] = pc[p] /\ i'[p] = i[p] /\ retry'[p] = retry[p] /\ img'[p] = img[p]
    <3>1. StepsLeft(p)' = StepsLeft(p)
      BY <2>4 DEF StepsLeft, StepsLater, NumBlocks
    <3> QED
      BY <2>2, <3>1
  <2>5. ASSUME NEW q \in Procs, q # p, Start(q) \/ StartFails(q) \/ Step(q) \/ Kill(q)
        PROVE  pc'[p] = pc[p] /\ i'[p] = i[p] /\ retry'[p] = retry[p] /\ img'[p] = img[p]
    <3>1. CASE Start(q) \/ StartFails(q)
      BY <2>1, <2>5, <3>1 DEF Start, StartFails, Begin, Exit, TypeOK
    <3>2. CASE Kill(q) \/ NextBlock(q) \/ NoRequest(q) \/ LoopDone(q) \/ GiveUp(q) \/ Abort(q)
      BY <2>1, <2>5, <3>2 DEF Kill, NextBlock, NoRequest, LoopDone, GiveUp, Abort, Exit, TypeOK
    <3>3. CASE Send(q) \/ Resend(q)
      BY <2>1, <2>5, <3>3 DEF Send, Resend, AfterTransfer, TypeOK
    <3>4. CASE Poll(q) \/ Repoll(q)
      <4>1. PICK count \in 0 .. MaxRetries + 1 : retry' = [retry EXCEPT ![q] = count]
        BY <2>1, <3>4, StatusCall
      <4>2. img' = img /\ (PollOn(q) \/ MockOver(q) \/ BlockOver(q))
        BY <2>1, <3>4, StatusCall
      <4>3. pc'[p] = pc[p] /\ i'[p] = i[p]
        BY <2>1, <2>5, <4>2 DEF PollOn, MockOver, BlockOver, TypeOK
      <4> QED
        BY <2>1, <2>5, <4>1, <4>2, <4>3 DEF TypeOK
    <3> QED
      BY <2>5, <3>1, <3>2, <3>3, <3>4 DEF Step
  <2>6. CASE DeviceStep \/ UNCHANGED vars
    BY <2>4, <2>6
       DEF DeviceStep, BackgroundDone, BackgroundFails, DropTransfer, localVars, vars
  <2>7. ~ (Start(p) \/ StartFails(p))
    BY <1>1 DEF Start, StartFails, Begin, Working
  <2> QED
    BY <1>1, <2>2, <2>3, <2>4, <2>5, <2>6, <2>7 DEF Next, AllRunsOver
<1>2. SharedInv /\ [Next]_vars =>
        [\A p \in Procs : pc[p] \in Working =>
           \/ StepsLeft(p)' \in 0 .. StepsLeft(p) - 1
           \/ StepsLeft(p)' = StepsLeft(p) /\ ~ Step(p)]_vars
  BY <1>1
<1> QED
  BY <1>2, SharedInvInvariant, PTL DEF Spec, RunShortens

-----------------------------------------------------------------------------
(* One updater at a time: what is on the device is one whole file.            *)

SoleUpdater == \A p, q \in Procs : p = q

LEMMA InitSoleInv == Init => SoleInv
<1> SUFFICES ASSUME Init PROVE SoleInv
  OBVIOUS
<1>1. SharedInv
  BY InitSharedInv
<1>2. TransferShape /\ EndingIsWhole /\ StagedIsWhole
  BY DEF Init, TransferShape, EndingIsWhole, StagedIsWhole
<1>3. \A p \in Procs : pc[p] = "ready" /\ ~ EndAccepted(p)
  BY DEF Init, EndAccepted
<1>4. PartsOfRun /\ EndDelivered /\ QuietOnceDelivered /\ CompleteMeansStaged
  BY <1>3 DEF PartsOfRun, EndDelivered, QuietOnceDelivered, CompleteMeansStaged, Working
<1> QED
  BY <1>1, <1>2, <1>4 DEF SoleInv

\* When the device takes the part of the only updater, what it then has is the
\* beginning of that updater's package, and all of it with the END.
LEMMA TakeEffect ==
  ASSUME SoleInv, NEW p \in Procs, pc[p] \in {"send", "resend"}, Accepts(p),
         TakeNow(p) \/ TakeInBackground(p)
  PROVE  /\ TransferShape'
         /\ EndingIsWhole'
         /\ StagedIsWhole'
         /\ Len(parts') <= NumBlocks(img[p])
         /\ \A k \in 1 .. Len(parts') : parts'[k] = Package(img[p], op[p])[k]
         /\ ActionOf(img[p], i[p]) = "end" =>
              \/ staged' = Package(img[p], op[p])
              \/ xfer' = "ending" /\ parts' = Package(img[p], op[p])
<1>0. /\ TypeOK
      /\ i[p] \in Nat /\ img[p] \in Images /\ op[p] \in Opcodes
      /\ NumBlocks(img[p]) \in Nat
      /\ i[p] < NumBlocks(img[p])
  BY BlocksType DEF SoleInv, SharedInv, TypeOK, BlockInRange, AtBlock
<1>1. i[p] > 0 => Begins(img[p], op[p])
  BY DEF SoleInv, PartsOfRun, Working
<1>2. /\ Written(p) \in Seq(Parts)
      /\ Len(Written(p)) = i[p] + 1
      /\ i[p] + 1 <= NumBlocks(img[p])
      /\ \A k \in 1 .. i[p] + 1 : Written(p)[k] = Package(img[p], op[p])[k]
  BY <1>0, <1>1, WrittenBegins
<1>3. ActionOf(img[p], i[p]) = "end" => Written(p) = Package(img[p], op[p])
  <2> SUFFICES ASSUME ActionOf(img[p], i[p]) = "end"
               PROVE  Written(p) = Package(img[p], op[p])
    OBVIOUS
  <2>1. i[p] = NumBlocks(img[p]) - 1
    BY DEF ActionOf
  <2>2. Len(Written(p)) = NumBlocks(img[p])
    BY <1>0, <1>2, <2>1
  <2> QED
    BY <1>0, <1>2, <2>2, AllPartsIsPackage
<1>4. Len(<<>>) = 0
  OBVIOUS
<1>5. bo = "none" /\ xfer # "ending"
  BY DEF Accepts, SoleInv, TransferShape
<1>6. CASE TakeNow(p)
  <2>1. CASE ActionOf(img[p], i[p]) = "end"
    <3>1. xfer' = "closed" /\ parts' = <<>> /\ staged' = Package(img[p], op[p]) /\ bo' = bo
      BY <1>3, <1>6, <2>1 DEF TakeNow
    <3>2. TransferShape' /\ EndingIsWhole'
      BY <1>5, <3>1 DEF TransferShape, EndingIsWhole
    <3>3. StagedIsWhole'
      BY <1>0, <3>1 DEF StagedIsWhole, Package, NumBlocks
    <3> QED
      BY <1>0, <1>4, <3>1, <3>2, <3>3
  <2>2. CASE ActionOf(img[p], i[p]) # "end"
    <3>1. xfer' = "open" /\ parts' = Written(p) /\ staged' = staged /\ bo' = bo
      BY <1>6, <2>2 DEF TakeNow
    <3>2. TransferShape' /\ EndingIsWhole'
      BY <1>0, <1>2, <1>5, <3>1 DEF TransferShape, EndingIsWhole
    <3>3. StagedIsWhole'
      BY <3>1 DEF SoleInv, StagedIsWhole, Package, NumBlocks
    <3> QED
      BY <1>2, <2>2, <3>1, <3>2, <3>3
  <2> QED
    BY <2>1, <2>2
<1>7. CASE TakeInBackground(p)
  <2>1. /\ xfer' = IF ActionOf(img[p], i[p]) = "end" THEN "ending" ELSE "open"
        /\ parts' = Written(p) /\ staged' = staged /\ bo' = "running"
    BY <1>7 DEF TakeInBackground
  <2>2. TransferShape'
    BY <1>0, <1>2, <2>1 DEF TransferShape
  <2>3. EndingIsWhole'
    BY <1>0, <1>3, <2>1 DEF EndingIsWhole, Package, NumBlocks
  <2>4. StagedIsWhole'
    BY <2>1 DEF SoleInv, StagedIsWhole, Package, NumBlocks
  <2> QED
    BY <1>2, <1>3, <2>1, <2>2, <2>3, <2>4
<1> QED
  BY <1>6, <1>7

\* The part of SoleInv that SharedInv does not already have.
DeliveryInv ==
  /\ TransferShape
  /\ PartsOfRun
  /\ EndingIsWhole
  /\ EndDelivered
  /\ QuietOnceDelivered
  /\ StagedIsWhole
  /\ CompleteMeansStaged

\* Steps of the driver that do not reach the device.
LEMMA DeviceUntouched ==
  ASSUME SoleInv, UNCHANGED deviceVars
  PROVE  TransferShape' /\ EndingIsWhole' /\ StagedIsWhole'
  BY DEF SoleInv, TransferShape, EndingIsWhole, StagedIsWhole, deviceVars,
         Package, NumBlocks

LEMMA BeginsKept ==
  ASSUME NEW p \in Procs, img'[p] = img[p], op'[p] = op[p],
         Len(parts') <= NumBlocks(img[p]),
         \A k \in 1 .. Len(parts') : parts'[k] = Package(img[p], op[p])[k]
  PROVE  Begins(img[p], op[p])'
<1>1. Package(img[p], op[p])' = Package(img[p], op[p])
  BY DEF Package, NumBlocks
<1>2. NumBlocks(img[p])' = NumBlocks(img[p])
  BY DEF NumBlocks
<1> QED
  BY <1>1, <1>2 DEF Begins

\* A run that has just started, is in the middle of a block, or has ended
\* without being complete, says nothing of the package on the device.
LEMMA NothingDelivered ==
  ASSUME SoleUpdater, NEW p \in Procs,
         ~ EndAccepted(p)',
         ~ (pc'[p] = "exited" /\ how'[p] = "complete")
  PROVE  EndDelivered' /\ QuietOnceDelivered' /\ CompleteMeansStaged'
  BY DEF SoleUpdater, EndDelivered, QuietOnceDelivered, CompleteMeansStaged

LEMMA StartSole ==
  ASSUME SoleUpdater, SoleInv, NEW p \in Procs, Start(p) \/ StartFails(p)
  PROVE  DeliveryInv'
<1>0. TypeOK
  BY DEF SoleInv, SharedInv
<1>1. /\ UNCHANGED deviceVars
      /\ i'[p] = 0
      /\ pc'[p] \in {"loop", "exited"}
      /\ how'[p] # "complete"
      /\ img'[p] \in Images
  <2>1. Begin(p) => UNCHANGED deviceVars /\ i'[p] = 0 /\ img'[p] \in Images
    BY <1>0 DEF Begin, TypeOK
  <2>2. CASE Start(p)
    BY <1>0, <2>1, <2>2 DEF Start, TypeOK
  <2>3. CASE StartFails(p)
    BY <1>0, <2>1, <2>3 DEF StartFails, Exit, TypeOK
  <2> QED
    BY <2>2, <2>3
<1>2. NumBlocks(img'[p]) \in Nat
  BY <1>1, BlocksType DEF Opcodes
<1>3. ~ EndAccepted(p)'
  BY <1>1, <1>2 DEF EndAccepted, NumBlocks
<1>4. PartsOfRun'
  BY <1>1 DEF SoleUpdater, PartsOfRun, Working
<1> QED
  BY <1>1, <1>3, <1>4, DeviceUntouched, NothingDelivered DEF DeliveryInv

LEMMA NextBlockSole ==
  ASSUME SoleUpdater, SoleInv, NEW p \in Procs, NextBlock(p)
  PROVE  DeliveryInv'
<1>0. TypeOK
  BY DEF SoleInv, SharedInv
<1>1. /\ UNCHANGED <<deviceVars, img, op, i>>
      /\ pc[p] = "loop"
      /\ pc'[p] = "send"
  BY <1>0 DEF NextBlock, TypeOK
<1>2. ~ EndAccepted(p)'
  BY <1>1 DEF EndAccepted
<1>3. PartsOfRun'
  <2>1. i'[p] > 0 => Begins(img[p], op[p])
    BY <1>1 DEF SoleInv, PartsOfRun, Working
  <2>2. Begins(img[p], op[p]) => Begins(img[p], op[p])'
    BY <1>1, BeginsKept DEF Begins, deviceVars
  <2> QED
    BY <1>1, <2>1, <2>2 DEF SoleUpdater, PartsOfRun
<1> QED
  BY <1>1, <1>2, <1>3, DeviceUntouched, NothingDelivered DEF DeliveryInv

LEMMA LeaveSole ==
  ASSUME SoleUpdater, SoleInv, NEW p \in Procs, NoRequest(p) \/ Kill(p)
  PROVE  DeliveryInv'
<1>0. TypeOK
  BY DEF SoleInv, SharedInv
<1>1. UNCHANGED deviceVars /\ pc'[p] = "exited" /\ how'[p] # "complete"
  BY <1>0 DEF NoRequest, Kill, Exit, TypeOK
<1>2. ~ EndAccepted(p)' /\ PartsOfRun'
  BY <1>1 DEF EndAccepted, SoleUpdater, PartsOfRun, Working
<1> QED
  BY <1>1, <1>2, DeviceUntouched, NothingDelivered DEF DeliveryInv

LEMMA LoopDoneSole ==
  ASSUME SoleUpdater, SoleInv, NEW p \in Procs, LoopDone(p)
  PROVE  DeliveryInv'
<1>0. TypeOK
  BY DEF SoleInv, SharedInv
<1>1. /\ UNCHANGED <<deviceVars, img, op, i>>
      /\ pc[p] = "loop" /\ i[p] >= NumBlocks(img[p])
      /\ pc'[p] = "exited"
  BY <1>0 DEF LoopDone, Exit, TypeOK
<1>2. ~ EndAccepted(p)' /\ PartsOfRun' /\ EndDelivered'
  BY <1>1 DEF EndAccepted, SoleUpdater, PartsOfRun, EndDelivered, Working
<1>3. NumBlocks(img[p]) >= 2 => bo = "none" /\ (staged = Package(img[p], op[p]) \/ failed)
  BY <1>1 DEF SoleInv, EndDelivered, QuietOnceDelivered, EndAccepted
<1>4. Package(img[p], op[p])' = Package(img[p], op[p])
  BY <1>1 DEF Package, NumBlocks
<1>5. NumBlocks(img[p])' = NumBlocks(img[p]) /\ staged' = staged /\ failed' = failed /\ bo' = bo
  BY <1>1 DEF NumBlocks, deviceVars
<1>6. QuietOnceDelivered'
  BY <1>1, <1>3, <1>5 DEF SoleUpdater, QuietOnceDelivered
<1>7. CompleteMeansStaged'
  BY <1>3, <1>4, <1>5 DEF SoleUpdater, CompleteMeansStaged
<1> QED
  BY <1>1, <1>2, <1>6, <1>7, DeviceUntouched DEF DeliveryInv

LEMMA GiveUpSole ==
  ASSUME SoleUpdater, SoleInv, NEW p \in Procs, GiveUp(p)
  PROVE  DeliveryInv'
<1>0. TypeOK
  BY DEF SoleInv, SharedInv
<1>1. /\ UNCHANGED <<deviceVars, img, op, i>>
      /\ pc[p] \in {"resend", "repoll"}
      /\ pc'[p] = "abort"
  BY <1>0 DEF GiveUp, TypeOK
<1>2. ~ EndAccepted(p)'
  BY <1>1 DEF EndAccepted
<1>3. PartsOfRun'
  <2>1. i'[p] > 0 => Begins(img[p], op[p])
    BY <1>1 DEF SoleInv, PartsOfRun, Working
  <2>2. Begins(img[p], op[p]) => Begins(img[p], op[p])'
    BY <1>1, BeginsKept DEF Begins, deviceVars
  <2> QED
    BY <1>1, <2>1, <2>2 DEF SoleUpdater, PartsOfRun
<1> QED
  BY <1>1, <1>2, <1>3, DeviceUntouched, NothingDelivered DEF DeliveryInv

LEMMA AbortSole ==
  ASSUME SoleUpdater, SoleInv, NEW p \in Procs, Abort(p)
  PROVE  DeliveryInv'
<1>0. TypeOK
  BY DEF SoleInv, SharedInv
<1>1. PICK answer \in {-1, 0, 1} : AbortTransfer(answer) /\ Exit(p, how[p], answer)
  BY DEF Abort
<1>2. how[p] # "complete"
  BY DEF Abort, SoleInv, SharedInv, AbortsKnowWhy
<1>3. pc'[p] = "exited" /\ how'[p] # "complete"
  BY <1>0, <1>1, <1>2 DEF Exit, TypeOK
<1>4. ~ EndAccepted(p)' /\ PartsOfRun'
  BY <1>3 DEF EndAccepted, SoleUpdater, PartsOfRun, Working
<1>5. TransferShape' /\ EndingIsWhole' /\ StagedIsWhole'
  <2>1. CASE AbortTaken(answer)
    <3>1. xfer' = "closed" /\ parts' = <<>> /\ bo' = "none" /\ staged' = staged
      BY <2>1 DEF AbortTaken
    <3> QED
      BY <3>1 DEF SoleInv, TransferShape, EndingIsWhole, StagedIsWhole, Package, NumBlocks
  <2>2. CASE NoEffect(bo = "running" \/ xfer = "closed", answer)
    BY <2>2, DeviceUntouched DEF NoEffect
  <2> QED
    BY <1>1, <2>1, <2>2 DEF AbortTransfer
<1> QED
  BY <1>3, <1>4, <1>5, NothingDelivered DEF DeliveryInv

LEMMA StatusSole ==
  ASSUME SoleUpdater, SoleInv, NEW p \in Procs, Poll(p) \/ Repoll(p)
  PROVE  DeliveryInv'
<1>0. TypeOK
  BY DEF SoleInv, SharedInv
<1>1. /\ pc[p] \in {"poll", "repoll"}
      /\ UNCHANGED <<img, op, deviceVars>>
      /\ \/ PollOn(p)
         \/ MockOver(p)
         \/ bo # "running" /\ BlockOver(p)
  BY <1>0, StatusCall
<1>2. Begins(img[p], op[p])'
  <2>1. Begins(img[p], op[p])
    BY <1>1 DEF SoleInv, PartsOfRun, Working
  <2> QED
    BY <1>1, <2>1, BeginsKept DEF Begins, deviceVars
<1>3. PartsOfRun'
  BY <1>2 DEF SoleUpdater, PartsOfRun
<1>4. TransferShape' /\ EndingIsWhole' /\ StagedIsWhole'
  BY <1>1, DeviceUntouched
<1>5. CASE PollOn(p)
  <2>1. pc'[p] = "repoll" /\ UNCHANGED i
    BY <1>0, <1>5 DEF PollOn, TypeOK
  <2>2. EndDelivered'
    <3>1. EndAccepted(p)' => EndAccepted(p)
      BY <1>1, <2>1 DEF EndAccepted, NumBlocks
    <3>2. EndAccepted(p) =>
            \/ staged = Package(img[p], op[p])
            \/ failed
            \/ xfer = "ending" /\ parts = Package(img[p], op[p])
      BY DEF SoleInv, EndDelivered
    <3>3. Package(img[p], op[p])' = Package(img[p], op[p])
      BY <1>1 DEF Package, NumBlocks
    <3> QED
      BY <1>1, <2>1, <3>1, <3>2, <3>3 DEF SoleUpdater, EndDelivered, deviceVars
  <2>3. QuietOnceDelivered' /\ CompleteMeansStaged'
    BY <2>1 DEF SoleUpdater, QuietOnceDelivered, CompleteMeansStaged
  <2> QED
    BY <1>3, <1>4, <2>2, <2>3 DEF DeliveryInv
<1>6. CASE MockOver(p)
  <2>1. pc'[p] = "abort"
    BY <1>0, <1>6 DEF MockOver, TypeOK
  <2>2. ~ EndAccepted(p)'
    BY <2>1 DEF EndAccepted
  <2> QED
    BY <1>3, <1>4, <2>1, <2>2, NothingDelivered DEF DeliveryInv
<1>7. CASE bo # "running" /\ BlockOver(p)
  <2>1. pc'[p] = "loop" /\ i'[p] = i[p] + 1
    BY <1>0, <1>7 DEF BlockOver, TypeOK
  <2>2. /\ i[p] \in Nat /\ NumBlocks(img[p]) \in Nat /\ i[p] < NumBlocks(img[p])
        /\ bo = "none"
    BY <1>0, <1>1, <1>7, BlocksType
       DEF SoleInv, SharedInv, BlockInRange, AtBlock, TypeOK, Opcodes
  <2>3. EndAccepted(p)' => EndAccepted(p)
    BY <1>1, <2>1, <2>2 DEF EndAccepted, NumBlocks
  <2>4. EndAccepted(p) => staged = Package(img[p], op[p]) \/ failed
    BY <2>2 DEF SoleInv, EndDelivered, TransferShape
  <2>5. EndDelivered'
    BY <1>1, <2>3, <2>4 DEF SoleUpdater, EndDelivered, deviceVars, Package, NumBlocks
  <2>6. QuietOnceDelivered' /\ CompleteMeansStaged'
    BY <1>1, <2>1, <2>2 DEF SoleUpdater, QuietOnceDelivered, CompleteMeansStaged, deviceVars
  <2> QED
    BY <1>3, <1>4, <2>5, <2>6 DEF DeliveryInv
<1> QED
  BY <1>1, <1>5, <1>6, <1>7

LEMMA TransferSole ==
  ASSUME SoleUpdater, SoleInv, NEW p \in Procs, Send(p) \/ Resend(p)
  PROVE  DeliveryInv'
<1>0. TypeOK
  BY DEF SoleInv, SharedInv
<1>1. pc[p] \in {"send", "resend"}
  BY <1>0, TransferCall
<1>2. PICK answer \in {-1, 0, 1}, count \in 0 .. MaxRetries + 1 :
        TransferFw(p, answer) /\ AfterTransfer(p, answer, count)
  BY <1>0, TransferCall
<1>3. /\ pc'[p] = IF answer = 0 THEN "poll" ELSE "resend"
      /\ UNCHANGED <<img, op, i>>
  BY <1>0, <1>2 DEF AfterTransfer, TypeOK
<1>4. QuietOnceDelivered' /\ CompleteMeansStaged'
  BY <1>3 DEF SoleUpdater, QuietOnceDelivered, CompleteMeansStaged
<1>5. CASE NoEffect(~ Accepts(p), answer)
  <2>1. UNCHANGED deviceVars /\ pc'[p] = "resend"
    BY <1>3, <1>5 DEF NoEffect
  <2>2. ~ EndAccepted(p)'
    BY <2>1 DEF EndAccepted
  <2>3. PartsOfRun'
    <3>1. i'[p] > 0 => Begins(img[p], op[p])
      BY <1>1, <1>3 DEF SoleInv, PartsOfRun, Working
    <3>2. Begins(img[p], op[p]) => Begins(img[p], op[p])'
      BY <1>3, <2>1, BeginsKept DEF Begins, deviceVars
    <3> QED
      BY <2>1, <3>1, <3>2 DEF SoleUpdater, PartsOfRun
  <2> QED
    BY <2>1, <2>2, <2>3, DeviceUntouched, NothingDelivered DEF DeliveryInv
<1>6. CASE Accepts(p) /\ (TakeNow(p) \/ TakeInBackground(p))
  <2>1. /\ TransferShape' /\ EndingIsWhole' /\ StagedIsWhole'
        /\ Len(parts') <= NumBlocks(img[p])
        /\ \A k \in 1 .. Len(parts') : parts'[k] = Package(img[p], op[p])[k]
        /\ ActionOf(img[p], i[p]) = "end" =>
             \/ staged' = Package(img[p], op[p])
             \/ xfer' = "ending" /\ parts' = Package(img[p], op[p])
    BY <1>1, <1>6, TakeEffect
  <2>2. PartsOfRun'
    <3>1. Begins(img[p], op[p])'
      BY <1>3, <2>1, BeginsKept
    <3> QED
      BY <3>1 DEF SoleUpdater, PartsOfRun
  <2>3. EndAccepted(p)' => ActionOf(img[p], i[p]) = "end"
    <3>1. i[p] \in Nat /\ NumBlocks(img[p]) \in Nat
      BY <1>0, BlocksType DEF TypeOK, Opcodes
    <3>2. EndAccepted(p)' => NumBlocks(img[p]) >= 2 /\ i[p] = NumBlocks(img[p]) - 1
      BY <1>3 DEF EndAccepted, NumBlocks
    <3> QED
      BY <3>1, <3>2 DEF ActionOf
  <2>4. EndDelivered'
    <3>1. Package(img[p], op[p])' = Package(img[p], op[p])
      BY <1>3 DEF Package, NumBlocks
    <3>2. EndAccepted(p)' =>
            \/ staged' = Package(img[p], op[p])
            \/ pc'[p] # "loop" /\ xfer' = "ending" /\ parts' = Package(img[p], op[p])
      BY <1>3, <2>1, <2>3
    <3> QED
      BY <3>1, <3>2 DEF SoleUpdater, EndDelivered
  <2> QED
    BY <1>4, <2>1, <2>2, <2>4 DEF DeliveryInv
<1> QED
  BY <1>2, <1>5, <1>6 DEF TransferFw

\* A package that is being checked while the driver still polls is its own.
LEMMA EndingIsOfRun ==
  ASSUME SoleInv, xfer = "ending", NEW p \in Procs, Begins(img[p], op[p])
  PROVE  parts = Package(img[p], op[p])
<1>0. parts \in Seq(Parts) /\ Len(parts) \in Nat /\ Len(parts) > 0 /\ img[p] \in Images
  BY DEF SoleInv, SharedInv, TypeOK, TransferShape
<1>1. PICK f \in Images, o \in Opcodes : parts = Package(f, o)
  BY DEF SoleInv, EndingIsWhole
<1>2. NumBlocks(f) \in Nat
  BY BlocksType
<1>3. Len(parts) = NumBlocks(f)
  <2>1. DOMAIN parts = 1 .. Len(parts)
    BY <1>0, LenProperties
  <2>2. DOMAIN parts = 1 .. NumBlocks(f)
    BY <1>1 DEF Package
  <2> QED
    BY <1>0, <1>2, <2>1, <2>2
<1>4. f = img[p]
  <2>0. NumBlocks(img[p]) \in Nat /\ Len(parts) <= NumBlocks(img[p])
    BY <1>0, BlocksType DEF Begins, Opcodes
  <2>1. 1 \in 1 .. Len(parts) /\ 1 \in 1 .. NumBlocks(f) /\ 1 \in 1 .. NumBlocks(img[p])
    BY <1>0, <1>2, <1>3, <2>0
  <2>2. parts[1].img = f
    BY <1>1, <2>1 DEF Package
  <2>3. parts[1] = Package(img[p], op[p])[1]
    BY <2>1 DEF Begins
  <2>4. Package(img[p], op[p])[1].img = img[p]
    BY <2>1 DEF Package
  <2> QED
    BY <2>2, <2>3, <2>4
<1> QED
  BY <1>0, <1>3, <1>4, AllPartsIsPackage DEF Begins

\* The device acts on its own: a background operation ends or an open transfer
\* is dropped.  What it has then is still the beginning of the same package.
LEMMA DeviceSole ==
  ASSUME SoleUpdater, SoleInv, DeviceStep
  PROVE  DeliveryInv'
<1>0. /\ UNCHANGED <<pc, img, op, i, how>>
      /\ parts \in Seq(Parts) /\ Len(parts) \in Nat
      /\ Len(<<>>) = 0
  BY DEF DeviceStep, BackgroundDone, BackgroundFails, DropTransfer, localVars,
         SoleInv, SharedInv, TypeOK
<1>1. ASSUME NEW p \in Procs
      PROVE  /\ Package(img[p], op[p])' = Package(img[p], op[p])
             /\ NumBlocks(img[p])' = NumBlocks(img[p])
             /\ NumBlocks(img[p]) \in Nat
             /\ EndAccepted(p)' <=> EndAccepted(p)
  BY <1>0, BlocksType
     DEF Package, NumBlocks, EndAccepted, SoleInv, SharedInv, TypeOK, Opcodes
<1>2. CASE BackgroundDone /\ xfer = "ending"
  <2>1. /\ bo = "running" /\ bo' = "none" /\ xfer' = "closed" /\ parts' = <<>>
        /\ staged' = parts /\ failed' = failed
    BY <1>2 DEF BackgroundDone
  <2>2. TransferShape' /\ EndingIsWhole'
    BY <2>1 DEF TransferShape, EndingIsWhole
  <2>3. StagedIsWhole'
    BY <1>2, <2>1 DEF SoleInv, EndingIsWhole, StagedIsWhole, Package, NumBlocks
  <2>4. PartsOfRun'
    BY <1>0, <1>1, <2>1 DEF PartsOfRun, Begins
  <2>5. EndDelivered'
    <3>1. ASSUME NEW p \in Procs, EndAccepted(p) PROVE staged' = Package(img[p], op[p])
      <4>1. pc[p] \in {"poll", "repoll"} /\ pc[p] \in Working
        BY <2>1, <3>1 DEF SoleInv, QuietOnceDelivered, EndAccepted, Working
      <4>2. Begins(img[p], op[p])
        BY <4>1 DEF SoleInv, PartsOfRun
      <4> QED
        BY <1>2, <2>1, <4>2, EndingIsOfRun
    <3> QED
      BY <1>0, <1>1, <3>1 DEF EndDelivered
  <2>6. QuietOnceDelivered'
    BY <2>1 DEF QuietOnceDelivered
  <2>7. CompleteMeansStaged'
    BY <1>0, <1>1, <2>1 DEF SoleInv, CompleteMeansStaged, QuietOnceDelivered
  <2> QED
    BY <2>2, <2>3, <2>4, <2>5, <2>6, <2>7 DEF DeliveryInv
<1>3. CASE BackgroundDone /\ xfer # "ending"
  <2>1. bo' = "none" /\ UNCHANGED <<xfer, parts, staged, failed>>
    BY <1>3 DEF BackgroundDone
  <2>2. TransferShape' /\ EndingIsWhole' /\ StagedIsWhole'
    BY <1>3, <2>1 DEF SoleInv, TransferShape, EndingIsWhole, StagedIsWhole,
                      Package, NumBlocks
  <2>3. PartsOfRun'
    BY <1>0, <1>1, <2>1 DEF SoleInv, PartsOfRun, Begins
  <2>4. EndDelivered' /\ QuietOnceDelivered' /\ CompleteMeansStaged'
    BY <1>0, <1>1, <1>3, <2>1
       DEF SoleInv, EndDelivered, QuietOnceDelivered, CompleteMeansStaged
  <2> QED
    BY <2>2, <2>3, <2>4 DEF DeliveryInv
<1>4. CASE BackgroundFails
  <2>1. /\ bo' = "none" /\ failed' = TRUE /\ staged' = staged
        /\ \/ xfer' = "closed" /\ parts' = <<>>
           \/ /\ xfer' = xfer /\ xfer # "ending" /\ Len(parts) # 1
              /\ parts' = SubSeq(parts, 1, Len(parts) - 1)
    BY <1>4 DEF BackgroundFails
  <2>2. /\ xfer' = xfer => Len(parts') > 0
        /\ xfer' # "ending"
        /\ Len(parts') <= Len(parts)
        /\ \A k \in 1 .. Len(parts') : parts'[k] = parts[k]
    <3>1. CASE xfer' = "closed" /\ parts' = <<>>
      <4>1. xfer # "closed"
        BY <1>4 DEF BackgroundFails, SoleInv, TransferShape
      <4> QED
        BY <1>0, <3>1, <4>1
    <3>2. CASE /\ xfer' = xfer /\ xfer # "ending" /\ Len(parts) # 1
               /\ parts' = SubSeq(parts, 1, Len(parts) - 1)
      <4>1. Len(parts) > 0
        BY <1>4 DEF BackgroundFails, SoleInv, TransferShape
      <4>1a. Len(parts) # 1
        BY <3>2
      <4>2. Len(parts) - 1 \in Nat /\ Len(parts) - 1 > 0
        BY <1>0, <4>1, <4>1a
      <4>3. /\ Len(parts') = Len(parts) - 1
            /\ \A k \in 1 .. Len(parts) - 1 : parts'[k] = parts[k]
        BY <1>0, <3>2, <4>2, SubSeqProperties
      <4> QED
        BY <1>0, <3>2, <4>2, <4>3
    <3> QED
      BY <2>1, <3>1, <3>2
  <2>3. TransferShape' /\ EndingIsWhole' /\ StagedIsWhole'
    BY <2>1, <2>2 DEF SoleInv, TransferShape, EndingIsWhole, StagedIsWhole,
                      Package, NumBlocks
  <2>4. PartsOfRun'
    <3>1. Len(parts') \in Nat
      BY <2>1, <1>0, <2>2
    <3> QED
      BY <1>0, <1>1, <2>2, <3>1 DEF SoleInv, PartsOfRun, Begins
  <2>5. EndDelivered' /\ QuietOnceDelivered' /\ CompleteMeansStaged'
    BY <2>1 DEF EndDelivered, QuietOnceDelivered, CompleteMeansStaged
  <2> QED
    BY <2>3, <2>4, <2>5 DEF DeliveryInv
<1>5. CASE DropTransfer
  <2>1. /\ xfer = "open" /\ bo = "none"
        /\ xfer' = "closed" /\ parts' = <<>> /\ UNCHANGED <<staged, bo, failed>>
    BY <1>5 DEF DropTransfer
  <2>2. TransferShape' /\ EndingIsWhole' /\ StagedIsWhole'
    BY <2>1 DEF SoleInv, TransferShape, EndingIsWhole, StagedIsWhole, Package, NumBlocks
  <2>3. PartsOfRun'
    BY <1>0, <1>1, <2>1 DEF PartsOfRun, Begins
  <2>4. EndDelivered' /\ QuietOnceDelivered' /\ CompleteMeansStaged'
    BY <1>0, <1>1, <2>1 DEF SoleInv, EndDelivered, QuietOnceDelivered, CompleteMeansStaged
  <2> QED
    BY <2>2, <2>3, <2>4 DEF DeliveryInv
<1> QED
  BY <1>2, <1>3, <1>4, <1>5 DEF DeviceStep

LEMMA NextSoleInv == SoleUpdater /\ SoleInv /\ [Next]_vars => SoleInv'
<1> SUFFICES ASSUME SoleUpdater, SoleInv, [Next]_vars PROVE SoleInv'
  OBVIOUS
<1>1. SharedInv'
  BY NextSharedInv DEF SoleInv
<1>2. DeliveryInv'
  <2>1. CASE UNCHANGED vars
    <3>1. UNCHANGED <<pc, localVars, deviceVars>>
      BY <2>1 DEF vars
    <3>2. PartsOfRun' /\ EndDelivered' /\ QuietOnceDelivered' /\ CompleteMeansStaged'
      <4>1. SoleInv /\ UNCHANGED <<pc, img, op, i, how, xfer, parts, staged, bo, failed>>
        BY <3>1 DEF localVars, deviceVars
      <4>a. ASSUME NEW p \in Procs
            PROVE  /\ Package(img[p], op[p])' = Package(img[p], op[p])
                   /\ Begins(img[p], op[p])' <=> Begins(img[p], op[p])
                   /\ EndAccepted(p)' <=> EndAccepted(p)
        <5>1. Package(img[p], op[p])' = Package(img[p], op[p])
          BY <4>1 DEF Package, NumBlocks
        <5>2. NumBlocks(img[p])' = NumBlocks(img[p])
          BY <4>1 DEF NumBlocks
        <5> QED
          BY <4>1, <5>1, <5>2 DEF Begins, EndAccepted
      <4>2. PartsOfRun'
        BY <4>1, <4>a DEF SoleInv, PartsOfRun
      <4>3. EndDelivered'
        BY <4>1, <4>a DEF SoleInv, EndDelivered
      <4>4. QuietOnceDelivered' /\ CompleteMeansStaged'
        BY <4>1 DEF SoleInv, QuietOnceDelivered, CompleteMeansStaged, EndAccepted, Package, NumBlocks
      <4> QED
        BY <4>2, <4>3, <4>4
    <3> QED
      BY <3>1, <3>2, DeviceUntouched DEF DeliveryInv
  <2>2. CASE Next
    BY <2>1, <2>2, StartSole, NextBlockSole, LeaveSole, LoopDoneSole, GiveUpSole,
       AbortSole, StatusSole, TransferSole, DeviceSole DEF Next, Step, AllRunsOver
  <2> QED
    BY <2>1, <2>2
<1> QED
  BY <1>1, <1>2 DEF SoleInv, DeliveryInv

\* The whole invariant of a single updater, which fw_sole checks as well: the
\* engine has only parts of the current run, in order, whatever the device
\* loses, refuses, repeats or drops between them.
THEOREM SoleInvInvariant == ASSUME SoleUpdater PROVE Spec => []SoleInv
<1>1. SoleInv /\ [Next]_vars => SoleInv'
  BY NextSoleInv
<1> QED
  BY InitSoleInv, <1>1, PTL DEF Spec

\* With one updater at a time, whatever is lost, refused, dropped or killed in
\* however many runs, a staged package is one whole file in order.
THEOREM StagedPackageIsWhole == ASSUME SoleUpdater PROVE Spec => []StagedIsWhole
<1>1. SoleInv => StagedIsWhole
  BY DEF SoleInv
<1> QED
  BY <1>1, SoleInvInvariant, PTL

\* ... and a run that ends complete has put its file there, unless the return
\* code of its last background operation, which it does not read, is an error.
THEOREM CompleteRunIsStaged == ASSUME SoleUpdater PROVE Spec => []CompleteMeansStaged
<1>1. SoleInv => CompleteMeansStaged
  BY DEF SoleInv
<1> QED
  BY <1>1, SoleInvInvariant, PTL

-----------------------------------------------------------------------------
(* A run that finds the device without a transfer delivers, if nothing fails. *)

\* No command and no memory fails, though processes may be killed and files may
\* be missing.
DeviceWorks ==
  Faults \cap {"refuse", "lostReq", "lostRsp", "background", "drop", "nomem"} = {}

\* A block sent on course is taken and answered.
LEMMA SendOnCourse ==
  ASSUME SoleInv, DeviceWorks, NEW p \in Procs, OnCourse(p), Send(p)
  PROVE  OnCourse(p)'
<1>0. /\ TypeOK
      /\ i[p] \in Nat /\ img[p] \in Images /\ op[p] \in Opcodes
      /\ NumBlocks(img[p]) \in Nat
      /\ i[p] < NumBlocks(img[p])
      /\ pc[p] = "send" /\ Sent(p) = i[p] /\ NumBlocks(img[p]) >= 2
  BY BlocksType DEF SoleInv, SharedInv, TypeOK, BlockInRange, AtBlock, Send, Sent, OnCourse
<1>1. Accepts(p)
  BY <1>0 DEF Accepts, ActionOf, OnCourse
<1>2. PICK answer \in {-1, 0, 1} : TransferFw(p, answer) /\ AfterTransfer(p, answer, 0)
  BY DEF Send
<1>3. TakeNow(p) /\ answer = 0
  BY <1>1, <1>2 DEF TransferFw, NoEffect, TakeInBackground, Heard, DeviceWorks
<1>4. /\ pc'[p] = "poll" /\ mock' = mock /\ UNCHANGED <<img, op, i>>
      /\ bo' = "none" /\ Sent(p)' = i[p] + 1
  BY <1>0, <1>2, <1>3 DEF AfterTransfer, TypeOK, TakeNow, OnCourse, Sent
<1>5. /\ NumBlocks(img[p])' = NumBlocks(img[p])
      /\ Package(img[p], op[p])' = Package(img[p], op[p])
  BY <1>4 DEF NumBlocks, Package
<1>6. CASE i[p] = NumBlocks(img[p]) - 1
  <2>1. ActionOf(img[p], i[p]) = "end"
    BY <1>0, <1>6 DEF ActionOf
  <2>2. xfer' = "closed"
    BY <1>3, <2>1 DEF TakeNow
  <2>3. staged' = Package(img[p], op[p]) \/ xfer' = "ending"
    BY <1>0, <1>1, <1>3, <2>1, TakeEffect
  <2> QED
    BY <1>0, <1>4, <1>5, <1>6, <2>2, <2>3 DEF OnCourse
<1>7. CASE i[p] # NumBlocks(img[p]) - 1
  <2>1. ActionOf(img[p], i[p]) # "end"
    BY <1>0, <1>7 DEF ActionOf
  <2>2. xfer' = "open" /\ Len(parts') = i[p] + 1
    BY <1>0, <1>1, <1>3, <2>1, WrittenType DEF TakeNow
  <2> QED
    BY <1>0, <1>4, <1>5, <1>7, <2>2 DEF OnCourse
<1> QED
  BY <1>6, <1>7

\* The steps of the driver itself.
LEMMA StepOnCourse ==
  ASSUME SoleInv, DeviceWorks, NEW p \in Procs, OnCourse(p), Step(p)
  PROVE  OnCourse(p)' \/ Delivered(p)'
<1>0. /\ TypeOK
      /\ i[p] \in Nat /\ NumBlocks(img[p]) \in Nat
      /\ pc[p] = "loop" => i[p] <= NumBlocks(img[p])
  BY BlocksType DEF SoleInv, SharedInv, TypeOK, LoopInRange, Opcodes
<1>1. CASE NextBlock(p)
  <2>1. /\ pc[p] = "loop" /\ pc'[p] = "send"
        /\ UNCHANGED <<mock, img, op, i, deviceVars>>
    BY <1>0, <1>1 DEF NextBlock, TypeOK
  <2> QED
    BY <2>1 DEF OnCourse, Sent, NumBlocks, Package, deviceVars
<1>2. CASE LoopDone(p)
  <2>1. /\ pc[p] = "loop" /\ pc'[p] = "exited" /\ how'[p] = "complete"
        /\ UNCHANGED <<img, op, i, deviceVars>>
    BY <1>0, <1>2 DEF LoopDone, Exit, TypeOK
  <2>2. Sent(p) = NumBlocks(img[p]) /\ Sent(p) # 0
    BY <1>0, <1>2 DEF LoopDone, OnCourse, Sent
  <2>3. staged = Package(img[p], op[p])
    BY <1>0, <2>2 DEF OnCourse
  <2> QED
    BY <2>1, <2>3 DEF Delivered, NumBlocks, Package, deviceVars
<1>3. CASE Poll(p)
  <2>1. PICK answer \in {-1, 0, 1} : HboStatus(answer) /\ AfterStatus(p, answer, 0)
    BY <1>3 DEF Poll
  <2>2. answer = 0 /\ UNCHANGED deviceVars
    BY <2>1 DEF HboStatus, Heard, DeviceWorks, OnCourse
  <2>3. BlockOver(p) /\ UNCHANGED <<img, op, mock>>
    BY <2>1, <2>2 DEF AfterStatus, MockOver, OnCourse
  <2>4. pc'[p] = "loop" /\ i'[p] = i[p] + 1 /\ pc[p] = "poll"
    BY <1>0, <1>3, <2>3 DEF BlockOver, TypeOK, Poll
  <2>5. Sent(p)' = Sent(p)
    BY <2>4 DEF Sent
  <2> QED
    BY <2>2, <2>3, <2>4, <2>5 DEF OnCourse, NumBlocks, Package, deviceVars
<1>4. CASE Send(p)
  BY <1>4, SendOnCourse
<1>5. ~ NoRequest(p) /\ ~ Resend(p) /\ ~ Repoll(p) /\ ~ GiveUp(p) /\ ~ Abort(p)
  BY DEF NoRequest, Resend, Repoll, GiveUp, Abort, DeviceWorks, OnCourse
<1> QED
  BY <1>1, <1>2, <1>3, <1>4, <1>5 DEF Step

\* The other steps: nobody else drives, and a device that is idle stays idle.
LEMMA NextOnCourse ==
  ASSUME SoleUpdater, SoleInv, DeviceWorks, NEW p \in Procs, OnCourse(p), [Next]_vars
  PROVE  OnCourse(p)' \/ Delivered(p)' \/ Killed(p)'
<1>1. CASE UNCHANGED vars
  BY <1>1 DEF OnCourse, Sent, NumBlocks, Package, vars, localVars, deviceVars
<1>2. CASE \E q \in Procs : Start(q) \/ StartFails(q) \/ Step(q) \/ Kill(q)
  <2>1. Start(p) \/ StartFails(p) \/ Step(p) \/ Kill(p)
    BY <1>2 DEF SoleUpdater
  <2>2. ~ Start(p) /\ ~ StartFails(p)
    BY DEF Start, StartFails, Begin, OnCourse
  <2>3. Kill(p) => Killed(p)'
    BY DEF Kill, Exit, Killed, SoleInv, SharedInv, TypeOK
  <2> QED
    BY <2>1, <2>2, <2>3, StepOnCourse
<1>3. ~ DeviceStep
  BY DEF DeviceStep, BackgroundDone, BackgroundFails, DropTransfer, OnCourse, DeviceWorks
<1> QED
  BY <1>1, <1>2, <1>3 DEF Next, AllRunsOver

\* A run that starts on a device without an open transfer, which may be the one
\* after any number of killed or aborted runs, needs no repetition and cannot
\* give up; with RunsShorten it delivers as long as it is scheduled and lives.
THEOREM FreshRunStaysOnCourse == ASSUME SoleUpdater, DeviceWorks PROVE Spec => StaysOnCourse
<1>1. SoleInv /\ [Next]_vars =>
        [\A p \in Procs :
           /\ Fresh(p) => OnCourse(p)
           /\ OnCourse(p) => OnCourse(p)' \/ Delivered(p)' \/ Killed(p)']_vars
  <2> SUFFICES ASSUME SoleInv, [Next]_vars, NEW p \in Procs
               PROVE  /\ Fresh(p) => OnCourse(p)
                      /\ OnCourse(p) => OnCourse(p)' \/ Delivered(p)' \/ Killed(p)'
    OBVIOUS
  <2>1. NumBlocks(img[p]) \in Nat
    BY BlocksType DEF SoleInv, SharedInv, TypeOK, Opcodes
  <2>2. Fresh(p) => OnCourse(p)
    BY <2>1 DEF Fresh, OnCourse, Sent
  <2> QED
    BY <2>2, NextOnCourse
<1> QED
  BY <1>1, SoleInvInvariant, PTL DEF Spec, StaysOnCourse
=============================================================================
