--------------------------- MODULE CmdActionProofs ---------------------------
(* Theorems about CmdAction for every set of device names, whichever devices  *)
(* are there, and command lines of any length.                                *)
EXTENDS CmdAction, FiniteSetTheorems, SequenceTheorems, TLAPS

LEMMA WordListsAreSequences ==
  ASSUME NEW words \in WordLists
  PROVE  words \in Seq(Words)
<1>1. PICK n \in 0 .. MaxWords : words \in [1 .. n -> Words]
  BY DEF WordLists
<1>2. n \in Nat
  BY <1>1, WordsAssumption
<1> QED
  BY <1>1, <1>2, SeqDef

LEMMA ExpandedType == TypeOK => Expanded \in Seq(Words)
<1>1. "mem0" \in Words /\ "mem1" \in Words
  BY WordsAssumption DEF Words
<1>2. <<"mem0", "mem1">> \in Seq(Words)
  BY <1>1
<1> QED
  BY <1>2 DEF TypeOK, Expanded

LEMMA EntriesType ==
  ASSUME NEW m \in Mems, NEW o \in Outcomes
  PROVE  [name |-> m, outcome |-> o] \in [name : Mems, outcome : Outcomes]
  OBVIOUS

LEMMA OutcomeType ==
  ASSUME NEW result \in Results
  PROVE  /\ OutcomeOf(result) \in Outcomes
         /\ OutcomeOf(result) = "done" <=> result = 0
  BY DEF Results, OutcomeOf, Outcomes

LEMMA InitTypeOK == Init => TypeOK
<1>1. \A S : <<>> \in Seq(S)
  BY EmptySeq
<1> QED
  BY <1>1 DEF Init, TypeOK, Results

LEMMA NextTypeOK == CmdInv /\ [Next]_vars => TypeOK'
<1> SUFFICES ASSUME CmdInv, [Next]_vars PROVE TypeOK'
  OBVIOUS
<1> USE DEF CmdInv
<1>1. CASE NoCommand \/ BadOption
  BY <1>1 DEF NoCommand, BadOption, Exit, TypeOK
<1>2. CASE Command
  <2>1. given' \in Seq(Words)
    BY <1>2, WordListsAreSequences DEF Command
  <2> QED
    BY <1>2, <2>1 DEF Command, Exit, TypeOK
<1>3. CASE Scan
  BY <1>3, ExpandedType DEF Scan, Exit, TypeOK
<1>4. CASE SkipWord
  BY <1>4, HeadTailProperties DEF SkipWord, TypeOK
<1>5. CASE OpenFails
  <2>1. [name |-> Head(argv), outcome |-> "unopened"] \in [name : Mems, outcome : Outcomes]
    BY <1>5, EntriesType DEF OpenFails, Outcomes
  <2>2. Tail(argv) \in Seq(Words)
    BY <1>5 DEF OpenFails, TypeOK
  <2> QED
    BY <1>5, <2>1, <2>2 DEF OpenFails, TypeOK
<1>6. CASE Open
  <2>1. Head(argv) \in Mems
    BY <1>6, WordsAssumption DEF Open
  <2> QED
    BY <1>6, <2>1 DEF Open, TypeOK
<1>7. CASE Act
  <2>1. PICK result \in Results :
          /\ rc' = result
          /\ count' = IF result = 0 THEN count + 1 ELSE count
          /\ log' = Append(log, [name |-> Head(eps), outcome |-> OutcomeOf(result)])
    BY <1>7 DEF Act
  <2>2. Head(eps) \in Mems
    <3>1. eps \in Seq(Mems) /\ Len(eps) = 1
      BY <1>7 DEF Act, TypeOK
    <3> QED
      BY <3>1
  <2>3. [name |-> Head(eps), outcome |-> OutcomeOf(result)]
          \in [name : Mems, outcome : Outcomes]
    BY <2>2, EntriesType, OutcomeType
  <2>4. log' \in Seq([name : Mems, outcome : Outcomes])
    BY <2>1, <2>3, AppendProperties DEF TypeOK
  <2> QED
    BY <1>7, <2>1, <2>4 DEF Act, TypeOK
<1>8. CASE Close
  <2>1. Tail(eps) \in Seq(Mems) /\ Tail(argv) \in Seq(Words)
    <3>1. eps \in Seq(Mems) /\ Len(eps) = 1 /\ argv \in Seq(Words) /\ argv # <<>>
      BY <1>8 DEF Close, TypeOK
    <3>2. eps # <<>>
      <4>1. Len(<<>>) = 0
        OBVIOUS
      <4>2. Len(eps) = 1
        BY <3>1
      <4> QED
        BY <4>1, <4>2
    <3> QED
      BY <3>1, <3>2, HeadTailProperties
  <2> QED
    BY <1>8, <2>1 DEF Close, TypeOK
<1>9. CASE Return
  BY <1>9 DEF Return, TypeOK, Results
<1>10. CASE Status
  BY <1>10 DEF Status, Exit, TypeOK
<1>11. CASE UNCHANGED vars
  BY <1>11 DEF vars, TypeOK
<1> QED
  BY <1>1, <1>2, <1>3, <1>4, <1>5, <1>6, <1>7, <1>8, <1>9, <1>10, <1>11 DEF Next, Exited

-----------------------------------------------------------------------------
(* Counting.                                                                  *)

LEMMA SucceededFinite == TypeOK => IsFiniteSet(Succeeded)
<1> SUFFICES ASSUME TypeOK PROVE IsFiniteSet(Succeeded)
  OBVIOUS
<1>1. Len(log) \in Nat
  BY DEF TypeOK
<1>2. Succeeded \subseteq 1 .. Len(log) /\ IsFiniteSet(1 .. Len(log))
  BY <1>1, FS_Interval DEF Succeeded
<1> QED
  BY <1>2, FS_Subset

\* One more entry in the log adds its success, and nothing else.
LEMMA SucceededGrows ==
  ASSUME TypeOK, NEW e \in [name : Mems, outcome : Outcomes], log' = Append(log, e),
         count = Cardinality(Succeeded)
  PROVE  Cardinality(Succeeded') = IF e.outcome = "done" THEN count + 1 ELSE count
<1> DEFINE n == Len(log)
<1>1. /\ n \in Nat
      /\ Len(log') = n + 1
      /\ \A k \in 1 .. n : log'[k] = log[k]
      /\ log'[n + 1] = e
  BY AppendProperties DEF TypeOK
<1>2. IsFiniteSet(Succeeded) /\ n + 1 \notin Succeeded
  <2>1. IsFiniteSet(Succeeded)
    BY SucceededFinite
  <2>2. Succeeded \subseteq 1 .. n
    BY DEF Succeeded
  <2> QED
    BY <1>1, <2>1, <2>2
<1>3. CASE e.outcome = "done"
  <2>1. Succeeded' = Succeeded \cup {n + 1}
    BY <1>1, <1>3 DEF Succeeded
  <2> QED
    BY <1>2, <1>3, <2>1, FS_AddElement
<1>4. CASE e.outcome # "done"
  <2>1. Succeeded' = Succeeded
    BY <1>1, <1>4 DEF Succeeded
  <2> QED
    BY <1>4, <2>1
<1> QED
  BY <1>3, <1>4

LEMMA InitCmdInv == Init => CmdInv
<1> SUFFICES ASSUME Init PROVE CmdInv
  OBVIOUS
<1>1. TypeOK
  BY InitTypeOK
<1>2. Succeeded = {}
  BY DEF Init, Succeeded
<1>3. Cardinality(Succeeded) = 0
  BY <1>2, FS_EmptySet
<1> QED
  BY <1>1, <1>3 DEF Init, CmdInv, EndpointsClosed

LEMMA NextCmdInv == CmdInv /\ [Next]_vars => CmdInv'
<1> SUFFICES ASSUME CmdInv, [Next]_vars PROVE CmdInv'
  OBVIOUS
<1>0. TypeOK /\ TypeOK'
  BY NextTypeOK DEF CmdInv
<1> USE DEF CmdInv, EndpointsClosed
<1>1. CASE NoCommand \/ BadOption
  <2>1. pc = "main" /\ pc' = "exited" /\ UNCHANGED <<eps, count, log, argv, ret>>
    BY <1>1 DEF NoCommand, BadOption, Exit
  <2> QED
    BY <1>0, <2>1 DEF Succeeded
<1>1a. CASE Command
  BY <1>0, <1>1a DEF Command, Exit, Succeeded
<1>1b. CASE Scan
  BY <1>0, <1>1b DEF Scan, Exit, Succeeded
<1>2. CASE SkipWord
  BY <1>0, <1>2 DEF SkipWord, Succeeded
<1>3. CASE OpenFails
  <2>1. [name |-> Head(argv), outcome |-> "unopened"] \in [name : Mems, outcome : Outcomes]
    BY <1>3, EntriesType DEF OpenFails, Outcomes
  <2>2. count = Cardinality(Succeeded')
    BY <1>0, <1>3, <2>1, SucceededGrows DEF OpenFails
  <2> QED
    BY <1>0, <1>3, <2>2 DEF OpenFails
<1>4. CASE Open
  <2>1. Head(argv) \in Mems /\ eps = <<>>
    BY <1>4, WordsAssumption DEF Open
  <2>2. Len(eps') = 1
    BY <1>0, <1>4, <2>1 DEF Open, TypeOK
  <2> QED
    BY <1>0, <1>4, <2>2 DEF Open, Succeeded
<1>5. CASE Act
  <2>1. PICK result \in Results :
          /\ rc' = result
          /\ count' = IF result = 0 THEN count + 1 ELSE count
          /\ log' = Append(log, [name |-> Head(eps), outcome |-> OutcomeOf(result)])
    BY <1>5 DEF Act
  <2>2. [name |-> Head(eps), outcome |-> OutcomeOf(result)]
          \in [name : Mems, outcome : Outcomes]
    BY <1>0, <1>5, EntriesType, OutcomeType DEF Act, TypeOK
  <2>3. count' = Cardinality(Succeeded')
    BY <1>0, <2>1, <2>2, SucceededGrows, OutcomeType
  <2> QED
    BY <1>0, <1>5, <2>3 DEF Act
<1>6. CASE Close
  <2>1. eps' = <<>>
    BY <1>0, <1>6 DEF Close, TypeOK
  <2> QED
    BY <1>0, <1>6, <2>1 DEF Close, Succeeded
<1>7. CASE Return
  BY <1>0, <1>7 DEF Return, Succeeded
<1>8. CASE Status
  BY <1>0, <1>8 DEF Status, Exit, Succeeded
<1>9. CASE UNCHANGED vars
  BY <1>0, <1>9 DEF vars, Succeeded
<1> QED
  BY <1>1, <1>1a, <1>1b, <1>2, <1>3, <1>4, <1>5, <1>6, <1>7, <1>8, <1>9 DEF Next, Exited

LEMMA CmdInvInvariant == Spec => []CmdInv
  BY InitCmdInv, NextCmdInv, PTL DEF Spec

\* The variables keep their types, whatever the command line.
THEOREM TypeCorrect == Spec => []TypeOK
<1>1. CmdInv => TypeOK
  BY DEF CmdInv
<1> QED
  BY <1>1, CmdInvInvariant, PTL

\* No device stays open: at most one endpoint exists, and none between words
\* or after the command.
THEOREM NoEndpointStaysOpen == Spec => []EndpointsClosed
<1>1. CmdInv => EndpointsClosed
  BY DEF CmdInv
<1> QED
  BY <1>1, CmdInvInvariant, PTL

\* cmd_action returns the number of devices its action succeeded on, if any.
THEOREM ResultIsSuccesses == Spec => []ResultCountsSuccesses
<1>1. CmdInv => ResultCountsSuccesses
  <2> SUFFICES ASSUME CmdInv, pc \in {"status", "exited"}, Succeeded # {}
               PROVE  ret = Cardinality(Succeeded)
    BY DEF ResultCountsSuccesses
  <2>1. IsFiniteSet(Succeeded)
    BY SucceededFinite DEF CmdInv
  <2>2. Cardinality(Succeeded) # 0 /\ Cardinality(Succeeded) \in Nat
    BY <2>1, FS_EmptySet, FS_CardinalityType
  <2> QED
    BY <2>2 DEF CmdInv
<1> QED
  BY <1>1, CmdInvInvariant, PTL

-----------------------------------------------------------------------------
(* Every device has its turn.                                                 *)

\* The next word counts if it is a device.
LEMMA RankGrows ==
  ASSUME NEW words, NEW n \in Nat
  PROVE  /\ Rank(words, n) \in Nat
         /\ Rank(words, n + 1) =
              IF words[n + 1] \in Mems THEN Rank(words, n) + 1 ELSE Rank(words, n)
<1> DEFINE Places(k) == {j \in 1 .. k : words[j] \in Mems}
<1>1. IsFiniteSet(Places(n))
  <2>1. IsFiniteSet(1 .. n) /\ Places(n) \in SUBSET (1 .. n)
    BY FS_Interval
  <2> QED
    BY <2>1, FS_Subset
<1>2. n + 1 \notin Places(n)
  OBVIOUS
<1>3. Places(n + 1) = IF words[n + 1] \in Mems THEN Places(n) \cup {n + 1} ELSE Places(n)
  OBVIOUS
<1>4. Cardinality(Places(n + 1)) =
        IF words[n + 1] \in Mems THEN Cardinality(Places(n)) + 1 ELSE Cardinality(Places(n))
  BY <1>1, <1>2, <1>3, FS_AddElement
<1> QED
  BY <1>1, <1>4, FS_CardinalityType DEF Rank

LEMMA RankOfNone == ASSUME NEW words PROVE Rank(words, 0) = 0
<1>1. {j \in 1 .. 0 : words[j] \in Mems} = {}
  OBVIOUS
<1> QED
  BY <1>1, FS_EmptySet DEF Rank

\* A device's place is among the entries for the words up to any later one.
LEMMA RankIsPlace ==
  ASSUME NEW words, NEW n \in Nat, NEW k \in 1 .. n, words[k] \in Mems
  PROVE  Rank(words, k) \in 1 .. Rank(words, n)
<1>1. /\ {j \in 1 .. k : words[j] \in Mems} \in SUBSET {j \in 1 .. n : words[j] \in Mems}
      /\ {j \in 1 .. n : words[j] \in Mems} \in SUBSET (1 .. n)
  OBVIOUS
<1>2. IsFiniteSet({j \in 1 .. n : words[j] \in Mems})
  <2>1. IsFiniteSet(1 .. n)
    BY FS_Interval
  <2> QED
    BY <1>1, <2>1, FS_Subset
<1>3. Rank(words, k) <= Rank(words, n)
  BY <1>1, <1>2, FS_Subset DEF Rank
<1>4. k - 1 \in Nat /\ (k - 1) + 1 = k
  OBVIOUS
<1>5. Rank(words, k) = Rank(words, k - 1) + 1 /\ Rank(words, k - 1) \in Nat
  BY <1>4, RankGrows
<1>6. Rank(words, n) \in Nat
  BY RankGrows
<1> QED
  BY <1>3, <1>5, <1>6

LEMMA WorkType == TypeOK => Work \in Seq(Words)
<1>1. "mem0" \in Words /\ "mem1" \in Words
  BY WordsAssumption DEF Words
<1>2. <<"mem0", "mem1">> \in Seq(Words)
  BY <1>1
<1> QED
  BY <1>2 DEF TypeOK, Work

\* A word that is no device needs no entry.
LEMMA TurnPassed ==
  ASSUME TypeOK, NEW n \in Nat, n < Len(Work), Work[n + 1] \notin Mems, Turns(n)
  PROVE  Turns(n + 1)
<1>1. Rank(Work, n + 1) = Rank(Work, n)
  BY RankGrows
<1>2. \A k \in 1 .. n + 1 : Work[k] \in Mems => k \in 1 .. n
  OBVIOUS
<1> QED
  BY <1>1, <1>2 DEF Turns

\* A device's entry goes where its rank says.
LEMMA TurnTaken ==
  ASSUME TypeOK, NEW n \in Nat, n < Len(Work), Work[n + 1] \in Mems, Turns(n),
         UNCHANGED given,
         NEW o \in Outcomes,
         log' = Append(log, [name |-> Work[n + 1], outcome |-> o])
  PROVE  Turns(n + 1)'
<1> DEFINE e == [name |-> Work[n + 1], outcome |-> o]
<1>1. Work' = Work
  BY DEF Work
<1>2. Rank(Work, n + 1) = Rank(Work, n) + 1 /\ Rank(Work, n) \in Nat
  BY RankGrows
<1>3. Len(log) = Rank(Work, n)
  BY DEF Turns
<1>4. e \in [name : Mems, outcome : Outcomes] /\ log \in Seq([name : Mems, outcome : Outcomes])
  BY EntriesType DEF TypeOK
<1>5. /\ Len(log') = Len(log) + 1
      /\ log'[Len(log) + 1] = e
      /\ \A k \in 1 .. Len(log) : log'[k] = log[k]
  BY <1>4, AppendProperties
<1>5a. e.name = Work[n + 1]
  OBVIOUS
<1> HIDE DEF e
<1>6. ASSUME NEW k \in 1 .. n + 1, Work[k] \in Mems
      PROVE  log'[Rank(Work, k)].name = Work[k]
  <2>1. CASE k = n + 1
    <3>1. log'[Rank(Work, k)] = e
      BY <1>2, <1>3, <1>5, <2>1
    <3> QED
      BY <1>5a, <2>1, <3>1
  <2>2. CASE k \in 1 .. n
    <3>1. Rank(Work, k) \in 1 .. Len(log)
      BY <1>3, <1>6, <2>2, RankIsPlace
    <3>2. log'[Rank(Work, k)] = log[Rank(Work, k)]
      BY <1>5, <3>1
    <3> QED
      BY <1>6, <2>2, <3>2 DEF Turns
  <2>3. k = n + 1 \/ k \in 1 .. n
    OBVIOUS
  <2> QED
    BY <2>1, <2>2, <2>3
<1>7. Len(log') = Rank(Work, n + 1)
  BY <1>2, <1>3, <1>5
<1>8. Turns(n + 1)' <=> /\ Len(log') = Rank(Work', n + 1)
                       /\ \A k \in 1 .. n + 1 : Work'[k] \in Mems
                            => log'[Rank(Work', k)].name = Work'[k]
  BY DEF Turns, Rank
<1> QED
  BY <1>1, <1>6, <1>7, <1>8

\* Every word is a bad name only if none is a device.
LEMMA BadNamesAll ==
  ASSUME TypeOK, ~SawAll, BadNames = Argc
  PROVE  \A k \in 1 .. Len(argv) : argv[k] \notin Mems
<1> DEFINE Bad == {k \in 1 .. Len(argv) :
                     /\ argv[k] \notin Mems \cup {"all"}
                     /\ \A j \in 1 .. k : argv[j] # "all"}
<1>1. Len(argv) \in Nat
  BY DEF TypeOK
<1>2. IsFiniteSet(1 .. Len(argv)) /\ Cardinality(1 .. Len(argv)) = Len(argv)
  <2>1. 1 \in Int /\ Len(argv) \in Int
    BY <1>1
  <2>2. /\ IsFiniteSet(1 .. Len(argv))
        /\ Cardinality(1 .. Len(argv)) = IF 1 > Len(argv) THEN 0 ELSE Len(argv) - 1 + 1
    BY <2>1, FS_Interval, Zenon
  <2> QED
    BY <1>1, <2>2
<1>3. Cardinality(Bad) = Len(argv)
  BY DEF BadNames, Argc
<1>4. Bad \in SUBSET (1 .. Len(argv))
  OBVIOUS
<1>5. Bad = 1 .. Len(argv)
  BY <1>2, <1>3, <1>4, FS_Subset
<1> QED
  BY <1>5

\* The first word left is the next one of Work.
LEMMA HeadIsNext ==
  ASSUME TypeOK, TurnInv, pc \in {"word", "act"}, argv # <<>>
  PROVE  /\ Worked \in Nat
         /\ Worked < Len(Work)
         /\ Work[Worked + 1] = Head(argv)
         /\ Turns(Worked)
<1>1. argv \in Seq(Words) /\ Work \in Seq(Words)
  BY WorkType DEF TypeOK
<1>2. Len(argv) \in Nat \ {0} /\ Len(Work) \in Nat /\ Len(argv) <= Len(Work)
  BY <1>1 DEF TurnInv
<1>3. Worked = Len(Work) - Len(argv)
  BY <1>2 DEF Worked
<1>4. argv[1] = Work[Len(Work) - Len(argv) + 1]
  BY <1>2 DEF TurnInv
<1> QED
  BY <1>1, <1>2, <1>3, <1>4 DEF TurnInv

\* Dropping the first word keeps the rest the last words of Work.
LEMMA TailIsLast ==
  ASSUME TypeOK, TurnInv, pc \in {"word", "act", "close"}, argv # <<>>,
         argv' = Tail(argv), UNCHANGED given
  PROVE  /\ Len(argv') = Len(argv) - 1
         /\ Len(argv') \in Nat
         /\ Len(argv') <= Len(Work')
         /\ \A j \in 1 .. Len(argv') : argv'[j] = Work'[Len(Work') - Len(argv') + j]
<1> DEFINE w == Work  n == Len(argv)
<1>1. argv \in Seq(Words) /\ w \in Seq(Words) /\ Work' = w
  BY WorkType DEF TypeOK, Work
<1>2. n \in Nat \ {0} /\ Len(w) \in Nat /\ n <= Len(w)
  BY <1>1 DEF TurnInv
<1>3. \A j \in 1 .. n : argv[j] = w[Len(w) - n + j]
  BY DEF TurnInv
<1>4. Len(argv') = n - 1 /\ \A j \in 1 .. n - 1 : argv'[j] = argv[j + 1]
  BY <1>1, <1>2, HeadTailProperties
<1> HIDE DEF w, n
<1>5. ASSUME NEW j \in 1 .. n - 1
      PROVE  argv'[j] = w[Len(w) - (n - 1) + j]
  <2>1. j + 1 \in 1 .. n /\ Len(w) - n + (j + 1) = Len(w) - (n - 1) + j
    BY <1>2
  <2> QED
    BY <1>3, <1>4, <2>1
<1>6. n - 1 \in Nat /\ n - 1 <= Len(w)
  BY <1>2
<1> QED
  BY <1>1, <1>4, <1>5, <1>6 DEF n

LEMMA InitTurnInv == Init => TurnInv
  BY DEF Init, TurnInv, EveryTargetHasItsTurn, UsageOnlyWithoutDevice

LEMMA NextTurnInv == CmdInv /\ TurnInv /\ [Next]_vars => TurnInv'
<1> SUFFICES ASSUME CmdInv, TurnInv, [Next]_vars PROVE TurnInv'
  OBVIOUS
<1>0. TypeOK /\ TypeOK'
  BY NextTypeOK DEF CmdInv
<1>1. CASE NoCommand \/ BadOption
  <2>1. /\ pc' = "exited" /\ given' = <<>> /\ log' = <<>>
    BY <1>1 DEF NoCommand, BadOption, Exit, TurnInv
  <2> QED
    BY <2>1 DEF TurnInv, EveryTargetHasItsTurn, UsageOnlyWithoutDevice
<1>2. CASE Command
  <2>1. log' = <<>> /\ argv' = given'
    BY <1>2 DEF Command, TurnInv
  <2>2. CASE given' = <<>>
    <3>1. pc' = "exited"
      BY <1>2, <2>2 DEF Command, Exit
    <3> QED
      BY <2>1, <2>2, <3>1 DEF TurnInv, EveryTargetHasItsTurn, UsageOnlyWithoutDevice
  <2>3. CASE given' # <<>>
    <3>1. pc' = "scan" /\ status' = -1
      BY <1>2, <2>3 DEF Command, TurnInv
    <3> QED
      BY <2>1, <3>1 DEF TurnInv, EveryTargetHasItsTurn, UsageOnlyWithoutDevice
  <2> QED
    BY <2>2, <2>3
<1>3. CASE Scan
  <2>1. argv = given /\ log = <<>> /\ given' = given /\ log' = log /\ status = -1
    BY <1>3 DEF Scan, TurnInv
  <2>2. CASE BadNames = Argc
    <3>1. pc' = "exited" /\ status' = 129
      BY <1>3, <2>2 DEF Scan, Exit
    <3>2. UsageOnlyWithoutDevice'
      <4>1. CASE SawAll
        BY <2>1, <4>1 DEF SawAll, UsageOnlyWithoutDevice
      <4>2. CASE ~SawAll
        BY <1>0, <2>1, <2>2, <4>2, BadNamesAll DEF UsageOnlyWithoutDevice
      <4> QED
        BY <4>1, <4>2
    <3> QED
      BY <3>1, <3>2 DEF TurnInv, EveryTargetHasItsTurn
  <2>3. CASE BadNames # Argc
    <3>1. pc' = "word" /\ status' = -1 /\ argv' = Expanded
      BY <1>3, <2>1, <2>3 DEF Scan
    <3>2. Work' = Work /\ Expanded = Work
      BY <2>1 DEF Work, Expanded, SawAll
    <3>3. Work \in Seq(Words) /\ Len(Work) \in Nat
      BY <1>0, WorkType
    <3>4. Worked' = 0
      BY <3>1, <3>2, <3>3 DEF Worked
    <3>5. Rank(Work', 0) = 0 /\ Len(log') = 0
      BY <2>1, RankOfNone
    <3>6. Turns(Worked)'
      BY <3>4, <3>5 DEF Turns, Rank
    <3>7. /\ Len(argv') <= Len(Work')
          /\ \A j \in 1 .. Len(argv') : argv'[j] = Work'[Len(Work') - Len(argv') + j]
      BY <3>1, <3>2, <3>3
    <3> QED
      BY <3>1, <3>6, <3>7 DEF TurnInv, EveryTargetHasItsTurn, UsageOnlyWithoutDevice
  <2> QED
    BY <2>2, <2>3
<1>4. CASE SkipWord
  <2>1. /\ pc = "word" /\ pc' = "word" /\ argv # <<>> /\ Head(argv) \notin Mems
        /\ argv' = Tail(argv) /\ UNCHANGED <<given, log, status>>
    BY <1>4 DEF SkipWord
  <2>2. Turns(Worked + 1) /\ Worked + 1 \in Nat
    BY <1>0, <2>1, HeadIsNext, TurnPassed
  <2>3. Worked' = Worked + 1 /\ Work' = Work
    <3>1. Len(argv) \in Nat /\ Len(Work) \in Nat
      BY <1>0, WorkType DEF TypeOK
    <3>2. Len(argv') = Len(argv) - 1 /\ Work' = Work
      BY <1>0, <2>1, TailIsLast DEF Work
    <3> QED
      BY <2>1, <3>1, <3>2 DEF Worked
  <2>4. Turns(Worked)'
    BY <2>1, <2>2, <2>3 DEF Turns, Rank
  <2> QED
    BY <1>0, <2>1, <2>4, TailIsLast DEF TurnInv, EveryTargetHasItsTurn, UsageOnlyWithoutDevice
<1>5. CASE OpenFails
  <2>1. /\ pc = "word" /\ pc' = "word" /\ argv # <<>> /\ Head(argv) \in Mems
        /\ argv' = Tail(argv) /\ UNCHANGED <<given, status>>
        /\ log' = Append(log, [name |-> Head(argv), outcome |-> "unopened"])
    BY <1>5 DEF OpenFails
  <2>2. PICK n \in Nat : n = Worked /\ n < Len(Work) /\ Work[n + 1] = Head(argv) /\ Turns(n)
    BY <1>0, <2>1, HeadIsNext
  <2>3. Turns(n + 1)'
    BY <1>0, <2>1, <2>2, TurnTaken DEF Outcomes
  <2>4. Worked' = n + 1
    <3>1. Len(argv) \in Nat /\ Len(Work) \in Nat
      BY <1>0, WorkType DEF TypeOK
    <3>2. Len(argv') = Len(argv) - 1 /\ Work' = Work
      BY <1>0, <2>1, TailIsLast DEF Work
    <3> QED
      BY <2>1, <2>2, <3>1, <3>2 DEF Worked
  <2>5. Turns(Worked)'
    BY <2>3, <2>4
  <2> QED
    BY <1>0, <2>1, <2>5, TailIsLast DEF TurnInv, EveryTargetHasItsTurn, UsageOnlyWithoutDevice
<1>6. CASE Open
  <2>1. /\ pc = "word" /\ pc' = "act" /\ argv # <<>> /\ eps' = Append(eps, Head(argv))
        /\ UNCHANGED <<given, argv, log, status>>
    BY <1>6 DEF Open
  <2>2. eps = <<>>
    BY <2>1 DEF CmdInv, EndpointsClosed
  <2>3. Head(eps') = Head(argv')
    BY <2>1, <2>2
  <2>4. Work' = Work /\ Worked' = Worked
    BY <2>1 DEF Work, Worked
  <2>5. Turns(Worked)'
    BY <2>1, <2>4 DEF TurnInv, Turns, Rank
  <2> QED
    BY <2>1, <2>3, <2>4, <2>5 DEF TurnInv, EveryTargetHasItsTurn, UsageOnlyWithoutDevice
<1>7. CASE Act
  <2>1. /\ pc = "act" /\ pc' = "close" /\ argv # <<>> /\ UNCHANGED <<given, argv, status>>
    BY <1>7 DEF Act, CmdInv
  <2>2. PICK result \in Results :
          log' = Append(log, [name |-> Head(eps), outcome |-> OutcomeOf(result)])
    BY <1>7 DEF Act
  <2>3. Head(eps) \in Mems /\ Head(eps) = Head(argv)
    <3>1. eps \in Seq(Mems) /\ Len(eps) = 1
      BY <1>0, <2>1 DEF TypeOK, CmdInv
    <3>2. Head(eps) \in Mems
      <4>1. eps[1] \in Mems
        BY <3>1, ElementOfSeq
      <4> QED
        BY <3>1, <4>1
    <3> QED
      BY <2>1, <3>2 DEF TurnInv
  <2>4. OutcomeOf(result) \in Outcomes
    BY OutcomeType
  <2>5. PICK n \in Nat : n = Worked /\ n < Len(Work) /\ Work[n + 1] = Head(argv) /\ Turns(n)
    BY <1>0, <2>1, HeadIsNext
  <2>6. Turns(n + 1)'
    BY <1>0, <2>1, <2>2, <2>3, <2>4, <2>5, TurnTaken
  <2>7. Worked' = n + 1 /\ Work' = Work
    <3>1. Len(argv) \in Nat /\ Len(Work) \in Nat
      BY <1>0, WorkType DEF TypeOK
    <3> QED
      BY <2>1, <2>5, <3>1 DEF Worked, Work
  <2>8. Turns(Worked)'
    BY <2>6, <2>7
  <2> QED
    BY <2>1, <2>7, <2>8 DEF TurnInv, EveryTargetHasItsTurn, UsageOnlyWithoutDevice
<1>8. CASE Close
  <2>1. /\ pc = "close" /\ pc' = "word" /\ argv # <<>>
        /\ argv' = Tail(argv) /\ UNCHANGED <<given, log, status>>
    BY <1>8 DEF Close, CmdInv
  <2>2. Worked' = Worked /\ Work' = Work
    <3>1. Len(argv) \in Nat /\ Len(Work) \in Nat
      BY <1>0, WorkType DEF TypeOK
    <3>2. Len(argv') = Len(argv) - 1 /\ Work' = Work
      BY <1>0, <2>1, TailIsLast DEF Work
    <3> QED
      BY <2>1, <3>1, <3>2 DEF Worked
  <2>3. Turns(Worked)'
    BY <2>1, <2>2 DEF TurnInv, Turns, Rank
  <2> QED
    BY <1>0, <2>1, <2>3, TailIsLast DEF TurnInv, EveryTargetHasItsTurn, UsageOnlyWithoutDevice
<1>9. CASE Return
  <2>1. /\ pc = "word" /\ pc' = "status" /\ argv = <<>>
        /\ UNCHANGED <<given, argv, log, status>>
    BY <1>9 DEF Return
  <2>2. Worked = Len(Work) /\ Work' = Work
    <3>1. Len(Work) \in Nat /\ Len(argv) = 0
      BY <1>0, <2>1, WorkType
    <3> QED
      BY <2>1, <3>1 DEF Worked, Work
  <2>3. Turns(Len(Work))'
    BY <2>1, <2>2 DEF TurnInv, Turns, Rank
  <2> QED
    BY <2>1, <2>3 DEF TurnInv, EveryTargetHasItsTurn, UsageOnlyWithoutDevice
<1>10. CASE Status
  <2>1. /\ pc = "status" /\ pc' = "exited" /\ status = -1 /\ status' \in {0, 1}
        /\ UNCHANGED <<given, argv, log>>
    BY <1>10 DEF Status, Exit, TurnInv
  <2>2. Work' = Work
    BY <2>1 DEF Work
  <2>3. EveryTargetHasItsTurn'
    <3>1. EveryTargetHasItsTurn /\ status # 129
      BY <2>1 DEF TurnInv
    <3>2. given # <<>> => Turns(Len(Work))
      BY <2>1, <3>1 DEF EveryTargetHasItsTurn
    <3>3. Turns(Len(Work)) => Turns(Len(Work))'
      BY <2>1, <2>2 DEF Turns, Rank
    <3> QED
      BY <2>1, <3>2, <3>3 DEF EveryTargetHasItsTurn
  <2> QED
    BY <2>1, <2>3 DEF TurnInv, UsageOnlyWithoutDevice
<1>11. CASE UNCHANGED vars
  <2>1. Work' = Work /\ Worked' = Worked
    BY <1>11 DEF vars, Work, Worked
  <2> QED
    BY <1>11, <2>1 DEF vars, TurnInv, EveryTargetHasItsTurn, UsageOnlyWithoutDevice, Turns, Rank
<1> QED
  BY <1>1, <1>2, <1>3, <1>4, <1>5, <1>6, <1>7, <1>8, <1>9, <1>10, <1>11 DEF Next, Exited

LEMMA TurnInvInvariant == Spec => []TurnInv
<1>1. (CmdInv /\ TurnInv) /\ [Next]_vars => TurnInv'
  BY NextTurnInv
<1> QED
  BY InitTurnInv, CmdInvInvariant, <1>1, PTL DEF Spec

\* Whatever device cannot be opened and whatever its command returns, every
\* device of a command line of any length has its turn, once and in order.
THEOREM EveryTargetWorkedOn == Spec => []EveryTargetHasItsTurn
<1>1. TurnInv => EveryTargetHasItsTurn
  BY DEF TurnInv
<1> QED
  BY <1>1, TurnInvInvariant, PTL

\* A command line of any length gets the usage only if it names no device, or
\* "all", and no device was touched before.
THEOREM UsageWithoutDevice == Spec => []UsageOnlyWithoutDevice
<1>1. TurnInv => UsageOnlyWithoutDevice
  BY DEF TurnInv
<1> QED
  BY <1>1, TurnInvInvariant, PTL

-----------------------------------------------------------------------------
(* Every step brings the end nearer.                                          *)

\* Three times a length, as a number.
LEMMA ThriceLen ==
  ASSUME NEW S, NEW s \in Seq(S)
  PROVE  /\ Len(s) \in Nat
         /\ 3 * Len(s) \in Nat
         /\ s # <<>> => 3 * Len(s) = 3 * Len(Tail(s)) + 3 /\ 3 * Len(Tail(s)) \in Nat
<1>1. Len(s) \in Nat
  BY LenProperties
<1>2. ASSUME s # <<>> PROVE Len(Tail(s)) = Len(s) - 1 /\ Len(s) # 0
  BY <1>2, EmptySeq, HeadTailProperties
<1> QED
  BY <1>1, <1>2

LEMMA NextNearer ==
  CmdInv /\ Next /\ pc # "main" => StepsLeft' \in 0 .. StepsLeft - 1 \/ UNCHANGED vars
<1> SUFFICES ASSUME CmdInv, Next, pc # "main", ~ UNCHANGED vars
             PROVE  StepsLeft' \in 0 .. StepsLeft - 1
  OBVIOUS
<1>0. TypeOK /\ argv \in Seq(Words) /\ (pc \in {"act", "close"} => argv # <<>>)
  BY DEF CmdInv, TypeOK
<1>1. 3 * Len(argv) \in Nat /\ 3 * Len(Expanded) \in Nat
  BY <1>0, ExpandedType, ThriceLen
<1>2. argv # <<>> => 3 * Len(argv) = 3 * Len(Tail(argv)) + 3 /\ 3 * Len(Tail(argv)) \in Nat
  BY <1>0, ThriceLen
<1>3. CASE Scan
  <2>1. StepsLeft = 3 * Len(Expanded) + 3
    BY <1>3 DEF Scan, StepsLeft
  <2>2. CASE pc' = "word" /\ argv' = Expanded
    <3>1. StepsLeft' = 3 * Len(Expanded) + 2
      BY <2>2 DEF StepsLeft
    <3> QED
      BY <1>1, <2>1, <3>1
  <2>3. CASE pc' = "exited"
    <3>1. StepsLeft' = 0
      BY <2>3 DEF StepsLeft
    <3> QED
      BY <1>1, <2>1, <3>1
  <2> QED
    BY <1>3, <2>2, <2>3 DEF Scan, Exit
<1>4. CASE SkipWord \/ OpenFails
  <2>1. argv # <<>> /\ pc = "word" /\ pc' = "word" /\ argv' = Tail(argv)
    BY <1>4 DEF SkipWord, OpenFails
  <2>2. StepsLeft = 3 * Len(argv) + 2 /\ StepsLeft' = 3 * Len(Tail(argv)) + 2
    BY <2>1 DEF StepsLeft
  <2> QED
    BY <1>2, <2>1, <2>2
<1>5. CASE Open
  <2>1. StepsLeft = 3 * Len(argv) + 2 /\ StepsLeft' = 3 * Len(argv) + 1
    BY <1>5 DEF Open, StepsLeft
  <2> QED
    BY <1>1, <2>1
<1>6. CASE Act
  <2>1. StepsLeft = 3 * Len(argv) + 1 /\ StepsLeft' = 3 * Len(argv)
    BY <1>6 DEF Act, StepsLeft
  <2> QED
    BY <1>1, <2>1
<1>7. CASE Close
  <2>1. pc = "close" /\ pc' = "word" /\ argv' = Tail(argv)
    BY <1>7 DEF Close
  <2>2. StepsLeft = 3 * Len(argv) /\ StepsLeft' = 3 * Len(Tail(argv)) + 2
    BY <2>1 DEF StepsLeft
  <2> QED
    BY <1>0, <1>2, <2>1, <2>2
<1>8. CASE Return
  <2>1. Len(argv) = 0
    BY <1>8 DEF Return
  <2>2. StepsLeft = 3 * Len(argv) + 2 /\ StepsLeft' = 1
    BY <1>8 DEF Return, StepsLeft
  <2> QED
    BY <2>1, <2>2
<1>9. CASE Status
  <2>1. StepsLeft = 1 /\ StepsLeft' = 0
    BY <1>9 DEF Status, Exit, StepsLeft
  <2> QED
    BY <2>1
<1>10. ~ (NoCommand \/ BadOption \/ Command \/ Exited)
  BY DEF NoCommand, BadOption, Command, Exited
<1> QED
  BY <1>3, <1>4, <1>5, <1>6, <1>7, <1>8, <1>9, <1>10 DEF Next

\* However many words there are, each step after the first brings the end of
\* the invocation nearer: it ends after at most three steps a word.
THEOREM EndAlwaysNearer == Spec => EndComesNearer
<1>1. CmdInv /\ [Next]_vars => [pc # "main" => StepsLeft' \in 0 .. StepsLeft - 1]_vars
  BY NextNearer
<1> QED
  BY <1>1, CmdInvInvariant, PTL DEF Spec, EndComesNearer
=============================================================================
