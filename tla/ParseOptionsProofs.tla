------------------------- MODULE ParseOptionsProofs -------------------------
(* Theorems about ParseOptions, for every table of options and every line.    *)
EXTENDS ParseOptions, FiniteSetTheorems, SequenceTheorems, WellFoundedInduction, TLAPS

Shape ==
  /\ typed \in Cases
  /\ argv \in [0 .. Length + 1 -> Text \cup {Null}]
  /\ at \in Nat
  /\ argc \in Nat
  /\ cpidx \in Nat
  /\ opt # Null => opt \in Text /\ opt # <<>>
  /\ from \in Seq(1 .. Length)
  /\ outcome \in {"parsing", "done"} \cup Stops

\* While words are read: where the reader stands, and that it stands behind
\* everything that is kept.
Place ==
  outcome = "parsing" =>
    /\ at >= 1
    /\ at + argc = Length + 1
    /\ cpidx < at
    /\ \A k \in 1 .. cpidx : from[k] < at

IInv == Shape /\ Place /\ LeftInOrder /\ NothingLeftOver

-----------------------------------------------------------------------------
(* What a step may do, whatever the options are.                              *)

SameLeft == UNCHANGED <<typed, argv, cpidx, outcome, from>>

LEMMA LineIsText == Shape => Line \in Seq(Text) /\ Length \in Nat
<1>1. Shape => Line \in Seq(Text)
  BY CasesAssumption, Zenon DEF Shape, Line
<1>2. \A s \in Seq(Text) : Len(s) \in Nat
  OBVIOUS
<1> QED
  BY <1>1, <1>2 DEF Length

\* The word in hand is a word of the line.
LEMMA HandIsText ==
  ASSUME IInv, outcome = "parsing", argc > 0
  PROVE  /\ Hand = Line[at]
         /\ Hand \in Text
         /\ at \in 1 .. Length
<1>1. Line \in Seq(Text) /\ Length \in Nat
  BY LineIsText DEF IInv
<1>2. at \in 1 .. Length
  BY <1>1 DEF IInv, Place, Shape
<1>3. Hand = Line[at]
  BY <1>1, <1>2 DEF IInv, LeftInOrder, Hand, Shape
<1>4. Line[at] \in Text
  BY <1>1, <1>2, ElementOfSeq, Zenon DEF Length
<1> QED
  BY <1>2, <1>3, <1>4

\* A value ends the word and takes at most the next one; only a flag among
\* letters leaves a rest.
LEMMA GetValueReads ==
  ASSUME IInv, outcome = "parsing", argc > 0,
         NEW o, NEW unset \in BOOLEAN, NEW short \in BOOLEAN, NEW rest,
         GetValue(o, unset, short, rest)
  PROVE  \/ Exit("usage")
         \/ SameLeft /\ opt' = Null /\ \E n \in 1 .. 2 : n <= argc /\ Advance(n)
         \/ SameLeft /\ UNCHANGED <<at, argc>> /\ short /\ rest # Null /\ opt' = rest
<1>1. CASE ~ Accepts(o, unset, short, rest)
  BY <1>1 DEF GetValue
<1>2. CASE Accepts(o, unset, short, rest) /\ LeavesRest(o, rest)
  BY <1>2 DEF GetValue, SameLeft, LeavesRest, Accepts
<1>3. CASE Accepts(o, unset, short, rest) /\ ~ LeavesRest(o, rest)
  <2>1. SameLeft /\ opt' = Null /\ Advance(IF TakesNextWord(o, unset, rest) THEN 2 ELSE 1)
    BY <1>3 DEF GetValue, SameLeft
  <2>2. TakesNextWord(o, unset, rest) => argc >= 2
    <3>1. TakesNextWord(o, unset, rest) => argc > 1
      BY <1>3 DEF Accepts, TakesNextWord, HasArg, Valued
    <3> QED
      BY <3>1 DEF IInv, Shape
  <2> QED
    BY <2>1, <2>2 DEF IInv, Shape
<1> QED
  BY <1>1, <1>2, <1>3

\* What the four ways to read an option come to: an exit, a word or two that are
\* done with, or letters that are left.
Reads ==
  \/ \E why \in Stops : Exit(why)
  \/ SameLeft /\ opt' = Null /\ \E n \in 1 .. 2 : n <= argc /\ Advance(n)
  \/ /\ SameLeft /\ UNCHANGED <<at, argc>>
     /\ opt' # Null
     /\ IsOption(Hand) /\ ~ IsLong(Hand)
     /\ \E n \in 3 .. Len(Hand) : opt' = SubSeq(Hand, n, Len(Hand))
     /\ Len(opt') < Unread

LEMMA SwitchReads ==
  ASSUME IInv, outcome = "parsing", argc > 0, NEW letters, Switch(letters)
  PROVE  \/ \E why \in Stops : Exit(why)
         \/ SameLeft /\ opt' = Null /\ \E n \in 1 .. 2 : n <= argc /\ Advance(n)
         \/ SameLeft /\ UNCHANGED <<at, argc>> /\ Len(letters) > 1 /\ opt' # Null /\ opt' = Tail(letters)
<1> DEFINE rest == IF Len(letters) > 1 THEN Tail(letters) ELSE Null
<1>1. CASE WithLetter(Head(letters)) = {}
  BY <1>1 DEF Switch, Stops
<1>2. CASE WithLetter(Head(letters)) # {}
  <2>1. GetValue(First(WithLetter(Head(letters))), FALSE, TRUE, rest)
    BY <1>2 DEF Switch
  <2> HIDE DEF rest
  <2>2. \/ Exit("usage")
        \/ SameLeft /\ opt' = Null /\ \E n \in 1 .. 2 : n <= argc /\ Advance(n)
        \/ SameLeft /\ UNCHANGED <<at, argc>> /\ rest # Null /\ opt' = rest
    BY <2>1, GetValueReads
  <2> QED
    BY <2>2 DEF rest, Stops
<1> QED
  BY <1>1, <1>2

LEMMA TailOfTail ==
  ASSUME NEW word \in Text, Len(word) > 2
  PROVE  /\ Tail(Tail(word)) = SubSeq(word, 3, Len(word))
         /\ Len(Tail(Tail(word))) < Len(word)
  BY DEF Text

LEMMA TailOfRest ==
  ASSUME NEW word \in Text, NEW n \in 3 .. Len(word), Len(SubSeq(word, n, Len(word))) > 1
  PROVE  /\ n + 1 \in 3 .. Len(word)
         /\ Tail(SubSeq(word, n, Len(word))) = SubSeq(word, n + 1, Len(word))
         /\ Len(Tail(SubSeq(word, n, Len(word)))) < Len(SubSeq(word, n, Len(word)))
  BY DEF Text

LEMMA RestOfWord ==
  ASSUME NEW word \in Text, NEW n \in 3 .. Len(word)
  PROVE  SubSeq(word, n, Len(word)) \in Text /\ SubSeq(word, n, Len(word)) # <<>>
<1>1. word \in Seq(STRING) /\ Len(word) \in Nat
  BY DEF Text
<1>2. Len(SubSeq(word, n, Len(word))) = Len(word) - n + 1
  BY <1>1, SubSeqProperties
<1>3. SubSeq(word, n, Len(word)) \in Seq(STRING)
  BY <1>1, SubSeqProperties
<1>4. Len(SubSeq(word, n, Len(word))) # 0
  BY <1>1, <1>2
<1>5. Len(<<>>) = 0
  OBVIOUS
<1>6. SubSeq(word, n, Len(word)) # <<>>
  BY <1>4, <1>5, Zenon
<1> QED
  BY <1>3, <1>6 DEF Text

LEMMA FirstSwitchReads == IInv /\ FirstSwitch => Reads
<1> SUFFICES ASSUME IInv, FirstSwitch PROVE Reads
  OBVIOUS
<1>1. outcome = "parsing" /\ argc > 0 /\ opt = Null /\ IsOption(Hand) /\ ~ IsLong(Hand)
  BY DEF FirstSwitch, InHand
<1>2. Hand \in Text
  BY <1>1, HandIsText
<1>3. (\E why \in Stops : Exit(why)) \/ Switch(Tail(Hand))
  BY Zenon DEF FirstSwitch, Stops
<1>4. CASE Switch(Tail(Hand))
  <2>1. \/ \E why \in Stops : Exit(why)
        \/ SameLeft /\ opt' = Null /\ \E n \in 1 .. 2 : n <= argc /\ Advance(n)
        \/ /\ SameLeft /\ UNCHANGED <<at, argc>>
           /\ Len(Tail(Hand)) > 1 /\ opt' # Null /\ opt' = Tail(Tail(Hand))
    BY <1>1, <1>4, SwitchReads, Zenon
  <2>2. ASSUME Len(Tail(Hand)) > 1
        PROVE  /\ Len(Hand) > 2
               /\ Tail(Tail(Hand)) = SubSeq(Hand, 3, Len(Hand))
               /\ Len(Tail(Tail(Hand))) < Len(Hand)
    <3>1. Len(Hand) \in Nat /\ Len(Hand) >= 2
      BY <1>1, <1>2 DEF IsOption, Text
    <3>2. Len(Hand) > 2
      BY <1>2, <2>2, <3>1 DEF Text
    <3> QED
      BY <1>2, <3>2, TailOfTail
  <2>3. Unread = Len(Hand)
    BY <1>1 DEF Unread
  <2>4. Len(Hand) \in Nat
    BY <1>2 DEF Text
  <2> QED
    BY <1>1, <2>1, <2>2, <2>3, <2>4 DEF Reads
<1> QED
  BY <1>3, <1>4 DEF Reads

LEMMA NextSwitchReads == IInv /\ NextSwitch => Reads
<1> SUFFICES ASSUME IInv, NextSwitch PROVE Reads
  OBVIOUS
<1>1. outcome = "parsing" /\ opt # Null
  BY DEF NextSwitch
<1>2. /\ argc > 0
      /\ IsOption(Hand) /\ ~ IsLong(Hand)
      /\ \E n \in 3 .. Len(Hand) : opt = SubSeq(Hand, n, Len(Hand))
  BY <1>1 DEF IInv, NothingLeftOver
<1>3. PICK n \in 3 .. Len(Hand) : opt = SubSeq(Hand, n, Len(Hand))
  BY <1>2
<1>4. Hand \in Text
  BY <1>1, <1>2, HandIsText
<1>5. (\E why \in Stops : Exit(why)) \/ Switch(opt)
  BY Zenon DEF NextSwitch, Stops
<1>6. CASE Switch(opt)
  <2>1. \/ \E why \in Stops : Exit(why)
        \/ SameLeft /\ opt' = Null /\ \E k \in 1 .. 2 : k <= argc /\ Advance(k)
        \/ /\ SameLeft /\ UNCHANGED <<at, argc>>
           /\ Len(opt) > 1 /\ opt' # Null /\ opt' = Tail(opt)
    BY <1>1, <1>2, <1>6, SwitchReads, Zenon
  <2>2. ASSUME Len(opt) > 1
        PROVE  /\ n + 1 \in 3 .. Len(Hand)
               /\ Tail(opt) = SubSeq(Hand, n + 1, Len(Hand))
               /\ Len(Tail(opt)) < Len(opt)
    BY <1>3, <1>4, <2>2, TailOfRest
  <2>3. Unread = Len(opt)
    BY <1>1 DEF Unread
  <2> QED
    BY <1>2, <2>1, <2>2, <2>3 DEF Reads
<1> QED
  BY <1>5, <1>6 DEF Reads

LEMMA LongOptionReads == IInv /\ LongOption => Reads
<1> SUFFICES ASSUME IInv, LongOption PROVE Reads
  OBVIOUS
<1>1. outcome = "parsing" /\ argc > 0
  BY DEF LongOption, InHand
<1> DEFINE arg == Without(Hand, Dashes)
<1>2. (\E why \in Stops : Exit(why)) \/ Long(arg)
  BY Zenon DEF LongOption, Stops
<1> HIDE DEF arg
<1>3. CASE Long(arg)
  <2>1. \/ \E why \in Stops : Exit(why)
        \/ \E o, rest : \E unset \in BOOLEAN : GetValue(o, unset, FALSE, rest)
    <3>1. \A o : ExactNegated(arg, o) \in BOOLEAN /\ AbbreviatesNegated(arg, o) \in BOOLEAN
      BY DEF ExactNegated, AbbreviatesNegated
    <3> QED
      BY <1>3, <3>1, Zenon DEF Long, Stops
  <2>2. ASSUME NEW o, NEW rest, NEW unset \in BOOLEAN, GetValue(o, unset, FALSE, rest)
        PROVE  \/ Exit("usage")
               \/ SameLeft /\ opt' = Null /\ \E n \in 1 .. 2 : n <= argc /\ Advance(n)
    BY <1>1, <2>2, GetValueReads, Zenon
  <2> QED
    BY <2>1, <2>2, Zenon DEF Reads, Stops
<1> QED
  BY <1>2, <1>3, Zenon DEF Reads

-----------------------------------------------------------------------------
(* The invariant.                                                             *)

LEMMA SameLine == SameLeft \/ UNCHANGED typed => Line' = Line /\ Length' = Length
  BY DEF SameLeft, Line, Length

LEMMA InitInv == Init => IInv
<1> SUFFICES ASSUME Init PROVE IInv
  OBVIOUS
<1>1. typed \in Cases /\ Line \in Seq(Text)
  BY CasesAssumption, Zenon DEF Init, Line
<1>2. Length \in Nat /\ \A k \in 1 .. Length : Line[k] \in Text
  BY <1>1, ElementOfSeq DEF Length
<1>3. <<>> \in Text
  BY DEF Text
<1>4. \A k \in 0 .. Length + 1 :
        (IF k = 0 THEN <<>> ELSE IF k <= Length THEN Line[k] ELSE Null) \in Text \cup {Null}
  BY <1>2, <1>3
<1>5. argv \in [0 .. Length + 1 -> Text \cup {Null}]
  BY <1>4 DEF Init
<1>6. Shape
  BY <1>1, <1>2, <1>5 DEF Init, Shape
<1>7. Place
  BY <1>2 DEF Init, Place
<1>8. LeftInOrder
  BY <1>2 DEF Init, LeftInOrder
<1>9. NothingLeftOver
  BY DEF Init, NothingLeftOver
<1> QED
  BY <1>6, <1>7, <1>8, <1>9 DEF IInv

\* An exit changes nothing but the outcome.
LEMMA ExitInv ==
  ASSUME IInv, NEW why \in Stops, Exit(why)
  PROVE  IInv'
<1>1. why \notin {"parsing", "done"}
  BY DEF Stops
<1> QED
  BY <1>1 DEF Exit, IInv, Shape, Place, LeftInOrder, NothingLeftOver, Line, Length

\* Neither does reading an option touch the words.
LEMMA ReadsInv ==
  ASSUME IInv, outcome = "parsing", argc > 0, Reads
  PROVE  IInv'
<1>1. CASE \E why \in Stops : Exit(why)
  BY <1>1, ExitInv
<1>2. CASE SameLeft /\ opt' = Null /\ \E n \in 1 .. 2 : n <= argc /\ Advance(n)
  <2>1. PICK n \in 1 .. 2 : n <= argc /\ at' = at + n /\ argc' = argc - n
    BY <1>2 DEF Advance
  <2>2. Line' = Line /\ Length' = Length /\ Length \in Nat
    BY <1>2, SameLine, LineIsText DEF IInv
  <2>3. Shape'
    BY <1>2, <2>1, <2>2 DEF IInv, Shape, SameLeft
  <2>4. Place'
    <3>1. \A k \in 1 .. cpidx : k \in DOMAIN from /\ from[k] \in Nat /\ from[k] < at
      <4>1. Len(from) = cpidx /\ from \in Seq(1 .. Length)
        BY DEF IInv, LeftInOrder, Shape
      <4> QED
        BY <2>2, <4>1 DEF IInv, Place
    <3>2. at' >= 1 /\ at' + argc' = Length' + 1 /\ cpidx' < at'
      BY <1>2, <2>1, <2>2 DEF IInv, Place, SameLeft, Shape
    <3>3. \A k \in 1 .. cpidx : from[k] < at'
      BY <2>1, <3>1 DEF IInv, Shape
    <3> QED
      BY <1>2, <3>2, <3>3 DEF Place, SameLeft
  <2>5. LeftInOrder'
    BY <1>2, <2>1, <2>2 DEF IInv, LeftInOrder, SameLeft, Shape
  <2>6. NothingLeftOver'
    BY <1>2 DEF NothingLeftOver
  <2> QED
    BY <2>3, <2>4, <2>5, <2>6 DEF IInv
<1>3. CASE /\ SameLeft /\ UNCHANGED <<at, argc>>
           /\ opt' # Null
           /\ IsOption(Hand) /\ ~ IsLong(Hand)
           /\ \E n \in 3 .. Len(Hand) : opt' = SubSeq(Hand, n, Len(Hand))
  <2>1. Hand' = Hand
    BY <1>3 DEF Hand, SameLeft
  <2>2. Line' = Line /\ Length' = Length
    BY <1>3, SameLine
  <2>3. opt' \in Text /\ opt' # <<>>
    <3>1. Hand \in Text
      BY HandIsText
    <3>2. PICK n \in 3 .. Len(Hand) : opt' = SubSeq(Hand, n, Len(Hand))
      BY <1>3
    <3> QED
      BY <3>1, <3>2, RestOfWord
  <2>4. Shape'
    BY <1>3, <2>2, <2>3 DEF IInv, Shape, SameLeft
  <2>5. Place' /\ LeftInOrder'
    BY <1>3, <2>2 DEF IInv, Place, LeftInOrder, SameLeft
  <2>6. NothingLeftOver'
    BY <1>3, <2>1, Zenon DEF NothingLeftOver, IsOption, IsLong
  <2> QED
    BY <2>4, <2>5, <2>6 DEF IInv
<1> QED
  BY <1>1, <1>2, <1>3 DEF Reads

\* A word is moved to a place that the reader has passed.
LEMMA KeepWordInv == IInv /\ KeepWord => IInv'
<1> SUFFICES ASSUME IInv, KeepWord PROVE IInv'
  OBVIOUS
<1>1. /\ outcome = "parsing" /\ argc > 0 /\ opt = Null
      /\ argv' = [argv EXCEPT ![cpidx] = Hand]
      /\ cpidx' = cpidx + 1
      /\ from' = Append(from, at)
      /\ at' = at + 1 /\ argc' = argc - 1
      /\ UNCHANGED <<typed, opt, outcome>>
  BY DEF KeepWord, InHand, Advance
<1>2. Line' = Line /\ Length' = Length /\ Length \in Nat
  BY <1>1, SameLine, LineIsText DEF IInv
<1>3. Hand = Line[at] /\ Hand \in Text /\ at \in 1 .. Length
  BY <1>1, HandIsText
<1>4. /\ Len(from) = cpidx /\ cpidx \in 0 .. at - 1
      /\ from \in Seq(1 .. Length)
      /\ argv \in [0 .. Length + 1 -> Text \cup {Null}]
  BY <1>1, <1>3 DEF IInv, LeftInOrder, Place, Shape
<1>5. /\ Len(from') = cpidx + 1
      /\ from' \in Seq(1 .. Length)
      /\ \A k \in 1 .. cpidx : from'[k] = from[k]
      /\ from'[cpidx + 1] = at
  BY <1>1, <1>3, <1>4, AppendProperties
<1>6. /\ argv' \in [0 .. Length + 1 -> Text \cup {Null}]
      /\ argv'[cpidx] = Hand
      /\ \A k \in 0 .. Length + 1 : k # cpidx => argv'[k] = argv[k]
  BY <1>1, <1>2, <1>3, <1>4
<1>7. Shape'
  BY <1>1, <1>2, <1>3, <1>5, <1>6 DEF IInv, Shape
<1>8. Place'
  BY <1>1, <1>2, <1>3, <1>4, <1>5 DEF IInv, Place, Shape
<1>9. LeftInOrder'
  <2>1. \A k \in 1 .. cpidx' : argv'[k - 1] = Line'[from'[k]]
    BY <1>1, <1>2, <1>3, <1>4, <1>5, <1>6 DEF IInv, LeftInOrder
  <2>2. \A j, k \in 1 .. cpidx' : j < k => from'[j] < from'[k]
    BY <1>1, <1>3, <1>4, <1>5 DEF IInv, LeftInOrder, Place
  <2>3. \A k \in at' .. Length' : argv'[k] = Line'[k]
    BY <1>1, <1>2, <1>3, <1>4, <1>6 DEF IInv, LeftInOrder
  <2> QED
    BY <1>1, <1>5, <2>1, <2>2, <2>3 DEF LeftInOrder
<1>10. NothingLeftOver'
  BY <1>1 DEF NothingLeftOver
<1> QED
  BY <1>7, <1>8, <1>9, <1>10 DEF IInv

\* The words not looked at are moved behind the ones that were kept.
LEMMA EndInv ==
  ASSUME IInv, outcome = "parsing", opt = Null,
         NEW place \in Nat, NEW count \in Nat,
         place >= at, place + count = Length + 1,
         End(place, count)
  PROVE  IInv'
<1>1. /\ argv' = [k \in DOMAIN argv |->
                    IF k \in cpidx .. cpidx + count - 1 THEN argv[place + k - cpidx]
                    ELSE IF k = cpidx + count THEN Null ELSE argv[k]]
      /\ cpidx' = cpidx + count
      /\ from' = from \o [k \in 1 .. count |-> place + k - 1]
      /\ at' = place /\ argc' = count /\ outcome' = "done"
      /\ UNCHANGED <<typed, opt>>
  BY DEF End
<1>2. Line' = Line /\ Length' = Length /\ Length \in Nat
  BY <1>1, SameLine, LineIsText DEF IInv
<1>3. /\ Len(from) = cpidx /\ cpidx \in Nat /\ at \in Nat /\ at >= 1 /\ cpidx < at
      /\ from \in Seq(1 .. Length)
      /\ argv \in [0 .. Length + 1 -> Text \cup {Null}]
      /\ DOMAIN argv = 0 .. Length + 1
  BY DEF IInv, LeftInOrder, Place, Shape
<1>4. \A k \in cpidx .. cpidx + count - 1 : place + k - cpidx \in at .. Length
  BY <1>2, <1>3
<1>5. /\ \A k \in 0 .. cpidx - 1 : argv'[k] = argv[k]
      /\ \A k \in cpidx .. cpidx + count - 1 : argv'[k] = Line[place + k - cpidx]
  <2>1. \A k \in 0 .. cpidx - 1 : k \in DOMAIN argv
    BY <1>2, <1>3
  <2>2. \A k \in cpidx .. cpidx + count - 1 : k \in DOMAIN argv
    BY <1>2, <1>3
  <2>3. \A k \in at .. Length : argv[k] = Line[k]
    BY DEF IInv, LeftInOrder
  <2>4. \A k \in 0 .. cpidx - 1 : k \notin cpidx .. cpidx + count - 1 /\ k # cpidx + count
    BY <1>3
  <2> QED
    BY <1>1, <1>4, <2>1, <2>2, <2>3, <2>4
<1>6. argv' \in [0 .. Length + 1 -> Text \cup {Null}]
  <2>1. \A k \in 0 .. Length + 1 : argv[k] \in Text \cup {Null}
    BY <1>3
  <2>2. \A k \in cpidx .. cpidx + count - 1 : place + k - cpidx \in 0 .. Length + 1
    BY <1>2, <1>3, <1>4
  <2> QED
    BY <1>1, <1>3, <2>1, <2>2
<1> DEFINE more == [k \in 1 .. count |-> place + k - 1]
<1>7. more \in Seq(1 .. Length) /\ Len(more) = count
  BY <1>2, <1>3
<1>8. /\ from' \in Seq(1 .. Length)
      /\ Len(from') = cpidx + count
      /\ \A k \in 1 .. cpidx : from'[k] = from[k]
      /\ \A k \in cpidx + 1 .. cpidx + count : from'[k] = more[k - cpidx]
  <2> HIDE DEF more
  <2>1. from' = from \o more
    BY <1>1 DEF more
  <2>2. from' \in Seq(1 .. Length) /\ Len(from') = cpidx + count
    BY <1>3, <1>7, <2>1, ConcatProperties
  <2>3. \A k \in 1 .. cpidx + count :
          from'[k] = IF k <= cpidx THEN from[k] ELSE more[k - cpidx]
    BY <1>3, <1>7, <2>1, ConcatProperties
  <2>4. \A k \in 1 .. cpidx : k \in 1 .. cpidx + count /\ k <= cpidx
    BY <1>3
  <2>5. \A k \in cpidx + 1 .. cpidx + count : k \in 1 .. cpidx + count /\ ~ (k <= cpidx)
    BY <1>3
  <2> QED
    BY <2>2, <2>3, <2>4, <2>5
<1>9. \A k \in cpidx + 1 .. cpidx + count : from'[k] = place + k - cpidx - 1
  <2>1. \A k \in cpidx + 1 .. cpidx + count : k - cpidx \in 1 .. count
    BY <1>3
  <2>2. \A k \in cpidx + 1 .. cpidx + count : more[k - cpidx] = place + (k - cpidx) - 1
    BY <2>1
  <2> QED
    BY <1>3, <1>8, <2>2
<1> HIDE DEF more
<1>10. Shape'
  BY <1>1, <1>2, <1>3, <1>6, <1>8 DEF IInv, Shape
<1>11. LeftInOrder'
  <2>1. \A k \in 1 .. cpidx : argv'[k - 1] = Line[from'[k]]
    <3>1. \A k \in 1 .. cpidx : argv[k - 1] = Line[from[k]]
      BY DEF IInv, LeftInOrder
    <3>2. \A k \in 1 .. cpidx : k - 1 \in 0 .. cpidx - 1
      BY <1>3
    <3> QED
      BY <1>5, <1>8, <3>1, <3>2
  <2>2. \A k \in cpidx + 1 .. cpidx + count : argv'[k - 1] = Line[from'[k]]
    <3> SUFFICES ASSUME NEW k \in cpidx + 1 .. cpidx + count
                 PROVE  argv'[k - 1] = Line[from'[k]]
      OBVIOUS
    <3>1. k - 1 \in cpidx .. cpidx + count - 1
      BY <1>3
    <3>2. argv'[k - 1] = Line[place + (k - 1) - cpidx]
      BY <1>5, <3>1
    <3>3. place + (k - 1) - cpidx = place + k - cpidx - 1
      BY <1>3
    <3> QED
      BY <1>9, <3>2, <3>3
  <2>3. \A j, k \in 1 .. cpidx + count : j < k => from'[j] < from'[k]
    <3>1. \A k \in 1 .. cpidx : from'[k] < at
      BY <1>8 DEF IInv, Place
    <3>2. \A j, k \in 1 .. cpidx : j < k => from'[j] < from'[k]
      BY <1>8 DEF IInv, LeftInOrder
    <3>3. \A k \in 1 .. cpidx : from'[k] \in Nat
      <4>1. \A k \in 1 .. cpidx : from[k] \in 1 .. Length
        BY <1>3, ElementOfSeq
      <4> QED
        BY <1>2, <1>8, <4>1
    <3> QED
      BY <1>3, <1>9, <3>1, <3>2, <3>3
  <2>4. \A k \in 1 .. cpidx + count : k \in 1 .. cpidx \/ k \in cpidx + 1 .. cpidx + count
    BY <1>3
  <2> QED
    BY <1>1, <1>2, <1>8, <2>1, <2>2, <2>3, <2>4 DEF LeftInOrder
<1> QED
  BY <1>1, <1>10, <1>11 DEF IInv, Place, NothingLeftOver

LEMMA FinishInv == IInv /\ Finish => IInv'
<1> SUFFICES ASSUME IInv, Finish PROVE IInv'
  OBVIOUS
<1>1. /\ outcome = "parsing" /\ opt = Null
      /\ at \in Nat /\ argc \in Nat /\ at + argc = Length + 1
  BY DEF Finish, IInv, Place, Shape
<1>2. CASE argc = 0 /\ End(at, 0)
  BY <1>1, <1>2, EndInv
<1>3. CASE argc > 0 /\ End(at + 1, argc - 1)
  <2>1. at + 1 \in Nat /\ argc - 1 \in Nat /\ (at + 1) + (argc - 1) = Length + 1 /\ at + 1 >= at
    BY <1>1, <1>3
  <2> QED
    BY <1>1, <1>3, <2>1, EndInv
<1> QED
  BY <1>2, <1>3 DEF Finish

LEMMA NextInv == IInv /\ [Next]_vars => IInv'
<1> SUFFICES ASSUME IInv, [Next]_vars PROVE IInv'
  OBVIOUS
<1>1. CASE KeepWord
  BY <1>1, KeepWordInv
<1>2. CASE FirstSwitch
  BY <1>2, FirstSwitchReads, ReadsInv DEF FirstSwitch, InHand
<1>3. CASE NextSwitch
  BY <1>3, NextSwitchReads, ReadsInv DEF NextSwitch, IInv, NothingLeftOver
<1>4. CASE LongOption
  BY <1>4, LongOptionReads, ReadsInv DEF LongOption, InHand
<1>5. CASE Finish
  BY <1>5, FinishInv
<1>6. CASE UNCHANGED vars
  BY <1>6 DEF vars, IInv, Shape, Place, LeftInOrder, NothingLeftOver, Line, Length, Hand, IsOption, IsLong
<1> QED
  BY <1>1, <1>2, <1>3, <1>4, <1>5, <1>6 DEF Next, Stopped

LEMMA Invariance == Spec => []IInv
  BY InitInv, NextInv, PTL DEF Spec

-----------------------------------------------------------------------------
(* Numbers.  The values the digits of a word add up to are computed by a      *)
(* recursive function; that it has a value for every word is shown from the   *)
(* least number of digits for which it had none.                              *)

\* A set of numbers has a least one.
LEMMA LeastNumber ==
  ASSUME NEW T, T \subseteq Nat, T # {}
  PROVE  \E n \in T : \A m \in T : n <= m
<1> DEFINE R == OpToRel(<, Nat)
<1>1. IsWellFoundedOn(R, Nat)
  BY NatLessThanWellFounded
<1>2. \A m, n \in Nat : <<m, n>> \in R <=> m < n
  BY DEF OpToRel
<1> HIDE DEF R
<1>3. PICK n \in T : \A m \in T : <<m, n>> \notin R
  BY <1>1, WFMin
<1>4. \A m \in T : ~ (m < n)
  BY <1>2, <1>3
<1> QED
  BY <1>3, <1>4

\* A digit of a base has a place among the ten decimal ones and six letters.
LEMMA DigitsHavePlaces ==
  ASSUME NEW S, Decimals \in Seq(S), NEW letters \in Seq(S), Len(letters) = 6,
         NEW base \in {10, 16}, NEW c \in ToSet(SubSeq(Decimals \o letters, 1, base))
  PROVE  \E d \in 0 .. 15 : (Decimals \o letters)[d + 1] = c
<1> DEFINE all == Decimals \o letters
<1>1. Len(Decimals) = 10
  BY DEF Decimals
<1>2. all \in Seq(S) /\ Len(all) = Len(Decimals) + Len(letters)
  BY ConcatProperties
<1>3. c \in ToSet(SubSeq(all, 1, base))
  OBVIOUS
<1> HIDE DEF all
<1>4. /\ \A i \in 1 .. base : SubSeq(all, 1, base)[i] = all[i]
      /\ DOMAIN SubSeq(all, 1, base) = 1 .. base
  BY <1>1, <1>2, SubSeqProperties
<1>5. PICK i \in 1 .. base : c = all[i]
  BY <1>3, <1>4 DEF ToSet
<1>6. i - 1 \in 0 .. 15 /\ (i - 1) + 1 = i
  OBVIOUS
<1> QED
  BY <1>5, <1>6 DEF all

\* A digit of the base has a value.
LEMMA DigitValues ==
  ASSUME NEW base \in {10, 16}, NEW c \in Digits(base)
  PROVE  DigitValue(c) \in 0 .. 15
<1> DEFINE S == {"0", "1", "2", "3", "4", "5", "6", "7", "8", "9",
                 "a", "b", "c", "d", "e", "f", "A", "B", "C", "D", "E", "F"}
           lower == <<"a", "b", "c", "d", "e", "f">>
           upper == <<"A", "B", "C", "D", "E", "F">>
<1>1. /\ "0" \in S /\ "1" \in S /\ "2" \in S /\ "3" \in S /\ "4" \in S
      /\ "5" \in S /\ "6" \in S /\ "7" \in S /\ "8" \in S /\ "9" \in S
  OBVIOUS
<1>2. "a" \in S /\ "b" \in S /\ "c" \in S /\ "d" \in S /\ "e" \in S /\ "f" \in S
  OBVIOUS
<1>3. "A" \in S /\ "B" \in S /\ "C" \in S /\ "D" \in S /\ "E" \in S /\ "F" \in S
  OBVIOUS
<1> HIDE DEF S
<1>4. Decimals \in Seq(S)
  BY <1>1 DEF Decimals
<1>5. lower \in Seq(S) /\ Len(lower) = 6
  BY <1>2
<1>6. upper \in Seq(S) /\ Len(upper) = 6
  BY <1>3
<1>7. HexDigits = Decimals \o lower /\ UpperDigits = Decimals \o upper
  BY DEF HexDigits, UpperDigits
<1> HIDE DEF lower, upper
<1>8. ASSUME NEW letters \in Seq(S), Len(letters) = 6,
             c \in ToSet(SubSeq(Decimals \o letters, 1, base))
      PROVE  \E d \in 0 .. 15 : (Decimals \o letters)[d + 1] = c
  BY <1>4, <1>8, DigitsHavePlaces
<1>9. \E d \in 0 .. 15 : c \in {HexDigits[d + 1], UpperDigits[d + 1]}
  <2>1. CASE c \in ToSet(SubSeq(HexDigits, 1, base))
    <3>1. \E d \in 0 .. 15 : HexDigits[d + 1] = c
      BY <1>5, <1>7, <1>8, <2>1
    <3> QED
      BY <3>1
  <2>2. CASE c \in ToSet(SubSeq(UpperDigits, 1, base))
    <3>1. \E d \in 0 .. 15 : UpperDigits[d + 1] = c
      BY <1>6, <1>7, <1>8, <2>2
    <3> QED
      BY <3>1
  <2> QED
    BY <2>1, <2>2, Zenon DEF Digits
<1> QED
  BY <1>9, Zenon DEF DigitValue

\* The first n readings, as integers.
ReadingsTo(digits, base, n) ==
  {f \in [0 .. n -> Int] :
     \A k \in 0 .. n : f[k] = IF k = 0 THEN 0 ELSE base * f[k - 1] + DigitValue(digits[k])}

LEMMA ReadingsExist ==
  ASSUME NEW base \in {10, 16}, NEW digits \in Text, ToSet(digits) \subseteq Digits(base)
  PROVE  \A n \in 0 .. Len(digits) : ReadingsTo(digits, base, n) # {}
<1> DEFINE Failing == {n \in 0 .. Len(digits) : ReadingsTo(digits, base, n) = {}}
<1>1. Len(digits) \in Nat
  BY DEF Text
<1>2. \A k \in 1 .. Len(digits) : DigitValue(digits[k]) \in Int
  <2> SUFFICES ASSUME NEW k \in 1 .. Len(digits) PROVE DigitValue(digits[k]) \in Int
    OBVIOUS
  <2>1. digits[k] \in Digits(base)
    BY DEF ToSet, Text
  <2>2. DigitValue(digits[k]) \in 0 .. 15
    BY <2>1, DigitValues
  <2> QED
    BY <2>2
<1>3. SUFFICES ASSUME Failing # {} PROVE FALSE
  OBVIOUS
<1>4. PICK n \in Failing : \A m \in Failing : n <= m
  <2>1. Failing \in SUBSET Nat
    BY <1>1
  <2> HIDE DEF Failing
  <2> QED
    BY <1>3, <2>1, LeastNumber
<1>5. n \in 0 .. Len(digits) /\ ReadingsTo(digits, base, n) = {}
  BY <1>4
<1>6. CASE n = 0
  <2>1. [k \in 0 .. 0 |-> 0] \in ReadingsTo(digits, base, 0)
    BY DEF ReadingsTo
  <2> QED
    BY <1>5, <1>6, <2>1
<1>7. CASE n # 0
  <2>1. n - 1 \in 0 .. Len(digits) /\ n - 1 \notin Failing
    BY <1>1, <1>4, <1>5, <1>7
  <2>2. PICK f \in ReadingsTo(digits, base, n - 1) : TRUE
    BY <2>1
  <2> DEFINE g == [k \in 0 .. n |-> IF k = n THEN base * f[n - 1] + DigitValue(digits[n]) ELSE f[k]]
  <2>3. f \in [0 .. n - 1 -> Int]
    BY <2>2 DEF ReadingsTo
  <2>4. base * f[n - 1] + DigitValue(digits[n]) \in Int
    BY <1>1, <1>2, <1>5, <1>7, <2>3
  <2>5. g \in [0 .. n -> Int]
    BY <1>5, <2>3, <2>4
  <2>6. ASSUME NEW k \in 0 .. n
        PROVE  g[k] = IF k = 0 THEN 0 ELSE base * g[k - 1] + DigitValue(digits[k])
    <3>1. CASE k = n
      <4>1. g[k] = base * f[n - 1] + DigitValue(digits[n]) /\ g[n - 1] = f[n - 1]
        BY <1>5, <1>7, <3>1
      <4> QED
        BY <1>7, <3>1, <4>1
    <3>2. CASE k # n
      <4>1. k \in 0 .. n - 1 /\ g[k] = f[k] /\ (k # 0 => g[k - 1] = f[k - 1])
        BY <1>5, <3>2
      <4>2. f[k] = IF k = 0 THEN 0 ELSE base * f[k - 1] + DigitValue(digits[k])
        BY <2>2, <4>1 DEF ReadingsTo
      <4> HIDE DEF g
      <4> QED
        BY <4>1, <4>2
    <3> QED
      BY <3>1, <3>2
  <2>7. g \in ReadingsTo(digits, base, n)
    <3> HIDE DEF g
    <3> QED
      BY <2>5, <2>6 DEF ReadingsTo
  <2> QED
    BY <1>5, <2>7
<1> QED
  BY <1>6, <1>7

\* What is left of a word without its blanks, and without its sign.
LEMMA StrippedType ==
  ASSUME NEW text \in Text
  PROVE  Stripped(text) \in Text
<1> DEFINE I == {i \in 1 .. Len(text) : text[i] # Blank}
           start == SelectInSeq(text, LAMBDA c : c # Blank)
<1>1. Len(text) \in Nat
  BY DEF Text
<1>2. start = IF I # {} THEN Min(I) ELSE 0
  BY DEF SelectInSeq
<1>3. I \subseteq Nat
  BY <1>1
<1> HIDE DEF I, start
<1>4. Stripped(text) = IF start = 0 THEN <<>> ELSE SubSeq(text, start, Len(text))
  BY DEF Stripped, start
<1>5. CASE I = {}
  BY <1>2, <1>4, <1>5 DEF Text
<1>6. CASE I # {}
  <2>1. \E n \in I : \A m \in I : n <= m
    BY <1>3, <1>6, LeastNumber
  <2>2. Min(I) \in I
    BY <2>1, Zenon DEF Min
  <2>3. start \in 1 .. Len(text)
    BY <1>2, <1>6, <2>2 DEF I
  <2>4. SubSeq(text, start, Len(text)) \in Text
    BY <1>1, <2>3, SubSeqProperties DEF Text
  <2> QED
    BY <1>1, <1>4, <2>3, <2>4
<1> QED
  BY <1>5, <1>6

LEMMA UnsignedType ==
  ASSUME NEW text \in Text
  PROVE  Unsigned(text) \in Text
<1>1. CASE Stripped(text) = <<>>
  <2>1. Len(Stripped(text)) = 0 /\ Len(<<"-">>) = 1 /\ Len(<<"+">>) = 1
    BY <1>1
  <2>2. ~ Signed(text)
    BY <2>1 DEF Signed, Negative, IsPrefix
  <2> QED
    BY <2>2, StrippedType DEF Unsigned
<1>2. CASE Stripped(text) # <<>>
  <2>1. Tail(Stripped(text)) \in Text
    BY <1>2, StrippedType DEF Text
  <2> QED
    BY <2>1, StrippedType DEF Unsigned
<1> QED
  BY <1>1, <1>2

\* Nothing is read of an empty word.
LEMMA EmptyMagnitude ==
  ASSUME NEW base
  PROVE  Magnitude(<<>>, base) = <<>>
<1> DEFINE none == <<>>
<1>1. {i \in 1 .. Len(none) : none[i] # Blank} = {}
  OBVIOUS
<1>2. Stripped(none) = none
  BY <1>1 DEF Stripped, SelectInSeq
<1>3. /\ Len(none) = 0 /\ Len(<<"-">>) = 1 /\ Len(<<"+">>) = 1
      /\ Len(<<"0", "x">>) = 2 /\ Len(<<"0", "X">>) = 2
  OBVIOUS
<1> HIDE DEF none
<1>4. Unsigned(none) = none
  BY <1>2, <1>3 DEF Unsigned, Signed, Negative, IsPrefix
<1>5. ~ Prefixed(none)
  BY <1>3 DEF Prefixed, IsPrefix
<1>6. Magnitude(none, base) = none
  BY <1>4, <1>5 DEF Magnitude
<1> QED
  BY <1>6 DEF none

\* A word that reads as a number reads as an integer.
LEMMA NumbersAreIntegers ==
  ASSUME NEW base \in {10, 16}, NEW text \in Text, ReadsAs(text, base)
  PROVE  NumberIn(text, base) \in Int
<1> DEFINE digits == Magnitude(text, base)
<1>1. digits \in Text
  <2>1. Unsigned(text) \in Text
    BY UnsignedType
  <2>2. SubSeq(Unsigned(text), 3, Len(Unsigned(text))) \in Text
    BY <2>1, SubSeqProperties DEF Text
  <2> QED
    BY <2>1, <2>2 DEF Magnitude
<1>2. ToSet(digits) \subseteq Digits(base)
  <2>1. CASE text = <<>>
    <3>1. digits = <<>>
      BY <2>1, EmptyMagnitude
    <3> QED
      BY <3>1 DEF ToSet
  <2>2. CASE text # <<>>
    BY <2>2 DEF ReadsAs
  <2> QED
    BY <2>1, <2>2
<1> HIDE DEF digits
<1>3. Len(digits) \in Nat
  BY <1>1 DEF Text
<1>4. PICK f \in ReadingsTo(digits, base, Len(digits)) : TRUE
  BY <1>1, <1>2, <1>3, ReadingsExist
<1> DEFINE Fits(g) == g = [k \in 0 .. Len(digits) |->
                             IF k = 0 THEN 0 ELSE base * g[k - 1] + DigitValue(digits[k])]
           read == Readings(digits, base)
<1>5. Fits(f)
  BY <1>4 DEF ReadingsTo
<1>6. read = CHOOSE g : Fits(g)
  BY DEF Readings
<1>7. Fits(read)
  <2> HIDE DEF Fits
  <2> QED
    BY <1>5, <1>6, Zenon
<1>8. read[Len(digits)] \in Int
  <2> DEFINE Wrong == {k \in 0 .. Len(digits) : read[k] # f[k]}
  <2>1. Wrong = {}
    <3> SUFFICES ASSUME Wrong # {} PROVE FALSE
      OBVIOUS
    <3>1. Wrong \in SUBSET Nat
      BY <1>3
    <3> HIDE DEF Wrong
    <3>2. PICK k \in Wrong : \A m \in Wrong : k <= m
      BY <3>1, LeastNumber
    <3>3. k \in 0 .. Len(digits) /\ read[k] # f[k]
      BY <3>2 DEF Wrong
    <3>4. k # 0 => read[k - 1] = f[k - 1]
      BY <1>3, <3>2, <3>3 DEF Wrong
    <3>5. read[k] = IF k = 0 THEN 0 ELSE base * read[k - 1] + DigitValue(digits[k])
      <4> HIDE DEF read
      <4> QED
        BY <1>7, <3>3
    <3>6. f[k] = IF k = 0 THEN 0 ELSE base * f[k - 1] + DigitValue(digits[k])
      BY <1>4, <3>3 DEF ReadingsTo
    <3> HIDE DEF read
    <3> QED
      BY <3>3, <3>4, <3>5, <3>6
  <2>2. f[Len(digits)] \in Int
    BY <1>3, <1>4 DEF ReadingsTo
  <2> HIDE DEF read
  <2> QED
    BY <1>3, <2>1, <2>2
<1> QED
  BY <1>8 DEF NumberIn, digits

-----------------------------------------------------------------------------
(* What is stored in the option variables.                                    *)

LEMMA UnsetFits == \A type \in Types : Unset(type) \in ValuesOf(type)
  BY SizesAssumption DEF Types, Unset, ValuesOf

\* Any integer is brought into the range of the variable.
LEMMA StoredFits ==
  ASSUME NEW type \in Numeric, NEW n \in Int
  PROVE  Stored(type, n) \in ValuesOf(type)
<1>1. IntSize \in Nat /\ IntSize > 0 /\ LongSize \in Nat /\ LongSize > 0
  BY SizesAssumption
<1>2. CASE type = "U64"
  <2>1. n % LongSize \in 0 .. LongSize - 1 /\ LongSize - 1 \in 0 .. LongSize - 1
    BY <1>1
  <2> QED
    BY <1>2, <2>1 DEF Stored, ValuesOf
<1>3. CASE type \in {"INTEGER", "UINTEGER"}
  <2> DEFINE half == LongSize \div 2
             long == IF n >= half THEN half - 1 ELSE IF n < -half THEN -half ELSE n
  <2>1. half \in Int
    BY <1>1
  <2>2. long \in Int
    BY <2>1
  <2>3. Stored(type, n) = long % IntSize
    BY <1>3 DEF Stored
  <2> HIDE DEF long
  <2>4. long % IntSize \in 0 .. IntSize - 1
    BY <1>1, <2>2
  <2> QED
    BY <1>3, <2>3, <2>4 DEF ValuesOf
<1> QED
  BY <1>2, <1>3 DEF Numeric

\* A word that is a number for the type is stored as one of its values.
LEMMA NumberFits ==
  ASSUME NEW type \in Numeric, NEW text \in Text, IsNumber(type, text)
  PROVE  Number(type, text) \in ValuesOf(type)
<1> DEFINE Chosen(i) == /\ ReadsAs(text, Bases(type)[i])
                        /\ \A j \in 1 .. i - 1 : ~ ReadsAs(text, Bases(type)[j])
           first == CHOOSE i \in DOMAIN Bases(type) : Chosen(i)
<1>1. /\ DOMAIN Bases(type) \subseteq {1, 2} /\ 1 \in DOMAIN Bases(type)
      /\ Bases(type)[1] = 10
      /\ 2 \in DOMAIN Bases(type) => Bases(type)[2] = 16
  BY DEF Bases
<1>2. \E i \in DOMAIN Bases(type) : Chosen(i)
  <2>1. CASE ReadsAs(text, Bases(type)[1])
    BY <1>1, <2>1
  <2>2. CASE ~ ReadsAs(text, Bases(type)[1])
    <3>1. 2 \in DOMAIN Bases(type) /\ ReadsAs(text, Bases(type)[2])
      BY <1>1, <2>2 DEF IsNumber
    <3>2. \A j \in 1 .. 2 - 1 : j = 1
      OBVIOUS
    <3> QED
      BY <2>2, <3>1, <3>2
  <2> QED
    BY <2>1, <2>2
<1>3. first \in DOMAIN Bases(type) /\ Chosen(first)
  <2> HIDE DEF Chosen
  <2> QED
    BY <1>2, Zenon
<1>4. Number(type, text) = Stored(type, NumberIn(text, Bases(type)[first]))
  BY DEF Number
<1>5. ReadsAs(text, Bases(type)[first])
  BY <1>3
<1> HIDE DEF first, Chosen
<1>6. Bases(type)[first] \in {10, 16}
  BY <1>1, <1>3
<1>7. NumberIn(text, Bases(type)[first]) \in Int
  BY <1>5, <1>6, NumbersAreIntegers
<1> QED
  BY <1>4, <1>7, StoredFits

\* The option found first is one of those found.
LEMMA FirstFound ==
  ASSUME NEW found, found \subseteq Nat, found # {}
  PROVE  First(found) \in found
<1>1. \E o \in found : \A p \in found : o <= p
  BY LeastNumber
<1> QED
  BY <1>1, Zenon DEF First

LEMMA OptionsType ==
  ASSUME Shape
  PROVE  /\ DOMAIN options \subseteq Nat
         /\ \A o \in DOMAIN options : options[o].type \in Types
<1>1. options \in Seq([short : STRING, long : Text, type : Types])
  BY CasesAssumption, Zenon DEF Shape, options
<1> DEFINE S == [short : STRING, long : Text, type : Types]
<1>2. \A s \in S : s.type \in Types
  OBVIOUS
<1> HIDE DEF S
<1>3. options \in Seq(S)
  BY <1>1 DEF S
<1>4. DOMAIN options \subseteq Nat /\ \A o \in DOMAIN options : options[o] \in S
  BY <1>3
<1> QED
  BY <1>2, <1>4

LEMMA OptionsInOrder ==
  ASSUME Shape
  PROVE  DOMAIN options \subseteq Nat /\ DOMAIN options = 1 .. Len(options) /\ Len(options) \in Nat
<1> DEFINE S == [short : STRING, long : Text, type : Types]
<1>1. options \in Seq(S)
  BY CasesAssumption, Zenon DEF Shape, options
<1> HIDE DEF S
<1> QED
  BY <1>1

\* The value that an accepted option is given fits its variable.
LEMMA ValueFits ==
  ASSUME IInv, outcome = "parsing", argc > 0,
         NEW o \in DOMAIN options, NEW unset \in BOOLEAN, NEW short \in BOOLEAN,
         NEW rest \in Text \cup {Null}, Accepts(o, unset, short, rest)
  PROVE  Value(o, unset, rest) \in ValuesOf(options[o].type)
<1>1. options[o].type \in Types
  BY OptionsType DEF IInv
<1>2. CASE unset
  BY <1>1, <1>2, UnsetFits DEF Value
<1>3. CASE ~ unset /\ options[o].type = "BOOLEAN"
  BY <1>3 DEF Value, ValuesOf
<1>4. CASE ~ unset /\ options[o].type # "BOOLEAN"
  <2>1. HasArg(rest) /\ (options[o].type \in Numeric => IsNumber(options[o].type, Arg(rest)))
    BY <1>4 DEF Accepts
  <2>2. Arg(rest) \in Text
    <3>1. CASE rest # Null
      BY <3>1 DEF Arg
    <3>2. CASE rest = Null
      <4>1. argc > 1 /\ Line \in Seq(Text) /\ Length \in Nat
        BY <2>1, <3>2, LineIsText DEF HasArg, IInv
      <4>2. at + 1 \in at .. Length /\ at + 1 \in 1 .. Length
        BY <4>1 DEF IInv, Place, Shape
      <4>3. argv[at + 1] = Line[at + 1]
        BY <4>2 DEF IInv, LeftInOrder
      <4>4. Line[at + 1] \in Text
        BY <4>1, <4>2, ElementOfSeq, Zenon DEF Length
      <4> QED
        BY <3>2, <4>3, <4>4 DEF Arg
    <3> QED
      BY <3>1, <3>2
  <2>3. CASE options[o].type \in Numeric
    BY <1>4, <2>1, <2>2, <2>3, NumberFits DEF Value
  <2>4. CASE options[o].type \notin Numeric
    BY <1>1, <1>4, <2>2, <2>4 DEF Value, ValuesOf, Types, Numeric
  <2> QED
    BY <2>3, <2>4
<1> QED
  BY <1>2, <1>3, <1>4

\* A step stores nothing, or what an option of the table accepts.
Stores ==
  \/ UNCHANGED values
  \/ \E o \in DOMAIN options, unset \in BOOLEAN, short \in BOOLEAN, rest \in Text \cup {Null} :
       /\ Accepts(o, unset, short, rest)
       /\ values' = [values EXCEPT ![o] = Value(o, unset, rest)]

LEMMA GetValueStores ==
  ASSUME NEW o \in DOMAIN options, NEW unset \in BOOLEAN, NEW short \in BOOLEAN,
         NEW rest \in Text \cup {Null}, GetValue(o, unset, short, rest)
  PROVE  Stores
  BY Zenon DEF GetValue, Exit, Stores

LEMMA SwitchStores ==
  ASSUME IInv, NEW letters \in Text, letters # <<>>, Switch(letters)
  PROVE  Stores
<1> DEFINE found == WithLetter(Head(letters))
           rest == IF Len(letters) > 1 THEN Tail(letters) ELSE Null
<1>1. CASE found = {}
  BY <1>1 DEF Switch, Exit, Stores
<1>2. CASE found # {}
  <2>1. GetValue(First(found), FALSE, TRUE, rest)
    BY <1>2 DEF Switch
  <2>2. found \subseteq DOMAIN options
    BY DEF WithLetter
  <2>3. found \subseteq Nat
    BY <2>2, OptionsType DEF IInv
  <2>4. rest \in Text \cup {Null}
    BY DEF Text
  <2> HIDE DEF found, rest
  <2>5. First(found) \in DOMAIN options
    BY <1>2, <2>2, <2>3, FirstFound
  <2> QED
    BY <2>1, <2>4, <2>5, GetValueStores
<1> QED
  BY <1>1, <1>2

\* What follows the "=" of a long option.
LEMMA RestOfType ==
  ASSUME NEW arg \in Text
  PROVE  RestOf(arg) \in Text \cup {Null}
<1>1. CASE "=" \notin ToSet(arg)
  BY <1>1 DEF RestOf
<1>2. CASE "=" \in ToSet(arg)
  <2> DEFINE I == {i \in 1 .. Len(arg) : arg[i] = "="}
  <2>1. Len(arg) \in Nat /\ DOMAIN arg = 1 .. Len(arg)
    BY DEF Text
  <2>2. I # {} /\ I \subseteq Nat
    BY <1>2, <2>1 DEF ToSet
  <2>3. SelectInSeq(arg, LAMBDA c : c = "=") = IF I # {} THEN Min(I) ELSE 0
    BY DEF SelectInSeq
  <2> HIDE DEF I
  <2>4. Min(I) \in I
    <3>1. \E n \in I : \A m \in I : n <= m
      BY <2>2, LeastNumber
    <3> QED
      BY <3>1, Zenon DEF Min
  <2>5. RestOf(arg) = SubSeq(arg, Min(I) + 1, Len(arg))
    BY <1>2, <2>2, <2>3 DEF RestOf
  <2>6. Min(I) + 1 \in 1 .. Len(arg) + 1
    BY <2>1, <2>4 DEF I
  <2>7. SubSeq(arg, Min(I) + 1, Len(arg)) \in Text
    BY <2>1, <2>6, SubSeqProperties DEF Text
  <2> QED
    BY <2>5, <2>7
<1> QED
  BY <1>1, <1>2

LEMMA LongStores ==
  ASSUME IInv, NEW arg \in Text, Long(arg)
  PROVE  Stores
<1> DEFINE exact  == {o \in DOMAIN options : Exact(arg, o) \/ ExactNegated(arg, o)}
           abbrev == {o \in DOMAIN options : Abbreviates(arg, o) \/ AbbreviatesNegated(arg, o)}
           given(o) == IF AbbreviatesNegated(arg, o) THEN Null ELSE RestOf(arg)
<1>1. DOMAIN options \subseteq Nat /\ RestOf(arg) \in Text \cup {Null}
  BY OptionsType, RestOfType DEF IInv
<1>2. \A o : ExactNegated(arg, o) \in BOOLEAN /\ AbbreviatesNegated(arg, o) \in BOOLEAN
  BY DEF ExactNegated, AbbreviatesNegated
<1>3. exact \subseteq DOMAIN options /\ abbrev \subseteq DOMAIN options
  OBVIOUS
<1>4. \/ \E why : Exit(why)
      \/ exact # {} /\ GetValue(First(exact), ExactNegated(arg, First(exact)), FALSE, RestOf(arg))
      \/ /\ abbrev # {}
         /\ GetValue(First(abbrev), AbbreviatesNegated(arg, First(abbrev)), FALSE, given(First(abbrev)))
  BY Zenon DEF Long
<1>5. \A o : given(o) \in Text \cup {Null}
  BY <1>1
<1> HIDE DEF exact, abbrev, given
<1>6. CASE \E why : Exit(why)
  BY <1>6 DEF Exit, Stores
<1>7. CASE exact # {} /\ GetValue(First(exact), ExactNegated(arg, First(exact)), FALSE, RestOf(arg))
  <2>1. First(exact) \in DOMAIN options
    BY <1>1, <1>3, <1>7, FirstFound
  <2> QED
    BY <1>1, <1>2, <1>7, <2>1, GetValueStores, Zenon
<1>8. CASE /\ abbrev # {}
           /\ GetValue(First(abbrev), AbbreviatesNegated(arg, First(abbrev)), FALSE, given(First(abbrev)))
  <2>1. First(abbrev) \in DOMAIN options
    BY <1>1, <1>3, <1>8, FirstFound
  <2> QED
    BY <1>2, <1>5, <1>8, <2>1, GetValueStores, Zenon
<1> QED
  BY <1>4, <1>6, <1>7, <1>8

LEMMA NextStores == IInv /\ Next => Stores
<1> SUFFICES ASSUME IInv, Next PROVE Stores
  OBVIOUS
<1>1. CASE KeepWord \/ Finish \/ Stopped
  BY <1>1 DEF KeepWord, Finish, End, Stopped, vars, Stores
<1>2. CASE FirstSwitch
  <2>1. Hand \in Text /\ Len(Hand) >= 2
    BY <1>2, HandIsText DEF FirstSwitch, InHand, IsOption
  <2>2. Tail(Hand) \in Text /\ Tail(Hand) # <<>>
    <3>1. Hand # <<>>
      BY <2>1
    <3>2. Tail(Hand) \in Text /\ Len(Tail(Hand)) = Len(Hand) - 1
      BY <2>1, <3>1, HeadTailProperties DEF Text
    <3>3. Len(Tail(Hand)) # 0
      BY <2>1, <3>2 DEF Text
    <3>4. Len(<<>>) = 0
      OBVIOUS
    <3> QED
      BY <3>2, <3>3, <3>4, Zenon
  <2>3. (\E why : Exit(why)) \/ Switch(Tail(Hand))
    BY <1>2, Zenon DEF FirstSwitch
  <2> QED
    BY <2>2, <2>3, SwitchStores DEF Exit, Stores
<1>3. CASE NextSwitch
  <2>1. opt \in Text /\ opt # <<>>
    BY <1>3 DEF NextSwitch, IInv, Shape
  <2>2. (\E why : Exit(why)) \/ Switch(opt)
    BY <1>3, Zenon DEF NextSwitch
  <2> QED
    BY <2>1, <2>2, SwitchStores DEF Exit, Stores
<1>4. CASE LongOption
  <2> DEFINE arg == Without(Hand, Dashes)
  <2>1. Hand \in Text
    BY <1>4, HandIsText DEF LongOption, InHand
  <2>2. arg = SubSeq(Hand, 3, Len(Hand))
    BY DEF Without, Dashes
  <2>3. arg \in Text
    BY <2>1, <2>2, SubSeqProperties DEF Text
  <2>4. (\E why : Exit(why)) \/ Long(arg)
    BY <1>4, Zenon DEF LongOption
  <2> HIDE DEF arg
  <2> QED
    BY <2>3, <2>4, LongStores DEF Exit, Stores
<1> QED
  BY <1>1, <1>2, <1>3, <1>4 DEF Next

\* What TypeOK says beyond the invariant above: of the option variables, and of
\* the places at the end of the parse.
ValuesFit ==
  /\ DOMAIN values = DOMAIN options
  /\ \A o \in DOMAIN options : values[o] \in ValuesOf(options[o].type)

Bounds == at \in 1 .. Length + 1 /\ argc \in 0 .. Length /\ cpidx \in 0 .. Length

\* The command line is never changed.
LEMMA NextTyped ==
  ASSUME IInv, [Next]_vars
  PROVE  typed' = typed /\ options' = options /\ Length' = Length
<1>1. ASSUME Reads PROVE typed' = typed
  BY <1>1 DEF Reads, SameLeft, Exit
<1>2. typed' = typed
  <2>1. CASE KeepWord \/ Finish \/ UNCHANGED vars
    BY <2>1 DEF KeepWord, Finish, End, vars
  <2>2. CASE FirstSwitch \/ NextSwitch \/ LongOption
    BY <1>1, <2>2, FirstSwitchReads, NextSwitchReads, LongOptionReads
  <2> QED
    BY <2>1, <2>2 DEF Next, Stopped
<1> QED
  BY <1>2 DEF options, Length, Line

LEMMA PlacesOfLine ==
  ASSUME NEW place \in Nat, NEW count \in Nat, NEW kept \in Nat, NEW length \in Nat,
         place >= 1, place + count = length + 1, kept < place
  PROVE  place \in 1 .. length + 1 /\ count \in 0 .. length /\ kept \in 0 .. length
  OBVIOUS

LEMMA NextBounds == IInv /\ Bounds /\ [Next]_vars => Bounds'
<1> SUFFICES ASSUME IInv, Bounds, [Next]_vars PROVE Bounds'
  OBVIOUS
<1>1. IInv' /\ Length' = Length /\ Length \in Nat
  BY NextInv, NextTyped, LineIsText DEF IInv
<1>2. CASE outcome' = "parsing"
  <2>1. at' \in Nat /\ argc' \in Nat /\ cpidx' \in Nat
    BY <1>1 DEF IInv, Shape
  <2>2. at' >= 1 /\ at' + argc' = Length + 1 /\ cpidx' < at'
    BY <1>1, <1>2 DEF IInv, Place
  <2>3. Length' = Length /\ Length \in Nat
    BY <1>1
  <2>4. at' \in 1 .. Length + 1 /\ argc' \in 0 .. Length /\ cpidx' \in 0 .. Length
    BY <2>1, <2>2, <2>3, PlacesOfLine
  <2> QED
    BY <2>3, <2>4 DEF Bounds
<1>3. CASE UNCHANGED <<typed, at, argc, cpidx>>
  BY <1>3 DEF Bounds, Length, Line
<1>4. CASE Finish
  <2>1. /\ Length \in Nat /\ at >= 1 /\ cpidx < at /\ at + argc = Length + 1
        /\ at \in Nat /\ argc \in Nat /\ cpidx \in Nat
    BY <1>4, LineIsText DEF Finish, IInv, Shape, Place
  <2>2. Length' = Length
    BY <1>4 DEF Finish, End, Length, Line
  <2> QED
    BY <1>4, <2>1, <2>2 DEF Finish, End, Bounds
<1>5. CASE outcome' # "parsing" /\ ~ Finish
  <2>1. ~ KeepWord
    BY <1>5 DEF KeepWord, InHand
  <2>2. ASSUME Reads, outcome = "parsing" PROVE UNCHANGED <<typed, at, argc, cpidx>>
    BY <1>5, <2>2 DEF Reads, SameLeft, Exit
  <2>3. CASE FirstSwitch
    BY <1>3, <2>2, <2>3, FirstSwitchReads DEF FirstSwitch, InHand
  <2>4. CASE NextSwitch
    BY <1>3, <2>2, <2>4, NextSwitchReads DEF NextSwitch
  <2>5. CASE LongOption
    BY <1>3, <2>2, <2>5, LongOptionReads DEF LongOption, InHand
  <2>6. CASE UNCHANGED vars
    BY <1>3, <2>6 DEF vars
  <2> QED
    BY <1>5, <2>1, <2>3, <2>4, <2>5, <2>6 DEF Next, Stopped
<1> QED
  BY <1>2, <1>4, <1>5

LEMMA NextValuesFit == IInv /\ ValuesFit /\ [Next]_vars => ValuesFit'
<1> SUFFICES ASSUME IInv, ValuesFit, [Next]_vars PROVE ValuesFit'
  OBVIOUS
<1>1. options' = options
  BY NextTyped
<1>2. Stores
  BY NextStores DEF vars, Stores
<1>3. CASE UNCHANGED values
  BY <1>1, <1>3 DEF ValuesFit
<1>4. CASE ~ UNCHANGED values
  <2>1. PICK o \in DOMAIN options, unset \in BOOLEAN, short \in BOOLEAN, rest \in Text \cup {Null} :
          /\ Accepts(o, unset, short, rest)
          /\ values' = [values EXCEPT ![o] = Value(o, unset, rest)]
    BY <1>2, <1>4, Zenon DEF Stores
  <2>2. outcome = "parsing" /\ argc > 0
    BY <1>4 DEF Next, KeepWord, FirstSwitch, NextSwitch, LongOption, Finish, End, Stopped, vars, InHand,
                IInv, NothingLeftOver
  <2>3. Value(o, unset, rest) \in ValuesOf(options[o].type)
    BY <2>1, <2>2, ValueFits
  <2> QED
    BY <1>1, <2>1, <2>3 DEF ValuesFit
<1> QED
  BY <1>3, <1>4

LEMMA InitTypeInv == Init => Bounds /\ ValuesFit
<1> SUFFICES ASSUME Init PROVE Bounds /\ ValuesFit
  OBVIOUS
<1>1. IInv
  BY InitInv
<1>2. Bounds
  BY <1>1, LineIsText DEF Init, IInv, Shape, Place, Bounds
<1>3. ValuesFit
  <2>1. \A o \in DOMAIN options : options[o].type \in Types
    BY <1>1, OptionsType DEF IInv
  <2> QED
    BY <2>1, UnsetFits DEF Init, ValuesFit
<1> QED
  BY <1>2, <1>3

-----------------------------------------------------------------------------
(* The parser does not guess.                                                 *)

\* A step sets nothing, or an option that the word in hand means.
SetsOne(o) == \E v : values' = [values EXCEPT ![o] = v]
SetsMeant ==
  \/ UNCHANGED values
  \/ \E o \in DOMAIN options : Means(o) /\ SetsOne(o)

LEMMA GetValueSets ==
  ASSUME NEW o, NEW unset, NEW short, NEW rest, GetValue(o, unset, short, rest)
  PROVE  UNCHANGED values \/ SetsOne(o)
  BY Zenon DEF GetValue, Exit, SetsOne

LEMMA FirstIsLeast ==
  ASSUME NEW found, found \subseteq Nat, found # {}
  PROVE  First(found) \in found /\ \A p \in found : First(found) <= p
<1>1. \E o \in found : \A p \in found : o <= p
  BY LeastNumber
<1> QED
  BY <1>1, Zenon DEF First

LEMMA SwitchMeans ==
  ASSUME IInv, NEW letters, Switch(letters),
         ~ IsLong(Hand), Head(letters) = NextLetter
  PROVE  SetsMeant
<1> DEFINE found == WithLetter(Head(letters))
           o == First(found)
           rest == IF Len(letters) > 1 THEN Tail(letters) ELSE Null
<1>1. CASE found = {}
  BY <1>1 DEF Switch, Exit, SetsMeant
<1>2. CASE found # {}
  <2>1. GetValue(o, FALSE, TRUE, rest)
    BY <1>2 DEF Switch
  <2>2. found = {p \in DOMAIN options : options[p].short = NextLetter}
    BY DEF WithLetter
  <2>3. DOMAIN options \subseteq Nat /\ DOMAIN options = 1 .. Len(options)
    BY OptionsInOrder DEF IInv
  <2> HIDE DEF found, rest
  <2>4. o \in found /\ \A p \in found : o <= p
    BY <1>2, <2>2, <2>3, FirstIsLeast
  <2> HIDE DEF o
  <2>5. o \in DOMAIN options /\ options[o].short = NextLetter
    BY <2>2, <2>4
  <2>6. ASSUME NEW p \in 1 .. o - 1 PROVE options[p].short # NextLetter
    <3>1. p \in DOMAIN options /\ ~ (o <= p)
      BY <2>3, <2>5
    <3> QED
      BY <2>2, <2>4, <3>1
  <2>7. Means(o)
    BY <2>5, <2>6 DEF Means
  <2> QED
    BY <2>1, <2>5, <2>7, GetValueSets DEF SetsMeant
<1> QED
  BY <1>1, <1>2

LEMMA LongMeans ==
  ASSUME IInv, IsLong(Hand), Long(Without(Hand, Dashes))
  PROVE  SetsMeant
<1> DEFINE arg == Without(Hand, Dashes)
           exact  == {o \in DOMAIN options : Exact(arg, o) \/ ExactNegated(arg, o)}
           abbrev == {o \in DOMAIN options : Abbreviates(arg, o) \/ AbbreviatesNegated(arg, o)}
           given(o) == IF AbbreviatesNegated(arg, o) THEN Null ELSE RestOf(arg)
<1>1. DOMAIN options \subseteq Nat /\ IsFiniteSet(DOMAIN options)
  BY OptionsInOrder, FS_Interval DEF IInv
<1>2. exact \subseteq DOMAIN options /\ abbrev \subseteq DOMAIN options
  OBVIOUS
<1>3. \/ \E why : Exit(why)
      \/ exact # {} /\ GetValue(First(exact), ExactNegated(arg, First(exact)), FALSE, RestOf(arg))
      \/ /\ exact = {} /\ abbrev # {} /\ ~ (Cardinality(abbrev) > 1)
         /\ GetValue(First(abbrev), AbbreviatesNegated(arg, First(abbrev)), FALSE, given(First(abbrev)))
  BY Zenon DEF Long
<1>4. \A o \in exact : InFull(arg, o)
  BY Zenon DEF Exact, ExactNegated, InFull
<1>5. ASSUME exact = {}, NEW p \in DOMAIN options, p \notin abbrev
      PROVE  ~ Begins(arg, p)
  <2>1. ~ Exact(arg, p) /\ ~ Abbreviates(arg, p) /\ ~ AbbreviatesNegated(arg, p)
    BY <1>5
  <2>2. ~ IsPrefix(NameOf(arg), options[p].long)
    BY <2>1, Zenon DEF Exact, Abbreviates, IsStrictPrefix
  <2> QED
    BY <2>1, <2>2, Zenon DEF Begins, AbbreviatesNegated
<1> HIDE DEF arg, exact, abbrev, given
<1>6. CASE \E why : Exit(why)
  BY <1>6 DEF Exit, SetsMeant
<1>7. CASE exact # {} /\ GetValue(First(exact), ExactNegated(arg, First(exact)), FALSE, RestOf(arg))
  <2>1. First(exact) \in exact
    BY <1>1, <1>2, <1>7, FirstIsLeast
  <2>2. First(exact) \in DOMAIN options /\ InFull(arg, First(exact))
    BY <1>2, <1>4, <2>1
  <2>3. Means(First(exact))
    BY <2>2, Zenon DEF Means, arg
  <2>4. UNCHANGED values \/ SetsOne(First(exact))
    BY <1>7, GetValueSets, Zenon
  <2> QED
    BY <2>2, <2>3, <2>4, Zenon DEF SetsMeant
<1>8. CASE /\ exact = {} /\ abbrev # {} /\ ~ (Cardinality(abbrev) > 1)
           /\ GetValue(First(abbrev), AbbreviatesNegated(arg, First(abbrev)), FALSE, given(First(abbrev)))
  <2>1. First(abbrev) \in abbrev
    BY <1>1, <1>2, <1>8, FirstIsLeast
  <2>2. \A p \in abbrev : p = First(abbrev)
    <3>1. IsFiniteSet(abbrev)
      BY <1>1, <1>2, FS_Subset
    <3>2. Cardinality(abbrev) \in Nat /\ Cardinality(abbrev) # 0
      BY <1>8, <3>1, FS_CardinalityType, FS_EmptySet
    <3>3. Cardinality(abbrev) = 1
      BY <1>8, <3>2
    <3>4. \E x : abbrev = {x}
      BY <3>1, <3>3, FS_Singleton
    <3> QED
      BY <2>1, <3>4
  <2>3. \A p \in DOMAIN options \ {First(abbrev)} : ~ Begins(arg, p)
    BY <1>5, <1>8, <2>2
  <2>4. Means(First(abbrev))
    BY <2>3, Zenon DEF Means, arg
  <2>5. UNCHANGED values \/ SetsOne(First(abbrev))
    BY <1>8, GetValueSets, Zenon
  <2> QED
    BY <1>2, <2>1, <2>4, <2>5, Zenon DEF SetsMeant
<1> QED
  BY <1>3, <1>6, <1>7, <1>8

LEMMA NextSetsMeant == IInv /\ [Next]_vars => SetsMeant
<1> SUFFICES ASSUME IInv, [Next]_vars PROVE SetsMeant
  OBVIOUS
<1>1. CASE KeepWord \/ Finish \/ Stopped \/ UNCHANGED vars
  BY <1>1 DEF KeepWord, Finish, End, Stopped, vars, SetsMeant
<1>2. CASE FirstSwitch
  <2>1. ~ IsLong(Hand) /\ Head(Tail(Hand)) = NextLetter
    BY <1>2 DEF FirstSwitch, InHand, NextLetter
  <2>2. (\E why : Exit(why)) \/ Switch(Tail(Hand))
    BY <1>2, Zenon DEF FirstSwitch
  <2> QED
    BY <2>1, <2>2, SwitchMeans DEF Exit, SetsMeant
<1>3. CASE NextSwitch
  <2>1. ~ IsLong(Hand) /\ Head(opt) = NextLetter
    BY <1>3 DEF NextSwitch, NextLetter, IInv, NothingLeftOver
  <2>2. (\E why : Exit(why)) \/ Switch(opt)
    BY <1>3, Zenon DEF NextSwitch
  <2> QED
    BY <2>1, <2>2, SwitchMeans DEF Exit, SetsMeant
<1>4. CASE LongOption
  <2>1. IsLong(Hand)
    BY <1>4 DEF LongOption
  <2>2. (\E why : Exit(why)) \/ Long(Without(Hand, Dashes))
    BY <1>4, Zenon DEF LongOption
  <2> QED
    BY <2>1, <2>2, LongMeans DEF Exit, SetsMeant
<1> QED
  BY <1>1, <1>2, <1>3, <1>4 DEF Next

-----------------------------------------------------------------------------
(* The theorems.                                                              *)

\* The words that parse_options leaves are the line's, in order, each once; what
\* is still to be read is never overwritten.
THEOREM LeftInOrderAlways == Spec => []LeftInOrder
<1>1. IInv => LeftInOrder
  BY DEF IInv
<1> QED
  BY Invariance, <1>1, PTL

\* No part of a word is left over for the next one.
THEOREM NothingLeftOverAlways == Spec => []NothingLeftOver
<1>1. IInv => NothingLeftOver
  BY DEF IInv
<1> QED
  BY Invariance, <1>1, PTL

\* Every step of the two loops ends the parse or leaves less to read.
THEOREM ReadsOnAlways == Spec => ReadsOn
<1> DEFINE Onward ==
      \/ outcome' # "parsing"
      \/ argc' < argc
      \/ argc' = argc /\ at' = at /\ Unread' < Unread
<1>1. IInv /\ [Next]_vars => [Onward]_vars
  <2> SUFFICES ASSUME IInv, Next PROVE Onward \/ UNCHANGED vars
    OBVIOUS
  <2>1. CASE KeepWord
    BY <2>1 DEF KeepWord, InHand, Advance, IInv, Shape
  <2>2. ASSUME Reads, outcome = "parsing" PROVE Onward
    <3>1. CASE \E why \in Stops : Exit(why)
      BY <3>1 DEF Exit, Stops
    <3>2. CASE \E n \in 1 .. 2 : n <= argc /\ Advance(n)
      BY <3>2 DEF Advance, IInv, Shape
    <3>3. CASE UNCHANGED <<at, argc>> /\ opt' # Null /\ Len(opt') < Unread
      BY <3>3 DEF Unread
    <3> QED
      BY <2>2, <3>1, <3>2, <3>3, Zenon DEF Reads
  <2>3. CASE FirstSwitch
    BY <2>2, <2>3, FirstSwitchReads, Zenon DEF FirstSwitch, InHand
  <2>4. CASE NextSwitch
    BY <2>2, <2>4, NextSwitchReads, Zenon DEF NextSwitch
  <2>5. CASE LongOption
    BY <2>2, <2>5, LongOptionReads, Zenon DEF LongOption, InHand
  <2>6. CASE Finish
    BY <2>6 DEF Finish, End
  <2>7. CASE Stopped
    BY <2>7 DEF Stopped
  <2> QED
    BY <2>1, <2>3, <2>4, <2>5, <2>6, <2>7 DEF Next
<1> QED
  BY Invariance, <1>1, PTL DEF Spec, ReadsOn

\* Every variable keeps its type; above all, each option variable holds a value
\* of its type, whatever text was given for it: a number is read to the end,
\* clamped and cut to the width of its variable.
THEOREM TypeCorrect == Spec => []TypeOK
<1>1. IInv /\ Bounds /\ ValuesFit => TypeOK
  BY LineIsText DEF IInv, Shape, Bounds, ValuesFit, TypeOK
<1>2. Init => IInv /\ Bounds /\ ValuesFit
  BY InitInv, InitTypeInv
<1>3. (IInv /\ Bounds /\ ValuesFit) /\ [Next]_vars => (IInv /\ Bounds /\ ValuesFit)'
  BY NextInv, NextBounds, NextValuesFit
<1> QED
  BY <1>1, <1>2, <1>3, PTL DEF Spec

\* In every line and for every table, a step of the parser sets the option that
\* the word in hand means, by its letter, its name or the beginning of a name that
\* no other option shares; an ambiguous word sets none.
THEOREM NeverGuesses == Spec => NoGuessing
<1> DEFINE Sure ==
      \A o \in DOMAIN options : values'[o] # values[o] =>
        Means(o) /\ \A p \in DOMAIN options \ {o} : values'[p] = values[p]
<1>1. IInv /\ ValuesFit /\ [Next]_vars => [Sure]_vars
  <2> SUFFICES ASSUME IInv, ValuesFit, [Next]_vars PROVE Sure
    OBVIOUS
  <2>1. SetsMeant
    BY NextSetsMeant
  <2>2. CASE UNCHANGED values
    BY <2>2
  <2>3. ASSUME NEW o \in DOMAIN options, Means(o), SetsOne(o) PROVE Sure
    <3>1. \A p \in DOMAIN options \ {o} : values'[p] = values[p]
      BY <2>3 DEF SetsOne, ValuesFit
    <3> QED
      BY <2>3, <3>1, Zenon
  <2> QED
    BY <2>1, <2>2, <2>3, Zenon DEF SetsMeant
<1>2. Spec => []ValuesFit
  BY Invariance, InitTypeInv, NextValuesFit, PTL DEF Spec
<1> QED
  BY Invariance, <1>1, <1>2, PTL DEF Spec, NoGuessing
=============================================================================
