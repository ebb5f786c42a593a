-------------------------- MODULE ExchangeProofs ---------------------------
(* What the module Exchange promises, for every number of eight bytes and for *)
(* every command that the tables agree on.                                    *)
EXTENDS Exchange, TLAPS

\* Of a number cut to a bytes and then to b, the c bytes above the lowest low are
\* those of the number itself.
Arrives(w, a, b, c, low) ==
  Low(Shifted(Low(Low(w, a), b), low), c) = Low(Shifted(w, low), c)

\* A part of a number that fits into every place it passes arrives unchanged.
LEMMA PartArrives ==
  ASSUME NEW w, NEW a \in Widths, NEW b \in Widths, NEW c \in Widths,
         NEW low \in 0 .. 7, low + c <= a, low + c <= b
  PROVE  Arrives(w, a, b, c, low)
<1>1. ASSUME NEW k \in 1 .. 8, k <= c
      PROVE  Shifted(Low(Low(w, a), b), low)[k] = Shifted(w, low)[k]
  BY <1>1 DEF Low, Shifted, Widths
<1>2. Low(Shifted(Low(Low(w, a), b), low), c) = Low(Shifted(w, low), c)
  BY <1>1 DEF Low, Widths
<1> QED
  BY <1>2 DEF Arrives

LEMMA ShiftedType ==
  ASSUME NEW w \in Word, NEW low \in 0 .. 7
  PROVE  Shifted(w, low) \in Word
<1>1. \A k \in 1 .. 8 : k + low <= 8 => k + low \in 1 .. 8
  OBVIOUS
<1>2. \A k \in 1 .. 8 : w[k] \in 0 .. 255
  BY DEF Word
<1>3. ASSUME NEW k \in 1 .. 8
      PROVE  (IF k + low <= 8 THEN w[k + low] ELSE 0) \in 0 .. 255
  <2>1. CASE k + low <= 8
    <3>1. w[k + low] \in 0 .. 255
      BY <1>1, <1>2, <2>1, Zenon
    <3> QED
      BY <2>1, <3>1
  <2>2. CASE ~ (k + low <= 8)
    BY <2>2
  <2> QED
    BY <2>1, <2>2
<1> QED
  BY <1>3 DEF Shifted, Word

LEMMA LowType ==
  ASSUME NEW w \in Word, NEW a \in Widths
  PROVE  Low(w, a) \in Word
<1>1. \A k \in 1 .. 8 : w[k] \in 0 .. 255
  BY DEF Word
<1>2. ASSUME NEW k \in 1 .. 8
      PROVE  (IF k <= a THEN w[k] ELSE 0) \in 0 .. 255
  <2>1. w[k] \in 0 .. 255
    BY <1>1, Zenon
  <2>2. 0 \in 0 .. 255
    OBVIOUS
  <2> QED
    BY <2>1, <2>2, Zenon
<1> QED
  BY <1>2 DEF Low, Word

LEMMA ZeroType == Zero \in Word
BY DEF Zero, Word

\* What the assumption on the tables says of the command in hand.
LEMMA TablesOfCommand ==
  ASSUME cmd \in DOMAIN Options
  PROVE  /\ DOMAIN Passed = DOMAIN Command.params
         /\ \A i \in DOMAIN Passed : Passed[i].bytes \in Widths
         /\ \A i \in DOMAIN Command.params : Command.params[i].bytes \in Widths
         /\ \A f \in DOMAIN Request : Request[f] \in Widths
         /\ \A f \in DOMAIN Command.fills :
              /\ Command.fills[f].low \in 0 .. 7
              /\ \E i \in DOMAIN Command.params :
                   Command.params[i].name = Command.fills[f].param
         /\ \A l \in DOMAIN Command.shows : Command.shows[l] \in Answer
         /\ \A l \in DOMAIN Command.onError : Command.onError[l] \in Answer
         /\ \A i \in DOMAIN Passed : Passed[i].name \in Names
<1> DEFINE c == Options[cmd].runs
<1>1. c \in DOMAIN Commands
  BY TablesAssumption
<1>2. Commands[c].calls \in DOMAIN Wrappers
  BY <1>1, TablesAssumption
<1>3. Wrappers[Commands[c].calls].op \in DOMAIN Layouts
  BY <1>2, TablesAssumption
<1>4. \A f \in DOMAIN Request : Request[f] \in Widths
  BY <1>3, TablesAssumption DEF Request, Wrapper, Command
<1>5. /\ DOMAIN Passed = DOMAIN Command.params
      /\ \A i \in DOMAIN Passed : Passed[i].bytes \in Widths
  BY TablesAssumption DEF Passed, Command
<1>6. /\ \A i \in DOMAIN Command.params : Command.params[i].bytes \in Widths
      /\ \A f \in DOMAIN Command.fills :
           /\ Command.fills[f].low \in 0 .. 7
           /\ \E i \in DOMAIN Command.params :
                Command.params[i].name = Command.fills[f].param
      /\ \A l \in DOMAIN Command.shows : Command.shows[l] \in Answer
      /\ \A l \in DOMAIN Command.onError : Command.onError[l] \in Answer
  BY <1>1, TablesAssumption DEF Command, Request, Answer, Wrapper
<1>7. \A i \in DOMAIN Passed : Passed[i].name \in Names
  BY DEF Passed, Names
<1> QED
  BY <1>4, <1>5, <1>6, <1>7

-----------------------------------------------------------------------------
LEMMA ArgumentsType ==
  ASSUME TypeOK
  PROVE  Arguments \in [DOMAIN Command.params -> Values]
<1>1. SUFFICES ASSUME NEW i \in DOMAIN Command.params
               PROVE  /\ Passed[i].name \in Names
                      /\ Low(Low(given, Passed[i].bytes), Command.params[i].bytes) \in Word
  BY DEF Arguments, Values
<1>2. given \in Word
  BY TablesAssumption DEF TypeOK
<1>3. cmd \in DOMAIN Options
  BY DEF TypeOK
<1> QED
  BY <1>2, <1>3, TablesOfCommand, LowType

LEMMA MessageType ==
  ASSUME TypeOK, args \in [DOMAIN Command.params -> Values]
  PROVE  Message \in [op : {Wrapper.op}, fields : [DOMAIN Request -> Values]]
<1>1. cmd \in DOMAIN Options
  BY DEF TypeOK
<1>2. ASSUME NEW f \in DOMAIN Command.fills
      PROVE  Filled(f) \in Values /\ Command.fills[f].low \in 0 .. 7
  BY <1>1, TablesOfCommand DEF Filled
<1>3. ASSUME NEW f \in DOMAIN Request, f \in DOMAIN Command.fills
      PROVE  Field(f) \in Values
  <2>1. Shifted(Filled(f).bytes, Command.fills[f].low) \in Word
    BY <1>2, <1>3, ShiftedType DEF Values
  <2>2. Low(Shifted(Filled(f).bytes, Command.fills[f].low), Request[f]) \in Word
    BY <1>1, <2>1, TablesOfCommand, LowType
  <2> QED
    BY <1>2, <1>3, <2>2 DEF Field, Values
<1>4. Unset \in Values
  BY ZeroType DEF Unset, Values
<1> QED
  BY <1>3, <1>4 DEF Message

-----------------------------------------------------------------------------
\* Once the command is called, its parameters hold what was passed, and a
\* request is what was made of them; the structure for the answer holds what
\* was copied out of it.
Passing ==
  /\ pc # "parse" => args = Arguments
  /\ wire # NoMessage => wire = Message /\ args = Arguments
  /\ pc \in {"armed", "answered", "copied"} => wire = Message /\ rc = 0
  /\ pc \in {"answered", "copied"} => answered = Wrapper.op
  /\ pc \in {"parse", "called"} => rc = 0
  /\ pc = "parse" => wire = NoMessage
  /\ pc = "failed" => rc # 0

\* What is displayed was in the structure, and what was copied is in it.
Copying ==
  /\ pc = "copied" /\ InFull => \A f \in Wrapper.takes \cap Answer : ret[f] = "device"
  /\ pc = "done" /\ rc = 0 =>
       /\ answered = Wrapper.op
       /\ DOMAIN shown = DOMAIN Command.shows
       /\ \A l \in DOMAIN shown : shown[l].field = Command.shows[l]
       /\ InFull => \A l \in DOMAIN shown :
            Command.shows[l] \in Wrapper.takes => shown[l] = [field |-> Command.shows[l],
                                                              from |-> "device"]

IInv == TypeOK /\ Passing /\ Copying

LEMMA InitIInv == Init => IInv
<1> SUFFICES ASSUME Init PROVE IInv
  OBVIOUS
<1>1. TypeOK
  BY DEF Init, TypeOK
<1>2. Passing
  BY DEF Init, Passing
<1>3. Copying
  BY DEF Init, Copying
<1> QED
  BY <1>1, <1>2, <1>3 DEF IInv

\* The command in hand, and with it all that depends on it alone, stays.
LEMMA SameCommand ==
  ASSUME UNCHANGED <<cmd, given, limit>>
  PROVE  /\ Passed' = Passed
         /\ Command' = Command
         /\ Wrapper' = Wrapper
         /\ Request' = Request
         /\ Answer' = Answer
         /\ Arguments' = Arguments
         /\ InFull' = InFull
         /\ Values' = Values
<1>1. Passed' = Passed /\ Command' = Command
  BY DEF Passed, Command
<1>2. Wrapper' = Wrapper
  BY <1>1 DEF Wrapper
<1>3. Request' = Request /\ Answer' = Answer
  BY <1>2 DEF Request, Answer
<1>4. Arguments' = Arguments
  BY <1>1 DEF Arguments
<1>5. Values' = Values
  BY <1>1 DEF Values, Names
<1> QED
  BY <1>1, <1>2, <1>3, <1>4, <1>5 DEF InFull

LEMMA SameMessage ==
  ASSUME UNCHANGED <<cmd, given, limit, args>>
  PROVE  Message' = Message
<1>1. Command' = Command /\ Wrapper' = Wrapper /\ Request' = Request
  BY SameCommand
<1>2. \A f : Field(f)' = Field(f)
  BY <1>1 DEF Filled, Field
<1> QED
  BY <1>1, <1>2 DEF Message

LEMMA TypeStep == TypeOK /\ Passing /\ [Next]_vars => TypeOK'
<1> SUFFICES ASSUME TypeOK, Passing, [Next]_vars PROVE TypeOK'
  OBVIOUS
<1> USE DEF TypeOK
<1>0. cmd \in DOMAIN Options
  OBVIOUS
<1>1. CASE Call
  <2>1. UNCHANGED <<cmd, given, limit>> /\ args' = Arguments
    BY <1>1 DEF Call
  <2>2. args' \in [DOMAIN Command.params -> Values]
    BY <2>1, ArgumentsType
  <2> QED
    BY <1>1, <2>1, <2>2, SameCommand DEF Call
<1>2. CASE Refuse \/ NoRoom \/ NoRequest \/ NoAnswer \/ Answered \/ NotAnswered \/ Crash
  <2>1. UNCHANGED <<cmd, given, limit, args, wire, ret, shown>>
    BY <1>2 DEF Refuse, NoRoom, NoRequest, NoAnswer, Answered, NotAnswered, Crash
  <2>2. answered' \in {"none", Wrapper.op}
    <3>1. CASE Answered
      BY <3>1 DEF Answered, Passing, Message
    <3>2. CASE ~ Answered
      BY <1>2, <3>2 DEF Refuse, NoRoom, NoRequest, NoAnswer, NotAnswered, Crash
    <3> QED
      BY <3>1, <3>2
  <2>3. /\ pc' \in {"parse", "called", "armed", "answered", "copied", "failed", "crashed",
                 "done"}
        /\ rc' \in {-22, -12, -1, 0, 1}
    BY <1>2 DEF Refuse, NoRoom, NoRequest, NoAnswer, Answered, NotAnswered, Crash
  <2> QED
    BY <2>1, <2>2, <2>3, SameCommand
<1>3. CASE Arm
  <2>1. UNCHANGED <<cmd, given, limit, args, ret, rc, shown, answered>> /\ wire' = Message
    BY <1>3 DEF Arm
  <2>2. args \in [DOMAIN Command.params -> Values]
    BY <1>3, ArgumentsType DEF Arm, Passing
  <2>3. wire' \in [op : {Wrapper.op}, fields : [DOMAIN Request -> Values]]
    BY <2>1, <2>2, MessageType
  <2> QED
    BY <1>3, <2>1, <2>3, SameCommand DEF Arm
<1>4. CASE CopyAll \/ CopyPart \/ CopyNone
  <2>1. PICK fields : Copied(fields)
    BY <1>4 DEF CopyAll, CopyPart, CopyNone
  <2>2. UNCHANGED <<cmd, given, limit, args, wire, rc, shown, answered>>
    BY <2>1 DEF Copied
  <2>3. ret' \in [Answer -> {"stack", "device"}] /\ pc' = "copied"
    BY <2>1 DEF Copied
  <2> QED
    BY <2>2, <2>3, SameCommand
<1>5. CASE Show \/ ShowError
  <2>1. UNCHANGED <<cmd, given, limit, args, wire, ret, rc, answered>> /\ pc' = "done"
    BY <1>5 DEF Show, ShowError, Display
  <2>2. PICK labels \in {Command.shows, Command.onError} : Display(labels)
    BY <1>5 DEF Show, ShowError
  <2>3. \A l \in DOMAIN labels : labels[l] \in Answer
    BY <1>0, <2>2, TablesOfCommand
  <2>4. \A l \in DOMAIN shown' : shown'[l] \in [field : Answer, from : {"stack", "device"}]
    BY <2>2, <2>3 DEF Display
  <2> QED
    BY <2>1, <2>4, SameCommand
<1>6. CASE UNCHANGED vars
  BY <1>6, SameCommand DEF vars
<1> QED
  BY <1>1, <1>2, <1>3, <1>4, <1>5, <1>6 DEF Next

LEMMA PassingStep == TypeOK /\ Passing /\ [Next]_vars => Passing'
<1> SUFFICES ASSUME TypeOK, Passing, [Next]_vars PROVE Passing'
  OBVIOUS
<1> USE DEF Passing
<1>1. CASE Call
  <2>1. UNCHANGED <<cmd, given, limit, wire, rc>> /\ args' = Arguments /\ pc' = "called"
    BY <1>1 DEF Call
  <2>2. wire = NoMessage
    BY <1>1 DEF Call
  <2>3. rc = 0
    BY <1>1 DEF Call
  <2> QED
    BY <2>1, <2>2, <2>3, SameCommand DEF NoMessage
<1>2. CASE Refuse \/ NoRoom \/ NoRequest \/ NoAnswer \/ Answered \/ NotAnswered \/ Crash
  <2>1. UNCHANGED <<cmd, given, limit, args, wire>>
    BY <1>2 DEF Refuse, NoRoom, NoRequest, NoAnswer, Answered, NotAnswered, Crash
  <2>2. pc' \in {"answered", "failed", "crashed", "done"} /\ pc # "parse"
    BY <1>2 DEF Refuse, NoRoom, NoRequest, NoAnswer, Answered, NotAnswered, Crash
  <2>3. pc' = "answered" => wire = Message /\ rc' = 0 /\ answered' = Wrapper.op
    BY <1>2 DEF Refuse, NoRoom, NoRequest, NoAnswer, Answered, NotAnswered, Crash, Message
  <2>4. pc' = "failed" => rc' # 0
    BY <1>2 DEF Refuse, NoRoom, NoRequest, NoAnswer, Answered, NotAnswered, Crash
  <2> QED
    BY <2>1, <2>2, <2>3, <2>4, SameCommand, SameMessage DEF NoMessage
<1>3. CASE Arm
  <2>1. UNCHANGED <<cmd, given, limit, args, rc>> /\ wire' = Message /\ pc' = "armed"
    BY <1>3 DEF Arm
  <2>2. args = Arguments /\ rc = 0
    BY <1>3 DEF Arm
  <2> QED
    BY <2>1, <2>2, SameCommand, SameMessage DEF NoMessage
<1>4. CASE CopyAll \/ CopyPart \/ CopyNone
  <2>1. PICK fields : Copied(fields)
    BY <1>4 DEF CopyAll, CopyPart, CopyNone
  <2>2. UNCHANGED <<cmd, given, limit, args, wire, rc, answered>> /\ pc = "answered"
        /\ pc' = "copied"
    BY <2>1 DEF Copied
  <2> QED
    BY <2>2, SameCommand, SameMessage DEF NoMessage
<1>5. CASE Show \/ ShowError
  <2>1. UNCHANGED <<cmd, given, limit, args, wire>> /\ pc' = "done" /\ pc # "parse"
    BY <1>5 DEF Show, ShowError, Display
  <2> QED
    BY <2>1, SameCommand, SameMessage DEF NoMessage
<1>6. CASE UNCHANGED vars
  BY <1>6, SameCommand, SameMessage DEF vars, NoMessage
<1> QED
  BY <1>1, <1>2, <1>3, <1>4, <1>5, <1>6 DEF Next

LEMMA CopyingStep == TypeOK /\ Passing /\ Copying /\ [Next]_vars => Copying'
<1> SUFFICES ASSUME TypeOK, Passing, Copying, [Next]_vars PROVE Copying'
  OBVIOUS
<1>1. CASE Call \/ NoRequest \/ Arm \/ NoAnswer \/ Answered \/ NotAnswered \/ Crash
  <2>1. pc' \in {"called", "failed", "armed", "answered", "crashed"}
    BY <1>1 DEF Call, NoRequest, Arm, NoAnswer, Answered, NotAnswered, Crash
  <2> QED
    BY <2>1 DEF Copying
<1>2. CASE Refuse \/ NoRoom
  BY <1>2 DEF Refuse, NoRoom, Copying
<1>3. CASE CopyAll \/ CopyPart \/ CopyNone
  <2>1. UNCHANGED <<cmd, given, limit>> /\ pc' = "copied"
    BY <1>3 DEF CopyAll, CopyPart, CopyNone, Copied
  <2>2. InFull => CopyAll
    BY <1>3 DEF CopyPart, CopyNone
  <2>3. CopyAll => \A f \in Wrapper.takes \cap Answer : ret'[f] = "device"
    BY DEF CopyAll, Copied
  <2> QED
    BY <2>1, <2>2, <2>3, SameCommand DEF Copying
<1>4. CASE Show
  <2>1. /\ UNCHANGED <<cmd, given, limit, answered>>
        /\ shown' = [l \in DOMAIN Command.shows |->
                      [field |-> Command.shows[l], from |-> ret[Command.shows[l]]]]
        /\ pc = "copied" /\ pc' = "done"
    BY <1>4 DEF Show, Display
  <2>2. answered = Wrapper.op
    BY <2>1 DEF Passing
  <2>3. \A l \in DOMAIN Command.shows : Command.shows[l] \in Answer
    BY TablesOfCommand DEF TypeOK
  <2>4. InFull => \A l \in DOMAIN Command.shows :
          Command.shows[l] \in Wrapper.takes => ret[Command.shows[l]] = "device"
    BY <2>1, <2>3 DEF Copying
  <2> QED
    BY <2>1, <2>2, <2>4, SameCommand DEF Copying
<1>5. CASE ShowError
  <2>1. rc' # 0 /\ pc' = "done"
    BY <1>5 DEF ShowError, Display, Passing
  <2> QED
    BY <2>1 DEF Copying
<1>6. CASE UNCHANGED vars
  BY <1>6, SameCommand DEF vars, Copying
<1> QED
  BY <1>1, <1>2, <1>3, <1>4, <1>5, <1>6 DEF Next

-----------------------------------------------------------------------------
LEMMA NextIInv == IInv /\ [Next]_vars => IInv'
BY TypeStep, PassingStep, CopyingStep DEF IInv

LEMMA Invariance == Spec => []IInv
<1>1. Init => IInv
  BY InitIInv
<1>2. IInv /\ [Next]_vars => IInv'
  BY NextIInv
<1> QED
  BY <1>1, <1>2, PTL DEF Spec

\* Type correctness, of every command of every set of tables.
THEOREM TypeCorrect == Spec => []TypeOK
<1>1. IInv => TypeOK
  BY DEF IInv
<1> QED
  BY <1>1, Invariance, PTL

\* Of every command that the tables agree on, every number of 64 bits arrives
\* at the device: as much of each part of it as the field of that part has room
\* for (cmd_parser.c, cxl_cmd.c and vendor_commands.c together).
THEOREM EveryNumberArrives == Spec => [](TablesAgree => OptionsArrive)
<1>1. ASSUME IInv, TablesAgree, wire # NoMessage
      PROVE  /\ DOMAIN wire.fields = UNION {DOMAIN Passed[i].fields : i \in DOMAIN Passed}
             /\ \A i \in DOMAIN Passed : \A f \in DOMAIN Passed[i].fields :
                  wire.fields[f] =
                    [from  |-> Passed[i].name,
                     bytes |-> Low(Shifted(given, Passed[i].fields[f]), Request[f])]
  <2>1. wire = Message /\ args = Arguments /\ cmd \in DOMAIN Options /\ given \in Word
    BY <1>1, TablesAssumption DEF IInv, Passing, TypeOK
  <2>2. DOMAIN wire.fields = DOMAIN Request
    BY <2>1 DEF Message
  <2>3. /\ DOMAIN Request = UNION {DOMAIN Passed[i].fields : i \in DOMAIN Passed}
        /\ DOMAIN Request \subseteq Wrapper.puts \cap DOMAIN Command.fills
        /\ \A i \in DOMAIN Passed : \A f \in DOMAIN Passed[i].fields :
             /\ Command.fills[f].low = Passed[i].fields[f]
             /\ Passed[i].fields[f] + Request[f] <= Passed[i].bytes
             /\ Passed[i].fields[f] + Request[f] <= Command.params[i].bytes
             /\ \A k \in DOMAIN Passed :
                  Command.params[k].name = Command.fills[f].param => k = i
    BY <1>1 DEF TablesAgree, Agree, Passed, Command, Wrapper, Request
  <2>4. ASSUME NEW i \in DOMAIN Passed, NEW f \in DOMAIN Passed[i].fields
        PROVE  wire.fields[f] =
                 [from  |-> Passed[i].name,
                  bytes |-> Low(Shifted(given, Passed[i].fields[f]), Request[f])]
    <3> DEFINE low == Passed[i].fields[f]
    <3>1. f \in DOMAIN Request /\ f \in Wrapper.puts /\ f \in DOMAIN Command.fills
      BY <2>3
    <3>2. DOMAIN Passed = DOMAIN Command.params /\ Command.fills[f].low \in 0 .. 7
      BY <2>1, <3>1, TablesOfCommand
    <3>3. \E k \in DOMAIN Command.params : Command.params[k].name = Command.fills[f].param
      BY <2>1, <3>1, TablesOfCommand
    <3>4. \A k \in DOMAIN Command.params :
            Command.params[k].name = Command.fills[f].param => k = i
      BY <2>3, <3>2
    <3>5. (CHOOSE k \in DOMAIN Command.params :
             Command.params[k].name = Command.fills[f].param) = i
      BY <3>3, <3>4
    <3>6. Filled(f) = Arguments[i]
      BY <2>1, <3>5 DEF Filled
    <3>7. /\ Filled(f).from = Passed[i].name
          /\ Filled(f).bytes = Low(Low(given, Passed[i].bytes), Command.params[i].bytes)
      BY <3>2, <3>6 DEF Arguments
    <3>8. /\ Request[f] \in Widths
          /\ Passed[i].bytes \in Widths
          /\ Command.params[i].bytes \in Widths
      BY <2>1, <3>1, <3>2, TablesOfCommand
    <3>9. /\ low \in 0 .. 7
          /\ low = Command.fills[f].low
          /\ low + Request[f] <= Passed[i].bytes
          /\ low + Request[f] <= Command.params[i].bytes
      BY <2>3, <3>2
    <3>10. wire.fields[f] = Field(f)
      BY <2>1, <3>1 DEF Message
    <3> HIDE DEF low
    <3>11. Low(Shifted(Filled(f).bytes, low), Request[f]) = Low(Shifted(given, low), Request[f])
      <4>1. Low(Shifted(Low(Low(given, Passed[i].bytes), Command.params[i].bytes), low),
                Request[f])
              = Low(Shifted(given, low), Request[f])
        <5> DEFINE a == Passed[i].bytes
                   b == Command.params[i].bytes
                   c == Request[f]
        <5>1. /\ a \in Widths /\ b \in Widths /\ c \in Widths
              /\ low \in 0 .. 7 /\ low + c <= a /\ low + c <= b
          BY <3>8, <3>9
        <5> HIDE DEF a, b, c
        <5>2. Arrives(given, a, b, c, low)
          BY <5>1, PartArrives, Zenon
        <5> QED
          BY <5>2, Zenon DEF Arrives, a, b, c
      <4> QED
        BY <4>1, <3>7
    <3>12. Field(f) = [from |-> Passed[i].name,
                       bytes |-> Low(Shifted(given, low), Request[f])]
      BY <3>7, <3>9, <3>11 DEF Field
    <3> QED
      BY <3>10, <3>12 DEF low
  <2> QED
    BY <2>2, <2>3, <2>4
<1>2. IInv => (TablesAgree => OptionsArrive)
  BY <1>1 DEF OptionsArrive
<1> QED
  BY <1>2, Invariance, PTL

\* If the tables agree on a command, its success was answered, and what it
\* displays came with the answer, under its own name.
THEOREM DisplaysWhatItReceived == Spec => [](TablesAgree => ShownWasReceived)
<1>1. IInv => (TablesAgree => ShownWasReceived)
  <2>1. SUFFICES ASSUME IInv, TablesAgree, pc = "done", rc = 0, InFull PROVE
          /\ answered = Wrapper.op
          /\ \A l \in DOMAIN shown : shown[l] = [field |-> l, from |-> "device"]
    BY DEF ShownWasReceived
  <2>2. \A l \in DOMAIN Command.shows : Command.shows[l] = l /\ l \in Wrapper.takes
    BY <2>1 DEF TablesAgree, Agree, Command, Wrapper
  <2> QED
    BY <2>1, <2>2 DEF IInv, Copying
<1> QED
  BY <1>1, Invariance, PTL
=============================================================================
