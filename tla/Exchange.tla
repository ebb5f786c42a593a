------------------------------ MODULE Exchange ------------------------------
(* A command that is a single exchange with the device, from the numbers on   *)
(* the command line to the display, on one endpoint: the option variable      *)
(* (cmd_parser.c), the parameter (cxl_cmd.c) and the request (a wrapper of    *)
(* vendor_commands.c) each hold a number in a width of their own.             *)
(*                                                                            *)
(* What distinguishes the commands is in tables: they are constants here, and *)
(* the modules CommandOptions, CxlCommands, VendorCommands and VendorTypes    *)
(* give the program's.                                                        *)
EXTENDS Integers, Sequences

CONSTANTS
  Words,     \* numbers that are typed: eight bytes, the lowest first
  Limits,    \* what get_cxl_maxpayload may allow of an answer
  Options,   \* cmd_parser.c: the command called and the options passed
  Commands,  \* cxl_cmd.c: parameters, request fields, display
  Wrappers,  \* vendor_commands.c: opcode, fields copied in and out
  Layouts    \* vendor_types.h: fields of requests and answers

Word == [1 .. 8 -> 0 .. 255]
Widths == 0 .. 8  \* none: of an option that is not typed
Zero == [k \in 1 .. 8 |-> 0]

\* The tables fit together, as far as the compiler sees to it; whether a number
\* survives the way through them is another question (TablesAgree).
ASSUME TablesAssumption ==
  /\ Words \subseteq Word
  /\ Limits \subseteq {"none", "part", "whole"}
  /\ \A c \in DOMAIN Options :
       /\ Options[c].runs \in DOMAIN Commands
       /\ DOMAIN Options[c].args = DOMAIN Commands[Options[c].runs].params
       /\ \A i \in DOMAIN Options[c].args : Options[c].args[i].bytes \in Widths
  /\ \A c \in DOMAIN Commands :
       LET wrapper == Wrappers[Commands[c].calls]
           layout  == Layouts[wrapper.op]
       IN  /\ Commands[c].calls \in DOMAIN Wrappers
           /\ \A i \in DOMAIN Commands[c].params : Commands[c].params[i].bytes \in Widths
           /\ \A f \in DOMAIN Commands[c].fills :
                /\ Commands[c].fills[f].low \in 0 .. 7
                /\ \E i \in DOMAIN Commands[c].params :
                     Commands[c].params[i].name = Commands[c].fills[f].param
           /\ \A l \in DOMAIN Commands[c].shows : Commands[c].shows[l] \in layout.answer
           /\ \A l \in DOMAIN Commands[c].onError : Commands[c].onError[l] \in layout.answer
  /\ \A w \in DOMAIN Wrappers : Wrappers[w].op \in DOMAIN Layouts
  /\ \A op \in DOMAIN Layouts :
       \A f \in DOMAIN Layouts[op].request : Layouts[op].request[f] \in Widths

-----------------------------------------------------------------------------
VARIABLES
  pc,        \* "parse", "called", "armed", "answered", "copied", "failed", "crashed",
             \* "done"
  cmd,       \* the command
  given,     \* the number typed for every option of it
  limit,     \* how much of an answer get_cxl_maxpayload lets through
  args,      \* what the parameters hold: from which option, which bytes
  wire,      \* the request: its opcode and its fields
  ret,       \* the caller's structure for the answer
  rc,        \* result
  shown,     \* by label: the field displayed, and where it came from
  answered   \* history: the opcode that the device answered

vars == <<pc, cmd, given, limit, args, wire, ret, rc, shown, answered>>

\* What the command in hand looks up in the tables.
Passed  == Options[cmd].args
Command == Commands[Options[cmd].runs]
Wrapper == Wrappers[Command.calls]
Request == Layouts[Wrapper.op].request
Answer  == Layouts[Wrapper.op].answer

NoMessage == [op |-> "none", fields |-> <<>>]
Unset == [from |-> "nothing", bytes |-> Zero]
Names == {Passed[i].name : i \in DOMAIN Passed}
Values == [from : Names \cup {"nothing"}, bytes : Word]

TypeOK ==
  /\ pc \in {"parse", "called", "armed", "answered", "copied", "failed", "crashed", "done"}
  /\ cmd \in DOMAIN Options
  /\ given \in Words
  /\ limit \in Limits
  /\ args = <<>> \/ args \in [DOMAIN Command.params -> Values]
  /\ \/ wire = NoMessage
     \/ wire \in [op : {Wrapper.op}, fields : [DOMAIN Request -> Values]]
  /\ ret \in [Answer -> {"stack", "device"}]
  /\ rc \in {-22, -12, -1, 0, 1}
  /\ \A l \in DOMAIN shown : shown[l] \in [field : Answer, from : {"stack", "device"}]
  /\ answered \in {"none", Wrapper.op}

\* A number stored in a variable of that many bytes.
Low(word, bytes) == [k \in 1 .. 8 |-> IF k <= bytes THEN word[k] ELSE 0]

\* What the action passes and the command's parameters keep of it.
Arguments ==
  [i \in DOMAIN Command.params |->
     [from  |-> Passed[i].name,
      bytes |-> Low(Low(given, Passed[i].bytes), Command.params[i].bytes)]]

\* The numbers take the branch of the code that the command in hand is.
TakesBranch ==
  \A i \in DOMAIN Command.params :
    LET name == Command.params[i].name
    IN  name \in DOMAIN Command.branch =>
          Command.branch[name] = (Arguments[i].bytes # Zero)

Init ==
  /\ pc = "parse"
  /\ cmd \in DOMAIN Options
  /\ given \in Words
  /\ TakesBranch
  /\ limit \in Limits
  /\ args = <<>>
  /\ wire = NoMessage
  /\ ret = [f \in Answer |-> "stack"]
  /\ rc = 0
  /\ shown = <<>>
  /\ answered = "none"

-----------------------------------------------------------------------------
(* From the command line to the request.                                      *)

\* A number without its lowest bytes.
Shifted(word, low) == [k \in 1 .. 8 |-> IF k + low <= 8 THEN word[k + low] ELSE 0]

\* The options are parsed, and the command is called with them.
Call ==
  /\ pc = "parse"
  /\ pc' = "called"
  /\ args' = Arguments
  /\ UNCHANGED <<cmd, given, limit, wire, ret, rc, shown, answered>>

\* A parameter above the limit that the command checks.
OverLimit ==
  \E i \in DOMAIN args :
    /\ Command.params[i].name \in DOMAIN Command.atMost
    /\ args[i].bytes[1] > Command.atMost[Command.params[i].name]

\* Mutant: the error is returned as a positive number.
RefusePositive ==
  /\ pc = "called"
  /\ OverLimit
  /\ pc' = "done"
  /\ rc' = 22
  /\ UNCHANGED <<cmd, given, limit, args, wire, ret, shown, answered>>

Refuse ==
  /\ pc = "called"
  /\ OverLimit
  /\ pc' = "done"
  /\ rc' = -22
  /\ UNCHANGED <<cmd, given, limit, args, wire, ret, shown, answered>>

\* The caller has no structure for the answer, since none was asked for.
Nowhere ==
  \E i \in DOMAIN args :
    Command.params[i].name \in Command.unless /\ args[i].bytes = Zero

\* No memory for the caller's structure.
NoRoom ==
  /\ pc = "called"
  /\ Command.heap /\ ~ Nowhere
  /\ pc' = "done"
  /\ rc' = -12
  /\ UNCHANGED <<cmd, given, limit, args, wire, ret, shown, answered>>

\* No memory for the request: one without fields needs none.
NoRequest ==
  /\ pc = "called"
  /\ ~ OverLimit
  /\ DOMAIN Request # {}
  /\ pc' = "failed"
  /\ rc' = -1
  /\ UNCHANGED <<cmd, given, limit, args, wire, ret, shown, answered>>

\* The argument that a field is filled from.
Filled(f) ==
  args[CHOOSE i \in DOMAIN Command.params : Command.params[i].name = Command.fills[f].param]

\* As much of it as the field has room for.
Field(f) ==
  [from  |-> Filled(f).from,
   bytes |-> Low(Shifted(Filled(f).bytes, Command.fills[f].low), Request[f])]

\* arm_cci_request, and the fields copied into memory that is zero.
Message ==
  [op |-> Wrapper.op,
   fields |-> [f \in DOMAIN Request |->
                 IF f \in Wrapper.puts /\ f \in DOMAIN Command.fills THEN Field(f) ELSE Unset]]

Arm ==
  /\ pc = "called"
  /\ ~ OverLimit
  /\ pc' = "armed"
  /\ wire' = Message
  /\ UNCHANGED <<cmd, given, limit, args, ret, rc, shown, answered>>

\* No memory for the answer: one without fields needs none.
NoAnswer ==
  /\ pc = "armed"
  /\ Answer # {}
  /\ pc' = "failed"
  /\ rc' = -1
  /\ UNCHANGED <<cmd, given, limit, args, wire, ret, shown, answered>>

-----------------------------------------------------------------------------
(* From the answer to the display.                                            *)

\* send_cmd_cci: the device answers, or refuses, or is out of reach.
Answered ==
  /\ pc = "armed"
  /\ pc' = "answered"
  /\ answered' = wire.op
  /\ UNCHANGED <<cmd, given, limit, args, wire, ret, rc, shown>>

NotAnswered ==
  /\ pc = "armed"
  /\ pc' = "failed"
  /\ rc' \in {-1, 1}
  /\ UNCHANGED <<cmd, given, limit, args, wire, ret, shown, answered>>

Copied(fields) ==
  /\ pc = "answered"
  /\ ~ Nowhere
  /\ pc' = "copied"
  /\ ret' = [f \in Answer |-> IF f \in fields THEN "device" ELSE ret[f]]
  /\ UNCHANGED <<cmd, given, limit, args, wire, rc, shown, answered>>

Crash ==
  /\ pc = "answered"
  /\ Nowhere
  /\ pc' = "crashed"
  /\ UNCHANGED <<cmd, given, limit, args, wire, ret, rc, shown, answered>>

InFull == Wrapper.limited = {} \/ limit = "whole"

CopyAll == InFull /\ Copied(Wrapper.takes)

\* The end of the answer may be beyond the limit.
CopyPart ==
  /\ ~ InFull
  /\ limit = "part"
  /\ \E cut \in {{}, Wrapper.limited} : Copied(Wrapper.takes \ cut)

CopyNone == ~ InFull /\ limit = "none" /\ Copied({})

Display(labels) ==
  /\ pc' = "done"
  /\ shown' = [l \in DOMAIN labels |-> [field |-> labels[l], from |-> ret[labels[l]]]]
  /\ UNCHANGED <<cmd, given, limit, args, wire, ret, rc, answered>>

Show == pc = "copied" /\ Display(Command.shows)
ShowError == pc = "failed" /\ Display(Command.onError)

Next ==
  \/ Call
  \/ Refuse
  \/ NoRoom
  \/ NoRequest
  \/ Arm
  \/ NoAnswer
  \/ Answered
  \/ NotAnswered
  \/ CopyAll
  \/ CopyPart
  \/ CopyNone
  \/ Crash
  \/ Show
  \/ ShowError

Spec == Init /\ [][Next]_vars

-----------------------------------------------------------------------------
\* On its way through the variables, the parameters and the request, every
\* field's part of a number stays its own and passes no place too narrow for
\* it; and what a command displays is named for what it is, and its wrapper
\* copies it out of the answer.
Agree(c) ==
  LET passed  == Options[c].args
      command == Commands[Options[c].runs]
      wrapper == Wrappers[command.calls]
      request == Layouts[wrapper.op].request
  IN  /\ DOMAIN request = UNION {DOMAIN passed[i].fields : i \in DOMAIN passed}
      /\ DOMAIN request \subseteq wrapper.puts \cap DOMAIN command.fills
      /\ \A i \in DOMAIN passed : \A f \in DOMAIN passed[i].fields :
           LET low == passed[i].fields[f]
           IN  /\ command.fills[f].low = low
               /\ low + request[f] <= passed[i].bytes
               /\ low + request[f] <= command.params[i].bytes
               /\ \A k \in DOMAIN passed :
                    command.params[k].name = command.fills[f].param => k = i
      /\ \A l \in DOMAIN command.shows :
           command.shows[l] = l /\ l \in wrapper.takes

\* The tables agree on the command in hand, which may be any of them.
TablesAgree == Agree(cmd)

\* Every number typed arrives at the device, in the fields it was typed for: of
\* one that the help calls several fields, the first is in the highest bytes.
\* It loses nothing on the way but what a field has no room for, though three
\* files, as many widths and a change of byte order lie between the two.
OptionsArrive ==
  wire # NoMessage =>
    /\ DOMAIN wire.fields = UNION {DOMAIN Passed[i].fields : i \in DOMAIN Passed}
    /\ \A i \in DOMAIN Passed : \A f \in DOMAIN Passed[i].fields :
         wire.fields[f] =
           [from  |-> Passed[i].name,
            bytes |-> Low(Shifted(given, Passed[i].fields[f]), Request[f])]

\* A command that succeeds was answered, to the opcode of its own, and what it
\* displays came with the answer, under its own name: nothing is left over in
\* the caller's structure from before, unless the payload limit cut the answer
\* short.
ShownWasReceived ==
  pc = "done" /\ rc = 0 /\ InFull =>
    /\ answered = Wrapper.op
    /\ \A l \in DOMAIN shown : shown[l] = [field |-> l, from |-> "device"]
=============================================================================
