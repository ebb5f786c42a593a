----------------------------- MODULE CmdAction -----------------------------
(* One invocation of the command-line tool: main, the command table and       *)
(* cmd_action (cxl/src/cmd_parser.c), which every command that takes memdev   *)
(* names goes through.  It checks the words left after the options, opens     *)
(* each named device, runs the command's action on the endpoints of the       *)
(* context and makes one exit status of the results.                          *)
(*                                                                            *)
(* The endpoint list belongs to libcxlmi, outside the repository: it is       *)
(* modelled from cmd_action's own use of cxlmi_open, cxlmi_close and          *)
(* cxlmi_for_each_endpoint.                                                   *)
EXTENDS Integers, Sequences, FiniteSets

CONSTANTS
  Mems,       \* words that read as mem<number>, mem0 and mem1 among them
  Junk,       \* other words
  Present,    \* the devices that are there
  MaxWords    \* bound: words on the command line

ASSUME WordsAssumption ==
  /\ {"mem0", "mem1"} \subseteq Mems
  /\ "all" \notin Mems \cup Junk
  /\ Mems \cap Junk = {}
  /\ Present \subseteq Mems
  /\ MaxWords \in Nat

Words == Mems \cup Junk \cup {"all"}

-----------------------------------------------------------------------------
VARIABLES
  pc,      \* control point
  given,   \* words of the command line that are not options
  argv,    \* what is left to work on, in order
  rc,      \* result of the last action
  count,   \* actions that succeeded
  eps,     \* endpoints of the libcxlmi context
  log,     \* history: what became of each word worked on
  ret,     \* what cmd_action returned
  status   \* exit status of the process

vars == <<pc, given, argv, rc, count, eps, log, ret, status>>

Results == {-1, 0, 1}   \* an error, success, a device's return code
Outcomes == {"unopened", "failed", "refused", "done"}
OutcomeOf(result) ==
  IF result = 0 THEN "done" ELSE IF result = 1 THEN "refused" ELSE "failed"

WordLists == UNION {[1 .. n -> Words] : n \in 0 .. MaxWords}

TypeOK ==
  /\ pc \in {"main", "scan", "word", "act", "close", "status", "exited"}
  /\ given \in Seq(Words)
  /\ argv \in Seq(Words)
  /\ rc \in Results
  /\ count \in Nat
  /\ eps \in Seq(Mems)
  /\ log \in Seq([name : Mems, outcome : Outcomes])
  /\ ret \in Int
  /\ status \in {-1, 0, 1, 129}

-----------------------------------------------------------------------------
Exit(code) ==
  /\ pc' = "exited"
  /\ status' = code

\* No command, an unknown one, or no context: main falls through to its
\* initial rc, EXIT_FAILURE.
NoCommand ==
  /\ pc = "main"
  /\ Exit(1)
  /\ UNCHANGED <<given, argv, rc, count, eps, log, ret>>

\* The command's function hands its words to cmd_action; a bad option, or
\* nothing left after the options, prints the usage and exits.
Command ==
  /\ pc = "main"
  /\ given' \in WordLists
  /\ argv' = given'
  /\ IF given' = <<>> THEN Exit(129) ELSE pc' = "scan" /\ UNCHANGED status
  /\ UNCHANGED <<rc, count, eps, log, ret>>

BadOption ==
  /\ pc = "main"
  /\ Exit(129)
  /\ UNCHANGED <<given, argv, rc, count, eps, log, ret>>

\* The scan stops at the first "all".
ScansTo(k) == /\ k \in 1 .. Len(argv)
              /\ argv[k] = "all"
              /\ \A j \in 1 .. k - 1 : argv[j] # "all"

SawAll == \E k \in 1 .. Len(argv) : argv[k] = "all"

\* Mutant: the words that are endpoint names are counted.
BadNamesInverted == Cardinality({k \in 1 .. Len(argv) :
                                   /\ argv[k] \in Mems
                                   /\ \A j \in 1 .. k : argv[j] # "all"})

\* Words that are no endpoint name, up to where the scan stopped.
BadNames == Cardinality({k \in 1 .. Len(argv) :
                           /\ argv[k] \notin Mems \cup {"all"}
                           /\ \A j \in 1 .. k : argv[j] # "all"})

\* argc after the scan: "all" becomes the only word.
Argc == IF SawAll THEN 1 ELSE Len(argv)

\* "all" opens mem0 and mem1.
Expanded == IF SawAll THEN <<"mem0", "mem1">> ELSE argv

Scan ==
  /\ pc = "scan"
  /\ IF BadNames = Argc
       THEN Exit(129) /\ UNCHANGED argv
       ELSE pc' = "word" /\ argv' = Expanded /\ UNCHANGED status
  /\ UNCHANGED <<given, rc, count, eps, log, ret>>

\* Mutant: the loop ends at a device that cannot be opened.
OpenFailsEnds ==
  /\ pc = "word"
  /\ argv # <<>>
  /\ Head(argv) \in Mems
  /\ argv' = <<>>
  /\ log' = Append(log, [name |-> Head(argv), outcome |-> "unopened"])
  /\ UNCHANGED <<pc, given, rc, count, eps, ret, status>>

\* Mutant: a device that cannot be opened is tried again.
OpenFailsAgain ==
  /\ pc = "word"
  /\ argv # <<>>
  /\ Head(argv) \in Mems
  /\ log' = Append(log, [name |-> Head(argv), outcome |-> "unopened"])
  /\ UNCHANGED <<pc, given, argv, rc, count, eps, ret, status>>

OpenFails ==
  /\ pc = "word"
  /\ argv # <<>>
  /\ Head(argv) \in Mems
  /\ argv' = Tail(argv)
  /\ log' = Append(log, [name |-> Head(argv), outcome |-> "unopened"])
  /\ UNCHANGED <<pc, given, rc, count, eps, ret, status>>

\* Mutant: the word is skipped before the loop moves on.
SkipWordStays ==
  /\ pc = "word"
  /\ argv # <<>>
  /\ Head(argv) \notin Mems
  /\ UNCHANGED vars

SkipWord ==
  /\ pc = "word"
  /\ argv # <<>>
  /\ Head(argv) \notin Mems
  /\ argv' = Tail(argv)
  /\ UNCHANGED <<pc, given, rc, count, eps, log, ret, status>>

Open ==
  /\ pc = "word"
  /\ argv # <<>>
  /\ Head(argv) \in Present
  /\ eps' = Append(eps, Head(argv))
  /\ pc' = "act"
  /\ UNCHANGED <<given, argv, rc, count, log, ret, status>>

\* Mutant: a device's return code counts as success.
ActCountsCodes ==
  /\ pc = "act"
  /\ \E result \in Results :
       /\ rc' = result
       /\ count' = IF result >= 0 THEN count + 1 ELSE count
       /\ log' = Append(log, [name |-> Head(eps), outcome |-> OutcomeOf(result)])
  /\ pc' = "close"
  /\ UNCHANGED <<given, argv, eps, ret, status>>

\* The loop over the context's endpoints: its filter lets every endpoint
\* through for a mem<number> word, so the first one is acted on.
Act ==
  /\ pc = "act"
  /\ \E result \in Results :
       /\ rc' = result
       /\ count' = IF result = 0 THEN count + 1 ELSE count
       /\ log' = Append(log, [name |-> Head(eps), outcome |-> OutcomeOf(result)])
  /\ pc' = "close"
  /\ UNCHANGED <<given, argv, eps, ret, status>>

\* Mutant: the endpoint is closed only after a success.
CloseOnSuccess ==
  /\ pc = "close"
  /\ eps' = IF rc = 0 THEN Tail(eps) ELSE eps
  /\ argv' = Tail(argv)
  /\ pc' = "word"
  /\ UNCHANGED <<given, rc, count, log, ret, status>>

\* The endpoint is closed and the iterator cleared, which ends the loop.
Close ==
  /\ pc = "close"
  /\ eps' = Tail(eps)
  /\ argv' = Tail(argv)
  /\ pc' = "word"
  /\ UNCHANGED <<given, rc, count, log, ret, status>>

Return ==
  /\ pc = "word"
  /\ argv = <<>>
  /\ ret' = IF count > 0 THEN count ELSE rc
  /\ pc' = "status"
  /\ UNCHANGED <<given, argv, rc, count, eps, log, status>>

\* Mutant: the count of successes becomes the exit status.
StatusIsCount ==
  /\ pc = "status"
  /\ Exit(IF ret >= 0 THEN ret ELSE 1)
  /\ UNCHANGED <<given, argv, rc, count, eps, log, ret>>

\* The command function makes EXIT_FAILURE of a negative result; run_builtin
\* passes it on, and fails too when stdout cannot be written.
Status ==
  /\ pc = "status"
  /\ IF ret >= 0 THEN Exit(0) \/ Exit(1) ELSE Exit(1)
  /\ UNCHANGED <<given, argv, rc, count, eps, log, ret>>

Exited == pc = "exited" /\ UNCHANGED vars

Init ==
  /\ pc = "main"
  /\ given = <<>>
  /\ argv = <<>>
  /\ rc = 0
  /\ count = 0
  /\ eps = <<>>
  /\ log = <<>>
  /\ ret = 0
  /\ status = -1

Next ==
  \/ NoCommand \/ BadOption \/ Command \/ Scan
  \/ SkipWord \/ OpenFails \/ Open \/ Act \/ Close
  \/ Return \/ Status
  \/ Exited

\* One process, no waiting: every call of the libraries returns.
Spec == Init /\ [][Next]_vars /\ WF_vars(Next)

-----------------------------------------------------------------------------
(* What an invocation must guarantee.                                         *)

\* The words an invocation works on: the command line's, or for "all" the two
\* that stand for it.
Work ==
  IF \E k \in 1 .. Len(given) : given[k] = "all" THEN <<"mem0", "mem1">> ELSE given

\* How many of the first n words are devices.
Rank(words, n) == Cardinality({k \in 1 .. n : words[k] \in Mems})

\* Each device among the first n words has one entry in the log, in its place.
Turns(n) ==
  /\ Len(log) = Rank(Work, n)
  /\ \A k \in 1 .. n : Work[k] \in Mems => log[Rank(Work, k)].name = Work[k]

\* One endpoint is open at a time and none while a word is looked up or once
\* the command is over, although the loop closes what it iterates on.
EndpointsClosed ==
  /\ Len(eps) <= 1
  /\ pc \notin {"act", "close"} => eps = <<>>

\* A word that cannot be opened, or that is no device, stops no other one:
\* when the command is over every target has had its turn, in order, once.
EveryTargetHasItsTurn ==
  (pc \in {"status", "exited"} /\ status # 129 /\ given # <<>>)
    => Turns(Len(Work))

\* The usage message is for command lines without a device: one that names a
\* device and not "all" is carried out, and one that gets the usage has
\* touched no device.
UsageOnlyWithoutDevice ==
  (pc = "exited" /\ status = 129) =>
    /\ log = <<>>
    /\ \A k \in 1 .. Len(given) : given[k] \in Mems
         => \E j \in 1 .. Len(given) : given[j] = "all"

Succeeded == {k \in 1 .. Len(log) : log[k].outcome = "done"}

\* A positive result is the number of devices the command worked on, as long
\* as one did; so no success is hidden by the errors of others.
ResultCountsSuccesses ==
  (pc \in {"status", "exited"} /\ Succeeded # {}) => ret = Cardinality(Succeeded)

\* What makes these inductive.
CmdInv ==
  /\ TypeOK
  /\ EndpointsClosed
  /\ pc \in {"act", "close"} => Len(eps) = 1 /\ argv # <<>>
  /\ pc \in {"main", "scan"} => count = 0
  /\ count = Cardinality(Succeeded)
  /\ pc \in {"status", "exited"} /\ count > 0 => ret = count

\* What makes EveryTargetHasItsTurn and UsageOnlyWithoutDevice inductive: the
\* words left are the last ones of Work, and those before have had their turn.
Worked == Len(Work) - Len(argv) + (IF pc = "close" THEN 1 ELSE 0)

TurnInv ==
  /\ pc # "exited" => status = -1
  /\ pc = "main" => given = <<>> /\ log = <<>>
  /\ pc = "scan" => argv = given /\ log = <<>>
  /\ pc \in {"word", "act", "close"} =>
       /\ Len(argv) <= Len(Work)
       /\ \A j \in 1 .. Len(argv) : argv[j] = Work[Len(Work) - Len(argv) + j]
       /\ Turns(Worked)
  /\ pc = "act" => Head(eps) = Head(argv)
  /\ EveryTargetHasItsTurn
  /\ UsageOnlyWithoutDevice

\* How many steps an invocation has left at most: three for each word that the
\* loop has still to see, and those around the loop.
StepsLeft ==
  CASE pc = "scan"   -> 3 * Len(Expanded) + 3
    [] pc = "word"   -> 3 * Len(argv) + 2
    [] pc = "act"    -> 3 * Len(argv) + 1
    [] pc = "close"  -> 3 * Len(argv)
    [] pc = "status" -> 1
    [] OTHER         -> 0

\* Why every invocation ends: once the command has its words, each step brings
\* the end nearer, whichever devices open and whatever their commands return;
\* the loop meets no word a second time.
EndComesNearer ==
  [][pc # "main" => StepsLeft' \in 0 .. StepsLeft - 1]_vars

\* Every invocation ends.
Terminates == <>(pc = "exited")
=============================================================================
