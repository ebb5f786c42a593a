---------------------------- MODULE ParseOptions ----------------------------
(* parse_options (vendor_util/src/parse_option.c): takes a command's options  *)
(* out of argv and leaves the words in it, in place.  The commands call it    *)
(* with no flags, so words after an option are not kept apart, "--" is        *)
(* dropped, argv[0] is overwritten, unknown options end the program, and help *)
(* is answered here.                                                          *)
(*                                                                            *)
(* A word is a sequence of characters.  Messages, and what only chooses       *)
(* between them, are left out.                                                *)
EXTENDS Integers, Sequences, SequencesExt, FiniteSets

CONSTANTS
  Cases,     \* command lines: an option table, and the words after the command
  IntSize,   \* 2^32, scaled down
  LongSize,  \* 2^64, scaled down
  Null

Text == Seq(STRING)
Types == {"BOOLEAN", "STRING", "FILENAME", "INTEGER", "UINTEGER", "U64"}
NoDash == <<"n", "o", "-">>

\* A table lists options by letter, name and type; no name begins with "no-",
\* which the parser treats as negated already.
ASSUME CasesAssumption ==
  \A c \in Cases :
    /\ c.line \in Seq(Text)
    /\ c.options \in Seq([short : STRING, long : Text, type : Types])
    /\ \A o \in DOMAIN c.options : ~ IsPrefix(NoDash, c.options[o].long)

ASSUME SizesAssumption ==
  /\ IntSize \in Nat \ {0}
  /\ LongSize \in Nat \ {0}
  /\ Null \notin Text

-----------------------------------------------------------------------------
VARIABLES
  typed,    \* the command line, never changed
  argv,     \* the array of words, from 0; the last element is the NULL
  at,       \* ctx->argv: the word in hand
  argc,     \* ctx->argc: words from there on
  cpidx,    \* words left so far
  opt,      \* ctx->opt: the unread rest of the word in hand
  values,   \* the option variables
  outcome,  \* "parsing", "done", or why the program exits
  from      \* history: where the words left stood

vars == <<typed, argv, at, argc, cpidx, opt, values, outcome, from>>

options == typed.options
Line == typed.line
Length == Len(Line)
Valued == Types \ {"BOOLEAN"}
Numeric == {"INTEGER", "UINTEGER", "U64"}
Stops == {"help", "list", "usage", "unknown", "typo"}

Unset(type) == IF type \in {"STRING", "FILENAME"} THEN Null ELSE 0

\* What a variable of that type can hold.
ValuesOf(type) ==
  CASE type = "BOOLEAN" -> {0, 1}
    [] type \in {"INTEGER", "UINTEGER"} -> 0 .. IntSize - 1
    [] type = "U64" -> 0 .. LongSize - 1
    [] type \in {"STRING", "FILENAME"} -> Text \cup {Null}

TypeOK ==
  /\ Line \in Seq(Text)
  /\ argv \in [0 .. Length + 1 -> Text \cup {Null}]
  /\ at \in 1 .. Length + 1
  /\ argc \in 0 .. Length
  /\ cpidx \in 0 .. Length
  /\ opt = Null \/ opt \in Text \ {<<>>}
  /\ DOMAIN values = DOMAIN options
  /\ \A o \in DOMAIN options : values[o] \in ValuesOf(options[o].type)
  /\ outcome \in {"parsing", "done"} \cup Stops
  /\ from \in Seq(1 .. Length)

\* parse_options_start, with the option variables as the program starts.
Init ==
  /\ typed \in Cases
  /\ argv = [k \in 0 .. Length + 1 |->
               IF k = 0 THEN <<>> ELSE IF k <= Length THEN Line[k] ELSE Null]
  /\ at = 1
  /\ argc = Length
  /\ cpidx = 0
  /\ opt = Null
  /\ values = [o \in DOMAIN options |-> Unset(options[o].type)]
  /\ outcome = "parsing"
  /\ from = <<>>

-----------------------------------------------------------------------------
(* Numbers: strtol and strtoull, which must read the whole word.              *)

Decimals == <<"0", "1", "2", "3", "4", "5", "6", "7", "8", "9">>
HexDigits == Decimals \o <<"a", "b", "c", "d", "e", "f">>
UpperDigits == Decimals \o <<"A", "B", "C", "D", "E", "F">>
Digits(base) == ToSet(SubSeq(HexDigits, 1, base)) \cup ToSet(SubSeq(UpperDigits, 1, base))
DigitValue(c) == CHOOSE d \in 0 .. 15 : c \in {HexDigits[d + 1], UpperDigits[d + 1]}

\* Blanks in front are passed over: one stands for all that isspace knows.
Blank == " "
Stripped(text) ==
  LET start == SelectInSeq(text, LAMBDA c : c # Blank)
  IN  IF start = 0 THEN <<>> ELSE SubSeq(text, start, Len(text))

Negative(text) == IsPrefix(<<"-">>, Stripped(text))
Signed(text) == Negative(text) \/ IsPrefix(<<"+">>, Stripped(text))
Unsigned(text) == IF Signed(text) THEN Tail(Stripped(text)) ELSE Stripped(text)

Prefixed(text) == \E x \in {"x", "X"} : IsPrefix(<<"0", x>>, text)

Magnitude(text, base) ==
  IF base = 16 /\ Prefixed(Unsigned(text))
  THEN SubSeq(Unsigned(text), 3, Len(Unsigned(text))) ELSE Unsigned(text)

\* Nothing is left over; an empty word is read as 0.
ReadsAs(text, base) ==
  \/ text = <<>>
  \/ /\ Magnitude(text, base) # <<>>
     /\ ToSet(Magnitude(text, base)) \subseteq Digits(base)

\* What is read after each number of digits.
Readings(digits, base) ==
  LET read[k \in 0 .. Len(digits)] ==
        IF k = 0 THEN 0 ELSE base * read[k - 1] + DigitValue(digits[k])
  IN  read

NumberIn(text, base) ==
  LET digits == Magnitude(text, base)
      n      == Readings(digits, base)[Len(digits)]
  IN  IF Negative(text) THEN -n ELSE n

\* The bases tried, one after the other.
Bases(type) == IF type = "INTEGER" THEN <<10>> ELSE <<10, 16>>

\* Mutant: the number is kept as it was read.
StoredWide(type, n) == IF n < 0 THEN n % LongSize ELSE n

\* A number out of range is read as the nearest one in range, and then stored in
\* the width of the variable.
Stored(type, n) ==
  IF type = "U64"
  THEN IF n >= LongSize \/ n <= -LongSize THEN LongSize - 1 ELSE n % LongSize
  ELSE LET half == LongSize \div 2
           long == IF n >= half THEN half - 1 ELSE IF n < -half THEN -half ELSE n
       IN  long % IntSize

IsNumber(type, text) == \E i \in DOMAIN Bases(type) : ReadsAs(text, Bases(type)[i])

Number(type, text) ==
  LET first == CHOOSE i \in DOMAIN Bases(type) :
                 /\ ReadsAs(text, Bases(type)[i])
                 /\ \A j \in 1 .. i - 1 : ~ ReadsAs(text, Bases(type)[j])
  IN  Stored(type, NumberIn(text, Bases(type)[first]))

-----------------------------------------------------------------------------
(* get_arg and get_value, for option o; rest is what the word in hand still   *)
(* holds for it.                                                              *)

\* Where a value is taken from: the rest of the word, or the next word.
HasArg(rest) == rest # Null \/ argc > 1
Arg(rest)    == IF rest # Null THEN rest ELSE argv[at + 1]

\* Mutant: --flag=value is a flag with an unread rest.
AcceptsFlagValue(o, unset, short, rest) ==
  IF unset THEN rest = Null
  ELSE \/ options[o].type = "BOOLEAN"
       \/ /\ HasArg(rest)
          /\ options[o].type \in Numeric => IsNumber(options[o].type, Arg(rest))

\* The value is there, is of the type, and is not given to what takes none.
Accepts(o, unset, short, rest) ==
  IF unset THEN rest = Null
  ELSE IF options[o].type = "BOOLEAN" THEN short \/ rest = Null
  ELSE /\ HasArg(rest)
       /\ options[o].type \in Numeric => IsNumber(options[o].type, Arg(rest))

Value(o, unset, rest) ==
  IF unset THEN Unset(options[o].type)
  ELSE IF options[o].type = "BOOLEAN" THEN 1
  ELSE IF options[o].type \in Numeric THEN Number(options[o].type, Arg(rest))
  ELSE Arg(rest)

TakesNextWord(o, unset, rest) == ~ unset /\ options[o].type \in Valued /\ rest = Null
LeavesRest(o, rest) == options[o].type = "BOOLEAN" /\ rest # Null

Exit(why) ==
  /\ outcome' = why
  /\ UNCHANGED <<typed, argv, at, argc, cpidx, opt, values, from>>

\* Mutant: the words are not counted down.
AdvanceUncounted(n) ==
  /\ at' = at + n
  /\ argc' = argc

\* The loop goes on with the word n further.
Advance(n) ==
  /\ at' = at + n
  /\ argc' = argc - n

\* A flag in a group of letters leaves the others to be read; everything else
\* ends the word.
GetValue(o, unset, short, rest) ==
  \/ /\ ~ Accepts(o, unset, short, rest)
     /\ Exit("usage")
  \/ /\ Accepts(o, unset, short, rest)
     /\ values' = [values EXCEPT ![o] = Value(o, unset, rest)]
     /\ IF LeavesRest(o, rest)
        THEN opt' = rest /\ UNCHANGED <<at, argc>>
        ELSE opt' = Null /\ Advance(IF TakesNextWord(o, unset, rest) THEN 2 ELSE 1)
     /\ UNCHANGED <<typed, argv, cpidx, outcome, from>>

-----------------------------------------------------------------------------
(* parse_short_opt and check_typos.                                           *)

\* The first option with that letter.
WithLetter(c) == {o \in DOMAIN options : options[o].short = c}
First(found) == CHOOSE o \in found : \A p \in found : o <= p

Switch(letters) ==
  LET found == WithLetter(Head(letters))
      rest  == IF Len(letters) > 1 THEN Tail(letters) ELSE Null
  IN  IF found = {} THEN Exit("unknown") ELSE GetValue(First(found), FALSE, TRUE, rest)

\* Flags that together begin like a long name, with one dash.
Typo(letters) ==
  /\ Len(letters) >= 3
  /\ \/ IsPrefix(NoDash, letters)
     \/ \E o \in DOMAIN options : IsPrefix(letters, options[o].long)

-----------------------------------------------------------------------------
(* parse_long_opt: the options are tried in the order of the table, arg is    *)
(* what follows the two dashes.                                               *)

\* The part up to a value, and the value.
NameOf(arg) ==
  IF "=" \in ToSet(arg) THEN SubSeq(arg, 1, SelectInSeq(arg, LAMBDA c : c = "=") - 1) ELSE arg
RestOf(arg) ==
  IF "=" \in ToSet(arg)
  THEN SubSeq(arg, SelectInSeq(arg, LAMBDA c : c = "=") + 1, Len(arg))
  ELSE Null

Without(text, prefix) == SubSeq(text, Len(prefix) + 1, Len(text))
Negates(arg) == IsPrefix(NoDash, arg)

Exact(arg, o) == NameOf(arg) = options[o].long
ExactNegated(arg, o) ==
  /\ Negates(arg)
  /\ ~ IsPrefix(options[o].long, arg)
  /\ NameOf(Without(arg, NoDash)) = options[o].long

Abbreviates(arg, o) ==
  IsStrictPrefix(NameOf(arg), options[o].long)
AbbreviatesNegated(arg, o) ==
  /\ ~ IsPrefix(options[o].long, arg)
  /\ ~ Abbreviates(arg, o)
  /\ \/ IsPrefix(arg, NoDash)
     \/ Negates(arg) /\ IsStrictPrefix(Without(arg, NoDash), options[o].long)

\* Mutant: an abbreviation is taken as soon as it is met.
LongFirstMatch(arg) ==
  LET exact  == {o \in DOMAIN options : Exact(arg, o) \/ ExactNegated(arg, o)}
      abbrev == {o \in DOMAIN options : Abbreviates(arg, o) \/ AbbreviatesNegated(arg, o)}
  IN  IF exact \cup abbrev = {} THEN Exit("unknown")
      ELSE LET o == First(exact \cup abbrev)
           IN  GetValue(o, ExactNegated(arg, o) \/ AbbreviatesNegated(arg, o), FALSE, RestOf(arg))

\* An exact name wins over abbreviations wherever it stands; several
\* abbreviations are ambiguous.
Long(arg) ==
  LET exact  == {o \in DOMAIN options : Exact(arg, o) \/ ExactNegated(arg, o)}
      abbrev == {o \in DOMAIN options : Abbreviates(arg, o) \/ AbbreviatesNegated(arg, o)}
  IN  IF exact # {}
      THEN GetValue(First(exact), ExactNegated(arg, First(exact)), FALSE, RestOf(arg))
      ELSE IF Cardinality(abbrev) > 1 THEN Exit("usage")
      ELSE IF abbrev = {} THEN Exit("unknown")
      ELSE LET o     == First(abbrev)
               unset == AbbreviatesNegated(arg, o)
           IN  GetValue(o, unset, FALSE, IF unset THEN Null ELSE RestOf(arg))

-----------------------------------------------------------------------------
(* parse_options_step: one word, or one more letter of it.                    *)

Hand == argv[at]
Dashes == <<"-", "-">>
IsOption(word) == Len(word) >= 2 /\ word[1] = "-"
IsLong(word) == IsPrefix(Dashes, word)
AskHelp == {<<"h", "e", "l", "p">>, <<"h", "e", "l", "p", "-", "a", "l", "l">>}
AskList ==
  {<<"l", "i", "s", "t", "-", "o", "p", "t", "s">>,
   <<"l", "i", "s", "t", "-", "c", "m", "d", "s">>}

InHand == outcome = "parsing" /\ argc > 0 /\ opt = Null

\* Mutant: the first place is kept for the name of the command.
KeepWordAfterName ==
  /\ InHand
  /\ ~ IsOption(Hand)
  /\ argv' = [argv EXCEPT ![cpidx + 1] = Hand]
  /\ cpidx' = cpidx + 1
  /\ from' = Append(from, at)
  /\ Advance(1)
  /\ UNCHANGED <<typed, opt, values, outcome>>

\* Words, "-" among them, move to the front of the array.
KeepWord ==
  /\ InHand
  /\ ~ IsOption(Hand)
  /\ argv' = [argv EXCEPT ![cpidx] = Hand]
  /\ cpidx' = cpidx + 1
  /\ from' = Append(from, at)
  /\ Advance(1)
  /\ UNCHANGED <<typed, opt, values, outcome>>

\* The first letter; a typo is looked for when it was a flag and more follow.
FirstSwitch ==
  /\ InHand
  /\ IsOption(Hand) /\ ~ IsLong(Hand)
  /\ LET letters == Tail(Hand)
     IN  IF Head(letters) = "h" THEN Exit("help")
         ELSE LET found == WithLetter(Head(letters))
                  isFlag == found # {} /\ options[First(found)].type = "BOOLEAN"
              IN  IF isFlag /\ Len(letters) > 1 /\ Typo(letters)
                  THEN Exit("typo") ELSE Switch(letters)

\* A further letter of the same word.
NextSwitch ==
  /\ outcome = "parsing" /\ opt # Null
  /\ IF Head(opt) = "h" THEN Exit("help") ELSE Switch(opt)

LongOption ==
  /\ InHand
  /\ IsLong(Hand) /\ Hand # Dashes
  /\ LET arg == Without(Hand, Dashes)
     IN  IF arg \in AskHelp THEN Exit("help")
         ELSE IF arg \in AskList THEN Exit("list")
         ELSE Long(arg)

\* parse_options_end: the words not looked at follow those that were kept.
End(place, count) ==
  /\ argv' = [k \in DOMAIN argv |->
                IF k \in cpidx .. cpidx + count - 1 THEN argv[place + k - cpidx]
                ELSE IF k = cpidx + count THEN Null ELSE argv[k]]
  /\ cpidx' = cpidx + count
  /\ from' = from \o [k \in 1 .. count |-> place + k - 1]
  /\ at' = place
  /\ argc' = count
  /\ outcome' = "done"
  /\ UNCHANGED <<typed, opt, values>>

\* All words are read, or the rest is set off by "--".
Finish ==
  /\ outcome = "parsing" /\ opt = Null
  /\ \/ argc = 0 /\ End(at, 0)
     \/ argc > 0 /\ Hand = Dashes /\ End(at + 1, argc - 1)

Stopped == outcome # "parsing" /\ UNCHANGED vars

Next == KeepWord \/ FirstSwitch \/ NextSwitch \/ LongOption \/ Finish \/ Stopped

Spec == Init /\ [][Next]_vars

-----------------------------------------------------------------------------
(* Properties.                                                                *)

\* The words in argv[0 .. cpidx - 1] are the ones that stood at increasing
\* places of the line: compaction in place loses the order of none, makes two of
\* none, and overwrites none that has still to be read.
LeftInOrder ==
  /\ cpidx = Len(from)
  /\ \A k \in 1 .. cpidx : argv[k - 1] = Line[from[k]]
  /\ \A j, k \in 1 .. cpidx : j < k => from[j] < from[k]
  /\ outcome = "parsing" => \A k \in at .. Length : argv[k] = Line[k]

\* A word is finished before the next is looked at: only the letters after a
\* flag wait to be read, and no part of a word is left over to become the value
\* of an option in another.
NothingLeftOver ==
  (outcome = "parsing" /\ opt # Null) =>
    /\ argc > 0
    /\ IsOption(Hand) /\ ~ IsLong(Hand)
    /\ \E n \in 3 .. Len(Hand) : opt = SubSeq(Hand, n, Len(Hand))

\* The letter of the word in hand that is read next.
NextLetter == Head(IF opt # Null THEN opt ELSE Tail(Hand))

\* What follows the dashes gives the name of the option in full, or the beginning
\* of it (a negation that reads as the name and more is a beginning of none).
InFull(arg, o) ==
  \/ NameOf(arg) = options[o].long
  \/ Negates(arg) /\ NameOf(Without(arg, NoDash)) = options[o].long
Begins(arg, o) ==
  \/ IsPrefix(NameOf(arg), options[o].long)
  \/ /\ Negates(arg) /\ ~ IsPrefix(options[o].long, arg)
     /\ IsStrictPrefix(Without(arg, NoDash), options[o].long)

\* The word in hand can mean no option but this one: it has the letter before
\* the others, or its name is given in full, or that of no other is begun.
Means(o) ==
  IF IsLong(Hand)
  THEN LET arg == Without(Hand, Dashes)
       IN  InFull(arg, o) \/ \A p \in DOMAIN options \ {o} : ~ Begins(arg, p)
  ELSE /\ options[o].short = NextLetter
       /\ \A p \in 1 .. o - 1 : options[p].short # NextLetter

\* The parser does not guess: a step sets the one option that the word in hand
\* means, and no other.
NoGuessing ==
  [][\A o \in DOMAIN options : values'[o] # values[o] =>
       Means(o) /\ \A p \in DOMAIN options \ {o} : values'[p] = values[p]]_vars

\* What is unread of the word in hand.
Unread == IF opt # Null THEN Len(opt) ELSE IF argc > 0 THEN Len(Hand) ELSE 0

\* The two loops of parse_options_step always read on: a step ends the parse,
\* moves to a later word, or leaves less of this one, so no line keeps the
\* program parsing for ever.
ReadsOn ==
  [][\/ outcome' # "parsing"
     \/ argc' < argc
     \/ argc' = argc /\ at' = at /\ Unread' < Unread]_vars
=============================================================================
