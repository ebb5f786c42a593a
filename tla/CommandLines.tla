---------------------------- MODULE CommandLines ----------------------------
(* What a command line means: the ways to write one thing (an item: a setting *)
(* of an option, a word, or a mistake), with what each says, whatever stands  *)
(* before and after it.  ParseOptions must read a sequence of items as the    *)
(* items one after the other.                                                 *)
EXTENDS ParseOptions

\* A value as it is written, and the number that it is for each type.
Numeral == [text : Text, INTEGER : Int \cup {Null}, UINTEGER : Int \cup {Null}, U64 : Int \cup {Null}]

Item(words, sets, keeps, stops) ==
  [words |-> words, sets |-> sets, keeps |-> keeps, stops |-> stops]

Sets(words, o, v)  == Item(words, <<[option |-> o, value |-> v]>>, <<>>, "no")
Mistake(word, why) == Item(<<word>>, <<>>, <<>>, why)
Word(word)         == Item(<<word>>, <<>>, <<word>>, "no")
SetOff             == Item(<<Dashes>>, <<>>, <<>>, "no")

LongWord(name)  == Dashes \o name
ShortWord(text) == <<"-">> \o text

-----------------------------------------------------------------------------
(* The items of a table.                                                      *)

Taking(table) == {o \in DOMAIN table : table[o].type # "BOOLEAN"}
Flags(table)  == DOMAIN table \ Taking(table)

\* The beginnings of a name that are no other option's, and no "no-".
Abbreviations(table, o) ==
  {p \in {SubSeq(table[o].long, 1, n) : n \in 1 .. Len(table[o].long) - 1} :
     /\ ~ IsPrefix(p, NoDash)
     /\ \A q \in DOMAIN table \ {o} : ~ IsPrefix(p, table[q].long)}

Shortest(texts) == CHOOSE t \in texts : \A u \in texts : Len(t) <= Len(u)

\* The beginnings that two names share and no option has for a name.
Ambiguous(table) ==
  {p \in UNION {{SubSeq(table[o].long, 1, n) : n \in 1 .. Len(table[o].long)} : o \in DOMAIN table} :
     /\ Cardinality({o \in DOMAIN table : IsPrefix(p, table[o].long)}) > 1
     /\ \A o \in DOMAIN table : table[o].long # p}

\* A word that asks for the option, and a value: in one word or in two.
WithValue(table, o, numeral) ==
  LET text  == numeral.text
      type  == table[o].type
      value == IF type \in Numeric THEN numeral[type] ELSE text
      Reads(words) == IF value = Null THEN Item(words, <<>>, <<>>, "usage") ELSE Sets(words, o, value)
      \* The letter h is help, even if an option has it.
      Asks(words) == IF table[o].short = "h" THEN Item(words, <<>>, <<>>, "help") ELSE Reads(words)
      names == {table[o].long}
                 \cup IF Abbreviations(table, o) = {} THEN {}
                      ELSE {Shortest(Abbreviations(table, o))}
  IN  {Asks(<<ShortWord(<<table[o].short>>), text>>)}
        \cup {Reads(<<LongWord(n), text>>) : n \in names}
        \cup {Reads(<<LongWord(n) \o <<"=">> \o text>>) : n \in names}
        \cup IF text = <<>> THEN {} ELSE {Asks(<<ShortWord(<<table[o].short>> \o text)>>)}

\* Flags are set alone, in groups, and at the head of a group that ends with an
\* option's value.
FlagItems(table, numerals) ==
  LET Letter(o) == table[o].short
  IN  {Sets(<<ShortWord(<<Letter(f)>>)>>, f, 1) : f \in Flags(table)}
        \cup {Sets(<<LongWord(table[f].long)>>, f, 1) : f \in Flags(table)}
        \cup {Item(<<ShortWord(<<Letter(f), Letter(g)>>)>>,
                   <<[option |-> f, value |-> 1], [option |-> g, value |-> 1]>>, <<>>, "no") :
                f, g \in Flags(table)}
        \cup {Item(<<ShortWord(<<Letter(f), Letter(o)>>), n.text>>,
                   <<[option |-> f, value |-> 1], [option |-> o, value |-> n[table[o].type]]>>,
                   <<>>, "no") :
                f \in Flags(table), o \in {p \in Taking(table) : table[p].type \in Numeric},
                n \in {m \in numerals : m.UINTEGER # Null}}

\* An option is taken back under its name, and under an abbreviation of it.
Negations(table) ==
  {Sets(<<LongWord(NoDash \o n)>>, o, Unset(table[o].type)) :
     <<o, n>> \in UNION {{o} \X ({table[o].long} \cup Abbreviations(table, o)) : o \in DOMAIN table}}

\* What ends the program.
Mistakes(table) ==
  {Mistake(LongWord(a), "usage") : a \in Ambiguous(table)}
    \cup {Mistake(LongWord(NoDash \o table[o].long \o <<"=", "1">>), "usage") : o \in DOMAIN table}
    \cup {Mistake(LongWord(table[f].long \o <<"=", "1">>), "usage") : f \in Flags(table)}
    \cup {Mistake(LongWord(table[o].long \o <<"x">>), "unknown") : o \in DOMAIN table}
    \cup {Mistake(ShortWord(table[f].long), "typo") : f \in {g \in Flags(table) : table[g].short = table[g].long[1]}}
    \cup {Mistake(ShortWord(<<table[f].short, "?">>), "unknown") : f \in Flags(table)}
    \cup {Mistake(ShortWord(<<table[f].short, "h">>), "help") : f \in Flags(table)}
    \cup {Mistake(ShortWord(<<"?">>), "unknown"), Mistake(ShortWord(<<"h">>), "help")}
    \cup {Mistake(LongWord(a), "help") : a \in AskHelp}
    \cup {Mistake(LongWord(a), "list") : a \in AskList}

\* An option at the end of the line whose value is missing.
Unfinished(table) ==
  {Mistake(ShortWord(<<table[o].short>>), "usage") : o \in {p \in Taking(table) : table[p].short # "h"}}
    \cup {Mistake(LongWord(table[o].long), "usage") : o \in Taking(table)}

Items(table, numerals) ==
  UNION {WithValue(table, o, n) : o \in Taking(table), n \in numerals}
    \cup FlagItems(table, numerals) \cup Negations(table) \cup Mistakes(table)

-----------------------------------------------------------------------------
(* What a line of items says.                                                 *)

Case(table, items) ==
  [options |-> table, said |-> items, line |-> FlattenSeq([i \in DOMAIN items |-> items[i].words])]

Applied(vals, sets) ==
  FoldLeft(LAMBDA v, s : [v EXCEPT ![s.option] = s.value], vals, sets)

\* One item further: after the first mistake nothing counts, after "--" the
\* words are words.
Said(so, item) ==
  IF so.outcome # "done" THEN so
  ELSE IF so.setOff THEN [so EXCEPT !.words = @ \o item.words]
  ELSE IF item = SetOff THEN [so EXCEPT !.setOff = TRUE]
  ELSE IF item.stops # "no" THEN [so EXCEPT !.outcome = item.stops]
  ELSE [so EXCEPT !.values = Applied(@, item.sets), !.words = @ \o item.keeps]

Meaning(case) ==
  FoldLeft(Said,
           [outcome |-> "done", setOff |-> FALSE, words |-> <<>>,
            values  |-> [o \in DOMAIN case.options |-> Unset(case.options[o].type)]],
           case.said)

\* However the items are written and combined, the line is read as they say:
\* each option has the value it was given last, the words left are the words in
\* their order, and the program exits on the first mistake and on no other line.
ReadAsWritten ==
  outcome # "parsing" =>
    LET meaning == Meaning(typed)
    IN  /\ outcome = meaning.outcome
        /\ outcome = "done" =>
             /\ values = meaning.values
             /\ [k \in 1 .. cpidx |-> argv[k - 1]] = meaning.words
             /\ argv[cpidx] = Null
=============================================================================
