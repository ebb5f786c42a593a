--------------------------- MODULE MCParseOptions ---------------------------
(* Option tables of cmd_parser.c, one for each thing a table can hold: flags  *)
(* and a file name (update-fw), names of which one begins another             *)
(* (ddr-hppr-addr-info-set, without two of its options), names with a common  *)
(* beginning (clear-event-records), a 64-bit number (set-timestamp), the      *)
(* letter of help (hpa-to-dpa) and a string (get-log).                        *)
EXTENDS CommandLines

Chars(string) == [i \in 1 .. Len(string) |-> SubSeq(string, i, i)]
Option(short, long, type) == [short |-> short, long |-> Chars(long), type |-> type]

UpdateFw ==
  <<Option("f", "file", "FILENAME"), Option("s", "slot", "UINTEGER"),
    Option("b", "background", "BOOLEAN"), Option("m", "mock", "BOOLEAN")>>
HpprAddrInfo ==
  <<Option("d", "ddr_id", "UINTEGER"), Option("g", "bank_group", "UINTEGER"),
    Option("b", "bank", "UINTEGER")>>
ClearEventRecords ==
  <<Option("t", "log_type", "INTEGER"), Option("f", "event_flag", "INTEGER"),
    Option("i", "event_record_handle", "UINTEGER")>>
SetTimestamp == <<Option("t", "timestamp", "U64")>>
HpaToDpa == <<Option("h", "hpa", "U64")>>
LogUuid == <<Option("l", "log_uuid", "STRING")>>

\* With IntSize 256 and LongSize 65536.
Numeral4(text, int, uint, u64) ==
  [text |-> Chars(text), INTEGER |-> int, UINTEGER |-> uint, U64 |-> u64]
Few  == {Numeral4("5", 5, 5, 5), Numeral4("-m", Null, Null, Null)}
Many ==
  Few \cup {Numeral4("ff", Null, 255, 255), Numeral4("0x10", Null, 16, 16),
            Numeral4("10", 10, 10, 10), Numeral4("", 0, 0, 0),
            Numeral4("-1", 255, 255, 65535), Numeral4("-b", Null, 245, 65525),
            Numeral4("300", 44, 44, 300),
            Numeral4("40000", 255, 255, 40000), Numeral4("70000", 255, 255, 65535),
            Numeral4("zz", Null, Null, Null), Numeral4("-", Null, Null, Null),
            Numeral4(" +5", 5, 5, 5), Numeral4("0X1F", Null, 31, 31),
            Numeral4(" ", Null, Null, Null), Numeral4("5 ", Null, Null, Null)}

Mem0 == Word(Chars("mem0"))
Dash == Word(<<"-">>)

\* Lines of one item.
Alone(table) ==
  {<<a>> : a \in Items(table, Many) \cup Unfinished(table) \cup {Mem0, Dash, SetOff}}

\* Lines of two with every kind of neighbour, and of words around an item.
Together(table) ==
  LET few == Items(table, Few) \cup {Mem0}
  IN  {<<Mem0, a, b>> : a \in few, b \in few \cup Unfinished(table)}
        \cup {<<a, SetOff, b>> : a \in few, b \in Mistakes(table) \cup {Mem0}}
        \cup {<<a, Dash, Mem0>> : a \in few}

LinesOf(table) == {Case(table, items) : items \in Alone(table) \cup Together(table)}

\* Two tables with several options also show how items stand together.
Lines ==
  LinesOf(UpdateFw) \cup LinesOf(HpprAddrInfo) \cup LinesOf(SetTimestamp)
    \cup LinesOf(HpaToDpa) \cup LinesOf(LogUuid)
    \cup {Case(ClearEventRecords, items) : items \in Alone(ClearEventRecords)}
=============================================================================
