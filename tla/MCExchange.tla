----------------------------- MODULE MCExchange -----------------------------
(* The program's tables, and numbers at the boundaries of the widths and of   *)
(* the limit of an i2c read.                                                  *)
EXTENDS Exchange, CommandOptions, VendorTypes

C == INSTANCE CxlCommands
W == INSTANCE VendorCommands
L == INSTANCE Libcxlmi

ProgramCommands == C!DeviceCommands
ProgramWrappers == W!VendorWrappers @@ L!GenericWrappers
ProgramLayouts  == VendorLayouts @@ L!GenericLayouts @@ L!OsInfoLayouts

Number(low, k, byte) == [i \in 1 .. 8 |-> IF i = 1 THEN low ELSE IF i = k THEN byte ELSE 0]

Numbers ==
  {Number(b, 2, 0) : b \in {0, 128, 129}}
    \cup {Number(0, k, 1) : k \in {2, 5}}
    \cup {Number(44, 2, 1), Number(0, 8, 128), [i \in 1 .. 8 |-> 255],
           [i \in 1 .. 8 |-> 10 * i]}

\* event_flag as the help has it: "1 - clear all events".
JustOne == {Number(1, 2, 0)}
=============================================================================
