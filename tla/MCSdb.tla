------------------------------- MODULE MCSdb -------------------------------
(***************************************************************************)
(* Instances of Sdb for TLC: words of four bytes, bytes of two bits, and   *)
(* two programs of a dozen bytes.                                          *)
(***************************************************************************)
EXTENDS Sdb

\* Bit 0 alone is 0xcc; the program's bytes have bit 1 or nothing.
MCBits == {0, 1}
MCInt3 == {0}

\* Program 1: instructions of one and two bytes at 1, 3, 4, 6 and 8, of which
\* the one at 3 is one byte long.
MCInstr    == {1, 3, 4, 6, 8}
MCInstrLen == [i \in MCInstr |-> IF i \in {3, 8} THEN 1 ELSE 2]
MCOrig     == [x \in 0 .. 11 |-> IF x \in {2, 6} THEN {} ELSE {1}]
MCExits    == {8}

\* Its control flow with a loop from 4 back to 1 ...
MCLoop ==
  [i \in MCInstr |-> CASE i = 1 -> {3} [] i = 3 -> {4} [] i = 4 -> {1, 6}
                       [] i = 6 -> {8} [] i = 8 -> {}]

\* ... and without it.
MCStraight ==
  [i \in MCInstr |-> CASE i = 1 -> {3} [] i = 3 -> {4} [] i = 4 -> {6}
                       [] i = 6 -> {8} [] i = 8 -> {}]
=============================================================================
