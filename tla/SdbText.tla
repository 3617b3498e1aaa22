------------------------------ MODULE SdbText ------------------------------
(***************************************************************************)
(* The patched text segment of sdb (310551113_hw4/sdb.cpp): the words that *)
(* PTRACE_PEEKTEXT and PTRACE_POKETEXT move, and the three helpers that    *)
(* compute what is written back around a breakpoint.                       *)
(*                                                                         *)
(* A byte is the set of its bits that are one, so the bitwise OR the code  *)
(* ends in is set union.  A word is a function from the byte offset (the   *)
(* code's dist) to the byte: offset 0 is the low byte, at the lowest       *)
(* address (x86 is little endian).                                         *)
(***************************************************************************)
EXTENDS Integers

CONSTANTS
  WORD,       \* bytes moved by one PEEKTEXT or POKETEXT; 8 in the code
  Bits,       \* the bit positions of a byte
  Int3,       \* the byte 0xcc
  LastAddr,   \* the last mapped address of the tracee; the first one is 0
  Orig        \* the tracee's bytes as the ELF file has them

Byte   == SUBSET Bits
Mapped == 0 .. LastAddr
Offset == 0 .. WORD - 1
Word   == [Offset -> Byte]

ASSUME TextAssumption ==
  /\ WORD \in Nat /\ WORD >= 2
  /\ LastAddr \in Nat /\ LastAddr >= WORD - 1
  /\ Int3 \in Byte
  /\ Orig \in [Mapped -> Byte]

\* struct breakpoint; the member inloop is never read or written.
Breakpoint == [addr : Int, code : Word]

\* The addresses at which a whole word is mapped.  PTRACE_PEEKTEXT and
\* PTRACE_POKETEXT fail at every other address.
WordAddr == 0 .. LastAddr - WORD + 1

Peek(memory, a) == [d \in Offset |-> memory[a + d]]

Poke(memory, a, word) ==
  [x \in Mapped |-> IF x - a \in Offset THEN word[x - a] ELSE memory[x]]

OrigWord(a) == Peek(Orig, a)

(***************************************************************************)
(* alterpart(code, dist + 1, new_code) on one byte.  For dist < WORD - 1   *)
(* the filter clears the old byte.  For the last byte the code shifts      *)
(* 0xff..ff by the full 64 bits, which x86 reduces to a shift by zero, so  *)
(* the filter is all ones and the new byte is ORed onto the old one.       *)
(* Module SdbTextCheck has the 64-bit expression, SdbTextProofs the proof. *)
(***************************************************************************)
AlterPart(old, d, new) == IF d = WORD - 1 THEN old \cup new ELSE new

\* The byte the code stores for an address, (bps[id].code & 0xff).
CodeByte(bps, a) == (CHOOSE b \in bps : b.addr = a).code[0]

(***************************************************************************)
(* alternate(word, a, to_0xcc, include_self): every listed breakpoint      *)
(* whose address falls in the word at a has its byte there set to 0xcc or  *)
(* to its original value.  bps is the set of the listed breakpoints; the   *)
(* loop's order does not matter because their addresses are distinct.      *)
(***************************************************************************)
Alternate(word, a, bps, toInt3, includeSelf) ==
  [d \in Offset |->
     IF /\ d >= (IF includeSelf THEN 0 ELSE 1)
        /\ \E b \in bps : b.addr = a + d
     THEN AlterPart(word[d], d, IF toInt3 THEN Int3 ELSE CodeByte(bps, a + d))
     ELSE word[d]]

\* The word that arms a breakpoint: (code & 0xffffffffffffff00) | 0xcc.
Arm(word) == [word EXCEPT ![0] = Int3]

(***************************************************************************)
(* setallbreak(): one POKETEXT of the armed word per breakpoint, in        *)
(* ascending order of the addresses, so that a later word overwrites the   *)
(* bytes above it and never the 0xcc below it.  Each byte is left by the   *)
(* last breakpoint at or below it whose word reaches it.  Module           *)
(* SdbTextCheck has the loop, and SdbTextProofs the proof.                 *)
(***************************************************************************)
SetAllBreak(memory, bps) ==
  [x \in Mapped |->
     LET writers == {b \in bps : x - b.addr \in Offset}
         last    == CHOOSE b \in writers :
                      \A c \in writers : c.addr <= b.addr
     IN  IF writers = {} THEN memory[x] ELSE Arm(last.code)[x - last.addr]]
=============================================================================
