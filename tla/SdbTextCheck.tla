---------------------------- MODULE SdbTextCheck ----------------------------
(***************************************************************************)
(* The text helpers of sdb as the code computes them: alterpart() on 64    *)
(* bits, alternate() and setallbreak() as loops over the vector.  Module   *)
(* SdbText describes their results directly; here the two are compared on  *)
(* every input of a bounded set.                                           *)
(***************************************************************************)
EXTENDS SdbText, SequencesExt

CONSTANTS
  Base,         \* the address of the word under test
  Addrs,        \* the addresses of the breakpoints tried, around Base
  Words,        \* the words tried
  MaxBps        \* the length of the longest vector tried

ASSUME CheckAssumption ==
  Bits = 0 .. 7 /\ Words \subseteq Word /\ Base \in WordAddr
  /\ Addrs \subseteq WordAddr /\ MaxBps \in Nat

VARIABLES
  list,         \* conf.bps, whose addresses differ (setbreak's exist test)
  word,         \* the argument code
  toInt3, includeSelf

inputs == <<list, word, toInt3, includeSelf>>

-----------------------------------------------------------------------------
(* alterpart() on the 64 bits of a long, a set of bit positions.           *)

NBits == 8 * WORD

\* x86 takes the shift count modulo the width.
ShiftLeft(bits, n) == {b + (n % NBits) : b \in bits} \cap 0 .. NBits - 1

\* long(pow(16, 2 * k) - 1): a double has 53 bits, so from 2^54 on the
\* subtraction of one is lost.
PowMinusOne(k) == IF 8 * k <= 53 THEN 0 .. 8 * k - 1 ELSE {8 * k}

AlterPartBits_Short(code, offset, new) ==  \* mutant: the low filter is a byte short
  LET filter == ShiftLeft(0 .. NBits - 1, 8 * offset)
                  \cup (IF offset < 2 THEN {} ELSE PowMinusOne(offset - 2))
  IN  (code \cap filter) \cup ShiftLeft(new, 8 * (offset - 1))

AlterPartBits(code, offset, new) ==
  LET filter == ShiftLeft(0 .. NBits - 1, 8 * offset) \cup PowMinusOne(offset - 1)
  IN  (code \cap filter) \cup ShiftLeft(new, 8 * (offset - 1))

\* The bits of a word of bytes: x86 is little endian.
ToBits(w) == UNION {{8 * d + b : b \in w[d]} : d \in Offset}

-----------------------------------------------------------------------------
(* The loops.                                                              *)

\* One turn of the loop of alternate(), for the breakpoint b.
AlternateTurn_Le(w, b, a, to, self) ==  \* mutant: dist > s
  LET dist == b.addr - a
  IN  IF dist > (IF self THEN 0 ELSE 1) /\ dist < WORD
      THEN [w EXCEPT ![dist] = AlterPart(@, dist, IF to THEN Int3 ELSE b.code[0])]
      ELSE w

AlternateTurn(w, b, a, to, self) ==
  LET dist == b.addr - a
  IN  IF dist >= (IF self THEN 0 ELSE 1) /\ dist < WORD
      THEN [w EXCEPT ![dist] = AlterPart(@, dist, IF to THEN Int3 ELSE b.code[0])]
      ELSE w

AlternateLoop(code, a, bps, to, self) ==
  LET after[i \in 0 .. Len(bps)] ==
        IF i = 0 THEN code ELSE AlternateTurn(after[i - 1], bps[i], a, to, self)
  IN  after[Len(bps)]

Ascending(s) == \A i, j \in DOMAIN s : i < j => s[i].addr < s[j].addr

Sorted_Not(bps) == bps  \* mutant: the vector is not sorted

\* sort() of a copy of the vector.  No two addresses are equal.
Sorted(bps) ==
  CHOOSE s \in [DOMAIN bps -> ToSet(bps)] : Ascending(s) /\ ToSet(s) = ToSet(bps)

\* One POKETEXT for each breakpoint of a vector, in its order.
PokeLoop(memory, s) ==
  LET after[i \in 0 .. Len(s)] ==
        IF i = 0 THEN memory ELSE Poke(after[i - 1], s[i].addr, Arm(s[i].code))
  IN  after[Len(s)]

SetAllBreakLoop(memory, bps) == PokeLoop(memory, Sorted(bps))

-----------------------------------------------------------------------------

\* A breakpoint's code is some word that tells its address from the others.
CodeOf(a) == [d \in Offset |-> {a % 8, (a + d) % 8}]

Init ==
  /\ list \in {[i \in DOMAIN s |-> [addr |-> s[i], code |-> CodeOf(s[i])]] :
                 s \in {t \in SeqOf(Addrs, MaxBps) : IsInjective(t)}}
  /\ word \in Words
  /\ toInt3 \in BOOLEAN /\ includeSelf \in BOOLEAN

Next == UNCHANGED inputs

Spec == Init /\ [][Next]_inputs

\* alterpart() replaces the byte at dist and no other, except at the last
\* byte of the word, where the old byte shines through.
BitsAgree ==
  \A d \in Offset : \A new \in {Int3, {}, {0, 5}} :
    AlterPartBits(ToBits(word), d + 1, new)
      = ToBits([word EXCEPT ![d] = AlterPart(@, d, new)])

\* The order of the breakpoints in the vector is of no consequence to
\* alternate().
AlternateAgrees ==
  AlternateLoop(word, Base, list, toInt3, includeSelf)
    = Alternate(word, Base, ToSet(list), toInt3, includeSelf)

\* setallbreak() leaves each byte as the last breakpoint below it wrote it.
SetAllAgrees ==
  SetAllBreakLoop(Orig, list) = SetAllBreak(Orig, ToSet(list))
=============================================================================
