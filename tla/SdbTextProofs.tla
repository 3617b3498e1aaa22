---------------------------- MODULE SdbTextProofs ----------------------------
(***************************************************************************)
(* What is proved about the text helpers as the code computes them: for    *)
(* every word and every new byte alterpart() does on the 64 bits of a long *)
(* what AlterPart says of one byte, and the loops of alternate() and       *)
(* setallbreak() do what Alternate and SetAllBreak say of a set, for       *)
(* vectors of any length, in any order.                                    *)
(***************************************************************************)
EXTENDS SdbTextCheck, Least, TLAPS

\* The word of the code.
Wide == WORD = 8

\* Every bit is in a byte.
LEMMA BitPlace ==
  ASSUME NEW x \in 0 .. 63
  PROVE  \E e \in 0 .. 7 : \E c \in 0 .. 7 : x = 8 * e + c
<1>1. x \div 8 \in 0 .. 7 /\ x % 8 \in 0 .. 7 /\ x = 8 * (x \div 8) + (x % 8)
  OBVIOUS
<1> QED BY <1>1

\* The bits of the bytes of a word,
LEMMA BitsOfWord ==
  ASSUME Wide, NEW w \in Word
  PROVE  /\ ToBits(w) \subseteq 0 .. 63
         /\ \A e \in 0 .. 7 : \A c \in 0 .. 7 : 8 * e + c \in ToBits(w) <=> c \in w[e]
<1>1. Offset = 0 .. 7 /\ Bits = 0 .. 7 /\ \A e \in 0 .. 7 : w[e] \subseteq 0 .. 7
  BY CheckAssumption DEF Wide, Offset, Word, Byte
<1>2. \A x : x \in ToBits(w) <=> \E f \in 0 .. 7 : \E b \in w[f] : x = 8 * f + b
  BY <1>1 DEF ToBits
<1>3. ASSUME NEW x \in ToBits(w) PROVE x \in 0 .. 63
  <2>1. PICK f \in 0 .. 7, b \in 0 .. 7 : x = 8 * f + b
    BY <1>1, <1>2
  <2> QED BY <2>1
<1>4. ASSUME NEW e \in 0 .. 7, NEW c \in 0 .. 7
      PROVE  8 * e + c \in ToBits(w) <=> c \in w[e]
  <2>1. ASSUME 8 * e + c \in ToBits(w) PROVE c \in w[e]
    <3>1. PICK f \in 0 .. 7 : \E b \in w[f] : 8 * e + c = 8 * f + b
      BY <1>2, <2>1
    <3>2. PICK b \in w[f] : b \in 0 .. 7 /\ 8 * e + c = 8 * f + b
      BY <1>1, <3>1
    <3>3. PICK a \in 0 .. 7 : a = b /\ 8 * e + c = 8 * f + a
      BY <3>2
    <3>4. e = f
      BY <3>3
    <3>5. c = a
      BY <3>3, <3>4
    <3> QED BY <3>2, <3>3, <3>4, <3>5
  <2>2. c \in w[e] => 8 * e + c \in ToBits(w)
    BY <1>2
  <2> QED BY <2>1, <2>2
<1> QED BY <1>3, <1>4

\* those of the new byte at its place,
LEMMA BitsOfByte ==
  ASSUME Wide, NEW d \in 0 .. 7, NEW new, new \subseteq 0 .. 7
  PROVE  /\ ShiftLeft(new, 8 * d) \subseteq 0 .. 63
         /\ \A e \in 0 .. 7 : \A c \in 0 .. 7 :
              8 * e + c \in ShiftLeft(new, 8 * d) <=> e = d /\ c \in new
<1>1. NBits = 64 /\ NBits - 1 = 63 /\ (8 * d) % 64 = 8 * d
  BY DEF Wide, NBits
<1>2. ShiftLeft(new, 8 * d) = {b + 8 * d : b \in new} \cap 0 .. 63
  BY <1>1 DEF ShiftLeft
<1>3. ASSUME NEW e \in 0 .. 7, NEW c \in 0 .. 7
      PROVE  8 * e + c \in ShiftLeft(new, 8 * d) <=> e = d /\ c \in new
  <2>1. ASSUME 8 * e + c \in ShiftLeft(new, 8 * d) PROVE e = d /\ c \in new
    <3>1. PICK b \in new : 8 * e + c = b + 8 * d
      BY <1>2, <2>1
    <3>2. b \in 0 .. 7
      OBVIOUS
    <3>3. e = d /\ c = b
      BY <3>1, <3>2
    <3> QED BY <3>3
  <2>2. ASSUME e = d, c \in new PROVE 8 * e + c \in ShiftLeft(new, 8 * d)
    <3>1. 8 * e + c = c + 8 * d /\ 8 * e + c \in 0 .. 63
      BY <2>2
    <3> QED BY <1>2, <2>2, <3>1
  <2> QED BY <2>1, <2>2
<1> QED BY <1>2, <1>3

\* and those that the filter keeps: all but one byte's, or all, as the shift by 64
\* is one by 0.
LEMMA BitsOfFilter ==
  ASSUME Wide, NEW d \in 0 .. 7, NEW e \in 0 .. 7, NEW c \in 0 .. 7
  PROVE  8 * e + c \in ShiftLeft(0 .. NBits - 1, 8 * (d + 1)) \cup PowMinusOne(d)
           <=> e # d \/ d = 7
<1>1. NBits - 1 = 63 /\ NBits = 64
  BY DEF Wide, NBits
<1>2. PICK n : n = (8 * (d + 1)) % 64 /\ n = IF d = 7 THEN 0 ELSE 8 * d + 8
  OBVIOUS
<1>3. ShiftLeft(0 .. NBits - 1, 8 * (d + 1)) = {b + n : b \in 0 .. 63} \cap 0 .. 63
  BY <1>1, <1>2 DEF ShiftLeft
<1>4. PICK x \in 0 .. 63 : x = 8 * e + c
  OBVIOUS
<1>5. x \in ShiftLeft(0 .. NBits - 1, 8 * (d + 1)) <=> d = 7 \/ d < e
  <2>1. x \in {b + n : b \in 0 .. 63} <=> x >= n
    <3>1. x >= n => x - n \in 0 .. 63 /\ x = (x - n) + n
      BY <1>2
    <3>2. \A b \in 0 .. 63 : b + n >= n
      BY <1>2
    <3> QED BY <3>1, <3>2
  <2>2. x >= n <=> d = 7 \/ d < e
    BY <1>2, <1>4
  <2> QED BY <1>3, <2>1, <2>2
<1>6. d # 7 => (x \in PowMinusOne(d) <=> e < d)
  <2>1. d # 7 => PowMinusOne(d) = 0 .. 8 * d - 1
    BY DEF PowMinusOne
  <2>2. x \in 0 .. 8 * d - 1 <=> e < d
    BY <1>4
  <2> QED BY <2>1, <2>2
<1>7. e # d <=> e < d \/ d < e
  OBVIOUS
<1> QED BY <1>4, <1>5, <1>6, <1>7

\* So alterpart() replaces one byte, or at the last one puts the new byte over
\* the old.
LEMMA BitsAltered ==
  ASSUME Wide, NEW w \in Word, NEW d \in Offset, NEW new \in Byte
  PROVE  AlterPartBits(ToBits(w), d + 1, new)
           = ToBits([w EXCEPT ![d] = AlterPart(@, d, new)])
<1>1. /\ Offset = 0 .. 7 /\ Bits = 0 .. 7 /\ d \in 0 .. 7 /\ new \subseteq 0 .. 7
      /\ WORD - 1 = 7 /\ d + 1 - 1 = d
  BY CheckAssumption DEF Wide, Offset, Byte
<1>2. PICK v : v = [w EXCEPT ![d] = AlterPart(@, d, new)]
  OBVIOUS
<1>3. /\ v \in Word
      /\ \A e \in 0 .. 7 : v[e] = IF e # d THEN w[e] ELSE IF d = 7 THEN w[e] \cup new ELSE new
  BY <1>1, <1>2 DEF AlterPart, Word, Byte
<1>4. PICK filter : filter = ShiftLeft(0 .. NBits - 1, 8 * (d + 1)) \cup PowMinusOne(d)
  OBVIOUS
<1>5. AlterPartBits(ToBits(w), d + 1, new) = (ToBits(w) \cap filter) \cup ShiftLeft(new, 8 * d)
  BY <1>1, <1>4 DEF AlterPartBits
<1>6. ASSUME NEW e \in 0 .. 7, NEW c \in 0 .. 7
      PROVE  8 * e + c \in (ToBits(w) \cap filter) \cup ShiftLeft(new, 8 * d)
               <=> 8 * e + c \in ToBits(v)
  <2>1. 8 * e + c \in ToBits(w) <=> c \in w[e]
    BY BitsOfWord
  <2>2. 8 * e + c \in ToBits(v) <=> c \in v[e]
    BY <1>3, BitsOfWord
  <2>3. 8 * e + c \in ShiftLeft(new, 8 * d) <=> e = d /\ c \in new
    BY <1>1, BitsOfByte
  <2>4. 8 * e + c \in filter <=> e # d \/ d = 7
    BY <1>1, <1>4, BitsOfFilter
  <2>5. c \in v[e] <=> (c \in w[e] /\ (e # d \/ d = 7)) \/ (e = d /\ c \in new)
    BY <1>3
  <2> QED BY <2>1, <2>2, <2>3, <2>4, <2>5
<1>7. /\ (ToBits(w) \cap filter) \cup ShiftLeft(new, 8 * d) \subseteq 0 .. 63
      /\ ToBits(v) \subseteq 0 .. 63
  BY <1>1, <1>3, BitsOfWord, BitsOfByte
<1>8. \A x \in 0 .. 63 : x \in (ToBits(w) \cap filter) \cup ShiftLeft(new, 8 * d)
                           <=> x \in ToBits(v)
  BY <1>6, BitPlace
<1> QED BY <1>2, <1>5, <1>7, <1>8

\* What alterpart() is called with.
WordOK == word \in Word

\* alterpart() is right for every word of eight bytes, except at its last byte,
\* where it is what AlterPart says of it.
THEOREM AlterPartRight ==
  ASSUME Wide
  PROVE  Spec => []BitsAgree
<1>1. Init => WordOK
  BY CheckAssumption DEF Init, WordOK
<1>2. WordOK /\ [Next]_inputs => WordOK'
  BY DEF Next, inputs, WordOK
<1>3. {0, 5} \in Byte /\ {} \in Byte /\ Int3 \in Byte
  BY CheckAssumption, TextAssumption DEF Byte
<1>4. ASSUME WordOK, NEW d \in Offset, NEW new \in {Int3, {}, {0, 5}}
      PROVE  AlterPartBits(ToBits(word), d + 1, new)
               = ToBits([word EXCEPT ![d] = AlterPart(@, d, new)])
  <2>1. word \in Word /\ new \in Byte
    BY <1>3, <1>4 DEF WordOK
  <2> QED BY <2>1, BitsAltered
<1>5. WordOK => BitsAgree
  BY <1>4 DEF BitsAgree
<1> QED BY <1>1, <1>2, <1>5, PTL DEF Spec

-----------------------------------------------------------------------------
(* alternate() as a loop.                                                  *)

\* A word is a word after each turn of the loop.
LEMMA TurnWord ==
  ASSUME NEW w \in Word, NEW b \in Breakpoint, NEW a \in Int, NEW to, NEW self
  PROVE  AlternateTurn(w, b, a, to, self) \in Word
<1>1. PICK dist \in Int : dist = b.addr - a
  BY DEF Breakpoint
<1>2. 0 \in Offset /\ b.code[0] \in Byte /\ Int3 \in Byte
  BY TextAssumption DEF Breakpoint, Word, Offset
<1>3. \A d \in Offset : AlterPart(w[d], d, IF to THEN Int3 ELSE b.code[0]) \in Byte
  BY <1>2 DEF AlterPart, Word, Byte
<1>4. CASE dist \in Offset
  BY <1>1, <1>3, <1>4 DEF AlternateTurn, Word
<1>5. CASE dist \notin Offset
  <2>1. ~ (dist >= (IF self THEN 0 ELSE 1) /\ dist < WORD)
    BY <1>5, TextAssumption DEF Offset
  <2> QED BY <1>1, <2>1 DEF AlternateTurn
<1> QED BY <1>4, <1>5

\* The words after the turns of the loop, the last of which is its result.
AlternateWords(code, a, bps, to, self, after) ==
  /\ after \in [0 .. Len(bps) -> Word] /\ after[0] = code
  /\ \A i \in 1 .. Len(bps) : after[i] = AlternateTurn(after[i - 1], bps[i], a, to, self)
  /\ AlternateLoop(code, a, bps, to, self) = after[Len(bps)]

\* The loop has them.
LEMMA AlternateTurns ==
  ASSUME NEW code \in Word, NEW a \in Int, NEW bps \in Seq(Breakpoint), NEW to, NEW self
  PROVE  \E after : AlternateWords(code, a, bps, to, self, after)
<1>1. PICK n \in Nat : n = Len(bps) /\ \A i \in 1 .. n : bps[i] \in Breakpoint
  OBVIOUS
<1>2. PICK turn : turn = [i \in 1 .. n |-> [w \in Word |-> AlternateTurn(w, bps[i], a, to, self)]]
  OBVIOUS
<1>3. turn \in [1 .. n -> [Word -> Word]]
  BY <1>1, <1>2, TurnWord
<1>4. PICK g \in [0 .. n -> Word] :
        g[0] = code /\ \A i \in 1 .. n : g[i] = turn[i][g[i - 1]]
  <2>1. \E g : Loop(n, Word, code, turn, g)
    BY <1>3, LoopExists DEF Turns
  <2> QED BY <2>1 DEF Loop
<1>5. \A i \in 1 .. n : turn[i][g[i - 1]] = AlternateTurn(g[i - 1], bps[i], a, to, self)
  BY <1>2
<1>6. g = [i \in 0 .. n |-> IF i = 0 THEN code ELSE AlternateTurn(g[i - 1], bps[i], a, to, self)]
  BY <1>4, <1>5
<1> DEFINE Repeats(f) == f = [i \in 0 .. n |-> IF i = 0 THEN code
                             ELSE AlternateTurn(f[i - 1], bps[i], a, to, self)]
<1>7. PICK after : after = (CHOOSE f : Repeats(f))
  OBVIOUS
<1>8. Repeats(g)
  BY <1>6
<1>9. Repeats(after)
  <2> HIDE DEF Repeats
  <2> QED BY <1>7, <1>8
<1>10. AlternateLoop(code, a, bps, to, self) = after[n]
  BY <1>1, <1>7 DEF AlternateLoop
<1>11. after = g
  <2>1. \A i \in 0 .. n : i \in {k \in 0 .. n : after[k] = g[k]}
    <3> DEFINE S == {k \in 0 .. n : after[k] = g[k]}
    <3>1. 0 \in S
      BY <1>8, <1>9
    <3>2. \A i \in 1 .. n : i - 1 \in S => i \in S
      BY <1>8, <1>9
    <3> HIDE DEF S
    <3>3. \A i \in 0 .. n : i \in S
      BY ONLY <3>1, <3>2, <1>1, UpTo
    <3> QED BY <3>3 DEF S
  <2> QED BY <2>1, <1>8, <1>9
<1>12. after \in [0 .. n -> Word] /\ after[0] = code
       /\ \A i \in 1 .. n : after[i] = AlternateTurn(after[i - 1], bps[i], a, to, self)
  BY <1>4, <1>5, <1>11
<1> QED BY <1>1, <1>10, <1>12 DEF AlternateWords

\* No two of a set of breakpoints have one address.
OneEach(bps) == \A b, c \in bps : b.addr = c.addr => b = c

\* The byte that is kept for an address is that of the breakpoint there.
LEMMA ByteOf ==
  ASSUME NEW bps, OneEach(bps), NEW b \in bps
  PROVE  CodeByte(bps, b.addr) = b.code[0]
<1>1. (CHOOSE c \in bps : c.addr = b.addr) = b
  BY DEF OneEach
<1> QED BY <1>1 DEF CodeByte

\* A turn of the loop does for one more breakpoint what Alternate does for all.
LEMMA TurnAlternates ==
  ASSUME NEW code \in Word, NEW a \in Int, NEW bps, NEW b, NEW to, NEW self,
         bps \cup {b} \subseteq Breakpoint, OneEach(bps \cup {b}), b \notin bps
  PROVE  AlternateTurn(Alternate(code, a, bps, to, self), b, a, to, self)
           = Alternate(code, a, bps \cup {b}, to, self)
<1> DEFINE s == IF self THEN 0 ELSE 1
           New(x) == IF to THEN Int3 ELSE x
           old == Alternate(code, a, bps, to, self)
           all == Alternate(code, a, bps \cup {b}, to, self)
<1>0. b.addr \in Int
  BY DEF Breakpoint
<1>1. PICK dist \in Int : dist = b.addr - a /\ b.addr = a + dist
  BY <1>0
<1>2. OneEach(bps) /\ \A c \in bps : c.addr # b.addr
  BY DEF OneEach
<1>3. old = [d \in Offset |-> IF d >= s /\ \E c \in bps : c.addr = a + d
                              THEN AlterPart(code[d], d, New(CodeByte(bps, a + d)))
                              ELSE code[d]]
  BY DEF Alternate
<1>4. all = [d \in Offset |->
               IF d >= s /\ \E c \in bps \cup {b} : c.addr = a + d
               THEN AlterPart(code[d], d, New(CodeByte(bps \cup {b}, a + d)))
               ELSE code[d]]
  BY DEF Alternate
<1>5. old = [d \in Offset |-> old[d]] /\ all = [d \in Offset |-> all[d]]
  BY <1>3, <1>4
<1>6. ASSUME NEW d \in Offset, d # dist PROVE all[d] = old[d]
  <2>1. b.addr # a + d
    <3>1. d \in Int
      BY DEF Offset
    <3> QED BY <1>0, <1>1, <1>6, <3>1
  <2>2. ASSUME NEW c \in bps, c.addr = a + d
        PROVE  CodeByte(bps \cup {b}, a + d) = CodeByte(bps, a + d)
    BY <1>2, <2>2, ByteOf
  <2>3. (\E c \in bps \cup {b} : c.addr = a + d) <=> \E c \in bps : c.addr = a + d
    BY <2>1
  <2>4. CASE \E c \in bps : c.addr = a + d
    <3>1. CodeByte(bps \cup {b}, a + d) = CodeByte(bps, a + d)
      BY <2>2, <2>4
    <3> QED BY <1>3, <1>4, <2>3, <3>1
  <2>5. CASE ~ \E c \in bps : c.addr = a + d
    BY <1>3, <1>4, <2>3, <2>5
  <2> QED BY <2>4, <2>5
<1>7. ASSUME dist \in Offset
      PROVE  /\ old[dist] = code[dist]
             /\ all[dist] = IF dist >= s THEN AlterPart(code[dist], dist, New(b.code[0]))
                            ELSE code[dist]
  <2>1. b.addr = a + dist
    BY <1>1
  <2>2. CodeByte(bps \cup {b}, a + dist) = b.code[0]
    BY <2>1, ByteOf
  <2>3. old[dist] = code[dist]
    <3>1. ~ \E c \in bps : c.addr = a + dist
      BY <1>2, <2>1
    <3> QED BY <1>3, <1>7, <3>1
  <2>4. all[dist] = IF dist >= s THEN AlterPart(code[dist], dist, New(b.code[0]))
                    ELSE code[dist]
    <3>1. \E c \in bps \cup {b} : c.addr = a + dist
      BY <2>1
    <3> QED BY <1>4, <1>7, <2>2, <3>1
  <2> QED BY <2>3, <2>4
<1>8. dist \in Offset <=> dist >= 0 /\ dist < WORD
  BY TextAssumption DEF Offset
<1>9. CASE dist >= s /\ dist < WORD
  <2>1. dist \in Offset
    BY <1>8, <1>9
  <2>2. AlternateTurn(old, b, a, to, self)
          = [old EXCEPT ![dist] = AlterPart(@, dist, New(b.code[0]))]
    BY <1>1, <1>9 DEF AlternateTurn
  <2>3. PICK v : v = AlternateTurn(old, b, a, to, self)
    OBVIOUS
  <2> HIDE DEF old, all
  <2>4. v = [d \in Offset |-> v[d]] /\ \A d \in Offset : v[d] = all[d]
    BY <1>6, <1>7, <1>9, <1>5, <2>1, <2>2, <2>3
  <2>5. v = all
    BY <1>5, <2>4
  <2> QED BY <2>3, <2>5 DEF old, all
<1>10. CASE ~ (dist >= s /\ dist < WORD)
  <2>1. AlternateTurn(old, b, a, to, self) = old
    BY <1>1, <1>10 DEF AlternateTurn
  <2> HIDE DEF old, all
  <2>2. \A d \in Offset : old[d] = all[d]
    BY <1>6, <1>7, <1>8, <1>10
  <2>3. old = all
    BY <1>5, <2>2
  <2> QED BY <2>1, <2>3 DEF old, all
<1> QED BY <1>9, <1>10

\* A vector as setbreak() keeps it: no two of its breakpoints have one address.
Vector(bps) ==
  /\ bps \in Seq(Breakpoint)
  /\ \A i, j \in DOMAIN bps : bps[i].addr = bps[j].addr => i = j

\* The breakpoints that a loop has passed after i turns.
Passed(bps, i) == {bps[j] : j \in 1 .. i}

\* Each turn adds one breakpoint, the last all that are left.
LEMMA PassedOneMore ==
  ASSUME NEW bps, Vector(bps)
  PROVE  /\ Len(bps) \in Nat /\ Passed(bps, 0) = {} /\ Passed(bps, Len(bps)) = ToSet(bps)
         /\ \A i \in 1 .. Len(bps) :
              /\ bps[i] \in Breakpoint /\ bps[i] \notin Passed(bps, i - 1)
              /\ Passed(bps, i) = Passed(bps, i - 1) \cup {bps[i]}
              /\ Passed(bps, i) \subseteq Breakpoint /\ OneEach(Passed(bps, i))
<1>1. PICK n \in Nat : n = Len(bps) /\ DOMAIN bps = 1 .. n /\ \A i \in 1 .. n : bps[i] \in Breakpoint
  BY DEF Vector
<1>2. \A i, j \in 1 .. n : bps[i].addr = bps[j].addr => i = j
  BY <1>1 DEF Vector
<1>3. Passed(bps, 0) = {}
  BY DEF Passed
<1>4. Passed(bps, n) = ToSet(bps)
  BY <1>1 DEF Passed, ToSet
<1>5. ASSUME NEW i \in 1 .. n
      PROVE  /\ bps[i] \in Breakpoint /\ bps[i] \notin Passed(bps, i - 1)
             /\ Passed(bps, i) = Passed(bps, i - 1) \cup {bps[i]}
             /\ Passed(bps, i) \subseteq Breakpoint /\ OneEach(Passed(bps, i))
  <2>1. bps[i] \notin Passed(bps, i - 1)
    <3>1. ASSUME NEW j \in 1 .. i - 1 PROVE bps[j] # bps[i]
      BY <1>2
    <3> QED BY <3>1 DEF Passed
  <2>2. Passed(bps, i) = Passed(bps, i - 1) \cup {bps[i]}
    <3>1. 1 .. i = (1 .. i - 1) \cup {i}
      OBVIOUS
    <3> QED BY <3>1 DEF Passed
  <2>3. \A j \in 1 .. i : j \in 1 .. n
    OBVIOUS
  <2>4. Passed(bps, i) \subseteq Breakpoint
    BY <1>1, <2>3 DEF Passed
  <2>5. OneEach(Passed(bps, i))
    BY <1>2, <2>3 DEF Passed, OneEach
  <2> QED BY <1>1, <2>1, <2>2, <2>4, <2>5
<1> QED BY <1>1, <1>3, <1>4, <1>5

\* alternate(), a loop over a vector of any length in any order, does to the word
\* what Alternate says.
THEOREM AlternateRight ==
  ASSUME NEW code \in Word, NEW a \in Int, NEW bps, Vector(bps), NEW to, NEW self
  PROVE  AlternateLoop(code, a, bps, to, self) = Alternate(code, a, ToSet(bps), to, self)
<1>1. PICK n \in Nat : n = Len(bps)
  BY DEF Vector
<1>2. PICK after \in [0 .. n -> Word] :
        /\ after[0] = code
        /\ \A i \in 1 .. n : after[i] = AlternateTurn(after[i - 1], bps[i], a, to, self)
        /\ AlternateLoop(code, a, bps, to, self) = after[n]
  <2>1. \E after : AlternateWords(code, a, bps, to, self, after)
    BY AlternateTurns DEF Vector
  <2> QED BY <1>1, <2>1 DEF AlternateWords
<1> DEFINE S == {i \in 0 .. n : after[i] = Alternate(code, a, Passed(bps, i), to, self)}
<1>3. 0 \in S
  <2>1. Alternate(code, a, {}, to, self) = code
    BY DEF Alternate, Word
  <2> QED BY <1>2, <2>1, PassedOneMore
<1>4. ASSUME NEW i \in 1 .. n, i - 1 \in S PROVE i \in S
  <2>1. /\ bps[i] \notin Passed(bps, i - 1)
        /\ Passed(bps, i) = Passed(bps, i - 1) \cup {bps[i]}
        /\ Passed(bps, i) \subseteq Breakpoint /\ OneEach(Passed(bps, i))
    BY <1>1, PassedOneMore
  <2>2. AlternateTurn(Alternate(code, a, Passed(bps, i - 1), to, self), bps[i], a, to, self)
          = Alternate(code, a, Passed(bps, i), to, self)
    BY <2>1, TurnAlternates
  <2>3. after[i] = Alternate(code, a, Passed(bps, i), to, self)
    BY <1>2, <1>4, <2>2
  <2> QED BY <2>3
<1>5. n \in S
  <2>1. \A i \in 1 .. n : i - 1 \in S => i \in S
    BY <1>4
  <2> HIDE DEF S
  <2>2. \A i \in 0 .. n : i \in S
    BY ONLY <1>3, <2>1, n \in Nat, UpTo
  <2> QED BY <2>2
<1> QED BY <1>1, <1>2, <1>5, PassedOneMore

-----------------------------------------------------------------------------
(* setallbreak() as a loop over a sorted copy.                             *)

\* s has the first i breakpoints in ascending order.
SortOf(bps, i, s) ==
  /\ s \in [1 .. i -> Passed(bps, i)]
  /\ \A j, k \in 1 .. i : j < k => s[j].addr < s[k].addr
  /\ \A b \in Passed(bps, i) : \E j \in 1 .. i : s[j] = b

\* One more breakpoint is inserted below the first with a higher address.
LEMMA SortOneMore ==
  ASSUME NEW bps, Vector(bps), NEW i \in 1 .. Len(bps), NEW s, SortOf(bps, i - 1, s)
  PROVE  \E t : SortOf(bps, i, t)
<1>1. i \in Nat \ {0}
  BY PassedOneMore
<1>2. PICK b : b = bps[i]
  OBVIOUS
<1>3. /\ Passed(bps, i) = Passed(bps, i - 1) \cup {b} /\ b \notin Passed(bps, i - 1)
      /\ OneEach(Passed(bps, i)) /\ b.addr \in Int
      /\ \A c \in Passed(bps, i) : c.addr \in Int
  BY <1>2, PassedOneMore DEF Breakpoint
<1>4. /\ \A j \in 1 .. i - 1 : s[j] \in Passed(bps, i - 1) /\ s[j].addr \in Int
      /\ \A j, k \in 1 .. i - 1 : j < k => s[j].addr < s[k].addr
      /\ \A c \in Passed(bps, i - 1) : \E j \in 1 .. i - 1 : s[j] = c
  BY <1>3 DEF SortOf
<1>5. \A j \in 1 .. i - 1 : s[j].addr # b.addr
  BY <1>3, <1>4 DEF OneEach
<1>6. PICK p \in 1 .. i : /\ p = i \/ b.addr < s[p].addr
                         /\ \A j \in 1 .. p - 1 : s[j].addr < b.addr
  <2> DEFINE above == {j \in 1 .. i : j = i \/ b.addr < s[j].addr}
  <2>1. i \in above /\ above \subseteq Nat
    BY <1>1
  <2>2. PICK p \in above : \A j \in above : p <= j
    BY <2>1, LeastNat
  <2>3. ASSUME NEW j \in 1 .. p - 1 PROVE s[j].addr < b.addr
    <3>1. j \in 1 .. i - 1 /\ ~ (p <= j)
      BY <1>1
    <3>2. ~ (b.addr < s[j].addr)
      BY <2>2, <3>1
    <3>3. b.addr \in Int /\ s[j].addr \in Int /\ s[j].addr # b.addr
      BY <1>3, <1>4, <1>5, <3>1
    <3> QED BY <3>2, <3>3
  <2> QED BY <2>2, <2>3
<1>7. \A j \in p .. i - 1 : b.addr < s[j].addr
  <2>1. ASSUME NEW j \in p .. i - 1 PROVE b.addr < s[j].addr
    <3>1. p \in 1 .. i - 1 /\ j \in 1 .. i - 1 /\ p # i
      BY <1>1
    <3>2. b.addr < s[p].addr
      BY <1>6, <3>1
    <3>3. CASE j = p
      BY <3>2, <3>3
    <3>4. CASE p < j
      <4>1. s[p].addr < s[j].addr
        BY <1>4, <3>1, <3>4
      <4>2. b.addr \in Int /\ s[p].addr \in Int /\ s[j].addr \in Int
        BY <1>3, <1>4, <3>1
      <4> QED BY <3>2, <4>1, <4>2
    <3> QED BY <3>1, <3>3, <3>4
  <2> QED BY <2>1
<1>8. PICK t : t = [j \in 1 .. i |-> IF j < p THEN s[j] ELSE IF j = p THEN b ELSE s[j - 1]]
  OBVIOUS
<1>9. /\ \A j \in 1 .. p - 1 : j \in 1 .. i - 1 /\ t[j] = s[j]
      /\ t[p] = b
      /\ \A j \in p + 1 .. i : j - 1 \in p .. i - 1 /\ j - 1 \in 1 .. i - 1 /\ t[j] = s[j - 1]
  BY <1>1, <1>8
<1>10. \A j \in 1 .. i : j \in 1 .. p - 1 \/ j = p \/ j \in p + 1 .. i
  BY <1>1
<1>11. t \in [1 .. i -> Passed(bps, i)]
  <2>1. \A j \in 1 .. i : t[j] \in Passed(bps, i)
    BY <1>3, <1>4, <1>9, <1>10
  <2> QED BY <1>8, <2>1
<1>12. ASSUME NEW j \in 1 .. i, NEW k \in 1 .. i, j < k PROVE t[j].addr < t[k].addr
  <2>1. CASE k \in 1 .. p - 1
    <3>1. j \in 1 .. p - 1
      BY <1>12, <2>1
    <3> QED BY <1>4, <1>9, <1>12, <2>1, <3>1
  <2>2. CASE k = p
    <3>1. j \in 1 .. p - 1
      BY <1>12, <2>2
    <3> QED BY <1>6, <1>9, <2>2, <3>1
  <2>3. CASE k \in p + 1 .. i
    <3>1. CASE j \in 1 .. p - 1
      <4>1. j < k - 1 /\ k - 1 \in 1 .. i - 1 /\ j \in 1 .. i - 1
        BY <1>9, <2>3, <3>1
      <4> QED BY <1>4, <1>9, <2>3, <3>1, <4>1
    <3>2. CASE j = p
      BY <1>7, <1>9, <2>3, <3>2
    <3>3. CASE j \in p + 1 .. i
      <4>1. j - 1 < k - 1 /\ k - 1 \in 1 .. i - 1 /\ j - 1 \in 1 .. i - 1
        BY <1>9, <1>12, <2>3, <3>3
      <4> QED BY <1>4, <1>9, <2>3, <3>3, <4>1
    <3> QED BY <1>10, <3>1, <3>2, <3>3
  <2> QED BY <1>10, <2>1, <2>2, <2>3
<1>13. ASSUME NEW c \in Passed(bps, i) PROVE \E j \in 1 .. i : t[j] = c
  <2>1. CASE c = b
    BY <1>9, <2>1
  <2>2. CASE c \in Passed(bps, i - 1)
    <3>1. PICK j \in 1 .. i - 1 : s[j] = c
      BY <1>4, <2>2
    <3>2. CASE j < p
      <4>1. j \in 1 .. p - 1 /\ j \in 1 .. i
        BY <3>2
      <4> QED BY <1>9, <3>1, <4>1
    <3>3. CASE ~ (j < p)
      <4>1. PICK k \in 1 .. i : k \in p + 1 .. i /\ k - 1 = j
        BY <1>1, <3>3
      <4>2. t[k] = c
        BY <1>9, <3>1, <4>1
      <4> QED BY <4>2
    <3> QED BY <3>2, <3>3
  <2> QED BY <1>3, <2>1, <2>2
<1> QED BY <1>11, <1>12, <1>13 DEF SortOf

\* So every vector can be sorted, and the sorted one is a vector.
LEMMA SortedRight ==
  ASSUME NEW bps, Vector(bps)
  PROVE  Vector(Sorted(bps)) /\ Ascending(Sorted(bps)) /\ ToSet(Sorted(bps)) = ToSet(bps)
<1>1. PICK n \in Nat : n = Len(bps) /\ DOMAIN bps = 1 .. n
  BY DEF Vector
<1> DEFINE S == {i \in 0 .. n : \E s : SortOf(bps, i, s)}
<1>2. 0 \in S
  <2>1. PICK s : s = [j \in 1 .. 0 |-> 0]
    OBVIOUS
  <2>2. SortOf(bps, 0, s)
    BY <2>1, PassedOneMore DEF SortOf
  <2> QED BY <2>2
<1>3. ASSUME NEW i \in 1 .. n, i - 1 \in S PROVE i \in S
  BY <1>1, <1>3, SortOneMore
<1>4. n \in S
  <2>1. \A i \in 1 .. n : i - 1 \in S => i \in S
    BY <1>3
  <2> HIDE DEF S
  <2>2. \A i \in 0 .. n : i \in S
    BY ONLY <1>2, <2>1, n \in Nat, UpTo
  <2> QED BY <2>2
<1>5. PICK s : SortOf(bps, n, s)
  BY <1>4
<1>6. s \in [DOMAIN bps -> ToSet(bps)] /\ Ascending(s) /\ ToSet(s) = ToSet(bps)
  <2>1. /\ s \in [1 .. n -> ToSet(bps)] /\ DOMAIN s = 1 .. n
        /\ \A j, k \in 1 .. n : j < k => s[j].addr < s[k].addr
        /\ \A b \in ToSet(bps) : \E j \in 1 .. n : s[j] = b
    BY <1>1, <1>5, PassedOneMore DEF SortOf
  <2>2. Ascending(s)
    BY <2>1 DEF Ascending
  <2>3. ToSet(s) = {s[j] : j \in 1 .. n}
    BY <2>1 DEF ToSet
  <2>4. ToSet(s) = ToSet(bps)
    BY <2>1, <2>3
  <2> QED BY <1>1, <2>1, <2>2, <2>4
<1>7. /\ Sorted(bps) \in [DOMAIN bps -> ToSet(bps)]
      /\ Ascending(Sorted(bps)) /\ ToSet(Sorted(bps)) = ToSet(bps)
  BY <1>6 DEF Sorted
<1>8. Vector(Sorted(bps))
  <2>1. PICK t : t = Sorted(bps)
    OBVIOUS
  <2>2. t \in [1 .. n -> Breakpoint] /\ Ascending(t)
    BY <1>1, <1>7, <2>1, PassedOneMore
  <2>3. t \in Seq(Breakpoint) /\ DOMAIN t = 1 .. n /\ \A i \in 1 .. n : t[i].addr \in Int
    <3>1. t \in Seq(Breakpoint) /\ DOMAIN t = 1 .. n
      BY <2>2
    <3>2. ASSUME NEW i \in 1 .. n PROVE t[i].addr \in Int
      <4>1. t[i] \in Breakpoint
        BY <2>2
      <4> QED BY <4>1 DEF Breakpoint
    <3> QED BY <3>1, <3>2
  <2>4. \A i, j \in 1 .. n : t[i].addr = t[j].addr => i = j
    BY <2>2, <2>3 DEF Ascending
  <2> QED BY <2>1, <2>3, <2>4 DEF Vector
<1> QED BY <1>7, <1>8

\* What memory holds after each POKETEXT of the loop.
Memories(memory, s, after) ==
  /\ after \in [0 .. Len(s) -> [Mapped -> Byte]] /\ after[0] = memory
  /\ \A i \in 1 .. Len(s) : after[i] = Poke(after[i - 1], s[i].addr, Arm(s[i].code))
  /\ PokeLoop(memory, s) = after[Len(s)]

\* A POKETEXT of an armed word leaves memory a memory.
LEMMA PokeMemory ==
  ASSUME NEW m \in [Mapped -> Byte], NEW b \in Breakpoint
  PROVE  Poke(m, b.addr, Arm(b.code)) \in [Mapped -> Byte]
<1>1. Arm(b.code) \in Word
  BY TextAssumption DEF Arm, Breakpoint, Word, Byte
<1>2. \A x \in Mapped : x - b.addr \in Offset => Arm(b.code)[x - b.addr] \in Byte
  BY <1>1 DEF Word
<1> QED BY <1>2 DEF Poke

\* The loop goes through them.
LEMMA PokeTurns ==
  ASSUME NEW memory \in [Mapped -> Byte], NEW s \in Seq(Breakpoint)
  PROVE  \E after : Memories(memory, s, after)
<1>1. PICK n \in Nat : n = Len(s) /\ \A i \in 1 .. n : s[i] \in Breakpoint
  OBVIOUS
<1>2. PICK X : X = [Mapped -> Byte]
  OBVIOUS
<1>3. PICK turn : turn = [i \in 1 .. n |-> [m \in X |-> Poke(m, s[i].addr, Arm(s[i].code))]]
  OBVIOUS
<1>4. \A i \in 1 .. n : \A m \in X : Poke(m, s[i].addr, Arm(s[i].code)) \in X
  BY <1>1, <1>2, PokeMemory
<1>5. turn \in Turns(n, X)
  <2>1. \A i \in 1 .. n : turn[i] = [m \in X |-> Poke(m, s[i].addr, Arm(s[i].code))]
    BY <1>3
  <2>2. \A i \in 1 .. n : turn[i] \in [X -> X]
    BY <1>4, <2>1
  <2>3. turn = [i \in 1 .. n |-> turn[i]]
    BY <1>3
  <2> QED BY <2>2, <2>3 DEF Turns
<1>6. PICK g : Loop(n, X, memory, turn, g)
  BY <1>2, <1>5, LoopExists
<1>7. /\ g \in [0 .. n -> X] /\ g[0] = memory
      /\ \A i \in 1 .. n : g[i] = Poke(g[i - 1], s[i].addr, Arm(s[i].code))
  <2>1. g \in [0 .. n -> X] /\ g[0] = memory /\ \A i \in 1 .. n : g[i] = turn[i][g[i - 1]]
    BY <1>6 DEF Loop
  <2>2. \A i \in 1 .. n : g[i - 1] \in X
    <3>1. \A i \in 1 .. n : i - 1 \in 0 .. n
      BY <1>1
    <3> QED BY <2>1, <3>1
  <2> QED BY <1>3, <2>1, <2>2
<1> DEFINE Repeats(f) == f = [i \in 0 .. n |-> IF i = 0 THEN memory
                                ELSE Poke(f[i - 1], s[i].addr, Arm(s[i].code))]
<1>8. PICK after : after = (CHOOSE f : Repeats(f))
  OBVIOUS
<1>9. Repeats(g)
  BY <1>7
<1>10. Repeats(after)
  <2> HIDE DEF Repeats
  <2> QED BY <1>8, <1>9
<1>11. PokeLoop(memory, s) = after[n]
  BY <1>1, <1>8 DEF PokeLoop
<1>12. after = g
  <2> DEFINE S == {k \in 0 .. n : after[k] = g[k]}
  <2>1. 0 \in S
    BY <1>9, <1>10
  <2>2. \A i \in 1 .. n : i - 1 \in S => i \in S
    BY <1>9, <1>10
  <2>3. \A i \in 0 .. n : i \in S
    <3> HIDE DEF S
    <3> QED BY ONLY <2>1, <2>2, n \in Nat, UpTo
  <2> QED BY <2>3, <1>9, <1>10
<1> QED BY <1>1, <1>2, <1>7, <1>11, <1>12 DEF Memories

\* The POKETEXT for a breakpoint above all others does what SetAllBreak says of
\* one more: its word is the last at every byte that it reaches.
LEMMA PokeSetsOneMore ==
  ASSUME NEW memory \in [Mapped -> Byte], NEW bps, NEW b,
         bps \cup {b} \subseteq Breakpoint, \A c \in bps : c.addr < b.addr
  PROVE  Poke(SetAllBreak(memory, bps), b.addr, Arm(b.code)) = SetAllBreak(memory, bps \cup {b})
<1> DEFINE Writers(set, x) == {c \in set : x - c.addr \in Offset}
           Uppermost(set) == CHOOSE c \in set : \A e \in set : e.addr <= c.addr
           By(set, x) == IF set = {} THEN memory[x]
                         ELSE Arm(Uppermost(set).code)[x - Uppermost(set).addr]
           Left(set, x) == By(Writers(set, x), x)
<1>1. \A set : SetAllBreak(memory, set) = [x \in Mapped |-> Left(set, x)]
  BY DEF SetAllBreak
<1>2. ASSUME NEW x \in Mapped, x - b.addr \in Offset
      PROVE  Left(bps \cup {b}, x) = Arm(b.code)[x - b.addr]
  <2>1. b \in Writers(bps \cup {b}, x)
    BY <1>2
  <2>2. \A c \in Writers(bps \cup {b}, x) : c.addr <= b.addr /\ (b.addr <= c.addr => c = b)
    BY DEF Breakpoint
  <2> HIDE DEF Writers
  <2>3. Uppermost(Writers(bps \cup {b}, x)) = b
    BY <2>1, <2>2
  <2> QED BY <2>1, <2>3
<1>3. ASSUME NEW x \in Mapped, x - b.addr \notin Offset
      PROVE  Left(bps \cup {b}, x) = Left(bps, x)
  <2>1. Writers(bps \cup {b}, x) = Writers(bps, x)
    BY <1>3
  <2> HIDE DEF Writers, By
  <2> QED BY <2>1
<1> HIDE DEF Left
<1>4. SetAllBreak(memory, bps) = [x \in Mapped |-> Left(bps, x)]
  BY <1>1
<1>5. SetAllBreak(memory, bps \cup {b}) = [x \in Mapped |-> Left(bps \cup {b}, x)]
  BY <1>1
<1> QED BY <1>2, <1>3, <1>4, <1>5 DEF Poke

\* setallbreak(), one POKETEXT after the other over a vector of any length that
\* setbreak() has left in any order, does to memory what SetAllBreak says.
THEOREM SetAllBreakRight ==
  ASSUME NEW memory \in [Mapped -> Byte], NEW bps, Vector(bps)
  PROVE  SetAllBreakLoop(memory, bps) = SetAllBreak(memory, ToSet(bps))
<1>1. PICK s : s = Sorted(bps)
  OBVIOUS
<1>2. Vector(s) /\ Ascending(s) /\ ToSet(s) = ToSet(bps)
  BY <1>1, SortedRight
<1>3. PICK n \in Nat : n = Len(s) /\ DOMAIN s = 1 .. n
  BY <1>2 DEF Vector
<1>4. PICK after : Memories(memory, s, after)
  BY <1>2, PokeTurns DEF Vector
<1> DEFINE S == {i \in 0 .. n : after[i] = SetAllBreak(memory, Passed(s, i))}
<1>5. 0 \in S
  <2>1. SetAllBreak(memory, {}) = memory
    BY DEF SetAllBreak
  <2>2. Passed(s, 0) = {}
    BY DEF Passed
  <2>3. after[0] = memory
    BY <1>4 DEF Memories
  <2> QED BY <2>1, <2>2, <2>3
<1>6. ASSUME NEW i \in 1 .. n, i - 1 \in S PROVE i \in S
  <2>1. Passed(s, i) = Passed(s, i - 1) \cup {s[i]} /\ Passed(s, i) \subseteq Breakpoint
    BY <1>2, <1>3, PassedOneMore
  <2>2. \A c \in Passed(s, i - 1) : c.addr < s[i].addr
    <3>1. ASSUME NEW j \in 1 .. i - 1 PROVE s[j].addr < s[i].addr
      BY <1>2, <1>3 DEF Ascending
    <3> QED BY <3>1 DEF Passed
  <2>3. Poke(SetAllBreak(memory, Passed(s, i - 1)), s[i].addr, Arm(s[i].code))
          = SetAllBreak(memory, Passed(s, i))
    BY <2>1, <2>2, PokeSetsOneMore
  <2>4. after[i] = Poke(after[i - 1], s[i].addr, Arm(s[i].code))
    BY <1>3, <1>4 DEF Memories
  <2> QED BY <1>6, <2>3, <2>4
<1>7. n \in S
  <2>1. \A i \in 1 .. n : i - 1 \in S => i \in S
    BY <1>6
  <2> HIDE DEF S
  <2>2. \A i \in 0 .. n : i \in S
    BY ONLY <1>5, <2>1, n \in Nat, UpTo
  <2> QED BY <2>2
<1>8. PokeLoop(memory, s) = SetAllBreak(memory, ToSet(bps))
  BY <1>2, <1>3, <1>4, <1>7, PassedOneMore DEF Memories
<1> QED BY <1>1, <1>8 DEF SetAllBreakLoop

\* What the loops are called with.
InputsOK == word \in Word /\ Vector(list)

\* The inputs never change.
LEMMA InputsKept == Spec => []InputsOK
<1>1. Init => InputsOK
  <2> SUFFICES ASSUME Init PROVE InputsOK
    OBVIOUS
  <2>1. word \in Word
    BY CheckAssumption DEF Init
  <2>2. PICK s \in {t \in SeqOf(Addrs, MaxBps) : IsInjective(t)} :
          list = [i \in DOMAIN s |-> [addr |-> s[i], code |-> CodeOf(s[i])]]
    BY DEF Init
  <2>3. PICK n \in Nat : s \in [1 .. n -> Addrs]
    BY <2>2, CheckAssumption DEF SeqOf
  <2>4. \A i, j \in 1 .. n : s[i] = s[j] => i = j
    BY <2>2, <2>3 DEF IsInjective
  <2>5. ASSUME NEW i \in 1 .. n
        PROVE  [addr |-> s[i], code |-> CodeOf(s[i])] \in Breakpoint
    <3>1. s[i] \in Int
      <4>1. WordAddr \subseteq Int
        BY TextAssumption DEF WordAddr
      <4> QED BY <2>3, <4>1, CheckAssumption
    <3>2. CodeOf(s[i]) \in Word
      <4>1. ASSUME NEW d \in Offset PROVE {s[i] % 8, (s[i] + d) % 8} \subseteq 0 .. 7
        <5>1. PICK x \in Int, y \in Int : x = s[i] /\ y = s[i] + d
          BY <3>1, TextAssumption DEF Offset
        <5>2. x % 8 \in 0 .. 7 /\ y % 8 \in 0 .. 7
          OBVIOUS
        <5> QED BY <5>1, <5>2
      <4>2. \A d \in Offset : {s[i] % 8, (s[i] + d) % 8} \in Byte
        BY <4>1, CheckAssumption DEF Byte
      <4> QED BY <4>2 DEF CodeOf, Word
    <3> QED BY <3>1, <3>2 DEF Breakpoint
  <2>6. list = [i \in 1 .. n |-> [addr |-> s[i], code |-> CodeOf(s[i])]]
    BY <2>2, <2>3
  <2>7. list \in Seq(Breakpoint) /\ DOMAIN list = 1 .. n
    BY <2>5, <2>6
  <2>8. \A i, j \in DOMAIN list : list[i].addr = list[j].addr => i = j
    BY <2>4, <2>6, <2>7
  <2> QED BY <2>1, <2>7, <2>8 DEF InputsOK, Vector
<1>2. InputsOK /\ [Next]_inputs => InputsOK'
  BY DEF Next, inputs, InputsOK
<1> QED BY <1>1, <1>2, PTL DEF Spec

\* alternate() on a list of any length: AlternateAgrees for every value of the
\* constants.
THEOREM AlternateKept == Spec => []AlternateAgrees
<1>1. InputsOK => AlternateAgrees
  <2>1. Base \in Int
    BY CheckAssumption, TextAssumption DEF WordAddr
  <2> QED BY <2>1, AlternateRight DEF InputsOK, AlternateAgrees
<1> QED BY <1>1, InputsKept, PTL

\* setallbreak() on a list of any length: SetAllAgrees for every value of the
\* constants.
THEOREM SetAllKept == Spec => []SetAllAgrees
<1>1. InputsOK => SetAllAgrees
  BY SetAllBreakRight, TextAssumption DEF InputsOK, SetAllAgrees
<1> QED BY <1>1, InputsKept, PTL
=============================================================================
