----------------------------- MODULE SdbProofs -----------------------------
(***************************************************************************)
(* What is proved about Sdb for every value of its constants: the types,   *)
(* the distinctness of the breakpoints, and that the patching of the text  *)
(* never damages the program.                                              *)
(***************************************************************************)
EXTENDS Sdb, Least, TLAPS

-----------------------------------------------------------------------------
(* Lemmas about the helpers.                                               *)

\* A word read from the tracee is a word (PTRACE_PEEKTEXT).
LEMMA PeekType ==
  ASSUME NEW m \in [Mapped -> Byte], NEW a \in WordAddr
  PROVE  Peek(m, a) \in Word
<1> USE TextAssumption
<1> SUFFICES ASSUME NEW d \in Offset PROVE m[a + d] \in Byte
  BY DEF Peek, Word
<1>1. a + d \in Mapped
  BY DEF WordAddr, Offset, Mapped
<1> QED BY <1>1

\* Writing a word keeps the memory's type.
LEMMA PokeType ==
  ASSUME NEW m \in [Mapped -> Byte], NEW a \in WordAddr, NEW w \in Word
  PROVE  Poke(m, a, w) \in [Mapped -> Byte]
BY DEF Poke, Word

\* The breakpoints of a list whose codes are words.
WellTyped(bps) == bps \subseteq [addr : WordAddr, code : Word]

\* alternate() returns a word.
LEMMA AlternateType ==
  ASSUME NEW w \in Word, NEW a \in Int, NEW bps, WellTyped(bps),
         NEW to \in BOOLEAN, NEW self \in BOOLEAN
  PROVE  Alternate(w, a, bps, to, self) \in Word
<1> USE TextAssumption
<1> SUFFICES ASSUME NEW d \in Offset,
                    \E b \in bps : b.addr = a + d
             PROVE  AlterPart(w[d], d, IF to THEN Int3 ELSE CodeByte(bps, a + d))
                      \in Byte
  BY DEF Alternate, Word
<1>1. CodeByte(bps, a + d) \in Byte
  <2> DEFINE c == CHOOSE b \in bps : b.addr = a + d
  <2>1. c \in bps
    OBVIOUS
  <2>2. c.code \in Word /\ 0 \in Offset
    BY <2>1 DEF WellTyped, Offset
  <2> QED BY <2>2 DEF CodeByte, Word
<1>2. w[d] \in Byte
  BY DEF Word
<1> QED BY <1>1, <1>2 DEF AlterPart, Byte

\* The word that arms a breakpoint is a word.
LEMMA ArmType ==
  ASSUME NEW w \in Word
  PROVE  Arm(w) \in Word /\ Arm(w)[0] = Int3
         /\ \A d \in Offset : d # 0 => Arm(w)[d] = w[d]
BY TextAssumption DEF Arm, Word, Offset

\* setallbreak(): the byte at x is the one that the nearest breakpoint at or
\* below it wrote.
LEMMA Nearest ==
  ASSUME NEW bps, WellTyped(bps), NEW x \in Mapped,
         \E b \in bps : x - b.addr \in Offset
  PROVE  LET writers == {b \in bps : x - b.addr \in Offset}
             last    == CHOOSE b \in writers : \A c \in writers : c.addr <= b.addr
         IN  last \in writers /\ \A c \in writers : c.addr <= last.addr
<1> USE TextAssumption
<1> DEFINE writers == {b \in bps : x - b.addr \in Offset}
           dists   == {x - b.addr : b \in writers}
<1>1. dists \subseteq Nat /\ dists # {}
  BY DEF Offset
<1>2. PICK m \in dists : \A n \in dists : m <= n
  BY <1>1, LeastNat
<1>3. PICK b \in writers : m = x - b.addr
  OBVIOUS
<1>4. ASSUME NEW c \in writers PROVE c.addr <= b.addr
  <2>1. c.addr \in Int /\ b.addr \in Int /\ x \in Int
    BY DEF WellTyped, WordAddr, Mapped
  <2>2. x - b.addr <= x - c.addr
    BY <1>2, <1>3
  <2> QED BY <2>1, <2>2
<1> QED BY <1>4

\* setallbreak() keeps the memory's type.
LEMMA SetAllBreakType ==
  ASSUME NEW m \in [Mapped -> Byte], NEW bps, WellTyped(bps)
  PROVE  SetAllBreak(m, bps) \in [Mapped -> Byte]
<1> SUFFICES ASSUME NEW x \in Mapped PROVE SetAllBreak(m, bps)[x] \in Byte
  BY DEF SetAllBreak
<1> DEFINE writers == {b \in bps : x - b.addr \in Offset}
           last    == CHOOSE b \in writers : \A c \in writers : c.addr <= b.addr
<1>1. CASE writers = {}
  BY <1>1 DEF SetAllBreak
<1>2. CASE writers # {}
  <2>1. last \in writers
    BY <1>2, Nearest
  <2>2. Arm(last.code) \in Word /\ x - last.addr \in Offset
    BY <2>1, ArmType DEF WellTyped
  <2>3. SetAllBreak(m, bps)[x] = Arm(last.code)[x - last.addr]
    BY <1>2 DEF SetAllBreak
  <2> QED BY <2>2, <2>3 DEF Word
<1> QED BY <1>1, <1>2

-----------------------------------------------------------------------------
(* Types.                                                                  *)

\* The listed breakpoints are typed (conf.bps).
LEMMA BpsType == ASSUME TypeOK PROVE WellTyped(Bps)
BY DEF TypeOK, WellTyped, Bps, Ids

\* restoreifbreak() finds an id of the list at rip - ccbyte, or none.
LEMMA HitIdType ==
  ASSUME TypeOK, NEW cc \in {0, 1}
  PROVE  /\ HitId(cc) \in Ids \cup {-1}
         /\ HitId(cc) >= 0 => slots[HitId(cc)].addr = rip - cc
<1> DEFINE S == {id \in Ids : slots[id].addr = rip - cc}
<1>1. CASE \E id \in Ids : slots[id].addr = rip - cc
  <2>1. S \subseteq Nat /\ S # {}
    BY <1>1 DEF Ids, TypeOK
  <2>2. \E m \in S : \A n \in S : m <= n
    BY <2>1, LeastNat
  <2>3. \E id \in Ids : /\ slots[id].addr = rip - cc
                        /\ \A j \in Ids : slots[j].addr = rip - cc => id <= j
    BY <2>2
  <2> QED BY <1>1, <2>3 DEF HitId
<1>2. CASE ~ \E id \in Ids : slots[id].addr = rip - cc
  BY <1>2 DEF HitId
<1> QED BY <1>1, <1>2

\* restoreifbreak() puts rip back to an address.
LEMMA StopRipType ==
  ASSUME TypeOK, NEW cc \in {0, 1}
  PROVE  StopRip(cc) \in Nat
<1> USE TextAssumption
<1>1. CASE HitId(cc) < 0
  BY <1>1 DEF StopRip, TypeOK
<1>2. CASE HitId(cc) \in Ids
  <2>1. slots[HitId(cc)].addr \in WordAddr
    BY <1>2 DEF TypeOK, Ids
  <2>2. ~ (HitId(cc) < 0)
    BY <1>2 DEF Ids, TypeOK
  <2> QED BY <2>1, <2>2 DEF StopRip, WordAddr
<1> QED BY <1>1, <1>2, HitIdType

\* An element of the storage, past the end or not, has its type.
LEMMA SlotType ==
  ASSUME TypeOK, NEW i \in 0 .. high - 1
  PROVE  /\ slots[i].addr \in WordAddr /\ slots[i].addr \in Int
         /\ slots[i].addr \in BreakInputs /\ slots[i].code \in Word
BY DEF TypeOK, WordAddr

\* resetbreak() keeps the memory's type, also when lid is past the end ...
LEMMA ResetMemType ==
  ASSUME TypeOK PROVE ResetMem \in [Mapped -> Byte]
<1>1. CASE lid < 0
  BY <1>1 DEF ResetMem, TypeOK
<1>2. CASE ~ (lid < 0)
  <2>1. lid \in 0 .. high - 1
    BY <1>2 DEF TypeOK
  <2> DEFINE b == slots[lid]
  <2>2. b.addr \in WordAddr /\ b.addr \in Int /\ b.code \in Word
    BY <2>1, SlotType
  <2>3. Alternate(b.code, b.addr, Bps, TRUE, TRUE) \in Word
    BY <2>2, BpsType, AlternateType
  <2>4. Poke(mem, b.addr, Alternate(b.code, b.addr, Bps, TRUE, TRUE))
          \in [Mapped -> Byte]
    BY <2>2, <2>3, PokeType DEF TypeOK
  <2> QED BY <1>2, <2>4 DEF ResetMem
<1> QED BY <1>1, <1>2

\* ... and so do restoreifbreak() ...
LEMMA StopMemType ==
  ASSUME TypeOK, NEW cc \in {0, 1}
  PROVE  StopMem(cc) \in [Mapped -> Byte]
<1>1. CASE HitId(cc) < 0
  BY <1>1, ResetMemType DEF StopMem
<1>2. CASE ~ (HitId(cc) < 0)
  <2>1. HitId(cc) \in 0 .. high - 1
    BY <1>2, HitIdType DEF Ids, TypeOK
  <2> DEFINE b == slots[HitId(cc)]
  <2>2. b.addr \in WordAddr /\ b.addr \in Int /\ b.code \in Word
    BY <2>1, SlotType
  <2>3. Alternate(b.code, b.addr, Bps, FALSE, FALSE) \in Word
    BY <2>2, BpsType, AlternateType
  <2>4. Poke(ResetMem, b.addr, Alternate(b.code, b.addr, Bps, FALSE, FALSE))
          \in [Mapped -> Byte]
    BY <2>2, <2>3, PokeType, ResetMemType
  <2> QED BY <1>2, <2>4 DEF StopMem
<1> QED BY <1>1, <1>2

\* ... and deletebreak().
LEMMA DeleteMemType ==
  ASSUME TypeOK, NEW did \in 0 .. high - 1
  PROVE  DeleteMem(did) \in [Mapped -> Byte]
<1> DEFINE b == slots[did]
<1>1. b.addr \in WordAddr /\ b.addr \in Int /\ b.code \in Word
  BY SlotType
<1>2. Alternate(b.code, b.addr, Bps, TRUE, FALSE) \in Word
  BY <1>1, BpsType, AlternateType
<1> QED BY <1>1, <1>2, PokeType DEF DeleteMem, TypeOK

\* The steps that leave the vector, the memory and rip alone, or only lose lid.
Quiet ==
  \/ Load \/ LoadUnreadable \/ Start \/ ForkFails \/ Cont \/ Si
  \/ (\E a \in BreakInputs : SetBreakFails(a)) \/ DeleteFails \/ ListRunsOff \/ Quit
  \/ StartRunsOff \/ StartDied \/ StartKilled
  \/ WaitRunsOff \/ WaitKilled \/ WaitDied \/ WaitNoChild
  \/ ExecFails \/ Signal \/ Kill \/ Ended

\* The remaining steps of Next, one case each.
LEMMA NextCases ==
  ASSUME Next
  PROVE  \/ Quiet
         \/ \E a \in BreakInputs : SetBreak(a)
         \/ \E did \in Ids : DeleteBreak(did)
         \/ DeletePastEnd
         \/ \E i \in Instr : SetRip(i)
         \/ ExecOk \/ ExecuteInstruction \/ ExecuteInt3 \/ ExecuteGarbage
         \/ StartStopped \/ WaitStopped
BY DEF Next, Command, Return, Run, Interference, Quiet

\* A quiet step leaves the vector, lid, the memory and rip alone.
LEMMA QuietStep ==
  ASSUME Quiet
  PROVE  UNCHANGED <<lid, slots, size, high, mem, rip>>
BY DEF Quiet, Load, LoadUnreadable, Start, ForkFails, Cont, Si, SetBreakFails,
       DeleteFails, ListRunsOff, Quit, StartRunsOff, StartDied, StartKilled,
       WaitRunsOff, WaitKilled, WaitDied,
       WaitNoChild, ExecFails, Signal, Kill, Ended, Die, Resume,
       KilledBeforePoke, vars, conf, bpVars

\* A quiet step keeps the types.
LEMMA QuietType ==
  ASSUME TypeOK, Quiet
  PROVE  TypeOK'
<1>1. UNCHANGED <<lid, slots, size, high, mem, rip>>
  BY QuietStep
<1>2. /\ sdb' \in {"prompt", "start", "runstart", "cont", "si", "gone"}
      /\ tracee' \in {"none", "fresh", "stopped", "trapped", "running",
                      "exited", "killed", "reaped"}
  BY DEF Quiet, Load, LoadUnreadable, Start, ForkFails, Cont, Si, SetBreakFails,
       DeleteFails, ListRunsOff, Quit, StartRunsOff, StartDied, StartKilled,
       WaitRunsOff, WaitKilled, WaitDied,
       WaitNoChild, ExecFails, Signal, Kill, Ended, Die, Resume,
       KilledBeforePoke, vars, TypeOK
<1>3. /\ status' \in {NOT_LOADED, LOADED, RUNNING}
      /\ entry' \in {0, TextLo} /\ tsize' \in {0, TextSize}
      /\ stepped' \in BOOLEAN
  BY DEF Quiet, Load, LoadUnreadable, Start, ForkFails, Cont, Si, SetBreakFails,
       DeleteFails, ListRunsOff, Quit, StartRunsOff, StartDied, StartKilled,
       WaitRunsOff, WaitKilled, WaitDied,
       WaitNoChild, ExecFails, Signal, Kill, Ended, Resume,
       KilledBeforePoke, vars, conf, TypeOK
<1> QED BY <1>1, <1>2, <1>3 DEF TypeOK

\* push_back() keeps the vector well typed.
LEMMA PushType ==
  ASSUME TypeOK, ~Wrapped,
         NEW b \in [addr : BreakInputs \cap WordAddr, code : Word], Push(b)
  PROVE  /\ high' \in Nat /\ size' \in -1 .. high' /\ lid \in -1 .. high' - 1
         /\ slots' \in [0 .. high' - 1 -> [addr : BreakInputs \cap WordAddr, code : Word]]
<1>0. size \in 0 .. high /\ high \in Nat
  BY DEF TypeOK, Wrapped
<1>1. CASE size < high
  <2>1. /\ high' = high /\ size' = size + 1
        /\ slots' = [i \in 0 .. high - 1 |-> IF i = size THEN b ELSE slots[i]]
    BY <1>1 DEF Push
  <2> QED BY <1>0, <1>1, <2>1 DEF TypeOK
<1>2. CASE ~ (size < high)
  <2>1. size = high
    BY <1>0, <1>2
  <2>2. /\ high' = size + 1 /\ size' = size + 1
        /\ slots' = [i \in 0 .. size |-> IF i = size THEN b ELSE slots[i]]
    BY <1>0, <2>1 DEF Push
  <2>3. \A i \in 0 .. size : i # size => i \in 0 .. high - 1
    BY <1>0, <2>1
  <2>4. slots' \in [0 .. size -> [addr : BreakInputs \cap WordAddr, code : Word]]
    BY <2>2, <2>3 DEF TypeOK
  <2> QED BY <1>0, <2>1, <2>2, <2>4 DEF TypeOK
<1> QED BY <1>1, <1>2

\* erase() keeps the vector well typed.
LEMMA EraseType ==
  ASSUME TypeOK, NEW did \in Ids, Erase(did)
  PROVE  /\ high' = high /\ size' \in -1 .. high
         /\ slots' \in [0 .. high - 1 -> [addr : BreakInputs \cap WordAddr, code : Word]]
<1>1. /\ high' = high /\ size' = size - 1
      /\ slots' = [i \in 0 .. high - 1 |->
                     IF i \in did .. size - 2 THEN slots[i + 1] ELSE slots[i]]
  BY DEF Erase
<1>2. \A i \in 0 .. high - 1 : i \in did .. size - 2 => i + 1 \in 0 .. high - 1
  BY DEF Ids, TypeOK
<1> QED BY <1>1, <1>2 DEF Ids, TypeOK

\* The types hold at the start.
LEMMA TypeInit == ASSUME Init PROVE TypeOK
<1>1. slots \in [0 .. high - 1 -> [addr : BreakInputs \cap WordAddr, code : Word]]
  <2>1. high = 0 /\ slots = [i \in {} |-> 0]
    BY DEF Init
  <2>2. 0 .. high - 1 = {}
    BY <2>1
  <2> QED BY <2>1, <2>2
<1>2. rip \in Nat
  BY TextAssumption, ProgramAssumption DEF Init, Mapped
<1>3. mem \in [Mapped -> Byte]
  BY TextAssumption DEF Init
<1>4. /\ sdb = "prompt" /\ status = NOT_LOADED /\ entry = 0 /\ tsize = 0
      /\ lid \in -1 .. high - 1 /\ size \in -1 .. high /\ high \in Nat
      /\ tracee = "none" /\ stepped = FALSE
  BY DEF Init
<1> QED BY <1>1, <1>2, <1>3, <1>4 DEF TypeOK

\* Every step keeps the types.
LEMMA TypeStep ==
  ASSUME TypeOK, [Next]_vars
  PROVE  TypeOK'
<1>1. CASE Quiet
  BY <1>1, QuietType
<1>2. ASSUME NEW a \in BreakInputs, SetBreak(a) PROVE TypeOK'
  <2> DEFINE b == [addr |-> a, code |-> SavedCode(a)]
  <2> mem \in [Mapped -> Byte]
    BY DEF TypeOK
  <2> a \in WordAddr
    BY <1>2 DEF SetBreak
  <2>1. a \in Int /\ Peek(mem, a) \in Word
    BY TextAssumption, PeekType DEF WordAddr
  <2>2. b \in [addr : BreakInputs \cap WordAddr, code : Word]
    BY <2>1, BpsType, AlternateType DEF SavedCode
  <2>3. mem' \in [Mapped -> Byte]
    BY <1>2, <2>1, ArmType, PokeType DEF SetBreak, TypeOK
  <2>4. Push(b) /\ ~Wrapped
    BY <1>2 DEF SetBreak
  <2> HIDE DEF b
  <2>5. /\ high' \in Nat /\ size' \in -1 .. high' /\ lid \in -1 .. high' - 1
        /\ slots' \in [0 .. high' - 1 -> [addr : BreakInputs \cap WordAddr, code : Word]]
    BY <2>2, <2>4, PushType
  <2>6. UNCHANGED <<sdb, status, entry, tsize, lid, tracee, rip, stepped>>
    BY <1>2 DEF SetBreak, conf
  <2>7. lid' \in -1 .. high' - 1
    BY <2>5, <2>6
  <2> QED BY <2>3, <2>5, <2>6, <2>7 DEF TypeOK
<1>3. ASSUME NEW did \in Ids, DeleteBreak(did) PROVE TypeOK'
  <2> did \in 0 .. high - 1
    BY DEF Ids, TypeOK
  <2>1. mem' \in [Mapped -> Byte]
    BY <1>3, DeleteMemType DEF DeleteBreak
  <2>2. /\ high' = high /\ size' \in -1 .. high
        /\ slots' \in [0 .. high - 1 -> [addr : BreakInputs \cap WordAddr, code : Word]]
    BY <1>3, EraseType DEF DeleteBreak
  <2>3. UNCHANGED <<sdb, status, entry, tsize, lid, tracee, rip, stepped>>
    BY <1>3 DEF DeleteBreak, conf
  <2>4. /\ high' \in Nat /\ size' \in -1 .. high' /\ lid' \in -1 .. high' - 1
        /\ slots' \in [0 .. high' - 1 -> [addr : BreakInputs \cap WordAddr, code : Word]]
    BY <2>2, <2>3 DEF TypeOK
  <2> QED BY <2>1, <2>3, <2>4 DEF TypeOK
<1>4. CASE DeletePastEnd
  <2>1. /\ size \in 0 .. high - 1 /\ size' = size - 1 /\ mem' = DeleteMem(size)
        /\ high \in Nat
    BY <1>4 DEF DeletePastEnd, TypeOK
  <2>2. mem' \in [Mapped -> Byte]
    BY <2>1, DeleteMemType
  <2>3. UNCHANGED <<sdb, status, entry, tsize, lid, slots, high, tracee, rip, stepped>>
    BY <1>4 DEF DeletePastEnd, conf
  <2>4. /\ high' \in Nat /\ size' \in -1 .. high' /\ lid' \in -1 .. high' - 1
        /\ slots' \in [0 .. high' - 1 -> [addr : BreakInputs \cap WordAddr, code : Word]]
    BY <2>1, <2>3 DEF TypeOK
  <2> QED BY <2>2, <2>3, <2>4 DEF TypeOK
<1>5. ASSUME NEW i \in Instr, SetRip(i) PROVE TypeOK'
  <2>1. UNCHANGED <<status, entry, tsize, lid, slots, size, high, mem, stepped>>
    BY <1>5 DEF SetRip, conf, bpVars
  <2>2. i \in Nat
    BY TextAssumption, ProgramAssumption DEF Mapped
  <2>3. /\ rip' \in {rip, i} /\ sdb' \in {sdb, "gone"}
        /\ tracee' \in {tracee, "killed"}
    BY <1>5 DEF SetRip, Die
  <2> QED BY <2>1, <2>2, <2>3 DEF TypeOK
<1>6. CASE ExecOk
  <2>1. rip' \in Nat /\ mem' \in [Mapped -> Byte]
    <3>1. StartPC \in Nat /\ Orig \in [Mapped -> Byte]
      BY TextAssumption, ProgramAssumption DEF Mapped
    <3> QED BY <1>6, <3>1 DEF ExecOk
  <2>2. /\ tracee' = "stopped" /\ stepped' = FALSE
        /\ UNCHANGED <<sdb, status, entry, tsize, lid, slots, size, high>>
    BY <1>6 DEF ExecOk, conf, bpVars
  <2> QED BY <2>1, <2>2 DEF TypeOK
<1>7. CASE ExecuteInstruction \/ ExecuteInt3 \/ ExecuteGarbage
  <2>1. UNCHANGED <<sdb, status, entry, tsize, lid, slots, size, high, mem>>
    BY <1>7 DEF ExecuteInstruction, ExecuteInt3, ExecuteGarbage, conf, bpVars
  <2>2. /\ tracee' \in {"stopped", "running", "exited", "trapped"}
        /\ stepped' \in BOOLEAN
    BY <1>7 DEF ExecuteInstruction, ExecuteInt3, ExecuteGarbage, AfterInstruction
  <2>3. rip' \in Nat
    <3>1. Instr \subseteq Nat
      BY TextAssumption, ProgramAssumption DEF Mapped
    <3>2. Succ[rip] \subseteq Nat \/ rip \notin Instr
      BY <3>1, ProgramAssumption
    <3> QED
      BY <1>7, <3>2
      DEF ExecuteInstruction, ExecuteInt3, ExecuteGarbage, Intact, TypeOK
  <2> QED BY <2>1, <2>2, <2>3 DEF TypeOK
<1>8. CASE StartStopped
  <2>1. WellTyped(Bps) /\ StopMem(0) \in [Mapped -> Byte]
    BY BpsType, StopMemType
  <2>2. mem' \in [Mapped -> Byte]
    BY <1>8, <2>1, SetAllBreakType DEF StartStopped, StartMem
  <2>3. rip' \in Nat /\ lid' \in -1 .. high - 1
    BY <1>8, StopRipType, HitIdType DEF StartStopped, Ids, TypeOK
  <2>4. /\ sdb' \in {"prompt", "cont"} /\ status' = RUNNING
        /\ tracee' \in {tracee, "running"} /\ stepped' \in {stepped, FALSE}
        /\ UNCHANGED <<entry, tsize, slots, size, high>>
    BY <1>8 DEF StartStopped, Resume, bpVars
  <2> QED BY <2>2, <2>3, <2>4 DEF TypeOK
<1>9. CASE WaitStopped
  <2>1. CcByte \in {0, 1}
    BY DEF CcByte
  <2>2. mem' \in [Mapped -> Byte]
    BY <1>9, <2>1, StopMemType DEF WaitStopped
  <2>3. rip' \in Nat /\ lid' \in -1 .. high - 1
    BY <1>9, <2>1, StopRipType, HitIdType DEF WaitStopped, Ids, TypeOK
  <2>4. /\ sdb' = "prompt" /\ tracee' = "stopped"
        /\ UNCHANGED <<status, entry, tsize, slots, size, high, stepped>>
    BY <1>9 DEF WaitStopped, conf, bpVars
  <2> QED BY <2>2, <2>3, <2>4 DEF TypeOK
<1>10. CASE UNCHANGED vars
  BY <1>10 DEF vars, conf, bpVars, TypeOK
<1> QED
  BY <1>1, <1>2, <1>3, <1>4, <1>5, <1>6, <1>7, <1>8, <1>9, <1>10, NextCases

\* The types hold in every behaviour, whatever the user, the program and the
\* system do.
THEOREM TypeCorrect == Spec => []TypeOK
<1>1. Init => TypeOK
  BY TypeInit
<1>2. TypeOK /\ [Next]_vars => TypeOK'
  BY TypeStep
<1> QED BY <1>1, <1>2, PTL DEF Spec

-----------------------------------------------------------------------------
(* The list: two ids never name the same address.                          *)

\* The inductive invariant of the list: that its addresses differ is inductive
\* once the types are known.
DistinctInv == TypeOK /\ DistinctBreakpoints

\* push_back() of an address that is not listed keeps the addresses distinct.
LEMMA PushDistinct ==
  ASSUME DistinctInv, ~Wrapped, NEW b, b.addr \notin Listed, Push(b)
  PROVE  DistinctBreakpoints'
<1>1. size \in Nat /\ high \in Nat /\ size <= high
  BY DEF DistinctInv, TypeOK, Wrapped
<1> DEFINE top == IF size < high THEN high ELSE size + 1
<1>2. /\ slots' = [i \in 0 .. top - 1 |-> IF i = size THEN b ELSE slots[i]]
      /\ size' = size + 1
  BY DEF Push
<1>3. /\ 0 .. size' - 1 = (0 .. size - 1) \cup {size}
      /\ \A i \in 0 .. size - 1 : i # size /\ i \in 0 .. top - 1
      /\ size \in 0 .. top - 1
  BY <1>1, <1>2
<1> HIDE DEF top
<1>4. /\ slots'[size] = b
      /\ \A i \in 0 .. size - 1 : slots'[i] = slots[i]
  BY <1>2, <1>3
<1>5. \A i \in 0 .. size - 1 : slots[i].addr # b.addr
  BY DEF Listed, Ids
<1> QED BY <1>3, <1>4, <1>5 DEF DistinctInv, DistinctBreakpoints, Ids

\* erase() moves elements down and brings no two of them together.
LEMMA EraseDistinct ==
  ASSUME DistinctInv, NEW did \in Ids, Erase(did)
  PROVE  DistinctBreakpoints'
<1>1. size \in Nat /\ high \in Nat /\ size <= high /\ did \in 0 .. size - 1
  BY DEF DistinctInv, TypeOK, Ids
<1>2. /\ slots' = [i \in 0 .. high - 1 |->
                     IF i \in did .. size - 2 THEN slots[i + 1] ELSE slots[i]]
      /\ size' = size - 1
  BY DEF Erase
<1> DEFINE from(i) == IF i \in did .. size - 2 THEN i + 1 ELSE i
<1>3. \A i \in 0 .. size - 2 : slots'[i] = slots[from(i)] /\ from(i) \in 0 .. size - 1
  BY <1>1, <1>2
<1>4. \A i, j \in 0 .. size - 2 : from(i) = from(j) => i = j
  BY <1>1
<1>5. size' - 1 = size - 2
  BY <1>1, <1>2
<1>6. \A i, j \in 0 .. size - 1 : slots[i].addr = slots[j].addr => i = j
  BY DEF DistinctInv, DistinctBreakpoints, Ids
<1> HIDE DEF from
<1>7. \A i, j \in 0 .. size - 2 : slots'[i].addr = slots'[j].addr => i = j
  BY <1>3, <1>4, <1>6
<1> QED BY <1>5, <1>7 DEF DistinctBreakpoints, Ids

\* Every step keeps the addresses distinct.
LEMMA DistinctStep ==
  ASSUME DistinctInv, [Next]_vars
  PROVE  DistinctInv'
<1>1. TypeOK'
  BY TypeStep DEF DistinctInv
<1> SUFFICES DistinctBreakpoints'
  BY <1>1 DEF DistinctInv
<1>2. ASSUME slots' = slots, size' = size PROVE DistinctBreakpoints'
  BY <1>2 DEF DistinctInv, DistinctBreakpoints, Ids
<1>3. CASE Quiet
  BY <1>2, <1>3, QuietStep
<1>4. ASSUME NEW a \in BreakInputs, SetBreak(a) PROVE DistinctBreakpoints'
  <2> DEFINE b == [addr |-> a, code |-> SavedCode(a)]
  <2>1. Push(b) /\ b.addr \notin Listed /\ ~Wrapped
    BY <1>4 DEF SetBreak, Free
  <2> HIDE DEF b
  <2> QED BY <2>1, PushDistinct
<1>5. ASSUME NEW did \in Ids, DeleteBreak(did) PROVE DistinctBreakpoints'
  BY <1>5, EraseDistinct DEF DeleteBreak
<1>6. CASE DeletePastEnd
  <2>1. slots' = slots /\ size' = size - 1
    BY <1>6 DEF DeletePastEnd
  <2>2. size \in Int
    BY DEF DistinctInv, TypeOK
  <2>3. \A i \in 0 .. size' - 1 : i \in 0 .. size - 1
    BY <2>1, <2>2
  <2> QED BY <2>1, <2>3 DEF DistinctInv, DistinctBreakpoints, Ids
<1>7. CASE \E i \in Instr : SetRip(i)
  BY <1>2, <1>7 DEF SetRip, bpVars
<1>8. CASE ExecOk \/ ExecuteInstruction \/ ExecuteInt3 \/ ExecuteGarbage
  BY <1>2, <1>8
  DEF ExecOk, ExecuteInstruction, ExecuteInt3, ExecuteGarbage, bpVars
<1>9. CASE StartStopped \/ WaitStopped
  BY <1>2, <1>9 DEF StartStopped, WaitStopped, bpVars
<1>10. CASE UNCHANGED vars
  BY <1>2, <1>10 DEF vars, bpVars
<1> QED
  BY <1>3, <1>4, <1>5, <1>6, <1>7, <1>8, <1>9, <1>10, NextCases

\* They are distinct at the start.
LEMMA DistinctInit == ASSUME Init PROVE DistinctInv
<1>1. TypeOK /\ size = 0
  BY TypeInit DEF Init
<1>2. 0 .. size - 1 = {}
  BY <1>1
<1> QED BY <1>1, <1>2 DEF DistinctInv, DistinctBreakpoints, Ids

\* Ids are unambiguous in every behaviour, also after deletions past the end:
\* the exist test of setbreak() is enough.
THEOREM Distinct == Spec => []DistinctBreakpoints
<1>1. Init => DistinctInv
  BY DistinctInit
<1>2. DistinctInv /\ [Next]_vars => DistinctInv'
  BY DistinctStep
<1>3. DistinctInv => DistinctBreakpoints
  BY DEF DistinctInv
<1> QED BY <1>1, <1>2, <1>3, PTL DEF Spec

-----------------------------------------------------------------------------
(* The text.  Both assumptions are needed: SdbLastByte.cfg and the hazard  *)
(* of DeletePastEnd show what happens without them.                        *)

\* No two breakpoint addresses are WORD - 1 apart (alterpart, line 182), ...
NoEdgePair == \A a, b \in BreakInputs : b - a # WORD - 1

\* ... and no id past the end of the list is deleted (deletebreak, line 381).
NoPastEnd == "delete past end" \in Avoid

\* A memory that is the program except for int3s at addresses of S.
Patched(m, S) == \A x \in Mapped : m[x] # Orig[x] => m[x] = Int3 /\ x \in S

\* The inductive invariant: the memory is repaired from the saved codes.
TextInv == TypeOK /\ SavedCodesGenuine /\ TextIntact

\* The list as setbreak() builds it.
Genuine(bps) ==
  /\ WellTyped(bps)
  /\ \A b \in bps : b.addr \in BreakInputs /\ b.code = OrigWord(b.addr)

\* The list that setbreak() has built is genuine.
LEMMA BpsGenuine ==
  ASSUME TypeOK, SavedCodesGenuine
  PROVE  /\ Genuine(Bps)
         /\ Listed = {b.addr : b \in Bps}
<1>1. Ids \subseteq 0 .. high - 1
  BY DEF Ids, TypeOK
<1> QED BY <1>1, BpsType, SlotType DEF Genuine, Bps, Listed, SavedCodesGenuine

\* The addresses the user types are numbers.
LEMMA InputInt == BreakInputs \subseteq Int
<1>1. AddrMod \in Nat /\ BreakInputs \subseteq 0 .. AddrMod - 1
  BY InputAssumption
<1> QED BY <1>1

\* With genuine codes and no edge pair, a listed byte of a word is not its last
\* one, and what the code stores for it is the program's byte.
LEMMA ListedByte ==
  ASSUME NEW a \in BreakInputs, NEW bps, Genuine(bps), NEW d \in Offset, NoEdgePair,
         \E b \in bps : b.addr = a + d
  PROVE  d # WORD - 1 /\ CodeByte(bps, a + d) = Orig[a + d]
<1> DEFINE c == CHOOSE b \in bps : b.addr = a + d
<1>1. c \in bps /\ c.addr = a + d
  OBVIOUS
<1>2. c.addr \in BreakInputs /\ c.code = OrigWord(c.addr)
  BY <1>1 DEF Genuine
<1>3. 0 \in Offset /\ c.addr \in Int /\ c.addr + 0 = c.addr
  BY <1>1, TextAssumption DEF Offset, Genuine, WellTyped, WordAddr
<1>4. CodeByte(bps, a + d) = Orig[a + d]
  BY <1>1, <1>2, <1>3 DEF CodeByte, OrigWord, Peek
<1>5. a \in Int /\ d \in Int
  BY InputInt DEF Offset
<1>6. (a + d) - a = d
  BY <1>5
<1> QED BY <1>1, <1>2, <1>4, <1>6 DEF NoEdgePair

\* What alternate() makes of a saved word is the program's word except for
\* int3s at listed addresses.
LEMMA GenuineWord ==
  ASSUME NEW a \in BreakInputs, NEW bps, Genuine(bps), NEW d \in Offset, NoEdgePair
  PROVE  \A to, self \in BOOLEAN :
           LET w == Alternate(OrigWord(a), a, bps, to, self)
           IN  w[d] # Orig[a + d] =>
                 w[d] = Int3 /\ \E b \in bps : b.addr = a + d
<1>1. OrigWord(a)[d] = Orig[a + d]
  BY DEF OrigWord, Peek
<1> QED BY <1>1, ListedByte DEF Alternate, AlterPart

\* A word whose bytes are the program's or int3s keeps a memory patched.
LEMMA PokePatched ==
  ASSUME NEW m, NEW S, NEW T, NEW a \in Int, NEW w, Patched(m, S),
         \A d \in Offset : w[d] # Orig[a + d] => w[d] = Int3 /\ a + d \in T,
         \A x \in S : x - a \in Offset \/ x \in T
  PROVE  Patched(Poke(m, a, w), T)
<1> SUFFICES ASSUME NEW x \in Mapped, Poke(m, a, w)[x] # Orig[x]
             PROVE  Poke(m, a, w)[x] = Int3 /\ x \in T
  BY DEF Patched
<1>1. CASE x - a \in Offset
  <2>1. a + (x - a) = x
    BY TextAssumption DEF Mapped
  <2> QED BY <1>1, <2>1 DEF Poke
<1>2. CASE x - a \notin Offset
  BY <1>2 DEF Poke, Patched
<1> QED BY <1>1, <1>2

\* resetbreak() (also with a stale lid) keeps the memory patched, ...
LEMMA ResetPatched ==
  ASSUME TextInv, Alive, NoEdgePair
  PROVE  Patched(ResetMem, Listed)
<1> USE DEF TextInv
<1>0. Patched(mem, Listed)
  BY DEF TextIntact, Patched
<1>1. CASE lid < 0
  BY <1>0, <1>1 DEF ResetMem
<1>2. CASE ~ (lid < 0)
  <2> DEFINE b == slots[lid]
             w == Alternate(b.code, b.addr, Bps, TRUE, TRUE)
  <2>1. lid \in 0 .. high - 1
    BY <1>2 DEF TypeOK
  <2>2. b.addr \in Int /\ b.addr \in BreakInputs /\ b.code = OrigWord(b.addr)
    BY <2>1, SlotType DEF SavedCodesGenuine
  <2>3. ASSUME NEW d \in Offset, w[d] # Orig[b.addr + d]
        PROVE  w[d] = Int3 /\ b.addr + d \in Listed
    <3>1. Genuine(Bps) /\ Listed = {c.addr : c \in Bps}
      BY BpsGenuine
    <3>2. w = Alternate(OrigWord(b.addr), b.addr, Bps, TRUE, TRUE)
      BY <2>2
    <3> HIDE DEF w
    <3>3. /\ Alternate(OrigWord(b.addr), b.addr, Bps, TRUE, TRUE)[d] = Int3
          /\ \E c \in Bps : c.addr = b.addr + d
      <4>1. Alternate(OrigWord(b.addr), b.addr, Bps, TRUE, TRUE)[d] # Orig[b.addr + d]
        BY <2>3, <3>2
      <4> HIDE DEF b
      <4>2. \A to, self \in BOOLEAN :
              LET v == Alternate(OrigWord(b.addr), b.addr, Bps, to, self)
              IN  v[d] # Orig[b.addr + d] =>
                    v[d] = Int3 /\ \E c \in Bps : c.addr = b.addr + d
        BY <2>2, <3>1, GenuineWord
      <4> QED BY <4>1, <4>2
    <3> QED BY <3>1, <3>2, <3>3
  <2> HIDE DEF w
  <2>4. Patched(Poke(mem, b.addr, w), Listed)
    BY <1>0, <2>2, <2>3, PokePatched
  <2> QED BY <1>2, <2>4 DEF ResetMem, w
<1> QED BY <1>1, <1>2

\* ... and so do restoreifbreak() ...
LEMMA StopPatched ==
  ASSUME TextInv, Alive, NoEdgePair, NEW cc \in {0, 1}
  PROVE  Patched(StopMem(cc), Listed)
<1> USE DEF TextInv
<1>1. CASE HitId(cc) < 0
  BY <1>1, ResetPatched DEF StopMem
<1>2. CASE ~ (HitId(cc) < 0)
  <2> DEFINE b == slots[HitId(cc)]
             w == Alternate(b.code, b.addr, Bps, FALSE, FALSE)
  <2>1. HitId(cc) \in 0 .. high - 1
    BY <1>2, HitIdType DEF Ids, TypeOK
  <2>2. b.addr \in Int /\ b.addr \in BreakInputs /\ b.code = OrigWord(b.addr)
    BY <2>1, SlotType DEF SavedCodesGenuine
  <2>3. ASSUME NEW d \in Offset, w[d] # Orig[b.addr + d]
        PROVE  w[d] = Int3 /\ b.addr + d \in Listed
    <3>1. Genuine(Bps) /\ Listed = {c.addr : c \in Bps}
      BY BpsGenuine
    <3>2. w = Alternate(OrigWord(b.addr), b.addr, Bps, FALSE, FALSE)
      BY <2>2
    <3> HIDE DEF w
    <3>3. /\ Alternate(OrigWord(b.addr), b.addr, Bps, FALSE, FALSE)[d] = Int3
          /\ \E c \in Bps : c.addr = b.addr + d
      <4>1. Alternate(OrigWord(b.addr), b.addr, Bps, FALSE, FALSE)[d] # Orig[b.addr + d]
        BY <2>3, <3>2
      <4> HIDE DEF b
      <4>2. \A to, self \in BOOLEAN :
              LET v == Alternate(OrigWord(b.addr), b.addr, Bps, to, self)
              IN  v[d] # Orig[b.addr + d] =>
                    v[d] = Int3 /\ \E c \in Bps : c.addr = b.addr + d
        BY <2>2, <3>1, GenuineWord
      <4> QED BY <4>1, <4>2
    <3> QED BY <3>1, <3>2, <3>3
  <2> HIDE DEF w
  <2>4. Patched(Poke(ResetMem, b.addr, w), Listed)
    BY <2>2, <2>3, ResetPatched, PokePatched
  <2> QED BY <1>2, <2>4 DEF StopMem, w
<1> QED BY <1>1, <1>2

\* ... and setallbreak().
LEMMA StartPatched ==
  ASSUME TextInv, Alive, NoEdgePair
  PROVE  Patched(StartMem, Listed)
<1> USE DEF TextInv
<1>1. Patched(StopMem(0), Listed) /\ Genuine(Bps) /\ WellTyped(Bps)
  BY StopPatched, BpsGenuine, BpsType
<1> SUFFICES ASSUME NEW x \in Mapped, StartMem[x] # Orig[x]
             PROVE  StartMem[x] = Int3 /\ x \in Listed
  BY DEF Patched
<1> DEFINE writers == {b \in Bps : x - b.addr \in Offset}
           last    == CHOOSE b \in writers : \A c \in writers : c.addr <= b.addr
<1>2. CASE writers = {}
  <2>1. StartMem[x] = StopMem(0)[x]
    BY <1>2 DEF StartMem, SetAllBreak
  <2> QED BY <1>1, <2>1 DEF Patched
<1>3. CASE writers # {}
  <2>1. last \in writers
    BY <1>1, <1>3, Nearest
  <2>2. StartMem[x] = Arm(last.code)[x - last.addr]
    BY <1>3 DEF StartMem, SetAllBreak
  <2> HIDE DEF last
  <2>3. /\ last.code \in Word /\ last.code = OrigWord(last.addr)
        /\ last.addr \in Int /\ last.addr \in Listed
    BY <1>1, <2>1, BpsGenuine DEF Genuine, WellTyped, WordAddr
  <2>4. CASE x - last.addr = 0
    <3>1. x = last.addr
      BY <2>3, <2>4, TextAssumption DEF Mapped
    <3> QED BY <2>2, <2>3, <2>4, <3>1, ArmType
  <2>5. CASE x - last.addr # 0
    <3>1. last.addr + (x - last.addr) = x
      BY <2>3, TextAssumption DEF Mapped
    <3>2. StartMem[x] = OrigWord(last.addr)[x - last.addr]
      BY <2>1, <2>2, <2>3, <2>5, ArmType
    <3>3. OrigWord(last.addr)[x - last.addr] = Orig[x]
      BY <2>1, <3>1 DEF OrigWord, Peek
    <3> QED BY <3>2, <3>3
  <2> QED BY <2>4, <2>5
<1> QED BY <1>2, <1>3

\* setbreak() keeps the program's own word for the new breakpoint.
LEMMA SavedCodeGenuine ==
  ASSUME TextInv, Alive, NoEdgePair, NEW a \in BreakInputs, a \in WordAddr
  PROVE  SavedCode(a) = OrigWord(a)
<1> USE DEF TextInv
<1>1. Genuine(Bps) /\ Listed = {b.addr : b \in Bps}
  BY BpsGenuine
<1>2. ASSUME NEW d \in Offset PROVE SavedCode(a)[d] = Orig[a + d]
  <2>1. a + d \in Mapped /\ d >= 0
    BY TextAssumption DEF WordAddr, Offset, Mapped
  <2> DEFINE w == Peek(mem, a)
  <2>2. w[d] = mem[a + d]
    BY DEF Peek
  <2> HIDE DEF w
  <2>3. SavedCode(a)[d] = Alternate(w, a, Bps, FALSE, TRUE)[d]
    BY DEF SavedCode, w
  <2>4. CASE \E b \in Bps : b.addr = a + d
    <3>1. d # WORD - 1 /\ CodeByte(Bps, a + d) = Orig[a + d]
      BY <1>1, <2>4, ListedByte
    <3> QED BY <2>1, <2>3, <2>4, <3>1 DEF Alternate, AlterPart
  <2>5. CASE ~ \E b \in Bps : b.addr = a + d
    <3>1. a + d \notin Listed
      BY <1>1, <2>5
    <3>2. SavedCode(a)[d] = w[d]
      BY <2>3, <2>5 DEF Alternate
    <3> QED BY <2>1, <2>2, <3>1, <3>2 DEF TextIntact
  <2> QED BY <2>4, <2>5
<1> QED BY <1>2 DEF SavedCode, Alternate, OrigWord, Peek

\* push_back() adds one address to the list and one code to the storage.
LEMMA PushListed ==
  ASSUME TypeOK, ~Wrapped, NEW b, Push(b)
  PROVE  /\ Listed' = Listed \cup {b.addr}
         /\ \A i \in 0 .. high' - 1 : slots'[i] = b \/ (i \in 0 .. high - 1 /\ slots'[i] = slots[i])
<1>1. size \in Nat /\ high \in Nat /\ size <= high
  BY DEF TypeOK, Wrapped
<1> DEFINE top == IF size < high THEN high ELSE size + 1
<1>2. /\ slots' = [i \in 0 .. top - 1 |-> IF i = size THEN b ELSE slots[i]]
      /\ size' = size + 1 /\ high' = top
  BY DEF Push
<1>3. /\ 0 .. size' - 1 = (0 .. size - 1) \cup {size}
      /\ \A i \in 0 .. size - 1 : i # size /\ i \in 0 .. top - 1
      /\ size \in 0 .. top - 1
      /\ \A i \in 0 .. top - 1 : i # size => i \in 0 .. high - 1
  BY <1>1, <1>2
<1> HIDE DEF top
<1>4. /\ slots'[size] = b
      /\ \A i \in 0 .. size - 1 : slots'[i] = slots[i]
  BY <1>2, <1>3
<1>5. Listed' = {slots'[i].addr : i \in (0 .. size - 1) \cup {size}}
  BY <1>3 DEF Listed, Ids
<1>6. Listed' = Listed \cup {b.addr}
  BY <1>4, <1>5 DEF Listed, Ids
<1>7. ASSUME NEW i \in 0 .. high' - 1
      PROVE  slots'[i] = b \/ (i \in 0 .. high - 1 /\ slots'[i] = slots[i])
  BY <1>2, <1>3
<1> QED BY <1>6, <1>7

\* erase() loses no address but that of its element, and adds nothing to the
\* storage.
LEMMA EraseListed ==
  ASSUME TypeOK, NEW did \in Ids, Erase(did)
  PROVE  /\ \A x \in Listed : x # slots[did].addr => x \in Listed'
         /\ \A i \in 0 .. high - 1 : \E j \in 0 .. high - 1 : slots'[i] = slots[j]
<1>1. size \in Nat /\ high \in Nat /\ size <= high /\ did \in 0 .. size - 1
  BY DEF TypeOK, Ids
<1>2. /\ slots' = [i \in 0 .. high - 1 |->
                     IF i \in did .. size - 2 THEN slots[i + 1] ELSE slots[i]]
      /\ size' = size - 1
  BY DEF Erase
<1>3. ASSUME NEW x \in Listed, x # slots[did].addr PROVE x \in Listed'
  <2>1. PICK j \in 0 .. size - 1 : x = slots[j].addr
    BY DEF Listed, Ids
  <2>2. CASE j < did
    <3>1. j \in 0 .. size - 2 /\ j \notin did .. size - 2 /\ j \in 0 .. high - 1
      BY <1>1, <2>2
    <3>2. slots'[j].addr = x /\ j \in 0 .. size' - 1
      BY <1>1, <1>2, <2>1, <3>1
    <3> QED BY <3>2 DEF Listed, Ids
  <2>3. CASE did < j
    <3> DEFINE i == j - 1
    <3>1. i \in 0 .. size - 2 /\ i \in did .. size - 2 /\ i \in 0 .. high - 1 /\ i + 1 = j
      BY <1>1, <2>3
    <3>2. slots'[i].addr = x /\ i \in 0 .. size' - 1
      BY <1>1, <1>2, <2>1, <3>1
    <3> QED BY <3>2 DEF Listed, Ids
  <2> QED BY <1>1, <1>3, <2>1, <2>2, <2>3
<1>4. ASSUME NEW i \in 0 .. high - 1
      PROVE  \E j \in 0 .. high - 1 : slots'[i] = slots[j]
  <2>1. CASE i \in did .. size - 2
    <3>1. i + 1 \in 0 .. high - 1 /\ slots'[i] = slots[i + 1]
      BY <1>1, <1>2, <2>1
    <3> QED BY <3>1
  <2>2. CASE i \notin did .. size - 2
    BY <1>2, <2>2
  <2> QED BY <2>1, <2>2
<1> QED BY <1>3, <1>4

\* A quiet step makes no process.
LEMMA QuietAlive == ASSUME Quiet, Alive' PROVE Alive
BY DEF Quiet, Load, LoadUnreadable, Start, ForkFails, Cont, Si, SetBreakFails,
       DeleteFails, ListRunsOff, Quit, StartRunsOff, StartDied, StartKilled,
       WaitRunsOff, WaitKilled, WaitDied,
       WaitNoChild, ExecFails, Signal, Kill, Ended, Die, Resume,
       KilledBeforePoke, vars, Alive

\* A step that leaves the list and the memory alone.
LEMMA TextUnchanged ==
  ASSUME TextInv, slots' = slots, size' = size, high' = high, mem' = mem,
         Alive' => Alive
  PROVE  SavedCodesGenuine' /\ TextIntact'
BY DEF TextInv, SavedCodesGenuine, TextIntact, Listed, Ids, Alive

\* A step that leaves the list alone and the memory patched.
LEMMA TextRewritten ==
  ASSUME TextInv, slots' = slots, size' = size, high' = high,
         Patched(mem', Listed)
  PROVE  SavedCodesGenuine' /\ TextIntact'
<1>1. Listed' = Listed
  BY DEF Listed, Ids
<1>2. SavedCodesGenuine'
  BY DEF TextInv, SavedCodesGenuine
<1> QED BY <1>1, <1>2 DEF TextIntact, Patched

\* setbreak() keeps the codes genuine and the text intact ...
LEMMA TextSetBreak ==
  ASSUME TextInv, NoEdgePair, NEW a \in BreakInputs, SetBreak(a)
  PROVE  SavedCodesGenuine' /\ TextIntact'
<1> DEFINE b == [addr |-> a, code |-> SavedCode(a)]
<1>1. Alive /\ a \in WordAddr /\ ~Wrapped /\ Push(b)
      /\ mem' = Poke(mem, a, Arm(Peek(mem, a)))
  BY DEF SetBreak, Alive
<1>2. SavedCode(a) = OrigWord(a)
  BY <1>1, SavedCodeGenuine
<1>3. b.addr = a /\ b.code = OrigWord(b.addr)
  BY <1>2
<1>4. TypeOK /\ Patched(mem, Listed) /\ mem \in [Mapped -> Byte]
  BY <1>1 DEF TextInv, TextIntact, Patched, TypeOK
<1> HIDE DEF b
<1>5. /\ Listed' = Listed \cup {a}
      /\ \A i \in 0 .. high' - 1 :
           slots'[i] = b \/ (i \in 0 .. high - 1 /\ slots'[i] = slots[i])
  BY <1>1, <1>3, <1>4, PushListed
<1>6. SavedCodesGenuine'
  BY <1>3, <1>5 DEF TextInv, SavedCodesGenuine
<1> DEFINE w == Arm(Peek(mem, a))
<1>7. a \in Int /\ Peek(mem, a) \in Word
  BY <1>1, <1>4, InputInt, PeekType
<1>8. ASSUME NEW d \in Offset, w[d] # Orig[a + d]
      PROVE  w[d] = Int3 /\ a + d \in Listed \cup {a}
  <2>1. CASE d = 0
    BY <1>7, <2>1, ArmType
  <2>2. CASE d # 0
    <3>1. w[d] = mem[a + d]
      BY <1>7, <2>2, ArmType DEF Peek
    <3>2. a + d \in Mapped
      BY <1>1, TextAssumption DEF WordAddr, Offset, Mapped
    <3> QED BY <1>4, <1>8, <3>1, <3>2 DEF Patched
  <2> QED BY <2>1, <2>2
<1> HIDE DEF w
<1>9. Patched(Poke(mem, a, w), Listed \cup {a})
  BY <1>4, <1>7, <1>8, PokePatched
<1>10. Patched(mem', Listed')
  BY <1>1, <1>5, <1>9 DEF w
<1> QED BY <1>6, <1>10 DEF TextIntact, Patched

\* ... and so does deletebreak() ...
LEMMA TextDeleteBreak ==
  ASSUME TextInv, NoEdgePair, NEW did \in Ids, DeleteBreak(did)
  PROVE  SavedCodesGenuine' /\ TextIntact'
<1> DEFINE b == slots[did]
           w == Alternate(b.code, b.addr, Bps, TRUE, FALSE)
<1>1. Alive /\ Erase(did) /\ mem' = Poke(mem, b.addr, w)
  BY DEF DeleteBreak, DeleteMem, Alive
<1>2. TypeOK /\ SavedCodesGenuine /\ Patched(mem, Listed)
  BY <1>1 DEF TextInv, TextIntact, Patched
<1>3. did \in 0 .. high - 1 /\ high \in Nat /\ high' = high
  BY <1>1, <1>2 DEF Ids, TypeOK, Erase
<1>4. /\ \A x \in Listed : x # b.addr => x \in Listed'
      /\ \A i \in 0 .. high - 1 : \E j \in 0 .. high - 1 : slots'[i] = slots[j]
  BY <1>1, <1>2, EraseListed
<1>5. SavedCodesGenuine'
  BY <1>2, <1>3, <1>4 DEF SavedCodesGenuine
<1>6. /\ b.addr \in Int /\ b.addr \in BreakInputs /\ b.code = OrigWord(b.addr)
      /\ Genuine(Bps) /\ Listed = {c.addr : c \in Bps}
  BY <1>2, <1>3, SlotType, BpsGenuine DEF SavedCodesGenuine
<1>7. ASSUME NEW d \in Offset, w[d] # Orig[b.addr + d]
      PROVE  w[d] = Int3 /\ b.addr + d \in Listed'
  <2>1. w = Alternate(OrigWord(b.addr), b.addr, Bps, TRUE, FALSE)
    BY <1>6
  <2> HIDE DEF b, w
  <2>2. \A to, self \in BOOLEAN :
          LET v == Alternate(OrigWord(b.addr), b.addr, Bps, to, self)
          IN  v[d] # Orig[b.addr + d] =>
                v[d] = Int3 /\ \E c \in Bps : c.addr = b.addr + d
    BY <1>6, GenuineWord
  <2>3. w[d] = Int3 /\ b.addr + d \in Listed
    BY <1>6, <1>7, <2>1, <2>2
  <2>4. d # 0
    <3>1. w[0] = OrigWord(b.addr)[0]
      BY <2>1, TextAssumption DEF Alternate, Offset
    <3>2. OrigWord(b.addr)[0] = Orig[b.addr + 0]
      BY TextAssumption DEF OrigWord, Peek, Offset
    <3> QED BY <1>7, <3>1, <3>2
  <2>5. b.addr + d # b.addr
    BY <1>6, <2>4 DEF Offset
  <2> QED BY <1>4, <2>3, <2>5
<1>8. \A x \in Listed : x - b.addr \in Offset \/ x \in Listed'
  <2>1. b.addr - b.addr \in Offset
    BY <1>6, TextAssumption DEF Offset
  <2> QED BY <1>4, <2>1
<1> HIDE DEF b, w
<1>9. Patched(Poke(mem, b.addr, w), Listed')
  BY <1>2, <1>6, <1>7, <1>8, PokePatched
<1>10. Patched(mem', Listed')
  BY <1>1, <1>9
<1> QED BY <1>5, <1>10 DEF TextIntact, Patched

\* ... and every other step, if no id past the end is deleted.
LEMMA TextStep ==
  ASSUME TextInv, [Next]_vars, NoEdgePair, NoPastEnd
  PROVE  TextInv'
<1>1. TypeOK'
  BY TypeStep DEF TextInv
<1> SUFFICES SavedCodesGenuine' /\ TextIntact'
  BY <1>1 DEF TextInv
<1>2. CASE Quiet
  BY <1>2, QuietStep, QuietAlive, TextUnchanged
<1>3. ASSUME NEW a \in BreakInputs, SetBreak(a)
      PROVE  SavedCodesGenuine' /\ TextIntact'
  BY <1>3, TextSetBreak
<1>4. ASSUME NEW did \in Ids, DeleteBreak(did)
      PROVE  SavedCodesGenuine' /\ TextIntact'
  BY <1>4, TextDeleteBreak
<1>5. CASE DeletePastEnd
  BY <1>5 DEF DeletePastEnd, NoPastEnd
<1>6. ASSUME NEW i \in Instr, SetRip(i)
      PROVE  SavedCodesGenuine' /\ TextIntact'
  <2>1. UNCHANGED <<slots, size, high, mem>> /\ (Alive' => Alive)
    BY <1>6 DEF SetRip, bpVars, Die, Alive
  <2> QED BY <2>1, TextUnchanged
<1>7. CASE ExecOk
  <2>1. UNCHANGED <<slots, size, high>> /\ mem' = Orig
    BY <1>7 DEF ExecOk, bpVars
  <2>2. Patched(mem', Listed)
    BY <2>1 DEF Patched
  <2> QED BY <2>1, <2>2, TextRewritten
<1>8. CASE ExecuteInstruction \/ ExecuteInt3 \/ ExecuteGarbage
  <2>1. UNCHANGED <<slots, size, high, mem>> /\ Alive
    BY <1>8 DEF ExecuteInstruction, ExecuteInt3, ExecuteGarbage, bpVars, Alive
  <2> QED BY <2>1, TextUnchanged
<1>9. CASE StartStopped
  <2>1. UNCHANGED <<slots, size, high>> /\ Alive /\ mem' = StartMem
    BY <1>9 DEF StartStopped, bpVars, Alive
  <2>2. Patched(mem', Listed)
    BY <2>1, StartPatched
  <2> QED BY <2>1, <2>2, TextRewritten
<1>10. CASE WaitStopped
  <2>1. UNCHANGED <<slots, size, high>> /\ Alive /\ mem' = StopMem(CcByte)
    BY <1>10 DEF WaitStopped, bpVars, Alive, AtStop
  <2>2. Patched(mem', Listed)
    BY <2>1, StopPatched DEF CcByte
  <2> QED BY <2>1, <2>2, TextRewritten
<1>11. CASE UNCHANGED vars
  BY <1>11, TextUnchanged DEF vars, bpVars, Alive
<1> QED
  BY <1>2, <1>3, <1>4, <1>5, <1>6, <1>7, <1>8, <1>9, <1>10, <1>11, NextCases

\* The invariant of the text holds at the start.
LEMMA TextInit == ASSUME Init PROVE TextInv
<1>1. TypeOK
  BY TypeInit
<1>2. high = 0 /\ tracee = "none"
  BY DEF Init
<1>3. 0 .. high - 1 = {}
  BY <1>2
<1> QED BY <1>1, <1>2, <1>3 DEF TextInv, SavedCodesGenuine, TextIntact, Alive

\* For every program, every list of breakpoints and every interleaving of
\* commands, stops, signals and deaths: sdb's patches never damage the program,
\* if no two breakpoints are WORD - 1 apart and no id past the end is deleted.
THEOREM TextSafe ==
  ASSUME NoEdgePair, NoPastEnd
  PROVE  Spec => []TextIntact
<1>1. Init => TextInv
  BY TextInit
<1>2. TextInv /\ [Next]_vars => TextInv'
  BY TextStep
<1>3. TextInv => TextIntact
  BY DEF TextInv
<1> QED BY <1>1, <1>2, <1>3, PTL DEF Spec

\* The saved codes are the program's own words, under the same conditions.
THEOREM CodesSafe ==
  ASSUME NoEdgePair, NoPastEnd
  PROVE  Spec => []SavedCodesGenuine
<1>1. Init => TextInv
  BY TextInit
<1>2. TextInv /\ [Next]_vars => TextInv'
  BY TextStep
<1>3. TextInv => SavedCodesGenuine
  BY DEF TextInv
<1> QED BY <1>1, <1>2, <1>3, PTL DEF Spec
=============================================================================
