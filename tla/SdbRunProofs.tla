---------------------------- MODULE SdbRunProofs ----------------------------
(***************************************************************************)
(* What is proved about Sdb as the debugger of a running program, for      *)
(* every value of its constants: what dump shows, which breakpoints are    *)
(* armed, where rip is, that RUNNING means a process, that no breakpoint   *)
(* is run over or stops the program twice, and that the program does what  *)
(* it does without sdb.                                                    *)
(***************************************************************************)
EXTENDS SdbProofs

-----------------------------------------------------------------------------
(* What dump() and disasm() show.                                          *)

\* A listed byte that is not the last of a word is shown as 0xcc, any other
\* byte as it is in the tracee.
LEMMA ShownByte ==
  ASSUME NEW a \in WordAddr, NEW d \in 0 .. WORD - 2
  PROVE  /\ a + d \in Listed => Shown(a)[d] = Int3
         /\ a + d \notin Listed => Shown(a)[d] = mem[a + d]
         /\ a + d \in Mapped
<1>1. d \in Offset /\ d # WORD - 1 /\ d >= 0
  BY TextAssumption DEF Offset
<1>2. a + d \in Listed <=> \E b \in Bps : b.addr = a + d
  BY DEF Listed, Bps
<1> DEFINE w == Peek(mem, a)
<1>3. w[d] = mem[a + d]
  BY <1>1 DEF Peek
<1> HIDE DEF w
<1>4. Shown(a) = Alternate(w, a, Bps, TRUE, TRUE)
  BY DEF Shown, w
<1>5. a + d \in Mapped
  BY <1>1, TextAssumption DEF WordAddr, Offset, Mapped
<1>6. CASE a + d \in Listed
  BY <1>1, <1>2, <1>4, <1>5, <1>6 DEF Alternate, AlterPart
<1>7. CASE a + d \notin Listed
  BY <1>1, <1>2, <1>3, <1>4, <1>5, <1>7 DEF Alternate
<1> QED BY <1>6, <1>7

\* The display is the program with its breakpoints, armed or not, because the
\* tracee's other bytes are intact.
THEOREM ShownRight ==
  ASSUME NoEdgePair, NoPastEnd
  PROVE  Spec => []ShownText
<1>1. TextIntact => ShownText
  <2> SUFFICES ASSUME TextIntact, tracee = "stopped",
                      NEW a \in WordAddr, NEW d \in 0 .. WORD - 2
               PROVE  Shown(a)[d] = IF a + d \in Listed THEN Int3 ELSE Orig[a + d]
    BY DEF ShownText
  <2>1. a + d \in Mapped /\ Alive
    BY ShownByte DEF Alive
  <2> QED BY <2>1, ShownByte DEF TextIntact
<1> QED BY <1>1, TextSafe, PTL

-----------------------------------------------------------------------------
(* Where sdb and its tracee are.                                           *)

\* A forked child is waited for by start(), a running one by cont() or si();
\* an int3 can only stop a program under cont().  sdb takes its tracee with it,
\* but not where start() runs off the end of a list that has wrapped around,
\* which takes a deletion past the end.
ControlInv ==
  /\ tracee = "fresh" => sdb \in {"start", "runstart"}
  /\ tracee = "running" => sdb \in {"cont", "si", "gone"}
  /\ NoPastEnd => ~Wrapped
  /\ NoPastEnd /\ Alive => sdb # "gone"

\* It holds at the start,
LEMMA ControlInit == ASSUME Init PROVE ControlInv
BY DEF Init, ControlInv, Alive, Wrapped

\* size() does not wrap around without a deletion past the end (line 391),
LEMMA WrappedStep ==
  ASSUME TypeOK, NoPastEnd, ~Wrapped, [Next]_vars
  PROVE  ~Wrapped'
<1>1. size \in Nat
  BY DEF TypeOK, Wrapped
<1>2. CASE \E a \in BreakInputs : SetBreak(a)
  <2>1. size' = size + 1
    BY <1>2 DEF SetBreak, Push
  <2> QED BY <1>1, <2>1 DEF Wrapped
<1>3. ASSUME NEW did \in Ids, DeleteBreak(did) PROVE ~Wrapped'
  <2>1. size' = size - 1 /\ did \in 0 .. size - 1
    BY <1>3 DEF DeleteBreak, Erase, Ids
  <2> QED BY <1>1, <2>1 DEF Wrapped
<1>4. CASE DeletePastEnd
  BY <1>4 DEF DeletePastEnd, NoPastEnd
<1>5. CASE Quiet \/ UNCHANGED vars
  BY <1>5, QuietStep DEF vars, bpVars, Wrapped
<1>6. CASE \/ \E i \in Instr : SetRip(i)
          \/ ExecOk \/ ExecuteInstruction \/ ExecuteInt3 \/ ExecuteGarbage
          \/ StartStopped \/ WaitStopped
  BY <1>6 DEF SetRip, ExecOk, ExecuteInstruction, ExecuteInt3, ExecuteGarbage,
              StartStopped, WaitStopped, bpVars, Wrapped
<1> QED BY <1>2, <1>3, <1>4, <1>5, <1>6, NextCases

\* and every step keeps it.
LEMMA ControlStep ==
  ASSUME TypeOK, ControlInv, [Next]_vars
  PROVE  ControlInv'
<1>0. NoPastEnd => ~Wrapped'
  BY WrappedStep DEF ControlInv
<1> USE <1>0 DEF ControlInv, Alive, NoPastEnd
<1>1. CASE Load \/ LoadUnreadable \/ Start \/ ForkFails \/ Quit
  BY <1>1 DEF Load, LoadUnreadable, Start, ForkFails, Quit, Typed, Die
<1>2. CASE Cont \/ Si
  BY <1>2 DEF Cont, Si, Typed, Resume, Die
<1>3. CASE \E a \in BreakInputs : SetBreak(a) \/ SetBreakFails(a)
  BY <1>3 DEF SetBreak, SetBreakFails, Typed, Die
<1>4. CASE (\E did \in Ids : DeleteBreak(did)) \/ DeleteFails \/ DeletePastEnd \/ ListRunsOff
  BY <1>4 DEF DeleteBreak, DeleteFails, DeletePastEnd, ListRunsOff, Typed, Die
<1>5. CASE \E i \in Instr : SetRip(i)
  BY <1>5 DEF SetRip, Typed, Die
<1>6. CASE StartStopped \/ StartRunsOff \/ StartDied \/ StartKilled
  BY <1>6 DEF StartStopped, StartRunsOff, StartDied, StartKilled, KilledBeforePoke, Resume, Die
<1>7. CASE WaitStopped \/ WaitRunsOff \/ WaitKilled \/ WaitDied \/ WaitNoChild
  BY <1>7 DEF WaitStopped, WaitRunsOff, WaitKilled, WaitDied, WaitNoChild, KilledBeforePoke, Die
<1>8. CASE Run
  BY <1>8 DEF Run, ExecOk, ExecuteInstruction, ExecuteInt3, ExecuteGarbage, AfterInstruction
<1>9. CASE Interference \/ Ended \/ UNCHANGED vars
  BY <1>9 DEF Interference, ExecFails, Signal, Kill, Ended, vars
<1> QED
  BY <1>1, <1>2, <1>3, <1>4, <1>5, <1>6, <1>7, <1>8, <1>9
  DEF Next, Command, Return

-----------------------------------------------------------------------------
(* RUNNING means a process.                                                *)

\* Nobody else kills the child, and its exec does not fail.
Undisturbed == Faults \cap {"kill", "exec"} = {}

\* Then sdb sees its end in waitpid() only, where the status is put back.
LiveInv ==
  /\ sdb = "prompt" /\ status = RUNNING => tracee = "stopped"
  /\ sdb \in {"start", "runstart"} => tracee \in {"fresh", "stopped"}
  /\ sdb \in {"cont", "si"} => tracee \in {"stopped", "trapped", "running", "exited"}

\* Every step keeps it.
LEMMA LiveStep ==
  ASSUME Undisturbed, TypeOK, ControlInv, LiveInv, [Next]_vars
  PROVE  LiveInv'
<1> USE DEF LiveInv
<1>0. "kill" \notin Faults /\ "exec" \notin Faults
  BY DEF Undisturbed
<1>1. CASE Load \/ LoadUnreadable \/ Start \/ ForkFails \/ Quit
  BY <1>0, <1>1 DEF Load, LoadUnreadable, Start, ForkFails, Quit, Typed, Die, LOADED, RUNNING
<1>2. CASE Cont \/ Si
  BY <1>2 DEF Cont, Si, Typed, Resume, Die, conf
<1>3. CASE \E a \in BreakInputs : SetBreak(a) \/ SetBreakFails(a)
  BY <1>3 DEF SetBreak, SetBreakFails, Typed, Die, conf
<1>4. CASE (\E did \in Ids : DeleteBreak(did)) \/ DeleteFails \/ DeletePastEnd \/ ListRunsOff
  BY <1>4 DEF DeleteBreak, DeleteFails, DeletePastEnd, ListRunsOff, Typed, Die, conf
<1>5. CASE \E i \in Instr : SetRip(i)
  BY <1>5 DEF SetRip, Typed, Die, conf
<1>6. CASE StartStopped \/ StartRunsOff \/ StartDied \/ StartKilled
  BY <1>0, <1>6 DEF StartStopped, StartRunsOff, StartDied, StartKilled, KilledBeforePoke, Resume, Die
<1>7. CASE WaitStopped \/ WaitRunsOff \/ WaitKilled \/ WaitDied \/ WaitNoChild
  BY <1>0, <1>7
  DEF WaitStopped, WaitRunsOff, WaitKilled, WaitDied, WaitNoChild, KilledBeforePoke, Die, LOADED, RUNNING, conf
<1>8. CASE Run
  BY <1>8
  DEF Run, ExecOk, ExecuteInstruction, ExecuteInt3, ExecuteGarbage, AfterInstruction, ControlInv, conf
<1>9. CASE Interference \/ Ended \/ UNCHANGED vars
  BY <1>0, <1>9 DEF Interference, ExecFails, Signal, Kill, Ended, vars, conf, ControlInv
<1> QED
  BY <1>1, <1>2, <1>3, <1>4, <1>5, <1>6, <1>7, <1>8, <1>9
  DEF Next, Command, Return

\* RunningMeansLive holds for every program, every list of breakpoints and every
\* sequence of commands, signals that stop the program included, if nothing kills
\* the child and its exec succeeds.
THEOREM RunningLive ==
  ASSUME Undisturbed
  PROVE  Spec => []RunningMeansLive
<1>1. Init => TypeOK /\ ControlInv /\ LiveInv
  BY TypeInit, ControlInit DEF Init, LiveInv, NOT_LOADED, RUNNING
<1>2. TypeOK /\ ControlInv /\ LiveInv /\ [Next]_vars => TypeOK' /\ ControlInv' /\ LiveInv'
  BY TypeStep, ControlStep, LiveStep
<1>3. LiveInv => RunningMeansLive
  BY DEF LiveInv, RunningMeansLive
<1> QED BY <1>1, <1>2, <1>3, PTL DEF Spec

-----------------------------------------------------------------------------
(* Where rip is.                                                           *)

\* restoreifbreak() finds the breakpoint at rip - ccbyte exactly if the user
\* listed one.
LEMMA HitIdFound ==
  ASSUME TypeOK, NEW cc \in {0, 1}
  PROVE  IF rip - cc \in Listed
         THEN HitId(cc) \in Ids /\ HitId(cc) >= 0 /\ slots[HitId(cc)].addr = rip - cc
         ELSE HitId(cc) = -1
<1>1. rip - cc \in Listed <=> \E id \in Ids : slots[id].addr = rip - cc
  BY DEF Listed
<1>2. CASE rip - cc \notin Listed
  BY <1>1, <1>2 DEF HitId
<1>3. CASE rip - cc \in Listed
  <2> DEFINE S == {id \in Ids : slots[id].addr = rip - cc}
  <2>1. S \subseteq Nat /\ S # {}
    BY <1>1, <1>3 DEF Ids, TypeOK
  <2>2. \E m \in S : \A n \in S : m <= n
    BY <2>1, LeastNat
  <2>3. \E id \in Ids : /\ slots[id].addr = rip - cc
                        /\ \A j \in Ids : slots[j].addr = rip - cc => id <= j
    BY <2>2
  <2>4. HitId(cc) \in Ids /\ slots[HitId(cc)].addr = rip - cc
    BY <1>1, <1>3, <2>3 DEF HitId
  <2>5. HitId(cc) >= 0
    BY <2>4 DEF Ids
  <2> QED BY <1>3, <2>4, <2>5
<1> QED BY <1>2, <1>3

\* rip goes back to the breakpoint's address.
LEMMA StopRipValue ==
  ASSUME TypeOK, NEW cc \in {0, 1}
  PROVE  StopRip(cc) = IF rip - cc \in Listed THEN rip - cc ELSE rip
<1>1. CASE rip - cc \in Listed
  <2>1. HitId(cc) \in Ids /\ slots[HitId(cc)].addr = rip - cc
    BY <1>1, HitIdFound
  <2>2. ~ (HitId(cc) < 0)
    BY <2>1 DEF Ids, TypeOK
  <2> QED BY <1>1, <2>1, <2>2 DEF StopRip
<1>2. CASE rip - cc \notin Listed
  <2>1. HitId(cc) < 0
    <3>1. HitId(cc) = -1
      BY <1>2, HitIdFound
    <3> QED BY <3>1
  <2> QED BY <1>2, <2>1 DEF StopRip
<1> QED BY <1>1, <1>2

\* The user sets breakpoints at the start of instructions only, ...
AtInstructions == BreakInputs \subseteq Instr

\* ... and does not single step from an int3 (waitstatus, line 315).
NoStepArmed == "step armed" \in Avoid

\* The instruction the program is at.
Pc == IF tracee = "trapped" THEN rip - 1 ELSE rip

\* The inductive invariant: an int3 is met at a listed address and under
\* cont() only, so that ccbyte is right for it.
BoundaryInv ==
  /\ Alive => Pc \in Instr
  /\ tracee = "trapped" => sdb = "cont" /\ Pc \in Listed
  /\ tracee = "running" /\ sdb = "si" => ~Armed(rip)

\* The list has addresses the user typed, at which a word is mapped.
LEMMA ListedInput ==
  ASSUME TypeOK PROVE Listed \subseteq BreakInputs /\ Listed \subseteq WordAddr
BY DEF TypeOK, Listed, Ids

\* An int3 at the start of an instruction is a listed breakpoint.
LEMMA ArmedListed ==
  ASSUME TextInv, Alive, NEW i \in Instr, mem[i] = Int3
  PROVE  i \in Listed
BY ProgramAssumption DEF TextInv, TextIntact

\* Of the bytes of an instruction only the first can be a breakpoint's, so an
\* instruction whose first byte is not armed is intact.
LEMMA Unpatched ==
  ASSUME TextInv, AtInstructions, Alive, NEW i \in Instr, mem[i] # Int3
  PROVE  Intact(i)
<1> SUFFICES ASSUME NEW x \in InstrBytes(i), mem[x] # Orig[x] PROVE FALSE
  BY DEF Intact
<1>1. i \in Nat /\ LastAddr \in Nat /\ InstrLen[i] \in Nat /\ i + InstrLen[i] - 1 <= LastAddr
  BY TextAssumption, ProgramAssumption DEF Mapped
<1>2. x \in i .. i + InstrLen[i] - 1
  BY DEF InstrBytes
<1>3. x \in Mapped
  BY <1>1, <1>2 DEF Mapped
<1>4. mem[x] = Int3 /\ x \in Listed
  BY <1>3 DEF TextInv, TextIntact
<1>5. x \in Instr
  BY <1>4, ListedInput DEF AtInstructions, TextInv
<1>6. x # i
  BY <1>4
<1>7. x \in i + 1 .. i + InstrLen[i] - 1
  BY <1>1, <1>2, <1>6
<1> QED BY <1>5, <1>7, ProgramAssumption

\* The processor never meets bytes that are not the program's own.
LEMMA NoGarbage ==
  ASSUME TextInv, AtInstructions, BoundaryInv
  PROVE  ~ExecuteGarbage
<1> SUFFICES ASSUME tracee = "running", ~Intact(rip), ~Armed(rip) PROVE FALSE
  BY DEF ExecuteGarbage
<1>1. Alive /\ rip \in Instr
  BY DEF BoundaryInv, Alive, Pc
<1>2. mem[rip] # Int3
  BY <1>1, ProgramAssumption DEF Armed
<1> QED BY <1>1, <1>2, Unpatched

\* No command leaves the program off its instructions, and none resumes it
\* under si() from an int3 ...
LEMMA BoundaryCommand ==
  ASSUME TextInv, ControlInv, BoundaryInv, NoStepArmed, NoPastEnd, Command
  PROVE  BoundaryInv'
<1> USE DEF BoundaryInv, ControlInv, Alive, Pc
<1>1. CASE Load \/ LoadUnreadable \/ Start \/ ForkFails \/ Quit
  BY <1>1 DEF Load, LoadUnreadable, Start, ForkFails, Quit, Typed, Die
<1>2. CASE Cont \/ Si
  <2>1. sdb = "prompt" /\ UNCHANGED <<mem, rip>> /\ tracee # "trapped" /\ tracee # "running"
    BY <1>2 DEF Cont, Si, Typed
  <2>2. CASE Cont
    BY <2>1, <2>2 DEF Cont, Resume
  <2>3. CASE Si
    <3>1. ~Armed(rip) /\ ~Armed(rip)'
      BY <2>1, <2>3 DEF Si, NoStepArmed, Armed
    <3>2. tracee' # "trapped" /\ (Alive' => Alive)
      BY <2>1, <2>3 DEF Si, Resume, Die
    <3> QED BY <2>1, <3>1, <3>2
  <2> QED BY <1>2, <2>2, <2>3
<1>3. CASE \E a \in BreakInputs : SetBreak(a) \/ SetBreakFails(a)
  BY <1>3 DEF SetBreak, SetBreakFails, Typed, Die
<1>4. CASE (\E did \in Ids : DeleteBreak(did)) \/ DeleteFails \/ DeletePastEnd \/ ListRunsOff
  BY <1>4 DEF DeleteBreak, DeleteFails, DeletePastEnd, ListRunsOff, NoPastEnd, Typed, Die
<1>5. CASE \E i \in Instr : SetRip(i)
  BY <1>5 DEF SetRip, Typed, Die
<1> QED BY <1>1, <1>2, <1>3, <1>4, <1>5 DEF Command

\* ... and waitstatus() puts rip back to the instruction an int3 replaced, or
\* leaves it at the one before which the program stopped.
LEMMA BoundaryReturn ==
  ASSUME TextInv, ControlInv, BoundaryInv, AtInstructions, Return
  PROVE  BoundaryInv'
<1>0. TypeOK
  BY DEF TextInv
<1>1. CASE \/ StartRunsOff \/ StartDied \/ StartKilled
          \/ WaitRunsOff \/ WaitKilled \/ WaitDied \/ WaitNoChild
  BY <1>1 DEF StartRunsOff, StartDied, StartKilled, WaitRunsOff, WaitKilled, WaitDied, WaitNoChild,
              KilledBeforePoke, Die, BoundaryInv, ControlInv, Alive, Pc
<1>2. CASE StartStopped
  <2>1. rip \in Instr /\ rip \in Nat
    BY <1>0, <1>2 DEF StartStopped, BoundaryInv, Alive, Pc, TypeOK
  <2>2. rip' = rip
    BY <1>0, <1>2, <2>1, StopRipValue DEF StartStopped
  <2>3. tracee' \in {"stopped", "running"} /\ sdb' \in {"prompt", "cont"}
    BY <1>2 DEF StartStopped, Resume
  <2> QED BY <2>1, <2>2, <2>3 DEF BoundaryInv, Pc
<1>3. CASE WaitStopped
  <2>1. CcByte \in {0, 1} /\ rip \in Nat
    BY <1>0 DEF CcByte, TypeOK
  <2>2. rip' = IF rip - CcByte \in Listed THEN rip - CcByte ELSE rip
    BY <1>0, <1>3, <2>1, StopRipValue DEF WaitStopped
  <2>3. tracee' = "stopped"
    BY <1>3 DEF WaitStopped
  <2>4. Listed \subseteq Instr
    BY <1>0, ListedInput DEF AtInstructions
  <2>5. CASE tracee = "trapped"
    <3>1. rip' = rip - 1
      BY <2>2, <2>5 DEF BoundaryInv, Pc, CcByte
    <3> QED BY <2>3, <2>5, <3>1 DEF BoundaryInv, Alive, Pc
  <2>6. CASE tracee = "stopped"
    <3>1. rip \in Instr
      BY <2>6 DEF BoundaryInv, Alive, Pc
    <3> QED BY <2>2, <2>3, <2>4, <3>1 DEF BoundaryInv, Pc
  <2> QED BY <1>3, <2>5, <2>6 DEF WaitStopped, AtStop
<1> QED BY <1>1, <1>2, <1>3 DEF Return

\* The program itself goes from instruction to instruction, or into an int3
\* in the place of one.
LEMMA BoundaryRun ==
  ASSUME TextInv, ControlInv, BoundaryInv, AtInstructions, NoPastEnd, Run \/ Interference
  PROVE  BoundaryInv'
<1>1. CASE ExecOk
  BY <1>1, ProgramAssumption DEF ExecOk, BoundaryInv, Alive, Pc
<1>2. CASE ExecuteInstruction
  <2>1. tracee = "running" /\ rip \in Instr
    BY <1>2 DEF ExecuteInstruction, Intact
  <2>2. sdb \in {"cont", "si", "gone"} /\ sdb' = sdb
    BY <1>2, <2>1 DEF ExecuteInstruction, ControlInv
  <2>3. CASE tracee' = "exited"
    BY <2>3 DEF BoundaryInv, Alive
  <2>4. CASE rip' \in Succ[rip] /\ tracee' = AfterInstruction
    <3>1. rip' \in Instr
      BY <2>1, <2>4, ProgramAssumption
    <3>2. tracee' = IF sdb = "si" THEN "stopped" ELSE "running"
      BY <2>4 DEF AfterInstruction
    <3> QED BY <2>2, <3>1, <3>2 DEF BoundaryInv, Pc
  <2> QED BY <1>2, <2>3, <2>4 DEF ExecuteInstruction
<1>3. CASE ExecuteInt3
  <2>1. tracee = "running" /\ rip \in Instr /\ mem[rip] = Int3 /\ Alive
    BY <1>3 DEF ExecuteInt3, BoundaryInv, Armed, Alive, Pc
  <2>2. sdb = "cont" /\ sdb' = sdb
    BY <1>3, <2>1 DEF ExecuteInt3, ControlInv, BoundaryInv
  <2>3. rip \in Listed /\ rip \in Nat
    BY <2>1, ArmedListed DEF TextInv, TypeOK
  <2>4. rip' - 1 = rip /\ tracee' = "trapped" /\ Listed' = Listed
    BY <1>3, <2>3 DEF ExecuteInt3, bpVars, Listed, Ids
  <2> QED BY <2>1, <2>2, <2>3, <2>4 DEF BoundaryInv, Pc
<1>4. CASE ExecuteGarbage
  BY <1>4, NoGarbage
<1>5. CASE ExecFails \/ Signal \/ Kill
  BY <1>5 DEF ExecFails, Signal, Kill, BoundaryInv, Alive, Pc
<1> QED BY <1>1, <1>2, <1>3, <1>4, <1>5 DEF Run, Interference

\* Every step keeps the program on its instructions.
LEMMA BoundaryStep ==
  ASSUME TextInv, ControlInv, BoundaryInv, AtInstructions, NoStepArmed, NoPastEnd, [Next]_vars
  PROVE  BoundaryInv'
<1>1. CASE Ended \/ UNCHANGED vars
  <2>1. UNCHANGED <<sdb, tracee, rip, mem, slots, size>>
    BY <1>1 DEF Ended, vars, bpVars
  <2> QED BY <2>1 DEF BoundaryInv, Alive, Pc, Listed, Ids, Armed
<1> QED
  BY <1>1, BoundaryCommand, BoundaryReturn, BoundaryRun DEF Next

\* What the proofs about a running program start from.
RunInv == TextInv /\ ControlInv /\ BoundaryInv

\* The user who stays clear of the four hazards of the text.
Careful == NoEdgePair /\ NoPastEnd /\ AtInstructions /\ NoStepArmed

\* The combined invariant holds at the start ...
LEMMA RunInit == ASSUME Init PROVE RunInv
<1>1. BoundaryInv
  BY DEF Init, BoundaryInv, Alive
<1> QED BY <1>1, TextInit, ControlInit DEF RunInv

\* ... and every step keeps it.
LEMMA RunStep ==
  ASSUME Careful, RunInv, [Next]_vars
  PROVE  RunInv'
<1>1. TypeOK
  BY DEF RunInv, TextInv
<1> QED BY <1>1, TextStep, ControlStep, BoundaryStep DEF RunInv, Careful

\* rip is never inside an instruction at a prompt: with any breakpoints at
\* instructions, any signals and deaths, and rip set by hand to an instruction.
THEOREM OnInstructions ==
  ASSUME Careful
  PROVE  Spec => []OnBoundary
<1>1. Init => RunInv
  BY RunInit
<1>2. RunInv /\ [Next]_vars => RunInv'
  BY RunStep
<1>3. RunInv => OnBoundary
  BY DEF RunInv, BoundaryInv, OnBoundary, Alive, Pc
<1> QED BY <1>1, <1>2, <1>3, PTL DEF Spec

\* The processor never comes to bytes that are not the program's own: neither a
\* patch nor a stop makes it fault or execute half an instruction.
THEOREM OwnInstructions ==
  ASSUME Careful
  PROVE  Spec => [][~ExecuteGarbage]_vars
<1>1. Init => RunInv
  BY RunInit
<1>2. RunInv /\ [Next]_vars => RunInv'
  BY RunStep
<1>3. RunInv /\ [Next]_vars => [~ExecuteGarbage]_vars
  BY NoGarbage DEF RunInv, Careful
<1> QED BY <1>1, <1>2, <1>3, PTL DEF Spec

-----------------------------------------------------------------------------
(* The program does what it does without a debugger.                       *)

\* No signal stops the program, and rip is not set by hand.
Untouched == "signal" \notin Faults /\ "set rip" \notin Commands

\* Then under cont() the program stops at an int3 only, and ccbyte is right
\* for every stop.
StopInv == tracee = "stopped" => sdb # "cont"

\* Every step keeps it.
LEMMA StopStep ==
  ASSUME Careful, Untouched, RunInv, StopInv, [Next]_vars
  PROVE  StopInv'
<1> USE DEF StopInv
<1>1. CASE Load \/ LoadUnreadable \/ Start \/ ForkFails \/ Quit
  BY <1>1 DEF Load, LoadUnreadable, Start, ForkFails, Quit, Typed, Die
<1>2. CASE Cont \/ Si
  BY <1>2 DEF Cont, Si, Typed, Resume, Die
<1>3. CASE \E a \in BreakInputs : SetBreak(a) \/ SetBreakFails(a)
  BY <1>3 DEF SetBreak, SetBreakFails, Typed, Die
<1>4. CASE (\E did \in Ids : DeleteBreak(did)) \/ DeleteFails \/ DeletePastEnd \/ ListRunsOff
  BY <1>4 DEF DeleteBreak, DeleteFails, DeletePastEnd, ListRunsOff, Typed, Die
<1>5. CASE \E i \in Instr : SetRip(i)
  BY <1>5 DEF SetRip, Typed, Untouched
<1>6. CASE StartStopped \/ StartRunsOff \/ StartDied \/ StartKilled
  BY <1>6 DEF StartStopped, StartRunsOff, StartDied, StartKilled, KilledBeforePoke, Resume, Die
<1>7. CASE WaitStopped \/ WaitRunsOff \/ WaitKilled \/ WaitDied \/ WaitNoChild
  BY <1>7 DEF WaitStopped, WaitRunsOff, WaitKilled, WaitDied, WaitNoChild, KilledBeforePoke, Die
<1>8. CASE Run
  <2>1. ~ExecuteGarbage
    BY NoGarbage DEF RunInv, Careful
  <2>2. CASE ExecOk
    BY <2>2 DEF ExecOk, RunInv, ControlInv
  <2>3. CASE ExecuteInstruction \/ ExecuteInt3
    BY <2>3 DEF ExecuteInstruction, ExecuteInt3, AfterInstruction
  <2> QED BY <1>8, <2>1, <2>2, <2>3 DEF Run
<1>9. CASE Interference \/ Ended \/ UNCHANGED vars
  BY <1>9 DEF Interference, ExecFails, Signal, Kill, Ended, vars, Untouched
<1> QED
  BY <1>1, <1>2, <1>3, <1>4, <1>5, <1>6, <1>7, <1>8, <1>9
  DEF Next, Command, Return

\* A stop does not move the program.
LEMMA StopPc ==
  ASSUME RunInv, StopInv, StartStopped \/ WaitStopped
  PROVE  Pc' = Pc
<1>1. TypeOK /\ BoundaryInv /\ rip \in Nat
  BY DEF RunInv, TextInv, TypeOK
<1>2. CASE StartStopped
  <2>1. rip' = rip
    BY <1>1, <1>2, StopRipValue DEF StartStopped
  <2> QED BY <1>2, <2>1 DEF StartStopped, Resume, Pc
<1>3. CASE WaitStopped
  <2>1. CASE tracee = "trapped"
    <3>1. CcByte = 1 /\ rip - 1 \in Listed
      BY <1>1, <2>1 DEF CcByte, BoundaryInv, Pc
    <3>2. rip' = rip - 1
      BY <1>1, <1>3, <3>1, StopRipValue DEF WaitStopped
    <3> QED BY <1>3, <2>1, <3>2 DEF WaitStopped, Pc
  <2>2. CASE tracee = "stopped"
    <3>1. CcByte = 0
      BY <2>2 DEF CcByte, StopInv
    <3>2. rip' = rip
      BY <1>1, <1>3, <3>1, StopRipValue DEF WaitStopped
    <3> QED BY <1>3, <2>2, <3>2 DEF WaitStopped, Pc
  <2> QED BY <1>3, <2>1, <2>2 DEF WaitStopped, AtStop
<1> QED BY <1>2, <1>3

\* A step that ends the program is one of Undebugged, whatever ended it.
LEMMA KilledStep ==
  ASSUME Alive, ~Alive'
  PROVE  Program!Killed
BY DEF Program!Killed

\* Every step maps to a step of Undebugged or a stutter.
LEMMA ProgramStep ==
  ASSUME Careful, Untouched, RunInv, StopInv, [Next]_vars
  PROVE  [Program!PNext]_(Program!pvars)
<1> DEFINE Same == Alive' = Alive /\ (Alive => Pc' = Pc)
           Ends == Alive /\ ~Alive'
<1>1. TypeOK /\ ControlInv /\ BoundaryInv
  BY DEF RunInv, TextInv
<1>2. Same => UNCHANGED Program!pvars
  BY DEF Program!pvars, Pc
<1>3. Ends => Program!PNext
  BY KilledStep DEF Program!PNext
<1>4. CASE Command
  <2> SUFFICES Same \/ Ends
    BY <1>2, <1>3
  <2>1. CASE Load \/ LoadUnreadable \/ Start \/ ForkFails \/ Quit
    BY <2>1 DEF Load, LoadUnreadable, Start, ForkFails, Quit, Die, Alive, Pc
  <2>2. CASE Cont \/ Si
    <3>1. CASE Cont
      BY <3>1 DEF Cont, Resume, Alive, Pc
    <3>2. CASE Si
      <4>1. rip' = rip
        BY <3>2 DEF Si
      <4>2. CASE tracee = "stopped"
        BY <3>2, <4>1, <4>2 DEF Si, Resume, Alive, Pc
      <4>3. CASE tracee # "stopped"
        BY <3>2, <4>1, <4>3 DEF Si, Die, Alive, Pc
      <4> QED BY <4>2, <4>3
    <3> QED BY <2>2, <3>1, <3>2
  <2>3. CASE \E a \in BreakInputs : SetBreak(a) \/ SetBreakFails(a)
    BY <2>3 DEF SetBreak, SetBreakFails, Die, Alive, Pc
  <2>4. CASE (\E did \in Ids : DeleteBreak(did)) \/ DeleteFails \/ DeletePastEnd \/ ListRunsOff
    BY <2>4 DEF DeleteBreak, DeleteFails, DeletePastEnd, ListRunsOff, Die, Alive, Pc
  <2>5. CASE \E i \in Instr : SetRip(i)
    BY <2>5 DEF SetRip, Typed, Untouched
  <2> QED BY <1>4, <2>1, <2>2, <2>3, <2>4, <2>5 DEF Command
<1>5. CASE Return
  <2> SUFFICES Same \/ Ends
    BY <1>2, <1>3
  <2>1. CASE \/ StartRunsOff \/ StartDied \/ StartKilled
            \/ WaitRunsOff \/ WaitKilled \/ WaitDied \/ WaitNoChild
    BY <2>1 DEF StartRunsOff, StartDied, StartKilled, WaitRunsOff, WaitKilled, WaitDied, WaitNoChild,
                KilledBeforePoke, Die, Alive, Pc
  <2>2. CASE StartStopped \/ WaitStopped
    <3>1. Alive /\ Alive'
      BY <2>2 DEF StartStopped, WaitStopped, Resume, AtStop, Alive
    <3> QED BY <2>2, <3>1, StopPc
  <2> QED BY <1>5, <2>1, <2>2 DEF Return
<1>6. CASE Run
  <2>1. CASE ExecOk
    <3>1. Program!Begin
      BY <2>1 DEF ExecOk, Program!Begin, Alive
    <3> QED BY <3>1 DEF Program!PNext
  <2>2. CASE ExecuteInstruction /\ tracee' = "exited"
    <3>1. Ends
      BY <2>2 DEF ExecuteInstruction, Alive
    <3> QED BY <1>3, <3>1
  <2>3. CASE ExecuteInstruction /\ tracee' # "exited"
    <3>1. Alive /\ Alive' /\ Pc = rip /\ Pc' = rip' /\ rip' \in Succ[rip]
      BY <2>3 DEF ExecuteInstruction, AfterInstruction, Alive, Pc
    <3>2. Program!Execute
      BY <3>1 DEF Program!Execute, Pc
    <3> QED BY <3>2 DEF Program!PNext
  <2>4. CASE ExecuteInt3
    <3>1. Same
      BY <1>1, <2>4 DEF ExecuteInt3, Alive, Pc, TypeOK
    <3> QED BY <1>2, <3>1
  <2>5. ~ExecuteGarbage
    BY NoGarbage DEF RunInv, Careful
  <2> QED BY <1>6, <2>1, <2>2, <2>3, <2>4, <2>5 DEF Run
<1>7. CASE Interference
  <2>1. Same \/ Ends
    <3>1. CASE ExecFails
      BY <3>1 DEF ExecFails, Alive, Pc
    <3>2. CASE Kill
      BY <3>2 DEF Kill, Alive, Pc
    <3> QED BY <1>7, <3>1, <3>2 DEF Interference, Signal, Untouched
  <2> QED BY <1>2, <1>3, <2>1
<1>8. CASE Ended \/ UNCHANGED vars
  <2>1. Same
    BY <1>8 DEF Ended, vars, Alive, Pc
  <2> QED BY <1>2, <2>1
<1> QED BY <1>4, <1>5, <1>6, <1>7, <1>8 DEF Next

\* Sdb implements Undebugged: whatever breakpoints are set and deleted, however
\* often the program is continued and stepped, started again or killed, it takes
\* the steps it takes without sdb, in that order.
THEOREM Implements ==
  ASSUME Careful, Untouched
  PROVE  Spec => Transparent
<1>1. Init => RunInv /\ StopInv /\ Program!PInit
  <2>1. Init => StopInv /\ Program!PInit
    BY DEF Init, StopInv, Program!PInit, Alive
  <2> QED BY <2>1, RunInit
<1>2. RunInv /\ StopInv /\ [Next]_vars => RunInv' /\ StopInv'
  BY RunStep, StopStep
<1>3. RunInv /\ StopInv /\ [Next]_vars => [Program!PNext]_(Program!pvars)
  BY ProgramStep
<1> QED BY <1>1, <1>2, <1>3, PTL DEF Spec, Transparent, Program!PSpec

-----------------------------------------------------------------------------
(* Which breakpoints are armed.                                            *)

\* What Poke() leaves at an address.
LEMMA PokeByte ==
  ASSUME NEW m, NEW a \in Int, NEW w, NEW x \in Mapped
  PROVE  Poke(m, a, w)[x] = IF x - a \in Offset THEN w[x - a] ELSE m[x]
BY DEF Poke

\* alternate(to_0xcc) leaves 0xcc at every listed address of the word, but at
\* its own if include_self is false.
LEMMA AlternateArms ==
  ASSUME NEW a \in BreakInputs, NEW w, NEW bps, Genuine(bps), NoEdgePair,
         NEW self \in BOOLEAN, NEW d \in Offset, self \/ d # 0,
         \E b \in bps : b.addr = a + d
  PROVE  Alternate(w, a, bps, TRUE, self)[d] = Int3
<1>1. d # WORD - 1
  BY ListedByte
<1>2. d >= (IF self THEN 0 ELSE 1)
  BY DEF Offset
<1> QED BY <1>1, <1>2 DEF Alternate, AlterPart

\* In the memory m every listed breakpoint is armed, but for those in the word
\* of breakpoint id.
ArmedBut(m, id) ==
  \A a \in Listed : m[a] = Int3 \/ (id \in Ids /\ a - slots[id].addr \in Offset)

\* The user does not delete an id below lid (erase, line 396).
NoDeleteBelow == "delete below" \in Avoid

\* The inductive invariant: it holds while the program runs, too.
WindowInv == Alive /\ sdb \notin {"start", "runstart"} => ArmedBut(mem, lid)

\* resetbreak() arms what is listed in its word, even if lid no longer names
\* the breakpoint disarmed last, and leaves the other words alone.
LEMMA ResetByte ==
  ASSUME TextInv, NoEdgePair, NEW a \in Listed
  PROVE  \/ ResetMem[a] = Int3
         \/ ResetMem[a] = mem[a] /\ ~ (lid >= 0 /\ a - slots[lid].addr \in Offset)
<1>0. TypeOK /\ SavedCodesGenuine
  BY DEF TextInv
<1>1. CASE lid < 0
  BY <1>0, <1>1 DEF ResetMem, TypeOK
<1>2. CASE ~ (lid < 0)
  <2>1. lid \in 0 .. high - 1
    BY <1>0, <1>2 DEF TypeOK
  <2> DEFINE b == slots[lid]
             w == Alternate(b.code, b.addr, Bps, TRUE, TRUE)
  <2>2. b.addr \in Int /\ b.addr \in BreakInputs
    BY <1>0, <2>1, SlotType
  <2>3. Genuine(Bps) /\ Listed = {c.addr : c \in Bps}
    BY <1>0, BpsGenuine
  <2>4. a \in Mapped /\ a \in Int
    BY <1>0, ListedInput, TextAssumption DEF WordAddr, Mapped
  <2>5. ResetMem = Poke(mem, b.addr, w)
    BY <1>2 DEF ResetMem
  <2>6. CASE a - b.addr \in Offset
    <3> DEFINE d == a - b.addr
    <3>1. b.addr + d = a
      BY <2>2, <2>4
    <3>2. \E c \in Bps : c.addr = b.addr + d
      BY <2>3, <3>1
    <3> HIDE DEF b, d
    <3>3. w[d] = Int3
      BY <2>2, <2>3, <2>6, <3>2, AlternateArms DEF d
    <3> HIDE DEF w
    <3>4. Poke(mem, b.addr, w)[a] = w[a - b.addr]
      BY <2>2, <2>4, <2>6, PokeByte
    <3> QED BY <2>5, <3>3, <3>4 DEF d
  <2>7. CASE a - b.addr \notin Offset
    <3>1. ResetMem[a] = mem[a]
      BY <2>2, <2>4, <2>5, <2>7, PokeByte
    <3> QED BY <2>7, <3>1
  <2> QED BY <2>6, <2>7
<1> QED BY <1>1, <1>2

\* So it arms all that the last restoreifbreak() had disarmed.
LEMMA ResetArms ==
  ASSUME TextInv, NoEdgePair, ArmedBut(mem, lid)
  PROVE  \A a \in Listed : ResetMem[a] = Int3
<1>1. lid \in Ids => lid >= 0
  BY DEF Ids
<1> QED BY <1>1, ResetByte DEF ArmedBut

\* restoreifbreak() disarms what lies in the word of the breakpoint it finds,
\* and nothing else.
LEMMA StopByte ==
  ASSUME TypeOK, NEW cc \in {0, 1}, NEW a \in Listed
  PROVE  \/ StopMem(cc)[a] = ResetMem[a]
         \/ HitId(cc) \in Ids /\ a - slots[HitId(cc)].addr \in Offset
<1>1. CASE HitId(cc) < 0
  BY <1>1 DEF StopMem
<1>2. CASE ~ (HitId(cc) < 0)
  <2> DEFINE h == HitId(cc)
  <2>1. h \in Ids /\ h \in 0 .. high - 1
    BY <1>2, HitIdType DEF Ids, TypeOK
  <2> DEFINE b == slots[h]
             w == Alternate(b.code, b.addr, Bps, FALSE, FALSE)
  <2>2. StopMem(cc) = Poke(ResetMem, b.addr, w)
    BY <1>2 DEF StopMem
  <2>3. b.addr \in Int /\ a \in Mapped
    BY <2>1, SlotType, ListedInput, TextAssumption DEF WordAddr, Mapped
  <2>4. a - b.addr \in Offset \/ StopMem(cc)[a] = ResetMem[a]
    <3> HIDE DEF w, b
    <3> QED BY <2>2, <2>3, PokeByte
  <2> QED BY <2>1, <2>4
<1> QED BY <1>1, <1>2

\* So what is disarmed after a stop is what lid, set to that breakpoint, covers.
LEMMA StopArms ==
  ASSUME TextInv, NoEdgePair, ArmedBut(mem, lid), NEW cc \in {0, 1}
  PROVE  ArmedBut(StopMem(cc), HitId(cc))
<1>1. TypeOK
  BY DEF TextInv
<1> QED BY <1>1, ResetArms, StopByte DEF ArmedBut

\* setallbreak() arms every listed breakpoint: none of its writes undoes one
\* below.
LEMMA StartArms ==
  ASSUME TypeOK
  PROVE  \A a \in Listed : StartMem[a] = Int3
<1> SUFFICES ASSUME NEW a \in Listed PROVE StartMem[a] = Int3
  OBVIOUS
<1>1. WellTyped(Bps)
  BY BpsType
<1>2. PICK s \in Bps : s.addr = a
  BY DEF Listed, Bps
<1>3. a \in Mapped /\ a \in Int /\ a - a = 0 /\ 0 \in Offset
  BY ListedInput, TextAssumption DEF WordAddr, Mapped, Offset
<1> DEFINE writers == {b \in Bps : a - b.addr \in Offset}
           last    == CHOOSE b \in writers : \A c \in writers : c.addr <= b.addr
<1>4. s \in writers
  BY <1>2, <1>3
<1>5. last \in writers /\ \A c \in writers : c.addr <= last.addr
  BY <1>1, <1>3, <1>4, Nearest
<1>6. StartMem[a] = Arm(last.code)[a - last.addr]
  BY <1>3, <1>4 DEF StartMem, SetAllBreak
<1> HIDE DEF last
<1>7. last.addr \in Int /\ last.code \in Word /\ a <= last.addr /\ a - last.addr \in Offset
  BY <1>1, <1>2, <1>4, <1>5 DEF WellTyped, WordAddr
<1>8. a - last.addr = 0
  BY <1>3, <1>7 DEF Offset
<1> QED BY <1>6, <1>7, <1>8, ArmType

\* erase() takes its element's address off the list, adds none, and leaves the
\* elements below it where they are.
LEMMA EraseRest ==
  ASSUME DistinctInv, NEW did \in Ids, Erase(did)
  PROVE  /\ \A a \in Listed' : a \in Listed /\ a # slots[did].addr
         /\ \A i \in Ids : i < did => i \in Ids' /\ slots'[i] = slots[i]
<1>1. size \in Nat /\ high \in Nat /\ size <= high /\ did \in 0 .. size - 1
  BY DEF DistinctInv, TypeOK, Ids
<1>2. /\ slots' = [i \in 0 .. high - 1 |->
                     IF i \in did .. size - 2 THEN slots[i + 1] ELSE slots[i]]
      /\ size' = size - 1
  BY DEF Erase
<1>3. ASSUME NEW a \in Listed' PROVE a \in Listed /\ a # slots[did].addr
  <2>1. PICK i \in 0 .. size - 2 : a = slots'[i].addr
    BY <1>1, <1>2 DEF Listed, Ids
  <2> DEFINE j == IF i \in did .. size - 2 THEN i + 1 ELSE i
  <2>2. j \in 0 .. size - 1 /\ j # did /\ slots'[i] = slots[j]
    BY <1>1, <1>2, <2>1
  <2> HIDE DEF j
  <2>3. slots[j].addr # slots[did].addr
    BY <1>1, <2>2 DEF DistinctInv, DistinctBreakpoints, Ids
  <2> QED BY <2>1, <2>2, <2>3 DEF Listed, Ids
<1>4. ASSUME NEW i \in Ids, i < did PROVE i \in Ids' /\ slots'[i] = slots[i]
  BY <1>1, <1>2, <1>4 DEF Ids
<1> QED BY <1>3, <1>4

\* deletebreak() arms all others in its element's word.
LEMMA DeleteByte ==
  ASSUME TextInv, DistinctInv, NoEdgePair, NEW did \in Ids,
         mem' = DeleteMem(did), Erase(did), NEW a \in Listed'
  PROVE  /\ a \in Listed
         /\ mem'[a] = Int3 \/ (mem'[a] = mem[a] /\ a - slots[did].addr \notin Offset)
<1>0. TypeOK /\ SavedCodesGenuine
  BY DEF TextInv
<1> DEFINE b == slots[did]
           w == Alternate(b.code, b.addr, Bps, TRUE, FALSE)
<1>1. did \in 0 .. high - 1
  BY <1>0 DEF Ids, TypeOK
<1>2. b.addr \in Int /\ b.addr \in BreakInputs
  BY <1>0, <1>1, SlotType
<1>3. a \in Listed /\ a # b.addr
  BY EraseRest
<1>4. a \in Mapped /\ a \in Int
  BY <1>0, <1>3, ListedInput, TextAssumption DEF WordAddr, Mapped
<1>5. mem' = Poke(mem, b.addr, w)
  BY DEF DeleteMem
<1>6. CASE a - b.addr \in Offset
  <2> DEFINE d == a - b.addr
  <2>1. b.addr + d = a /\ d # 0
    BY <1>2, <1>3, <1>4
  <2>2. Genuine(Bps) /\ Listed = {c.addr : c \in Bps}
    BY <1>0, BpsGenuine
  <2>3. \E c \in Bps : c.addr = b.addr + d
    BY <1>3, <2>1, <2>2
  <2>4. Poke(mem, b.addr, w)[a] = w[a - b.addr]
    <3> HIDE DEF w, b, d
    <3> QED BY <1>2, <1>4, <1>6, PokeByte
  <2>5. w[d] = Int3
    <3> HIDE DEF b, d
    <3>1. d \in Offset
      BY <1>6 DEF d
    <3> QED BY <1>2, <2>1, <2>2, <2>3, <3>1, AlternateArms
  <2> QED BY <1>3, <1>5, <2>4, <2>5
<1>7. CASE a - b.addr \notin Offset
  <2>1. mem'[a] = mem[a]
    <3> HIDE DEF w, b
    <3> QED BY <1>2, <1>4, <1>5, <1>7, PokeByte
  <2> QED BY <1>3, <1>7, <2>1
<1> QED BY <1>6, <1>7

\* So the window closes when the breakpoint it belongs to is deleted.
LEMMA WindowDelete ==
  ASSUME TextInv, DistinctInv, NoEdgePair, ArmedBut(mem, lid),
         NEW did \in Ids, did >= lid, mem' = DeleteMem(did), Erase(did), lid' = lid
  PROVE  ArmedBut(mem, lid)'
<1> SUFFICES ASSUME NEW a \in Listed', mem'[a] # Int3
             PROVE  lid' \in Ids' /\ a - slots'[lid'].addr \in Offset
  BY DEF ArmedBut
<1>1. a \in Listed /\ mem'[a] = mem[a] /\ a - slots[did].addr \notin Offset
  BY DeleteByte
<1>2. lid \in Ids /\ a - slots[lid].addr \in Offset
  BY <1>1 DEF ArmedBut
<1>3. lid < did
  <2>1. lid # did
    BY <1>1, <1>2
  <2> QED BY <1>2, <2>1 DEF Ids
<1>4. lid \in Ids' /\ slots'[lid] = slots[lid]
  BY <1>2, <1>3, EraseRest
<1> QED BY <1>2, <1>4

\* setbreak() arms the new breakpoint and leaves the others as they are.
LEMMA SetBreakByte ==
  ASSUME TextInv, NEW a \in BreakInputs, SetBreak(a), NEW x \in Listed'
  PROVE  mem'[x] = Int3 \/ (x \in Listed /\ mem'[x] = mem[x])
<1>0. TypeOK /\ mem \in [Mapped -> Byte]
  BY DEF TextInv, TypeOK
<1> DEFINE b == [addr |-> a, code |-> SavedCode(a)]
           w == Arm(Peek(mem, a))
<1>1. a \in WordAddr /\ a \in Int /\ ~Wrapped /\ Push(b) /\ mem' = Poke(mem, a, w)
  BY InputInt DEF SetBreak
<1>2. b.addr = a
  OBVIOUS
<1> HIDE DEF b
<1>3. Listed' = Listed \cup {a}
  BY <1>0, <1>1, <1>2, PushListed
<1>4. x \in Mapped /\ x \in Int
  BY <1>0, <1>1, <1>3, ListedInput, TextAssumption DEF WordAddr, Mapped
<1>5. w[0] = Int3 /\ \A d \in Offset : d # 0 => w[d] = mem[a + d]
  BY <1>0, <1>1, PeekType, ArmType DEF Peek
<1> HIDE DEF w
<1>6. mem'[x] = IF x - a \in Offset THEN w[x - a] ELSE mem[x]
  BY <1>1, <1>4, PokeByte
<1>7. CASE x = a
  <2>1. x - a = 0 /\ 0 \in Offset
    BY <1>1, <1>7, TextAssumption DEF Offset
  <2> QED BY <1>5, <1>6, <2>1
<1>8. CASE x # a
  <2>1. x - a # 0 /\ a + (x - a) = x /\ x \in Listed
    BY <1>1, <1>3, <1>4, <1>8
  <2> QED BY <1>5, <1>6, <2>1
<1> QED BY <1>7, <1>8

\* So the window stays what it was.
LEMMA WindowSetBreak ==
  ASSUME TextInv, ArmedBut(mem, lid), NEW a \in BreakInputs, SetBreak(a)
  PROVE  ArmedBut(mem, lid)'
<1> SUFFICES ASSUME NEW x \in Listed', mem'[x] # Int3
             PROVE  lid' \in Ids' /\ x - slots'[lid'].addr \in Offset
  BY DEF ArmedBut
<1> DEFINE b == [addr |-> a, code |-> SavedCode(a)]
<1>1. TypeOK /\ Push(b) /\ lid' = lid
  BY DEF SetBreak, TextInv
<1>2. lid \in Ids /\ x - slots[lid].addr \in Offset
  BY SetBreakByte DEF ArmedBut
<1> HIDE DEF b
<1>3. lid \in Ids' /\ slots'[lid] = slots[lid]
  <2>1. size \in Nat /\ high \in Nat /\ size <= high /\ lid \in 0 .. size - 1
    BY <1>1, <1>2 DEF TypeOK, Ids
  <2> QED BY <1>1, <2>1 DEF Push, Ids
<1> QED BY <1>1, <1>2, <1>3

\* A step that leaves the list and the memory alone, and does not end start().
LEMMA WindowSame ==
  ASSUME WindowInv, UNCHANGED <<lid, slots, size, mem>>,
         Alive' /\ sdb' \notin {"start", "runstart"} => Alive /\ sdb \notin {"start", "runstart"}
  PROVE  WindowInv'
BY DEF WindowInv, ArmedBut, Listed, Ids, Alive

\* A quiet step does not end start() with a process.
LEMMA QuietStart ==
  ASSUME Quiet, ~Wrapped, Alive', sdb \in {"start", "runstart"}
  PROVE  sdb' \in {"start", "runstart"}
BY DEF Quiet, Load, LoadUnreadable, Start, ForkFails, Cont, Si, SetBreakFails,
       DeleteFails, ListRunsOff, Quit, StartRunsOff, StartDied, StartKilled,
       WaitRunsOff, WaitKilled, WaitDied, Typed,
       WaitNoChild, ExecFails, Signal, Kill, Ended, Die, Resume,
       KilledBeforePoke, vars, Alive

\* Every step keeps all breakpoints armed but for those of one word.
LEMMA WindowStep ==
  ASSUME TextInv, DistinctInv, ControlInv, WindowInv, NoEdgePair, NoPastEnd,
         NoDeleteBelow, [Next]_vars
  PROVE  WindowInv'
<1>0. TypeOK /\ ~Wrapped
  BY DEF TextInv, ControlInv
<1>1. CASE Quiet
  BY <1>0, <1>1, QuietStep, QuietAlive, QuietStart, WindowSame
<1>2. ASSUME NEW a \in BreakInputs, SetBreak(a) PROVE WindowInv'
  <2>1. ArmedBut(mem, lid)
    BY <1>2 DEF SetBreak, Typed, WindowInv, Alive
  <2> QED BY <1>2, <2>1, WindowSetBreak DEF WindowInv
<1>3. ASSUME NEW did \in Ids, DeleteBreak(did) PROVE WindowInv'
  <2>1. ArmedBut(mem, lid) /\ did >= lid
    BY <1>3 DEF DeleteBreak, Typed, WindowInv, Alive, NoDeleteBelow
  <2>2. mem' = DeleteMem(did) /\ Erase(did) /\ lid' = lid
    BY <1>3 DEF DeleteBreak
  <2> QED BY <2>1, <2>2, WindowDelete DEF WindowInv
<1>4. CASE DeletePastEnd
  BY <1>4 DEF DeletePastEnd, NoPastEnd
<1>5. CASE \E i \in Instr : SetRip(i)
  <2>1. UNCHANGED <<lid, slots, size, mem>>
    BY <1>5 DEF SetRip, bpVars
  <2>2. Alive' => Alive /\ sdb' = sdb
    BY <1>5 DEF SetRip, Die, Alive
  <2> QED BY <2>1, <2>2, WindowSame
<1>6. CASE ExecOk
  BY <1>6 DEF ExecOk, WindowInv, ControlInv
<1>7. CASE ExecuteInstruction \/ ExecuteInt3 \/ ExecuteGarbage
  <2>1. UNCHANGED <<sdb, lid, slots, size, mem>> /\ Alive
    BY <1>7 DEF ExecuteInstruction, ExecuteInt3, ExecuteGarbage, bpVars, Alive
  <2> QED BY <2>1, WindowSame
<1>8. CASE StartStopped
  <2>1. mem' = StartMem /\ Listed' = Listed
    BY <1>8 DEF StartStopped, bpVars, Listed, Ids
  <2> QED BY <1>0, <2>1, StartArms DEF WindowInv, ArmedBut
<1>9. CASE WaitStopped
  <2>1. CcByte \in {0, 1}
    BY DEF CcByte
  <2>2. ArmedBut(mem, lid)
    BY <1>9 DEF WaitStopped, AtStop, WindowInv, Alive
  <2>3. ArmedBut(StopMem(CcByte), HitId(CcByte))
    BY <2>1, <2>2, StopArms
  <2>4. mem' = StopMem(CcByte) /\ lid' = HitId(CcByte) /\ UNCHANGED <<slots, size>>
    BY <1>9 DEF WaitStopped, bpVars
  <2> QED BY <2>3, <2>4 DEF WindowInv, ArmedBut, Listed, Ids
<1>10. CASE UNCHANGED vars
  BY <1>10, WindowSame DEF vars, bpVars, Alive
<1> QED
  BY <1>1, <1>2, <1>3, <1>4, <1>5, <1>6, <1>7, <1>8, <1>9, <1>10, NextCases

\* What is put back by the next stop is only what the last stop had taken away:
\* with any program and any breakpoints that are not WORD - 1 apart, if no id
\* below lid or past the end is deleted.
THEOREM Armament ==
  ASSUME NoEdgePair, NoPastEnd, NoDeleteBelow
  PROVE  Spec => []WindowArmed
<1> DEFINE Inv == TextInv /\ DistinctInv /\ ControlInv /\ WindowInv
<1>1. Init => Inv
  <2>1. Init => WindowInv
    BY DEF Init, WindowInv, Alive
  <2> QED BY <2>1, TextInit, DistinctInit, ControlInit
<1>2. Inv /\ [Next]_vars => Inv'
  <2>1. TextInv => TypeOK
    BY DEF TextInv
  <2> QED BY <2>1, TextStep, DistinctStep, ControlStep, WindowStep
<1>3. Inv => WindowArmed
  <2>1. ASSUME Inv, sdb = "prompt", tracee = "stopped" PROVE ArmedBut(mem, lid)
    BY <2>1 DEF WindowInv, Alive
  <2>2. lid \in Ids => lid >= 0
    BY DEF Ids
  <2> QED BY <2>1, <2>2 DEF WindowArmed, ArmedBut
<1> HIDE DEF Inv
<1>4. Spec => []Inv
  BY <1>1, <1>2, PTL DEF Spec
<1> QED BY <1>3, <1>4, PTL

-----------------------------------------------------------------------------
(* No breakpoint is run over.                                              *)

\* No breakpoint lies in the word of another: restoreifbreak() disarms the one
\* that was hit alone.
Apart == \A a, b \in BreakInputs : a # b => b - a \notin Offset

\* Then none is WORD - 1 above another.
LEMMA ApartEdge == ASSUME Apart PROVE NoEdgePair
<1> SUFFICES ASSUME NEW a \in BreakInputs, NEW b \in BreakInputs, b - a = WORD - 1
             PROVE  FALSE
  BY DEF NoEdgePair
<1>1. a \in Int /\ b \in Int /\ WORD - 1 \in Offset /\ WORD - 1 # 0
  BY InputInt, TextAssumption DEF Offset
<1>2. a # b
  <2>1. a = b => b - a = 0
    BY <1>1
  <2> QED BY <1>1, <2>1
<1> QED BY <1>1, <1>2 DEF Apart

\* A program without loops, by the order in which it can meet its instructions.
Ordered(rank) ==
  /\ rank \in [Instr -> Nat]
  /\ \A i \in Instr : \A j \in Succ[i] : rank[i] < rank[j]

\* The inductive invariant: a breakpoint without its 0xcc lies behind, or is the
\* one the program was stopped at and has not left.
PassedInv(rank) ==
  Alive /\ sdb \notin {"start", "runstart"} =>
    \A a \in Listed :
      \/ mem[a] = Int3
      \/ rank[a] < rank[Pc]
      \/ a = Pc /\ (tracee = "running" => ~stepped)

\* A step that leaves the memory and the program's place alone, and lets it run
\* no further.
LEMMA PassedSame ==
  ASSUME NEW rank, PassedInv(rank), UNCHANGED <<slots, size, mem>>, Pc' = Pc,
         Alive' /\ sdb' \notin {"start", "runstart"} => Alive /\ sdb \notin {"start", "runstart"},
         tracee' = "running" => stepped' = FALSE \/ (tracee = "running" /\ stepped' = stepped)
  PROVE  PassedInv(rank)'
<1>1. Listed' = Listed
  BY DEF Listed, Ids
<1> SUFFICES ASSUME Alive', sdb' \notin {"start", "runstart"}, NEW a \in Listed
             PROVE  \/ mem'[a] = Int3
                    \/ rank[a] < rank[Pc']
                    \/ a = Pc' /\ (tracee' = "running" => ~stepped')
  BY <1>1 DEF PassedInv
<1> QED BY DEF PassedInv

\* Commands that leave the list and the memory alone.
LEMMA PassedQuiet ==
  ASSUME NEW rank, ControlInv, NoPastEnd, PassedInv(rank), Untouched, Quiet
  PROVE  PassedInv(rank)'
<1>0. ~Wrapped
  BY DEF ControlInv
<1>1. CASE ~Alive'
  BY <1>1 DEF PassedInv
<1>2. CASE Alive'
  <2>1. UNCHANGED <<slots, size, mem, rip>> /\ Alive
    BY <1>2, QuietStep, QuietAlive
  <2>2. sdb' \notin {"start", "runstart"} => sdb \notin {"start", "runstart"}
    BY <1>0, <1>2, QuietStart
  <2>3. \/ tracee' = tracee /\ stepped' = stepped
        \/ tracee = "stopped" /\ tracee' = "running" /\ stepped' = FALSE
        \/ tracee' = tracee /\ stepped' = FALSE /\ tracee # "running"
    BY <1>0, <1>2
    DEF Quiet, Load, LoadUnreadable, Start, ForkFails, Cont, Si, SetBreakFails,
        DeleteFails, ListRunsOff, Quit, StartRunsOff, StartDied, StartKilled,
        WaitRunsOff, WaitKilled, WaitDied, Typed,
        WaitNoChild, ExecFails, Signal, Kill, Ended, Die, Resume,
        KilledBeforePoke, vars, Alive, Untouched, ControlInv
  <2>4. Pc' = Pc
    BY <2>1, <2>3 DEF Pc
  <2> QED BY <2>1, <2>2, <2>3, <2>4, PassedSame
<1> QED BY <1>1, <1>2

\* waitstatus() disarms at most the breakpoint the program has come to.
LEMMA PassedStop ==
  ASSUME NEW rank, RunInv, StopInv, PassedInv(rank), Apart, WaitStopped
  PROVE  PassedInv(rank)'
<1>0. TypeOK /\ TextInv /\ NoEdgePair /\ CcByte \in {0, 1}
  BY ApartEdge DEF RunInv, TextInv, CcByte
<1>1. /\ mem' = StopMem(CcByte) /\ rip' = StopRip(CcByte)
      /\ tracee' = "stopped" /\ UNCHANGED <<slots, size>>
      /\ Alive /\ sdb \notin {"start", "runstart"}
  BY DEF WaitStopped, bpVars, AtStop, Alive
<1>2. Listed' = Listed /\ Pc' = Pc
  BY <1>1, StopPc DEF Listed, Ids
<1> SUFFICES ASSUME NEW a \in Listed
             PROVE  \/ mem'[a] = Int3
                    \/ rank[a] < rank[Pc]
                    \/ a = Pc
  BY <1>1, <1>2 DEF PassedInv
<1>3. CASE StopMem(CcByte)[a] = ResetMem[a]
  <2>1. mem'[a] = Int3 \/ mem'[a] = mem[a]
    BY <1>0, <1>1, <1>3, ResetByte
  <2> QED BY <1>1, <2>1 DEF PassedInv
<1>4. CASE HitId(CcByte) \in Ids /\ a - slots[HitId(CcByte)].addr \in Offset
  <2>1. rip - CcByte \in Listed /\ slots[HitId(CcByte)].addr = rip - CcByte
    <3>1. HitId(CcByte) # -1
      BY <1>4 DEF Ids
    <3> QED BY <1>0, <3>1, HitIdFound
  <2>2. a = rip - CcByte
    BY <1>0, <1>4, <2>1, ListedInput DEF Apart
  <2>3. rip' = a
    BY <1>0, <1>1, <2>1, <2>2, StopRipValue
  <2>4. Pc' = rip'
    BY <1>1 DEF Pc
  <2> QED BY <1>2, <2>3, <2>4
<1> QED BY <1>0, <1>3, <1>4, StopByte

\* An instruction leaves its breakpoint behind, and every later one is ahead.
LEMMA PassedExecute ==
  ASSUME NEW rank, Ordered(rank), RunInv, PassedInv(rank), AtInstructions,
         ExecuteInstruction
  PROVE  PassedInv(rank)'
<1>0. TypeOK
  BY DEF RunInv, TextInv
<1>1. tracee = "running" /\ rip \in Instr /\ Pc = rip /\ Alive
  BY DEF ExecuteInstruction, Intact, Pc, Alive
<1>2. UNCHANGED <<sdb, slots, size, mem>>
  BY DEF ExecuteInstruction, bpVars
<1>3. CASE tracee' = "exited"
  BY <1>3 DEF PassedInv, Alive
<1>4. CASE rip' \in Succ[rip] /\ tracee' = AfterInstruction
  <2>1. Pc' = rip' /\ rip' \in Instr /\ rank[rip] < rank[rip']
    BY <1>1, <1>4, ProgramAssumption DEF AfterInstruction, Pc, Ordered
  <2>2. Listed' = Listed
    BY <1>2 DEF Listed, Ids
  <2> SUFFICES ASSUME sdb \notin {"start", "runstart"}, NEW a \in Listed, mem[a] # Int3
               PROVE  rank[a] < rank[rip']
    BY <1>2, <2>1, <2>2 DEF PassedInv
  <2>3. a \in Instr /\ rank[a] \in Nat /\ rank[rip] \in Nat /\ rank[rip'] \in Nat
    BY <1>0, <1>1, <2>1, ListedInput DEF AtInstructions, Ordered
  <2>4. rank[a] < rank[rip] \/ a = rip
    BY <1>1 DEF PassedInv
  <2> QED BY <2>1, <2>3, <2>4
<1> QED BY <1>3, <1>4 DEF ExecuteInstruction

\* Every step keeps every breakpoint ahead armed.
LEMMA PassedStep ==
  ASSUME NEW rank, Ordered(rank), Careful, Apart, Untouched,
         RunInv, StopInv, DistinctInv, PassedInv(rank), [Next]_vars
  PROVE  PassedInv(rank)'
<1>0. TypeOK /\ TextInv /\ NoEdgePair /\ ControlInv
  BY ApartEdge DEF RunInv, TextInv
<1>1. CASE Quiet
  BY <1>0, <1>1, PassedQuiet DEF Careful
<1>2. ASSUME NEW b \in BreakInputs, SetBreak(b) PROVE PassedInv(rank)'
  <2>1. Alive /\ sdb = "prompt" /\ tracee = "stopped" /\ tracee' = "stopped" /\ rip' = rip
    BY <1>2 DEF SetBreak, Typed, Alive
  <2>2. Pc' = Pc
    BY <2>1 DEF Pc
  <2>3. ASSUME NEW a \in Listed' PROVE mem'[a] = Int3 \/ (a \in Listed /\ mem'[a] = mem[a])
    BY <1>0, <1>2, SetBreakByte
  <2> QED BY <2>1, <2>2, <2>3 DEF PassedInv
<1>3. ASSUME NEW did \in Ids, DeleteBreak(did) PROVE PassedInv(rank)'
  <2>1. Alive /\ sdb = "prompt" /\ tracee = "stopped" /\ tracee' = "stopped" /\ rip' = rip
    BY <1>3 DEF DeleteBreak, Typed, Alive
  <2>2. Pc' = Pc
    BY <2>1 DEF Pc
  <2>3. mem' = DeleteMem(did) /\ Erase(did)
    BY <1>3 DEF DeleteBreak
  <2>4. ASSUME NEW a \in Listed' PROVE a \in Listed /\ (mem'[a] = Int3 \/ mem'[a] = mem[a])
    BY <1>0, <2>3, DeleteByte
  <2> QED BY <2>1, <2>2, <2>4 DEF PassedInv
<1>4. CASE DeletePastEnd
  BY <1>4 DEF DeletePastEnd, NoPastEnd, Careful
<1>5. CASE \E i \in Instr : SetRip(i)
  BY <1>5 DEF SetRip, Typed, Untouched
<1>6. CASE ExecOk
  BY <1>0, <1>6 DEF ExecOk, PassedInv, ControlInv
<1>7. CASE ExecuteInstruction
  BY <1>7, PassedExecute DEF Careful
<1>8. CASE ExecuteInt3
  <2>1. UNCHANGED <<sdb, slots, size, mem>> /\ tracee' = "trapped" /\ Alive
    BY <1>8 DEF ExecuteInt3, bpVars, Alive
  <2>2. Pc' = Pc
    BY <1>0, <1>8 DEF ExecuteInt3, Pc, TypeOK
  <2> QED BY <2>1, <2>2, PassedSame
<1>9. ~ExecuteGarbage
  BY NoGarbage DEF RunInv, Careful
<1>10. CASE StartStopped
  <2>1. mem' = StartMem /\ Listed' = Listed
    BY <1>10 DEF StartStopped, bpVars, Listed, Ids
  <2> QED BY <1>0, <2>1, StartArms DEF PassedInv
<1>11. CASE WaitStopped
  BY <1>11, PassedStop
<1>12. CASE UNCHANGED vars
  <2>1. UNCHANGED <<sdb, tracee, slots, size, mem, rip, stepped>>
    BY <1>12 DEF vars, bpVars
  <2> QED BY <2>1, PassedSame DEF Pc, Alive
<1> QED
  BY <1>1, <1>2, <1>3, <1>4, <1>5, <1>6, <1>7, <1>8, <1>9, <1>10, <1>11, <1>12,
     NextCases

\* While the program has not met its breakpoint yet, the breakpoint is armed, and
\* what is armed is not executed as an instruction.
LEMMA NotPassed ==
  ASSUME NEW rank, Ordered(rank), RunInv, PassedInv(rank), AtInstructions,
         tracee = "running", stepped, rip \in Listed
  PROVE  ~ExecuteInstruction
<1> SUFFICES ASSUME Intact(rip) PROVE FALSE
  BY DEF ExecuteInstruction
<1>1. rip \in Instr /\ sdb \notin {"start", "runstart"} /\ Alive /\ Pc = rip
  BY DEF Intact, RunInv, ControlInv, Alive, Pc
<1>2. rank[rip] \in Nat
  BY <1>1 DEF Ordered
<1>3. mem[rip] = Int3
  <2>1. ~ (rank[rip] < rank[rip])
    BY <1>2
  <2> QED BY <1>1, <2>1 DEF PassedInv
<1>4. InstrLen[rip] \in Nat \ {0} /\ rip \in Int
  BY <1>1, TextAssumption, ProgramAssumption DEF Mapped
<1>5. rip \in InstrBytes(rip)
  BY <1>4 DEF InstrBytes
<1>6. mem[rip] = Orig[rip]
  BY <1>5 DEF Intact
<1> QED BY <1>1, <1>3, <1>6, ProgramAssumption

\* A program without loops never runs over a breakpoint: it is armed whenever the
\* program may come to it, however the breakpoints are set and deleted.
THEOREM NothingMissed ==
  ASSUME NEW CONSTANT rank, Ordered(rank),
         AtInstructions, NoStepArmed, NoPastEnd, Apart, Untouched
  PROVE  Spec => NotMissed
<1> DEFINE Inv == RunInv /\ StopInv /\ DistinctInv /\ PassedInv(rank)
<1>0. Careful /\ NoEdgePair
  BY ApartEdge DEF Careful
<1>1. Init => Inv
  <2>1. Init => StopInv /\ PassedInv(rank)
    BY DEF Init, StopInv, PassedInv, Alive
  <2> QED BY <2>1, DistinctInit, RunInit
<1>2. Inv /\ [Next]_vars => Inv'
  BY <1>0, RunStep, StopStep, DistinctStep, PassedStep
<1>3. Inv => (tracee = "running" /\ stepped /\ rip \in Listed => ~ExecuteInstruction)
  BY NotPassed
<1> HIDE DEF Inv
<1>4. Inv /\ [Next]_vars =>
        [tracee = "running" /\ stepped /\ rip \in Listed => ~ExecuteInstruction]_vars
  BY <1>3
<1> QED BY <1>1, <1>2, <1>4, PTL DEF Spec, NotMissed

-----------------------------------------------------------------------------
(* No breakpoint stops the program twice.                                  *)

\* The user does not set a breakpoint on the instruction the program is at.
NoBreakHere == "break here" \in Avoid

\* The inductive invariant: what start() waits for is at the first instruction,
\* and what is at a prompt or was just resumed is not at an int3, the first
\* instruction excepted.
ClearInv ==
  /\ Alive /\ sdb \in {"start", "runstart"} => rip = StartPC
  /\ (sdb = "prompt" /\ tracee = "stopped") \/ (tracee = "running" /\ ~stepped) =>
       rip = StartPC \/ ~Armed(rip)

\* Commands that leave the list and the memory alone.
LEMMA ClearQuiet ==
  ASSUME ControlInv, NoPastEnd, ClearInv, Quiet
  PROVE  ClearInv'
<1>0. ~Wrapped
  BY DEF ControlInv
<1>1. UNCHANGED <<mem, rip>>
  BY QuietStep
<1>2. CASE ~Alive'
  BY <1>2 DEF ClearInv, Alive
<1>3. CASE Alive'
  <2>1. Alive /\ (sdb' \in {"start", "runstart"} => sdb \in {"start", "runstart"})
    BY <1>3, QuietAlive
    DEF Quiet, Load, LoadUnreadable, Start, ForkFails, Cont, Si, SetBreakFails,
        DeleteFails, ListRunsOff, Quit, StartRunsOff, StartDied, StartKilled,
        WaitRunsOff, WaitKilled, WaitDied, Typed,
        WaitNoChild, ExecFails, Signal, Kill, Ended, Die, Resume,
        KilledBeforePoke, vars, Alive
  <2>2. \/ sdb' = sdb /\ tracee' = tracee /\ stepped' = stepped
        \/ sdb = "prompt" /\ tracee = "stopped" /\ sdb' # "prompt"
        \/ tracee' \in {"stopped", "trapped"} /\ sdb' \in {"cont", "si"}
    BY <1>0, <1>3
    DEF Quiet, Load, LoadUnreadable, Start, ForkFails, Cont, Si, SetBreakFails,
        DeleteFails, ListRunsOff, Quit, StartRunsOff, StartDied, StartKilled,
        WaitRunsOff, WaitKilled, WaitDied, Typed,
        WaitNoChild, ExecFails, Signal, Kill, Ended, Die, Resume,
        KilledBeforePoke, vars, Alive, ControlInv
  <2> QED BY <1>1, <2>1, <2>2 DEF ClearInv, Armed
<1> QED BY <1>2, <1>3

\* setbreak() changes the byte at its own address only.
LEMMA ArmOther ==
  ASSUME NEW m \in [Mapped -> Byte], NEW a \in WordAddr, NEW x \in Mapped, x # a
  PROVE  Poke(m, a, Arm(Peek(m, a)))[x] = m[x]
<1>1. a \in Int /\ x \in Int
  BY TextAssumption DEF WordAddr, Mapped
<1> DEFINE w == Arm(Peek(m, a))
<1>2. \A d \in Offset : d # 0 => w[d] = m[a + d]
  BY PeekType, ArmType DEF Peek
<1> HIDE DEF w
<1>3. Poke(m, a, w)[x] = IF x - a \in Offset THEN w[x - a] ELSE m[x]
  BY <1>1, PokeByte
<1>4. x - a # 0 /\ a + (x - a) = x
  BY <1>1
<1> QED BY <1>2, <1>3, <1>4 DEF w

\* deletebreak() does not arm the breakpoint the program is at: that one lies
\* in no other's word.
LEMMA ClearDelete ==
  ASSUME RunInv, TextInv', DistinctInv, Apart, NEW did \in Ids, DeleteBreak(did),
         ~Armed(rip)
  PROVE  ~Armed(rip)'
<1>0. TypeOK
  BY DEF RunInv, TextInv
<1>1. /\ mem' = DeleteMem(did) /\ Erase(did) /\ rip' = rip
      /\ tracee = "stopped" /\ tracee' = "stopped"
  BY DEF DeleteBreak
<1>2. rip \in Instr /\ rip \in Mapped /\ rip \in Int
  <2>1. rip \in Instr
    BY <1>1 DEF RunInv, BoundaryInv, Pc, Alive
  <2> QED BY <1>0, <2>1, ProgramAssumption DEF TypeOK
<1> SUFFICES ASSUME mem'[rip] = Int3 PROVE FALSE
  BY <1>1 DEF Armed
<1>3. rip \in Listed'
  BY <1>1, <1>2, ProgramAssumption DEF TextInv, TextIntact, Alive
<1>4. rip \in Listed /\ rip # slots[did].addr
  BY <1>1, <1>3, EraseRest
<1>5. slots[did].addr \in BreakInputs /\ slots[did].addr \in Int
  BY <1>0, SlotType DEF Ids, TypeOK
<1>6. rip - slots[did].addr \notin Offset
  BY <1>0, <1>4, <1>5, ListedInput DEF Apart
<1> DEFINE b == slots[did]
           w == Alternate(b.code, b.addr, Bps, TRUE, FALSE)
<1>7. mem' = Poke(mem, b.addr, w)
  BY <1>1 DEF DeleteMem
<1>8. Poke(mem, b.addr, w)[rip] = mem[rip]
  <2> HIDE DEF w
  <2> QED BY <1>2, <1>5, <1>6, PokeByte
<1>9. mem[rip] = Int3
  BY <1>7, <1>8
<1> QED BY <1>2, <1>9 DEF Armed

\* waitstatus() leaves the program at an instruction of its own: it restores the
\* one whose int3 was met, or the one a single step has come to.
LEMMA ClearStop ==
  ASSUME RunInv, TextInv', StopInv, WaitStopped
  PROVE  ~Armed(rip)'
<1>0. TypeOK /\ SavedCodesGenuine /\ BoundaryInv /\ CcByte \in {0, 1}
  BY DEF RunInv, TextInv, CcByte
<1>1. /\ mem' = StopMem(CcByte) /\ rip' = StopRip(CcByte)
      /\ tracee \in {"stopped", "trapped"} /\ tracee' = "stopped"
      /\ Alive /\ Alive' /\ Listed' = Listed
  BY DEF WaitStopped, AtStop, Alive, bpVars, Listed, Ids
<1>2. rip' \in Instr
  <2>1. Pc' = Pc /\ Pc' = rip'
    BY <1>1, StopPc DEF Pc
  <2> QED BY <1>0, <1>1, <2>1 DEF BoundaryInv
<1> SUFFICES ASSUME mem'[rip'] = Int3 PROVE FALSE
  BY DEF Armed
<1>3. rip' \in Listed /\ rip' \in Mapped
  BY <1>1, <1>2, ProgramAssumption DEF TextInv, TextIntact
<1>4. rip - CcByte \in Listed /\ rip' = rip - CcByte
  <2>1. CASE tracee = "trapped"
    <3>1. CcByte = 1 /\ rip - 1 \in Listed
      BY <1>0, <1>1, <2>1 DEF BoundaryInv, Pc, CcByte
    <3> QED BY <1>0, <1>1, <3>1, StopRipValue
  <2>2. CASE tracee = "stopped"
    <3>1. CcByte = 0 /\ rip - 0 = rip
      BY <1>0, <2>2 DEF StopInv, CcByte, TypeOK
    <3>2. StopRip(0) = rip
      BY <1>0, <3>1, StopRipValue
    <3> QED BY <1>1, <1>3, <3>1, <3>2
  <2> QED BY <1>1, <2>1, <2>2
<1> DEFINE h == HitId(CcByte)
<1>5. h \in Ids /\ h >= 0 /\ slots[h].addr = rip - CcByte
  BY <1>0, <1>4, HitIdFound
<1>6. h \in 0 .. high - 1 /\ ~ (h < 0)
  BY <1>0, <1>5 DEF Ids, TypeOK
<1> DEFINE b == slots[h]
           w == Alternate(b.code, b.addr, Bps, FALSE, FALSE)
<1>7. mem' = Poke(ResetMem, b.addr, w)
  BY <1>1, <1>6 DEF StopMem
<1>8. b.addr \in Int /\ b.addr = rip' /\ b.code = OrigWord(b.addr)
  BY <1>0, <1>4, <1>5, <1>6, SlotType DEF SavedCodesGenuine
<1>9. w[0] = Orig[b.addr]
  <2>1. 0 \in Offset /\ b.addr + 0 = b.addr
    BY <1>8, TextAssumption DEF Offset
  <2>2. b.code[0] = Orig[b.addr]
    <3> HIDE DEF b
    <3> QED BY <1>8, <2>1 DEF OrigWord, Peek
  <2> QED BY <2>1, <2>2 DEF Alternate
<1>10. Poke(ResetMem, b.addr, w)[rip'] = w[0]
  <2>1. rip' - b.addr = 0 /\ 0 \in Offset
    BY <1>8, TextAssumption DEF Offset
  <2> HIDE DEF w, b
  <2> QED BY <1>3, <1>8, <2>1, PokeByte
<1> QED BY <1>2, <1>7, <1>8, <1>9, <1>10, ProgramAssumption

\* Every step keeps the program clear of the breakpoint that stopped it.
LEMMA ClearStep ==
  ASSUME Careful, Apart, Untouched, NoBreakHere,
         RunInv, RunInv', StopInv, DistinctInv, ClearInv, [Next]_vars
  PROVE  ClearInv'
<1>0. TypeOK /\ TextInv /\ TextInv' /\ ControlInv /\ BoundaryInv
  BY DEF RunInv, TextInv
<1>1. CASE Quiet
  BY <1>0, <1>1, ClearQuiet DEF Careful
<1>2. ASSUME NEW a \in BreakInputs, SetBreak(a) PROVE ClearInv'
  <2>1. /\ sdb = "prompt" /\ sdb' = "prompt" /\ tracee = "stopped" /\ tracee' = "stopped"
        /\ rip' = rip /\ a # rip /\ a \in WordAddr /\ mem' = Poke(mem, a, Arm(Peek(mem, a)))
    BY <1>2 DEF SetBreak, Typed, NoBreakHere
  <2>2. rip \in Mapped => mem'[rip] = mem[rip]
    BY <1>0, <2>1, ArmOther DEF TypeOK
  <2> QED BY <2>1, <2>2 DEF ClearInv, Armed
<1>3. ASSUME NEW did \in Ids, DeleteBreak(did) PROVE ClearInv'
  <2>1. /\ sdb = "prompt" /\ sdb' = "prompt" /\ tracee = "stopped" /\ tracee' = "stopped"
        /\ rip' = rip
    BY <1>3 DEF DeleteBreak, Typed
  <2>2. ~Armed(rip) => ~Armed(rip)'
    BY <1>0, <1>3, ClearDelete
  <2> QED BY <2>1, <2>2 DEF ClearInv
<1>4. CASE DeletePastEnd
  BY <1>4 DEF DeletePastEnd, NoPastEnd, Careful
<1>5. CASE \E i \in Instr : SetRip(i)
  BY <1>5 DEF SetRip, Typed, Untouched
<1>6. CASE ExecOk
  BY <1>6 DEF ExecOk, ClearInv
<1>7. CASE ExecuteInstruction \/ ExecuteInt3
  <2>1. tracee = "running" /\ sdb' = sdb /\ sdb \in {"cont", "si", "gone"} /\ stepped' = TRUE
    BY <1>0, <1>7 DEF ExecuteInstruction, ExecuteInt3, ControlInv
  <2> QED BY <2>1 DEF ClearInv
<1>8. ~ExecuteGarbage
  BY NoGarbage DEF RunInv, Careful
<1>9. CASE StartStopped
  <2>1. rip = StartPC /\ rip' = StopRip(0) /\ sdb' \in {"prompt", "cont"}
    BY <1>9 DEF StartStopped, ClearInv, Alive
  <2>2. StopRip(0) = rip
    BY <1>0, StopRipValue DEF TypeOK
  <2> QED BY <2>1, <2>2 DEF ClearInv
<1>10. CASE WaitStopped
  <2>1. sdb' = "prompt" /\ ~Armed(rip)'
    BY <1>0, <1>10, ClearStop DEF WaitStopped
  <2> QED BY <2>1 DEF ClearInv
<1>11. CASE UNCHANGED vars
  BY <1>11 DEF vars, ClearInv, Alive, Armed
<1> QED
  BY <1>1, <1>2, <1>3, <1>4, <1>5, <1>6, <1>7, <1>8, <1>9, <1>10, <1>11, NextCases

\* The program leaves every breakpoint it was stopped at, whatever breakpoints are
\* set and deleted at the prompt, loops and later visits included, if none lies in
\* another's word and none is set where the program is.
THEOREM StoppedOnce ==
  ASSUME AtInstructions, NoStepArmed, NoPastEnd, Apart, Untouched, NoBreakHere
  PROVE  Spec => NotTwice
<1> DEFINE Inv == RunInv /\ StopInv /\ DistinctInv /\ ClearInv
<1>0. Careful
  BY ApartEdge DEF Careful
<1>1. Init => Inv
  <2>1. Init => StopInv /\ ClearInv
    BY DEF Init, StopInv, ClearInv, Alive
  <2> QED BY <2>1, DistinctInit, RunInit
<1>2. Inv /\ [Next]_vars => Inv'
  BY <1>0, RunStep, StopStep, DistinctStep, ClearStep
<1>3. Inv => (ExecuteInt3 /\ ~stepped => rip = StartPC)
  BY DEF ClearInv, ExecuteInt3
<1> HIDE DEF Inv
<1>4. Inv /\ [Next]_vars => [ExecuteInt3 /\ ~stepped => rip = StartPC]_vars
  BY <1>3
<1> QED BY <1>1, <1>2, <1>4, PTL DEF Spec, NotTwice
=============================================================================
