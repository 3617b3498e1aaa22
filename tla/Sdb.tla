-------------------------------- MODULE Sdb --------------------------------
(***************************************************************************)
(* sdb (310551113_hw4/sdb.cpp), a ptrace debugger with software            *)
(* breakpoints, together with the process it debugs.                       *)
(*                                                                         *)
(* sdb is one thread: a command runs to its end, or to the waitpid() in    *)
(* waitstatus(), and the tracee runs only while sdb waits there.  What     *)
(* follows a waitpid() up to the next prompt is one step.  A SIGKILL can   *)
(* reach the tracee at any time.                                           *)
(***************************************************************************)
EXTENDS SdbText

CONSTANTS
  TextLo, TextSize,  \* .text as the ELF section header has it
  AddrMod,           \* addresses are unsigned long long: arithmetic mod 2^64
  Instr, InstrLen, Succ, Exits, StartPC, \* the program, see Undebugged
  BreakInputs,       \* the addresses the user gives to "break"
  Commands,          \* the commands the user types
  Faults,            \* what can go wrong outside sdb: "exec", "signal", "kill"
  Avoid              \* what the user is careful not to do, see Si, SetBreak, DeleteBreak
                     \* and DeletePastEnd

NOT_LOADED == "NOT LOADED"
LOADED     == "LOADED"
RUNNING    == "RUNNING"

ASSUME ProgramAssumption ==
  /\ Instr \subseteq Mapped
  /\ InstrLen \in [Instr -> Nat \ {0}]
  /\ \A i \in Instr : i + InstrLen[i] - 1 \in Mapped
  /\ \A i \in Instr : \A x \in i + 1 .. i + InstrLen[i] - 1 : x \notin Instr
  /\ \A i \in Instr : Orig[i] # Int3
  /\ Succ \in [Instr -> SUBSET Instr]
  /\ Exits \subseteq Instr
  /\ StartPC \in Instr

ASSUME InputAssumption ==
  /\ TextLo \in Nat /\ TextSize \in Nat
  /\ AddrMod \in Nat /\ AddrMod > LastAddr /\ AddrMod > TextLo + TextSize
  /\ BreakInputs \subseteq 0 .. AddrMod - 1
  /\ Commands \subseteq {"load", "start", "run", "cont", "si", "break",
                         "delete", "list", "set rip", "exit"}
  /\ Faults \subseteq {"exec", "signal", "kill"}
  /\ Avoid \subseteq {"step armed", "delete below", "delete past end",
                      "break here"}

VARIABLES
  sdb,      \* where sdb is: "prompt", in the waitpid() of a command, or "gone"
  status,   \* conf.status
  entry,    \* conf.entrypoint
  tsize,    \* conf.textsize
  lid,      \* conf.lid, the breakpoint restored last; -1 if none
  slots,    \* the storage of the vector conf.bps: what was ever written to it
  size,     \* conf.bps.size(): the slots from here on are past the end; -1 is the
            \* 2^64-1 of a list from which more was erased than there was
  high,     \* the number of slots
  tracee,   \* the kernel's view of the child
  mem,      \* the tracee's memory
  rip,      \* the tracee's instruction pointer
  stepped   \* history: it has executed an instruction since it was resumed

conf  == <<status, entry, tsize>>
bpVars == <<slots, size, high>>
vars  == <<sdb, conf, lid, bpVars, tracee, mem, rip, stepped>>

-----------------------------------------------------------------------------
(* The breakpoint list.                                                    *)

Ids    == 0 .. size - 1
Bps    == {slots[id] : id \in Ids}
Listed == {slots[id].addr : id \in Ids}

\* size() has wrapped around.  Every loop with id < conf.bps.size() now runs off
\* the heap, and a copy of the vector does not fit in any memory: the next
\* search of the list ends sdb.
Wrapped == size < 0

\* push_back: a free slot is overwritten; without one, a slot is added.
Push(b) ==
  /\ slots' = [i \in 0 .. (IF size < high THEN high ELSE size + 1) - 1 |->
                 IF i = size THEN b ELSE slots[i]]
  /\ size' = size + 1
  /\ high' = IF size < high THEN high ELSE size + 1

\* erase(begin() + did): the later elements move down by one; the slot of the
\* last one keeps its old contents and is now past the end.
Erase(did) ==
  /\ slots' = [i \in 0 .. high - 1 |->
                 IF i \in did .. size - 2 THEN slots[i + 1] ELSE slots[i]]
  /\ size' = size - 1
  /\ UNCHANGED high

-----------------------------------------------------------------------------
(* The tracee as ptrace and waitpid show it.  "fresh" is the forked child  *)
(* before its exec; "trapped" is a stop by an int3, which waitpid() does   *)
(* not tell from any other stop; "reaped" is after waitpid() returned its  *)
(* death.                                                                  *)

Alive == tracee \in {"stopped", "trapped", "running"}
AtStop == tracee \in {"stopped", "trapped"}
Waiting == sdb \in {"start", "runstart", "cont", "si"}

Armed(a) == a \in Mapped /\ mem[a] = Int3

InstrBytes(i) == i .. i + InstrLen[i] - 1

Intact(i) == i \in Instr /\ \A x \in InstrBytes(i) : mem[x] = Orig[x]

\* sdb ends, by exit(), errquit() or an abort; PTRACE_O_EXITKILL takes the
\* tracee with it.
Die ==
  /\ sdb' = "gone"
  /\ tracee' = IF Alive THEN "killed" ELSE tracee

-----------------------------------------------------------------------------
(* waitstatus(cont), after waitpid() reported a stop.                      *)

\* resetbreak(): the word of the breakpoint restored last is written again,
\* with 0xcc for it and for every listed breakpoint in the word.  lid is an
\* index taken before later deletions and may be past the end.
ResetMem_NotSelf ==  \* mutant: include_self is false
  IF lid < 0 THEN mem
  ELSE LET b == slots[lid]
       IN  Poke(mem, b.addr, Alternate(b.code, b.addr, Bps, TRUE, FALSE))

ResetMem ==
  IF lid < 0 THEN mem
  ELSE LET b == slots[lid]
       IN  Poke(mem, b.addr, Alternate(b.code, b.addr, Bps, TRUE, TRUE))

\* restoreifbreak(): the first listed breakpoint at rip - ccbyte, where
\* ccbyte is 1 after PTRACE_CONT and 0 after a single step; -1 if none.
HitId(ccbyte) ==
  IF \E id \in Ids : slots[id].addr = rip - ccbyte
  THEN CHOOSE id \in Ids :
         /\ slots[id].addr = rip - ccbyte
         /\ \A j \in Ids : slots[j].addr = rip - ccbyte => id <= j
  ELSE -1

StopRip_NoRewind(ccbyte) == rip  \* mutant: rip is left behind the int3

StopRip(ccbyte) ==
  IF HitId(ccbyte) < 0 THEN rip ELSE slots[HitId(ccbyte)].addr

\* The hit breakpoint's word gets its original bytes back, those of the
\* breakpoints above it in the word included (to_0xcc is false).
StopMem_NoRestore(ccbyte) == ResetMem  \* mutant: the 0xcc stays

StopMem(ccbyte) ==
  IF HitId(ccbyte) < 0 THEN ResetMem
  ELSE LET b == slots[HitId(ccbyte)]
       IN  Poke(ResetMem, b.addr, Alternate(b.code, b.addr, Bps, FALSE, FALSE))

\* The handler writes to the tracee: a SIGKILL that arrives after waitpid()
\* makes that write fail, and errquit() ends sdb.
KilledBeforePoke(pokes) == "kill" \in Faults /\ pokes /\ Die

-----------------------------------------------------------------------------
(* The commands.  A command whose checkstatus() fails, or whose argument   *)
(* is rejected with a message, changes nothing and is not an action; nor   *)
(* are help, list, get, getregs, dump, disasm and vmmap, which only read,  *)
(* except where list, dump and disasm run off the end (ListRunsOff).       *)

Typed(command) == sdb = "prompt" /\ command \in Commands

\* load(): elfinfo() takes entry and size from the section that starts at
\* the entry point and leaves them alone (zero) if there is none.
Load ==
  /\ Typed("load") /\ status = NOT_LOADED
  /\ status' = LOADED
  /\ \/ entry' = TextLo /\ tsize' = TextSize
     \/ UNCHANGED <<entry, tsize>>
  /\ UNCHANGED <<sdb, lid, bpVars, tracee, mem, rip, stepped>>

\* A header cannot be read: errquit("fread").
LoadUnreadable ==
  /\ Typed("load") /\ status = NOT_LOADED
  /\ Die
  /\ UNCHANGED <<conf, lid, bpVars, mem, rip, stepped>>

\* start(): the child is forked and sdb waits for its first stop.  run() does
\* the same and goes on with cont() when start() returns no error.
Start ==
  /\ status = LOADED
  /\ \/ Typed("start") /\ sdb' = "start"
     \/ Typed("run") /\ sdb' = "runstart"
  /\ tracee' = "fresh"
  /\ UNCHANGED <<conf, lid, bpVars, mem, rip, stepped>>

\* errquit("fork")
ForkFails ==
  /\ status = LOADED /\ "exec" \in Faults
  /\ Typed("start") \/ Typed("run")
  /\ Die
  /\ UNCHANGED <<conf, lid, bpVars, mem, rip, stepped>>

\* PTRACE_CONT and PTRACE_SINGLESTEP on a stopped tracee.
Resume ==
  /\ tracee' = IF tracee = "stopped" THEN "running" ELSE tracee
  /\ stepped' = FALSE

\* cont(), and run() when the program is running.  The result of PTRACE_CONT
\* is not checked: without a tracee sdb goes on to waitpid().
Cont ==
  /\ Typed("cont") \/ Typed("run")
  /\ status = RUNNING
  /\ sdb' = "cont"
  /\ Resume
  /\ UNCHANGED <<conf, lid, bpVars, mem, rip>>

\* The careful user does not single step from an int3.
Si ==
  /\ Typed("si") /\ status = RUNNING
  /\ "step armed" \in Avoid => ~Armed(rip)
  /\ IF tracee = "stopped" THEN sdb' = "si" /\ Resume
                           ELSE Die /\ UNCHANGED stepped
  /\ UNCHANGED <<conf, lid, bpVars, mem, rip>>

\* The range test of setbreak(), in unsigned 64-bit arithmetic.
InRange(a) == a >= entry /\ a <= (entry + tsize - 1) % AddrMod

\* mutant: only the latest breakpoint is compared
Free_NotLatest(a) == a \notin {slots[id].addr : id \in Ids \ 0 .. size - 2}

\* The exist test of setbreak().
Free(a) == a \notin Listed

SavedCode_Raw(a) == Peek(mem, a)  \* mutant: 0xcc bytes of others are kept

\* The code kept for a breakpoint has the original bytes of the other listed
\* breakpoints in the word.
SavedCode(a) == Alternate(Peek(mem, a), a, Bps, FALSE, TRUE)

SetBreak_Unchecked(a) ==  \* mutant: the result of PTRACE_POKETEXT is not looked at
  /\ Typed("break") /\ status = RUNNING
  /\ ~Wrapped /\ InRange(a) /\ Free(a)
  /\ tracee = "stopped"
  /\ IF a \in WordAddr
     THEN /\ mem' = Poke(mem, a, Arm(Peek(mem, a)))
          /\ Push([addr |-> a, code |-> SavedCode(a)])
     ELSE Push([addr |-> a, code |-> [d \in Offset |-> Bits]]) /\ UNCHANGED mem
  /\ UNCHANGED <<sdb, conf, lid, tracee, rip, stepped>>

\* setbreak(): only the byte at a is changed.
SetBreak(a) ==
  /\ Typed("break") /\ status = RUNNING /\ ~Wrapped
  /\ InRange(a) /\ Free(a)
  /\ "break here" \in Avoid => a # rip
  /\ tracee = "stopped" /\ a \in WordAddr
  /\ mem' = Poke(mem, a, Arm(Peek(mem, a)))
  /\ Push([addr |-> a, code |-> SavedCode(a)])
  /\ UNCHANGED <<sdb, conf, lid, tracee, rip, stepped>>

\* PTRACE_POKETEXT fails: there is no tracee, or no word is mapped at a.  Or
\* the exist test runs off the end of the list.
SetBreakFails(a) ==
  /\ Typed("break") /\ status = RUNNING
  /\ InRange(a) /\ Free(a)
  /\ tracee # "stopped" \/ a \notin WordAddr \/ Wrapped
  /\ Die
  /\ UNCHANGED <<conf, lid, bpVars, mem, rip, stepped>>

DeleteMem_Self(did) ==  \* mutant: include_self, the element is still listed
  LET b == slots[did]
  IN  Poke(mem, b.addr, Alternate(b.code, b.addr, Bps, TRUE, TRUE))

\* deletebreak() writes the word back with 0xcc for the other breakpoints.
DeleteMem(did) ==
  LET b == slots[did]
  IN  Poke(mem, b.addr, Alternate(b.code, b.addr, Bps, TRUE, FALSE))

\* The careful user does not delete an id below that of the breakpoint the
\* program is stopped at: erase() would shift what lid refers to.
DeleteBreak(did) ==
  /\ Typed("delete") /\ status = RUNNING
  /\ "delete below" \in Avoid => did >= lid
  /\ tracee = "stopped"
  /\ mem' = DeleteMem(did)
  /\ Erase(did)
  /\ UNCHANGED <<sdb, conf, lid, tracee, rip, stepped>>

\* PTRACE_POKETEXT fails without a tracee, or at the address that was never
\* written in a slot that was never used; stoi() throws on what is not a number,
\* and nothing catches that; erase(end()) moves a block of negative length,
\* which crashes with some libraries; and alternate() runs off the end of a
\* list whose size has wrapped around.
DeleteFails ==
  /\ Typed("delete") /\ status = RUNNING
  /\ Die
  /\ UNCHANGED <<conf, lid, bpVars, mem, rip, stepped>>

\* The test did > size lets did = size through, 0 of an emptied list included.
\* bps[size] is then an old slot, whose word is written, and erase(end()) only
\* takes the end of the vector one back: the last breakpoint is dropped, or
\* size() wraps around, and sdb is back at its prompt.
DeletePastEnd ==
  /\ Typed("delete") /\ status = RUNNING
  /\ "delete past end" \notin Avoid
  /\ tracee = "stopped" /\ size \in 0 .. high - 1
  /\ mem' = DeleteMem(size)
  /\ size' = size - 1
  /\ UNCHANGED <<sdb, conf, lid, slots, high, tracee, rip, stepped>>

\* list() has no test of the status; dump() and disasm() do the same.
ListRunsOff ==
  /\ Typed("list") /\ Wrapped
  /\ Die
  /\ UNCHANGED <<conf, lid, bpVars, mem, rip, stepped>>

\* set rip val, to the address of an instruction.
SetRip(i) ==
  /\ Typed("set rip") /\ status = RUNNING
  /\ IF tracee = "stopped" THEN rip' = i /\ UNCHANGED <<sdb, tracee>>
                           ELSE Die /\ UNCHANGED rip
  /\ UNCHANGED <<conf, lid, bpVars, mem, stepped>>

\* One word of dump() and disasm(): the tracee's bytes, with 0xcc at every
\* listed breakpoint, the restored one included.
Shown_Restored(a) == Alternate(Peek(mem, a), a, Bps, FALSE, TRUE)  \* mutant: to_0xcc

Shown(a) == Alternate(Peek(mem, a), a, Bps, TRUE, TRUE)

Quit ==
  /\ Typed("exit")
  /\ Die
  /\ UNCHANGED <<conf, lid, bpVars, mem, rip, stepped>>

-----------------------------------------------------------------------------
(* The tracee, and what the kernel and the rest of the system do to it.    *)

\* execvp() succeeds and the child stops before its first instruction.
ExecOk ==
  /\ tracee = "fresh"
  /\ tracee' = "stopped" /\ mem' = Orig /\ rip' = StartPC /\ stepped' = FALSE
  /\ UNCHANGED <<sdb, conf, lid, bpVars>>

\* execvp() fails, and the child's errquit() ends it.
ExecFails ==
  /\ tracee = "fresh" /\ "exec" \in Faults
  /\ tracee' = "exited"
  /\ UNCHANGED <<sdb, conf, lid, bpVars, mem, rip, stepped>>

\* After one instruction a single step is over.
AfterInstruction == IF sdb = "si" THEN "stopped" ELSE "running"

ExecuteInstruction ==
  /\ tracee = "running" /\ Intact(rip)
  /\ \/ /\ rip' \in Succ[rip]
        /\ tracee' = AfterInstruction
     \/ /\ rip \in Exits
        /\ tracee' = "exited" /\ UNCHANGED rip
  /\ stepped' = TRUE
  /\ UNCHANGED <<sdb, conf, lid, bpVars, mem>>

\* An int3 is one byte long; the kernel leaves rip behind it.
ExecuteInt3 ==
  /\ tracee = "running" /\ Armed(rip)
  /\ rip' = rip + 1 /\ tracee' = "trapped"
  /\ stepped' = TRUE
  /\ UNCHANGED <<sdb, conf, lid, bpVars, mem>>

\* The bytes at rip are not an instruction of the program: it faults there,
\* or whatever they do ends the process.
ExecuteGarbage ==
  /\ tracee = "running" /\ ~Intact(rip) /\ ~Armed(rip)
  /\ tracee' \in {"stopped", "exited"}
  /\ stepped' = TRUE
  /\ UNCHANGED <<sdb, conf, lid, bpVars, mem, rip>>

\* A signal stops the tracee between two instructions; PTRACE_CONT with
\* signal 0 will drop it.  Without sdb nobody traces it.
Signal ==
  /\ tracee = "running" /\ sdb # "gone" /\ "signal" \in Faults
  /\ tracee' = "stopped"
  /\ UNCHANGED <<sdb, conf, lid, bpVars, mem, rip, stepped>>

Kill ==
  /\ "kill" \in Faults /\ (Alive \/ tracee = "fresh")
  /\ tracee' = "killed"
  /\ UNCHANGED <<sdb, conf, lid, bpVars, mem, rip, stepped>>

-----------------------------------------------------------------------------
(* waitpid() returns and sdb goes on to its next prompt.                   *)

StartMem_NoSetAll == StopMem(0)  \* mutant: setallbreak() is not called

StartMem == SetAllBreak(StopMem(0), Bps)

\* start() after a stop.  A breakpoint on the first instruction is restored
\* by waitstatus() and then armed again by setallbreak().  run() goes on with
\* cont().
StartStopped ==
  /\ sdb \in {"start", "runstart"} /\ tracee = "stopped" /\ ~Wrapped
  /\ mem' = StartMem
  /\ rip' = StopRip(0)
  /\ lid' = HitId(0)
  /\ status' = RUNNING
  /\ IF sdb = "start"
     THEN sdb' = "prompt" /\ UNCHANGED <<tracee, stepped>>
     ELSE sdb' = "cont" /\ Resume
  /\ UNCHANGED <<entry, tsize, bpVars>>

\* resetbreak() or restoreifbreak() runs off the end of the list.  start() sets
\* PTRACE_O_EXITKILL only after waitstatus(), so the child outlives sdb and runs
\* on with its text as it was loaded.
StartRunsOff ==
  /\ sdb \in {"start", "runstart"} /\ tracee = "stopped" /\ Wrapped
  /\ sdb' = "gone" /\ tracee' = "running"
  /\ UNCHANGED <<conf, lid, bpVars, mem, rip, stepped>>

\* start() after the child's death, before its exec or at it.  The result of
\* waitstatus() is not looked at until the end; setallbreak() writes to the
\* dead child, which ends sdb unless there is nothing to write, or copies a
\* vector whose size has wrapped around, which throws.
StartDied ==
  /\ sdb \in {"start", "runstart"} /\ tracee \in {"exited", "killed"}
  /\ IF size # 0
     THEN Die /\ UNCHANGED conf
     ELSE /\ tracee' = "reaped"
          /\ status' = RUNNING
          /\ sdb' = IF sdb = "runstart" /\ tracee = "exited"
                    THEN "cont" ELSE "prompt"
          /\ UNCHANGED <<entry, tsize>>
  /\ UNCHANGED <<lid, bpVars, mem, rip, stepped>>

StartKilled ==
  /\ sdb \in {"start", "runstart"} /\ tracee = "stopped"
  /\ KilledBeforePoke(lid >= 0 \/ HitId(0) >= 0 \/ size > 0)
  /\ UNCHANGED <<conf, lid, bpVars, mem, rip, stepped>>

CcByte_Always == 1  \* mutant: as if every stop were an int3's

CcByte == IF sdb = "cont" THEN 1 ELSE 0

\* waitstatus(): a stop, whatever its cause.
WaitStopped ==
  /\ sdb \in {"cont", "si"} /\ AtStop /\ ~Wrapped
  /\ mem' = StopMem(CcByte)
  /\ rip' = StopRip(CcByte)
  /\ lid' = HitId(CcByte)
  /\ sdb' = "prompt" /\ tracee' = "stopped"
  /\ UNCHANGED <<conf, bpVars, stepped>>

\* restoreifbreak(), if not resetbreak(), runs off the end of the list.
WaitRunsOff ==
  /\ sdb \in {"cont", "si"} /\ AtStop /\ Wrapped
  /\ Die
  /\ UNCHANGED <<conf, lid, bpVars, mem, rip, stepped>>

WaitKilled ==
  /\ sdb \in {"cont", "si"} /\ AtStop
  /\ KilledBeforePoke(lid >= 0 \/ HitId(CcByte) >= 0)
  /\ UNCHANGED <<conf, lid, bpVars, mem, rip, stepped>>

WaitDied_Quiet ==  \* mutant: the status is left alone on an exit too
  /\ sdb \in {"cont", "si"} /\ tracee \in {"exited", "killed"}
  /\ sdb' = "prompt" /\ tracee' = "reaped"
  /\ UNCHANGED <<conf, lid, bpVars, mem, rip, stepped>>

\* waitstatus(): an exit puts the status back to LOADED, a death by a signal
\* ("others") leaves it alone.
WaitDied ==
  /\ sdb \in {"cont", "si"} /\ tracee \in {"exited", "killed"}
  /\ status' = IF tracee = "exited" THEN LOADED ELSE status
  /\ sdb' = "prompt" /\ tracee' = "reaped"
  /\ UNCHANGED <<entry, tsize, lid, bpVars, mem, rip, stepped>>

WaitNoChild_Retry ==  \* mutant: a failed waitpid() is tried again
  sdb \in {"cont", "si"} /\ tracee \in {"none", "reaped"} /\ UNCHANGED vars

\* No child to wait for: errquit("waitpid").
WaitNoChild ==
  /\ sdb \in {"cont", "si"} /\ tracee \in {"none", "reaped"}
  /\ Die
  /\ UNCHANGED <<conf, lid, bpVars, mem, rip, stepped>>

-----------------------------------------------------------------------------

Init ==
  /\ sdb = "prompt" /\ status = NOT_LOADED
  /\ entry = 0 /\ tsize = 0 /\ lid = -1
  /\ slots = [i \in {} |-> 0] /\ size = 0 /\ high = 0
  /\ tracee = "none" /\ mem = Orig /\ rip = StartPC /\ stepped = FALSE

Command ==
  \/ Load \/ LoadUnreadable
  \/ Start \/ ForkFails
  \/ Cont \/ Si
  \/ \E a \in BreakInputs : SetBreak(a) \/ SetBreakFails(a)
  \/ \E did \in Ids : DeleteBreak(did)
  \/ DeleteFails \/ DeletePastEnd \/ ListRunsOff
  \/ \E i \in Instr : SetRip(i)
  \/ Quit

Return ==
  \/ StartStopped \/ StartRunsOff \/ StartDied \/ StartKilled
  \/ WaitStopped \/ WaitRunsOff \/ WaitKilled \/ WaitDied \/ WaitNoChild

Run == ExecOk \/ ExecuteInstruction \/ ExecuteInt3 \/ ExecuteGarbage

Interference == ExecFails \/ Signal \/ Kill

\* sdb has ended.
Ended == sdb = "gone" /\ UNCHANGED vars

Next == Command \/ Return \/ Run \/ Interference \/ Ended

Spec == Init /\ [][Next]_vars

\* The processor executes a runnable process, and waitpid() returns once there
\* is something to report.
Fairness == WF_vars(Run) /\ WF_vars(Return)

\* The user goes on with the program at every prompt, sooner or later.
FairSpec == Spec /\ Fairness /\ WF_vars(Cont)

-----------------------------------------------------------------------------
(* Properties.                                                             *)

\* Every variable has its type; an element of the vector, live or past the
\* end, is a breakpoint the user once set, at an address with a word, and the
\* size goes round to 2^64-1 but never on from there.
TypeOK ==
  /\ sdb \in {"prompt", "start", "runstart", "cont", "si", "gone"}
  /\ status \in {NOT_LOADED, LOADED, RUNNING}
  /\ entry \in {0, TextLo} /\ tsize \in {0, TextSize}
  /\ high \in Nat /\ size \in -1 .. high
  /\ lid \in -1 .. high - 1
  /\ slots \in [0 .. high - 1 -> [addr : BreakInputs \cap WordAddr, code : Word]]
  /\ tracee \in {"none", "fresh", "stopped", "trapped", "running",
                 "exited", "killed", "reaped"}
  /\ mem \in [Mapped -> Byte]
  /\ rip \in Nat
  /\ stepped \in BOOLEAN

\* Two ids never name the same address: the list, its searches and the ids
\* the user sees are unambiguous (setbreak's exist test, lines 347-354).
DistinctBreakpoints ==
  \A i, j \in Ids : slots[i].addr = slots[j].addr => i = j

\* The code kept for a breakpoint is the program's own word, without a trace of
\* the breakpoints that were armed when it was read (line 356), and stays so in
\* the slots that lid can still refer to.
SavedCodesGenuine ==
  \A i \in 0 .. high - 1 : slots[i].code = OrigWord(slots[i].addr)

\* What sdb writes around breakpoints (setbreak, deletebreak, resetbreak,
\* restoreifbreak, setallbreak) leaves every byte of the program as it was,
\* except for a 0xcc at the address of a listed breakpoint.
TextIntact ==
  Alive => \A x \in Mapped :
             mem[x] # Orig[x] => mem[x] = Int3 /\ x \in Listed

\* What dump() and disasm() show is the program with 0xcc at the listed
\* breakpoints, whether or not they are armed just now.  The last byte of a
\* shown word is left out: alterpart() ORs it.
ShownText ==
  sdb = "prompt" /\ tracee = "stopped" =>
    \A a \in WordAddr : \A d \in 0 .. WORD - 2 :
      Shown(a)[d] = IF a + d \in Listed THEN Int3 ELSE Orig[a + d]

\* "put 0xcc back when next wait arrived" (line 279): at a prompt the only
\* listed breakpoints without their 0xcc are the one lid remembers and those
\* its word covers.
WindowArmed ==
  sdb = "prompt" /\ tracee = "stopped" /\ status = RUNNING =>
    \A a \in Listed :
      mem[a] = Int3 \/ (lid >= 0 /\ a - slots[lid].addr \in Offset)

\* A program that runs under cont stops at every breakpoint on its way: once
\* it has left the instruction it was resumed at, it never executes an
\* instruction with a listed breakpoint on it.
NotMissed ==
  [][ tracee = "running" /\ stepped /\ rip \in Listed =>
        ~ExecuteInstruction ]_vars

\* A breakpoint that has stopped the program does not stop it again when it is
\* continued: an int3 is reached only after an instruction, but for the first
\* instruction of the program, where setallbreak() arms again what start() restored.
NotTwice ==
  [][ ExecuteInt3 /\ ~stepped => rip = StartPC ]_vars

\* At a prompt rip is at the start of an instruction, never inside one.
OnBoundary ==
  sdb = "prompt" /\ tracee = "stopped" => rip \in Instr

\* RUNNING means there is a process to debug (start, cont, waitstatus).
RunningMeansLive ==
  sdb = "prompt" /\ status = RUNNING => tracee = "stopped"

\* The breakpoints and the stops are invisible to the program: what it does
\* under sdb it also does without a debugger.  While an int3 is reported its
\* own address stands for rip, which the handler puts back.
Program == INSTANCE Undebugged WITH
  alive <- Alive,
  pc    <- IF ~Alive THEN StartPC ELSE IF tracee = "trapped" THEN rip - 1 ELSE rip

Transparent == Program!PSpec

\* Every command comes back to the prompt, or sdb ends.
CommandReturns == Waiting ~> (sdb \in {"prompt", "gone"})

\* A program without loops, continued at every stop, comes to its end: no
\* breakpoint stops it twice for the same visit.
ProgramEnds == Alive ~> ~Alive
=============================================================================
