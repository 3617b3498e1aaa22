# TLA+ models of the four programs

The repository holds four homework programs of a course on the UNIX environment:

| directory | program | what it is |
|---|---|---|
| `310551113_hw4` | `sdb.cpp` | a ptrace debugger with software breakpoints |
| `310551113_hw2` | `hw2.cpp`, `lib.cpp`, `utils.hpp` | a logger of file calls, by LD_PRELOAD |
| `310551113_hw3` | `libmini.c`, `libmini64.asm` | a small C library with signals, setjmp and longjmp |
| `310551113_hw1` | `hw1.cpp` (`_hw1.cpp` is a draft that is not built) | an lsof over /proc |

They share no code. What they have in common is that each runs beside something it
does not control: a debugged process, the threads of a host program, signal handlers,
the processes of the system. The models are about that.

## Inventory

**sdb.** State: the status (NOT LOADED, LOADED, RUNNING), the entry point and size of
`.text`, the vector of breakpoints with the word that was at each address, `lid` (the
index of the breakpoint whose 0xcc has been taken out because the program is stopped at
it), and the child's pid. The program's own state, its memory and `rip`, is changed by
the processor and by sdb's PTRACE_POKETEXT. Operations: load, start, run, cont, si,
break, delete, set, exit, and commands that only read. Interaction: ptrace requests,
and waitpid() in `waitstatus()`, which first re-arms `lid` (`resetbreak`) and then
takes out the breakpoint that was hit (`restoreifbreak`). Hard: every POKETEXT writes
eight bytes, so breakpoints close to each other overwrite each other and each write has
to rebuild its neighbours (`alternate`); `lid` is an index into a vector that shrinks; a
stop has many causes and the code asks for none of them; the child may die at any time.
Correct means: the program's text is never damaged, the saved words are the program's
own, every breakpoint that is reached stops the program, and the program does under sdb
what it does without.

**Logger.** The launcher opens the log, moves it to descriptor 5 and starts the program
with the library preloaded. Each wrapper calls the real function through a pointer that
a template instance caches, looks the names of its arguments up and prints a line to
descriptor 5. State: the descriptor table, the cached pointers. Hard: the program's
threads run wrappers concurrently, names are looked up after the call, the log's
descriptor belongs to the program's table. Correct means: the log stays where it is,
lines name the right files, and the program's calls have their plain effects.

**libmini.** System call wrappers that store `errno`; perror; signal, sigprocmask,
sigaction with its restorer, alarm, pause, sleep; setjmp and longjmp with the mask.
State: `errno`, the mask, the jump buffer, the stack of handlers. Hard: a handler runs
between any two instructions and may call the library or jump out. Correct means:
`errno` belongs to the call that failed, perror prints the error it was called with,
main() runs with the mask it asked for.

**hw1.** Reads /proc once for all processes, filters rows, prints them with column
widths computed from the same rows. State: the rows of the process it visits and of those
before it, `inode_pool`, and its own descriptors, as `iterate_fd()` never calls closedir().
Operations: get_command and get_user, which decide whether a process is listed; the links
cwd, rtd and txt; the lines of maps; the entries of the descriptor directory. Hard:
processes, descriptors and files vanish between any two of these calls; a call that fails
decides what happens to rows already read; the pool is one variable for all processes.
Correct means: what is listed is true, a process of the user that is there all the time is
listed with everything it has mapped, no file is listed as mapped twice.

`PROJECT.json` lists the components, and under `hazards` each thing in this code that a
test would hardly reach, with its line and the property that is about it.

## Modules

| module | models | lines |
|---|---|---|
| `SdbText` | words, and `alterpart`, `alternate`, `setallbreak` as pure operators | sdb.cpp 181-197, 307-315 |
| `SdbTextCheck` | the same three as the code computes them: 64-bit masks, loops over the vector | the same |
| `Sdb` | the debugger, its tracee and the kernel between them | sdb.cpp 236-396, 472-612 |
| `Undebugged` | the program with no debugger: the abstract specification of `Sdb` | - |
| `Logger` | the launcher and the wrappers under several threads | hw2.cpp 42-61, lib.cpp, utils.hpp |
| `Libc` | the file calls with no logger: the abstract specification of `Logger` | - |
| `LibMini` | the wrappers, signals, setjmp/longjmp, perror | libmini.c, libmini64.asm |
| `Scan` | one pass over /proc, and the processes it describes | hw1.cpp 100-371 |
| `SdbProofs` | theorems: the list of breakpoints, the saved words, the text | - |
| `SdbRunProofs` | theorems: where the program stops, and that it runs as without sdb | - |
| `SdbTextProofs` | theorems: the code's arithmetic and loops do what `SdbText` says | - |
| `LoggerProofs`, `LibMiniProofs` | theorems | - |
| `ScanProofs`, `ScanListProofs` | theorems: the rows that are listed; those that must be | - |
| `Least` | a set of numbers has a least element, induction over the turns of a loop; for the proofs | - |
| `MC...` | instances for TLC | - |

**Sdb.** A command is one action up to its prompt or its waitpid(): sdb is one thread
and the tracee is stopped while sdb works. `Start`, `Cont` and `Si` end in waitpid();
`ExecOk`, `ExecuteInstruction`, `ExecuteInt3`, `ExecuteGarbage` move the tracee;
`StartStopped`, `StartDied`, `WaitStopped`, `WaitDied`, `WaitNoChild` are what follows
waitpid(), with resetbreak, restoreifbreak and setallbreak inside. A SIGKILL may come at
any time, also between waitpid() and the POKETEXT after it (`StartKilled`,
`WaitKilled`). errquit() and exit() are `Die`; PTRACE_O_EXITKILL takes the tracee along.
`run` is Start followed by cont in the same command. The vector keeps the slots past its
end (`slots`, `size`, `high`), because `lid` and `delete` can read them. `delete 0` on an
emptied list passes the test `did > size`, and erase(end()) makes `size()` 2^64-1, with sdb
back at its prompt: the model's `size` is then -1 (`Wrapped`). The next search of the list
runs off the heap: `SetBreakFails`, `DeleteFails` and `ListRunsOff` at the prompt,
`WaitRunsOff` after a stop, and `StartRunsOff` in start(), where the child outlives sdb,
because PTRACE_O_EXITKILL is set after waitstatus() only. A byte is the
set of its bits, so the OR in `alterpart` is a union. A command that is refused with a
message changes nothing and is no action; `list` is one for a wrapped list only.

Data that is left out: registers other than rip, the contents of the output, path names,
the parsing of the ELF file (its outcomes are modelled), PTRACE_PEEKTEXT errors.

**Logger.** A wrapper is three steps of its thread: the real call (`Invoke`), the lookup
of names (`Resolve`), the line (`Report`); fclose looks its name up in `Enter`. A thread
uses descriptors that it has opened and not closed. `creat64`, `open64` and `tmpfile64`
are `creat`, `open` and `tmpfile`. Which system-wide number an open returns is free in
`Libc`, because with the logger the program gets other numbers.

**LibMini.** The stack has a frame for main() and one for every running handler. A
wrapper is a system call and a store to `errno`; `read`, `pause` and `sleep` also wait,
and a handler ends the wait unless SA_RESTART applies. `setjmp` stores registers, then
the mask; `longjmp` switches the stack, then sets the mask; a handler may run in between.
A signal has a handler, SIG_IGN or SIG_DFL; an ignored one is dropped when it is sent or
delivered, a default one ends the program. `Expire` is an alarm that goes off. perror()
tests the errno that its own writes of the prefix have left and indexes `errmsg` with the
one it began with: `Messages` are the texts that may come out, and `PerrorCrash` is the
fault that reading past the table may be.

**Scan.** Every system call of the scanner is a step, from `NextPid` (readdir on /proc) to
`FdCall` (one of the four calls on a descriptor); what it does with the answer is in the
same step. `World` is the rest of the system: processes begin, end and are reaped,
descriptors are opened and closed, files are deleted. A directory is read in blocks, so
readdir() may return an entry that is gone. `held` counts the scanner's descriptors; a
call that needs one more fails when there is none (`Room`). Three things the code does
that a reader may not expect are in the model as they are: a process whose uid has no
entry in /etc/passwd is dropped; so is every process whose maps cannot be opened, which
are those of other users, after their links have been read; and one descriptor that
vanishes under `iterate_fd()` leaves the process listed with none. A name is cut at its
first blank by `clear_deleted()`; the model's names have none. The directories of mapped
files can be searched, so lstat() fails for deleted files only.

## Runs

`Avoid` in `Sdb` and `Careful` in `LibMini` are what the user takes care of. Each entry
stands for a hazard; the property that needs it fails without it:

- "step armed": no single step from an address where 0xcc is armed (a breakpoint set at
  the current rip, or `set rip` to one). The int3 would be executed and nothing puts rip back.
- "delete below": no deletion of an id below that of the breakpoint the program stands at.
- "delete past end": no deletion of an id equal to the number of breakpoints, 0 on an
  emptied list included.
- "break here": no breakpoint at the current rip.
- "saveErrno", "jumpLate": handlers restore errno, and jump only once setjmp() has returned.

| run | instance | what it shows |
|---|---|---|
| `sdb_all` | no care, all faults, a breakpoint address that cannot be written | types, also of a list whose size has wrapped around; two ids never share an address |
| `sdb_careful` | care, all faults, three addresses, two of them in one word | the saved words are genuine, the text is intact, dump and disasm show the truth, only `lid`'s word is disarmed, rip is on an instruction |
| `sdb_transparent` | no faults, rip not set by hand | `Sdb` implements `Undebugged`; RUNNING means a live process |
| `sdb_progress` | breakpoints at least WORD apart, a program without loops, fairness | no breakpoint is run over or stops the program twice, commands return, the program ends |
| `sdb_text` | words of 8 bytes of 8 bits, vectors of up to 3 breakpoints in all orders | the code's arithmetic and loops are what `SdbText` says |
| `sdb_last_byte` | breakpoints WORD - 1 apart | **fails**: a byte becomes the program's byte ORed with 0xcc |
| `sdb_adjacent` | breakpoints 2 apart | **fails**: cont from the lower one runs over the upper one |
| `logger` | two threads, two files, four descriptors | the log stays, names are right, calls are transparent |
| `logger_launch` | descriptors 3 and 4 taken | **fails**: `-o` logs nothing |
| `libmini` | two signals, handlers two deep, an error in perror's table and one that is not | errno, perror and the mask |
| `libmini_alarm` | alarms that are set again in handlers, fairness | an alarm ends every wait of main() |
| `scan` | five processes, three descriptors each, two changes | rows are true, nothing of the user's is lost, no mapped file twice, descriptors all or none, the scanner never goes back |

*Bounds.* The programs under sdb have five instructions in twelve bytes, with lengths of
one and two bytes, a loop or none, and words of four (or two) bytes: small enough to
enumerate, and with every relation two breakpoints can have: same word in both orders,
last byte of a word, disjoint words, on a one-byte instruction, outside the text. Bytes
have two bits; that is enough to tell 0xcc, a program byte and the OR of the two apart.
`sdb_text` closes the gap to the real widths. Addresses are taken modulo `AddrMod`, which
shows the wrap-around of the range test when the text size is 0. For the logger two
threads and four descriptors let a descriptor be closed by one thread, reopened by the
other and looked up by the first, and let opens fail for want of descriptors. For libmini
`MaxDepth` = 3 lets a handler interrupt a handler, `Masks` are the masks asked for. For the
scan, processes 1, 3 and 5 are the user's, 2 is another user's and 4 a kernel thread that
may start late; two changes (`MaxChanges`) let a descriptor be closed and opened again, or
a process end and be reaped, or one descriptor go and another process end, between the
calls of one row. `OpenMax` = 3 gives room for /proc and two leaked descriptors: once 1
and 3 are listed, process 5 is lost for want of one more (`Complete` fails without
`Sufficient`). All map a library twice, to have the pool at work.

*Deadlock* is checked everywhere but in the two runs of `LibMini`, where pause() with all
signals blocked does wait for ever, and a signal with SIG_DFL ends the program.

*Fairness.* `FairSpec` of `Sdb`: the processor executes a runnable process (`Run`),
waitpid() returns when there is something to report (`Return`), and, for `ProgramEnds`,
the user types cont again and again (`Cont`). No fairness is assumed of faults, nor of
the other commands. `FairSpec` of `LibMini`: time passes, so an alarm goes off (`Expire`);
a signal that is let through is delivered; and, strongly, the frame on top of the stack
gets to its next store, and a handler to its return, when it is on top again and again,
for signals come with time between them. Nothing makes main() call anything. `Scan` states
no fairness: its properties are about safety.
`AlarmEndsWait` leaves out one case the code has: signal() gives every handler but that of
SIGALRM the flag SA_RESTART, so a read() restarts if the alarm is taken inside the handler
of another signal, and the alarm is lost to it.

*Logger calls.* The run has no two of chmod, creat and creat64, and no two other
functions of one type. `call_from_libc` keeps one pointer for each type: with chmod and
creat in `Calls`, `Transparent` fails, because creat then changes modes.
`Instance` models it, and the symbols of the library built from `lib.cpp` show the one
variable. It is a hazard in the list and not a run, as no text of the repository
promises otherwise. Likewise `NamesRight` leaves out close(), whose name is looked up
after the descriptor has been freed.

*Errors of libmini.* The run has EINTR, which perror's table has, and EDQUOT (122), which it
has not. `PerrorRight` is what the code does keep: without a prefix the entry of the error,
or "Unknown" outside the table; after a prefix "Unknown" may come instead, if a write failed
with such an error, but never the entry of another error. For a number outside the table a
prefix leaves nothing to promise: errno is 0 after the write, and errmsg[122] is read. That
is a hazard in the list and not a run, as no text of the repository promises otherwise.

## Findings

1. `sdb.cpp:182`: a shift by 64 makes the last byte of a word an OR (`sdb_last_byte`).
2. `sdb.cpp:299`: breakpoints just above the one the program stands at are disarmed until
   the next stop and missed by cont (`sdb_adjacent`).
3. `hw2.cpp:46`: the log is closed when open() returns 5 (`logger_launch`).

## Proofs

`SdbProofs` holds for all values of the constants: any word width from 2, any program,
any memory, any breakpoints, commands, faults and user.

- `TypeCorrect`: `Spec => []TypeOK`. TypeOK is inductive: it bounds `lid` by the storage
  rather than by the list, which is what deletions keep, and the size by the -1 it has once
  it has wrapped around.
- `Distinct`: `Spec => []DistinctBreakpoints`, from TypeOK and one lemma each for
  push_back and erase.
- `CodesSafe` and `TextSafe`: `Spec => []SavedCodesGenuine` and `Spec => []TextIntact`,
  assuming `NoEdgePair` (no two addresses are WORD - 1 apart) and `NoPastEnd` (no
  deletion past the end). The runs `sdb_last_byte` and `sdb_all` have behaviours that
  need them.

Neither SavedCodesGenuine nor TextIntact is inductive alone: a saved word is genuine
because the memory it was read from is the program's except at listed addresses, whose
bytes `alternate` repairs from the other saved words; and the memory stays intact because
what is written back comes from saved words. `TextInv` is their conjunction with TypeOK.
It speaks of all slots up to `high`, not only of the list, because a stale `lid` may make
`resetbreak` write from a slot past the end: that may arm or disarm the wrong
breakpoint, and still does no damage to the text. `GenuineWord` and `PokePatched` are the
two lemmas about a word and a write; `ResetPatched`, `StopPatched`, `StartPatched` apply
them to the code's four writers, with `Nearest` for the order in setallbreak.

`SdbRunProofs` goes on from there, and says of each theorem what it takes:

| theorem | shows | assumes |
|---|---|---|
| `ShownRight` | `[]ShownText` | `NoEdgePair`, `NoPastEnd` |
| `RunningLive` | `[]RunningMeansLive` | `Undisturbed`: no "kill" and no "exec" among the faults |
| `OnInstructions` | `[]OnBoundary` | `Careful` |
| `OwnInstructions` | no step is `ExecuteGarbage` | `Careful` |
| `Implements` | `Transparent`, the refinement of `Undebugged` | `Careful`, `Untouched` |
| `Armament` | `[]WindowArmed` | `NoEdgePair`, `NoPastEnd`, `NoDeleteBelow` |
| `NothingMissed` | `NotMissed` | `AtInstructions`, `NoStepArmed`, `NoPastEnd`, `Apart`, `Untouched`, a program without loops |
| `StoppedOnce` | `NotTwice` | `AtInstructions`, `NoStepArmed`, `NoPastEnd`, `Apart`, `Untouched`, `NoBreakHere` |

`Careful` is `NoEdgePair`, `NoPastEnd`, breakpoints at the start of instructions
(`AtInstructions`) and no single step from an armed int3 (`NoStepArmed`). `Untouched` is: no
signal stops the program and rip is not set by hand. The program may be killed at any
time and its exec may fail, in all but `RunningLive`. `Apart` is that addresses are WORD or
more apart. A program is without loops if some `rank` rises along its control flow
(`Ordered`); in a loop a breakpoint that `lid` has disarmed would be met again, and
`sdb_adjacent` shows the same between two that are close.

None of these properties is inductive, as each is about a prompt only:

- `ControlInv` says who waits for whom: a running program is under cont or si, a forked one
  is waited for by start. Only a child that start() abandons with a wrapped list runs without
  sdb, and without a deletion past the end no list wraps. `LiveInv` adds what the tracee may be at each wait, so a death is
  seen by waitpid(), which puts the status back.
- `BoundaryInv` follows rip while the program runs: it is at an instruction, or, in a trap,
  one byte past the 0xcc of a listed breakpoint, and traps happen under cont only, where
  `ccbyte` is right for them. It needs `TextInv`, for the instruction must be the program's.
- `StopInv`: when the program has stopped, sdb no longer waits in cont(); so each of its
  stops was an int3 that was put back, which is the step that stutters in `Undebugged`.
- `WindowInv` is WindowArmed while the program runs as well. resetbreak() arms again
  everything in the word of `lid` (`ResetByte`), and deletions above `lid` leave it the
  breakpoint it names.
- `PassedInv`: a breakpoint without its 0xcc has a rank below the program's place, or is
  the one it stands at and has not left.
- `ClearInv`: a program at a prompt, or resumed and not yet run, is not at a 0xcc. That
  takes every step: an int3 that was met is replaced by the program's own byte, which comes
  from a genuine saved word (`ClearStop`); setbreak() changes no other address (`ArmOther`);
  deletebreak() arms its neighbours, and the one the program is at is none (`ClearDelete`);
  and under a single step no breakpoint at rip - 1 may be taken for the cause of the stop,
  which is what `ccbyte` is for. `NoBreakHere` is "break here". The first instruction is an
  exception of the code: setallbreak() arms what start() has just restored. Programs with
  loops are included, so this is the safety half of ProgramEnds without its assumption.

`SdbTextProofs`: that `SdbText`, which speaks of sets and functions, is what the code's
arithmetic and loops compute. `AlterPartRight` is BitsAgree for every word of eight bytes (WORD = 8 is
assumed, as the double of `pow()` matters), from `BitsAltered`, which says it of every new
byte, too: the shifts, the `pow()` that loses its 1, and the shift by 64 add up to replacing
one byte, and to an OR at the last one. `AlternateRight` and `SetAllBreakRight` are about the
loops, for vectors of any length and order whose addresses differ (`Vector`): after i turns
the word, or the memory, is what the operator gives for the first i breakpoints (`Passed`),
and one turn adds one of them (`PassedOneMore`, `TurnAlternates`, `PokeSetsOneMore`). The
theorems of the library that do induction cannot be used here, so `Least` has its own, over
a set of numbers (`UpTo`), and shows that a loop written as a recursive function has a value
after each turn (`LoopExists`). `SortedRight` proves that the sorted vector setallbreak()
walks exists and holds the same breakpoints. `AlternateKept` and `SetAllKept` are the two
invariants of `sdb_text`.

`LibMiniProofs`: any number of signals, any depth of handlers, any masks.

- `TypeCorrect`, from five lemmas on the stack: a step changes the top frame, pushes one,
  pops one or cuts the stack down to main().
- `MaskKept`: `Spec => []MaskAsAsked` if handlers jump only once setjmp() has returned
  ("jumpLate"). `MaskInv` adds what the frames below have saved: a handler restores the
  mask of the frame it interrupted, so the mask main() asked for is in the handler just
  above it (`HandlersOut`), and the jump buffer holds the mask that setjmp() was called
  with, or, between its two steps, will (`BufferRight`).
- `ErrnoKept`: `Spec => []ErrnoRight` if handlers put errno back ("saveErrno"). `ErrInv`
  says where the error of an interrupted frame is: in the handler above, and for the top
  frame in errno.
- `PerrorKept`: `Spec => []PerrorRight` if handlers put errno back, for all error numbers,
  in the table or not. `PerrorInv` is `ErrInv` for the errno that perror() began with: a
  frame that is about to choose its message without a prefix (`Choosing`) finds that number
  in errno, or, if it is interrupted, in the handler above. `MessageRight` is the step that
  prints.

`LoggerProofs`: any number of threads, descriptors, files and calls.

- `TypeCorrect`; `CallInv` gives every call in progress its shape and says that the cached
  pointers are real functions.
- `NamesKept`: `Spec => []NamesRight`. `HoldInv` says that a descriptor has one owner and
  is open, and that a thread in a call on it owns it; so it is still open on the same file
  when its name is looked up (`NameInv`).
- `LogStays`: `Spec => []LogKept` under `LaunchAssumption`: the file can be opened and
  open() returns something else than `FD`. `logger_launch` is why it is needed.
- `CallsKept`: `Spec => Transparent`, the refinement of `Libc`, under `LaunchAssumption`
  and `OwnPointers`, which is that no two functions in use share a pointer, as chmod and
  creat do. `NoneAssumption` says that the constant None is no request and no result.

`ScanProofs`: any processes, maps, inode numbers, and changes of the world.

- `TypeCorrect`: `Spec => []TypeOK`; `VisitOK` says which cells of a row are filled in
  after how many calls, so that a row without a name is never pushed.
- `PooledOnce`: `Spec => []MappedOnce`. `PoolInv` says that the pool has the node of every
  mapped file among the rows of this visit, whatever else is in it, and that there are no
  mapped files before the program itself, which is inserted without a test.
- `RowsRight`: `Spec => []RowsTrue`, with no assumption but those on the types of the
  constants. `TrueInv` says of a row that is half filled in what its cells so far are: right,
  unless the process has died (`LinkPart`), or the descriptor has been closed since, or
  opened twice (`FdPart`); of lines and entries read and not yet used, that there was such a
  file or descriptor (`Rest`); and of the history, that an open descriptor is on the last
  file it was opened on (`WorldTrue`). `Grown` is all that a step of the world can do to a
  process that has begun, and `RowStays` that none of it makes a row false.

`ScanListProofs`: the same, about what is not listed.

- `DescriptorsWhole`: `Spec => []FdsWhole`. `Ascending` says that the entries left of a
  directory are above the one in use; `FdsInv` that a descriptor which stays open is in
  `fdFiles`, in the row in use, among the entries left, or above all of them, so that
  readdir() still returns it (`BlockNext`). Without a descriptor that goes away no call
  of the four fails, and the process keeps them all.
- `NeverBack`: `Spec => Onward`. From `Ascending` and the cases of each call, the place of
  the scanner (process, part of its visit, item in that part, call on it) only grows in
  lexicographic order, so nothing that comes and goes can make it start anything over.
- `NothingLost`: `Spec => []Complete`, if the files that a process has mapped, and its
  program, have inode numbers of their own (`NodesDiffer`). `inode_pool` compares numbers and no
  devices, so the second of two files with one number has no row: the assumption is
  what the code asks of the system, and the instance of `scan` has it. `HeldInv` counts the
  leaked descriptors: at most one for each process of the user before this one, so
  `Sufficient` leaves `Room` for every call of the visit. `FullInv` has the rest: a process
  of the user is passed, or among the entries left, or above them (`Passed`); once passed it
  has all its rows; during its visit the links before this one have rows (`Links`), each
  mapped file has a row or a line not yet used (`MapsRead`), and what is in the pool has a
  row of this visit (`PoolRows`), which a pool that is not emptied would break.

Only model-checked, as liveness under fairness is out of the prover's reach: CommandReturns,
ProgramEnds and AlarmEndsWait. `NotTwice`, `NotMissed` and `Onward` are action
properties that their arguments rest on, and are proved.

## Not modelled

- sdb: registers other than rip, the parsing of command lines and of the ELF file, the end
  of the input, at which the prompt repeats for ever.
- Logger: the options and the command line of the launcher, quoting and the layout of a
  line, errno after a wrapper (readlink() and realpath() may change it; the repository
  promises nothing about it).
- LibMini: the value given to longjmp (0 is handed on as 0), the seconds that sleep()
  returns (there is no clock), null pointers, what sigaction() returns of the old action.
- Scan: exec, chdir and mmap of a process during its visit, and pids used twice; regular
  expressions, column widths and the layout of the output, which only read finished rows.
- The draft `_hw1.cpp`, which the Makefile does not build.

## Plan

Done: the core (`SdbText`, `Sdb`, `Undebugged`), `Logger` with `Libc`, `LibMini` with its
liveness, `Scan`, and theorems about each: every safety property that a passing run
checks, be it an invariant, an action property or a refinement, is one. Next: errno in
`Logger`.
