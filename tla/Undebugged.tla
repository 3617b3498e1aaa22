---------------------------- MODULE Undebugged -----------------------------
(***************************************************************************)
(* The program as it runs without a debugger: the behaviour sdb promises   *)
(* to preserve.  It is started, executes one instruction at a time along   *)
(* the edges of its control flow, and ends by itself or by a signal.       *)
(***************************************************************************)
CONSTANTS
  Instr,    \* the addresses at which an instruction starts
  Succ,     \* the instructions that can follow an instruction
  Exits,    \* the instructions that can end the process
  StartPC   \* the first instruction executed

VARIABLES pc, alive

pvars == <<pc, alive>>

\* A process that is not alive has no program counter: StartPC stands for it.
PInit == pc = StartPC /\ alive = FALSE

\* A new process image starts at its first instruction.
Begin == ~alive /\ alive' = TRUE /\ pc' = StartPC

Execute == alive /\ pc' \in Succ[pc] /\ UNCHANGED alive

Finish == alive /\ pc \in Exits /\ alive' = FALSE /\ pc' = StartPC

\* SIGKILL, from outside or because the debugger that owned it is gone.
Killed == alive /\ alive' = FALSE /\ pc' = StartPC

PNext == Begin \/ Execute \/ Finish \/ Killed

PSpec == PInit /\ [][PNext]_pvars
=============================================================================
