\* Every command and every fault, with no care taken by the user.  The last
\* breakpoint address is one that can not be written.
CONSTANTS
  WORD = 4
  LastAddr = 11
  TextLo = 1
  TextSize = 8
  AddrMod = 16
  StartPC = 1
  Bits <- MCBits
  Int3 <- MCInt3
  Orig <- MCOrig
  Instr <- MCInstr
  InstrLen <- MCInstrLen
  Exits <- MCExits
  Succ <- MCLoop
  BreakInputs = {1, 4, 12}
  Commands = {"load", "start", "run", "cont", "si", "break", "delete", "list", "set rip", "exit"}
  Faults = {"exec", "signal", "kill"}
  Avoid = {}
SPECIFICATION Spec
INVARIANTS TypeOK DistinctBreakpoints
