\* The program under sdb is the program without it: rip is not set by hand and
\* no signal arrives.
CONSTANTS
  WORD = 4
  LastAddr = 11
  TextLo = 1
  TextSize = 8
  AddrMod = 16
  StartPC = 1
  Bits <- MCBits
  Int3 <- MCInt3
  Orig <- MCOrig
  Instr <- MCInstr
  InstrLen <- MCInstrLen
  Exits <- MCExits
  Succ <- MCLoop
  BreakInputs = {1, 3, 8}
  Commands = {"load", "start", "run", "cont", "si", "break", "delete", "exit"}
  Faults = {}
  Avoid = {"step armed", "delete past end"}
SPECIFICATION Spec
INVARIANTS RunningMeansLive
PROPERTIES Transparent
