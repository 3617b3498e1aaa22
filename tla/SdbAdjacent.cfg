\* Two breakpoints less than WORD apart.
CONSTANTS
  WORD = 4
  LastAddr = 11
  TextLo = 1
  TextSize = 8
  AddrMod = 16
  StartPC = 1
  Bits <- MCBits
  Int3 <- MCInt3
  Orig <- MCOrig
  Instr <- MCInstr
  InstrLen <- MCInstrLen
  Exits <- MCExits
  Succ <- MCStraight
  BreakInputs = {1, 3}
  Commands = {"load", "start", "run", "cont", "si", "break", "delete", "exit"}
  Faults = {}
  Avoid = {"step armed", "delete below", "delete past end"}
SPECIFICATION Spec
PROPERTY NotMissed
