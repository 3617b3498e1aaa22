\* A program without loops, breakpoints at least WORD apart.
CONSTANTS
  WORD = 2
  LastAddr = 11
  TextLo = 1
  TextSize = 8
  AddrMod = 16
  StartPC = 1
  Bits <- MCBits
  Int3 <- MCInt3
  Orig <- MCOrig
  Instr <- MCInstr
  InstrLen <- MCInstrLen
  Exits <- MCExits
  Succ <- MCStraight
  BreakInputs = {1, 3, 8}
  Commands = {"load", "start", "run", "cont", "si", "break", "delete", "exit"}
  Faults = {"exec", "kill"}
  Avoid = {"step armed", "delete past end", "break here"}
SPECIFICATION FairSpec
PROPERTIES NotMissed NotTwice CommandReturns ProgramEnds
