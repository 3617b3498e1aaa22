\* Two breakpoints at distance WORD - 1.
CONSTANTS
  WORD = 4
  LastAddr = 11
  TextLo = 1
  TextSize = 8
  AddrMod = 16
  StartPC = 1
  Bits <- MCBits
  Int3 <- MCInt3
  Orig <- MCOrig
  Instr <- MCInstr
  InstrLen <- MCInstrLen
  Exits <- MCExits
  Succ <- MCLoop
  BreakInputs = {1, 4}
  Commands = {"load", "start", "run", "cont", "si", "break", "delete", "exit"}
  Faults = {}
  Avoid = {"step armed", "delete below", "delete past end"}
SPECIFICATION Spec
INVARIANT TextIntact
