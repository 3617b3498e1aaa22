\* Every command and every fault, by a careful user, with no two breakpoint
\* addresses at distance WORD - 1.
CONSTANTS
  WORD = 4
  LastAddr = 11
  TextLo = 1
  TextSize = 8
  AddrMod = 16
  StartPC = 1
  Bits <- MCBits
  Int3 <- MCInt3
  Orig <- MCOrig
  Instr <- MCInstr
  InstrLen <- MCInstrLen
  Exits <- MCExits
  Succ <- MCLoop
  BreakInputs = {1, 3, 8}
  Commands = {"load", "start", "run", "cont", "si", "break", "delete", "set rip", "exit"}
  Faults = {"exec", "signal", "kill"}
  Avoid = {"step armed", "delete below", "delete past end"}
SPECIFICATION Spec
INVARIANTS SavedCodesGenuine TextIntact ShownText WindowArmed OnBoundary
