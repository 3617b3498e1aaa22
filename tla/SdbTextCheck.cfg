\* Every vector of at most three breakpoints, in every order, below, in and
\* above the word at 8.
CONSTANTS
  WORD = 8
  LastAddr = 31
  Base = 8
  MaxBps = 3
  Bits <- MCBits
  Int3 <- MCInt3
  Orig <- MCOrig
  Addrs <- MCAddrs
  Words <- MCWords
SPECIFICATION Spec
INVARIANTS BitsAgree AlternateAgrees SetAllAgrees
