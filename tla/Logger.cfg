\* Two threads that open, rename, write and close; the log is a file or stderr.
CONSTANTS
  Threads = {t1, t2}
  Files = {f1, f2}
  FD = 5
  LogFile = log
  Other = other
  None = none
  Calls = {"open", "rename", "write", "close", "fclose"}
  ToFile = {TRUE, FALSE}
  CanOpen = {TRUE}
  Fds <- MCFds
  Inherited <- MCInherited
SYMMETRY MCSymmetry
SPECIFICATION Spec
INVARIANTS TypeOK LogKept NamesRight
PROPERTIES Transparent
