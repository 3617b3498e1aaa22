\* The logger is started with 3 and 4 open and 5 free, and with -o.
CONSTANTS
  Threads = {t1}
  Files = {f1}
  FD = 5
  LogFile = log
  Other = other
  None = none
  Calls = {"open", "write", "close"}
  ToFile = {TRUE}
  CanOpen = {TRUE}
  Fds <- MCFds
  Inherited <- MCInheritedLow
SPECIFICATION Spec
INVARIANT LogKept
