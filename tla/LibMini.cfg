\* Two signals, three frames; the handlers save errno and jump only after
\* setjmp() has returned.  perror() has EINTR in its table and EDQUOT, 122, not.
\* pause() with every signal blocked waits for ever.
CONSTANTS
  Sigs = {"ALRM", "USR1"}
  ALRM = "ALRM"
  Errors = {4, 122}
  EINTR = 4
  PERRMSG_MAX = 34
  MaxDepth = 3
  Masks <- MCMasks
  Handlers = {"handler", "ignore", "default"}
  MainCalls <- MCMainCalls
  HandlerCalls <- MCHandlerCalls
  Careful = {"saveErrno", "jumpLate"}
CHECK_DEADLOCK FALSE
SPECIFICATION Spec
INVARIANTS TypeOK ErrnoRight PerrorRight MaskAsAsked
