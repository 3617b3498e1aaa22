\* Waits that an alarm ends; the handlers set the next alarm or jump.
CONSTANTS
  Sigs = {"ALRM", "USR1"}
  ALRM = "ALRM"
  Errors = {4, 9}
  EINTR = 4
  PERRMSG_MAX = 34
  MaxDepth = 3
  Masks = {}
  Handlers = {"handler", "ignore", "default"}
  MainCalls <- MCAlarmMain
  HandlerCalls <- MCAlarmHandlers
  Careful = {"jumpLate"}
CHECK_DEADLOCK FALSE
SPECIFICATION FairSpec
PROPERTIES AlarmEndsWait
