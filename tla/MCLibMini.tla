----------------------------- MODULE MCLibMini -----------------------------
(***************************************************************************)
(* Two signals, a failing system call and handlers that interrupt handlers.*)
(***************************************************************************)
EXTENDS LibMini

MCMainCalls == {"system", "read", "pause", "sleep", "sigprocmask", "signal",
                "alarm", "setjmp", "perror"}
MCHandlerCalls == {"system", "sigprocmask", "longjmp"}

\* For the run about alarms.
MCAlarmMain == {"read", "pause", "sleep", "signal", "alarm", "setjmp"}
MCAlarmHandlers == {"alarm", "longjmp"}

MCMasks == {{}, {"USR1"}}
=============================================================================
