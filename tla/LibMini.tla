------------------------------ MODULE LibMini ------------------------------
(***************************************************************************)
(* The C library of 310551113_hw3: system call wrappers, signals, setjmp   *)
(* and perror (libmini.c, libmini64.asm), under one thread whose signal    *)
(* handlers interrupt it between any two steps.                            *)
(*                                                                         *)
(* The stack has one frame for main() and one for each handler that has    *)
(* not returned; only the top one runs.  The user code in a frame makes    *)
(* any calls.  A function that makes a system call and stores errno is two *)
(* steps; read(), pause() and sleep() also wait in the kernel.             *)
(***************************************************************************)
EXTENDS Integers, Sequences

CONSTANTS
  Sigs, ALRM,    \* the signals, SIGALRM among them
  Masks,         \* the masks the user code asks for
  Handlers,      \* what it gives signal(): "handler", "default" or "ignore"
  Errors,        \* the error numbers that system calls return
  EINTR,
  PERRMSG_MAX,   \* the last entry of errmsg
  MaxDepth,      \* bound: the most frames on the stack
  MainCalls, HandlerCalls, \* the functions that main() and the handlers call
  Careful        \* what the user code takes care of, see HandlerReturn and Longjmp

ASSUME LibAssumption ==
  /\ ALRM \in Sigs /\ Masks \subseteq SUBSET Sigs
  /\ Handlers \subseteq {"handler", "default", "ignore"}
  /\ EINTR \in Errors
  /\ Errors \subseteq Nat \ {0}
  /\ PERRMSG_MAX \in Nat /\ MaxDepth \in Nat \ {0}
  /\ Careful \subseteq {"saveErrno", "jumpLate"}

VARIABLES
  stack,
  errno,
  mask,      \* the signals blocked now
  pending,   \* the signals generated and not yet delivered
  action,    \* sa_handler of each signal: "handler", "default" or "ignore"
  armed,     \* an alarm() is running
  env,       \* the jmp_buf
  want       \* history: the mask main() last asked for

vars == <<stack, errno, mask, pending, action, armed, env, want>>

Silent == [at |-> -1, prefix |-> FALSE, text |-> -1]

\* pc is where the frame is: in user code; in a function that waits in the
\* kernel; before the store to errno; inside setjmp(), longjmp() or perror().
\* ret is what the system call returned, err the error of the last call, old
\* the mask that a return restores, saved what the handler keeps of errno,
\* perr the errno that perror() began with, its prefix and the text it printed.
Frame(old, saved) ==
  [pc |-> "user", ret |-> 0, err |-> 0, old |-> old, saved |-> saved, perr |-> Silent]

Waits == {"read", "pause", "sleep"}

Top == stack[Len(stack)]
InHandler == Len(stack) > 1
Alive == stack # <<>>

User == Alive /\ Top.pc = "user"

Calls(fn) == User /\ fn \in (IF InHandler THEN HandlerCalls ELSE MainCalls)

\* The running frame goes on to pc.
GoTo(pc, ret) ==
  stack' = [stack EXCEPT ![Len(stack)] =
              [@ EXCEPT !.pc = pc, !.ret = ret, !.err = 0, !.perr = Silent]]

-----------------------------------------------------------------------------
(* System call wrappers.                                                   *)

Results == {0} \cup {-e : e \in Errors \ {EINTR}}

\* A call that does not wait: the kernel performs it at once.
System ==
  /\ Calls("system")
  /\ \E ret \in Results : GoTo("store", ret)
  /\ UNCHANGED <<errno, mask, pending, action, armed, env, want>>

Wait(fn) ==
  /\ Calls(fn)
  /\ GoTo(fn, 0)
  /\ UNCHANGED <<errno, mask, pending, action, armed, env, want>>

\* What follows the system call: WRAPPER_RETval stores errno; sleep(), in
\* assembly, does not.
After(fn) == IF fn = "sleep" THEN "user" ELSE "store"

\* read() and sleep() end by themselves, pause() does not.
Complete ==
  /\ Alive /\ Top.pc \in Waits \ {"pause"}
  /\ \E ret \in IF Top.pc = "read" THEN Results ELSE {0} : GoTo(After(Top.pc), ret)
  /\ UNCHANGED <<errno, mask, pending, action, armed, env, want>>

ErrnoOf_Signed(ret) == IF ret < 0 THEN ret ELSE 0   \* mutant: no minus sign
ErrnoOf_Positive(ret) == IF ret > 0 THEN ret ELSE 0 \* mutant: the test is turned round

\* errno = 0; if (ret < 0) errno = -ret
ErrnoOf(ret) == IF ret < 0 THEN -ret ELSE 0

Store ==
  /\ Alive /\ Top.pc = "store"
  /\ errno' = ErrnoOf(Top.ret)
  /\ stack' = [stack EXCEPT ![Len(stack)] =
                [@ EXCEPT !.pc = "user", !.ret = 0,
                          !.err = IF Top.ret < 0 THEN -Top.ret ELSE 0]]
  /\ UNCHANGED <<mask, pending, action, armed, env, want>>

-----------------------------------------------------------------------------
(* Signals.  A signal set is a set of signals here.                        *)

\* sigprocmask(), and sigaddset() and the others to build its argument.
Sigprocmask ==
  /\ Calls("sigprocmask")
  /\ \E m \in Masks :
       mask' = m /\ want' = IF InHandler THEN want ELSE m
  /\ GoTo("store", 0)
  /\ UNCHANGED <<errno, pending, action, armed, env>>

\* signal() with a handler, SIG_DFL or SIG_IGN; the kernel forgets a pending
\* signal that is ignored from now on.
Signal ==
  /\ Calls("signal")
  /\ \E s \in Sigs, h \in Handlers :
       /\ action' = [action EXCEPT ![s] = h]
       /\ pending' = IF h = "ignore" THEN pending \ {s} ELSE pending
  /\ GoTo("store", 0)
  /\ UNCHANGED <<errno, mask, armed, env, want>>

Restarts_All(s) == TRUE  \* mutant: SA_RESTART for every signal

\* signal() asks for SA_RESTART, but not for SIGALRM.
Restarts(s) == s # ALRM

\* alarm(n), or alarm(0).
Alarm ==
  /\ Calls("alarm")
  /\ armed' \in BOOLEAN
  /\ GoTo("store", 0)
  /\ UNCHANGED <<errno, mask, pending, action, env, want>>

\* A signal that is generated stays away if it is ignored, unless it is blocked.
Generate(s) ==
  pending' = IF action[s] = "ignore" /\ s \notin mask THEN pending ELSE pending \cup {s}

Expire ==
  /\ Alive /\ armed
  /\ armed' = FALSE /\ Generate(ALRM)
  /\ UNCHANGED <<stack, errno, mask, action, env, want>>

Raise(s) ==
  /\ Alive /\ s # ALRM /\ s \notin pending
  /\ Generate(s)
  /\ UNCHANGED <<stack, errno, mask, action, armed, env, want>>

\* A frame that is interrupted in the kernel: read() is restarted after a
\* handler with SA_RESTART; otherwise the system call returns -EINTR, of which
\* sleep() makes a number of seconds.
Interrupted(f, s) ==
  IF f.pc \notin Waits \/ (f.pc = "read" /\ Restarts(s)) THEN f
  ELSE [f EXCEPT !.pc = After(f.pc), !.ret = IF f.pc = "sleep" THEN 0 ELSE -EINTR]

\* The handler runs with its own signal blocked in addition.
Deliver(s) ==
  /\ Alive /\ s \in pending \ mask /\ action[s] = "handler" /\ Len(stack) < MaxDepth
  /\ pending' = pending \ {s}
  /\ mask' = mask \cup {s}
  /\ stack' = Append([stack EXCEPT ![Len(stack)] = Interrupted(@, s)],
                     Frame(mask, errno))
  /\ UNCHANGED <<errno, action, armed, env, want>>

\* The default action of a signal is the end of the process.
Terminate(s) ==
  /\ Alive /\ s \in pending \ mask /\ action[s] = "default"
  /\ stack' = <<>>
  /\ UNCHANGED <<errno, mask, pending, action, armed, env, want>>

\* An ignored signal that was blocked is dropped when it is let through.
Drop(s) ==
  /\ Alive /\ s \in pending \ mask /\ action[s] = "ignore"
  /\ pending' = pending \ {s}
  /\ UNCHANGED <<stack, errno, mask, action, armed, env, want>>

\* Through __myrt, the restorer that sigaction() adds, a handler returns to
\* rt_sigreturn.  A careful handler puts errno back first.

ReturnMask(f) == f.old

HandlerReturn ==
  /\ User /\ InHandler
  /\ mask' = ReturnMask(Top)
  /\ errno' = IF "saveErrno" \in Careful THEN Top.saved ELSE errno
  /\ stack' = SubSeq(stack, 1, Len(stack) - 1)
  /\ UNCHANGED <<pending, action, armed, env, want>>

-----------------------------------------------------------------------------
(* setjmp() and longjmp().  main() calls setjmp(), anyone calls longjmp(). *)

\* The registers are stored first ...
Setjmp ==
  /\ Calls("setjmp") /\ ~InHandler
  /\ env' = [env EXCEPT !.regs = TRUE, !.from = mask]
  /\ GoTo("setjmp", 0)
  /\ UNCHANGED <<errno, mask, pending, action, armed, want>>

\* ... then the mask is read and stored.
SetjmpMask ==
  /\ Alive /\ Top.pc = "setjmp"
  /\ env' = [env EXCEPT !.mask = mask]
  /\ GoTo("user", 0)
  /\ UNCHANGED <<errno, mask, pending, action, armed, want>>

\* The registers take the thread back to main(), with the mask of where it was.
\* A careful handler does not jump while setjmp() fills the buffer.
Longjmp ==
  /\ Calls("longjmp") /\ env.regs
  /\ "jumpLate" \in Careful => stack[1].pc # "setjmp"
  /\ stack' = <<[Frame({}, 0) EXCEPT !.pc = "longjmp"]>>
  /\ UNCHANGED <<errno, mask, pending, action, armed, env, want>>

LongjmpMask_Kept == mask  \* mutant: the mask is not part of the jmp_buf

LongjmpMask == env.mask

\* The mask of the buffer is set, and setjmp() returns a second time.
LongjmpLand ==
  /\ Alive /\ Top.pc = "longjmp"
  /\ mask' = LongjmpMask
  /\ want' = env.from
  /\ GoTo("user", 0)
  /\ UNCHANGED <<errno, pending, action, armed, env>>

-----------------------------------------------------------------------------
(* perror().                                                               *)

\* What a write() inside perror() leaves in errno.
WriteErrno == {0} \cup Errors

\* backup = errno; the prefix, if there is one, is written next.
Perror(prefix) ==
  /\ Calls("perror")
  /\ stack' = [stack EXCEPT ![Len(stack)] =
                 [@ EXCEPT !.pc = IF prefix THEN "prefix" ELSE "message", !.err = 0,
                           !.perr = [at |-> errno, prefix |-> prefix, text |-> -1]]]
  /\ UNCHANGED <<errno, mask, pending, action, armed, env, want>>

PerrorPrefix ==
  /\ Alive /\ Top.pc = "prefix"
  /\ errno' \in WriteErrno
  /\ stack' = [stack EXCEPT ![Len(stack)].pc = "message"]
  /\ UNCHANGED <<mask, pending, action, armed, env, want>>

Unknown == -1
Garbage == -2  \* what the memory behind errmsg points to

Messages_Current(backup) ==  \* mutant: errmsg[errno]
  IF errno > PERRMSG_MAX THEN {Unknown} ELSE {errno}

\* The texts that may be printed: the range test is on errno, the index is
\* backup, so it may lie outside errmsg.
Messages(backup) ==
  IF errno > PERRMSG_MAX THEN {Unknown}
  ELSE IF backup > PERRMSG_MAX THEN {Garbage} ELSE {backup}

PerrorMessage ==
  /\ Alive /\ Top.pc = "message"
  /\ errno' \in WriteErrno
  /\ \E text \in Messages(Top.perr.at) :
       stack' = [stack EXCEPT ![Len(stack)].pc = "user",
                              ![Len(stack)].perr.text = text]
  /\ UNCHANGED <<mask, pending, action, armed, env, want>>

\* What lies behind errmsg need not be a pointer: strlen() or write() may fault.
PerrorCrash ==
  /\ Alive /\ Top.pc = "message"
  /\ errno <= PERRMSG_MAX /\ Top.perr.at > PERRMSG_MAX
  /\ stack' = <<>>
  /\ UNCHANGED <<errno, mask, pending, action, armed, env, want>>

-----------------------------------------------------------------------------

Init ==
  /\ stack = <<Frame({}, 0)>>
  /\ errno = 0 /\ mask = {} /\ pending = {} /\ action = [s \in Sigs |-> "default"] /\ armed = FALSE
  /\ env = [regs |-> FALSE, from |-> {}, mask |-> {}]
  /\ want = {}

UserCall ==
  \/ System \/ \E fn \in Waits : Wait(fn)
  \/ Sigprocmask \/ Signal \/ Alarm
  \/ Setjmp \/ Longjmp
  \/ \E prefix \in BOOLEAN : Perror(prefix)

Library ==
  \/ Complete \/ Store
  \/ SetjmpMask \/ LongjmpLand
  \/ PerrorPrefix \/ PerrorMessage \/ PerrorCrash

Kernel == Expire \/ \E s \in Sigs : Raise(s) \/ Deliver(s) \/ Terminate(s) \/ Drop(s)

Terminated == ~Alive /\ UNCHANGED vars

Next == UserCall \/ Library \/ HandlerReturn \/ Kernel \/ Terminated

Spec == Init /\ [][Next]_vars

\* Time passes, so an alarm goes off; a signal that is let through is taken.
\* Signals come with time between them: a frame that is on top of the stack
\* again and again runs, and a handler returns.
FairSpec ==
  /\ Spec
  /\ WF_vars(Expire) /\ WF_vars(\E s \in Sigs : Deliver(s))
  /\ \A n \in 1 .. MaxDepth :
       /\ SF_vars(Len(stack) = n /\ (Store \/ LongjmpLand))
       /\ SF_vars(Len(stack) = n /\ HandlerReturn)

-----------------------------------------------------------------------------
(* Properties.                                                             *)

Points == Waits \cup {"user", "store", "setjmp", "longjmp", "prefix", "message"}
Returns == {0} \cup {-e : e \in Errors}
Numbers == {0} \cup Errors
Perrs ==
  [at : {-1} \cup Numbers, prefix : BOOLEAN, text : {Unknown, Garbage} \cup Numbers]

Frames ==
  [pc : Points, ret : Returns, err : Numbers, old : SUBSET Sigs, saved : Numbers,
   perr : Perrs]

\* Every variable has its type; errno is never negative.
TypeOK ==
  /\ stack \in Seq(Frames) /\ Len(stack) <= MaxDepth
  /\ errno \in Numbers
  /\ mask \subseteq Sigs /\ pending \subseteq Sigs
  /\ action \in [Sigs -> {"handler", "default", "ignore"}]
  /\ armed \in BOOLEAN
  /\ env \in [regs : BOOLEAN, from : SUBSET Sigs, mask : SUBSET Sigs]
  /\ want \subseteq Sigs

\* After a call that failed, its caller finds its error in errno, whatever
\* handlers ran since the system call (WRAPPER_RETval, line 5), as long as the
\* handlers put errno back.
ErrnoRight == User /\ Top.err # 0 => errno = Top.err

\* perror() prints the entry of errmsg for the errno it was called with, and
\* "Unknown" for a number that is not in the table, whatever handlers run before
\* it prints, as long as they put errno back.  The writes of a prefix change the
\* errno that the range test reads (lines 318-323): after one, "Unknown" may come
\* instead of the entry, but never the entry of another error; and for a number
\* outside the table nothing is promised.
PerrorText(at) == IF at <= PERRMSG_MAX THEN at ELSE Unknown

RightPerr(p) ==
  \/ p.text = PerrorText(p.at)
  \/ p.prefix /\ (p.text = Unknown \/ p.at > PERRMSG_MAX)

PerrorRight == User /\ Top.perr.at >= 0 => RightPerr(Top.perr)

\* The mask that main() runs with is the one it asked for last, or, after a
\* longjmp(), the one in force at the setjmp() it comes from: no handler, left
\* by return or by a jump, leaves a signal blocked or unblocked behind.
MainMask == IF InHandler THEN stack[2].old ELSE mask

MaskAsAsked == Alive /\ stack[1].pc # "longjmp" => MainMask = want

\* signal() leaves SA_RESTART out for SIGALRM (lines 258-266) so that an alarm
\* can end a read() that has no data.  It does, and main() is told, unless the
\* read() can be restarted for another signal: an alarm that goes off in that
\* signal's handler does not interrupt the read().
AlarmIsDue ==
  /\ Alive /\ ~InHandler /\ Top.pc \in Waits
  /\ armed \/ ALRM \in pending
  /\ action[ALRM] = "handler" /\ ALRM \notin mask
  /\ Top.pc = "read" => \A s \in Sigs \ {ALRM} : action[s] # "handler"

AlarmEndsWait == AlarmIsDue ~> (~Alive \/ (User /\ ~InHandler))
=============================================================================
