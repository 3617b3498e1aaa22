--------------------------- MODULE LibMiniProofs ---------------------------
(***************************************************************************)
(* What is proved about LibMini for every value of its constants, any      *)
(* depth of nested handlers among them: the types, errno, the mask of      *)
(* main() and perror().                                                    *)
(***************************************************************************)
EXTENDS LibMini, SequenceTheorems, TLAPS

-----------------------------------------------------------------------------
(* The stack.  A step of the library changes the top frame, pushes one,    *)
(* pops one, or leaves a single one.                                       *)

\* The other frames stay as they are when the top one goes on.
LEMMA ReplaceTop ==
  ASSUME NEW s \in Seq(Frames), s # <<>>, NEW f \in Frames, NEW t,
         t = [s EXCEPT ![Len(s)] = f]
  PROVE  /\ t \in Seq(Frames) /\ Len(t) = Len(s) /\ t # <<>> /\ Len(s) \in Nat \ {0}
         /\ t[Len(s)] = f
         /\ \A i \in 1 .. Len(s) : i # Len(s) => t[i] = s[i]
OBVIOUS

\* A handler is entered: its frame comes on top of the one it interrupts.
LEMMA PushFrame ==
  ASSUME NEW s \in Seq(Frames), s # <<>>, NEW f \in Frames, NEW g \in Frames, NEW t,
         t = Append([s EXCEPT ![Len(s)] = f], g)
  PROVE  /\ t \in Seq(Frames) /\ Len(t) = Len(s) + 1 /\ t # <<>> /\ Len(s) \in Nat \ {0}
         /\ t[Len(s)] = f /\ t[Len(s) + 1] = g
         /\ \A i \in 1 .. Len(s) : i # Len(s) => t[i] = s[i]
<1> DEFINE r == [s EXCEPT ![Len(s)] = f]
<1>1. r \in Seq(Frames) /\ Len(r) = Len(s) /\ Len(s) \in Nat \ {0} /\ r[Len(s)] = f
      /\ \A i \in 1 .. Len(s) : i # Len(s) => r[i] = s[i]
  BY ReplaceTop
<1> HIDE DEF r
<1>2. t = Append(r, g)
  BY DEF r
<1> QED BY <1>1, <1>2

\* A handler returns: the frames below it stay.
LEMMA PopFrame ==
  ASSUME NEW s \in Seq(Frames), Len(s) > 1, NEW t, t = SubSeq(s, 1, Len(s) - 1)
  PROVE  /\ t \in Seq(Frames) /\ Len(t) = Len(s) - 1 /\ t # <<>> /\ Len(s) \in Nat \ {0, 1}
         /\ \A i \in 1 .. Len(s) - 1 : t[i] = s[i]
<1>1. Len(s) \in Nat \ {0, 1} /\ \A i \in 1 .. Len(s) - 1 : s[i] \in Frames
  OBVIOUS
<1>2. /\ t \in Seq(Frames)
      /\ Len(t) = IF 1 <= Len(s) - 1 THEN Len(s) - 1 - 1 + 1 ELSE 0
      /\ \A i \in 1 .. Len(s) - 1 - 1 + 1 : t[i] = s[1 + i - 1]
  BY <1>1, SubSeqProperties, Len(s) - 1 \in Int
<1>3. Len(t) = Len(s) - 1 /\ \A i \in 1 .. Len(s) - 1 : t[i] = s[i]
  BY <1>1, <1>2
<1>4. Len(t) # 0
  BY <1>1, <1>3
<1>5. t # <<>>
  BY <1>4, Len(<<>>) = 0
<1> QED BY <1>1, <1>2, <1>3, <1>5

\* The frame that runs is a frame, and there is a frame of main().
LEMMA TopFrame ==
  ASSUME TypeOK, Alive
  PROVE  /\ Top \in Frames /\ Len(stack) \in Nat \ {0}
         /\ 1 \in 1 .. Len(stack) /\ stack[1] \in Frames /\ stack \in Seq(Frames)
BY DEF TypeOK, Alive, Top

Moved(pc, ret) ==
  [Top EXCEPT !.pc = pc, !.ret = ret, !.err = 0, !.perr = Silent]

\* GoTo() replaces the top frame.
LEMMA GoToFrame ==
  ASSUME TypeOK, Alive, NEW pc \in Points, NEW ret \in Returns, GoTo(pc, ret)
  PROVE  Moved(pc, ret) \in Frames
         /\ stack' = [stack EXCEPT ![Len(stack)] = Moved(pc, ret)]
<1>1. Silent \in Perrs /\ 0 \in Numbers
  BY DEF Silent, Numbers, Perrs, Unknown
<1>2. Moved(pc, ret) \in Frames
  BY <1>1, TopFrame DEF Moved, Frames
<1>3. stack' = [stack EXCEPT ![Len(stack)] = Moved(pc, ret)]
  BY TopFrame DEF GoTo, Moved, Top
<1> QED BY <1>2, <1>3

-----------------------------------------------------------------------------
(* Types.                                                                  *)

\* The other variables have their types.
OthersOK ==
  /\ errno \in Numbers
  /\ mask \subseteq Sigs /\ pending \subseteq Sigs
  /\ action \in [Sigs -> {"handler", "default", "ignore"}]
  /\ armed \in BOOLEAN
  /\ env \in [regs : BOOLEAN, from : SUBSET Sigs, mask : SUBSET Sigs]
  /\ want \subseteq Sigs

\* A step that only moves the top frame to another point keeps the stack's type.
LEMMA GoToType ==
  ASSUME TypeOK, Alive, NEW pc \in Points, NEW ret \in Returns, GoTo(pc, ret)
  PROVE  stack' \in Seq(Frames) /\ Len(stack') <= MaxDepth
BY GoToFrame, ReplaceTop, TopFrame DEF TypeOK, Alive

\* So does one that changes it otherwise.
LEMMA TopType ==
  ASSUME TypeOK, Alive, NEW f \in Frames, stack' = [stack EXCEPT ![Len(stack)] = f]
  PROVE  stack' \in Seq(Frames) /\ Len(stack') <= MaxDepth
BY ReplaceTop, TopFrame DEF TypeOK, Alive

\* What the kernel returns to a call: 0 or an error.
LEMMA ReturnTypes ==
  /\ Results \subseteq Returns /\ 0 \in Returns /\ -EINTR \in Returns
  /\ 0 \in Numbers /\ Numbers \subseteq Nat
  /\ Waits \subseteq Points
  /\ \A pc \in {"user", "store", "setjmp", "longjmp", "prefix", "message"} : pc \in Points
<1>1. Results \subseteq Returns /\ 0 \in Returns
  BY DEF Results, Returns
<1>2. -EINTR \in Returns
  BY LibAssumption DEF Returns
<1>3. 0 \in Numbers /\ Numbers \subseteq Nat
  BY LibAssumption DEF Numbers
<1>4. /\ Waits \subseteq Points
      /\ \A pc \in {"user", "store", "setjmp", "longjmp", "prefix", "message"} : pc \in Points
  BY DEF Points
<1> QED BY <1>1, <1>2, <1>3, <1>4

\* -ret is an error number when the call has failed.
LEMMA ErrnoType ==
  ASSUME NEW ret \in Returns
  PROVE  ErrnoOf(ret) \in Numbers
         /\ (IF ret < 0 THEN -ret ELSE 0) = ErrnoOf(ret)
<1>1. CASE ret = 0
  BY <1>1 DEF ErrnoOf, Numbers
<1>2. ASSUME NEW e \in Errors, ret = -e PROVE ErrnoOf(ret) = e
  BY <1>2, LibAssumption DEF ErrnoOf
<1> QED BY <1>1, <1>2 DEF ErrnoOf, Numbers, Returns

\* What perror() may print has the type of a text.
LEMMA MessageType ==
  ASSUME NEW f \in Frames, NEW text \in Messages(f.perr.at)
  PROVE  text \in {Unknown, Garbage} \cup Numbers
<1>1. f.perr.at \in {-1} \cup Numbers
  BY DEF Frames, Perrs
<1> QED BY <1>1 DEF Messages, Unknown

\* A call in progress that a signal interrupts is still a frame.
LEMMA InterruptedType ==
  ASSUME NEW f \in Frames, NEW s
  PROVE  Interrupted(f, s) \in Frames
<1>1. CASE f.pc \notin Waits \/ (f.pc = "read" /\ Restarts(s))
  BY <1>1 DEF Interrupted
<1>2. CASE ~(f.pc \notin Waits \/ (f.pc = "read" /\ Restarts(s)))
  <2>1. After(f.pc) \in Points
    BY ReturnTypes DEF After
  <2>2. (IF f.pc = "sleep" THEN 0 ELSE -EINTR) \in Returns
    BY ReturnTypes
  <2> QED BY <1>2, <2>1, <2>2 DEF Interrupted, Frames
<1> QED BY <1>1, <1>2

\* The calls of the user code keep the types.
LEMMA UserCallType ==
  ASSUME TypeOK, UserCall
  PROVE  TypeOK'
<1>0. Alive /\ OthersOK
  BY DEF UserCall, System, Wait, Sigprocmask, Signal, Alarm, Setjmp, Longjmp, Perror,
         Calls, User, TypeOK, OthersOK
<1> USE <1>0
<1> SUFFICES (stack' \in Seq(Frames) /\ Len(stack') <= MaxDepth) /\ OthersOK'
  BY DEF TypeOK, OthersOK
<1>1. CASE System
  BY <1>1, GoToType, ReturnTypes DEF System, OthersOK
<1>2. CASE \E fn \in Waits : Wait(fn)
  BY <1>2, GoToType, ReturnTypes DEF Wait, OthersOK
<1>3. CASE Sigprocmask
  BY <1>3, GoToType, ReturnTypes, LibAssumption DEF Sigprocmask, OthersOK
<1>4. CASE Signal
  BY <1>4, GoToType, ReturnTypes, LibAssumption DEF Signal, OthersOK
<1>5. CASE Alarm
  BY <1>5, GoToType, ReturnTypes DEF Alarm, OthersOK
<1>6. CASE Setjmp
  BY <1>6, GoToType, ReturnTypes DEF Setjmp, OthersOK
<1>7. CASE Longjmp
  <2>1. [Frame({}, 0) EXCEPT !.pc = "longjmp"] \in Frames
    BY ReturnTypes DEF Frame, Frames, Perrs, Silent, Unknown
  <2>2. stack' \in Seq(Frames) /\ Len(stack') = 1
    BY <1>7, <2>1 DEF Longjmp
  <2> QED BY <1>7, <2>2, LibAssumption DEF Longjmp, OthersOK
<1>8. ASSUME NEW prefix \in BOOLEAN, Perror(prefix)
      PROVE  stack' \in Seq(Frames) /\ Len(stack') <= MaxDepth /\ OthersOK'
  <2> DEFINE f == [Top EXCEPT !.pc = IF prefix THEN "prefix" ELSE "message", !.err = 0,
                              !.perr = [at |-> errno, prefix |-> prefix, text |-> -1]]
  <2>1. [at |-> errno, prefix |-> prefix, text |-> -1] \in Perrs
    BY DEF Perrs, Unknown, OthersOK
  <2>2. f \in Frames
    BY <2>1, TopFrame, ReturnTypes DEF Frames
  <2>3. stack' = [stack EXCEPT ![Len(stack)] = f]
    BY <1>8, TopFrame DEF Perror, Top
  <2> HIDE DEF f
  <2>4. stack' \in Seq(Frames) /\ Len(stack') <= MaxDepth
    BY <2>2, <2>3, TopType
  <2> QED BY <1>8, <2>4 DEF Perror, OthersOK
<1> QED BY <1>1, <1>2, <1>3, <1>4, <1>5, <1>6, <1>7, <1>8 DEF UserCall

\* So do the later steps of the library.
LEMMA LibraryType ==
  ASSUME TypeOK, Library
  PROVE  TypeOK'
<1>0. Alive /\ OthersOK
  BY DEF Library, Complete, Store, SetjmpMask, LongjmpLand, PerrorPrefix, PerrorMessage,
         PerrorCrash, TypeOK, OthersOK
<1> USE <1>0
<1> SUFFICES (stack' \in Seq(Frames) /\ Len(stack') <= MaxDepth) /\ OthersOK'
  BY DEF TypeOK, OthersOK
<1>1. CASE Complete
  <2>1. After(Top.pc) \in Points
    BY ReturnTypes DEF After
  <2> QED BY <1>1, <2>1, GoToType, ReturnTypes DEF Complete, OthersOK
<1>2. CASE Store
  <2> DEFINE f == [Top EXCEPT !.pc = "user", !.ret = 0, !.err = ErrnoOf(Top.ret)]
  <2>1. Top.ret \in Returns
    BY TopFrame DEF Frames
  <2>2. f \in Frames
    BY <2>1, ErrnoType, TopFrame, ReturnTypes DEF Frames
  <2>3. stack' = [stack EXCEPT ![Len(stack)] = f]
    BY <1>2, <2>1, ErrnoType, TopFrame DEF Store, Top
  <2> HIDE DEF f
  <2>4. stack' \in Seq(Frames) /\ Len(stack') <= MaxDepth
    BY <2>2, <2>3, TopType
  <2> QED BY <1>2, <2>1, <2>4, ErrnoType DEF Store, OthersOK
<1>3. CASE SetjmpMask
  BY <1>3, GoToType, ReturnTypes DEF SetjmpMask, OthersOK
<1>4. CASE LongjmpLand
  BY <1>4, GoToType, ReturnTypes DEF LongjmpLand, LongjmpMask, OthersOK
<1>5. CASE PerrorPrefix
  <2> DEFINE f == [Top EXCEPT !.pc = "message"]
  <2>1. f \in Frames
    BY TopFrame, ReturnTypes DEF Frames
  <2>2. stack' = [stack EXCEPT ![Len(stack)] = f]
    BY <1>5, TopFrame DEF PerrorPrefix, Top
  <2> HIDE DEF f
  <2>3. stack' \in Seq(Frames) /\ Len(stack') <= MaxDepth
    BY <2>1, <2>2, TopType
  <2> QED BY <1>5, <2>3 DEF PerrorPrefix, WriteErrno, Numbers, OthersOK
<1>6. CASE PerrorMessage
  <2>1. PICK text \in Messages(Top.perr.at) :
          stack' = [stack EXCEPT ![Len(stack)].pc = "user", ![Len(stack)].perr.text = text]
    BY <1>6 DEF PerrorMessage
  <2> DEFINE f == [Top EXCEPT !.pc = "user", !.perr.text = text]
  <2>2. f \in Frames
    BY TopFrame, ReturnTypes, MessageType DEF Frames, Perrs
  <2>3. stack' = [stack EXCEPT ![Len(stack)] = f]
    BY <2>1, TopFrame DEF Top
  <2> HIDE DEF f
  <2>4. stack' \in Seq(Frames) /\ Len(stack') <= MaxDepth
    BY <2>2, <2>3, TopType
  <2> QED BY <1>6, <2>4 DEF PerrorMessage, WriteErrno, Numbers, OthersOK
<1>7. CASE PerrorCrash
  <2>1. stack' \in Seq(Frames) /\ Len(stack') = 0
    BY <1>7 DEF PerrorCrash
  <2> QED BY <1>7, <2>1, LibAssumption DEF PerrorCrash, OthersOK
<1> QED BY <1>1, <1>2, <1>3, <1>4, <1>5, <1>6, <1>7 DEF Library

\* The stack of the kernel's steps: a handler is entered, or main() is gone.
LEMMA KernelType ==
  ASSUME TypeOK, Kernel
  PROVE  TypeOK'
<1>0. Alive /\ OthersOK
  BY DEF Kernel, Expire, Raise, Deliver, Terminate, Drop, TypeOK, OthersOK
<1> USE <1>0
<1> SUFFICES (stack' \in Seq(Frames) /\ Len(stack') <= MaxDepth) /\ OthersOK'
  BY DEF TypeOK, OthersOK
<1>1. CASE Expire
  BY <1>1, LibAssumption DEF Expire, Generate, TypeOK, OthersOK
<1>2. ASSUME NEW s \in Sigs, Raise(s) \/ Drop(s)
      PROVE  stack' \in Seq(Frames) /\ Len(stack') <= MaxDepth /\ OthersOK'
  BY <1>2 DEF Raise, Generate, Drop, TypeOK, OthersOK
<1>4. ASSUME NEW s \in Sigs, Terminate(s)
      PROVE  stack' \in Seq(Frames) /\ Len(stack') <= MaxDepth /\ OthersOK'
  <2>1. stack' \in Seq(Frames) /\ Len(stack') = 0
    BY <1>4 DEF Terminate
  <2> QED BY <1>4, <2>1, LibAssumption DEF Terminate, OthersOK
<1>3. ASSUME NEW s \in Sigs, Deliver(s)
      PROVE  stack' \in Seq(Frames) /\ Len(stack') <= MaxDepth /\ OthersOK'
  <2> DEFINE f == Interrupted(Top, s)
             g == Frame(mask, errno)
  <2>1. f \in Frames
    BY InterruptedType, TopFrame
  <2>2. g \in Frames
    BY ReturnTypes DEF Frame, Frames, Perrs, Silent, Unknown, OthersOK
  <2>3. stack' = Append([stack EXCEPT ![Len(stack)] = f], g)
    BY <1>3, TopFrame DEF Deliver, Top
  <2> HIDE DEF f, g
  <2>4. stack' \in Seq(Frames) /\ Len(stack') = Len(stack) + 1
    BY <2>1, <2>2, <2>3, PushFrame, TopFrame DEF Alive
  <2>5. Len(stack) < MaxDepth
    BY <1>3 DEF Deliver
  <2>6. Len(stack') <= MaxDepth
    BY <2>4, <2>5, LibAssumption, TopFrame
  <2> QED BY <1>3, <2>4, <2>6 DEF Deliver, OthersOK
<1> QED BY <1>1, <1>2, <1>3, <1>4 DEF Kernel

\* Every variable has its type, in any nesting of handlers.
THEOREM TypeCorrect == Spec => []TypeOK
<1>1. Init => TypeOK
  <2> SUFFICES ASSUME Init PROVE TypeOK
    OBVIOUS
  <2>1. Frame({}, 0) \in Frames
    BY ReturnTypes DEF Frame, Frames, Perrs, Silent, Unknown
  <2>2. stack \in Seq(Frames) /\ Len(stack) = 1
    BY <2>1 DEF Init
  <2>3. Len(stack) <= MaxDepth
    BY <2>2, LibAssumption
  <2> QED BY <2>2, <2>3, ReturnTypes DEF Init, TypeOK
<1>2. TypeOK /\ [Next]_vars => TypeOK'
  <2> SUFFICES ASSUME TypeOK, [Next]_vars PROVE TypeOK'
    OBVIOUS
  <2>1. CASE HandlerReturn
    <3>1. Top.old \subseteq Sigs /\ Top.saved \in Numbers
      BY <2>1, TopFrame DEF HandlerReturn, User, Frames
    <3>2. stack' \in Seq(Frames) /\ Len(stack') <= MaxDepth
      <4>1. stack \in Seq(Frames) /\ Len(stack) > 1 /\ Len(stack) <= MaxDepth
            /\ stack' = SubSeq(stack, 1, Len(stack) - 1)
        BY <2>1 DEF HandlerReturn, InHandler, TypeOK
      <4>2. stack' \in Seq(Frames) /\ Len(stack') = Len(stack) - 1 /\ Len(stack) \in Nat
        BY <4>1, PopFrame
      <4> QED BY <4>1, <4>2, LibAssumption
    <3> QED BY <2>1, <3>1, <3>2 DEF HandlerReturn, ReturnMask, TypeOK
  <2>2. CASE Terminated \/ UNCHANGED vars
    BY <2>2 DEF Terminated, vars, TypeOK
  <2> QED BY <2>1, <2>2, UserCallType, LibraryType, KernelType DEF Next
<1> QED BY <1>1, <1>2, PTL DEF Spec

-----------------------------------------------------------------------------
(* The shapes of the steps.                                                *)

\* The top frame becomes f.
TopStep(f) ==
  /\ stack' # <<>> /\ Len(stack') = Len(stack) /\ Len(stack) \in Nat \ {0}
  /\ stack'[Len(stack)] = f
  /\ \A i \in 1 .. Len(stack) : i # Len(stack) => stack'[i] = stack[i]

Stored == [Top EXCEPT !.pc = "user", !.ret = 0, !.err = ErrnoOf(Top.ret)]

InPerror(prefix) ==
  [Top EXCEPT !.pc = IF prefix THEN "prefix" ELSE "message", !.err = 0,
              !.perr = [at |-> errno, prefix |-> prefix, text |-> -1]]

Printed(text) == [Top EXCEPT !.pc = "user", !.perr.text = text]

Prints == \E text \in Messages(Top.perr.at) : TopStep(Printed(text))

\* A change of the top frame is a step of that shape.
LEMMA TopShape ==
  ASSUME TypeOK, Alive, NEW f \in Frames, stack' = [stack EXCEPT ![Len(stack)] = f]
  PROVE  TopStep(f)
BY ReplaceTop, TopFrame DEF TopStep, Alive

\* GoTo() has that shape.
LEMMA GoToShape ==
  ASSUME TypeOK, Alive, NEW pc \in Points, NEW ret \in Returns, GoTo(pc, ret)
  PROVE  TopStep(Moved(pc, ret))
BY GoToFrame, TopShape

\* The store to errno has it.
LEMMA StoreShape ==
  ASSUME TypeOK, Store
  PROVE  TopStep(Stored) /\ errno' = ErrnoOf(Top.ret) /\ Top.ret \in Returns
<1>0. Alive
  BY DEF Store
<1>1. Top.ret \in Returns
  BY <1>0, TopFrame DEF Frames
<1>2. Stored \in Frames
  BY <1>0, <1>1, ErrnoType, TopFrame, ReturnTypes DEF Frames, Stored
<1>3. stack' = [stack EXCEPT ![Len(stack)] = Stored]
  BY <1>0, <1>1, ErrnoType, TopFrame DEF Store, Top, Stored
<1> QED BY <1>0, <1>1, <1>2, <1>3, TopShape DEF Store

\* And so have the three steps of perror().
LEMMA PerrorShape ==
  ASSUME TypeOK
  PROVE  /\ \A prefix \in BOOLEAN : Perror(prefix) => TopStep(InPerror(prefix))
         /\ PerrorPrefix => TopStep([Top EXCEPT !.pc = "message"])
         /\ PerrorMessage => Prints
<1>1. ASSUME NEW prefix \in BOOLEAN, Perror(prefix) PROVE TopStep(InPerror(prefix))
  <2>0. Alive
    BY <1>1 DEF Perror, Calls, User
  <2>1. [at |-> errno, prefix |-> prefix, text |-> -1] \in Perrs
    BY DEF Perrs, Unknown, TypeOK
  <2>2. InPerror(prefix) \in Frames
    BY <2>0, <2>1, TopFrame, ReturnTypes DEF Frames, InPerror
  <2>3. stack' = [stack EXCEPT ![Len(stack)] = InPerror(prefix)]
    BY <1>1, <2>0, TopFrame DEF Perror, Top, InPerror
  <2> QED BY <2>0, <2>2, <2>3, TopShape
<1>2. ASSUME PerrorPrefix PROVE TopStep([Top EXCEPT !.pc = "message"])
  <2>0. Alive
    BY <1>2 DEF PerrorPrefix
  <2>1. [Top EXCEPT !.pc = "message"] \in Frames
    BY <2>0, TopFrame, ReturnTypes DEF Frames
  <2>2. stack' = [stack EXCEPT ![Len(stack)] = [Top EXCEPT !.pc = "message"]]
    BY <1>2, <2>0, TopFrame DEF PerrorPrefix, Top
  <2> QED BY <2>0, <2>1, <2>2, TopShape
<1>3. ASSUME PerrorMessage PROVE Prints
  <2>0. Alive
    BY <1>3 DEF PerrorMessage
  <2>1. PICK text \in Messages(Top.perr.at) :
          stack' = [stack EXCEPT ![Len(stack)].pc = "user", ![Len(stack)].perr.text = text]
    BY <1>3 DEF PerrorMessage
  <2>2. Printed(text) \in Frames
    BY <2>0, TopFrame, ReturnTypes, MessageType DEF Frames, Perrs, Printed
  <2>3. stack' = [stack EXCEPT ![Len(stack)] = Printed(text)]
    BY <2>0, <2>1, TopFrame DEF Top, Printed
  <2>4. TopStep(Printed(text))
    BY <2>0, <2>2, <2>3, TopShape
  <2> QED BY <2>4 DEF Prints
<1> QED BY <1>1, <1>2, <1>3

\* The signal s enters its handler.
PushStep(s) ==
  /\ stack' # <<>> /\ Len(stack) \in Nat \ {0} /\ Len(stack') = Len(stack) + 1
  /\ stack'[Len(stack)] = Interrupted(Top, s)
  /\ stack'[Len(stack) + 1] = Frame(mask, errno)
  /\ \A i \in 1 .. Len(stack) : i # Len(stack) => stack'[i] = stack[i]

\* Delivery has that shape.
LEMMA DeliverShape ==
  ASSUME TypeOK, NEW s, Deliver(s)
  PROVE  PushStep(s)
<1> DEFINE f == Interrupted(Top, s)
           g == Frame(mask, errno)
<1>0. Alive
  BY DEF Deliver
<1>1. f \in Frames
  BY <1>0, InterruptedType, TopFrame
<1>2. g \in Frames
  BY ReturnTypes DEF Frame, Frames, Perrs, Silent, Unknown, TypeOK
<1>3. stack' = Append([stack EXCEPT ![Len(stack)] = f], g)
  BY <1>0, TopFrame DEF Deliver, Top
<1>4. stack \in Seq(Frames) /\ stack # <<>>
  BY <1>0 DEF TypeOK, Alive
<1> HIDE DEF f, g
<1>5. /\ stack' # <<>> /\ Len(stack) \in Nat \ {0} /\ Len(stack') = Len(stack) + 1
      /\ stack'[Len(stack)] = f /\ stack'[Len(stack) + 1] = g
      /\ \A i \in 1 .. Len(stack) : i # Len(stack) => stack'[i] = stack[i]
  BY <1>1, <1>2, <1>3, <1>4, PushFrame
<1> QED BY <1>5 DEF PushStep, f, g

\* A handler's frame goes.
PopStep ==
  /\ stack' # <<>> /\ Len(stack) \in Nat \ {0, 1} /\ Len(stack') = Len(stack) - 1
  /\ \A i \in 1 .. Len(stack) - 1 : stack'[i] = stack[i]

\* The return of a handler has that shape.
LEMMA ReturnShape ==
  ASSUME TypeOK, HandlerReturn
  PROVE  PopStep
<1>1. stack \in Seq(Frames) /\ Len(stack) > 1 /\ stack' = SubSeq(stack, 1, Len(stack) - 1)
  BY DEF TypeOK, HandlerReturn, InHandler
<1> QED BY <1>1, PopFrame DEF PopStep

\* A jump leaves main()'s frame alone.
LEMMA LongjmpShape ==
  ASSUME Longjmp
  PROVE  /\ stack' # <<>> /\ Len(stack') = 1
         /\ stack'[1].pc = "longjmp" /\ stack'[1].err = 0 /\ stack'[1].perr = Silent
BY DEF Longjmp, Frame

-----------------------------------------------------------------------------
(* The mask of main().                                                     *)

Jumps == {"setjmp", "longjmp"}

\* No handler is inside setjmp() or longjmp().
HandlersOut == \A i \in 2 .. Len(stack) : stack[i].pc \notin Jumps

\* Once setjmp() has returned, the mask in the buffer is the one of where it was
\* called.
BufferRight ==
  Alive => /\ stack[1].pc # "setjmp" => env.mask = env.from
           /\ stack[1].pc = "setjmp" => env.from = want

MaskInv == HandlersOut /\ BufferRight /\ MaskAsAsked

\* Steps of a function that has nothing to do with the mask keep all three.
LEMMA MaskTop ==
  ASSUME TypeOK, MaskInv, Alive, NEW f, TopStep(f),
         Top.pc \notin Jumps, f.pc \notin Jumps, f.old = Top.old,
         UNCHANGED <<mask, env, want>>
  PROVE  MaskInv'
<1> USE DEF TopStep
<1>1. HandlersOut'
  BY DEF MaskInv, HandlersOut
<1>2. CASE Len(stack) = 1
  <2>1. stack'[1] = f /\ stack[1] = Top /\ ~InHandler /\ ~InHandler' /\ Alive'
    BY <1>2 DEF Top, InHandler, Alive
  <2>2. stack[1].pc # "longjmp" /\ stack[1].pc # "setjmp" /\ f.pc # "longjmp" /\ f.pc # "setjmp"
    BY <2>1 DEF Jumps
  <2>3. BufferRight' /\ MaskAsAsked'
    BY <2>1, <2>2 DEF MaskInv, BufferRight, MaskAsAsked, MainMask
  <2> QED BY <1>1, <2>3 DEF MaskInv
<1>3. CASE Len(stack) > 1
  <2>1. stack'[1] = stack[1] /\ InHandler /\ InHandler' /\ Alive'
    BY <1>3 DEF InHandler, Alive
  <2>2. stack'[2].old = stack[2].old
    BY <1>3 DEF Top
  <2>3. BufferRight' /\ MaskAsAsked'
    BY <2>1, <2>2 DEF MaskInv, BufferRight, MaskAsAsked, MainMask
  <2> QED BY <1>1, <2>3 DEF MaskInv
<1> QED BY <1>2, <1>3

\* What the calls that do not touch the mask have in common.
LEMMA MaskGoTo ==
  ASSUME TypeOK, MaskInv, Alive, Top.pc \notin Jumps,
         NEW pc \in Points \ Jumps, NEW ret \in Returns, GoTo(pc, ret),
         UNCHANGED <<mask, env, want>>
  PROVE  MaskInv'
<1>1. TopStep(Moved(pc, ret))
  BY GoToShape
<1>2. Moved(pc, ret).pc = pc /\ Moved(pc, ret).old = Top.old
  BY TopFrame DEF Moved, Frames
<1> QED BY <1>1, <1>2, MaskTop

\* Where the running frame is when it is main()'s.
LEMMA MainTop ==
  ASSUME TypeOK, Alive, ~InHandler
  PROVE  Len(stack) = 1 /\ Top = stack[1]
<1>1. Len(stack) \in Nat \ {0} /\ ~(Len(stack) > 1)
  BY TopFrame DEF InHandler
<1>2. Len(stack) = 1
  BY <1>1
<1> QED BY <1>2 DEF Top

\* A step inside setjmp() or longjmp() is main()'s.
LEMMA JumpTop ==
  ASSUME TypeOK, Alive, HandlersOut, Top.pc \in Jumps
  PROVE  ~InHandler
BY TopFrame DEF InHandler, HandlersOut, Top

\* sigprocmask() sets the mask of main(), or of a handler only.
LEMMA MaskSigprocmask ==
  ASSUME TypeOK, MaskInv, Sigprocmask
  PROVE  MaskInv'
<1>0. Alive /\ Top.pc = "user"
  BY DEF Sigprocmask, Calls, User
<1>1. TopStep(Moved("store", 0))
  BY <1>0, GoToShape, ReturnTypes DEF Sigprocmask
<1>2. Moved("store", 0).pc = "store" /\ Moved("store", 0).old = Top.old
  BY <1>0, TopFrame DEF Moved, Frames
<1>3. Alive' /\ env' = env /\ HandlersOut'
  BY <1>1, <1>2 DEF TopStep, Alive, Sigprocmask, HandlersOut, MaskInv, Jumps
<1>4. CASE InHandler
  <2>1. stack'[1] = stack[1] /\ stack'[2].old = stack[2].old /\ InHandler' /\ want' = want
    BY <1>1, <1>2, <1>4 DEF TopStep, InHandler, Top, Sigprocmask
  <2> QED BY <1>0, <1>3, <1>4, <2>1 DEF MaskInv, BufferRight, MaskAsAsked, MainMask
<1>5. CASE ~InHandler
  <2>1. stack'[1].pc = "store" /\ stack[1].pc = "user" /\ ~InHandler' /\ want' = mask'
    BY <1>0, <1>1, <1>2, <1>5, MainTop DEF TopStep, InHandler, Sigprocmask
  <2> QED BY <1>0, <1>3, <2>1 DEF MaskInv, BufferRight, MaskAsAsked, MainMask
<1> QED BY <1>4, <1>5

\* setjmp() notes where it is called before it has read the mask.
LEMMA MaskSetjmp ==
  ASSUME TypeOK, MaskInv, Setjmp
  PROVE  MaskInv'
<1>0. Alive /\ Top.pc = "user" /\ ~InHandler
  BY DEF Setjmp, Calls, User
<1>1. TopStep(Moved("setjmp", 0)) /\ Moved("setjmp", 0).pc = "setjmp"
  BY <1>0, GoToShape, ReturnTypes, TopFrame DEF Setjmp, Moved, Frames
<1>2. stack'[1].pc = "setjmp" /\ stack[1].pc = "user" /\ Len(stack') = 1 /\ Alive'
      /\ ~InHandler'
  BY <1>0, <1>1, MainTop DEF TopStep, Alive, InHandler
<1>3. env'.from = mask
  BY DEF Setjmp, TypeOK
<1>4. mask = want
  BY <1>0, <1>2 DEF MaskInv, MaskAsAsked, MainMask
<1>5. mask' = mask /\ want' = want
  BY DEF Setjmp
<1> QED BY <1>2, <1>3, <1>4, <1>5 DEF MaskInv, HandlersOut, BufferRight, MaskAsAsked, MainMask

\* When it has, the buffer is right.
LEMMA MaskSetjmpMask ==
  ASSUME TypeOK, MaskInv, SetjmpMask
  PROVE  MaskInv'
<1>0. Alive /\ Top.pc = "setjmp" /\ ~InHandler
  BY JumpTop DEF SetjmpMask, Jumps, MaskInv
<1>1. TopStep(Moved("user", 0)) /\ Moved("user", 0).pc = "user"
  BY <1>0, GoToShape, ReturnTypes, TopFrame DEF SetjmpMask, Moved, Frames
<1>2. stack'[1].pc = "user" /\ stack[1].pc = "setjmp" /\ Len(stack') = 1 /\ Alive'
      /\ ~InHandler'
  BY <1>0, <1>1, MainTop DEF TopStep, Alive, InHandler
<1>3. env'.mask = mask /\ env'.from = env.from
  BY DEF SetjmpMask, TypeOK
<1>4. mask = want /\ env.from = want
  BY <1>0, <1>2 DEF MaskInv, MaskAsAsked, MainMask, BufferRight
<1>5. mask' = mask /\ want' = want
  BY DEF SetjmpMask
<1> QED BY <1>2, <1>3, <1>4, <1>5 DEF MaskInv, HandlersOut, BufferRight, MaskAsAsked, MainMask

\* A jump is not made while setjmp() fills the buffer.
LEMMA MaskLongjmp ==
  ASSUME TypeOK, MaskInv, Longjmp, "jumpLate" \in Careful
  PROVE  MaskInv'
<1>1. stack[1].pc # "setjmp" /\ Alive /\ env' = env
  BY DEF Longjmp, Calls, User
<1>2. Len(stack') = 1 /\ stack'[1].pc = "longjmp"
  BY LongjmpShape
<1> QED BY <1>1, <1>2 DEF MaskInv, HandlersOut, BufferRight, MaskAsAsked

\* It ends with the mask of the setjmp() it comes back from.
LEMMA MaskLand ==
  ASSUME TypeOK, MaskInv, LongjmpLand
  PROVE  MaskInv'
<1>0. Alive /\ Top.pc = "longjmp" /\ ~InHandler
  BY JumpTop DEF LongjmpLand, Jumps, MaskInv
<1>1. TopStep(Moved("user", 0)) /\ Moved("user", 0).pc = "user"
  BY <1>0, GoToShape, ReturnTypes, TopFrame DEF LongjmpLand, Moved, Frames
<1>2. stack'[1].pc = "user" /\ stack[1].pc = "longjmp" /\ Len(stack') = 1 /\ Alive'
      /\ ~InHandler'
  BY <1>0, <1>1, MainTop DEF TopStep, Alive, InHandler
<1>3. mask' = env.mask /\ want' = env.from /\ env' = env
  BY DEF LongjmpLand, LongjmpMask
<1>4. env.mask = env.from
  BY <1>0, <1>2 DEF MaskInv, BufferRight
<1> QED BY <1>2, <1>3, <1>4 DEF MaskInv, HandlersOut, BufferRight, MaskAsAsked, MainMask

\* A handler keeps the mask of what it interrupts in its frame ...
LEMMA MaskDeliver ==
  ASSUME TypeOK, MaskInv, NEW s, Deliver(s)
  PROVE  MaskInv'
<1>0. Alive /\ PushStep(s) /\ env' = env /\ want' = want
  BY DeliverShape DEF Deliver
<1>1. Interrupted(Top, s).pc \in Jumps => Interrupted(Top, s) = Top
  <2>1. CASE Top.pc \notin Waits \/ (Top.pc = "read" /\ Restarts(s))
    BY <2>1 DEF Interrupted
  <2>2. CASE ~(Top.pc \notin Waits \/ (Top.pc = "read" /\ Restarts(s)))
    <3>1. Interrupted(Top, s).pc = After(Top.pc)
      BY <1>0, <2>2, TopFrame DEF Interrupted, Frames
    <3> QED BY <3>1 DEF After, Jumps
  <2> QED BY <2>1, <2>2
<1>2. Top.pc \in Jumps => Interrupted(Top, s) = Top
  BY DEF Interrupted, Jumps, Waits
<1>3. Frame(mask, errno).pc = "user" /\ Frame(mask, errno).old = mask
  BY DEF Frame
<1>4. Interrupted(Top, s).old = Top.old
  BY <1>0, TopFrame DEF Interrupted, Frames
<1>5. Alive' /\ InHandler'
  BY <1>0 DEF PushStep, Alive, InHandler
<1>6. HandlersOut'
  BY <1>0, <1>1, <1>3 DEF PushStep, HandlersOut, MaskInv, Top, Jumps
<1>7. \A pc \in Jumps : stack'[1].pc = pc <=> stack[1].pc = pc
  BY <1>0, <1>1, <1>2 DEF PushStep, Top
<1>8. stack'[2].old = MainMask
  <2>1. CASE ~InHandler
    <3>1. Len(stack) = 1
      BY <1>0, <2>1, MainTop
    <3> QED BY <1>0, <1>3, <2>1, <3>1 DEF PushStep, MainMask
  <2>2. CASE InHandler
    BY <1>0, <1>4, <2>2 DEF PushStep, MainMask, InHandler, Top
  <2> QED BY <2>1, <2>2
<1> QED BY <1>0, <1>5, <1>6, <1>7, <1>8
        DEF MaskInv, BufferRight, MaskAsAsked, MainMask, Jumps

\* ... and puts it back when it returns.
LEMMA MaskReturn ==
  ASSUME TypeOK, MaskInv, HandlerReturn
  PROVE  MaskInv'
<1>0. Alive /\ PopStep /\ env' = env /\ want' = want /\ InHandler /\ mask' = Top.old
  BY ReturnShape DEF HandlerReturn, User, ReturnMask
<1>1. HandlersOut' /\ Alive' /\ stack'[1] = stack[1]
  BY <1>0 DEF PopStep, HandlersOut, MaskInv, Alive
<1>2. MainMask' = MainMask
  <2>1. CASE Len(stack) = 2
    BY <1>0, <2>1 DEF PopStep, MainMask, InHandler, Top
  <2>2. CASE Len(stack) > 2
    BY <1>0, <2>2 DEF PopStep, MainMask, InHandler
  <2> QED BY <1>0, <2>1, <2>2 DEF PopStep
<1> QED BY <1>0, <1>1, <1>2 DEF MaskInv, BufferRight, MaskAsAsked

\* Every step keeps it.
LEMMA MaskStep ==
  ASSUME TypeOK, MaskInv, [Next]_vars, "jumpLate" \in Careful
  PROVE  MaskInv'
<1>1. CASE UserCall
  <2>0. Alive /\ Top.pc = "user" /\ Top.pc \notin Jumps
    BY <1>1 DEF UserCall, System, Wait, Sigprocmask, Signal, Alarm, Setjmp, Longjmp, Perror,
                Calls, User, Jumps
  <2>1. "store" \in Points \ Jumps /\ \A fn \in Waits : fn \in Points \ Jumps
    BY ReturnTypes DEF Jumps, Waits
  <2>2. CASE System \/ Signal \/ Alarm
    BY <2>0, <2>1, <2>2, MaskGoTo, ReturnTypes DEF System, Signal, Alarm
  <2>3. CASE \E fn \in Waits : Wait(fn)
    BY <2>0, <2>1, <2>3, MaskGoTo, ReturnTypes DEF Wait
  <2>4. ASSUME NEW prefix \in BOOLEAN, Perror(prefix) PROVE MaskInv'
    <3>1. TopStep(InPerror(prefix))
      BY <2>4, PerrorShape
    <3>2. InPerror(prefix).pc \notin Jumps /\ InPerror(prefix).old = Top.old
      BY <2>0, TopFrame DEF InPerror, Frames, Jumps
    <3>3. UNCHANGED <<mask, env, want>>
      BY <2>4 DEF Perror
    <3> QED BY <2>0, <3>1, <3>2, <3>3, MaskTop
  <2> QED BY <1>1, <2>2, <2>3, <2>4, MaskSigprocmask, MaskSetjmp, MaskLongjmp DEF UserCall
<1>2. CASE Library
  <2>1. CASE Complete
    <3>1. Alive /\ Top.pc \notin Jumps /\ After(Top.pc) \in Points \ Jumps
      BY <2>1, ReturnTypes DEF Complete, Waits, Jumps, After
    <3> QED BY <2>1, <3>1, MaskGoTo, ReturnTypes DEF Complete
  <2>2. CASE Store
    <3>1. Alive /\ Top.pc \notin Jumps /\ UNCHANGED <<mask, env, want>>
      BY <2>2 DEF Store, Jumps
    <3>2. Stored.pc \notin Jumps /\ Stored.old = Top.old
      BY <3>1, TopFrame DEF Stored, Frames, Jumps
    <3> QED BY <2>2, <3>1, <3>2, StoreShape, MaskTop
  <2>3. CASE PerrorPrefix
    <3> DEFINE f == [Top EXCEPT !.pc = "message"]
    <3>1. Alive /\ Top.pc \notin Jumps /\ UNCHANGED <<mask, env, want>>
      BY <2>3 DEF PerrorPrefix, Jumps
    <3>2. f.pc \notin Jumps /\ f.old = Top.old
      BY <3>1, TopFrame DEF Frames, Jumps
    <3>3. TopStep(f)
      BY <2>3, PerrorShape
    <3> HIDE DEF f
    <3> QED BY <3>1, <3>2, <3>3, MaskTop
  <2>4. CASE PerrorMessage
    <3>1. Alive /\ Top.pc \notin Jumps /\ UNCHANGED <<mask, env, want>>
      BY <2>4 DEF PerrorMessage, Jumps
    <3>2. PICK text \in Messages(Top.perr.at) : TopStep(Printed(text))
      BY <2>4, PerrorShape DEF Prints
    <3>3. Printed(text).pc \notin Jumps /\ Printed(text).old = Top.old
      BY <3>1, TopFrame DEF Printed, Frames, Jumps
    <3> QED BY <3>1, <3>2, <3>3, MaskTop
  <2>5. CASE PerrorCrash
    <3>1. stack' = <<>> /\ Len(stack') = 0
      BY <2>5 DEF PerrorCrash
    <3> QED BY <3>1 DEF MaskInv, HandlersOut, BufferRight, MaskAsAsked, Alive
  <2> QED BY <1>2, <2>1, <2>2, <2>3, <2>4, <2>5, MaskSetjmpMask, MaskLand DEF Library
<1>3. CASE HandlerReturn
  BY <1>3, MaskReturn
<1>4. CASE Kernel
  <2>1. ASSUME NEW s \in Sigs, Terminate(s) PROVE MaskInv'
    <3>1. stack' = <<>> /\ Len(stack') = 0
      BY <2>1 DEF Terminate
    <3> QED BY <3>1 DEF MaskInv, HandlersOut, BufferRight, MaskAsAsked, Alive
  <2>2. ASSUME UNCHANGED <<stack, mask, env, want>> PROVE MaskInv'
    BY <2>2 DEF MaskInv, HandlersOut, BufferRight, MaskAsAsked, Alive, MainMask, InHandler
  <2> QED BY <1>4, <2>1, <2>2, MaskDeliver DEF Kernel, Expire, Raise, Drop
<1>5. CASE Terminated \/ UNCHANGED vars
  BY <1>5 DEF Terminated, vars, MaskInv, HandlersOut, BufferRight, MaskAsAsked, Alive,
              MainMask, InHandler
<1> QED BY <1>1, <1>2, <1>3, <1>4, <1>5 DEF Next

\* main() runs with the mask it asked for, whatever handlers interrupt it, each
\* other, setjmp() and longjmp(), if none jumps while setjmp() fills the buffer.
THEOREM MaskKept ==
  ASSUME "jumpLate" \in Careful
  PROVE  Spec => []MaskAsAsked
<1>1. Init => MaskInv
  <2> SUFFICES ASSUME Init PROVE MaskInv
    OBVIOUS
  <2>1. stack = <<Frame({}, 0)>> /\ Len(stack) = 1 /\ stack[1] = Frame({}, 0)
    BY DEF Init
  <2>2. stack[1].pc = "user" /\ ~InHandler
    BY <2>1 DEF Frame, InHandler
  <2> QED BY <2>1, <2>2 DEF Init, MaskInv, HandlersOut, BufferRight, MaskAsAsked, MainMask
<1>2. TypeOK /\ MaskInv /\ [Next]_vars => MaskInv'
  BY MaskStep
<1>3. MaskInv => MaskAsAsked
  BY DEF MaskInv
<1> QED BY <1>1, <1>2, <1>3, TypeCorrect, PTL DEF Spec

-----------------------------------------------------------------------------
(* errno.                                                                  *)

\* The error of a call is what its caller will find: a frame that is
\* interrupted finds what the handler above it has saved.
ErrInv ==
  /\ \A i \in 1 .. Len(stack) : stack[i].pc # "user" => stack[i].err = 0
  /\ Alive /\ Top.err # 0 => errno = Top.err
  /\ \A i \in 1 .. Len(stack) - 1 : stack[i].err # 0 => stack[i + 1].saved = stack[i].err

\* A step after which the frame's last call has no error to look at.
LEMMA ErrTop ==
  ASSUME TypeOK, ErrInv, Alive, NEW f, TopStep(f), f.saved = Top.saved,
         f.err # 0 => f.pc = "user" /\ errno' = f.err
  PROVE  ErrInv'
<1> USE DEF TopStep
<1>1. Alive' /\ Top' = f
  BY DEF Alive, Top
<1>2. \A i \in 1 .. Len(stack') : stack'[i].pc # "user" => stack'[i].err = 0
  BY DEF ErrInv
<1>3. \A i \in 1 .. Len(stack') - 1 :
        stack'[i].err # 0 => stack'[i + 1].saved = stack'[i].err
  <2> SUFFICES ASSUME NEW i \in 1 .. Len(stack) - 1, stack'[i].err # 0
               PROVE  stack'[i + 1].saved = stack'[i].err
    OBVIOUS
  <2>1. stack'[i] = stack[i] /\ stack[i + 1].saved = stack[i].err
    BY DEF ErrInv
  <2>2. stack'[i + 1].saved = stack[i + 1].saved
    BY DEF Top
  <2> QED BY <2>1, <2>2
<1> QED BY <1>1, <1>2, <1>3 DEF ErrInv

\* GoTo() is one.
LEMMA ErrGoTo ==
  ASSUME TypeOK, ErrInv, Alive, NEW pc \in Points, NEW ret \in Returns, GoTo(pc, ret)
  PROVE  ErrInv'
<1>1. TopStep(Moved(pc, ret))
  BY GoToShape
<1>2. Moved(pc, ret).saved = Top.saved /\ Moved(pc, ret).err = 0
  BY TopFrame DEF Moved, Frames
<1> QED BY <1>1, <1>2, ErrTop

\* The store sets errno for the caller.
LEMMA ErrStore ==
  ASSUME TypeOK, ErrInv, Store
  PROVE  ErrInv'
<1>0. Alive /\ TopStep(Stored) /\ errno' = ErrnoOf(Top.ret)
  BY StoreShape DEF Store
<1>1. Stored.saved = Top.saved /\ Stored.err = ErrnoOf(Top.ret) /\ Stored.pc = "user"
  BY <1>0, TopFrame DEF Stored, Frames
<1> QED BY <1>0, <1>1, ErrTop

\* perror() is not looked at for errors.
LEMMA ErrPerror ==
  ASSUME TypeOK, ErrInv,
         PerrorPrefix \/ PerrorMessage \/ \E prefix \in BOOLEAN : Perror(prefix)
  PROVE  ErrInv'
<1>0. Alive
  BY DEF PerrorPrefix, PerrorMessage, Perror, Calls, User
<1>1. ASSUME NEW prefix \in BOOLEAN, Perror(prefix) PROVE ErrInv'
  <2>1. InPerror(prefix).saved = Top.saved /\ InPerror(prefix).err = 0
    BY <1>0, TopFrame DEF InPerror, Frames
  <2> QED BY <1>0, <1>1, <2>1, PerrorShape, ErrTop
<1>2. Top.pc # "user" => Top.err = 0
  BY <1>0, TopFrame DEF ErrInv, Top
<1>3. CASE PerrorPrefix
  <2> DEFINE f == [Top EXCEPT !.pc = "message"]
  <2>1. f.saved = Top.saved /\ f.err = 0 /\ TopStep(f)
    BY <1>0, <1>2, <1>3, TopFrame, PerrorShape DEF PerrorPrefix, Frames
  <2> HIDE DEF f
  <2> QED BY <1>0, <2>1, ErrTop
<1>4. CASE PerrorMessage
  <2>1. PICK text \in Messages(Top.perr.at) : TopStep(Printed(text))
    BY <1>4, PerrorShape DEF Prints
  <2>2. Printed(text).saved = Top.saved /\ Printed(text).err = 0
    BY <1>0, <1>2, <1>4, TopFrame DEF PerrorMessage, Printed, Frames
  <2> QED BY <1>0, <2>1, <2>2, ErrTop
<1> QED BY <1>1, <1>3, <1>4

\* A handler saves errno for the frame below ...
LEMMA ErrDeliver ==
  ASSUME TypeOK, ErrInv, NEW s, Deliver(s)
  PROVE  ErrInv'
<1>0. Alive /\ PushStep(s)
  BY DeliverShape DEF Deliver
<1> DEFINE f == Interrupted(Top, s)
           g == Frame(mask, errno)
<1>1. f.err = Top.err /\ f.saved = Top.saved
  BY <1>0, TopFrame DEF Interrupted, Frames
<1>2. f.pc # "user" => f.err = 0
  <2>1. Top.pc # "user" => Top.err = 0
    BY <1>0, TopFrame DEF ErrInv, Top
  <2>2. f.pc # "user" => Top.pc # "user"
    BY DEF Interrupted, Waits
  <2> QED BY <1>1, <2>1, <2>2
<1>3. g.err = 0 /\ g.saved = errno /\ g.pc = "user"
  BY DEF Frame
<1>4. /\ Len(stack) \in Nat \ {0} /\ Len(stack') = Len(stack) + 1
      /\ stack'[Len(stack)] = f /\ stack'[Len(stack) + 1] = g
      /\ \A i \in 1 .. Len(stack) : i # Len(stack) => stack'[i] = stack[i]
  BY <1>0 DEF PushStep
<1> HIDE DEF f, g
<1>5. \A i \in 1 .. Len(stack') : stack'[i].pc # "user" => stack'[i].err = 0
  BY <1>2, <1>3, <1>4 DEF ErrInv
<1>6. Top'.err = 0
  BY <1>3, <1>4 DEF Top
<1>7. \A i \in 1 .. Len(stack') - 1 :
        stack'[i].err # 0 => stack'[i + 1].saved = stack'[i].err
  <2> SUFFICES ASSUME NEW i \in 1 .. Len(stack), stack'[i].err # 0
               PROVE  stack'[i + 1].saved = stack'[i].err
    BY <1>4
  <2>1. CASE i = Len(stack)
    BY <1>0, <1>1, <1>3, <1>4, <2>1 DEF ErrInv
  <2>2. CASE i # Len(stack)
    <3>1. i \in 1 .. Len(stack) - 1 /\ stack'[i] = stack[i]
      BY <1>4, <2>2
    <3>2. stack[i + 1].saved = stack[i].err
      BY <3>1 DEF ErrInv
    <3>3. stack'[i + 1].saved = stack[i + 1].saved
      BY <1>1, <1>4, <3>1 DEF Top
    <3> QED BY <3>1, <3>2, <3>3
  <2> QED BY <2>1, <2>2
<1> QED BY <1>5, <1>6, <1>7 DEF ErrInv

\* ... and a careful one puts it back.
LEMMA ErrReturn ==
  ASSUME TypeOK, ErrInv, HandlerReturn, "saveErrno" \in Careful
  PROVE  ErrInv'
<1>0. PopStep /\ errno' = Top.saved
  BY ReturnShape DEF HandlerReturn
<1>1. \A i \in 1 .. Len(stack') : stack'[i].pc # "user" => stack'[i].err = 0
  BY <1>0 DEF PopStep, ErrInv
<1>2. \A i \in 1 .. Len(stack') - 1 :
        stack'[i].err # 0 => stack'[i + 1].saved = stack'[i].err
  BY <1>0 DEF PopStep, ErrInv
<1>3. Top'.err # 0 => errno' = Top'.err
  <2>1. Top' = stack[Len(stack) - 1] /\ Len(stack) - 1 \in 1 .. Len(stack) - 1
        /\ (Len(stack) - 1) + 1 = Len(stack)
    BY <1>0 DEF PopStep, Top
  <2>2. stack[Len(stack) - 1].err # 0 => Top.saved = stack[Len(stack) - 1].err
    BY <2>1 DEF ErrInv, Top
  <2> QED BY <1>0, <2>1, <2>2
<1> QED BY <1>1, <1>2, <1>3 DEF ErrInv

\* Every step keeps it.
LEMMA ErrStep ==
  ASSUME TypeOK, ErrInv, [Next]_vars, "saveErrno" \in Careful
  PROVE  ErrInv'
<1>1. CASE UserCall
  <2>0. Alive
    BY <1>1 DEF UserCall, System, Wait, Sigprocmask, Signal, Alarm, Setjmp, Longjmp, Perror,
                Calls, User
  <2>1. CASE System \/ Sigprocmask \/ Signal \/ Alarm \/ Setjmp
    BY <2>0, <2>1, ErrGoTo, ReturnTypes DEF System, Sigprocmask, Signal, Alarm, Setjmp
  <2>2. CASE \E fn \in Waits : Wait(fn)
    BY <2>0, <2>2, ErrGoTo, ReturnTypes DEF Wait
  <2>3. CASE Longjmp
    <3>1. Len(stack') = 1 /\ stack'[1].err = 0
      BY <2>3, LongjmpShape
    <3> QED BY <3>1 DEF ErrInv, Top
  <2> QED BY <1>1, <2>1, <2>2, <2>3, ErrPerror DEF UserCall
<1>2. CASE Library
  <2>1. CASE Complete
    <3>1. Alive /\ After(Top.pc) \in Points
      BY <2>1, ReturnTypes DEF Complete, After
    <3> QED BY <2>1, <3>1, ErrGoTo, ReturnTypes DEF Complete
  <2>2. CASE SetjmpMask \/ LongjmpLand
    BY <2>2, ErrGoTo, ReturnTypes DEF SetjmpMask, LongjmpLand
  <2>3. CASE PerrorCrash
    <3>1. stack' = <<>> /\ Len(stack') = 0
      BY <2>3 DEF PerrorCrash
    <3> QED BY <3>1 DEF ErrInv, Alive
  <2> QED BY <1>2, <2>1, <2>2, <2>3, ErrStore, ErrPerror DEF Library
<1>3. CASE HandlerReturn
  BY <1>3, ErrReturn
<1>4. CASE Kernel
  <2>1. ASSUME NEW s \in Sigs, Terminate(s) PROVE ErrInv'
    <3>1. stack' = <<>> /\ Len(stack') = 0
      BY <2>1 DEF Terminate
    <3> QED BY <3>1 DEF ErrInv, Alive
  <2>2. ASSUME UNCHANGED <<stack, errno>> PROVE ErrInv'
    BY <2>2 DEF ErrInv, Alive, Top
  <2> QED BY <1>4, <2>1, <2>2, ErrDeliver DEF Kernel, Expire, Raise, Drop
<1>5. CASE Terminated \/ UNCHANGED vars
  BY <1>5 DEF Terminated, vars, ErrInv, Alive, Top
<1> QED BY <1>1, <1>2, <1>3, <1>4, <1>5 DEF Next

\* The caller of a function that failed finds its error in errno, however deep
\* the handlers nest, if every handler puts errno back.
THEOREM ErrnoKept ==
  ASSUME "saveErrno" \in Careful
  PROVE  Spec => []ErrnoRight
<1>1. Init => ErrInv
  <2> SUFFICES ASSUME Init PROVE ErrInv
    OBVIOUS
  <2>1. stack = <<Frame({}, 0)>> /\ Len(stack) = 1 /\ stack[1] = Frame({}, 0)
    BY DEF Init
  <2>2. stack[1].err = 0 /\ Top.err = 0
    BY <2>1 DEF Frame, Top
  <2> QED BY <2>1, <2>2 DEF ErrInv
<1>2. TypeOK /\ ErrInv /\ [Next]_vars => ErrInv'
  BY ErrStep
<1>3. ErrInv => ErrnoRight
  BY DEF ErrInv, ErrnoRight, User
<1> QED BY <1>1, <1>2, <1>3, TypeCorrect, PTL DEF Spec

-----------------------------------------------------------------------------
(* perror().                                                               *)

PerrorPoints == {"prefix", "message"}

\* perror() without a prefix is about to choose its message.
Choosing(f) == f.pc = "message" /\ ~f.perr.prefix

\* A frame that has a text printed, has the right one, and is inside the prefix
\* only if there is one.
PerrFrame(f) ==
  /\ f.perr.at >= 0 /\ f.pc \notin PerrorPoints => RightPerr(f.perr)
  /\ f.pc = "prefix" => f.perr.prefix

\* Until the message is chosen errno is the one that perror() began with: a
\* frame that is interrupted there finds what the handler above it has saved.
PerrorInv ==
  /\ \A i \in 1 .. Len(stack) : PerrFrame(stack[i])
  /\ Alive /\ Choosing(Top) => errno = Top.perr.at
  /\ \A i \in 1 .. Len(stack) - 1 :
       Choosing(stack[i]) => stack[i + 1].saved = stack[i].perr.at

\* A step that leaves the top frame right keeps it.
LEMMA PerrorTop ==
  ASSUME TypeOK, PerrorInv, Alive, NEW f, TopStep(f), f.saved = Top.saved,
         PerrFrame(f), Choosing(f) => errno' = f.perr.at
  PROVE  PerrorInv'
<1> USE DEF TopStep
<1>1. Alive' /\ Top' = f
  BY DEF Alive, Top
<1>2. \A i \in 1 .. Len(stack') : PerrFrame(stack'[i])
  BY DEF PerrorInv
<1>3. \A i \in 1 .. Len(stack') - 1 :
        Choosing(stack'[i]) => stack'[i + 1].saved = stack'[i].perr.at
  <2> SUFFICES ASSUME NEW i \in 1 .. Len(stack) - 1, Choosing(stack'[i])
               PROVE  stack'[i + 1].saved = stack'[i].perr.at
    OBVIOUS
  <2>1. stack'[i] = stack[i] /\ stack[i + 1].saved = stack[i].perr.at
    BY DEF PerrorInv
  <2>2. stack'[i + 1].saved = stack[i + 1].saved
    BY DEF Top
  <2> QED BY <2>1, <2>2
<1>4. Choosing(Top') => errno' = Top'.perr.at
  BY <1>1
<1> QED BY <1>1, <1>2, <1>3, <1>4 DEF PerrorInv, PerrFrame, Choosing

\* No process, no frames.
LEMMA PerrorGone ==
  ASSUME stack' = <<>>
  PROVE  PerrorInv'
<1>1. Len(stack') = 0
  OBVIOUS
<1> QED BY <1>1 DEF PerrorInv, Alive

\* A step that changes neither the stack nor errno keeps it.
LEMMA PerrorSame ==
  ASSUME PerrorInv, UNCHANGED <<stack, errno>>
  PROVE  PerrorInv'
BY DEF PerrorInv, PerrFrame, Choosing, Alive, Top

\* GoTo() forgets what was printed.
LEMMA PerrorGoTo ==
  ASSUME TypeOK, PerrorInv, Alive, NEW pc \in Points \ PerrorPoints, NEW ret \in Returns,
         GoTo(pc, ret)
  PROVE  PerrorInv'
<1> DEFINE f == Moved(pc, ret)
<1>1. TopStep(f)
  BY GoToShape
<1>2. f.perr.at = -1 /\ f.saved = Top.saved /\ f.pc = pc
  BY TopFrame DEF Moved, Frames, Silent
<1> HIDE DEF f
<1>3. PerrFrame(f) /\ ~Choosing(f)
  BY <1>2 DEF PerrFrame, Choosing, PerrorPoints
<1> QED BY <1>1, <1>2, <1>3, PerrorTop

\* The store to errno comes after a call that is not perror().
LEMMA PerrorStore ==
  ASSUME TypeOK, PerrorInv, Store
  PROVE  PerrorInv'
<1>1. Alive /\ TopStep(Stored) /\ Top.pc = "store"
  BY StoreShape DEF Store
<1>2. Stored.perr = Top.perr /\ Stored.saved = Top.saved /\ Stored.pc = "user"
  BY <1>1, TopFrame DEF Stored, Frames
<1>3. PerrFrame(Top)
  BY <1>1, TopFrame DEF PerrorInv, Top
<1>4. PerrFrame(Stored) /\ ~Choosing(Stored)
  BY <1>1, <1>2, <1>3 DEF PerrFrame, Choosing, PerrorPoints
<1> QED BY <1>1, <1>2, <1>4, PerrorTop

\* perror() notes errno; the prefix is still to be written, or there is none.
LEMMA PerrorBegins ==
  ASSUME TypeOK, PerrorInv, NEW prefix \in BOOLEAN, Perror(prefix)
  PROVE  PerrorInv'
<1> DEFINE f == InPerror(prefix)
<1>0. Alive /\ TopStep(f) /\ errno' = errno
  BY PerrorShape DEF Perror, Calls, User
<1>1. /\ f.saved = Top.saved /\ f.perr.at = errno /\ f.perr.prefix = prefix
      /\ f.pc = IF prefix THEN "prefix" ELSE "message"
  BY <1>0, TopFrame DEF InPerror, Frames
<1> HIDE DEF f
<1>2. PerrFrame(f)
  BY <1>1 DEF PerrFrame, PerrorPoints
<1> QED BY <1>0, <1>1, <1>2, PerrorTop

\* After the prefix errno no longer counts.
LEMMA PerrorPrefixed ==
  ASSUME TypeOK, PerrorInv, PerrorPrefix
  PROVE  PerrorInv'
<1> DEFINE f == [Top EXCEPT !.pc = "message"]
<1>0. Alive /\ Top.pc = "prefix" /\ TopStep(f)
  BY PerrorShape DEF PerrorPrefix
<1>1. PerrFrame(Top)
  BY <1>0, TopFrame DEF PerrorInv, Top
<1>2. f.saved = Top.saved /\ f.pc = "message" /\ f.perr = Top.perr
  BY <1>0, TopFrame DEF Frames
<1> HIDE DEF f
<1>3. PerrFrame(f) /\ ~Choosing(f)
  BY <1>0, <1>1, <1>2 DEF PerrFrame, Choosing, PerrorPoints
<1> QED BY <1>0, <1>2, <1>3, PerrorTop

\* The message that is chosen is right: without a prefix the range test is on
\* the errno that perror() began with.
LEMMA MessageRight ==
  ASSUME TypeOK, PerrorInv, Alive, Top.pc = "message", NEW text \in Messages(Top.perr.at),
         Top.perr.at >= 0
  PROVE  \/ text = PerrorText(Top.perr.at)
         \/ Top.perr.prefix /\ (text = Unknown \/ Top.perr.at > PERRMSG_MAX)
<1>1. errno \in Int /\ Top.perr.at \in Int /\ PERRMSG_MAX \in Int
  <2>1. errno \in Numbers /\ Top.perr.at \in {-1} \cup Numbers
    BY TopFrame DEF TypeOK, Frames, Perrs
  <2> QED BY <2>1, ReturnTypes, LibAssumption
<1>2. ~Top.perr.prefix => errno = Top.perr.at
  BY DEF PerrorInv, Choosing
<1>3. CASE errno > PERRMSG_MAX
  <2>1. text = Unknown
    BY <1>3 DEF Messages
  <2> QED BY <1>1, <1>2, <1>3, <2>1 DEF PerrorText
<1>4. CASE ~(errno > PERRMSG_MAX) /\ Top.perr.at > PERRMSG_MAX
  BY <1>2, <1>4
<1>5. CASE ~(errno > PERRMSG_MAX) /\ ~(Top.perr.at > PERRMSG_MAX)
  <2>1. text = Top.perr.at
    BY <1>5 DEF Messages
  <2> QED BY <1>1, <1>5, <2>1 DEF PerrorText
<1> QED BY <1>3, <1>4, <1>5

\* So the text that is printed is.
LEMMA PerrorPrinted ==
  ASSUME TypeOK, PerrorInv, PerrorMessage
  PROVE  PerrorInv'
<1>0. Alive /\ Top.pc = "message"
  BY DEF PerrorMessage
<1>1. PICK text \in Messages(Top.perr.at) : TopStep(Printed(text))
  BY PerrorShape DEF Prints
<1> DEFINE f == Printed(text)
<1>2. /\ f.saved = Top.saved /\ f.pc = "user" /\ f.perr.at = Top.perr.at
      /\ f.perr.prefix = Top.perr.prefix /\ f.perr.text = text
  BY <1>0, TopFrame DEF Printed, Frames, Perrs
<1>3. TopStep(f)
  BY <1>1
<1> HIDE DEF f
<1>4. f.perr.at >= 0 => RightPerr(f.perr)
  BY <1>0, <1>2, MessageRight DEF RightPerr
<1>5. PerrFrame(f) /\ ~Choosing(f)
  BY <1>2, <1>4 DEF PerrFrame, Choosing
<1> QED BY <1>0, <1>2, <1>3, <1>5, PerrorTop

\* A handler saves errno for the frame below ...
LEMMA PerrorDeliver ==
  ASSUME TypeOK, PerrorInv, NEW s, Deliver(s)
  PROVE  PerrorInv'
<1>0. Alive /\ PushStep(s)
  BY DeliverShape DEF Deliver
<1> DEFINE f == Interrupted(Top, s)
           g == Frame(mask, errno)
<1>1. f.perr = Top.perr /\ f.saved = Top.saved
  BY <1>0, TopFrame DEF Interrupted, Frames
<1>2. /\ f.pc \in PerrorPoints => f.pc = Top.pc
      /\ f.pc \notin PerrorPoints => Top.pc \notin PerrorPoints
  BY <1>0, TopFrame DEF Interrupted, Frames, PerrorPoints, Waits, After
<1>3. g.saved = errno /\ g.pc = "user" /\ g.perr.at = -1
  BY DEF Frame, Silent
<1>4. /\ Len(stack) \in Nat \ {0} /\ Len(stack') = Len(stack) + 1 /\ stack' # <<>>
      /\ stack'[Len(stack)] = f /\ stack'[Len(stack) + 1] = g
      /\ \A i \in 1 .. Len(stack) : i # Len(stack) => stack'[i] = stack[i]
  BY <1>0 DEF PushStep
<1> HIDE DEF f, g
<1>5. PerrFrame(Top)
  BY <1>0, TopFrame DEF PerrorInv, Top
<1>6. PerrFrame(f) /\ (Choosing(f) => Choosing(Top))
  BY <1>1, <1>2, <1>5 DEF PerrFrame, Choosing, PerrorPoints
<1>7. PerrFrame(g) /\ ~Choosing(g)
  BY <1>3 DEF PerrFrame, Choosing
<1>8. \A i \in 1 .. Len(stack') : PerrFrame(stack'[i])
  BY <1>4, <1>6, <1>7 DEF PerrorInv
<1>9. Top' = g
  BY <1>4 DEF Top
<1>10. \A i \in 1 .. Len(stack') - 1 :
         Choosing(stack'[i]) => stack'[i + 1].saved = stack'[i].perr.at
  <2> SUFFICES ASSUME NEW i \in 1 .. Len(stack), Choosing(stack'[i])
               PROVE  stack'[i + 1].saved = stack'[i].perr.at
    BY <1>4
  <2>1. CASE i = Len(stack)
    BY <1>0, <1>1, <1>3, <1>4, <1>6, <2>1 DEF PerrorInv
  <2>2. CASE i # Len(stack)
    <3>1. i \in 1 .. Len(stack) - 1 /\ stack'[i] = stack[i]
      BY <1>4, <2>2
    <3>2. stack[i + 1].saved = stack[i].perr.at
      BY <3>1 DEF PerrorInv
    <3>3. stack'[i + 1].saved = stack[i + 1].saved
      BY <1>1, <1>4, <3>1 DEF Top
    <3> QED BY <3>1, <3>2, <3>3
  <2> QED BY <2>1, <2>2
<1> QED BY <1>7, <1>8, <1>9, <1>10 DEF PerrorInv, PerrFrame, Choosing

\* ... and a careful one puts it back.
LEMMA PerrorReturn ==
  ASSUME TypeOK, PerrorInv, HandlerReturn, "saveErrno" \in Careful
  PROVE  PerrorInv'
<1>0. PopStep /\ errno' = Top.saved
  BY ReturnShape DEF HandlerReturn
<1>1. \A i \in 1 .. Len(stack') : PerrFrame(stack'[i])
  BY <1>0 DEF PopStep, PerrorInv
<1>2. \A i \in 1 .. Len(stack') - 1 :
        Choosing(stack'[i]) => stack'[i + 1].saved = stack'[i].perr.at
  BY <1>0 DEF PopStep, PerrorInv
<1>3. Choosing(Top') => errno' = Top'.perr.at
  <2>1. Top' = stack[Len(stack) - 1] /\ Len(stack) - 1 \in 1 .. Len(stack) - 1
        /\ (Len(stack) - 1) + 1 = Len(stack)
    BY <1>0 DEF PopStep, Top
  <2>2. Choosing(stack[Len(stack) - 1]) => Top.saved = stack[Len(stack) - 1].perr.at
    BY <2>1 DEF PerrorInv, Top
  <2> QED BY <1>0, <2>1, <2>2
<1> QED BY <1>1, <1>2, <1>3 DEF PerrorInv, PerrFrame, Choosing

\* Every step keeps it.
LEMMA PerrorStep ==
  ASSUME TypeOK, PerrorInv, [Next]_vars, "saveErrno" \in Careful
  PROVE  PerrorInv'
<1>0. /\ Waits \cup {"user", "store", "setjmp", "longjmp"} \subseteq Points \ PerrorPoints
      /\ \A fn : After(fn) \in {"user", "store"}
  BY DEF Points, PerrorPoints, Waits, After
<1>1. CASE UserCall
  <2>0. Alive
    BY <1>1 DEF UserCall, System, Wait, Sigprocmask, Signal, Alarm, Setjmp, Longjmp, Perror,
                Calls, User
  <2>1. CASE System \/ Sigprocmask \/ Signal \/ Alarm \/ Setjmp
    BY <1>0, <2>0, <2>1, PerrorGoTo, ReturnTypes
       DEF System, Sigprocmask, Signal, Alarm, Setjmp
  <2>2. CASE \E fn \in Waits : Wait(fn)
    BY <1>0, <2>0, <2>2, PerrorGoTo, ReturnTypes DEF Wait
  <2>3. CASE Longjmp
    <3>1. Len(stack') = 1 /\ stack'[1].perr.at = -1 /\ stack'[1].pc = "longjmp"
      BY <2>3, LongjmpShape DEF Silent
    <3>2. PerrFrame(stack'[1]) /\ ~Choosing(stack'[1])
      BY <3>1 DEF PerrFrame, Choosing
    <3> QED BY <3>1, <3>2 DEF PerrorInv, PerrFrame, Choosing, Top
  <2> QED BY <1>1, <2>1, <2>2, <2>3, PerrorBegins DEF UserCall
<1>2. CASE Library
  <2>1. CASE Complete
    BY <1>0, <2>1, PerrorGoTo, ReturnTypes DEF Complete
  <2>2. CASE SetjmpMask \/ LongjmpLand
    BY <1>0, <2>2, PerrorGoTo, ReturnTypes DEF SetjmpMask, LongjmpLand
  <2> QED BY <1>2, <2>1, <2>2, PerrorStore, PerrorPrefixed, PerrorPrinted, PerrorGone
          DEF Library, PerrorCrash
<1>3. CASE HandlerReturn
  BY <1>3, PerrorReturn
<1>4. CASE Kernel
  <2>1. ASSUME NEW s \in Sigs, Terminate(s) PROVE PerrorInv'
    BY <2>1, PerrorGone DEF Terminate
  <2>2. ASSUME UNCHANGED <<stack, errno>> PROVE PerrorInv'
    BY <2>2, PerrorSame
  <2> QED BY <1>4, <2>1, <2>2, PerrorDeliver DEF Kernel, Expire, Raise, Drop
<1>5. CASE Terminated \/ UNCHANGED vars
  BY <1>5, PerrorSame DEF Terminated, vars
<1> QED BY <1>1, <1>2, <1>3, <1>4, <1>5 DEF Next

\* perror() prints the entry for the errno it was called with, or "Unknown" for
\* a number outside the table, whatever error numbers there are and whatever
\* handlers run meanwhile, if every handler puts errno back; with a prefix it
\* never prints the entry of another error for a number in the table.
THEOREM PerrorKept ==
  ASSUME "saveErrno" \in Careful
  PROVE  Spec => []PerrorRight
<1>1. Init => PerrorInv
  <2> SUFFICES ASSUME Init PROVE PerrorInv
    OBVIOUS
  <2>1. stack = <<Frame({}, 0)>> /\ Len(stack) = 1 /\ stack[1] = Frame({}, 0)
    BY DEF Init
  <2>2. stack[1].perr.at = -1 /\ stack[1].pc = "user" /\ Top = stack[1]
    BY <2>1 DEF Frame, Silent, Top
  <2>3. PerrFrame(stack[1]) /\ ~Choosing(Top)
    BY <2>2 DEF PerrFrame, Choosing
  <2> QED BY <2>1, <2>3 DEF PerrorInv
<1>2. TypeOK /\ PerrorInv /\ [Next]_vars => PerrorInv'
  BY PerrorStep
<1>3. TypeOK /\ PerrorInv => PerrorRight
  <2> SUFFICES ASSUME TypeOK, PerrorInv, User, Top.perr.at >= 0
               PROVE  RightPerr(Top.perr)
    BY DEF PerrorRight
  <2>1. Alive /\ Top.pc = "user" /\ PerrFrame(Top)
    BY TopFrame DEF User, PerrorInv, Top
  <2> QED BY <2>1 DEF PerrFrame, PerrorPoints
<1> QED BY <1>1, <1>2, <1>3, TypeCorrect, PTL DEF Spec
=============================================================================
