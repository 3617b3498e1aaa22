---------------------------- MODULE LoggerProofs ----------------------------
(***************************************************************************)
(* What is proved about Logger for every value of its constants, any       *)
(* number of threads and descriptors among them: the types, that lines     *)
(* name the right files, that the log stays on its descriptor, and that    *)
(* the program's calls are those of the plain library.                     *)
(***************************************************************************)
EXTENDS Logger, Least, TLAPS

-----------------------------------------------------------------------------
(* Helpers.                                                                *)

\* The kernel finds the lowest free descriptor whenever there is a free one.
LEMMA LowestFree ==
  ASSUME NEW table, Free(table) # {}
  PROVE  Lowest(table) \in Free(table) /\ \A x \in Free(table) : Lowest(table) <= x
<1>1. Free(table) \subseteq Nat
  BY LoggerAssumption DEF Free
<1>2. \E m \in Free(table) : \A x \in Free(table) : m <= x
  BY <1>1, LeastNat
<1> QED BY <1>2 DEF Lowest

\* Only chmod() and creat() share a pointer.
LEMMA InstanceOf ==
  ASSUME NEW f, NEW g, Instance(f) = Instance(g)
  PROVE  /\ g \in {"close", "fclose"} => f = g
         /\ g \in {"read", "write", "fread", "fwrite"} => f = g
         /\ g \in {"open", "creat", "fopen", "tmpfile"} =>
              f = g \/ (g = "creat" /\ f \in {"chmod", "int_path_mode"})
BY DEF Instance

Instances == {Instance(fn) : fn \in Calls}

\* Each instance keeps None or a function of its own type.
CacheOK ==
  /\ cache \in [Instances -> Calls \cup {None}]
  /\ \A i \in Instances : cache[i] # None => Instance(cache[i]) = i

\* So the function behind a wrapper has its type.
LEMMA RealInstance ==
  ASSUME CacheOK, NEW fn \in Calls
  PROVE  /\ RealFunction(fn) \in Calls /\ Instance(RealFunction(fn)) = Instance(fn)
         /\ Instance(fn) \in Instances
<1>1. Instance(fn) \in Instances
  BY DEF Instances
<1>2. CASE cache[Instance(fn)] = None
  BY <1>1, <1>2 DEF RealFunction
<1>3. CASE cache[Instance(fn)] # None
  BY <1>1, <1>3 DEF RealFunction, CacheOK
<1> QED BY <1>1, <1>2, <1>3

-----------------------------------------------------------------------------
(* The calls in progress.                                                  *)

ByPath(fn) == fn \in OpenCalls \cup PathCalls
ByFd(fn)   == fn \in FdCalls \cup CloseCalls

\* No function takes both a path and a descriptor.
LEMMA Kinds ==
  ASSUME NEW fn
  PROVE  /\ ~(ByPath(fn) /\ ByFd(fn))
         /\ ~(fn \in FdCalls /\ fn \in CloseCalls) /\ ~(fn \in OpenCalls /\ fn \in PathCalls)
         /\ ByPath(fn) \/ ByFd(fn) => fn \in Calls
BY DEF ByPath, ByFd, OpenCalls, PathCalls, FdCalls, CloseCalls

\* A thread that is in a wrapper has a function, with the arguments that the
\* function takes, and a result once it has been called.
CallOK(t) ==
  /\ call[t] \in [fn : Calls \cup {None}, fd : Fds \cup {None}, file : Files \cup {None},
                  ret : Fds \cup {0, -1, None}, was : AllFiles \cup {None},
                  name : AllFiles \cup {None, "link"}]
  /\ pc[t] \in {"idle", "calling", "resolving", "printing"}
  /\ ~started => pc[t] = "idle"
  /\ pc[t] = "idle" => call[t] = NoRequest
  /\ pc[t] # "idle" =>
       \/ ByPath(call[t].fn) /\ call[t].fd = None /\ call[t].file \in Files
       \/ ByFd(call[t].fn) /\ call[t].fd \in Fds /\ call[t].file = None
  /\ pc[t] \in {"resolving", "printing"} => call[t].ret \in Fds \cup {0, -1}
  /\ pc[t] = "printing" => call[t].name # None

Types ==
  /\ started \in BOOLEAN
  /\ fdt \in [Fds -> AllFiles \cup {None}]
  /\ owner \in [Fds -> Threads \cup {None}]
  /\ written \in [AllFiles -> SUBSET {"data", "log"}]
  /\ pc \in [Threads -> {"idle", "calling", "resolving", "printing"}]
  /\ DOMAIN call = Threads /\ call = [t \in Threads |-> call[t]]

CallInv == Types /\ CacheOK /\ \A t \in Threads : CallOK(t)

\* A thread's own steps are the only ones that change its call.
Others(t) == \A u \in Threads \ {t} : call'[u] = call[u] /\ pc'[u] = pc[u]

\* The calls of the other threads stay well formed in a thread's step.
LEMMA OthersOK ==
  ASSUME NEW t \in Threads, \A u \in Threads : CallOK(u), Others(t), started' = started,
         CallOK(t)'
  PROVE  \A u \in Threads : CallOK(u)'
<1> SUFFICES ASSUME NEW u \in Threads, u # t PROVE CallOK(u)'
  OBVIOUS
<1>1. call'[u] = call[u] /\ pc'[u] = pc[u]
  BY DEF Others
<1> QED BY <1>1 DEF CallOK

\* The thread's own call and the rest of each step.
LEMMA OwnCall ==
  ASSUME CallInv, NEW t \in Threads, NEW r, NEW p \in {"idle", "calling", "resolving", "printing"},
         call' = [call EXCEPT ![t] = r], pc' = [pc EXCEPT ![t] = p]
  PROVE  /\ Others(t) /\ call'[t] = r /\ pc'[t] = p
         /\ pc' \in [Threads -> {"idle", "calling", "resolving", "printing"}]
         /\ DOMAIN call' = Threads /\ call' = [u \in Threads |-> call'[u]]
BY DEF CallInv, Types, Others

\* A wrapper is entered: what Enter() does, for one function and its arguments.
Entered(t, fn, fd, f, name) ==
  /\ call' = [call EXCEPT ![t] = Request(fn, fd, f, name)]
  /\ Others(t) /\ call'[t] = Request(fn, fd, f, name)
  /\ pc[t] = "idle" /\ pc'[t] = "calling"
  /\ started /\ UNCHANGED <<started, fdt, cache, written>>
  /\ \/ ByPath(fn) /\ fd = None /\ f \in Files /\ name = None /\ owner' = owner
     \/ /\ fn \in FdCalls /\ fd \in Fds /\ owner[fd] = t
        /\ f = None /\ name = None /\ owner' = owner
     \/ /\ fn \in CloseCalls /\ fd \in Fds /\ owner[fd] = t
        /\ f = None /\ name = EarlyName(fn, fd) /\ owner' = [owner EXCEPT ![fd] = None]

\* Each of the three ways into a wrapper is an Entered().
LEMMA EnterEffect ==
  ASSUME CallInv, NEW t \in Threads, Enter(t)
  PROVE  \E fn, fd, f, name : Entered(t, fn, fd, f, name)
<1>1. /\ pc[t] = "idle" /\ pc' = [pc EXCEPT ![t] = "calling"]
      /\ started /\ UNCHANGED <<started, fdt, cache, written>>
  BY DEF Enter
<1>2. ASSUME NEW r, call' = [call EXCEPT ![t] = r]
      PROVE  Others(t) /\ call'[t] = r /\ pc'[t] = "calling"
  BY <1>1, <1>2, OwnCall
<1>3. ASSUME NEW fn \in OpenCalls \cup PathCalls, NEW f \in Files,
             call' = [call EXCEPT ![t] = Request(fn, None, f, None)], owner' = owner
      PROVE  Entered(t, fn, None, f, None)
  <2>1. Others(t) /\ call'[t] = Request(fn, None, f, None) /\ pc'[t] = "calling"
    BY <1>2, <1>3
  <2> QED BY <1>1, <1>3, <2>1 DEF Entered, ByPath
<1>4. ASSUME NEW fn \in FdCalls, NEW fd \in Fds, owner[fd] = t,
             call' = [call EXCEPT ![t] = Request(fn, fd, None, None)], owner' = owner
      PROVE  Entered(t, fn, fd, None, None)
  <2>1. Others(t) /\ call'[t] = Request(fn, fd, None, None) /\ pc'[t] = "calling"
    BY <1>2, <1>4
  <2> QED BY <1>1, <1>4, <2>1 DEF Entered
<1>5. ASSUME NEW fn \in CloseCalls, NEW fd \in Fds, owner[fd] = t,
             call' = [call EXCEPT ![t] = Request(fn, fd, None, EarlyName(fn, fd))],
             owner' = [owner EXCEPT ![fd] = None]
      PROVE  Entered(t, fn, fd, None, EarlyName(fn, fd))
  <2>1. Others(t) /\ call'[t] = Request(fn, fd, None, EarlyName(fn, fd)) /\ pc'[t] = "calling"
    BY <1>2, <1>5
  <2> QED BY <1>1, <1>5, <2>1 DEF Entered
<1> QED BY <1>3, <1>4, <1>5 DEF Enter, Owned

\* Entering a wrapper keeps the calls well formed.
LEMMA EnterCall ==
  ASSUME CallInv, NEW t \in Threads, Enter(t)
  PROVE  CallInv'
<1> USE DEF CallInv, Types
<1>1. PICK fn, fd, f, name : Entered(t, fn, fd, f, name)
  BY EnterEffect
<1>2. \/ ByPath(fn) /\ fd = None /\ f \in Files
      \/ ByFd(fn) /\ fd \in Fds /\ f = None
  BY <1>1 DEF Entered, ByFd
<1>3. name \in AllFiles \cup {None, "link"}
  <2>1. CASE name = None
    BY <2>1
  <2>2. CASE fd \in Fds /\ name = EarlyName(fn, fd)
    BY <2>2 DEF EarlyName, NameOf
  <2> QED BY <1>1, <2>1, <2>2 DEF Entered
<1>4. CallOK(t)'
  <2>1. fn \in Calls /\ fd \in Fds \cup {None} /\ f \in Files \cup {None}
    BY <1>2, Kinds
  <2>2. (IF fd = None THEN None ELSE fdt[fd]) \in AllFiles \cup {None}
    BY <2>1
  <2>3. call'[t] = Request(fn, fd, f, name) /\ pc'[t] = "calling" /\ started'
    BY <1>1 DEF Entered
  <2> QED BY <1>2, <1>3, <2>1, <2>2, <2>3 DEF CallOK, Request
<1>5. owner' \in [Fds -> Threads \cup {None}] /\ pc' = [pc EXCEPT ![t] = "calling"]
  BY DEF Enter
<1> QED BY <1>1, <1>4, <1>5, OthersOK, OwnCall DEF Entered, CacheOK

\* The real function is called: a path call may open a descriptor, and nothing
\* but a close frees one, its own.
Invoked(t, ret) ==
  /\ call' = [call EXCEPT ![t] = [call[t] EXCEPT !.ret = ret]]
  /\ Others(t) /\ call'[t] = [call[t] EXCEPT !.ret = ret]
  /\ pc[t] = "calling" /\ pc'[t] = "resolving" /\ UNCHANGED <<started, owner>>
  /\ \/ /\ ByPath(call[t].fn) /\ ret \in Fds /\ fdt[ret] = None
        /\ fdt' = [fdt EXCEPT ![ret] = call[t].file]
     \/ /\ call[t].fn \in CloseCalls /\ ret \in {0, -1}
        /\ fdt' = [fdt EXCEPT ![call[t].fd] = None]
     \/ call[t].fn \notin CloseCalls /\ ret \in {0, -1} /\ fdt' = fdt

\* Whatever pointer call_from_libc() uses, its step is an Invoked().
LEMMA InvokeEffect ==
  ASSUME CallInv, NEW t \in Threads, Invoke(t)
  PROVE  \E ret \in Fds \cup {0, -1} : Invoked(t, ret)
<1> DEFINE g == RealFunction(call[t].fn)
<1>1. pc[t] = "calling" /\ CallOK(t) /\ call[t].fn \in Calls
  BY Kinds DEF Invoke, CallOK, CallInv
<1>2. Instance(call[t].fn) = Instance(g)
  BY <1>1, RealInstance DEF CallInv
<1>3. /\ call[t].fn \in CloseCalls <=> g \in CloseCalls
      /\ g \in OpenCalls => ByPath(call[t].fn)
  <2> HIDE DEF g
  <2>1. g \in CloseCalls \/ call[t].fn \in CloseCalls => g = call[t].fn
    BY <1>2, InstanceOf DEF CloseCalls
  <2>2. g \in OpenCalls => g = call[t].fn \/ call[t].fn \in {"chmod", "int_path_mode"}
    BY <1>2, InstanceOf DEF OpenCalls
  <2>3. call[t].fn # "int_path_mode"
    BY <1>1 DEF CallOK, ByPath, ByFd, OpenCalls, PathCalls, FdCalls, CloseCalls
  <2>4. call[t].fn = "chmod" => ByPath(call[t].fn)
    BY <1>1 DEF ByPath, PathCalls
  <2> QED BY <2>1, <2>2, <2>3, <2>4 DEF ByPath
<1>4. PICK ret \in Fds \cup {0, -1} :
         /\ call' = [call EXCEPT ![t].ret = ret]
         /\ \/ g \in OpenCalls /\ fdt[ret] = None /\ ret \in Fds /\ fdt' = [fdt EXCEPT ![ret] = call[t].file]
            \/ ret \in {0, -1} /\ g \in CloseCalls /\ fdt' = [fdt EXCEPT ![call[t].fd] = None]
            \/ ret \in {0, -1} /\ g \notin CloseCalls /\ fdt' = fdt
  <2> DEFINE opens == g \in OpenCalls /\ Free(fdt) # {}
  <2>0. PICK fails \in BOOLEAN : \E ret :
          /\ ret = IF g \notin OpenCalls THEN 0
                   ELSE IF opens /\ ~fails THEN Lowest(fdt) ELSE -1
          /\ call' = [call EXCEPT ![t].ret = ret]
          /\ fdt' = IF ret > 0 THEN [fdt EXCEPT ![ret] = call[t].file]
                    ELSE IF g \in CloseCalls THEN [fdt EXCEPT ![call[t].fd] = None]
                    ELSE fdt
    BY DEF Invoke
  <2>1. PICK ret :
          /\ ret = IF g \notin OpenCalls THEN 0
                   ELSE IF opens /\ ~fails THEN Lowest(fdt) ELSE -1
          /\ call' = [call EXCEPT ![t].ret = ret]
          /\ fdt' = IF ret > 0 THEN [fdt EXCEPT ![ret] = call[t].file]
                    ELSE IF g \in CloseCalls THEN [fdt EXCEPT ![call[t].fd] = None]
                    ELSE fdt
    BY <2>0
  <2>2. /\ ret > 0 => fdt' = [fdt EXCEPT ![ret] = call[t].file]
        /\ ~(ret > 0) /\ g \in CloseCalls => fdt' = [fdt EXCEPT ![call[t].fd] = None]
        /\ ~(ret > 0) /\ g \notin CloseCalls => fdt' = fdt
    BY <2>1
  <2> HIDE DEF g, opens
  <2>3. CASE g \notin OpenCalls
    BY <2>1, <2>2, <2>3, ~(0 > 0)
  <2>4. CASE g \in OpenCalls /\ opens /\ ~fails
    <3>1. Lowest(fdt) \in Free(fdt)
      BY <2>4, LowestFree DEF opens
    <3>2. \A fd \in Free(fdt) : fd \in Fds /\ fdt[fd] = None
      BY DEF Free
    <3>3. \A fd \in Fds : fd > 0
      BY LoggerAssumption
    <3> QED BY <2>1, <2>2, <2>4, <3>1, <3>2, <3>3
  <2>5. CASE g \in OpenCalls /\ ~(opens /\ ~fails)
    <3>1. g \notin CloseCalls
      BY <2>5, Kinds DEF ByPath, ByFd
    <3> QED BY <2>1, <2>2, <2>5, <3>1, ~(-1 > 0)
  <2> QED BY <2>3, <2>4, <2>5
<1> HIDE DEF g
<1>5. /\ call' = [call EXCEPT ![t] = [call[t] EXCEPT !.ret = ret]]
      /\ pc' = [pc EXCEPT ![t] = "resolving"] /\ UNCHANGED <<started, owner>>
  BY <1>4 DEF Invoke
<1>6. Others(t) /\ call'[t] = [call[t] EXCEPT !.ret = ret] /\ pc'[t] = "resolving"
  BY <1>5, OwnCall
<1> QED BY <1>1, <1>3, <1>4, <1>5, <1>6 DEF Invoked

\* Calling the real function keeps the calls and the pointers well formed.
LEMMA InvokeCall ==
  ASSUME CallInv, NEW t \in Threads, Invoke(t)
  PROVE  CallInv'
<1> USE DEF CallInv, Types
<1>1. PICK ret \in Fds \cup {0, -1} : Invoked(t, ret)
  BY InvokeEffect
<1>2. pc[t] = "calling" /\ CallOK(t) /\ call[t].fn \in Calls
  BY Kinds DEF Invoke, CallOK
<1>3. CacheOK'
  <2> DEFINE g == RealFunction(call[t].fn)
  <2>1. cache' = [cache EXCEPT ![Instance(call[t].fn)] = g]
    BY DEF Invoke
  <2>2. g \in Calls /\ Instance(g) = Instance(call[t].fn) /\ Instance(call[t].fn) \in Instances
    BY <1>2, RealInstance
  <2> HIDE DEF g
  <2> QED BY <2>1, <2>2 DEF CacheOK
<1>4. CallOK(t)'
  BY <1>1, <1>2 DEF CallOK, Invoked
<1>5. fdt' \in [Fds -> AllFiles \cup {None}]
  <2>1. ByPath(call[t].fn) => call[t].file \in Files
    BY <1>2, Kinds DEF CallOK
  <2> QED BY <1>1, <2>1 DEF Invoked, AllFiles
<1>6. written' \in [AllFiles -> SUBSET {"data", "log"}] /\ pc' = [pc EXCEPT ![t] = "resolving"]
  BY DEF Invoke
<1> QED BY <1>1, <1>3, <1>4, <1>5, <1>6, OthersOK, OwnCall DEF Invoked

\* The name is looked up.
LEMMA ResolveCall ==
  ASSUME CallInv, NEW t \in Threads, Resolve(t)
  PROVE  CallInv'
<1> USE DEF CallInv, Types
<1>1. pc[t] = "resolving" /\ CallOK(t)
  BY DEF Resolve
<1> DEFINE n == IF call[t].name # None THEN call[t].name
                ELSE IF call[t].fd # None THEN NameOf(call[t].fd) ELSE call[t].file
<1>2. call' = [call EXCEPT ![t] = [call[t] EXCEPT !.name = n]]
  BY DEF Resolve
<1>3. n \in AllFiles \cup {"link"} /\ n # None
  <2>1. \A fd \in Fds : NameOf(fd) \in AllFiles \cup {"link"}
    BY DEF NameOf
  <2>2. None \notin AllFiles \cup {"link"}
    BY LoggerAssumption DEF AllFiles
  <2>3. CASE call[t].name # None
    BY <1>1, <2>2, <2>3 DEF CallOK
  <2>4. CASE call[t].name = None /\ call[t].fd # None
    BY <1>1, <2>1, <2>2, <2>4 DEF CallOK
  <2>5. CASE call[t].name = None /\ call[t].fd = None
    <3>1. call[t].file \in Files
      BY <1>1, <2>5, LoggerAssumption DEF CallOK
    <3> QED BY <2>2, <2>5, <3>1 DEF AllFiles
  <2> QED BY <2>3, <2>4, <2>5
<1> HIDE DEF n
<1>4. pc' = [pc EXCEPT ![t] = "printing"] /\ UNCHANGED <<started, fdt, cache, owner, written>>
  BY DEF Resolve
<1>5. /\ Others(t) /\ call'[t] = [call[t] EXCEPT !.name = n] /\ pc'[t] = "printing"
      /\ pc' \in [Threads -> {"idle", "calling", "resolving", "printing"}]
      /\ DOMAIN call' = Threads /\ call' = [u \in Threads |-> call'[u]]
  BY <1>2, <1>4, OwnCall
<1>6. CallOK(t)'
  <2>1. PICK k : k = call[t]
    OBVIOUS
  <2>2. PICK c : c = [k EXCEPT !.name = n]
    OBVIOUS
  <2>3. k \in [fn : Calls \cup {None}, fd : Fds \cup {None}, file : Files \cup {None},
               ret : Fds \cup {0, -1, None}, was : AllFiles \cup {None},
               name : AllFiles \cup {None, "link"}]
    BY <1>1, <2>1 DEF CallOK
  <2>4. /\ c \in [fn : Calls \cup {None}, fd : Fds \cup {None}, file : Files \cup {None},
                  ret : Fds \cup {0, -1, None}, was : AllFiles \cup {None},
                  name : AllFiles \cup {None, "link"}]
        /\ c.fn = k.fn /\ c.fd = k.fd /\ c.file = k.file /\ c.ret = k.ret /\ c.name = n
    BY <1>3, <2>2, <2>3
  <2>5. call'[t] = c /\ pc'[t] = "printing" /\ pc[t] = "resolving" /\ started' = started
    BY <1>1, <1>4, <1>5, <2>1, <2>2
  <2> QED BY <1>1, <1>3, <2>1, <2>4, <2>5 DEF CallOK
<1> QED BY <1>4, <1>5, <1>6, OthersOK DEF CacheOK

\* The line is printed and the wrapper returns.
LEMMA ReportCall ==
  ASSUME CallInv, NEW t \in Threads, Report(t)
  PROVE  CallInv'
<1> USE DEF CallInv, Types
<1>1. pc[t] = "printing" /\ CallOK(t)
  BY DEF Report
<1>2. /\ call' = [call EXCEPT ![t] = NoRequest] /\ pc' = [pc EXCEPT ![t] = "idle"]
      /\ UNCHANGED <<started, fdt, cache>>
  BY DEF Report
<1>3. /\ Others(t) /\ call'[t] = NoRequest /\ pc'[t] = "idle"
      /\ pc' \in [Threads -> {"idle", "calling", "resolving", "printing"}]
      /\ DOMAIN call' = Threads /\ call' = [u \in Threads |-> call'[u]]
  BY <1>2, OwnCall
<1>4. CallOK(t)'
  BY <1>3 DEF CallOK, NoRequest
<1>5. owner' \in [Fds -> Threads \cup {None}]
  BY DEF Report
<1>6. written' \in [AllFiles -> SUBSET {"data", "log"}]
  <2>1. FD \in Fds
    BY LoggerAssumption
  <2> QED BY <2>1 DEF Report
<1> QED BY <1>2, <1>3, <1>4, <1>5, <1>6, OthersOK DEF CacheOK

\* The program is started.
LEMMA LaunchCall ==
  ASSUME CallInv, Launch
  PROVE  CallInv'
<1> USE DEF CallInv, Types
<1>1. fdt' \in [Fds -> AllFiles \cup {None}]
  BY DEF Launch, Redirected, AllFiles
<1>2. \A t \in Threads : CallOK(t)'
  BY DEF Launch, CallOK
<1> QED BY <1>1, <1>2 DEF Launch, CacheOK

\* Every step keeps the calls well formed ...
LEMMA CallStep ==
  CallInv /\ [Next]_vars => CallInv'
<1> SUFFICES ASSUME CallInv, [Next]_vars PROVE CallInv'
  OBVIOUS
<1>1. CASE UNCHANGED vars
  BY <1>1 DEF vars, CallInv, Types, CacheOK, CallOK
<1> QED BY <1>1, LaunchCall, EnterCall, InvokeCall, ResolveCall, ReportCall DEF Next

\* ... and they are so at the start ...
LEMMA CallInit ==
  Init => CallInv
<1> SUFFICES ASSUME Init PROVE CallInv
  OBVIOUS
<1>1. Types
  BY DEF Init, Types, AllFiles
<1>2. CacheOK
  BY DEF Init, CacheOK, Instances
<1>3. ASSUME NEW t \in Threads PROVE CallOK(t)
  <2>1. pc[t] = "idle" /\ call[t] = NoRequest
    BY DEF Init
  <2> QED BY <2>1 DEF CallOK, NoRequest
<1> QED BY <1>1, <1>2, <1>3 DEF CallInv

\* ... so they always are.
LEMMA CallAlways == Spec => []CallInv
BY CallInit, CallStep, PTL DEF Spec

\* Every variable has its type, and a line about to be printed has a name.
THEOREM TypeCorrect == Spec => []TypeOK
<1>1. CallInv => TypeOK
  BY DEF CallInv, Types, CacheOK, CallOK, TypeOK
<1> QED BY <1>1, CallAlways, PTL

-----------------------------------------------------------------------------
(* Who uses which descriptor.                                              *)

\* A thread has a descriptor open: it owns it, is about to close it, or has
\* just been given it and has not returned from the wrapper.
Holds(t, fd) ==
  \/ owner[fd] = t
  \/ pc[t] = "calling" /\ call[t].fn \in CloseCalls /\ call[t].fd = fd
  \/ pc[t] \in {"resolving", "printing"} /\ call[t].fn \in OpenCalls /\ call[t].ret = fd

HeldIsOpen  == \A t \in Threads, fd \in Fds : Holds(t, fd) => fdt[fd] \in Files
HeldByOne   == \A t, u \in Threads, fd \in Fds : Holds(t, fd) /\ Holds(u, fd) => t = u
ClosingLast == \A t \in Threads : pc[t] = "calling" /\ call[t].fn \in CloseCalls =>
                 owner[call[t].fd] = None
UsedIsOwned == \A t \in Threads : pc[t] # "idle" /\ call[t].fn \in FdCalls =>
                 owner[call[t].fd] = t
NoneBefore  == ~started => \A fd \in Fds : owner[fd] = None

HoldInv == HeldIsOpen /\ HeldByOne /\ ClosingLast /\ UsedIsOwned /\ NoneBefore

\* The shape of a call in progress, from CallInv.
LEMMA CallShape ==
  ASSUME CallInv, NEW t \in Threads, pc[t] # "idle"
  PROVE  /\ started
         /\ call[t].fn \in CloseCalls \cup FdCalls => call[t].fd \in Fds
         /\ ByPath(call[t].fn) => call[t].file \in Files /\ call[t].fd = None
         /\ call[t].fn \in OpenCalls => ByPath(call[t].fn)
         /\ call[t].fn \in FdCalls => call[t].fn \notin CloseCalls
         /\ call[t].fn \in CloseCalls \cup FdCalls => call[t].fn \notin OpenCalls
BY Kinds DEF CallInv, CallOK, ByPath, ByFd

\* A thread that enters a close passes from owning to closing.
LEMMA EnterHold ==
  ASSUME CallInv, HoldInv, NEW t \in Threads, Enter(t)
  PROVE  HoldInv'
<1> USE DEF HoldInv
<1>1. PICK fn, fd, f, name : Entered(t, fn, fd, f, name)
  BY EnterEffect
<1>2. /\ call'[t].fn = fn /\ call'[t].fd = fd /\ pc[t] = "idle" /\ pc'[t] = "calling"
      /\ \A u \in Threads \ {t} : call'[u] = call[u] /\ pc'[u] = pc[u]
      /\ fdt' = fdt /\ started' /\ started
  BY <1>1 DEF Entered, Request, Others
<1>3. /\ \A x \in Fds : owner'[x] = owner[x] \/ (owner[x] = t /\ owner'[x] = None /\ x = fd)
      /\ fn \in CloseCalls => fd \in Fds /\ owner[fd] = t /\ owner'[fd] = None
      /\ fn \in FdCalls => owner'[fd] = t
  <2>1. owner \in [Fds -> Threads \cup {None}]
    BY DEF CallInv, Types
  <2> QED BY <1>1, <2>1, Kinds DEF Entered, ByPath, ByFd
<1>4. None \notin Threads
  BY LoggerAssumption
<1>5. \A u \in Threads, x \in Fds : Holds(u, x)' => Holds(u, x)
  BY <1>2, <1>3, <1>4 DEF Holds
<1>6. HeldIsOpen' /\ HeldByOne'
  BY <1>2, <1>5 DEF HeldIsOpen, HeldByOne
<1>7. ClosingLast'
  <2> SUFFICES ASSUME NEW u \in Threads, pc'[u] = "calling", call'[u].fn \in CloseCalls
               PROVE  owner'[call'[u].fd] = None
    BY DEF ClosingLast
  <2>1. CASE u = t
    BY <1>2, <1>3, <2>1
  <2>2. CASE u # t
    <3>1. call'[u] = call[u] /\ pc'[u] = pc[u]
      BY <1>2, <2>2
    <3>2. call[u].fd \in Fds /\ owner[call[u].fd] = None
      BY <3>1, CallShape DEF ClosingLast
    <3> QED BY <1>3, <3>1, <3>2
  <2> QED BY <2>1, <2>2
<1>8. UsedIsOwned'
  <2> SUFFICES ASSUME NEW u \in Threads, pc'[u] # "idle", call'[u].fn \in FdCalls
               PROVE  owner'[call'[u].fd] = u
    BY DEF UsedIsOwned
  <2>1. CASE u = t
    BY <1>2, <1>3, <2>1
  <2>2. CASE u # t
    <3>1. call'[u] = call[u] /\ pc'[u] = pc[u]
      BY <1>2, <2>2
    <3>2. call[u].fd \in Fds /\ owner[call[u].fd] = u
      BY <3>1, CallShape DEF UsedIsOwned
    <3> QED BY <1>3, <2>2, <3>1, <3>2
  <2> QED BY <2>1, <2>2
<1> QED BY <1>2, <1>6, <1>7, <1>8 DEF NoneBefore

\* The kernel hands out a descriptor that nobody has, and a close frees
\* one that only the closing thread had.
LEMMA InvokeHold ==
  ASSUME CallInv, HoldInv, NEW t \in Threads, Invoke(t)
  PROVE  HoldInv'
<1> USE DEF HoldInv
<1>1. PICK ret \in Fds \cup {0, -1} : Invoked(t, ret)
  BY InvokeEffect
<1>2. /\ call'[t].fn = call[t].fn /\ call'[t].fd = call[t].fd /\ call'[t].ret = ret
      /\ pc[t] = "calling" /\ pc'[t] = "resolving"
      /\ \A u \in Threads \ {t} : call'[u] = call[u] /\ pc'[u] = pc[u]
      /\ owner' = owner /\ started' = started
  <2>1. call[t] \in [fn : Calls \cup {None}, fd : Fds \cup {None}, file : Files \cup {None},
                  ret : Fds \cup {0, -1, None}, was : AllFiles \cup {None},
                  name : AllFiles \cup {None, "link"}]
    BY DEF CallInv, CallOK
  <2> QED BY <1>1, <2>1 DEF Invoked, Others
<1>3. None \notin Threads /\ None \notin Files /\ 0 \notin Fds /\ -1 \notin Fds
  BY LoggerAssumption
<1>4. fdt \in [Fds -> AllFiles \cup {None}]
  BY DEF CallInv, Types
<1>5. ClosingLast' /\ UsedIsOwned' /\ NoneBefore'
  <2>1. ASSUME NEW u \in Threads, pc'[u] = "calling" PROVE u # t
    BY <1>2, <2>1
  <2>2. ClosingLast'
    BY <1>2, <2>1 DEF ClosingLast
  <2>3. UsedIsOwned'
    BY <1>2 DEF UsedIsOwned
  <2> QED BY <1>2, <2>2, <2>3 DEF NoneBefore
<1>6. CASE ByPath(call[t].fn) /\ ret \in Fds /\ fdt[ret] = None /\ fdt' = [fdt EXCEPT ![ret] = call[t].file]
  <2>1. \A u \in Threads : ~Holds(u, ret)
    BY <1>3, <1>6 DEF HeldIsOpen
  <2>2. \A u \in Threads, x \in Fds : Holds(u, x)' => Holds(u, x) \/ (u = t /\ x = ret)
    BY <1>2 DEF Holds
  <2>3. call[t].file \in Files
    BY <1>2, <1>6, CallShape
  <2> QED BY <1>4, <1>5, <1>6, <2>1, <2>2, <2>3 DEF HeldIsOpen, HeldByOne
<1>7. CASE call[t].fn \in CloseCalls /\ ret \in {0, -1} /\ fdt' = [fdt EXCEPT ![call[t].fd] = None]
  <2>0. PICK fd \in Fds : fd = call[t].fd
    BY <1>2, <1>7, CallShape
  <2>1. Holds(t, fd) /\ owner[fd] = None /\ call[t].fn \notin OpenCalls
    BY <1>2, <1>7, <2>0, CallShape DEF Holds, ClosingLast
  <2>2. \A u \in Threads : Holds(u, fd) => u = t
    BY <2>1 DEF HeldByOne
  <2>3. \A u \in Threads, x \in Fds : Holds(u, x)' => Holds(u, x)
    BY <1>2, <2>1 DEF Holds
  <2>4. ~Holds(t, fd)'
    BY <1>2, <1>3, <2>1 DEF Holds
  <2>5. \A u \in Threads : ~Holds(u, fd)'
    BY <2>1, <2>2, <2>3, <2>4
  <2>6. \A x \in Fds : x # fd => fdt'[x] = fdt[x]
    BY <1>4, <1>7, <2>0
  <2> QED BY <1>5, <2>3, <2>5, <2>6 DEF HeldIsOpen, HeldByOne
<1>8. CASE call[t].fn \notin CloseCalls /\ ret \in {0, -1} /\ fdt' = fdt
  <2>1. \A u \in Threads, x \in Fds : Holds(u, x)' => Holds(u, x)
    BY <1>2, <1>3, <1>8 DEF Holds
  <2> QED BY <1>5, <1>8, <2>1 DEF HeldIsOpen, HeldByOne
<1> QED BY <1>1, <1>6, <1>7, <1>8 DEF Invoked

\* What Resolve() does to the call.
Resolved(t) ==
  /\ call'[t].fn = call[t].fn /\ call'[t].fd = call[t].fd
  /\ call'[t].ret = call[t].ret /\ call'[t].was = call[t].was
  /\ call'[t].name = IF call[t].name # None THEN call[t].name
                     ELSE IF call[t].fd # None THEN NameOf(call[t].fd) ELSE call[t].file
  /\ pc[t] = "resolving" /\ pc'[t] = "printing"
  /\ Others(t) /\ UNCHANGED <<started, fdt, owner>>

\* Looking the name up is a Resolved().
LEMMA ResolveEffect ==
  ASSUME CallInv, NEW t \in Threads, Resolve(t)
  PROVE  Resolved(t)
<1> DEFINE n == IF call[t].name # None THEN call[t].name
                ELSE IF call[t].fd # None THEN NameOf(call[t].fd) ELSE call[t].file
<1>1. /\ call' = [call EXCEPT ![t] = [call[t] EXCEPT !.name = n]]
      /\ pc' = [pc EXCEPT ![t] = "printing"]
      /\ pc[t] = "resolving" /\ UNCHANGED <<started, fdt, owner>>
  BY DEF Resolve
<1>2. Others(t) /\ call'[t] = [call[t] EXCEPT !.name = n] /\ pc'[t] = "printing"
  BY <1>1, OwnCall
<1>3. call[t] \in [fn : Calls \cup {None}, fd : Fds \cup {None}, file : Files \cup {None},
                  ret : Fds \cup {0, -1, None}, was : AllFiles \cup {None},
                  name : AllFiles \cup {None, "link"}]
  BY DEF CallInv, CallOK
<1>4. call'[t].name = n
  <2> HIDE DEF n
  <2> QED BY <1>2, <1>3
<1>5. /\ call'[t].fn = call[t].fn /\ call'[t].fd = call[t].fd
      /\ call'[t].ret = call[t].ret /\ call'[t].was = call[t].was
  <2> HIDE DEF n
  <2> QED BY <1>2, <1>3
<1> QED BY <1>1, <1>2, <1>4, <1>5 DEF Resolved

\* Looking the name up changes nobody's descriptors.
LEMMA ResolveHold ==
  ASSUME CallInv, HoldInv, NEW t \in Threads, Resolve(t)
  PROVE  HoldInv'
<1>1. /\ call'[t].fn = call[t].fn /\ call'[t].fd = call[t].fd /\ call'[t].ret = call[t].ret
      /\ pc[t] = "resolving" /\ pc'[t] = "printing"
      /\ \A u \in Threads \ {t} : call'[u] = call[u] /\ pc'[u] = pc[u]
      /\ owner' = owner /\ started' = started /\ fdt' = fdt
  BY ResolveEffect DEF Resolved, Others
<1>2. \A u \in Threads, x \in Fds : Holds(u, x)' => Holds(u, x)
  BY <1>1 DEF Holds
<1>3. HeldIsOpen' /\ HeldByOne' /\ NoneBefore'
  BY <1>1, <1>2 DEF HoldInv, HeldIsOpen, HeldByOne, NoneBefore
<1>4. UsedIsOwned'
  BY <1>1 DEF HoldInv, UsedIsOwned
<1>5. ClosingLast'
  <2>1. ASSUME NEW u \in Threads, pc'[u] = "calling" PROVE u # t
    BY <1>1, <2>1
  <2> QED BY <1>1, <2>1 DEF HoldInv, ClosingLast
<1> QED BY <1>3, <1>4, <1>5 DEF HoldInv

\* A returning open passes from just opened to owned.
LEMMA ReportHold ==
  ASSUME CallInv, HoldInv, NEW t \in Threads, Report(t)
  PROVE  HoldInv'
<1> USE DEF HoldInv
<1>1. /\ pc[t] = "printing" /\ call' = [call EXCEPT ![t] = NoRequest]
      /\ pc' = [pc EXCEPT ![t] = "idle"] /\ UNCHANGED <<started, fdt, cache>>
  BY DEF Report
<1>2. pc'[t] = "idle" /\ \A u \in Threads \ {t} : call'[u] = call[u] /\ pc'[u] = pc[u]
  BY <1>1, OwnCall DEF Others
<1>3. \A x \in Fds : owner'[x] = owner[x] \/ (owner'[x] = t /\ Holds(t, x))
  <2>1. owner \in [Fds -> Threads \cup {None}]
    BY DEF CallInv, Types
  <2>2. CASE call[t].fn \in OpenCalls /\ call[t].ret > 0
    BY <1>1, <2>1, <2>2 DEF Report, Holds
  <2>3. CASE ~(call[t].fn \in OpenCalls /\ call[t].ret > 0)
    BY <2>3 DEF Report
  <2> QED BY <2>2, <2>3
<1>4. \A u \in Threads, x \in Fds : Holds(u, x)' => Holds(u, x)
  BY <1>1, <1>2, <1>3 DEF Holds
<1>5. HeldIsOpen' /\ HeldByOne' /\ NoneBefore'
  <2>1. started
    BY <1>1, CallShape
  <2> QED BY <1>1, <1>4, <2>1 DEF HeldIsOpen, HeldByOne, NoneBefore
<1>6. ASSUME NEW u \in Threads, NEW x \in Fds, u # t, Holds(u, x)
      PROVE  owner'[x] = owner[x]
  BY <1>3, <1>6 DEF HeldByOne
<1>7. ClosingLast'
  <2> SUFFICES ASSUME NEW u \in Threads, pc'[u] = "calling", call'[u].fn \in CloseCalls
               PROVE  owner'[call'[u].fd] = None
    BY DEF ClosingLast
  <2>1. u # t /\ call'[u] = call[u] /\ pc'[u] = pc[u]
    BY <1>2
  <2>2. call[u].fd \in Fds /\ owner[call[u].fd] = None /\ Holds(u, call[u].fd)
    BY <2>1, CallShape DEF ClosingLast, Holds
  <2> QED BY <1>6, <2>1, <2>2
<1>8. UsedIsOwned'
  <2> SUFFICES ASSUME NEW u \in Threads, pc'[u] # "idle", call'[u].fn \in FdCalls
               PROVE  owner'[call'[u].fd] = u
    BY DEF UsedIsOwned
  <2>1. u # t /\ call'[u] = call[u] /\ pc'[u] = pc[u]
    BY <1>2
  <2>2. call[u].fd \in Fds /\ owner[call[u].fd] = u /\ Holds(u, call[u].fd)
    BY <2>1, CallShape DEF UsedIsOwned, Holds
  <2> QED BY <1>6, <2>1, <2>2
<1> QED BY <1>5, <1>7, <1>8

\* Before the start nobody has a descriptor.
LEMMA LaunchHold ==
  ASSUME CallInv, HoldInv, Launch
  PROVE  HoldInv'
<1>1. \A t \in Threads : pc[t] = "idle" /\ pc'[t] = "idle"
  BY DEF Launch, CallInv, CallOK
<1>2. \A fd \in Fds : owner'[fd] = None
  BY DEF Launch, HoldInv, NoneBefore
<1>3. None \notin Threads
  BY LoggerAssumption
<1>4. \A t \in Threads, fd \in Fds : ~Holds(t, fd)'
  BY <1>1, <1>2, <1>3 DEF Holds
<1> QED BY <1>1, <1>2, <1>4 DEF HoldInv, HeldIsOpen, HeldByOne, ClosingLast, UsedIsOwned, NoneBefore

\* Every step keeps descriptors with one thread ...
LEMMA HoldStep ==
  CallInv /\ HoldInv /\ [Next]_vars => HoldInv'
<1> SUFFICES ASSUME CallInv, HoldInv, [Next]_vars PROVE HoldInv'
  OBVIOUS
<1>1. CASE UNCHANGED vars
  BY <1>1 DEF vars, HoldInv, HeldIsOpen, HeldByOne, ClosingLast, UsedIsOwned, NoneBefore, Holds
<1> QED BY <1>1, LaunchHold, EnterHold, InvokeHold, ResolveHold, ReportHold DEF Next

\* ... there are none at the start ...
LEMMA HoldInit ==
  Init => HoldInv
<1> SUFFICES ASSUME Init PROVE HoldInv
  OBVIOUS
<1>1. None \notin Threads
  BY LoggerAssumption
<1>2. (\A t \in Threads : pc[t] = "idle") /\ (\A fd \in Fds : owner[fd] = None)
  BY DEF Init
<1>3. \A t \in Threads, fd \in Fds : ~Holds(t, fd)
  BY <1>1, <1>2 DEF Holds
<1> QED BY <1>2, <1>3 DEF HoldInv, HeldIsOpen, HeldByOne, ClosingLast, UsedIsOwned, NoneBefore

\* ... so a descriptor in use is open, on a file of the program, for one
\* thread alone.
LEMMA HoldAlways == Spec => []HoldInv
BY CallAlways, HoldInit, HoldStep, PTL DEF Spec

-----------------------------------------------------------------------------
(* The log stays on its descriptor.                                        *)

\* The file of -o can be opened, and a descriptor below FD, or above it if FD
\* is taken, is the one that open() returns.
LaunchAssumption ==
  /\ CanOpen \subseteq {TRUE}
  /\ \A open \in Inherited : \E fd \in Fds \ open :
       fd # FD /\ \A x \in Fds \ open : fd <= x

\* The table that the logger finds.
AsInherited == \E open \in Inherited :
  fdt = [fd \in Fds |-> IF fd \in open THEN Other ELSE None]

LogInv == LogKept /\ (~started => AsInherited)

\* Once the program runs nobody has FD, so nobody opens or closes it.
LEMMA LogStep ==
  ASSUME LaunchAssumption, CallInv, HoldInv, LogInv, [Next]_vars
  PROVE  LogInv'
<1> USE DEF LogInv, LogKept
<1>1. FD \in Fds /\ LogFile \notin Files /\ LogFile # None /\ Other # None
  BY LoggerAssumption
<1>2. fdt \in [Fds -> AllFiles \cup {None}]
  BY DEF CallInv, Types
<1>3. CASE Launch
  <2>1. PICK open \in Inherited :
          fdt = [fd \in Fds |-> IF fd \in open THEN Other ELSE None]
    BY <1>3 DEF Launch, AsInherited
  <2>2. Free(fdt) = Fds \ open
    BY <1>1, <2>1 DEF Free
  <2>3. PICK low \in Fds \ open : low # FD /\ \A x \in Fds \ open : low <= x
    BY DEF LaunchAssumption
  <2>4. Lowest(fdt) \in Fds \ open /\ \A x \in Fds \ open : Lowest(fdt) <= x
    BY <2>2, <2>3, LowestFree
  <2>5. Fds \subseteq Nat
    BY LoggerAssumption
  <2>6. Lowest(fdt) # FD
    <3> DEFINE l == Lowest(fdt)
    <3>1. l \in Nat /\ low \in Nat /\ l <= low /\ low <= l
      BY <2>3, <2>4, <2>5
    <3> HIDE DEF l
    <3>2. l = low
      BY <3>1
    <3> QED BY <2>3, <3>2 DEF l
  <2>7. PICK toFile \in ToFile, opens \in CanOpen : fdt' = Redirected(toFile, opens /\ Free(fdt) # {})
    BY <1>3 DEF Launch
  <2>8. (opens /\ Free(fdt) # {}) = TRUE
    BY <2>2, <2>3, LoggerAssumption DEF LaunchAssumption
  <2>9. fdt'[FD] = LogFile
    BY <1>1, <1>2, <2>6, <2>7, <2>8 DEF Redirected
  <2> QED BY <1>3, <2>9 DEF Launch
<1>4. ASSUME NEW t \in Threads, Invoke(t) PROVE LogInv'
  <2>1. PICK ret \in Fds \cup {0, -1} : Invoked(t, ret)
    BY <1>4, InvokeEffect
  <2>2. started /\ started' /\ fdt[FD] = LogFile
    BY <2>1, CallShape DEF Invoked
  <2>3. CASE ret \in Fds /\ fdt[ret] = None /\ fdt' = [fdt EXCEPT ![ret] = call[t].file]
    BY <1>1, <1>2, <2>2, <2>3
  <2>4. CASE call[t].fn \in CloseCalls /\ fdt' = [fdt EXCEPT ![call[t].fd] = None]
    <3>1. call[t].fd \in Fds /\ fdt[call[t].fd] \in Files
      BY <2>1, <2>4, CallShape DEF Invoked, HoldInv, HeldIsOpen, Holds
    <3> QED BY <1>1, <1>2, <2>2, <2>4, <3>1
  <2>5. CASE fdt' = fdt
    BY <2>2, <2>5
  <2> QED BY <2>1, <2>3, <2>4, <2>5 DEF Invoked
<1>5. ASSUME NEW t \in Threads, Enter(t) \/ Resolve(t) \/ Report(t) PROVE LogInv'
  BY <1>5 DEF Enter, Resolve, Report, AsInherited
<1>6. CASE UNCHANGED vars
  BY <1>6 DEF vars, AsInherited
<1> QED BY <1>3, <1>4, <1>5, <1>6 DEF Next

\* Whatever the program opens and closes, its log stays on FD, if the launcher
\* could open it and open() did not return FD itself (hw2.cpp output()).
THEOREM LogStays ==
  ASSUME LaunchAssumption
  PROVE  Spec => []LogKept
<1>1. Init => LogInv
  BY DEF Init, LogInv, LogKept, AsInherited
<1>2. CallInv /\ HoldInv /\ LogInv /\ [Next]_vars => LogInv'
  BY LogStep
<1>3. LogInv => LogKept
  BY DEF LogInv
<1> QED BY <1>1, <1>2, <1>3, CallAlways, HoldAlways, PTL DEF Spec

-----------------------------------------------------------------------------
(* Lines name the right file.                                              *)

\* What a call on a descriptor remembers of the file it was about.
Remembers(t) ==
  /\ pc[t] \in {"calling", "resolving"} /\ call[t].fn \in FdCalls =>
       call[t].was = fdt[call[t].fd] /\ call[t].name = None
  /\ pc[t] = "printing" /\ call[t].fn \in FdCalls => call[t].name = call[t].was
  /\ pc[t] # "idle" /\ call[t].fn = "fclose" => call[t].name = call[t].was /\ call[t].was \in Files

NameInv == \A t \in Threads : Remembers(t)

\* Nobody closes or opens the descriptor of a call in progress, so its file
\* is still there when the name is looked up; fclose() looked it up before.
LEMMA NameStep ==
  ASSUME CallInv, HoldInv, NameInv, [Next]_vars
  PROVE  NameInv'
<1> USE DEF NameInv
<1>1. None \notin Files /\ None \notin Fds
  BY LoggerAssumption
<1>2. fdt \in [Fds -> AllFiles \cup {None}]
  BY DEF CallInv, Types
<1>3. CASE Launch
  <2>1. \A t \in Threads : pc'[t] = "idle"
    BY <1>3 DEF Launch, CallInv, CallOK
  <2> QED BY <2>1 DEF Remembers
<1>4. ASSUME NEW t \in Threads, Enter(t) PROVE NameInv'
  <2>1. PICK fn, fd, f, name : Entered(t, fn, fd, f, name)
    BY <1>4, EnterEffect
  <2>2. /\ call'[t].fn = fn /\ call'[t].fd = fd /\ call'[t].name = name /\ pc'[t] = "calling"
        /\ call'[t].was = IF fd = None THEN None ELSE fdt[fd]
        /\ fdt' = fdt
    BY <2>1 DEF Entered, Request
  <2>3. \A u \in Threads \ {t} : Remembers(u)'
    BY <2>1 DEF Entered, Others, Remembers
  <2>4. CASE ByPath(fn)
    BY <2>2, <2>3, <2>4, Kinds DEF Remembers, ByPath, ByFd, OpenCalls, PathCalls
  <2>5. CASE fn \in FdCalls /\ fd \in Fds /\ name = None
    BY <1>1, <2>2, <2>3, <2>5 DEF Remembers, FdCalls
  <2>6. CASE fn \in CloseCalls /\ fd \in Fds /\ owner[fd] = t /\ name = EarlyName(fn, fd)
    <3>1. fdt[fd] \in Files
      BY <2>6 DEF HoldInv, HeldIsOpen, Holds
    <3>2. fn = "fclose" => name = fdt[fd]
      BY <1>1, <2>6, <3>1 DEF EarlyName, NameOf
    <3>3. fn \notin FdCalls
      BY <2>6, Kinds
    <3> QED BY <1>1, <2>2, <2>3, <2>6, <3>1, <3>2, <3>3 DEF Remembers
  <2> QED BY <2>1, <2>4, <2>5, <2>6 DEF Entered
<1>5. ASSUME NEW t \in Threads, Invoke(t) PROVE NameInv'
  <2>1. PICK ret \in Fds \cup {0, -1} : Invoked(t, ret)
    BY <1>5, InvokeEffect
  <2>2. call[t] \in [fn : Calls \cup {None}, fd : Fds \cup {None}, file : Files \cup {None},
                  ret : Fds \cup {0, -1, None}, was : AllFiles \cup {None},
                  name : AllFiles \cup {None, "link"}]
    BY DEF CallInv, CallOK
  <2>3. \A u \in Threads : call'[u].fn = call[u].fn /\ call'[u].fd = call[u].fd
                             /\ call'[u].was = call[u].was /\ call'[u].name = call[u].name
    BY <2>1, <2>2 DEF Invoked, Others
  <2>4. pc[t] = "calling" /\ pc'[t] = "resolving" /\ \A u \in Threads \ {t} : pc'[u] = pc[u]
    BY <2>1 DEF Invoked, Others
  <2>5. ASSUME NEW u \in Threads, pc[u] # "idle", call[u].fn \in FdCalls
        PROVE  fdt'[call[u].fd] = fdt[call[u].fd]
    <3>1. call[u].fd \in Fds /\ Holds(u, call[u].fd) /\ fdt[call[u].fd] \in Files
      BY <2>5, CallShape DEF HoldInv, UsedIsOwned, HeldIsOpen, Holds
    <3>2. CASE ret \in Fds /\ fdt[ret] = None /\ fdt' = [fdt EXCEPT ![ret] = call[t].file]
      BY <1>1, <1>2, <3>1, <3>2
    <3>3. CASE call[t].fn \in CloseCalls /\ fdt' = [fdt EXCEPT ![call[t].fd] = None]
      <4>1. call[t].fd \in Fds /\ Holds(t, call[t].fd)
        BY <2>4, <3>3, CallShape DEF Holds
      <4>2. t # u
        BY <2>5, <3>3, CallShape
      <4>3. call[t].fd # call[u].fd
        BY <3>1, <4>1, <4>2 DEF HoldInv, HeldByOne
      <4> QED BY <1>2, <3>1, <3>3, <4>1, <4>3
    <3>4. CASE fdt' = fdt
      BY <3>4
    <3> QED BY <2>1, <3>2, <3>3, <3>4 DEF Invoked
  <2> QED BY <2>3, <2>4, <2>5 DEF Remembers
<1>6. ASSUME NEW t \in Threads, Resolve(t) PROVE NameInv'
  <2>1. Resolved(t)
    BY <1>6, ResolveEffect
  <2>2. \A u \in Threads \ {t} : Remembers(u)'
    BY <2>1 DEF Resolved, Others, Remembers
  <2>3. call[t].fn \in FdCalls => call'[t].name = call[t].was
    <3>1. SUFFICES ASSUME call[t].fn \in FdCalls PROVE call'[t].name = call[t].was
      OBVIOUS
    <3>2. call[t].fd \in Fds /\ fdt[call[t].fd] \in Files
      BY <2>1, <3>1, CallShape DEF Resolved, HoldInv, UsedIsOwned, HeldIsOpen, Holds
    <3> QED BY <1>1, <2>1, <3>1, <3>2 DEF Resolved, Remembers, NameOf
  <2>4. call[t].fn = "fclose" => call'[t].name = call[t].was /\ call[t].was \in Files
    BY <1>1, <2>1 DEF Resolved, Remembers
  <2> QED BY <2>1, <2>2, <2>3, <2>4 DEF Resolved, Remembers
<1>7. ASSUME NEW t \in Threads, Report(t) PROVE NameInv'
  <2>1. /\ call' = [call EXCEPT ![t] = NoRequest]
        /\ pc' = [pc EXCEPT ![t] = "idle"] /\ fdt' = fdt
    BY <1>7 DEF Report
  <2>2. pc'[t] = "idle" /\ \A u \in Threads \ {t} : call'[u] = call[u] /\ pc'[u] = pc[u]
    BY <2>1, OwnCall DEF Others
  <2> QED BY <2>1, <2>2 DEF Remembers
<1>8. CASE UNCHANGED vars
  BY <1>8 DEF vars, Remembers
<1> QED BY <1>3, <1>4, <1>5, <1>6, <1>7, <1>8 DEF Next

\* A line about a descriptor names the file that the call was about, however
\* many threads open and close others meanwhile (resolve() after the call).
THEOREM NamesKept == Spec => []NamesRight
<1>1. Init => NameInv
  <2>1. Init => \A t \in Threads : pc[t] = "idle"
    BY DEF Init
  <2> QED BY <2>1 DEF NameInv, Remembers
<1>2. CallInv /\ HoldInv /\ NameInv /\ [Next]_vars => NameInv'
  BY NameStep
<1>3. CallInv /\ NameInv => NamesRight
  <2> SUFFICES ASSUME CallInv, NameInv, NEW t \in Threads,
                      pc[t] = "printing", call[t].fd # None, call[t].fn # "close"
               PROVE  call[t].name = call[t].was
    BY DEF NamesRight
  <2>1. ByFd(call[t].fn)
    BY DEF CallInv, CallOK
  <2>2. call[t].fn \in FdCalls \/ call[t].fn = "fclose"
    BY <2>1 DEF ByFd, CloseCalls
  <2> QED BY <2>2 DEF NameInv, Remembers
<1> QED BY <1>1, <1>2, <1>3, CallAlways, HoldAlways, PTL DEF Spec

-----------------------------------------------------------------------------
(* The wrappers implement the plain calls.                                 *)

\* No two of the program's calls share a pointer, as chmod() and creat() would.
OwnPointers == \A f, g \in Calls : Instance(f) = Instance(g) => f = g

\* None is no request and no result.
NoneAssumption ==
  /\ \A fn \in Calls, fd \in Fds \cup {None}, f \in Files \cup {None} :
       [fn |-> fn, fd |-> fd, file |-> f] # None
  /\ \A ret \in Fds \cup {-1, 0} : [ret |-> ret] # None

Asked(t)    == [fn |-> call[t].fn, fd |-> call[t].fd, file |-> call[t].file]
Answered(t) == [ret |-> call[t].ret]

\* The logger and the plain library know the same kinds of calls.
LEMMA SameLists ==
  /\ Plain!OpenCalls = OpenCalls /\ Plain!CloseCalls = CloseCalls
  /\ Plain!FdCalls = FdCalls /\ Plain!PathCalls = PathCalls
BY DEF Plain!OpenCalls, Plain!CloseCalls, Plain!FdCalls, Plain!PathCalls,
       OpenCalls, CloseCalls, FdCalls, PathCalls

\* Only thread t sees a change of what is wanted.
LEMMA WantedStep ==
  ASSUME NEW t \in Threads, Others(t), NEW w, Wanted'[t] = w
  PROVE  Wanted' = [Wanted EXCEPT ![t] = w]
<1>1. \A u \in Threads \ {t} : Wanted'[u] = Wanted[u]
  BY DEF Wanted, Others
<1>2. Wanted = [u \in Threads |-> Wanted[u]] /\ Wanted' = [u \in Threads |-> Wanted'[u]]
  BY DEF Wanted
<1> QED BY <1>1, <1>2

\* Entering a wrapper is asking for the call.
LEMMA EnterAsks ==
  ASSUME CallInv, NEW t \in Threads, Enter(t)
  PROVE  Plain!Ask(t)
<1>1. PICK fn, fd, f, name : Entered(t, fn, fd, f, name)
  BY EnterEffect
<1>2. fn \in Calls /\ fd \in Fds \cup {None} /\ f \in Files \cup {None}
  BY <1>1, Kinds DEF Entered, ByFd
<1>3. Wanted[t] = None
  BY <1>1 DEF Entered, Wanted
<1>4. Wanted'[t] = [fn |-> fn, fd |-> fd, file |-> f]
  BY <1>1 DEF Entered, Wanted, Request
<1>5. Wanted' = [Wanted EXCEPT ![t] = [fn |-> fn, fd |-> fd, file |-> f]]
  BY <1>1, <1>4, WantedStep DEF Entered
<1>6. UNCHANGED <<OwnFds, Texts>>
  BY <1>1 DEF Entered, OwnFds, Texts
<1> QED BY <1>2, <1>3, <1>5, <1>6 DEF Plain!Ask

\* The wrapped function has the effect of the function the program called.
LEMMA InvokeEffects ==
  ASSUME OwnPointers, CallInv, HoldInv, NEW t \in Threads, Invoke(t),
         NEW ret \in Fds \cup {0, -1}, Invoked(t, ret)
  PROVE  Plain!Effect(Asked(t), call[t].fn, ret)
<1>0. PICK fn : fn = call[t].fn
  OBVIOUS
<1>1. pc[t] = "calling" /\ CallOK(t) /\ fn \in Calls /\ (ByPath(fn) \/ ByFd(fn))
  BY <1>0, Kinds DEF Invoke, CallOK, CallInv
<1>2. RealFunction(fn) = fn
  BY <1>1, RealInstance DEF CallInv, OwnPointers
<1>3. fdt \in [Fds -> AllFiles \cup {None}] /\ written \in [AllFiles -> SUBSET {"data", "log"}]
  BY DEF CallInv, Types
<1>4. /\ Asked(t).fd = call[t].fd /\ Asked(t).file = call[t].file
      /\ None \notin Files /\ 0 \notin Fds /\ -1 \notin Fds /\ 0 # -1
  BY LoggerAssumption DEF Asked
<1>5. /\ fn \notin OpenCalls => ret = 0
      /\ fn \in OpenCalls => ret # 0
  <2>1. \E fails \in BOOLEAN :
          call'[t].ret = IF fn \notin OpenCalls THEN 0
                         ELSE IF (fn \in OpenCalls /\ Free(fdt) # {}) /\ ~fails THEN Lowest(fdt) ELSE -1
    BY <1>0, <1>1, <1>2 DEF Invoke, CallInv, Types, CallOK
  <2>2. call'[t].ret = ret
    BY <1>1 DEF Invoked, CallOK
  <2>3. Free(fdt) # {} => Lowest(fdt) # 0
    BY <1>4, LowestFree DEF Free
  <2> QED BY <1>4, <2>1, <2>2, <2>3
<1>6. written' = IF fn \in {"write", "fwrite"} /\ fdt[call[t].fd] # None
                 THEN [written EXCEPT ![fdt[call[t].fd]] = @ \cup {"data"}] ELSE written
  BY <1>0, <1>2 DEF Invoke
<1>7. fn \notin FdCalls => UNCHANGED Texts
  BY <1>1, <1>6 DEF FdCalls, Texts
<1>8. CASE fn \in OpenCalls
  <2>1. ret \notin {0} /\ fn \notin CloseCalls /\ fn \notin FdCalls /\ ByPath(fn)
    BY <1>5, <1>8, Kinds DEF ByPath, ByFd
  <2>2. UNCHANGED Texts
    BY <1>7, <2>1
  <2>3. CASE ret \in Fds
    <3>1. fdt[ret] = None /\ fdt' = [fdt EXCEPT ![ret] = call[t].file] /\ call[t].file \in Files
      BY <1>0, <1>1, <1>4, <2>1, <2>3, CallShape DEF Invoked
    <3>2. OwnFds[ret] = None /\ OwnFds' = [OwnFds EXCEPT ![ret] = call[t].file]
      BY <1>3, <1>4, <2>3, <3>1 DEF OwnFds
    <3> QED BY <1>0, <1>4, <1>8, <2>2, <2>3, <3>2, SameLists DEF Plain!Effect
  <2>4. CASE ret = -1
    <3>1. fdt' = fdt
      BY <1>0, <1>4, <2>1, <2>4 DEF Invoked
    <3> QED BY <1>0, <1>8, <2>2, <2>4, <3>1, SameLists DEF Plain!Effect, OwnFds
  <2> QED BY <2>1, <2>3, <2>4
<1>9. CASE fn \in PathCalls
  <2>1. fn \notin OpenCalls /\ fn \notin CloseCalls /\ fn \notin FdCalls
    BY <1>9, Kinds DEF ByPath, ByFd
  <2>2. ret = 0 /\ fdt' = fdt
    BY <1>0, <1>4, <1>5, <2>1 DEF Invoked
  <2> QED BY <1>0, <1>7, <1>9, <2>1, <2>2, SameLists DEF Plain!Effect, OwnFds
<1>10. CASE fn \in CloseCalls
  <2>1. fn \notin OpenCalls /\ fn \notin FdCalls /\ ~ByPath(fn) /\ call[t].fd \in Fds
    BY <1>0, <1>1, <1>10, CallShape, Kinds DEF ByPath, ByFd
  <2>2. ret = 0 /\ fdt' = [fdt EXCEPT ![call[t].fd] = None]
    BY <1>0, <1>5, <1>10, <2>1 DEF Invoked
  <2>3. OwnFds' = [OwnFds EXCEPT ![call[t].fd] = None]
    BY <1>3, <1>4, <2>1, <2>2 DEF OwnFds
  <2> QED BY <1>0, <1>4, <1>7, <1>10, <2>1, <2>2, <2>3, SameLists DEF Plain!Effect
<1>11. CASE fn \in FdCalls
  <2>1. fn \notin OpenCalls /\ fn \notin CloseCalls /\ ~ByPath(fn)
    BY <1>11, Kinds DEF ByPath, ByFd
  <2>2. call[t].fd \in Fds /\ fdt[call[t].fd] \in Files
    BY <1>0, <1>1, <1>11, CallShape DEF HoldInv, UsedIsOwned, HeldIsOpen, Holds
  <2>3. ret = 0 /\ fdt' = fdt
    BY <1>0, <1>5, <2>1 DEF Invoked
  <2>4. OwnFds[call[t].fd] = fdt[call[t].fd] /\ OwnFds[call[t].fd] # None
    BY <1>4, <2>2 DEF OwnFds
  <2>5. Texts' = IF fn \in {"write", "fwrite"} /\ OwnFds[call[t].fd] # None
                 THEN [Texts EXCEPT ![OwnFds[call[t].fd]] = @ \cup {"data"}] ELSE Texts
    BY <1>3, <1>6, <2>2, <2>4 DEF Texts, AllFiles
  <2> QED BY <1>0, <1>4, <1>11, <2>3, <2>5, SameLists DEF Plain!Effect, OwnFds
<1> QED BY <1>1, <1>8, <1>9, <1>10, <1>11 DEF ByPath, ByFd

\* The real call is the library's step.
LEMMA InvokePerforms ==
  ASSUME OwnPointers, NoneAssumption, CallInv, HoldInv, NEW t \in Threads, Invoke(t)
  PROVE  Plain!Perform(t)
<1>1. PICK ret \in Fds \cup {0, -1} : Invoked(t, ret)
  BY InvokeEffect
<1>2. pc[t] = "calling" /\ CallOK(t) /\ call[t].fn \in Calls
  BY Kinds DEF Invoke, CallOK, CallInv
<1>3. Wanted[t] = Asked(t) /\ Asked(t) # None
  BY <1>2 DEF Wanted, Asked, NoneAssumption, CallOK
<1>4. "fn" \in DOMAIN Asked(t) /\ Asked(t).fn = call[t].fn
  BY DEF Asked
<1>5. Wanted'[t] = [ret |-> ret]
  BY <1>1, <1>2 DEF Invoked, Wanted, CallOK
<1>6. Wanted' = [Wanted EXCEPT ![t] = [ret |-> ret]]
  BY <1>1, <1>5, WantedStep DEF Invoked
<1>7. Plain!Effect(Wanted[t], Wanted[t].fn, ret)
  BY <1>1, <1>3, <1>4, InvokeEffects
<1> QED BY <1>3, <1>4, <1>6, <1>7 DEF Plain!Perform

\* Printing the line is invisible, and returning ends the call.
LEMMA ReportGoes ==
  ASSUME NoneAssumption, CallInv, LogInv, NEW t \in Threads, Report(t)
  PROVE  Plain!Go(t)
<1>1. /\ pc[t] = "printing" /\ call' = [call EXCEPT ![t] = NoRequest]
      /\ pc' = [pc EXCEPT ![t] = "idle"] /\ UNCHANGED <<started, fdt>>
  BY DEF Report
<1>2. Others(t) /\ pc'[t] = "idle"
  BY <1>1, OwnCall
<1>3. Wanted[t] = [ret |-> call[t].ret] /\ call[t].ret \in Fds \cup {-1, 0}
  BY <1>1 DEF Wanted, CallInv, CallOK
<1>4. Wanted[t] # None /\ "ret" \in DOMAIN Wanted[t]
  BY <1>3 DEF NoneAssumption
<1>5. Wanted' = [Wanted EXCEPT ![t] = None]
  <2>1. Wanted'[t] = None
    BY <1>2 DEF Wanted
  <2> QED BY <1>2, <2>1, WantedStep
<1>6. fdt[FD] = LogFile /\ LogFile \notin Files /\ LogFile # None
  BY <1>1, CallShape, LoggerAssumption DEF LogInv, LogKept
<1>7. UNCHANGED Texts
  <2>1. written' = [written EXCEPT ![LogFile] = @ \cup {"log"}]
    BY <1>6 DEF Report
  <2>2. written \in [AllFiles -> SUBSET {"data", "log"}]
    BY DEF CallInv, Types
  <2> QED BY <1>6, <2>1, <2>2 DEF Texts, AllFiles
<1> QED BY <1>1, <1>4, <1>5, <1>7 DEF Plain!Go, OwnFds

\* What the launcher does is invisible to the program ...
LEMMA LaunchStutters ==
  ASSUME CallInv, LogInv, Launch
  PROVE  UNCHANGED Plain!lvars
<1>1. LogFile \notin Files /\ Other \notin Files /\ None \notin Files
  BY LoggerAssumption
<1>2. \A fd \in Fds : fdt[fd] \in {Other, None}
  BY DEF Launch, LogInv, AsInherited
<1>3. \A fd \in Fds : fdt'[fd] \in {Other, None, LogFile}
  BY <1>2 DEF Launch, Redirected, CallInv, Types
<1>4. UNCHANGED OwnFds
  BY <1>1, <1>2, <1>3 DEF OwnFds
<1> QED BY <1>4 DEF Launch, Plain!lvars, Wanted, Texts

\* ... and so is looking a name up.
LEMMA ResolveStutters ==
  ASSUME CallInv, NEW t \in Threads, Resolve(t)
  PROVE  UNCHANGED Plain!lvars
<1>1. Resolved(t)
  BY ResolveEffect
<1>2. Wanted'[t] = Wanted[t]
  BY <1>1 DEF Resolved, Wanted
<1>3. \A u \in Threads \ {t} : Wanted'[u] = Wanted[u]
  BY <1>1 DEF Resolved, Others, Wanted
<1>4. UNCHANGED Wanted
  <2>1. Wanted = [u \in Threads |-> Wanted[u]] /\ Wanted' = [u \in Threads |-> Wanted'[u]]
    BY DEF Wanted
  <2> QED BY <1>2, <1>3, <2>1
<1>5. UNCHANGED written
  BY DEF Resolve
<1> QED BY <1>1, <1>4, <1>5 DEF Resolved, Plain!lvars, OwnFds, Texts

\* The logger is transparent: the program's calls are those of a program that
\* runs without it, if the log stays where it is and no two calls share the
\* pointer of call_from_libc().
THEOREM CallsKept ==
  ASSUME LaunchAssumption, OwnPointers, NoneAssumption
  PROVE  Spec => Transparent
<1>1. Init => Plain!LInit
  <2> SUFFICES ASSUME Init PROVE Plain!LInit
    OBVIOUS
  <2>1. Other \notin Files /\ None \notin Files
    BY LoggerAssumption
  <2>2. Wanted = [t \in Threads |-> None] /\ Texts = [f \in Files |-> {}]
    BY DEF Init, Wanted, Texts, AllFiles
  <2>3. OwnFds = [fd \in Fds |-> None]
    BY <2>1 DEF Init, OwnFds
  <2> QED BY <2>2, <2>3 DEF Plain!LInit
<1>2. CallInv /\ HoldInv /\ LogInv /\ [Next]_vars => [Plain!LNext]_(Plain!lvars)
  <2> SUFFICES ASSUME CallInv, HoldInv, LogInv, [Next]_vars
               PROVE  Plain!LNext \/ UNCHANGED Plain!lvars
    OBVIOUS
  <2>1. CASE UNCHANGED vars
    BY <2>1 DEF vars, Plain!lvars, Wanted, OwnFds, Texts
  <2>2. CASE Launch
    BY <2>2, LaunchStutters
  <2>3. ASSUME NEW t \in Threads, Enter(t) \/ Invoke(t) \/ Report(t) PROVE Plain!LNext
    BY <2>3, EnterAsks, InvokePerforms, ReportGoes DEF Plain!LNext
  <2>4. ASSUME NEW t \in Threads, Resolve(t) PROVE UNCHANGED Plain!lvars
    BY <2>4, ResolveStutters
  <2> QED BY <2>1, <2>2, <2>3, <2>4 DEF Next
<1>3. Init => LogInv
  BY DEF Init, LogInv, LogKept, AsInherited
<1>4. CallInv /\ HoldInv /\ LogInv /\ [Next]_vars => LogInv'
  BY LogStep
<1>5. Transparent <=> Plain!LInit /\ [][Plain!LNext]_(Plain!lvars)
  BY DEF Transparent, Plain!LSpec
<1> QED BY <1>1, <1>2, <1>3, <1>4, <1>5, CallAlways, HoldAlways, PTL DEF Spec

=============================================================================
