------------------------------- MODULE Logger -------------------------------
(***************************************************************************)
(* The LD_PRELOAD logger: hw2.cpp prepares descriptor FD and starts the    *)
(* program, lib.cpp puts a wrapper around its file calls, utils.hpp turns  *)
(* their arguments into text.                                              *)
(*                                                                         *)
(* The threads of the program run the wrappers concurrently.  A wrapper is *)
(* three steps: the real call, the resolving of its arguments, which reads *)
(* /proc/self/fd, and the dprintf() to FD.  fclose() resolves first.       *)
(***************************************************************************)
EXTENDS Integers

CONSTANTS
  Threads,      \* the threads of the program
  Fds,          \* the descriptors above stderr
  FD,           \* the descriptor of the log, 5 in the code
  Files,        \* the program's files
  LogFile,      \* where the log is to go: the file of -o, or stderr
  Other,        \* a file the logger inherits from its caller
  Calls,        \* the wrapped functions that the program calls
  Inherited,    \* the sets of descriptors the logger may inherit, open on Other
  ToFile,       \* the choices of giving -o or not
  CanOpen,      \* the outcomes of opening the file of -o
  None

ASSUME LoggerAssumption ==
  /\ Fds \subseteq Nat \ 0 .. 2 /\ FD \in Fds
  /\ Inherited \subseteq SUBSET Fds
  /\ ToFile \subseteq BOOLEAN /\ CanOpen \subseteq BOOLEAN
  /\ LogFile \notin Files /\ Other \notin Files /\ None \notin Files
  /\ LogFile # Other /\ None \notin {LogFile, Other}
  /\ None \notin Threads /\ None \notin Fds /\ None \notin Calls /\ None # "link"

OpenCalls  == {"open", "creat", "fopen", "tmpfile"} \cap Calls
CloseCalls == {"close", "fclose"} \cap Calls
FdCalls    == {"read", "write", "fread", "fwrite"} \cap Calls
PathCalls  == {"chmod", "chown", "rename"} \cap Calls

VARIABLES
  started,  \* the program has been started
  fdt,      \* the descriptor table: what each of Fds is open on
  cache,    \* the variable libc_func of each instance of call_from_libc()
  pc,       \* where each thread is
  call,     \* the call it makes: function, arguments, result, resolved name
  owner,    \* the thread that knows a descriptor, and will use and close it
  written   \* what is in each file: "data" of the program, "log" lines

vars == <<started, fdt, cache, pc, call, owner, written>>

AllFiles == Files \cup {LogFile, Other}

-----------------------------------------------------------------------------
(* hw2.cpp.                                                                *)

Free(table) == {fd \in Fds : table[fd] = None}

\* The kernel hands out the lowest free descriptor.
Lowest(table) == CHOOSE fd \in Free(table) : \A x \in Free(table) : fd <= x

Redirected_NoDup(toFile, opens) ==  \* mutant: dup2() is left out
  IF ~toFile THEN [fdt EXCEPT ![FD] = LogFile]
  ELSE IF opens THEN [fdt EXCEPT ![Lowest(fdt)] = LogFile]
  ELSE fdt

\* output(): open, dup2(fd, FD), close(fd), none of them checked, or
\* dup2(2, FD) if there is no -o.
Redirected(toFile, opens) ==
  IF ~toFile THEN [fdt EXCEPT ![FD] = LogFile]
  ELSE IF opens THEN [fdt EXCEPT ![FD] = LogFile, ![Lowest(fdt)] = None]
  ELSE fdt

\* main(): output(), then system() with LD_PRELOAD set.
Launch ==
  /\ ~started
  /\ \E toFile \in ToFile, opens \in CanOpen :
       fdt' = Redirected(toFile, opens /\ Free(fdt) # {})
  /\ started' = TRUE
  /\ UNCHANGED <<cache, pc, call, owner, written>>

-----------------------------------------------------------------------------
(* lib.cpp.                                                                *)

\* call_from_libc() is instantiated once for each list of types; functions of
\* one type share the static libc_func.
Instance_One(fn) == "all"  \* mutant: no template, one static for every wrapper

Instance(fn) == IF fn \in {"chmod", "creat"} THEN "int_path_mode" ELSE fn

\* The dlsym() result is stored by the first call of the instance.
RealFunction(fn) == IF cache[Instance(fn)] = None THEN fn ELSE cache[Instance(fn)]

Owned(t) == {fd \in Fds : owner[fd] = t}

\* resolve("fd", fd) and resolve("file_pointer", stream): what /proc/self/fd
\* says now.  A descriptor that is closed gives the text of the link.
NameOf_NoFallback(fd) == fdt[fd]  \* mutant: readlink()'s failure is not handled

NameOf(fd) == IF fdt[fd] = None THEN "link" ELSE fdt[fd]

NoRequest == [fn |-> None, fd |-> None, file |-> None, ret |-> None,
              was |-> None, name |-> None]

Request(fn, fd, f, name) ==
  [fn |-> fn, fd |-> fd, file |-> f, ret |-> None,
   was |-> IF fd = None THEN None ELSE fdt[fd], name |-> name]

EarlyName_None(fn, fd) == None  \* mutant: fclose() resolves as late as close()

EarlyName(fn, fd) == IF fn = "fclose" THEN NameOf(fd) ELSE None

\* A thread calls a wrapper: on a path, or on a descriptor of its own, which
\* it forgets if it closes it.
Enter(t) ==
  /\ started /\ pc[t] = "idle"
  /\ \/ \E fn \in OpenCalls \cup PathCalls, f \in Files :
          /\ call' = [call EXCEPT ![t] = Request(fn, None, f, None)]
          /\ UNCHANGED owner
     \/ \E fn \in FdCalls, fd \in Owned(t) :
          /\ call' = [call EXCEPT ![t] = Request(fn, fd, None, None)]
          /\ UNCHANGED owner
     \/ \E fn \in CloseCalls, fd \in Owned(t) :
          /\ call' = [call EXCEPT ![t] = Request(fn, fd, None, EarlyName(fn, fd))]
          /\ owner' = [owner EXCEPT ![fd] = None]
  /\ pc' = [pc EXCEPT ![t] = "calling"]
  /\ UNCHANGED <<started, fdt, cache, written>>

\* The wrapped function, whichever it is, with the arguments of the wrapper.
Invoke(t) ==
  LET r == call[t]
      g == RealFunction(r.fn)
      opens == g \in OpenCalls /\ Free(fdt) # {}
  IN
  /\ pc[t] = "calling"
  /\ cache' = [cache EXCEPT ![Instance(r.fn)] = g]
  /\ \E fails \in BOOLEAN :
       LET ret == IF g \notin OpenCalls THEN 0
                  ELSE IF opens /\ ~fails THEN Lowest(fdt) ELSE -1
       IN  /\ call' = [call EXCEPT ![t].ret = ret]
           /\ fdt' = IF ret > 0 THEN [fdt EXCEPT ![ret] = r.file]
                     ELSE IF g \in CloseCalls THEN [fdt EXCEPT ![r.fd] = None]
                     ELSE fdt
  /\ written' = IF g \in {"write", "fwrite"} /\ fdt[r.fd] # None
                THEN [written EXCEPT ![fdt[r.fd]] = @ \cup {"data"}] ELSE written
  /\ pc' = [pc EXCEPT ![t] = "resolving"]
  /\ UNCHANGED <<started, owner>>

\* The arguments of the log line.  A path resolves to itself here.
Resolve(t) ==
  /\ pc[t] = "resolving"
  /\ call' = [call EXCEPT ![t].name =
                IF @ # None THEN @
                ELSE IF call[t].fd # None THEN NameOf(call[t].fd)
                ELSE call[t].file]
  /\ pc' = [pc EXCEPT ![t] = "printing"]
  /\ UNCHANGED <<started, fdt, cache, owner, written>>

\* dprintf(FD, ...), and the wrapper returns: the program learns its new
\* descriptor.
Report(t) ==
  /\ pc[t] = "printing"
  /\ written' = IF fdt[FD] = None THEN written
                ELSE [written EXCEPT ![fdt[FD]] = @ \cup {"log"}]
  /\ owner' = IF call[t].fn \in OpenCalls /\ call[t].ret > 0
              THEN [owner EXCEPT ![call[t].ret] = t] ELSE owner
  /\ pc' = [pc EXCEPT ![t] = "idle"]
  /\ call' = [call EXCEPT ![t] = NoRequest]
  /\ UNCHANGED <<started, fdt, cache>>

Init ==
  /\ started = FALSE
  /\ \E open \in Inherited :
       fdt = [fd \in Fds |-> IF fd \in open THEN Other ELSE None]
  /\ cache = [i \in {Instance(fn) : fn \in Calls} |-> None]
  /\ pc = [t \in Threads |-> "idle"]
  /\ call = [t \in Threads |-> NoRequest]
  /\ owner = [fd \in Fds |-> None]
  /\ written = [f \in AllFiles |-> {}]

Next ==
  \/ Launch
  \/ \E t \in Threads : Enter(t) \/ Invoke(t) \/ Resolve(t) \/ Report(t)

Spec == Init /\ [][Next]_vars

-----------------------------------------------------------------------------
(* Properties.                                                             *)

\* Every variable has its type, and a line that is about to be printed has a
\* name for the file of the call.
TypeOK ==
  /\ started \in BOOLEAN
  /\ fdt \in [Fds -> AllFiles \cup {None}]
  /\ \A i \in DOMAIN cache : cache[i] \in Calls \cup {None}
  /\ pc \in [Threads -> {"idle", "calling", "resolving", "printing"}]
  /\ call \in [Threads ->
       [fn : Calls \cup {None}, fd : Fds \cup {None}, file : Files \cup {None},
        ret : Fds \cup {0, -1, None}, was : AllFiles \cup {None},
        name : AllFiles \cup {None, "link"}]]
  /\ \A t \in Threads : pc[t] = "printing" => call[t].name # None
  /\ owner \in [Fds -> Threads \cup {None}]
  /\ written \in [AllFiles -> SUBSET {"data", "log"}]

\* "-o: print output to file" (hw2.cpp line 11): as long as the program runs,
\* FD is the log, whatever the program opens and closes.
LogKept == started => fdt[FD] = LogFile

\* A log line about a descriptor names the file that the call was about,
\* although another thread may close and reopen descriptors before the name is
\* looked up.  close(), which looks it up when the descriptor is already free,
\* is left out.
NamesRight ==
  \A t \in Threads :
    pc[t] = "printing" /\ call[t].fd # None /\ call[t].fn # "close" =>
      call[t].name = call[t].was

\* What the program sees of the state: the call each thread waits for or its
\* result, the program's own descriptors, and its files.
Wanted == [t \in Threads |->
  IF pc[t] = "idle" THEN None
  ELSE IF pc[t] = "calling"
       THEN [fn |-> call[t].fn, fd |-> call[t].fd, file |-> call[t].file]
       ELSE [ret |-> call[t].ret]]
OwnFds == [fd \in Fds |-> IF fdt[fd] \in Files THEN fdt[fd] ELSE None]
Texts  == [f \in Files |-> written[f]]

Plain == INSTANCE Libc WITH want <- Wanted, fds <- OwnFds, text <- Texts

\* The program's calls do what they do without the logger: each wrapper runs
\* its own function, once, and no log line ends up in a file of the program.
Transparent == Plain!LSpec
=============================================================================
