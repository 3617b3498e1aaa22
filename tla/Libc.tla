------------------------------- MODULE Libc --------------------------------
(***************************************************************************)
(* The file calls of a program that runs without the logger: a thread asks *)
(* for a call, the library performs it in one step, the thread goes on.    *)
(* Which free descriptor an open returns is left open: the number that the *)
(* program gets under the logger may differ.                               *)
(***************************************************************************)
EXTENDS Integers

CONSTANTS Threads, Fds, Files, Calls, None

OpenCalls  == {"open", "creat", "fopen", "tmpfile"} \cap Calls
CloseCalls == {"close", "fclose"} \cap Calls
FdCalls    == {"read", "write", "fread", "fwrite"} \cap Calls
PathCalls  == {"chmod", "chown", "rename"} \cap Calls

VARIABLES
  want,   \* what each thread waits for: None, a request, or the result
  fds,    \* the program's descriptors
  text    \* what is in each of its files

lvars == <<want, fds, text>>

LInit ==
  /\ want = [t \in Threads |-> None]
  /\ fds = [fd \in Fds |-> None]
  /\ text = [f \in Files |-> {}]

Ask(t) ==
  /\ want[t] = None
  /\ \E fn \in Calls, fd \in Fds \cup {None}, f \in Files \cup {None} :
       want' = [want EXCEPT ![t] = [fn |-> fn, fd |-> fd, file |-> f]]
  /\ UNCHANGED <<fds, text>>

\* What the function named g does, called with the arguments of request r and
\* returning ret.  An open may fail; the other calls here succeed.
Effect(r, g, ret) ==
  \/ /\ g \in OpenCalls /\ ret \in Fds /\ fds[ret] = None
     /\ fds' = [fds EXCEPT ![ret] = r.file]
     /\ UNCHANGED text
  \/ g \in OpenCalls /\ ret = -1 /\ UNCHANGED <<fds, text>>
  \/ g \in PathCalls /\ ret = 0 /\ UNCHANGED <<fds, text>>
  \/ /\ g \in CloseCalls /\ ret = 0
     /\ fds' = [fds EXCEPT ![r.fd] = None]
     /\ UNCHANGED text
  \/ /\ g \in FdCalls /\ ret = 0
     /\ text' = IF g \in {"write", "fwrite"} /\ fds[r.fd] # None
                THEN [text EXCEPT ![fds[r.fd]] = @ \cup {"data"}] ELSE text
     /\ UNCHANGED fds

Perform(t) ==
  /\ want[t] # None /\ "fn" \in DOMAIN want[t]
  /\ \E ret \in Fds \cup {-1, 0} :
       /\ Effect(want[t], want[t].fn, ret)
       /\ want' = [want EXCEPT ![t] = [ret |-> ret]]

Go(t) ==
  /\ want[t] # None /\ "ret" \in DOMAIN want[t]
  /\ want' = [want EXCEPT ![t] = None]
  /\ UNCHANGED <<fds, text>>

LNext == \E t \in Threads : Ask(t) \/ Perform(t) \/ Go(t)

LSpec == LInit /\ [][LNext]_lvars
=============================================================================
