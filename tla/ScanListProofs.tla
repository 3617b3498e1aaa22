---------------------------- MODULE ScanListProofs ----------------------------
(***************************************************************************)
(* What is proved about the completeness of Scan's list, for every value   *)
(* of its constants: the order in which the directories are read and that  *)
(* the scanner never goes back, that descriptors are listed all or none,   *)
(* and that no process of the user is lost that is there from the          *)
(* beginning to the end.                                                   *)
(***************************************************************************)
EXTENDS ScanProofs, FiniteSetTheorems

-----------------------------------------------------------------------------
(* The directories are read in ascending order.                            *)

\* The least entry of a block is below the others.
LEMMA LeastBelow ==
  ASSUME NEW s, s \subseteq Nat, s # {}
  PROVE  Least(s) \in s /\ \A n \in s \ {Least(s)} : Least(s) < n
<1>1. \E m \in s : \A n \in s : m <= n
  BY LeastNat
<1>2. Least(s) \in s /\ \A n \in s : Least(s) <= n
  BY <1>1 DEF Least
<1>3. PICK m \in s : m = Least(s)
  BY <1>2
<1>4. \A n \in s : m <= n
  BY <1>2, <1>3
<1>5. \A n \in s \ {m} : m < n
  BY <1>4
<1> QED BY <1>3, <1>5

\* What a block of a directory has and has not: it begins with the entries that
\* are left, or with those after the last one, and leaves no entry out before
\* one that it has.
Follows(block, left, there, last) ==
  /\ \A x \in block : last < x
  /\ left \subseteq block
  /\ \A x \in there :
       last < x /\ (\A y \in left : y < x) =>
         block # {} /\ (x \in block \/ \A y \in block : y < x)

\* What readdir() returns from is such a block.
LEMMA BlockNext ==
  ASSUME NEW left, NEW there, NEW last \in Int, NEW block \in Block(left, there, last),
         left \subseteq Nat, there \subseteq Nat, \A x \in left : last < x
  PROVE  Follows(block, left, there, last)
<1> USE DEF Follows
<1> DEFINE rest == {x \in there : After(x, last)}
<1>1. \A x \in rest : last < x
  BY DEF After
<1>2. CASE left # {}
  BY <1>2 DEF Block
<1>3. CASE left = {} /\ rest = {}
  <2>1. block = {}
    BY <1>3 DEF Block
  <2>2. \A x \in there : ~(last < x)
    BY <1>3 DEF After
  <2> QED BY <1>3, <2>1, <2>2
<1>4. CASE left = {} /\ rest # {}
  <2>1. PICK z \in rest : block = {x \in rest : x <= z}
    BY <1>4 DEF Block
  <2>2. z \in block
    BY <2>1
  <2>3. ASSUME NEW x \in there, last < x PROVE x \in block \/ \A y \in block : y < x
    <3>1. x \in rest
      BY <2>3 DEF After
    <3>2. x \in Nat /\ z \in Nat /\ rest \subseteq Nat
      OBVIOUS
    <3> HIDE DEF rest
    <3> QED BY <2>1, <3>1, <3>2
  <2> QED BY <1>1, <1>4, <2>1, <2>2, <2>3
<1> QED BY <1>2, <1>3, <1>4

\* What has been read of the directories is above what is in use, and what
\* belongs to one part of a visit is empty in the others.
Ascending ==
  /\ \A p \in todo : pid < p
  /\ \A fd \in entries : row.fd < fd
  /\ pc \in {"special", "maps", "lines", "map"} => row.fd = -1
  /\ pc \notin {"fds", "fd"} => entries = {} /\ fdFiles = <<>>
  /\ pc # "map" => lines = <<>>
  /\ pc \in {"readdir", "comm", "status", "done"} => files = <<>>

\* A visit that ends.
LEMMA ReturnAscending ==
  ASSUME Ascending, Return
  PROVE  Ascending'
BY DEF Return, Ascending

\* What the directories are read by are numbers.
LEMMA Numbers ==
  ASSUME TypeOK, VisitOK
  PROVE  /\ ScannerOK /\ row \in PartRow
         /\ todo \subseteq Nat /\ entries \subseteq Nat /\ pid \in Nat /\ row.fd \in Int
         /\ Pids \subseteq Nat /\ Fds \subseteq Nat
<1>1. ScannerOK /\ row \in PartRow
  BY TypeParts DEF VisitOK, RowOK
<1>2. Pids \subseteq Nat /\ Fds \subseteq Nat
  BY ScanAssumption
<1>3. todo \subseteq Pids /\ pid \in Pids \cup {0} /\ entries \subseteq Fds
  BY <1>1 DEF ScannerOK
<1>4. row.fd \in Fds \cup {-1}
  BY <1>1 DEF PartRow
<1>5. pid \in Nat
  BY <1>2, <1>3
<1>6. row.fd \in Int
  <2>1. Fds \subseteq Int /\ -1 \in Int
    BY <1>2
  <2> QED BY <1>4, <2>1, Zenon
<1>7. todo \subseteq Nat /\ entries \subseteq Nat
  BY <1>2, <1>3
<1> QED BY <1>1, <1>2, <1>5, <1>6, <1>7

\* The scanner's steps keep the order,
LEMMA AscendingStep ==
  TypeOK /\ VisitOK /\ Ascending /\ [Next]_vars => Ascending'
<1> SUFFICES ASSUME TypeOK, VisitOK, Ascending, [Next]_vars PROVE Ascending'
  OBVIOUS
<1>1. /\ ScannerOK /\ row \in PartRow
      /\ todo \subseteq Nat /\ entries \subseteq Nat /\ pid \in Nat /\ row.fd \in Int
  BY Numbers
<1>2. CASE NextPid
  <2>1. /\ pc = "readdir" /\ pc' \in {"comm", "done"}
        /\ UNCHANGED <<row, call, lines, entries, files, fdFiles>>
    BY <1>2 DEF NextPid, locals
  <2>2. PICK block \in Block(todo, {p \in Pids : There(p)}, pid) :
           IF block = {} THEN pc' = "done" /\ UNCHANGED <<todo, pid, pool>>
           ELSE /\ pid' = Least(block) /\ todo' = block \ {Least(block)}
                /\ pool' = NewPool
                /\ pc' = "comm"
    BY <1>2 DEF NextPid
  <2>3. block \subseteq Nat
    <3>1. block \subseteq todo \cup {p \in Pids : There(p)} /\ Pids \subseteq Nat
      BY BlockIn, ScanAssumption
    <3> QED BY <1>1, <3>1
  <2>4. \A p \in todo' : pid' < p
    <3>1. CASE block = {}
      BY <2>2, <3>1 DEF Ascending
    <3>2. CASE block # {}
      <4>1. pid' = Least(block) /\ todo' = block \ {Least(block)}
        BY <2>2, <3>2
      <4>2. \A n \in block \ {Least(block)} : Least(block) < n
        BY <2>3, <3>2, LeastBelow
      <4> QED BY <4>1, <4>2
    <3> QED BY <3>1, <3>2
  <2> QED BY <2>1, <2>4 DEF Ascending
<1>3. CASE GetCommand \/ GetUser
  <2>1. CASE Return
    BY <2>1, ReturnAscending
  <2>2. CASE /\ pc \in {"comm", "status"} /\ pc' = "status"
             /\ UNCHANGED <<todo, pid, row, lines, entries, files, fdFiles>>
    BY <2>2 DEF Ascending
  <2>3. CASE /\ pc = "status" /\ pc' = "special" /\ row' = [NoRow EXCEPT !.kind = "cwd"]
             /\ UNCHANGED <<todo, pid, lines, entries, files, fdFiles>>
    <3>1. row'.fd = -1
      BY <2>3 DEF NoRow
    <3> QED BY <2>3, <3>1 DEF Ascending
  <2> QED BY <1>3, <2>1, <2>2, <2>3 DEF GetCommand, GetUser, LeaveOut, locals
<1>4. CASE SpecialCall
  <2>1. pc = "special" /\ SpecialEffect
    BY <1>4, SpecialCases DEF SpecialCall
  <2>2. CASE Return
    BY <2>2, ReturnAscending
  <2>3. CASE row'.fd = row.fd /\ UNCHANGED <<pc, todo, pid, lines, entries, files, fdFiles>>
    BY <2>1, <2>3 DEF Ascending
  <2>4. CASE /\ pc' \in {"maps", "special"} /\ row'.fd = -1
             /\ UNCHANGED <<todo, pid, lines, entries, fdFiles>>
    BY <2>1, <2>4 DEF Ascending
  <2>5. /\ row' = [NoRow EXCEPT !.kind = NextKind[row.kind]] => row'.fd = -1
        /\ row' = NoRow => row'.fd = -1
    BY DEF NoRow
  <2>6. /\ row' = [row EXCEPT !.name = Cell("name")] => row'.fd = row.fd
        /\ row' = [row EXCEPT !.type = Cell("type")] => row'.fd = row.fd
    BY <1>1 DEF PartRow
  <2> QED BY <2>1, <2>2, <2>3, <2>4, <2>5, <2>6 DEF SpecialEffect, LeaveOut
<1>5. CASE OpenMaps \/ ReadMaps \/ MapLine \/ OpenFds
  <2>1. CASE Return
    BY <2>1, ReturnAscending
  <2>2. CASE /\ pc \in {"maps", "lines", "map"} /\ pc' \in {"lines", "map"}
             /\ pc' = "lines" => lines' = lines /\ pc = "maps"
             /\ UNCHANGED <<todo, pid, row, entries, fdFiles>>
    BY <2>2 DEF Ascending
  <2>3. CASE /\ pc = "map" /\ lines = <<>> /\ pc' = "fds"
             /\ UNCHANGED <<todo, pid, row, lines, entries, files, fdFiles>>
    BY <2>3 DEF Ascending
  <2> QED BY <1>5, <2>1, <2>2, <2>3 DEF OpenMaps, ReadMaps, MapLine, OpenFds, LeaveOut, Keep, locals
<1>6. CASE NextFd
  <2>1. pc = "fds"
    BY <1>6 DEF NextFd
  <2>2. PICK block \in Block(entries, {fd \in Fds : fdt[pid][fd] # None}, row.fd) :
         IF block = {} THEN Keep(files \o fdFiles)
         ELSE /\ row' = [NoRow EXCEPT !.kind = "fd", !.fd = Least(block)]
              /\ entries' = block \ {Least(block)}
              /\ pc' = "fd"
              /\ UNCHANGED <<todo, pid, call, lines, files, fdFiles, pool, table, held>>
    BY <1>6 DEF NextFd
  <2>3. block \subseteq Nat
    <3>1. block \subseteq entries \cup {fd \in Fds : fdt[pid][fd] # None} /\ Fds \subseteq Nat
      BY BlockIn, ScanAssumption
    <3> QED BY <1>1, <3>1
  <2>4. CASE block = {}
    BY <2>2, <2>4, ReturnAscending DEF Keep
  <2>5. CASE block # {}
    <3>1. row'.fd = Least(block) /\ entries' = block \ {Least(block)}
      BY <2>2, <2>5 DEF NoRow
    <3>2. PICK m : m = Least(block) /\ \A n \in block \ {m} : m < n
      BY <2>3, <2>5, LeastBelow
    <3>3. \A fd \in entries' : row'.fd < fd
      BY <3>1, <3>2
    <3> QED BY <2>1, <2>2, <2>5, <3>3 DEF Ascending
  <2> QED BY <2>4, <2>5
<1>7. CASE FdCall
  <2>1. pc = "fd" /\ FdEffect
    BY <1>1, <1>7, FdCases DEF FdCall
  <2>2. CASE Keep(files)
    BY <2>2, ReturnAscending DEF Keep
  <2>3. CASE /\ row'.fd = row.fd /\ pc' \in {"fds", "fd"}
             /\ UNCHANGED <<todo, pid, lines, entries, files>>
    BY <2>1, <2>3 DEF Ascending
  <2>4. /\ row' = [row EXCEPT !.mode = Cell("mode")] => row'.fd = row.fd
        /\ row' = [row EXCEPT !.type = Cell("type")] => row'.fd = row.fd
        /\ row' = [row EXCEPT !.node = Cell("node")] => row'.fd = row.fd
        /\ row' = [row EXCEPT !.name = Cell("name")] => row'.fd = row.fd
    BY <1>1 DEF PartRow
  <2> QED BY <2>1, <2>2, <2>3, <2>4 DEF FdEffect
<1>8. CASE UNCHANGED scanner
  BY <1>8 DEF scanner, locals, Ascending
<1>9. CASE World
  BY <1>8, <1>9, WorldTypes, TypeParts
<1> QED BY <1>2, <1>3, <1>4, <1>5, <1>6, <1>7, <1>8, <1>9 DEF Next, Step, Output, vars

\* A step that takes the scanner further, see Onward.
Further ==
  \/ pid < pid'
  \/ pid = pid' /\ \/ Part < Part'
                   \/ Part = Part' /\ \/ Item < Item'
                                      \/ Item = Item' /\ Turn < Turn'

\* The end of a visit comes after all its parts.
LEMMA ReturnFurther ==
  ASSUME ScannerOK, pc \notin {"readdir", "done"}, Return
  PROVE  Further
<1>1. Part \in 1 .. 7
  BY DEF ScannerOK, Part
<1>2. Part' = 8 /\ pid' = pid
  BY DEF Return, Part
<1> QED BY <1>1, <1>2 DEF Further

\* readdir() on /proc returns a later process, or none.
LEMMA NextPidFurther ==
  ASSUME TypeOK, VisitOK, Ascending, NextPid
  PROVE  Further
<1>1. /\ todo \subseteq Nat /\ pid \in Nat /\ pc = "readdir" /\ Pids \subseteq Nat
  BY Numbers DEF NextPid
<1>2. PICK there, block :
         /\ there = {p \in Pids : There(p)}
         /\ block \in Block(todo, there, pid)
         /\ IF block = {} THEN pc' = "done" /\ UNCHANGED <<todo, pid, pool>>
            ELSE /\ pid' = Least(block) /\ todo' = block \ {Least(block)}
                 /\ pool' = NewPool
                 /\ pc' = "comm"
  BY DEF NextPid
<1>3. CASE block = {}
  BY <1>1, <1>2, <1>3 DEF Further, Part
<1>4. CASE block # {}
  <2>1. \A x \in block : pid < x
    <3>1. \A x \in todo : pid < x
      BY DEF Ascending
    <3>2. there \subseteq Pids /\ pid \in Int
      BY <1>1, <1>2
    <3>3. Follows(block, todo, there, pid)
      BY <1>1, <1>2, <3>1, <3>2, BlockNext
    <3> QED BY <3>3 DEF Follows
  <2>2. block \subseteq Nat
    <3>1. block \subseteq todo \cup there
      BY <1>2, BlockIn
    <3> QED BY <1>1, <1>2, <3>1
  <2>3. Least(block) \in block
    BY <1>4, <2>2, LeastIn
  <2> QED BY <1>2, <1>4, <2>1, <2>3 DEF Further
<1> QED BY <1>3, <1>4

\* get_special_file() makes its calls in order, for one link after the other.
LEMMA SpecialFurther ==
  ASSUME TypeOK, VisitOK, SpecialCall
  PROVE  Further
<1>1. /\ pc = "special" /\ SpecialEffect /\ ScannerOK /\ row \in PartRow /\ pid \in Nat
      /\ row.kind \in Kinds
  BY SpecialCases, Numbers DEF SpecialCall, VisitOK, RowOK
<1>2. CASE LeaveOut
  BY <1>1, <1>2, ReturnFurther DEF LeaveOut
<1>3. CASE /\ row'.kind = row.kind /\ call \in Nat /\ call' = call + 1
           /\ UNCHANGED <<pc, pid>>
  BY <1>1, <1>3 DEF Further, Part, Item, Turn
<1>4. CASE row.kind = "txt" /\ pc' = "maps" /\ pid' = pid
  BY <1>1, <1>4 DEF Further, Part
<1>5. CASE /\ row.kind \in {"cwd", "rtd"} /\ row'.kind = NextKind[row.kind]
           /\ UNCHANGED <<pc, pid>>
  <2>1. \/ row.kind = "cwd" /\ row'.kind = "rtd"
        \/ row.kind = "rtd" /\ row'.kind = "txt"
    BY <1>5 DEF NextKind
  <2> QED BY <1>1, <1>5, <2>1 DEF Further, Part, Item
<1>6. /\ row' = [row EXCEPT !.name = Cell("name")] => row'.kind = row.kind
      /\ row' = [row EXCEPT !.type = Cell("type")] => row'.kind = row.kind
      /\ row' = [NoRow EXCEPT !.kind = NextKind[row.kind]] => row'.kind = NextKind[row.kind]
  BY <1>1 DEF PartRow, NoRow
<1> QED BY <1>1, <1>2, <1>3, <1>4, <1>5, <1>6 DEF SpecialEffect

\* So does iterate_fd() for a descriptor,
LEMMA FdFurther ==
  ASSUME TypeOK, VisitOK, FdCall
  PROVE  Further
<1>1. /\ pc = "fd" /\ FdEffect /\ ScannerOK /\ row \in PartRow /\ pid \in Nat /\ row.fd \in Int
      /\ Len(FdCalls) = 4
  BY Numbers, FdCases DEF FdCall, FdCalls
<1>2. CASE Keep(files)
  BY <1>1, <1>2, ReturnFurther DEF Keep
<1>3. CASE row'.fd = row.fd /\ call \in 1 .. 3 /\ call' = call + 1 /\ UNCHANGED <<pc, pid>>
  BY <1>1, <1>3 DEF Further, Part, Item, Turn
<1>4. CASE row'.fd = row.fd /\ call = 4 /\ pc' = "fds" /\ pid' = pid
  BY <1>1, <1>4 DEF Further, Part, Item, Turn
<1>5. /\ row' = [row EXCEPT !.mode = Cell("mode")] => row'.fd = row.fd
      /\ row' = [row EXCEPT !.type = Cell("type")] => row'.fd = row.fd
      /\ row' = [row EXCEPT !.node = Cell("node")] => row'.fd = row.fd
      /\ row' = [row EXCEPT !.name = Cell("name")] => row'.fd = row.fd
  BY <1>1 DEF PartRow
<1> QED BY <1>1, <1>2, <1>3, <1>4, <1>5 DEF FdEffect

\* which readdir() returns in ascending order, too.
LEMMA NextFdFurther ==
  ASSUME TypeOK, VisitOK, Ascending, NextFd
  PROVE  Further
<1>1. /\ ScannerOK /\ pc = "fds" /\ entries \subseteq Nat /\ pid \in Nat
      /\ Fds \subseteq Nat
  BY Numbers DEF NextFd
<1>2. row.fd \in Int
  BY Numbers
<1>3. PICK there, block :
         /\ there = {fd \in Fds : fdt[pid][fd] # None}
         /\ block \in Block(entries, there, row.fd)
         /\ IF block = {} THEN Keep(files \o fdFiles)
            ELSE /\ row' = [NoRow EXCEPT !.kind = "fd", !.fd = Least(block)]
                 /\ entries' = block \ {Least(block)}
                 /\ pc' = "fd"
                 /\ UNCHANGED <<todo, pid, call, lines, files, fdFiles, pool, table, held>>
  BY DEF NextFd
<1>4. CASE block = {}
  BY <1>1, <1>3, <1>4, ReturnFurther DEF Keep
<1>5. CASE block # {}
  <2>1. \A x \in block : row.fd < x
    <3>1. \A x \in entries : row.fd < x
      BY DEF Ascending
    <3>2. there \subseteq Nat
      BY <1>1, <1>3
    <3>3. Follows(block, entries, there, row.fd)
      BY <1>1, <1>2, <1>3, <3>1, <3>2, BlockNext
    <3> QED BY <3>3 DEF Follows
  <2>2. block \subseteq Nat
    <3>1. block \subseteq entries \cup there
      BY <1>3, BlockIn
    <3> QED BY <1>1, <1>3, <3>1
  <2>3. Least(block) \in block
    BY <1>5, <2>2, LeastIn
  <2>4. row'.fd = Least(block) /\ pc' = "fd" /\ pid' = pid
    BY <1>3, <1>5 DEF NoRow
  <2>5. row.fd < row'.fd
    BY <2>1, <2>3, <2>4
  <2> QED BY <1>1, <2>4, <2>5 DEF Further, Part, Item
<1> QED BY <1>4, <1>5

\* The calls in between come in order, and each line of maps is used up.
LEMMA RestFurther ==
  ASSUME TypeOK, VisitOK,
         GetCommand \/ GetUser \/ OpenMaps \/ ReadMaps \/ MapLine \/ OpenFds
  PROVE  Further
<1>1. ScannerOK /\ pid \in Nat
  BY Numbers
<1>2. pc \in {"comm", "status", "maps", "lines", "map"}
  BY DEF GetCommand, GetUser, OpenMaps, ReadMaps, MapLine, OpenFds
<1>3. CASE Return
  BY <1>1, <1>2, <1>3, ReturnFurther
<1>4. CASE /\ pid' = pid
           /\ \/ pc = "comm" /\ pc' = "status"
              \/ pc = "status" /\ pc' = "special"
              \/ pc = "maps" /\ pc' = "lines"
              \/ pc = "lines" /\ pc' = "map"
              \/ pc = "map" /\ pc' = "fds"
  BY <1>1, <1>4 DEF Further, Part
<1>5. CASE MapLine
  <2>1. pc = "map" /\ pc' = "map" /\ pid' = pid /\ lines' = Tail(lines) /\ lines # <<>>
    BY <1>5 DEF MapLine
  <2>2. Len(lines) \in Nat /\ Len(lines') \in Nat /\ Len(lines') < Len(lines)
    <3>1. lines \in Seq([file : Files, deleted : BOOLEAN])
      BY <1>1 DEF ScannerOK
    <3>2. /\ Tail(lines) \in Seq([file : Files, deleted : BOOLEAN])
          /\ Len(Tail(lines)) = Len(lines) - 1
      BY <2>1, <3>1, HeadTailProperties
    <3> QED BY <2>1, <3>1, <3>2, LenProperties
  <2> QED BY <1>1, <2>1, <2>2 DEF Further, Part, Item
<1>6. /\ GetCommand => Return \/ (pc = "comm" /\ pc' = "status" /\ pid' = pid)
      /\ GetUser => Return \/ (pc = "status" /\ pc' = "special" /\ pid' = pid)
  BY DEF GetCommand, GetUser, LeaveOut
<1>7. /\ OpenMaps => Return \/ (pc = "maps" /\ pc' = "lines" /\ pid' = pid)
      /\ ReadMaps => pc = "lines" /\ pc' = "map" /\ pid' = pid
  BY DEF OpenMaps, ReadMaps, LeaveOut
<1>8. OpenFds => Return \/ (pc = "map" /\ pc' = "fds" /\ pid' = pid)
  BY DEF OpenFds, Keep
<1> QED BY <1>3, <1>4, <1>5, <1>6, <1>7, <1>8

\* Whatever the processes do between its calls, the scanner never goes back, neither
\* in /proc nor in a directory of descriptors, nor to a call it has made.
THEOREM NeverBack == Spec => Onward
<1> DEFINE Inv == TypeOK /\ VisitOK /\ Ascending
<1>1. Inv /\ Step => Further
  BY NextPidFurther, SpecialFurther, FdFurther, NextFdFurther, RestFurther DEF Step
<1>2. World => UNCHANGED scanner
  BY DEF World, Begin, Exit, Reap, SetFd, Unlink
<1>3. Inv /\ [Next]_vars => [Further]_scanner
  BY <1>1, <1>2 DEF Next, Output, vars
<1>4. Inv /\ [Next]_vars => Inv'
  BY TypesStep, AscendingStep
<1>5. Init => Inv
  <2>1. Init => Ascending
    BY DEF Init, Ascending
  <2> QED BY <2>1, TypesInit
<1> HIDE DEF Inv
<1>6. Spec => [][Further]_scanner
  BY <1>3, <1>4, <1>5, PTL DEF Spec
<1> QED BY <1>6 DEF Onward, Further

-----------------------------------------------------------------------------
(* The descriptors that are never closed.                                  *)

OwnBelow(n) == {q \in Pids : q < n /\ Access[q] = "own"}

\* Counting them.
LEMMA OwnCount ==
  ASSUME NEW m \in Nat, NEW n \in Nat, m <= n
  PROVE  /\ Cardinality(OwnBelow(m)) \in Nat /\ Cardinality(OwnBelow(n)) \in Nat
         /\ Cardinality(OwnBelow(m)) <= Cardinality(OwnBelow(n))
         /\ m \in Pids /\ Access[m] = "own" /\ m < n =>
              Cardinality(OwnBelow(m)) + 1 <= Cardinality(OwnBelow(n))
<1>1. IsFiniteSet(Pids) /\ Pids \subseteq Nat
  BY ScanAssumption
<1>2. /\ OwnBelow(m) \subseteq Pids /\ OwnBelow(n) \subseteq Pids
      /\ OwnBelow(m) \subseteq OwnBelow(n)
  <2>1. \A q \in Nat : q < m => q < n
    OBVIOUS
  <2> QED BY <1>1, <2>1 DEF OwnBelow
<1>3. /\ IsFiniteSet(OwnBelow(m)) /\ IsFiniteSet(OwnBelow(n))
      /\ Cardinality(OwnBelow(m)) <= Cardinality(OwnBelow(n))
  BY <1>1, <1>2, FS_Subset
<1>4. ASSUME m \in Pids, Access[m] = "own", m < n
      PROVE  Cardinality(OwnBelow(m)) + 1 <= Cardinality(OwnBelow(n))
  <2>1. m \notin OwnBelow(m) /\ OwnBelow(m) \cup {m} \subseteq OwnBelow(n)
    BY <1>2, <1>4 DEF OwnBelow
  <2>2. Cardinality(OwnBelow(m) \cup {m}) = Cardinality(OwnBelow(m)) + 1
    BY <1>3, <2>1, FS_AddElement
  <2>3. Cardinality(OwnBelow(m) \cup {m}) <= Cardinality(OwnBelow(n))
    BY <1>3, <2>1, FS_Subset
  <2> QED BY <2>2, <2>3
<1>5. Cardinality(OwnBelow(m)) \in Nat /\ Cardinality(OwnBelow(n)) \in Nat
  BY <1>3, FS_CardinalityType
<1> QED BY <1>3, <1>4, <1>5

\* One descriptor is left open for each process of the user, and none else.
HeldInv ==
  /\ held <= 1 + Cardinality(OwnBelow(pid + 1))
  /\ pc \notin {"readdir", "fds", "fd", "done"} => held <= 1 + Cardinality(OwnBelow(pid))

\* So a process that has enough of them before it finds room.
LEMMA RoomLeft ==
  ASSUME TypeOK, VisitOK, HeldInv, Sufficient(pid),
         pc \notin {"readdir", "fds", "fd", "done"}
  PROVE  Room
<1>1. pid \in Nat /\ held \in Nat /\ OpenMax \in Nat
  BY ScanAssumption DEF TypeOK
<1>2. 1 + Cardinality(OwnBelow(pid)) < OpenMax
  BY DEF Sufficient, OwnBelow
<1>3. held <= 1 + Cardinality(OwnBelow(pid))
  BY DEF HeldInv
<1>4. Cardinality(OwnBelow(pid)) \in Nat
  BY <1>1, OwnCount
<1> QED BY <1>1, <1>2, <1>3, <1>4 DEF Room

\* Every step keeps the count.
LEMMA HeldStep ==
  TypeOK /\ VisitOK /\ Ascending /\ HeldInv /\ [Next]_vars => HeldInv'
<1> SUFFICES ASSUME TypeOK, VisitOK, Ascending, HeldInv, [Next]_vars PROVE HeldInv'
  OBVIOUS
<1>1. /\ ScannerOK /\ pid \in Nat /\ held \in Nat
      /\ pc \notin {"readdir", "done"} => pid \in Pids
      /\ pc \in {"fds", "fd"} => Access[pid] = "own"
  <2>1. ScannerOK /\ VisitOK /\ Pids \subseteq Nat
    BY TypeParts, ScanAssumption
  <2>2. pid \in Pids \cup {0} /\ held \in 0 .. OpenMax /\ OpenMax \in Nat
    BY <2>1, ScanAssumption DEF ScannerOK
  <2>3. pid \in Nat /\ held \in Nat
    BY <2>1, <2>2
  <2> QED BY <2>1, <2>3 DEF VisitOK
<1>2. ASSUME UNCHANGED <<pid, held>>,
             pc' \notin {"readdir", "fds", "fd", "done"}
               => pc \notin {"readdir", "fds", "fd", "done"}
      PROVE  HeldInv'
  BY <1>2 DEF HeldInv
<1>3. CASE NextPid
  <2>1. PICK block \in Block(todo, {p \in Pids : There(p)}, pid) :
           IF block = {} THEN pc' = "done" /\ UNCHANGED <<todo, pid, pool>>
           ELSE /\ pid' = Least(block) /\ todo' = block \ {Least(block)}
                /\ pool' = NewPool
                /\ pc' = "comm"
    BY <1>3 DEF NextPid
  <2>2. held' = held /\ pc = "readdir"
    BY <1>3 DEF NextPid
  <2>3. CASE block = {}
    BY <1>2, <2>1, <2>2, <2>3
  <2>4. CASE block # {}
    <3>1. block \subseteq Nat /\ \A x \in block : pid < x
      <4>1. Pids \subseteq Nat /\ todo \subseteq Pids
        BY <1>1, ScanAssumption DEF ScannerOK
      <4>2. {p \in Pids : There(p)} \subseteq Nat /\ todo \subseteq Nat
        BY <4>1
      <4>3. \A p \in todo : pid < p
        BY DEF Ascending
      <4>4. block \subseteq todo \cup {p \in Pids : There(p)}
        BY BlockIn
      <4>5. \A x \in block : pid < x
        <5>1. pid \in Int
          BY <1>1
        <5>2. PICK there : there = {p \in Pids : There(p)}
          OBVIOUS
        <5>3. block \in Block(todo, there, pid) /\ there \subseteq Nat
          BY <4>2, <5>2
        <5>4. Follows(block, todo, there, pid)
          BY <4>2, <4>3, <5>1, <5>3, BlockNext
        <5> QED BY <5>4 DEF Follows
      <4> QED BY <4>2, <4>4, <4>5
    <3>2. PICK q \in Nat : q = pid' /\ pid < q
      BY <2>1, <2>4, <3>1, LeastBelow
    <3>3. /\ Cardinality(OwnBelow(pid + 1)) <= Cardinality(OwnBelow(q))
          /\ Cardinality(OwnBelow(q)) <= Cardinality(OwnBelow(q + 1))
          /\ Cardinality(OwnBelow(pid + 1)) \in Nat /\ Cardinality(OwnBelow(q)) \in Nat
          /\ Cardinality(OwnBelow(q + 1)) \in Nat
      <4>1. pid + 1 \in Nat /\ q + 1 \in Nat /\ pid + 1 <= q /\ q <= q + 1
        <5>1. PICK m \in Nat : m = pid
          BY <1>1
        <5>2. m < q => m + 1 \in Nat /\ q + 1 \in Nat /\ m + 1 <= q /\ q <= q + 1
          OBVIOUS
        <5> QED BY <3>2, <5>1, <5>2
      <4> QED BY <3>2, <4>1, OwnCount
    <3>4. held <= 1 + Cardinality(OwnBelow(pid + 1))
      BY DEF HeldInv
    <3>5. held <= 1 + Cardinality(OwnBelow(q)) /\ held <= 1 + Cardinality(OwnBelow(q + 1))
      BY <1>1, <3>3, <3>4
    <3> QED BY <2>2, <3>2, <3>5 DEF HeldInv, OwnBelow
  <2> QED BY <2>3, <2>4
<1>4. CASE OpenFds
  <2>1. CASE UNCHANGED <<pid, held>> /\ pc' = "readdir"
    BY <1>2, <2>1
  <2>2. CASE held' = held + 1 /\ pc' = "fds" /\ pid' = pid /\ Access[pid] = "own"
    <3>1. pc = "map" /\ pid \in Pids
      BY <1>1, <1>4 DEF OpenFds
    <3>2. /\ Cardinality(OwnBelow(pid)) + 1 <= Cardinality(OwnBelow(pid + 1))
          /\ Cardinality(OwnBelow(pid)) \in Nat /\ Cardinality(OwnBelow(pid + 1)) \in Nat
      <4>1. pid + 1 \in Nat /\ pid < pid + 1 /\ pid <= pid + 1
        BY <1>1
      <4> QED BY <1>1, <2>2, <3>1, <4>1, OwnCount
    <3>3. held <= 1 + Cardinality(OwnBelow(pid))
      BY <3>1 DEF HeldInv
    <3>4. held' <= 1 + Cardinality(OwnBelow(pid + 1))
      BY <1>1, <2>2, <3>2, <3>3
    <3> QED BY <2>2, <3>4 DEF HeldInv, OwnBelow
  <2> QED BY <1>4, <2>1, <2>2 DEF OpenFds, Keep, Return
<1>5. CASE GetCommand \/ GetUser \/ SpecialCall \/ OpenMaps \/ ReadMaps \/ MapLine
  <2>1. UNCHANGED <<pid, held>> /\ pc \notin {"readdir", "fds", "fd", "done"}
    <3>1. CASE SpecialCall
      BY <3>1, SpecialCases DEF SpecialCall, SpecialEffect, LeaveOut, Return
    <3>2. CASE MapLine
      BY <3>2 DEF MapLine
    <3> QED BY <1>5, <3>1, <3>2 DEF GetCommand, GetUser, OpenMaps, ReadMaps, LeaveOut, Return
  <2> QED BY <1>2, <2>1
<1>6. CASE NextFd \/ FdCall
  <2>1. UNCHANGED <<pid, held>> /\ pc' \in {"readdir", "fds", "fd"}
    <3>1. CASE NextFd
      BY <3>1 DEF NextFd, Keep, Return
    <3>2. CASE FdCall
      BY <1>1, <3>2, FdCases DEF FdCall, FdEffect, Keep, Return
    <3> QED BY <1>6, <3>1, <3>2
  <2> QED BY <1>2, <2>1
<1>7. CASE UNCHANGED scanner
  BY <1>2, <1>7 DEF scanner
<1>8. CASE World
  BY <1>7, <1>8, WorldTypes, TypeParts
<1> QED BY <1>3, <1>4, <1>5, <1>6, <1>7, <1>8 DEF Next, Step, Output, vars

\* Both hold before the scan.
LEMMA AscendingInit ==
  Init => Ascending /\ HeldInv
<1> SUFFICES ASSUME Init PROVE Ascending /\ HeldInv
  OBVIOUS
<1>1. Ascending
  BY DEF Init, Ascending
<1>2. held = 1 /\ pid = 0 /\ pc = "readdir" /\ pid + 1 \in Nat
  BY DEF Init
<1>3. Cardinality(OwnBelow(pid + 1)) \in Nat
  BY <1>2, OwnCount
<1> QED BY <1>1, <1>2, <1>3 DEF HeldInv

-----------------------------------------------------------------------------
(* The descriptors of a process.                                           *)

HasFd(s, fd) == \E i \in DOMAIN s : s[i].kind = "fd" /\ s[i].fd = fd

NoFds(s) == \A fd \in Fds : ~HasFd(s, fd)

\* A descriptor that has been open since the scan began and never touched.
Stays(p, fd) == <<p, fd>> \in steady

AllShown(p, s) == \A fd \in Fds : Stays(p, fd) => HasFd(s, fd)

\* None of its descriptors went away, or changed.
Calm(p) ==
  \A fd \in Fds : \/ opened[p][fd] = <<>>
                  \/ Len(opened[p][fd]) = 1 /\ fdt[p][fd] # None

\* FdsWhole of one process, with the rows that are listed, or would be.
Whole(p, s) ==
  Access[p] = "own" /\ s # <<>> =>
    /\ AllShown(p, s) \/ NoFds(s)
    /\ Calm(p) /\ Sufficient(p) => AllShown(p, s)

SteadyTrue == \A p \in Pids : \A fd \in Fds : Stays(p, fd) => fdt[p][fd] # None

\* In the directory of the descriptors none that stays is left out: it has been
\* listed, is being listed, has been read, or comes after what has been read.
Reached ==
  pc \in {"fds", "fd"} =>
    \A fd \in Fds : Stays(pid, fd) =>
      \/ HasFd(fdFiles, fd)
      \/ pc = "fd" /\ fd = row.fd
      \/ fd \in entries
      \/ row.fd < fd /\ \A e \in entries : e < fd

FdsInv == SteadyTrue /\ Reached /\ NoFds(files) /\ \A p \in Pids : Whole(p, table[p])

\* The world only takes descriptors out of those that stay.
LEMMA SteadyWorld ==
  ASSUME TypeOK, WorldTrue, SteadyTrue, World
  PROVE  steady' \subseteq steady /\ SteadyTrue'
<1>0. WorldOK
  BY TypeParts
<1>1. ASSUME NEW p \in Pids, Begin(p) PROVE steady' \subseteq steady /\ SteadyTrue'
  <2>1. \A fd \in Fds : ~Stays(p, fd)
    BY <1>1 DEF Begin, WorldTrue, SteadyTrue
  <2>2. \A q \in Pids : q # p => fdt'[q] = fdt[q]
    BY <1>0, <1>1 DEF Begin, WorldOK
  <2>3. steady' = steady
    BY <1>1 DEF Begin
  <2> QED BY <2>1, <2>2, <2>3 DEF SteadyTrue, Stays
<1>2. ASSUME NEW p \in Pids, Exit(p) PROVE steady' \subseteq steady /\ SteadyTrue'
  <2>1. steady' = {x \in steady : x[1] # p}
    BY <1>2 DEF Exit
  <2>2. \A q \in Pids : q # p => fdt'[q] = fdt[q]
    BY <1>0, <1>2 DEF Exit, WorldOK
  <2>3. \A q \in Pids : \A fd \in Fds : <<q, fd>> \in steady' => q # p /\ <<q, fd>> \in steady
    BY <2>1
  <2> QED BY <2>1, <2>2, <2>3 DEF SteadyTrue, Stays
<1>3. ASSUME NEW p \in Pids, NEW fd \in Fds, NEW f, SetFd(p, fd, f)
      PROVE  steady' \subseteq steady /\ SteadyTrue'
  <2>1. steady' = steady \ {<<p, fd>>}
    BY <1>3 DEF SetFd
  <2>2. \A q \in Pids : \A e \in Fds : q # p \/ e # fd => fdt'[q][e] = fdt[q][e]
    BY <1>0, <1>3 DEF SetFd, WorldOK
  <2>3. \A q \in Pids : \A e \in Fds :
          <<q, e>> \in steady' => (q # p \/ e # fd) /\ <<q, e>> \in steady
    BY <2>1
  <2> QED BY <2>1, <2>2, <2>3 DEF SteadyTrue, Stays
<1>4. CASE UNCHANGED <<fdt, steady>>
  BY <1>4 DEF SteadyTrue, Stays
<1> QED BY <1>1, <1>2, <1>3, <1>4 DEF World, Reap, Unlink

\* A process that is calm now has been so.
LEMMA CalmBefore ==
  ASSUME WorldOK, NEW p \in Pids, Grown(p), Calm(p)'
  PROVE  Calm(p)
<1> SUFFICES ASSUME NEW fd \in Fds
             PROVE  \/ opened[p][fd] = <<>>
                    \/ Len(opened[p][fd]) = 1 /\ fdt[p][fd] # None
  BY DEF Calm
<1>1. opened'[p][fd] = <<>> \/ (Len(opened'[p][fd]) = 1 /\ fdt'[p][fd] # None)
  BY DEF Calm
<1>2. PICK s \in Seq(Files) : s = opened[p][fd]
  BY DEF WorldOK
<1>3. CASE opened'[p][fd] = s /\ fdt'[p][fd] \in {fdt[p][fd], None}
  BY <1>1, <1>2, <1>3
<1>4. CASE \E f \in Files : opened'[p][fd] = Append(s, f)
  <2>1. opened'[p][fd] # <<>> /\ (s # <<>> => Len(opened'[p][fd]) # 1)
    BY <1>2, <1>4, AppendProperties, LongerHistory
  <2> QED BY <1>1, <1>2, <2>1
<1> QED BY <1>2, <1>3, <1>4 DEF Grown

\* The world's own steps.
LEMMA FdsWorld ==
  ASSUME TypeOK, WorldTrue, Begun, FdsInv, World
  PROVE  FdsInv'
<1>1. /\ WorldOK /\ \A p \in Pids : proc[p] # "none" => Grown(p)
      /\ UNCHANGED <<pc, todo, pid, row, call, lines, entries, files, fdFiles, table>>
      /\ steady' \subseteq steady /\ SteadyTrue'
  BY TypeParts, WorldGrows, WorldTypes, SteadyWorld DEF FdsInv, scanner, locals
<1>2. \A p, fd : Stays(p, fd)' => Stays(p, fd)
  BY <1>1 DEF Stays
<1>3. Reached'
  BY <1>1, <1>2 DEF FdsInv, Reached, HasFd, Stays
<1>4. ASSUME NEW p \in Pids PROVE Whole(p, table[p])'
  <2>1. PICK s : s = table[p] /\ s = table'[p]
    BY <1>1
  <2>2. Whole(p, s)
    BY <2>1 DEF FdsInv
  <2>3. ASSUME s # <<>> PROVE Calm(p)' => Calm(p)
    BY <1>1, <2>1, <2>3, CalmBefore DEF Begun
  <2>4. Whole(p, s)'
    BY <1>2, <2>2, <2>3 DEF Whole, AllShown
  <2> QED BY <2>1, <2>4 DEF Whole, AllShown, NoFds, HasFd
<1>5. NoFds(files)'
  BY <1>1 DEF FdsInv, NoFds, HasFd
<1> QED BY <1>1, <1>3, <1>4, <1>5 DEF FdsInv

\* A row that is added,
LEMMA AppendFd ==
  ASSUME NEW S, NEW s \in Seq(S), NEW r \in S, NEW fd
  PROVE  HasFd(Append(s, r), fd) <=> HasFd(s, fd) \/ (r.kind = "fd" /\ r.fd = fd)
<1> DEFINE a == Append(s, r)
<1>1. /\ Len(s) \in Nat /\ DOMAIN s = 1 .. Len(s) /\ DOMAIN a = 1 .. Len(s) + 1
      /\ a[Len(s) + 1] = r /\ \A i \in 1 .. Len(s) : a[i] = s[i]
  BY AppendProperties, LenProperties
<1> HIDE DEF a
<1>2. \A i \in 1 .. Len(s) + 1 : i \in 1 .. Len(s) \/ i = Len(s) + 1
  BY <1>1
<1>3. 1 .. Len(s) \subseteq 1 .. Len(s) + 1 /\ Len(s) + 1 \in 1 .. Len(s) + 1
  BY <1>1
<1>4. HasFd(a, fd) <=> HasFd(s, fd) \/ (r.kind = "fd" /\ r.fd = fd)
  BY <1>1, <1>2, <1>3 DEF HasFd
<1> QED BY <1>4 DEF a

\* and rows that follow others.
LEMMA ConcatFd ==
  ASSUME NEW S, NEW s \in Seq(S), NEW t \in Seq(S), NEW fd, HasFd(t, fd)
  PROVE  HasFd(s \o t, fd)
<1> DEFINE c == s \o t
<1>1. /\ Len(s) \in Nat /\ Len(t) \in Nat /\ DOMAIN t = 1 .. Len(t)
      /\ DOMAIN c = 1 .. Len(s) + Len(t)
      /\ \A i \in 1 .. Len(s) + Len(t) : c[i] = IF i <= Len(s) THEN s[i] ELSE t[i - Len(s)]
  BY ConcatProperties, LenProperties
<1> HIDE DEF c
<1>2. PICK j \in 1 .. Len(t) : t[j].kind = "fd" /\ t[j].fd = fd
  BY <1>1 DEF HasFd
<1>3. Len(s) + j \in DOMAIN c /\ c[Len(s) + j] = t[j]
  <2>1. Len(s) + j \in 1 .. Len(s) + Len(t) /\ ~(Len(s) + j <= Len(s)) /\ Len(s) + j - Len(s) = j
    BY <1>1
  <2> QED BY <1>1, <2>1
<1>4. HasFd(c, fd)
  BY <1>2, <1>3 DEF HasFd
<1> QED BY <1>4 DEF c

\* A step that pushes nothing.
LEMMA SameFds ==
  ASSUME FdsInv, UNCHANGED world, UNCHANGED table, NoFds(files'), Reached'
  PROVE  FdsInv'
<1>1. UNCHANGED <<fdt, opened, steady>>
  BY DEF world
<1>2. SteadyTrue'
  BY <1>1 DEF FdsInv, SteadyTrue, Stays
<1>3. \A p \in Pids : Whole(p, table[p])'
  <2>1. \A p \in Pids : Whole(p, table[p])
    BY DEF FdsInv
  <2> QED BY <1>1, <2>1 DEF Whole, Calm, AllShown, Stays, NoFds, HasFd
<1> QED BY <1>2, <1>3 DEF FdsInv, NoFds, HasFd

\* A visit that ends.
LEMMA ReturnFds ==
  ASSUME ScannerOK, FdsInv, UNCHANGED world, NEW rows,
         LeaveOut \/ (Keep(rows) /\ Whole(pid, rows))
  PROVE  FdsInv'
<1>1. /\ pc' = "readdir" /\ files' = <<>>
      /\ table' = table \/ (table' = [table EXCEPT ![pid] = rows] /\ Whole(pid, rows))
  BY DEF LeaveOut, Keep, Return
<1>2. UNCHANGED <<fdt, opened, steady>>
  BY DEF world
<1>3. SteadyTrue' /\ Reached'
  BY <1>1, <1>2 DEF FdsInv, SteadyTrue, Reached, Stays
<1>4. NoFds(files)'
  BY <1>1 DEF NoFds, HasFd
<1>5. ASSUME NEW p \in Pids PROVE Whole(p, table[p])'
  <2>1. PICK s : s = table'[p]
    OBVIOUS
  <2>2. Whole(p, s)
    <3>1. CASE table'[p] = table[p]
      BY <2>1, <3>1 DEF FdsInv
    <3>2. CASE p = pid /\ table'[p] = rows /\ Whole(pid, rows)
      BY <2>1, <3>2
    <3> QED BY <1>1, <3>1, <3>2 DEF ScannerOK
  <2>3. Whole(p, s)'
    BY <1>2, <2>2 DEF Whole, Calm, AllShown, Stays
  <2> QED BY <2>1, <2>3 DEF Whole, AllShown, NoFds, HasFd
<1> QED BY <1>3, <1>4, <1>5 DEF FdsInv

\* What comes before the directory of the descriptors adds no row of one.
LEMMA BeforeFds ==
  ASSUME TypeOK, VisitOK, FdsInv, UNCHANGED world,
         NextPid \/ GetCommand \/ GetUser \/ SpecialCall \/ OpenMaps \/ ReadMaps \/ MapLine
  PROVE  FdsInv'
<1>1. ScannerOK /\ NoFds(files)
  BY TypeParts DEF FdsInv
<1>2. CASE LeaveOut
  BY <1>1, <1>2, ReturnFds
<1>3. ASSUME pc' \notin {"fds", "fd"}, table' = table, NEW r, r.kind # "fd",
             files' = files \/ files' = Append(files, r)
      PROVE  FdsInv'
  <2>1. files \in Seq(ListRow \cup {r})
    BY <1>1 DEF ScannerOK
  <2>2. NoFds(files')
    <3>1. r \in ListRow \cup {r}
      OBVIOUS
    <3>2. NoFds(Append(files, r))
      BY <1>1, <1>3, <2>1, <3>1, AppendFd DEF NoFds
    <3> QED BY <1>1, <1>3, <3>2
  <2>3. Reached'
    BY <1>3 DEF Reached
  <2> QED BY <1>3, <2>2, <2>3, SameFds
<1>4. CASE pc' \notin {"fds", "fd"} /\ UNCHANGED <<files, table>>
  <2>1. NoFds(files') /\ Reached'
    BY <1>1, <1>4 DEF NoFds, Reached
  <2> QED BY <1>4, <2>1, SameFds
<1>5. CASE SpecialCall
  <2>1. pc = "special" /\ SpecialEffect /\ row \in PartRow /\ row.kind \in Kinds
    BY <1>5, SpecialCases DEF SpecialCall, VisitOK, RowOK
  <2>2. PICK r : r = [row EXCEPT !.node = Cell("node")]
    OBVIOUS
  <2>3. r.kind # "fd"
    BY <2>1, <2>2 DEF PartRow, Kinds
  <2>4. CASE pc' \in {"maps", pc} /\ files' = Append(files, r) /\ table' = table
    BY <1>3, <2>1, <2>3, <2>4
  <2>5. CASE pc' = pc /\ UNCHANGED <<files, table>>
    BY <1>4, <2>1, <2>5
  <2> QED BY <1>2, <2>1, <2>2, <2>4, <2>5 DEF SpecialEffect
<1>6. CASE MapLine
  <2>1. pc' = "map" /\ table' = table
    BY <1>6 DEF MapLine
  <2>2. CASE UNCHANGED files
    BY <1>4, <2>1, <2>2
  <2>3. ASSUME NEW f \in Files, NEW r, Mapped(r, f) PROVE FdsInv'
    BY <1>3, <2>1, <2>3 DEF Mapped
  <2> QED BY <1>6, <2>2, <2>3, MapEffect
<1>7. CASE NextPid \/ GetCommand \/ GetUser \/ OpenMaps \/ ReadMaps
  BY <1>2, <1>4, <1>7 DEF NextPid, GetCommand, GetUser, OpenMaps, ReadMaps, locals
<1> QED BY <1>5, <1>6, <1>7

\* The rows without the descriptors are a whole list only of a process that has
\* none, or has lost one.
LEMMA WithoutFds ==
  ASSUME NEW p, NEW s, NoFds(s),
         Calm(p) /\ Sufficient(p) => \A fd \in Fds : ~Stays(p, fd)
  PROVE  Whole(p, s)
BY DEF Whole, AllShown

\* The directory is opened.
LEMMA OpenFdsWhole ==
  ASSUME TypeOK, VisitOK, WorldTrue, Begun, Ascending, HeldInv, FdsInv, UNCHANGED world, OpenFds
  PROVE  FdsInv'
<1>1. /\ ScannerOK /\ pc = "map" /\ pid \in Pids /\ proc[pid] # "none" /\ NoFds(files)
      /\ row.fd = -1 /\ entries = {} /\ lines = <<>>
  BY TypeParts DEF OpenFds, VisitOK, Begun, Ascending, FdsInv
<1>2. ASSUME Keep(files), ~Room \/ proc[pid] # "alive" \/ Denied(pid)
      PROVE  FdsInv'
  <2>1. CASE Access[pid] # "own"
    <3>1. Whole(pid, files)
      BY <2>1 DEF Whole
    <3> QED BY <1>1, <1>2, <3>1, ReturnFds
  <2>2. CASE Access[pid] = "own"
    <3>1. Sufficient(pid) => proc[pid] # "alive"
      <4>1. ~Denied(pid)
        BY <2>2 DEF Denied
      <4>2. Sufficient(pid) => Room
        BY <1>1, RoomLeft
      <4> QED BY <1>2, <4>1, <4>2
    <3>2. proc[pid] # "alive" => \A fd \in Fds : ~Stays(pid, fd)
      BY <1>1 DEF FdsInv, SteadyTrue, WorldTrue
    <3>3. Whole(pid, files)
      BY <1>1, <3>1, <3>2, WithoutFds
    <3> QED BY <1>1, <1>2, <3>3, ReturnFds
  <2> QED BY <2>1, <2>2
<1>3. CASE pc' = "fds" /\ UNCHANGED <<pid, locals, table>>
  <2>1. UNCHANGED <<row, entries, files, fdFiles, steady>>
    BY <1>3 DEF locals, world
  <2>2. \A fd \in Fds : -1 < fd
    <3>1. Fds \subseteq Nat
      BY ScanAssumption
    <3> QED BY <3>1
  <2>3. Reached'
    BY <1>1, <1>3, <2>1, <2>2 DEF Reached
  <2>4. NoFds(files')
    BY <1>1, <2>1 DEF NoFds
  <2> QED BY <1>3, <2>3, <2>4, SameFds
<1> QED BY <1>2, <1>3 DEF OpenFds

\* The directory is read: what is in it and stays is the next entry or comes
\* later; at its end all that stay have been listed.
LEMMA NextFdWhole ==
  ASSUME TypeOK, VisitOK, Ascending, FdsInv, UNCHANGED world, NextFd
  PROVE  FdsInv'
<1>1. ScannerOK /\ pc = "fds" /\ pid \in Pids /\ NoFds(files) /\ SteadyTrue /\ Fds \subseteq Nat
  BY TypeParts, ScanAssumption DEF NextFd, VisitOK, FdsInv
<1>2. PICK there, last, block :
        /\ there = {fd \in Fds : fdt[pid][fd] # None} /\ last = row.fd
        /\ block \in Block(entries, there, last)
        /\ IF block = {} THEN Keep(files \o fdFiles)
           ELSE /\ row' = [NoRow EXCEPT !.kind = "fd", !.fd = Least(block)]
                /\ entries' = block \ {Least(block)}
                /\ pc' = "fd"
                /\ UNCHANGED <<todo, pid, call, lines, files, fdFiles, pool, table, held>>
  BY DEF NextFd
<1>3. last \in Int
  <2>1. row.fd \in Fds \cup {-1} /\ Fds \subseteq Int /\ -1 \in Int
    BY <1>1 DEF VisitOK, RowOK, PartRow
  <2> QED BY <1>2, <2>1, Zenon
<1>4. /\ entries \subseteq block /\ block \subseteq Nat
      /\ \A x \in there :
           last < x /\ (\A y \in entries : y < x) =>
             block # {} /\ (x \in block \/ \A y \in block : y < x)
  <2>1. entries \subseteq Nat /\ there \subseteq Nat
    BY <1>1, <1>2 DEF ScannerOK
  <2>2. \A x \in entries : last < x
    BY <1>2 DEF Ascending
  <2>3. block \subseteq entries \cup there
    BY <1>2, BlockIn
  <2>4. Follows(block, entries, there, last)
    BY <1>2, <1>3, <2>1, <2>2, BlockNext
  <2> QED BY <2>1, <2>3, <2>4 DEF Follows
<1>5. \A fd \in Fds : Stays(pid, fd) =>
        \/ HasFd(fdFiles, fd)
        \/ block # {} /\ (fd \in block \/ \A y \in block : y < fd)
  <2> SUFFICES ASSUME NEW fd \in Fds, Stays(pid, fd), ~HasFd(fdFiles, fd)
               PROVE  block # {} /\ (fd \in block \/ \A y \in block : y < fd)
    OBVIOUS
  <2>1. fd \in there
    BY <1>1, <1>2 DEF SteadyTrue
  <2>2. fd \in entries \/ (last < fd /\ \A e \in entries : e < fd)
    BY <1>1, <1>2 DEF FdsInv, Reached
  <2> QED BY <1>4, <2>1, <2>2
<1>6. CASE block = {}
  <2>1. FdRow \subseteq ListRow
    BY DEF FdRow, ListRow, RowType
  <2>2. files \in Seq(ListRow) /\ fdFiles \in Seq(ListRow)
    BY <1>1, <2>1 DEF ScannerOK
  <2>3. AllShown(pid, files \o fdFiles)
    BY <1>5, <1>6, <2>2, ConcatFd DEF AllShown
  <2>4. Whole(pid, files \o fdFiles)
    BY <2>3 DEF Whole
  <2> QED BY <1>1, <1>2, <1>6, <2>4, ReturnFds
<1>7. CASE block # {}
  <2>1. PICK m \in Nat : m = Least(block) /\ m \in block /\ \A n \in block \ {m} : m < n
    BY <1>4, <1>7, LeastBelow
  <2>2. /\ row'.fd = m /\ entries' = block \ {m} /\ pc' = "fd"
        /\ UNCHANGED <<pid, files, fdFiles, table, steady>>
    BY <1>2, <1>7, <2>1 DEF NoRow, world
  <2>3. Reached'
    <3> SUFFICES ASSUME NEW fd \in Fds, Stays(pid, fd), ~HasFd(fdFiles, fd)
                 PROVE  \/ fd = m \/ fd \in entries'
                        \/ m < fd /\ \A e \in entries' : e < fd
      BY <2>2 DEF Reached, Stays, HasFd
    <3> QED BY <1>5, <2>1, <2>2
  <2>4. NoFds(files')
    BY <1>1, <2>2 DEF NoFds
  <2> QED BY <2>2, <2>3, <2>4, SameFds
<1> QED BY <1>6, <1>7

\* One call on a descriptor: the row of it, or, if it is gone, none of any.
LEMMA FdCallWhole ==
  ASSUME TypeOK, VisitOK, TrueInv, FdsInv, UNCHANGED world, FdCall
  PROVE  FdsInv'
<1>1. /\ ScannerOK /\ pc = "fd" /\ pid \in Pids /\ NoFds(files)
      /\ row \in PartRow /\ row.kind = "fd" /\ row.fd \in Fds
  BY TypeParts DEF FdCall, VisitOK, RowOK, FdsInv
<1>2. CASE Keep(files)
  <2>1. Cell("name") = None \/ ~Keep(files)
    BY <1>1 DEF FdCall, Err, Keep, Return
  <2>2. fdt[pid][row.fd] = None /\ opened[pid][row.fd] # <<>>
    BY <1>1, <1>2, <2>1, FdCells DEF TrueInv, FdPart
  <2>3. ~Calm(pid)
    BY <1>1, <2>2 DEF Calm
  <2>4. Whole(pid, files)
    BY <1>1, <2>3, WithoutFds
  <2> QED BY <1>1, <1>2, <2>4, ReturnFds
<1>3. UNCHANGED steady
  BY DEF world
<1>4. ASSUME NEW x, row' \in {[row EXCEPT !.mode = x], [row EXCEPT !.type = x], [row EXCEPT !.node = x]},
             UNCHANGED <<pc, pid, entries, files, fdFiles, table>>
      PROVE  FdsInv'
  <2>1. row'.fd = row.fd
    BY <1>1, <1>4 DEF PartRow
  <2>2. Reached'
    BY <1>1, <1>3, <1>4, <2>1 DEF FdsInv, Reached, Stays, HasFd
  <2>3. NoFds(files')
    BY <1>1, <1>4 DEF NoFds
  <2> QED BY <1>4, <2>2, <2>3, SameFds
<1>5. PICK r : r = [row EXCEPT !.name = Cell("name")]
  OBVIOUS
<1>6. CASE /\ pc' = "fds" /\ row' = r /\ fdFiles' = Append(fdFiles, r)
           /\ UNCHANGED <<pid, entries, files, table>>
  <2>1. r.kind = "fd" /\ r.fd = row.fd
    BY <1>1, <1>5 DEF PartRow
  <2>2. fdFiles \in Seq(FdRow \cup {r})
    BY <1>1 DEF ScannerOK
  <2>3. \A fd : HasFd(fdFiles', fd) <=> HasFd(fdFiles, fd) \/ fd = row.fd
    BY <1>6, <2>1, <2>2, AppendFd
  <2>4. Reached'
    <3> SUFFICES ASSUME NEW fd \in Fds, Stays(pid, fd)
                 PROVE  \/ HasFd(fdFiles', fd)
                        \/ fd \in entries
                        \/ row.fd < fd /\ \A e \in entries : e < fd
      BY <1>3, <1>6, <2>1 DEF Reached, Stays
    <3> QED BY <1>1, <2>3 DEF FdsInv, Reached
  <2>5. NoFds(files')
    BY <1>1, <1>6 DEF NoFds
  <2> QED BY <1>6, <2>4, <2>5, SameFds
<1> QED BY <1>1, <1>2, <1>4, <1>5, <1>6, FdCases DEF FdEffect

\* The inductive step.
LEMMA FdsStep ==
  /\ TypeOK /\ VisitOK /\ TrueInv /\ Ascending /\ HeldInv /\ FdsInv
  /\ [Next]_vars
  => FdsInv'
<1> SUFFICES ASSUME TypeOK, VisitOK, TrueInv, Ascending, HeldInv, FdsInv, [Next]_vars
             PROVE  FdsInv'
  OBVIOUS
<1>1. WorldTrue /\ Begun
  BY DEF TrueInv
<1>2. CASE Step /\ UNCHANGED world
  BY <1>1, <1>2, BeforeFds, OpenFdsWhole, NextFdWhole, FdCallWhole DEF Step
<1>3. CASE World
  BY <1>1, <1>3, FdsWorld
<1>4. CASE UNCHANGED vars
  <2>1. /\ UNCHANGED world
        /\ UNCHANGED <<pc, pid, row, entries, files, fdFiles, table, steady>>
    BY <1>4 DEF vars, world, scanner, locals
  <2>2. NoFds(files') /\ Reached'
    BY <2>1 DEF FdsInv, NoFds, Reached, Stays, HasFd
  <2> QED BY <2>1, <2>2, SameFds
<1> QED BY <1>2, <1>3, <1>4 DEF Next, Output, vars

\* What stays is open at first.
LEMMA FdsInit ==
  Init => FdsInv
<1> SUFFICES ASSUME Init PROVE FdsInv
  OBVIOUS
<1>1. /\ steady = {x \in Pids \X Fds : fdt[x[1]][x[2]] # None}
      /\ pc = "readdir" /\ files = <<>> /\ table = [p \in Pids |-> <<>>]
  BY DEF Init
<1>2. SteadyTrue
  BY <1>1 DEF SteadyTrue, Stays
<1> QED BY <1>1, <1>2 DEF FdsInv, Reached, NoFds, HasFd, Whole

\* What is known of the scan at any time.
ListInv == TypeOK /\ VisitOK /\ TrueInv /\ Ascending /\ HeldInv /\ FdsInv

\* The inductive invariant of the descriptors.
LEMMA ListAlways == Spec => []ListInv
<1>1. Init => ListInv
  BY TypesInit, TrueInit, AscendingInit, FdsInit DEF ListInv
<1>2. ListInv /\ [Next]_vars => ListInv'
  BY TypesStep, TrueStep, AscendingStep, HeldStep, FdsStep DEF ListInv
<1> QED BY <1>1, <1>2, PTL DEF Spec

\* FdsWhole: a process is listed with all the descriptors that stay open or with
\* none, and with all if it loses none, however the directory is read in blocks
\* and whatever is opened and closed meanwhile.
THEOREM DescriptorsWhole == Spec => []FdsWhole
<1>1. ASSUME ListInv, NEW p \in Pids, Rows(p) # {}, Access[p] = "own"
      PROVE  LET stay  == {fd \in Fds : <<p, fd>> \in steady}
                 shown == {r.fd : r \in {x \in Rows(p) : x.kind = "fd"}}
                 calm  == \A fd \in Fds : \/ opened[p][fd] = <<>>
                                          \/ Len(opened[p][fd]) = 1 /\ fdt[p][fd] # None
             IN  /\ stay \cap shown \in {{}, stay}
                 /\ calm /\ Sufficient(p) => stay \subseteq shown
  <2> DEFINE stay  == {fd \in Fds : <<p, fd>> \in steady}
             shown == {r.fd : r \in {x \in Rows(p) : x.kind = "fd"}}
  <2>1. PICK s : s = table[p] /\ s # <<>>
    BY <1>1 DEF Rows, RangeOf
  <2>2. Whole(p, s)
    BY <1>1, <2>1 DEF ListInv, FdsInv
  <2>3. \A fd : fd \in shown <=> HasFd(s, fd)
    BY <2>1 DEF Rows, RangeOf, HasFd
  <2>4. \A fd : fd \in stay <=> fd \in Fds /\ Stays(p, fd)
    BY DEF Stays
  <2> HIDE DEF stay, shown
  <2>5. AllShown(p, s) => stay \subseteq shown
    BY <2>3, <2>4 DEF AllShown
  <2>6. NoFds(s) => stay \cap shown = {}
    BY <2>3, <2>4 DEF NoFds
  <2>7. stay \cap shown \in {{}, stay}
    BY <1>1, <2>1, <2>2, <2>5, <2>6 DEF Whole
  <2>8. Calm(p) /\ Sufficient(p) => stay \subseteq shown
    BY <1>1, <2>1, <2>2, <2>5 DEF Whole
  <2> QED BY <2>7, <2>8 DEF stay, shown, Calm
<1>2. ListInv => FdsWhole
  BY <1>1 DEF FdsWhole
<1> QED BY <1>2, ListAlways, PTL

-----------------------------------------------------------------------------
(* No process of the user is lost.                                         *)

HasKind(s, kind) == \E i \in DOMAIN s : s[i].kind = kind

HasMap(s, f) == \E i \in DOMAIN s : IsMap(s[i]) /\ s[i].name = f

\* The rows a process must have.
Full(p, s) ==
  /\ \A kind \in Kinds : HasKind(s, kind)
  /\ \A f \in RangeOf(Maps[p]) : HasMap(s, f)

\* A process that must be listed.
Due(p) ==
  p \in Alive0 \cap Named /\ proc[p] = "alive" /\ Access[p] = "own" /\ Sufficient(p)

\* Its visit is over.
Finished(p) == p < pid \/ (p = pid /\ pc \in {"readdir", "done"})

\* In /proc none that is there from the beginning is left out.
Passed ==
  /\ pc = "done" => todo = {}
  /\ \A p \in Alive0 :
       /\ proc[p] # "none"
       /\ proc[p] = "alive" =>
            p <= pid \/ p \in todo \/ (pc # "done" /\ \A q \in todo : q < p)

\* The links are read one after the other, and all of them.
Links ==
  /\ pc = "special" =>
       /\ row.kind # "cwd" => HasKind(files, "cwd")
       /\ row.kind = "txt" => HasKind(files, "rtd")
  /\ pc \in {"maps", "lines", "map", "fds", "fd"} => \A kind \in Kinds : HasKind(files, kind)

\* What is in the pool has a row: it is emptied before a visit.
PoolRows ==
  pc \notin {"readdir", "done"} =>
    \A x \in pool : \E i \in DOMAIN files : IsMap(files[i]) /\ files[i].node = x

\* A mapped file has a row, or a line that is not used yet.
MapsRead ==
  pc \in {"map", "fds", "fd"} /\ Due(pid) =>
    \A f \in RangeOf(Maps[pid]) :
      HasMap(files, f) \/ \E i \in DOMAIN lines : lines[i].file = f

FullInv ==
  /\ Passed /\ Links /\ PoolRows /\ MapsRead
  /\ \A p \in Pids : Due(p) /\ Finished(p) => Full(p, table[p])

\* inode_pool does not look at devices: the files that a process has mapped, and
\* its program, must have inode numbers of their own.
NodesDiffer ==
  \A p \in Pids : \A f, g \in RangeOf(Maps[p]) \cup {Special[p]["txt"]} :
    Node[f] = Node[g] => f = g

\* A row that is added, or that follows others, takes none away.
LEMMA AppendHas ==
  ASSUME NEW S, NEW s \in Seq(S), NEW r \in S
  PROVE  /\ \A kind : HasKind(s, kind) => HasKind(Append(s, r), kind)
         /\ \A f : HasMap(s, f) => HasMap(Append(s, r), f)
         /\ \A x : (\E i \in DOMAIN s : IsMap(s[i]) /\ s[i].node = x) =>
                      \E i \in DOMAIN Append(s, r) :
                        IsMap(Append(s, r)[i]) /\ Append(s, r)[i].node = x
         /\ HasKind(Append(s, r), r.kind)
         /\ IsMap(r) => /\ HasMap(Append(s, r), r.name)
                        /\ \E i \in DOMAIN Append(s, r) :
                             IsMap(Append(s, r)[i]) /\ Append(s, r)[i].node = r.node
<1> DEFINE a == Append(s, r)
<1>1. /\ Len(s) \in Nat /\ DOMAIN s = 1 .. Len(s) /\ DOMAIN a = 1 .. Len(s) + 1
      /\ a[Len(s) + 1] = r /\ \A i \in 1 .. Len(s) : a[i] = s[i]
  BY AppendProperties, LenProperties
<1> HIDE DEF a
<1>2. /\ \A i \in DOMAIN s : i \in DOMAIN a /\ a[i] = s[i]
      /\ \E i \in DOMAIN a : a[i] = r
  BY <1>1
<1>3. /\ \A kind : HasKind(s, kind) => HasKind(a, kind)
      /\ HasKind(a, r.kind)
  BY <1>2 DEF HasKind
<1>4. /\ \A f : HasMap(s, f) => HasMap(a, f)
      /\ IsMap(r) => HasMap(a, r.name)
  BY <1>2 DEF HasMap
<1>5. /\ \A x : (\E i \in DOMAIN s : IsMap(s[i]) /\ s[i].node = x) =>
                   \E i \in DOMAIN a : IsMap(a[i]) /\ a[i].node = x
      /\ IsMap(r) => \E i \in DOMAIN a : IsMap(a[i]) /\ a[i].node = r.node
  BY <1>2
<1> QED BY <1>3, <1>4, <1>5 DEF a

\* The same for a list.
LEMMA ConcatFull ==
  ASSUME NEW S, NEW s \in Seq(S), NEW t \in Seq(S), NEW p, Full(p, s)
  PROVE  Full(p, s \o t)
<1> DEFINE c == s \o t
<1>1. /\ Len(s) \in Nat /\ Len(t) \in Nat /\ DOMAIN s = 1 .. Len(s)
      /\ DOMAIN c = 1 .. Len(s) + Len(t)
      /\ \A i \in 1 .. Len(s) + Len(t) : c[i] = IF i <= Len(s) THEN s[i] ELSE t[i - Len(s)]
  BY ConcatProperties, LenProperties
<1> HIDE DEF c
<1>2. \A i \in DOMAIN s : i \in DOMAIN c /\ c[i] = s[i]
  BY <1>1
<1>3. Full(p, c)
  BY <1>2 DEF Full, HasKind, HasMap
<1> QED BY <1>3 DEF c

\* The world's own steps: a process that is due now has been so.
LEMMA FullWorld ==
  ASSUME TypeOK, WorldTrue, FullInv, World
  PROVE  FullInv'
<1>1. /\ \A p \in Pids : proc[p] # "none" => Grown(p)
      /\ UNCHANGED <<pc, todo, pid, row, call, lines, entries, files, fdFiles, pool, table>>
  BY TypeParts, WorldGrows, WorldTypes DEF scanner, locals
<1>2. ASSUME NEW p \in Alive0
      PROVE  proc'[p] # "none" /\ (proc'[p] = "alive" => proc[p] = "alive")
  <2>1. p \in Pids /\ proc[p] # "none"
    BY ScanAssumption DEF FullInv, Passed
  <2> QED BY <1>1, <2>1 DEF Grown
<1>3. Passed'
  BY <1>1, <1>2 DEF FullInv, Passed
<1>4. \A p : Due(p)' => Due(p)
  BY <1>2 DEF Due
<1>5. Links' /\ PoolRows'
  BY <1>1 DEF FullInv, Links, PoolRows, HasKind
<1>6. MapsRead'
  BY <1>1, <1>2 DEF FullInv, MapsRead, HasMap, Due
<1>7. \A p \in Pids : Due(p)' /\ Finished(p)' => Full(p, table[p])'
  BY <1>1, <1>4 DEF FullInv, Finished, Full, HasKind, HasMap
<1> QED BY <1>3, <1>5, <1>6, <1>7 DEF FullInv

\* A step within a visit.
LEMMA SameFull ==
  ASSUME FullInv, UNCHANGED world, UNCHANGED <<table, todo, pid>>,
         pc' \notin {"readdir", "done"}, Links', PoolRows', MapsRead'
  PROVE  FullInv'
<1>1. proc' = proc
  BY DEF world
<1>2. Passed'
  BY <1>1 DEF FullInv, Passed
<1>3. \A p \in Pids : Due(p)' /\ Finished(p)' => Full(p, table[p])'
  BY <1>1 DEF FullInv, Due, Finished, Full, HasKind, HasMap
<1> QED BY <1>2, <1>3 DEF FullInv

\* A visit that ends: if the process is due, its rows are kept and full.
LEMMA ReturnFull ==
  ASSUME ScannerOK, FullInv, UNCHANGED world, NEW rows,
         LeaveOut \/ Keep(rows), Due(pid) => Keep(rows) /\ Full(pid, rows)
  PROVE  FullInv'
<1>1. /\ pc' = "readdir" /\ UNCHANGED <<todo, pid>>
      /\ table' = table \/ table' = [table EXCEPT ![pid] = rows]
      /\ Due(pid) => table' = [table EXCEPT ![pid] = rows] /\ Full(pid, rows)
  BY DEF LeaveOut, Keep, Return
<1>2. proc' = proc
  BY DEF world
<1>3. Passed' /\ Links' /\ PoolRows' /\ MapsRead'
  BY <1>1, <1>2 DEF FullInv, Passed, Links, PoolRows, MapsRead
<1>4. ASSUME NEW p \in Pids, Due(p)', Finished(p)' PROVE Full(p, table'[p])
  <2>1. Due(p)
    BY <1>2, <1>4 DEF Due
  <2>2. CASE p = pid
    BY <1>1, <2>1, <2>2 DEF ScannerOK
  <2>3. CASE p # pid
    <3>1. table'[p] = table[p] /\ Finished(p)
      BY <1>1, <1>4, <2>3 DEF ScannerOK, Finished
    <3> QED BY <2>1, <3>1 DEF FullInv
  <2> QED BY <2>2, <2>3
<1>5. \A p \in Pids : Due(p)' /\ Finished(p)' => Full(p, table[p])'
  BY <1>4 DEF Full, HasKind, HasMap
<1> QED BY <1>3, <1>5 DEF FullInv

\* The next process of /proc: the one before it is finished.
LEMMA NextPidFull ==
  ASSUME TypeOK, Ascending, FullInv, UNCHANGED world, NextPid
  PROVE  FullInv'
<1>1. /\ ScannerOK /\ pc = "readdir" /\ pid \in Nat /\ Pids \subseteq Nat /\ todo \subseteq Nat
      /\ files = <<>> /\ UNCHANGED <<files, table, proc>>
  <2>1. ScannerOK /\ Pids \subseteq Nat /\ pc = "readdir" /\ UNCHANGED <<files, table, proc>>
    BY TypeParts, ScanAssumption DEF NextPid, locals, world
  <2>2. pid \in Pids \cup {0} /\ todo \subseteq Pids
    BY <2>1 DEF ScannerOK
  <2> QED BY <2>1, <2>2 DEF Ascending
<1>2. PICK there, last, block :
        /\ there = {p \in Pids : There(p)} /\ last = pid
        /\ block \in Block(todo, there, last)
        /\ IF block = {} THEN pc' = "done" /\ UNCHANGED <<todo, pid, pool>>
           ELSE /\ pid' = Least(block) /\ todo' = block \ {Least(block)}
                /\ pool' = NewPool
                /\ pc' = "comm"
  BY DEF NextPid
<1>3. /\ block \subseteq Nat /\ \A x \in block : pid < x
      /\ todo \subseteq block
      /\ \A x \in there :
           pid < x /\ (\A y \in todo : y < x) =>
             block # {} /\ (x \in block \/ \A y \in block : y < x)
  <2>1. there \subseteq Nat /\ last \in Int
    <3>1. there \subseteq Pids
      BY <1>2
    <3>2. last \in Nat
      BY <1>1, <1>2
    <3> QED BY <1>1, <3>1, <3>2
  <2>2. \A x \in todo : last < x
    BY <1>2 DEF Ascending
  <2>3. block \subseteq todo \cup there
    BY <1>2, BlockIn
  <2>4. block \in Block(todo, there, last) /\ todo \subseteq Nat
    BY <1>1, <1>2
  <2>5. Follows(block, todo, there, last)
    BY <2>1, <2>2, <2>4, BlockNext
  <2>6. block \subseteq Nat
    BY <2>1, <2>3, <2>4
  <2> QED BY <1>2, <2>5, <2>6 DEF Follows
<1>4. ASSUME NEW p \in Alive0, proc[p] = "alive"
      PROVE  p \in Nat /\ (p <= pid \/ (block # {} /\ (p \in block \/ \A y \in block : y < p)))
  <2>1. p \in Pids /\ p \in Nat /\ p \in there
    BY <1>1, <1>2, <1>4, ScanAssumption DEF There
  <2>2. p <= pid \/ p \in todo \/ \A q \in todo : q < p
    BY <1>4 DEF FullInv, Passed
  <2>3. p <= pid \/ pid < p
    BY <1>1, <2>1
  <2> QED BY <1>3, <2>1, <2>2, <2>3
<1>5. Links' /\ MapsRead'
  BY <1>2 DEF Links, MapsRead
<1>6. CASE block = {}
  <2>1. Passed'
    BY <1>1, <1>2, <1>3, <1>4, <1>6 DEF FullInv, Passed
  <2>2. \A p \in Pids : Due(p)' /\ Finished(p)' => Full(p, table[p])'
    BY <1>1, <1>2, <1>6 DEF FullInv, Due, Finished, Full, HasKind, HasMap
  <2>3. PoolRows'
    BY <1>2, <1>6 DEF PoolRows
  <2> QED BY <1>5, <2>1, <2>2, <2>3 DEF FullInv
<1>7. CASE block # {}
  <2>1. PICK m \in Nat : m = Least(block) /\ m \in block /\ \A n \in block \ {m} : m < n
    BY <1>3, <1>7, LeastBelow
  <2>2. pid' = m /\ todo' = block \ {m} /\ pool' = {} /\ pc' = "comm"
    BY <1>2, <1>7, <2>1 DEF NewPool
  <2>3. PoolRows'
    BY <2>2 DEF PoolRows
  <2>4. ASSUME NEW p \in Alive0, proc[p] = "alive"
        PROVE  p <= m \/ p \in todo' \/ \A q \in todo' : q < p
    <3>1. PICK n \in Nat : n = pid /\ n < m
      BY <1>1, <1>3, <2>1
    <3>2. p \in Nat /\ (p <= n \/ p \in block \/ \A y \in block : y < p)
      BY <1>4, <2>4, <3>1
    <3>3. p <= n => p <= m
      BY <3>1, <3>2
    <3> QED BY <2>1, <2>2, <3>2, <3>3
  <2>5. Passed'
    BY <1>1, <2>2, <2>4 DEF FullInv, Passed
  <2>6. ASSUME NEW p \in Pids, Due(p)', Finished(p)' PROVE Full(p, table[p])
    <3>1. p < m /\ p \in Nat
      BY <1>1, <2>2, <2>6 DEF Finished
    <3>2. Due(p) /\ p \in Alive0 /\ proc[p] = "alive"
      BY <1>1, <2>6 DEF Due
    <3>3. p <= pid
      <4>1. p \notin block /\ ~(\A y \in block : y < p)
        <5>1. p \notin block
          <6>1. p # m /\ ~(m < p)
            BY <2>1, <3>1
          <6> QED BY <2>1, <6>1
        <5>2. ~(m < p)
          BY <2>1, <3>1
        <5> QED BY <2>1, <5>1, <5>2
      <4> QED BY <1>4, <3>2, <4>1
    <3>4. Finished(p)
      <4>1. PICK n \in Nat : n = pid
        BY <1>1
      <4>2. p < n \/ p = n
        BY <3>1, <3>3, <4>1
      <4> QED BY <1>1, <4>1, <4>2 DEF Finished
    <3> QED BY <3>2, <3>4 DEF FullInv
  <2>7. \A p \in Pids : Due(p)' /\ Finished(p)' => Full(p, table[p])'
    BY <1>1, <2>6 DEF Full, HasKind, HasMap
  <2> QED BY <1>5, <2>3, <2>5, <2>7 DEF FullInv
<1> QED BY <1>6, <1>7

\* A process that is due has a command, and a user with a name.
LEMMA CommandFull ==
  ASSUME TypeOK, VisitOK, HeldInv, FullInv, UNCHANGED world, GetCommand \/ GetUser
  PROVE  FullInv'
<1>1. ScannerOK /\ pc \in {"comm", "status"}
  BY TypeParts DEF GetCommand, GetUser
<1>2. Due(pid) => There(pid) /\ Room /\ pid \in Named
  BY <1>1, RoomLeft DEF Due, There
<1>3. CASE LeaveOut /\ ~Due(pid)
  BY <1>1, <1>3, ReturnFull
<1>4. CASE /\ UNCHANGED <<todo, pid, lines, entries, files, fdFiles, pool, table, held>>
           /\ \/ pc' = "status"
              \/ pc' = "special" /\ row' = [NoRow EXCEPT !.kind = "cwd"]
  <2>1. row' = [NoRow EXCEPT !.kind = "cwd"] => row'.kind = "cwd"
    BY DEF NoRow
  <2>2. Links'
    BY <1>4, <2>1 DEF Links
  <2>3. PoolRows' /\ MapsRead'
    BY <1>1, <1>4 DEF FullInv, PoolRows, MapsRead
  <2> QED BY <1>4, <2>2, <2>3, SameFull
<1> QED BY <1>2, <1>3, <1>4 DEF GetCommand, GetUser, locals

\* The links of a process that is due can be read, one after the other.
LEMMA SpecialFull ==
  ASSUME TypeOK, VisitOK, FullInv, UNCHANGED world, SpecialCall
  PROVE  FullInv'
<1>1. /\ ScannerOK /\ SpecialEffect /\ pc = "special" /\ pid \in Pids
      /\ row \in PartRow /\ row.kind \in Kinds
  BY SpecialCases, TypeParts DEF SpecialCall, VisitOK, RowOK
<1>2. CASE LeaveOut
  <2>1. Cell("name") = None
    BY <1>1, <1>2 DEF SpecialCall, Err, LeaveOut, Return
  <2>2. ~Due(pid)
    <3>1. /\ Special[pid][row.kind] # None /\ row.kind # "fd"
      BY <1>1, ScanAssumption DEF Kinds
    <3> QED BY <2>1, <3>1 DEF Due, Cell, Name, Target, Denied
  <2> QED BY <1>1, <1>2, <2>2, ReturnFull
<1>3. CASE /\ row'.kind = row.kind
           /\ UNCHANGED <<pc, todo, pid, files, pool, table>>
  <2>1. Links' /\ PoolRows' /\ MapsRead'
    BY <1>1, <1>3 DEF FullInv, Links, PoolRows, MapsRead, HasKind
  <2> QED BY <1>1, <1>3, <2>1, SameFull
<1>4. /\ \A x : [row EXCEPT !.name = x].kind = row.kind /\ [row EXCEPT !.type = x].kind = row.kind
      /\ \A k : [NoRow EXCEPT !.kind = k].kind = k
  BY <1>1 DEF PartRow, NoRow
<1>5. PICK r : r = [row EXCEPT !.node = Cell("node")]
  OBVIOUS
<1>6. CASE /\ files' = Append(files, r) /\ pool' = PoolOf(r)
           /\ \/ row.kind = "txt" /\ pc' = "maps" /\ row' = NoRow
              \/ /\ row.kind \in {"cwd", "rtd"} /\ pc' = pc
                 /\ row' = [NoRow EXCEPT !.kind = NextKind[row.kind]]
           /\ UNCHANGED <<todo, pid, table>>
  <2>1. r.kind = row.kind
    BY <1>1, <1>5 DEF PartRow
  <2>2. files \in Seq(ListRow \cup {r}) /\ r \in ListRow \cup {r}
    BY <1>1 DEF ScannerOK
  <2>3. /\ \A kind : HasKind(files, kind) => HasKind(files', kind)
        /\ HasKind(files', row.kind)
        /\ \A x : (\E i \in DOMAIN files : IsMap(files[i]) /\ files[i].node = x) =>
                     \E i \in DOMAIN files' : IsMap(files'[i]) /\ files'[i].node = x
        /\ IsMap(r) => \E i \in DOMAIN files' : IsMap(files'[i]) /\ files'[i].node = r.node
    BY <1>6, <2>1, <2>2, AppendHas
  <2>4. Links'
    <3>1. /\ row.kind # "cwd" => HasKind(files', "cwd")
          /\ row.kind = "txt" => HasKind(files', "rtd")
      BY <1>1, <2>3 DEF FullInv, Links
    <3>2. CASE row.kind = "txt" /\ pc' = "maps"
      <4>1. \A kind \in Kinds : HasKind(files', kind)
        BY <2>3, <3>1, <3>2 DEF Kinds
      <4> QED BY <3>2, <4>1 DEF Links, HasKind
    <3>3. CASE row.kind \in {"cwd", "rtd"} /\ pc' = pc /\ row'.kind = NextKind[row.kind]
      <4>1. \/ row.kind = "cwd" /\ row'.kind = "rtd"
            \/ row.kind = "rtd" /\ row'.kind = "txt"
        BY <3>3 DEF NextKind
      <4>2. /\ row'.kind # "cwd" => HasKind(files', "cwd")
            /\ row'.kind = "txt" => HasKind(files', "rtd")
        BY <2>3, <3>1, <4>1
      <4> QED BY <1>1, <3>3, <4>2 DEF Links, HasKind
    <3> QED BY <1>4, <1>6, <3>2, <3>3
  <2>5. PoolRows'
    <3>1. \A x \in pool' : x \in pool \/ (IsMap(r) /\ x = r.node)
      BY <1>6 DEF PoolOf, IsMap
    <3>2. \A x \in pool' : \E i \in DOMAIN files' : IsMap(files'[i]) /\ files'[i].node = x
      BY <1>1, <2>3, <3>1 DEF FullInv, PoolRows
    <3> QED BY <3>2 DEF PoolRows
  <2>6. MapsRead' /\ pc' \notin {"readdir", "done"}
    BY <1>1, <1>6 DEF MapsRead
  <2> QED BY <1>6, <2>4, <2>5, <2>6, SameFull
<1> QED BY <1>1, <1>2, <1>3, <1>4, <1>5, <1>6 DEF SpecialEffect

\* The maps of a process that is due can be opened, and are read whole.
LEMMA MapsFull ==
  ASSUME TypeOK, VisitOK, HeldInv, FullInv, UNCHANGED world, OpenMaps \/ ReadMaps
  PROVE  FullInv'
<1>1. /\ ScannerOK /\ pc \in {"maps", "lines"} /\ pid \in Pids /\ proc' = proc
      /\ \A kind \in Kinds : HasKind(files, kind)
  BY TypeParts DEF OpenMaps, ReadMaps, VisitOK, FullInv, Links, world
<1>2. CASE LeaveOut /\ OpenMaps
  <2>1. Due(pid) => Room /\ There(pid) /\ ~NoMemory(pid) /\ Access[pid] # "other"
    BY <1>1, RoomLeft DEF Due, There, NoMemory
  <2>2. ~Due(pid)
    BY <1>2, <2>1 DEF OpenMaps, LeaveOut, Return
  <2> QED BY <1>1, <1>2, <2>2, ReturnFull
<1>3. CASE /\ pc' \in {"lines", "map"} /\ UNCHANGED <<todo, pid, files, pool, table>>
           /\ pc' = "map" => ReadMaps
  <2>1. Links'
    BY <1>1, <1>3 DEF Links, HasKind
  <2>2. PoolRows'
    BY <1>1, <1>3 DEF FullInv, PoolRows
  <2>3. MapsRead'
    <3>1. CASE pc' = "lines"
      BY <3>1 DEF MapsRead
    <3>2. CASE pc' = "map" /\ Due(pid)
      <4>1. lines' = [i \in DOMAIN Maps[pid] |->
                        [file |-> Maps[pid][i], deleted |-> Maps[pid][i] \notin exists]]
        BY <1>3, <3>2 DEF ReadMaps, Due, Denied
      <4>2. \A f \in RangeOf(Maps[pid]) : \E i \in DOMAIN lines' : lines'[i].file = f
        BY <4>1 DEF RangeOf
      <4> QED BY <1>3, <4>2 DEF MapsRead
    <3>3. CASE pc' = "map" /\ ~Due(pid)
      BY <1>1, <1>3, <3>3 DEF MapsRead, Due
    <3> QED BY <1>3, <3>1, <3>2, <3>3
  <2> QED BY <1>3, <2>1, <2>2, <2>3, SameFull
<1> QED BY <1>2, <1>3 DEF OpenMaps, ReadMaps, locals

\* A row with the inode number of a mapped file is that file's.
LEMMA MapNode ==
  ASSUME NodesDiffer, pid \in Pids, Due(pid), NEW r, RowSound(pid, r), IsMap(r),
         NEW f \in RangeOf(Maps[pid]), r.node = Node[f]
  PROVE  r.name = f
<1>1. proc[pid] = "alive" /\ Access[pid] = "own"
  BY DEF Due
<1>2. CASE r.kind = "mem"
  <2>1. r.name \in RangeOf(Maps[pid]) /\ r.node = Node[r.name]
    BY <1>2, RowKinds DEF RowSound
  <2> QED BY <2>1 DEF NodesDiffer
<1>3. CASE r.kind = "txt"
  <2>1. r.name = Special[pid]["txt"] /\ r = RowFor("txt", -1, r.name)
    <3>1. r.kind \notin {"fd", "mem"} /\ RowRight(pid, r)
      BY <1>3 DEF RowSound
    <3>2. /\ r.name = Special[pid][r.kind]
          /\ r = RowFor(r.kind, -1, r.name) \/ proc[pid] # "alive"
      BY <1>1, <3>1 DEF RowRight
    <3> QED BY <1>1, <1>3, <3>2
  <2>2. r.node = Node[r.name]
    BY <2>1 DEF RowFor
  <2> QED BY <2>1, <2>2 DEF NodesDiffer
<1> QED BY <1>2, <1>3 DEF IsMap

\* A line adds the row of its file, unless the pool has its number.
LEMMA MapAdds ==
  ASSUME TypeOK, MapLine
  PROVE  \E f \in Files :
           /\ f = Head(lines).file
           /\ \/ Node[f] \in pool /\ UNCHANGED <<files, pool>>
              \/ \E r \in ListRow : /\ r.kind = "mem" /\ r.name = f /\ r.node = Node[f]
                                    /\ files' = Append(files, r)
                                    /\ pool' = pool \cup {Node[f]}
<1>1. lines \in Seq([file : Files, deleted : BOOLEAN]) /\ lines # <<>>
  BY TypeParts DEF ScannerOK, MapLine
<1>2. Head(lines) \in [file : Files, deleted : BOOLEAN]
  BY <1>1, HeadTailProperties
<1>3. PICK f \in Files : f = Head(lines).file
  BY <1>2
<1>4. PICK type : type = IF Head(lines).deleted THEN "DEL"
                         ELSE FromStat(IF f \in exists THEN f ELSE None, "type")
  OBVIOUS
<1>5. type \in CellTypes \cup {"DEL"}
  <2>1. (IF f \in exists THEN f ELSE None) \in Files \cup {None}
    OBVIOUS
  <2>2. FromStat(IF f \in exists THEN f ELSE None, "type") \in CellTypes
    BY <2>1, StatTypes DEF CellTypes
  <2> QED BY <1>4, <2>2
<1>6. PICK r : r = [NoRow EXCEPT !.kind = "mem", !.type = type, !.node = Node[f], !.name = f]
  OBVIOUS
<1>7. r \in ListRow /\ r.kind = "mem" /\ r.node = Node[f]
  BY <1>5, <1>6, MemRow
<1>8. r.name = f
  BY <1>6 DEF NoRow
<1>9. IF Node[f] \in pool THEN UNCHANGED <<files, pool>>
      ELSE files' = Append(files, r) /\ pool' = pool \cup {Node[f]}
  BY <1>3, <1>4, <1>6 DEF MapLine
<1> QED BY <1>3, <1>7, <1>8, <1>9

\* A line that is used leaves its file with a row.
LEMMA MapFull ==
  ASSUME NodesDiffer, TypeOK, VisitOK, TrueInv, FullInv, UNCHANGED world, MapLine
  PROVE  FullInv'
<1>1. /\ ScannerOK /\ pc = "map" /\ pid \in Pids /\ proc' = proc
      /\ lines # <<>> /\ lines' = Tail(lines) /\ UNCHANGED <<pc, todo, pid, row, table>>
      /\ AllSound(pid, files) /\ Rest
  BY TypeParts, MapEffect DEF MapLine, VisitOK, TrueInv, Listed, world
<1>2. PICK f \in Files :
        /\ f = Head(lines).file
        /\ \/ Node[f] \in pool /\ UNCHANGED <<files, pool>>
           \/ \E r \in ListRow : /\ r.kind = "mem" /\ r.name = f /\ r.node = Node[f]
                                 /\ files' = Append(files, r)
                                 /\ pool' = pool \cup {Node[f]}
  BY MapAdds
<1>3. /\ \A kind : HasKind(files, kind) => HasKind(files', kind)
      /\ \A g : HasMap(files, g) => HasMap(files', g)
      /\ PoolRows'
  <2>1. CASE UNCHANGED <<files, pool>>
    <3>1. PoolRows'
      BY <1>1, <2>1 DEF FullInv, PoolRows
    <3> QED BY <2>1, <3>1
  <2>2. ASSUME NEW r \in ListRow, r.kind = "mem", r.name = f, r.node = Node[f],
               files' = Append(files, r), pool' = pool \cup {Node[f]}
        PROVE  /\ \A kind : HasKind(files, kind) => HasKind(files', kind)
               /\ \A g : HasMap(files, g) => HasMap(files', g)
               /\ PoolRows'
    <3>1. files \in Seq(ListRow) /\ IsMap(r)
      BY <1>1, <2>2 DEF ScannerOK, IsMap
    <3>2. /\ \A kind : HasKind(files, kind) => HasKind(files', kind)
          /\ \A g : HasMap(files, g) => HasMap(files', g)
          /\ \A x : (\E i \in DOMAIN files : IsMap(files[i]) /\ files[i].node = x) =>
                       \E i \in DOMAIN files' : IsMap(files'[i]) /\ files'[i].node = x
          /\ \E i \in DOMAIN files' : IsMap(files'[i]) /\ files'[i].node = Node[f]
      BY <2>2, <3>1, AppendHas
    <3>3. \A x \in pool : \E i \in DOMAIN files : IsMap(files[i]) /\ files[i].node = x
      BY <1>1 DEF FullInv, PoolRows
    <3>4. \A x \in pool' : \E i \in DOMAIN files' : IsMap(files'[i]) /\ files'[i].node = x
      BY <2>2, <3>2, <3>3
    <3> QED BY <3>2, <3>4 DEF PoolRows
  <2> QED BY <1>2, <2>1, <2>2
<1>4. PICK s \in Seq([file : Files, deleted : BOOLEAN]) : s = lines /\ s # <<>>
  BY <1>1 DEF ScannerOK
<1>5. /\ \A i \in DOMAIN s : i = 1 \/ (i - 1 \in DOMAIN Tail(s) /\ s[i] = Tail(s)[i - 1])
      /\ Head(s) = s[1] /\ 1 \in DOMAIN s
  <2>1. /\ Len(s) \in Nat \ {0} /\ DOMAIN s = 1 .. Len(s) /\ DOMAIN Tail(s) = 1 .. Len(s) - 1
        /\ \A i \in 1 .. Len(s) - 1 : Tail(s)[i] = s[i + 1]
    BY <1>4, HeadTailProperties, LenProperties, EmptySeq
  <2>2. \A i \in 1 .. Len(s) : i = 1 \/ (i - 1 \in 1 .. Len(s) - 1 /\ (i - 1) + 1 = i)
    BY <2>1
  <2> QED BY <1>4, <2>1, <2>2, HeadTailProperties
<1>6. Due(pid) => HasMap(files', f)
  <2>1. SUFFICES ASSUME Due(pid) PROVE HasMap(files', f)
    OBVIOUS
  <2>2. CASE Node[f] \in pool /\ UNCHANGED <<files, pool>>
    <3>1. PICK i \in DOMAIN files : IsMap(files[i]) /\ files[i].node = Node[f]
      BY <1>1, <2>2 DEF FullInv, PoolRows
    <3>2. RowSound(pid, files[i])
      BY <1>1 DEF AllSound
    <3>3. f \in RangeOf(Maps[pid])
      BY <1>1, <1>2, <1>4, <1>5 DEF Rest
    <3>4. files[i].name = f
      BY <1>1, <2>1, <3>1, <3>2, <3>3, MapNode
    <3> QED BY <2>2, <3>1, <3>4 DEF HasMap
  <2>3. ASSUME NEW r \in ListRow, r.kind = "mem", r.name = f, files' = Append(files, r)
        PROVE  HasMap(files', f)
    <3>1. files \in Seq(ListRow) /\ IsMap(r)
      BY <1>1, <2>3 DEF ScannerOK, IsMap
    <3> QED BY <2>3, <3>1, AppendHas
  <2> QED BY <1>2, <2>2, <2>3
<1>7. Links'
  BY <1>1, <1>3 DEF FullInv, Links, HasKind
<1>8. MapsRead'
  <2>1. SUFFICES ASSUME Due(pid), NEW g \in RangeOf(Maps[pid])
                 PROVE  HasMap(files', g) \/ \E i \in DOMAIN lines' : lines'[i].file = g
    BY <1>1 DEF MapsRead, Due, HasMap
  <2>2. CASE HasMap(files, g)
    BY <1>3, <2>2
  <2>3. CASE ~HasMap(files, g)
    <3>1. PICK i \in DOMAIN s : s[i].file = g
      BY <1>1, <1>4, <2>1, <2>3 DEF FullInv, MapsRead
    <3>2. CASE i = 1
      BY <1>2, <1>4, <1>5, <1>6, <2>1, <3>1, <3>2
    <3>3. CASE i # 1
      BY <1>1, <1>4, <1>5, <3>1, <3>3
    <3> QED BY <3>2, <3>3
  <2> QED BY <2>2, <2>3
<1> QED BY <1>1, <1>3, <1>7, <1>8, SameFull

\* When all lines are used a process that is due has all of its rows.
LEMMA LinesUsed ==
  ASSUME FullInv, pc \in {"map", "fds", "fd"}, lines = <<>>, Due(pid)
  PROVE  Full(pid, files)
<1>1. DOMAIN lines = {}
  OBVIOUS
<1> QED BY <1>1 DEF FullInv, Links, MapsRead, Full

\* So it is listed with them, whatever becomes of its descriptors.
LEMMA FdsFull ==
  ASSUME TypeOK, VisitOK, Ascending, FullInv, UNCHANGED world, OpenFds \/ NextFd \/ FdCall
  PROVE  FullInv'
<1>1. /\ ScannerOK /\ pc \in {"map", "fds", "fd"} /\ lines = <<>> /\ proc' = proc
      /\ files \in Seq(ListRow) /\ fdFiles \in Seq(ListRow)
  <2>1. FdRow \subseteq ListRow
    BY DEF FdRow, ListRow, RowType
  <2>2. ScannerOK /\ proc' = proc
    BY TypeParts DEF world
  <2>3. pc \in {"map", "fds", "fd"} /\ lines = <<>>
    BY DEF OpenFds, NextFd, FdCall, Ascending
  <2>4. files \in Seq(ListRow) /\ fdFiles \in Seq(ListRow)
    BY <2>1, <2>2 DEF ScannerOK
  <2> QED BY <2>2, <2>3, <2>4
<1>2. /\ Due(pid) => Full(pid, files)
      /\ Due(pid) => Full(pid, files \o fdFiles)
      /\ files \o Failed = files
  <2>1. files \o Failed = files
    BY <1>1, ConcatEmptySeq DEF Failed
  <2> QED BY <1>1, <2>1, LinesUsed, ConcatFull
<1>3. CASE Keep(files) \/ Keep(files \o fdFiles)
  BY <1>1, <1>2, <1>3, ReturnFull
<1>4. CASE pc' \in {"fds", "fd"} /\ UNCHANGED <<todo, pid, lines, files, pool, table>>
  <2>1. Links' /\ PoolRows'
    BY <1>1, <1>4 DEF FullInv, Links, PoolRows, HasKind
  <2>2. MapsRead'
    BY <1>1, <1>4 DEF FullInv, MapsRead, HasMap, Due
  <2> QED BY <1>4, <2>1, <2>2, SameFull
<1>5. OpenFds => \/ Keep(files)
                 \/ pc' \in {"fds", "fd"} /\ UNCHANGED <<todo, pid, lines, files, pool, table>>
  BY DEF OpenFds, locals
<1>6. NextFd => \/ Keep(files \o fdFiles)
                \/ pc' \in {"fds", "fd"} /\ UNCHANGED <<todo, pid, lines, files, pool, table>>
  BY DEF NextFd
<1>7. FdCall => \/ Keep(files)
                \/ pc' \in {"fds", "fd"} /\ UNCHANGED <<todo, pid, lines, files, pool, table>>
  <2>1. FdCall => \/ Keep(files \o Failed)
                  \/ pc' \in {"fds", "fd"} /\ UNCHANGED <<todo, pid, lines, files, pool, table>>
    BY DEF FdCall
  <2> QED BY <1>2, <2>1
<1> QED BY <1>3, <1>4, <1>5, <1>6, <1>7

\* Every step keeps what is due,
LEMMA FullStep ==
  ASSUME NodesDiffer
  PROVE  ListInv /\ FullInv /\ [Next]_vars => FullInv'
<1> SUFFICES ASSUME ListInv, FullInv, [Next]_vars PROVE FullInv'
  OBVIOUS
<1>1. TypeOK /\ VisitOK /\ TrueInv /\ Ascending /\ HeldInv /\ WorldTrue
  BY DEF ListInv, TrueInv
<1>2. CASE Step /\ UNCHANGED world
  BY <1>1, <1>2, NextPidFull, CommandFull, SpecialFull, MapsFull, MapFull, FdsFull DEF Step
<1>3. CASE World
  BY <1>1, <1>3, FullWorld
<1>4. CASE UNCHANGED vars
  <2>1. UNCHANGED <<proc, pc, todo, pid, row, lines, files, pool, table>>
    BY <1>4 DEF vars, world, scanner, locals
  <2> QED BY <2>1 DEF FullInv, Passed, Links, PoolRows, MapsRead, Due, Finished, Full,
                      HasKind, HasMap
<1>5. Output /\ UNCHANGED world => UNCHANGED vars
  BY DEF Output, vars
<1> QED BY <1>2, <1>3, <1>4, <1>5 DEF Next

\* and in the beginning nobody is.
LEMMA FullInit ==
  Init => FullInv
<1> SUFFICES ASSUME Init PROVE FullInv
  OBVIOUS
<1>1. /\ pc = "readdir" /\ todo = {} /\ pid = 0
      /\ proc = [p \in Pids |-> IF p \in Alive0 THEN "alive" ELSE "none"]
  BY DEF Init
<1>2. Links /\ PoolRows /\ MapsRead
  BY <1>1 DEF Links, PoolRows, MapsRead
<1>3. Passed
  BY <1>1, ScanAssumption DEF Passed
<1>4. \A p \in Pids : ~Finished(p)
  BY <1>1, ScanAssumption DEF Finished
<1> QED BY <1>2, <1>3, <1>4 DEF FullInv

\* Whatever ends, begins or fails before it, a process of the user that is there
\* from the beginning to the end is listed with its links and every file it has
\* mapped, if descriptors are left for it and inode numbers tell its files apart.
THEOREM NothingLost ==
  ASSUME NodesDiffer
  PROVE  Spec => []Complete
<1>1. ASSUME ListInv, FullInv, pc = "done", NEW p \in Pids, Due(p)
      PROVE  /\ \A kind \in Kinds : RowFor(kind, -1, Special[p][kind]) \in Rows(p)
             /\ \A f \in RangeOf(Maps[p]) :
                  \E r \in Rows(p) : r.kind \in {"txt", "mem"} /\ r.name = f
  <2>1. /\ p <= pid /\ p \in Nat /\ pid \in Nat
    <3>1. p \in Nat /\ pid \in Nat
      BY <1>1, ScanAssumption DEF ListInv, TypeOK
    <3>2. p <= pid \/ p \in todo
      BY <1>1 DEF FullInv, Passed, Due
    <3>3. todo = {}
      BY <1>1 DEF FullInv, Passed
    <3> QED BY <3>1, <3>2, <3>3
  <2>2. Finished(p)
    <3>1. PICK n \in Nat : n = pid /\ p <= n
      BY <2>1
    <3>2. p < n \/ p = n
      BY <2>1, <3>1
    <3> QED BY <1>1, <3>1, <3>2 DEF Finished
  <2>3. PICK s : s = table[p] /\ Full(p, s) /\ AllSound(p, s)
    BY <1>1, <2>2 DEF ListInv, TrueInv, Listed, FullInv
  <2>4. \A i \in DOMAIN s : s[i] \in Rows(p)
    BY <2>3 DEF Rows, RangeOf
  <2>5. ASSUME NEW kind \in Kinds
        PROVE  RowFor(kind, -1, Special[p][kind]) \in Rows(p)
    <3>1. PICK i \in DOMAIN s : s[i].kind = kind
      BY <2>3 DEF Full, HasKind
    <3>2. PICK r : r = s[i] /\ r.kind = kind /\ RowRight(p, r)
      BY <2>3, <3>1 DEF AllSound, RowSound
    <3>3. kind \notin {"fd", "mem"} /\ proc[p] = "alive" /\ Access[p] = "own"
      BY <1>1 DEF Kinds, Due
    <3>4. r.name = Special[p][kind] /\ r = RowFor(kind, -1, r.name)
      BY <3>2, <3>3 DEF RowRight
    <3> QED BY <2>4, <3>2, <3>4
  <2>6. \A f \in RangeOf(Maps[p]) :
          \E r \in Rows(p) : r.kind \in {"txt", "mem"} /\ r.name = f
    BY <2>3, <2>4 DEF Full, HasMap, IsMap
  <2> QED BY <2>5, <2>6
<1>2. ListInv /\ FullInv => Complete
  BY <1>1, ScanAssumption DEF Complete, Due
<1>3. ListInv /\ FullInv /\ [Next]_vars => FullInv'
  BY FullStep
<1> QED BY <1>2, <1>3, ListAlways, FullInit, PTL DEF Spec
=============================================================================
