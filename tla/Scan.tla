-------------------------------- MODULE Scan --------------------------------
(***************************************************************************)
(* hw1.cpp, an lsof: one pass over /proc while the processes that it       *)
(* describes go on.  Every system call of the scanner is a step; between   *)
(* any two of them processes start and end, and descriptors and files come *)
(* and go.                                                                 *)
(***************************************************************************)
EXTENDS Integers, Sequences, FiniteSets

CONSTANTS
  Pids,        \* process ids; /proc lists them in ascending order
  Alive0,      \* the processes that are there when the scan begins
  Access,      \* of a process: "own", "other" user's, "kernel" thread
  Named,       \* the processes whose uid has an entry in /etc/passwd
  Fds,         \* descriptor numbers
  Fds0,        \* the files a process has open at first, on each of Fds
  Special,     \* the file behind cwd, rtd and txt of a process
  Maps,        \* the lines of a process's maps that name a file
  Files, Type, Node, \* the files, their type and inode number
  Openable,    \* the files that processes open during the scan
  Path,        \* the name of a link in /proc, shown if it can not be read
  OpenMax,     \* the most descriptors the scanner may hold
  MaxChanges,  \* bound: the changes of the world during the scan
  None

Kinds == {"cwd", "rtd", "txt"}

ASSUME ScanAssumption ==
  /\ Pids \subseteq Nat \ {0} /\ IsFiniteSet(Pids)
  /\ Alive0 \subseteq Pids /\ Named \subseteq Pids
  /\ Access \in [Pids -> {"own", "other", "kernel"}]
  /\ Fds \subseteq Nat /\ Fds0 \in [Pids -> [Fds -> Files \cup {None}]]
  /\ Special \in [Pids -> [Kinds -> Files]]
  /\ Maps \in [Pids -> Seq(Files)]
  /\ Type \in [Files -> {"REG", "DIR", "CHR", "FIFO", "SOCK"}]
  /\ Node \in [Files -> Nat \ {0}]
  /\ Openable \subseteq Files
  /\ None \notin Files /\ Path \notin Files /\ Path # None
  /\ OpenMax \in Nat \ {0} /\ MaxChanges \in Nat

VARIABLES
  proc,     \* "none", "alive", "zombie" or "gone"
  fdt,      \* what each descriptor of a process is open on
  exists,   \* the files that have not been deleted
  changes,  \* the changes so far
  opened,   \* history: what each descriptor was opened on since the scan began
  steady,   \* history: the descriptors open since then and never touched
  pc,       \* what the scanner does next
  todo,     \* the entries of /proc that it has read and not yet visited
  pid,      \* the process it visits
  row, call, \* the File it fills in, and the next of the calls that do so
  lines,    \* the lines of maps that it has read and not yet used
  entries,  \* the entries of the descriptor directory, likewise
  files,    \* process.files
  fdFiles,  \* fd_files
  pool,     \* inode_pool
  table,    \* processes: the rows of each process it lists
  held      \* the descriptors it holds, above stderr

world   == <<proc, fdt, exists, changes, opened, steady>>
locals  == <<row, call, lines, entries, files, fdFiles>>
scanner == <<pc, todo, pid, locals, pool, table, held>>
vars    == <<world, scanner>>

-----------------------------------------------------------------------------
(* The world.                                                              *)

Opening(f) == IF f = None THEN <<>> ELSE <<f>>

Change == changes < MaxChanges /\ pc # "done" /\ changes' = changes + 1

\* A pid is not used twice during a scan.
Begin(p) ==
  /\ Change /\ proc[p] = "none"
  /\ proc' = [proc EXCEPT ![p] = "alive"]
  /\ fdt' = [fdt EXCEPT ![p] = Fds0[p]]
  /\ opened' = [opened EXCEPT ![p] = [fd \in Fds |-> Opening(Fds0[p][fd])]]
  /\ UNCHANGED <<exists, steady, scanner>>

Exit(p) ==
  /\ Change /\ proc[p] = "alive"
  /\ proc' = [proc EXCEPT ![p] = "zombie"]
  /\ fdt' = [fdt EXCEPT ![p] = [fd \in Fds |-> None]]
  /\ steady' = {x \in steady : x[1] # p}
  /\ UNCHANGED <<exists, opened, scanner>>

Reap(p) ==
  /\ Change /\ proc[p] = "zombie"
  /\ proc' = [proc EXCEPT ![p] = "gone"]
  /\ UNCHANGED <<fdt, exists, opened, steady, scanner>>

\* close(), open() or dup2() in a process whose descriptors can be seen.
SetFd(p, fd, f) ==
  /\ Change /\ proc[p] = "alive" /\ Access[p] = "own" /\ fdt[p][fd] # f
  /\ fdt' = [fdt EXCEPT ![p][fd] = f]
  /\ opened' = [opened EXCEPT ![p][fd] = @ \o Opening(f)]
  /\ steady' = steady \ {<<p, fd>>}
  /\ UNCHANGED <<proc, exists, scanner>>

Unlink(f) ==
  /\ Change /\ f \in exists /\ Type[f] # "DIR"
  /\ exists' = exists \ {f}
  /\ UNCHANGED <<proc, fdt, opened, steady, scanner>>

World ==
  \/ \E p \in Pids : Begin(p) \/ Exit(p) \/ Reap(p)
  \/ \E p \in Pids, fd \in Fds, f \in Openable \cup {None} : SetFd(p, fd, f)
  \/ \E f \in Files : Unlink(f)

-----------------------------------------------------------------------------
(* What the kernel answers.                                                *)

There(p) == proc[p] \in {"alive", "zombie"}

\* The scanner's descriptor table has room for one more file.
Room == held < OpenMax

Denied(p) == There(p) /\ Access[p] # "own"

\* The file that a link below /proc/<pid> leads to.
Target(p, kind, fd) ==
  IF proc[p] # "alive" \/ Denied(p) THEN None
  ELSE IF kind = "fd" THEN fdt[p][fd] ELSE Special[p][kind]

\* A kernel thread and a zombie have no memory.  Kernels differ in what the
\* opening of their maps, or of a zombie's descriptors, returns.
NoMemory(p) == proc[p] = "zombie" \/ (proc[p] = "alive" /\ Access[p] = "kernel")

Least(s) == CHOOSE x \in s : \A y \in s : x <= y

After(x, last) == x > last

\* A directory is read in blocks: readdir() returns what is left of the last
\* block, or what getdents() finds after it by then.
Block(left, there, last) ==
  LET rest == {x \in there : After(x, last)}
  IN  IF left # {} THEN {left}
      ELSE IF rest = {} THEN {{}}
      ELSE {{x \in rest : x <= y} : y \in rest}

-----------------------------------------------------------------------------
(* The calls that fill in a File.                                          *)

NoRow == [kind |-> None, fd |-> -1, mode |-> "blank", type |-> "blank", node |-> 0, name |-> None]

\* safe_readlink() and clear_deleted(), whose first word is the path without
\* " (deleted)" or " (Permission denied)".  None is err = 1.
Name(p, kind, fd) == IF Denied(p) THEN Path ELSE Target(p, kind, fd)

\* get_from_stat().  "if (errno = EACCES)" takes every failure for a
\* permission that is denied, so it never sets err to 1.
FromStat(f, target) ==
  CASE target = "type" -> IF f = None THEN "unknown" ELSE Type[f]
    [] target = "node" -> IF f = None THEN 0 ELSE Node[f]
    [] target = "mode" -> IF f = None THEN "blank" ELSE "u"

Cell(field) ==
  IF field = "name" THEN Name(pid, row.kind, row.fd)
  ELSE FromStat(Target(pid, row.kind, row.fd), field)

\* The order of the calls in get_special_file() and in iterate_fd().
SpecialCalls == <<"name", "type", "node">>

FdCalls_NameFirst == <<"name", "mode", "type", "node">>  \* mutant: as for the others

FdCalls == <<"mode", "type", "node", "name">>

Err_Never(field) == FALSE  \* mutant: the test err == 1 is left out

\* err == 1 after a call.
Err(field) == field = "name" /\ Cell(field) = None

-----------------------------------------------------------------------------
(* iterate_proc() and iterate_pid().                                       *)

\* The locals of a visit go out of scope.
Return ==
  /\ pc' = "readdir"
  /\ row' = NoRow /\ call' = 1 /\ lines' = <<>> /\ entries' = {}
  /\ files' = <<>> /\ fdFiles' = <<>>
  /\ UNCHANGED <<todo, pid, pool, held>>

\* iterate_pid() returns 1, and the process is not pushed.
LeaveOut == Return /\ UNCHANGED table

Keep(rows) == Return /\ table' = [table EXCEPT ![pid] = rows]

NewPool_Stale == pool  \* mutant: inode_pool is not cleared

NewPool == {}

NextPid ==
  /\ pc = "readdir"
  /\ \E block \in Block(todo, {p \in Pids : There(p)}, pid) :
       IF block = {} THEN pc' = "done" /\ UNCHANGED <<todo, pid, pool>>
       ELSE /\ pid' = Least(block) /\ todo' = block \ {Least(block)}
            /\ pool' = NewPool
            /\ pc' = "comm"
  /\ UNCHANGED <<locals, table, held>>

GetCommand ==
  /\ pc = "comm"
  /\ IF There(pid) /\ Room
     THEN pc' = "status" /\ UNCHANGED <<todo, pid, locals, pool, table, held>>
     ELSE LeaveOut

\* get_user() needs the process's status and an entry for its uid.
GetUser ==
  /\ pc = "status"
  /\ IF There(pid) /\ Room /\ pid \in Named
     THEN /\ pc' = "special" /\ row' = [NoRow EXCEPT !.kind = "cwd"]
          /\ UNCHANGED <<todo, pid, call, lines, entries, files, fdFiles, pool, table, held>>
     ELSE LeaveOut

NextKind == [cwd |-> "rtd", rtd |-> "txt"]

PoolOf_NoTxt(r) == pool  \* mutant: the program itself is not inserted

PoolOf(r) == IF r.kind = "txt" THEN pool \cup {r.node} ELSE pool

\* One call of get_special_file().
SpecialCall ==
  /\ pc = "special"
  /\ LET field == SpecialCalls[call]
         r == [row EXCEPT ![field] = Cell(field)]
     IN  IF Err(field) THEN LeaveOut
         ELSE IF call < Len(SpecialCalls)
         THEN /\ row' = r /\ call' = call + 1
              /\ UNCHANGED <<pc, todo, pid, lines, entries, files, fdFiles, pool, table, held>>
         ELSE /\ files' = Append(files, r) /\ pool' = PoolOf(r) /\ call' = 1
              /\ IF r.kind = "txt" THEN pc' = "maps" /\ row' = NoRow
                 ELSE row' = [NoRow EXCEPT !.kind = NextKind[r.kind]] /\ UNCHANGED pc
              /\ UNCHANGED <<todo, pid, lines, entries, fdFiles, table, held>>

\* get_maps() opens the file, or fails.
OpenMaps ==
  /\ pc = "maps"
  /\ \/ /\ Room /\ There(pid) /\ (NoMemory(pid) \/ Access[pid] = "own")
        /\ pc' = "lines"
        /\ UNCHANGED <<todo, pid, locals, pool, table, held>>
     \/ /\ ~Room \/ ~There(pid) \/ NoMemory(pid) \/ Access[pid] = "other"
        /\ LeaveOut

\* The lines are read at once; longer maps come in several parts.
ReadMaps ==
  /\ pc = "lines"
  /\ lines' = IF proc[pid] # "alive" \/ Denied(pid) THEN <<>>
              ELSE [i \in DOMAIN Maps[pid] |->
                      [file |-> Maps[pid][i], deleted |-> Maps[pid][i] \notin exists]]
  /\ pc' = "map"
  /\ UNCHANGED <<todo, pid, row, call, entries, files, fdFiles, pool, table, held>>

\* A line, and the lstat() of the name in it unless the file is deleted.  The
\* directories of mapped files can be searched, so lstat() fails only for a file
\* that has been deleted since.
MapLine ==
  /\ pc = "map" /\ lines # <<>>
  /\ LET f == Head(lines).file
         type == IF Head(lines).deleted THEN "DEL"
                 ELSE FromStat(IF f \in exists THEN f ELSE None, "type")
     IN  IF Node[f] \in pool THEN UNCHANGED <<files, pool>>
         ELSE /\ files' = Append(files, [NoRow EXCEPT !.kind = "mem", !.type = type,
                                                      !.node = Node[f], !.name = f])
              /\ pool' = pool \cup {Node[f]}
  /\ lines' = Tail(lines)
  /\ UNCHANGED <<pc, todo, pid, row, call, entries, fdFiles, table, held>>

\* iterate_fd() opens the directory, and never closes it.
OpenFds ==
  /\ pc = "map" /\ lines = <<>>
  /\ \/ /\ Room /\ There(pid) /\ Access[pid] = "own"
        /\ held' = held + 1 /\ pc' = "fds"
        /\ UNCHANGED <<todo, pid, locals, pool, table>>
     \/ /\ ~Room \/ proc[pid] # "alive" \/ Denied(pid)
        /\ Keep(files)

NextFd ==
  /\ pc = "fds"
  /\ \E block \in Block(entries, {fd \in Fds : fdt[pid][fd] # None}, row.fd) :
       IF block = {} THEN Keep(files \o fdFiles)
       ELSE /\ row' = [NoRow EXCEPT !.kind = "fd", !.fd = Least(block)]
            /\ entries' = block \ {Least(block)}
            /\ pc' = "fd"
            /\ UNCHANGED <<todo, pid, call, lines, files, fdFiles, pool, table, held>>

Failed_SoFar == fdFiles  \* mutant: the descriptors before the failing one are returned

Failed == <<>>

FdCall_Rescan ==  \* mutant: the directory is read again after a call that fails
  /\ pc = "fd"
  /\ LET field == FdCalls[call]
         r == [row EXCEPT ![field] = Cell(field)]
     IN  IF Err(field)
         THEN /\ pc' = "fds" /\ row' = NoRow /\ call' = 1 /\ entries' = {} /\ fdFiles' = <<>>
              /\ UNCHANGED <<todo, pid, lines, files, pool, table, held>>
         ELSE /\ row' = r
              /\ IF call < Len(FdCalls) THEN call' = call + 1 /\ UNCHANGED <<pc, fdFiles>>
                 ELSE call' = 1 /\ pc' = "fds" /\ fdFiles' = Append(fdFiles, r)
              /\ UNCHANGED <<todo, pid, lines, entries, files, pool, table, held>>

\* One call of iterate_fd() on a descriptor.  iterate_pid() does not look at
\* its err: the process is listed without any descriptor.
FdCall ==
  /\ pc = "fd"
  /\ LET field == FdCalls[call]
         r == [row EXCEPT ![field] = Cell(field)]
     IN  IF Err(field) THEN Keep(files \o Failed)
         ELSE /\ row' = r
              /\ IF call < Len(FdCalls) THEN call' = call + 1 /\ UNCHANGED <<pc, fdFiles>>
                 ELSE call' = 1 /\ pc' = "fds" /\ fdFiles' = Append(fdFiles, r)
              /\ UNCHANGED <<todo, pid, lines, entries, files, pool, table, held>>

Init ==
  /\ proc = [p \in Pids |-> IF p \in Alive0 THEN "alive" ELSE "none"]
  /\ fdt = [p \in Pids |-> [fd \in Fds |-> IF p \in Alive0 THEN Fds0[p][fd] ELSE None]]
  /\ exists = Files /\ changes = 0
  /\ opened = [p \in Pids |-> [fd \in Fds |-> Opening(fdt[p][fd])]]
  /\ steady = {x \in Pids \X Fds : fdt[x[1]][x[2]] # None}
  /\ pc = "readdir" /\ todo = {} /\ pid = 0
  /\ row = NoRow /\ call = 1 /\ lines = <<>> /\ entries = {}
  /\ files = <<>> /\ fdFiles = <<>> /\ pool = {}
  /\ table = [p \in Pids |-> <<>>] /\ held = 1

Step ==
  \/ NextPid \/ GetCommand \/ GetUser \/ SpecialCall
  \/ OpenMaps \/ ReadMaps \/ MapLine
  \/ OpenFds \/ NextFd \/ FdCall

\* output() prints the table and the scanner ends.
Output == pc = "done" /\ UNCHANGED scanner

Next == (Step /\ UNCHANGED world) \/ World \/ (Output /\ UNCHANGED world)

Spec == Init /\ [][Next]_vars

-----------------------------------------------------------------------------
(* Properties.                                                             *)

RangeOf(s) == {s[i] : i \in DOMAIN s}
Rows(p) == RangeOf(table[p])

RowType(name) ==
  [kind : Kinds \cup {"mem", "fd"}, fd : Fds \cup {-1}, mode : {"blank", "u"},
   type : {"unknown", "DEL", "REG", "DIR", "CHR", "FIFO", "SOCK"},
   node : Nat, name : name]

\* Every variable has its type; a row that is pushed has a name.
TypeOK ==
  /\ proc \in [Pids -> {"none", "alive", "zombie", "gone"}]
  /\ fdt \in [Pids -> [Fds -> Files \cup {None}]]
  /\ exists \subseteq Files /\ changes \in 0 .. MaxChanges
  /\ opened \in [Pids -> [Fds -> Seq(Files)]] /\ steady \subseteq Pids \X Fds
  /\ pc \in {"readdir", "comm", "status", "special", "maps", "lines", "map", "fds",
             "fd", "done"}
  /\ todo \subseteq Pids /\ pid \in Pids \cup {0}
  /\ call \in 1 .. 4 /\ entries \subseteq Fds
  /\ lines \in Seq([file : Files, deleted : BOOLEAN])
  /\ files \in Seq(RowType(Files \cup {Path})) /\ fdFiles \in Seq(RowType(Files))
  /\ pool \subseteq Nat
  /\ table \in [Pids -> Seq(RowType(Files \cup {Path}))]
  /\ held \in 0 .. OpenMax

\* The row that is right for a link that leads to f.
RowFor(kind, fd, f) ==
  [kind |-> kind, fd |-> fd, mode |-> IF kind = "fd" THEN "u" ELSE "blank",
   type |-> Type[f], node |-> Node[f], name |-> f]

\* A listed row is true.  A descriptor's name is a file it was open on during
\* the scan, and if it was opened once, all cells are that file's: what was
\* closed, or died, between two of the calls is never listed half read.  A
\* mapped file is called deleted or unknown only if it was deleted.  The links
\* of a process are right, unless it died.
RowRight(p, r) ==
  CASE r.kind = "fd" ->
         /\ r.name \in RangeOf(opened[p][r.fd])
         /\ Len(opened[p][r.fd]) = 1 => r = RowFor("fd", r.fd, r.name)
    [] r.kind = "mem" ->
         /\ r.name \in RangeOf(Maps[p]) /\ r.node = Node[r.name]
         /\ r.type = Type[r.name]
            \/ (r.type \in {"DEL", "unknown"} /\ r.name \notin exists)
    [] OTHER ->
         IF Access[p] # "own"
         THEN r = [NoRow EXCEPT !.kind = r.kind, !.type = "unknown", !.name = Path]
         ELSE /\ r.name = Special[p][r.kind]
              /\ r = RowFor(r.kind, -1, r.name) \/ proc[p] # "alive"

RowsTrue == \A p \in Pids : \A r \in Rows(p) : RowRight(p, r)

\* iterate_fd() leaves a descriptor open for every process it lists (lines
\* 297-320), so only the first ones can rely on a free one.
Sufficient(p) ==
  1 + Cardinality({q \in Pids : q < p /\ Access[q] = "own"}) < OpenMax

\* A process of the user that is there from the beginning to the end is listed,
\* with its links and every file it has mapped, whatever ends or fails before it.
Complete ==
  pc = "done" =>
    \A p \in Alive0 \cap Named :
      proc[p] = "alive" /\ Access[p] = "own" /\ Sufficient(p) =>
        /\ \A kind \in Kinds : RowFor(kind, -1, Special[p][kind]) \in Rows(p)
        /\ \A f \in RangeOf(Maps[p]) :
             \E r \in Rows(p) : r.kind \in {"txt", "mem"} /\ r.name = f

\* inode_pool: no file is listed as mapped twice, nor as mapped and as the
\* program itself.
MappedOnce ==
  \A p \in Pids : \A i, j \in DOMAIN table[p] :
    /\ {table[p][i].kind, table[p][j].kind} \subseteq {"txt", "mem"}
    /\ table[p][i].node = table[p][j].node
    => i = j

\* Of the descriptors that are open all the time a process is listed with all
\* or with none (line 311); with all, if none of the others goes away either.
FdsWhole ==
  pc = "done" =>
    \A p \in Pids :
      LET stay  == {fd \in Fds : <<p, fd>> \in steady}
          shown == {r.fd : r \in {x \in Rows(p) : x.kind = "fd"}}
          calm  == \A fd \in Fds : \/ opened[p][fd] = <<>>
                                   \/ Len(opened[p][fd]) = 1 /\ fdt[p][fd] # None
      IN  Rows(p) # {} /\ Access[p] = "own" =>
            /\ stay \cap shown \in {{}, stay}
            /\ calm /\ Sufficient(p) => stay \subseteq shown

\* Where the scanner is in its visit of a process: the part, the link, line or
\* descriptor in that part, and the call on it.
Part ==
  CASE pc = "comm" -> 1 [] pc = "status" -> 2 [] pc = "special" -> 3 [] pc = "maps" -> 4
    [] pc = "lines" -> 5 [] pc = "map" -> 6 [] pc \in {"fds", "fd"} -> 7
    [] pc = "readdir" -> 8 [] pc = "done" -> 9

Item ==
  CASE pc = "special" -> (CASE row.kind = "cwd" -> 1 [] row.kind = "rtd" -> 2 [] OTHER -> 3)
    [] pc = "map" -> -Len(lines)
    [] pc \in {"fds", "fd"} -> row.fd
    [] OTHER -> 0

Turn == IF pc = "fds" THEN Len(FdCalls) + 1 ELSE call

\* Whatever comes and goes in /proc, every call brings the scanner further: no
\* process, descriptor or line is visited again, and none is gone back to.
Onward ==
  [][ \/ pid < pid'
      \/ pid = pid' /\ \/ Part < Part'
                       \/ Part = Part' /\ \/ Item < Item'
                                          \/ Item = Item' /\ Turn < Turn' ]_scanner
=============================================================================
