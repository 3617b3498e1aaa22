----------------------------- MODULE ScanProofs -----------------------------
(***************************************************************************)
(* What is proved about Scan for every value of its constants, any number  *)
(* of processes, descriptors and files among them: the types, that         *)
(* inode_pool lets no mapped file be listed twice, and that each row is    *)
(* true of its process, although its cells come from several calls and the *)
(* process goes on, or ends, between them.                                 *)
(***************************************************************************)
EXTENDS Scan, SequenceTheorems, Least, TLAPS

-----------------------------------------------------------------------------
(* Helpers.                                                                *)

\* The least entry of a block is one of its entries.
LEMMA LeastIn ==
  ASSUME NEW s, s \subseteq Nat, s # {}
  PROVE  Least(s) \in s
<1>1. \E m \in s : \A n \in s : m <= n
  BY LeastNat
<1> QED BY <1>1 DEF Least

\* readdir() returns entries that it had read, or that are there now.
LEMMA BlockIn ==
  ASSUME NEW left, NEW there, NEW last, NEW block \in Block(left, there, last)
  PROVE  block \subseteq left \cup there
BY DEF Block

\* The rows of the scanner's tables.
ListRow == RowType(Files \cup {Path})
FdRow   == RowType(Files)

\* None is no name of a listed row.
LEMMA NoneApart ==
  None \notin Files \cup {Path} /\ Path \notin Files
BY ScanAssumption

\* Whatever a link leads to is a file of the system.
LEMMA TargetFile ==
  ASSUME TypeOK, NEW p \in Pids, NEW kind \in Kinds \cup {"fd"}, NEW fd \in Fds \cup {-1},
         kind = "fd" => fd \in Fds
  PROVE  Target(p, kind, fd) \in Files \cup {None}
<1>1. CASE kind = "fd"
  BY <1>1 DEF Target, TypeOK
<1>2. CASE kind # "fd"
  BY <1>2, ScanAssumption DEF Target
<1> QED BY <1>1, <1>2

\* A stat() never fails as far as the caller can see.
LEMMA StatTypes ==
  ASSUME NEW f \in Files \cup {None}
  PROVE  /\ FromStat(f, "type") \in {"unknown", "REG", "DIR", "CHR", "FIFO", "SOCK"}
         /\ FromStat(f, "node") \in Nat
         /\ FromStat(f, "mode") \in {"blank", "u"}
BY ScanAssumption DEF FromStat

-----------------------------------------------------------------------------
(* The visit of a process.                                                 *)

CellTypes == {"unknown", "REG", "DIR", "CHR", "FIFO", "SOCK"}

\* A File that is being filled in.
PartRow ==
  [kind : Kinds \cup {"fd", None}, fd : Fds \cup {-1}, mode : {"blank", "u"},
   type : CellTypes \cup {"blank"}, node : Nat, name : Files \cup {Path, None}]

\* Filling one cell in leaves the others.
LEMMA FillKind ==
  ASSUME NEW r \in PartRow, NEW k \in Kinds
  PROVE  /\ [r EXCEPT !.kind = k] \in PartRow
         /\ [r EXCEPT !.kind = k].kind = k /\ [r EXCEPT !.kind = k].fd = r.fd
BY DEF PartRow

\* The same for the name,
LEMMA FillName ==
  ASSUME NEW r \in PartRow, NEW n \in Files \cup {Path, None}
  PROVE  /\ [r EXCEPT !.name = n] \in PartRow
         /\ [r EXCEPT !.name = n].kind = r.kind /\ [r EXCEPT !.name = n].fd = r.fd
         /\ [r EXCEPT !.name = n].type = r.type /\ [r EXCEPT !.name = n].name = n
BY DEF PartRow

\* the type,
LEMMA FillType ==
  ASSUME NEW r \in PartRow, NEW y \in CellTypes
  PROVE  /\ [r EXCEPT !.type = y] \in PartRow
         /\ [r EXCEPT !.type = y].kind = r.kind /\ [r EXCEPT !.type = y].fd = r.fd
         /\ [r EXCEPT !.type = y].name = r.name /\ [r EXCEPT !.type = y].type # "blank"
BY DEF PartRow, CellTypes

\* the mode,
LEMMA FillMode ==
  ASSUME NEW r \in PartRow, NEW m \in {"blank", "u"}
  PROVE  /\ [r EXCEPT !.mode = m] \in PartRow
         /\ [r EXCEPT !.mode = m].kind = r.kind /\ [r EXCEPT !.mode = m].fd = r.fd
BY DEF PartRow

\* and the inode number.
LEMMA FillNode ==
  ASSUME NEW r \in PartRow, NEW d \in Nat
  PROVE  /\ [r EXCEPT !.node = d] \in PartRow
         /\ [r EXCEPT !.node = d].kind = r.kind /\ [r EXCEPT !.node = d].fd = r.fd
         /\ [r EXCEPT !.node = d].name = r.name /\ [r EXCEPT !.node = d].type = r.type
         /\ [r EXCEPT !.node = d].node = d
BY DEF PartRow

\* A File with all its cells is a row.
LEMMA Filled ==
  ASSUME NEW r \in PartRow, r.type # "blank", r.kind \in Kinds \cup {"fd"}
  PROVE  /\ r.name # None => r \in ListRow
         /\ r.name \in Files => r \in FdRow
BY DEF PartRow, ListRow, FdRow, RowType, CellTypes

\* The File that is filled in has the cells that the calls so far have given it.
RowOK ==
  /\ row \in PartRow
  /\ pc \notin {"special", "fd"} => call = 1
  /\ pc = "special" =>
       /\ row.kind \in Kinds /\ call \in 1 .. 3
       /\ call > 1 => row.name # None
       /\ call > 2 => row.type # "blank"
  /\ pc = "fd" =>
       /\ row.kind = "fd" /\ row.fd \in Fds
       /\ call > 2 => row.type # "blank"

\* A visit is about one process; only one of the user gets to descriptors.
VisitOK ==
  /\ RowOK
  /\ pc \notin {"readdir", "done"} => pid \in Pids
  /\ pc \in {"fds", "fd"} => Access[pid] = "own"

\* The scanner's own types; those of the world are the rest of TypeOK.
ScannerOK ==
  /\ pc \in {"readdir", "comm", "status", "special", "maps", "lines", "map", "fds",
             "fd", "done"}
  /\ todo \subseteq Pids /\ pid \in Pids \cup {0}
  /\ call \in 1 .. 4 /\ entries \subseteq Fds
  /\ lines \in Seq([file : Files, deleted : BOOLEAN])
  /\ files \in Seq(ListRow) /\ fdFiles \in Seq(FdRow)
  /\ pool \subseteq Nat
  /\ table \in [Pids -> Seq(ListRow)]
  /\ held \in 0 .. OpenMax

WorldOK ==
  /\ proc \in [Pids -> {"none", "alive", "zombie", "gone"}]
  /\ fdt \in [Pids -> [Fds -> Files \cup {None}]]
  /\ exists \subseteq Files /\ changes \in 0 .. MaxChanges
  /\ opened \in [Pids -> [Fds -> Seq(Files)]] /\ steady \subseteq Pids \X Fds

\* The type invariant, by who writes the variables.
LEMMA TypeParts ==
  TypeOK <=> WorldOK /\ ScannerOK
BY DEF TypeOK, WorldOK, ScannerOK, ListRow, FdRow

\* No row is filled in yet.
LEMMA NoRowOK ==
  /\ NoRow \in PartRow
  /\ NoRow.fd = -1 /\ NoRow.mode = "blank"
BY DEF NoRow, PartRow

\* The world's own steps.
LEMMA WorldTypes ==
  ASSUME WorldOK, World
  PROVE  WorldOK' /\ UNCHANGED scanner
<1>1. \A f \in Files \cup {None} : Opening(f) \in Seq(Files)
  BY DEF Opening
<1>2. ASSUME Change PROVE changes' \in 0 .. MaxChanges
  BY <1>2, ScanAssumption DEF Change, WorldOK
<1>3. ASSUME NEW p \in Pids, Begin(p) PROVE WorldOK' /\ UNCHANGED scanner
  <2>1. opened' \in [Pids -> [Fds -> Seq(Files)]]
    <3>1. [fd \in Fds |-> Opening(Fds0[p][fd])] \in [Fds -> Seq(Files)]
      BY <1>1, ScanAssumption
    <3>2. opened' = [opened EXCEPT ![p] = [fd \in Fds |-> Opening(Fds0[p][fd])]]
      BY <1>3 DEF Begin
    <3> HIDE DEF Opening
    <3> QED BY <3>1, <3>2 DEF WorldOK
  <2>2. fdt' \in [Pids -> [Fds -> Files \cup {None}]]
    BY <1>3, ScanAssumption DEF Begin, WorldOK
  <2>3. proc' \in [Pids -> {"none", "alive", "zombie", "gone"}]
    BY <1>3 DEF Begin, WorldOK
  <2> QED BY <1>2, <1>3, <2>1, <2>2, <2>3 DEF Begin, WorldOK
<1>4. ASSUME NEW p \in Pids, Exit(p) PROVE WorldOK' /\ UNCHANGED scanner
  BY <1>2, <1>4 DEF Exit, WorldOK
<1>5. ASSUME NEW p \in Pids, Reap(p) PROVE WorldOK' /\ UNCHANGED scanner
  BY <1>2, <1>5 DEF Reap, WorldOK
<1>6. ASSUME NEW p \in Pids, NEW fd \in Fds, NEW f \in Openable \cup {None}, SetFd(p, fd, f)
      PROVE  WorldOK' /\ UNCHANGED scanner
  <2>1. f \in Files \cup {None}
    BY ScanAssumption
  <2>2. opened[p][fd] \o Opening(f) \in Seq(Files)
    BY <1>1, <2>1, ConcatProperties DEF WorldOK
  <2>3. opened' \in [Pids -> [Fds -> Seq(Files)]]
    BY <1>6, <2>2 DEF SetFd, WorldOK
  <2>4. fdt' \in [Pids -> [Fds -> Files \cup {None}]]
    BY <1>6, <2>1 DEF SetFd, WorldOK
  <2> QED BY <1>2, <1>6, <2>3, <2>4 DEF SetFd, WorldOK
<1>7. ASSUME NEW f \in Files, Unlink(f) PROVE WorldOK' /\ UNCHANGED scanner
  BY <1>2, <1>7 DEF Unlink, WorldOK
<1> QED BY <1>3, <1>4, <1>5, <1>6, <1>7 DEF World

\* A visit that ends leaves its locals as they were before it.
LEMMA ReturnTypes ==
  ASSUME ScannerOK, Return, table' \in [Pids -> Seq(ListRow)]
  PROVE  ScannerOK' /\ VisitOK'
<1>1. <<>> \in Seq(ListRow) /\ <<>> \in Seq(FdRow) /\ <<>> \in Seq([file : Files, deleted : BOOLEAN])
  BY EmptySeq
<1>2. /\ pc' = "readdir" /\ row' = NoRow /\ call' = 1 /\ lines' = <<>> /\ entries' = {}
      /\ files' = <<>> /\ fdFiles' = <<>> /\ UNCHANGED <<todo, pid, pool, held>>
  BY DEF Return
<1>3. ScannerOK'
  BY <1>1, <1>2 DEF ScannerOK
<1>4. VisitOK'
  BY <1>2, NoRowOK DEF VisitOK, RowOK
<1> QED BY <1>3, <1>4

\* A process that is not pushed, because get_command() or get_user() failed;
LEMMA LeaveOutTypes ==
  ASSUME ScannerOK, LeaveOut
  PROVE  ScannerOK' /\ VisitOK'
BY ReturnTypes DEF LeaveOut, ScannerOK

\* and one that is.
LEMMA KeepTypes ==
  ASSUME ScannerOK, NEW rows \in Seq(ListRow), Keep(rows)
  PROVE  ScannerOK' /\ VisitOK'
BY ReturnTypes DEF Keep, ScannerOK

\* What get_special_file() does with one call, call by call.
SpecialEffect ==
  \/ LeaveOut
  \/ /\ call = 1 /\ call' = 2 /\ Cell("name") # None /\ row' = [row EXCEPT !.name = Cell("name")]
     /\ UNCHANGED <<pc, todo, pid, lines, entries, files, fdFiles, pool, table, held>>
  \/ /\ call = 2 /\ call' = 3 /\ row' = [row EXCEPT !.type = Cell("type")]
     /\ UNCHANGED <<pc, todo, pid, lines, entries, files, fdFiles, pool, table, held>>
  \/ /\ call = 3 /\ call' = 1
     /\ files' = Append(files, [row EXCEPT !.node = Cell("node")])
     /\ pool' = PoolOf([row EXCEPT !.node = Cell("node")])
     /\ \/ row.kind = "txt" /\ pc' = "maps" /\ row' = NoRow
        \/ /\ row.kind \in {"cwd", "rtd"} /\ pc' = pc
           /\ row' = [NoRow EXCEPT !.kind = NextKind[row.kind]]
     /\ UNCHANGED <<todo, pid, lines, entries, fdFiles, table, held>>

\* There are no other cases.
LEMMA SpecialCases ==
  ASSUME VisitOK, SpecialCall
  PROVE  SpecialEffect
<1>1. pc = "special" /\ call \in 1 .. 3 /\ row.kind \in Kinds
  BY DEF VisitOK, RowOK, SpecialCall
<1>2. SpecialCalls[1] = "name" /\ SpecialCalls[2] = "type" /\ SpecialCalls[3] = "node"
      /\ Len(SpecialCalls) = 3
  BY DEF SpecialCalls
<1>3. CASE call = 1
  BY <1>2, <1>3 DEF SpecialCall, SpecialEffect, Err
<1>4. CASE call = 2
  BY <1>2, <1>4 DEF SpecialCall, SpecialEffect, Err
<1>5. CASE call = 3
  <2> DEFINE r == [row EXCEPT !.node = Cell("node")]
  <2>1. row \in PartRow
    BY DEF VisitOK, RowOK
  <2>2. r.kind = row.kind
    BY <2>1
  <2>3. \/ LeaveOut
        \/ /\ files' = Append(files, r) /\ pool' = PoolOf(r) /\ call' = 1
           /\ IF r.kind = "txt" THEN pc' = "maps" /\ row' = NoRow
              ELSE row' = [NoRow EXCEPT !.kind = NextKind[r.kind]] /\ UNCHANGED pc
           /\ UNCHANGED <<todo, pid, lines, entries, fdFiles, table, held>>
    BY <1>2, <1>5 DEF SpecialCall
  <2> HIDE DEF r
  <2>4. r = [row EXCEPT !.node = Cell("node")]
    BY DEF r
  <2> QED BY <1>1, <1>5, <2>2, <2>3, <2>4 DEF SpecialEffect, Kinds
<1> QED BY <1>1, <1>3, <1>4, <1>5

\* What iterate_fd() does with one call, call by call.
FdEffect ==
  \/ Keep(files)
  \/ /\ call = 1 /\ call' = 2 /\ row' = [row EXCEPT !.mode = Cell("mode")]
     /\ UNCHANGED <<pc, fdFiles, todo, pid, lines, entries, files, pool, table, held>>
  \/ /\ call = 2 /\ call' = 3 /\ row' = [row EXCEPT !.type = Cell("type")]
     /\ UNCHANGED <<pc, fdFiles, todo, pid, lines, entries, files, pool, table, held>>
  \/ /\ call = 3 /\ call' = 4 /\ row' = [row EXCEPT !.node = Cell("node")]
     /\ UNCHANGED <<pc, fdFiles, todo, pid, lines, entries, files, pool, table, held>>
  \/ /\ call = 4 /\ call' = 1 /\ pc' = "fds" /\ Cell("name") # None
     /\ row' = [row EXCEPT !.name = Cell("name")]
     /\ fdFiles' = Append(fdFiles, [row EXCEPT !.name = Cell("name")])
     /\ UNCHANGED <<todo, pid, lines, entries, files, pool, table, held>>

\* There are no other cases.
LEMMA FdCases ==
  ASSUME ScannerOK, FdCall
  PROVE  FdEffect
<1>1. call \in 1 .. 4
  BY DEF ScannerOK
<1>2. /\ FdCalls[1] = "mode" /\ FdCalls[2] = "type" /\ FdCalls[3] = "node"
      /\ FdCalls[4] = "name" /\ Len(FdCalls) = 4
  BY DEF FdCalls
<1>3. files \o Failed = files
  BY ConcatEmptySeq DEF Failed, ScannerOK
<1>4. CASE call = 1
  BY <1>2, <1>4 DEF FdCall, FdEffect, Err
<1>5. CASE call = 2
  BY <1>2, <1>5 DEF FdCall, FdEffect, Err
<1>6. CASE call = 3
  BY <1>2, <1>6 DEF FdCall, FdEffect, Err
<1>7. CASE call = 4
  <2>1. CASE Cell("name") = None
    BY <1>2, <1>3, <1>7, <2>1 DEF FdCall, FdEffect, Err
  <2>2. CASE Cell("name") # None
    BY <1>2, <1>7, <2>2 DEF FdCall, FdEffect, Err
  <2> QED BY <2>1, <2>2
<1> QED BY <1>1, <1>4, <1>5, <1>6, <1>7

\* The cells of the File that is filled in have their types; for a descriptor
\* of the user the name is a file.
LEMMA CellTypesOK ==
  ASSUME TypeOK, VisitOK, pc \in {"special", "fd"}
  PROVE  /\ Cell("type") \in CellTypes /\ Cell("node") \in Nat /\ Cell("mode") \in {"blank", "u"}
         /\ Cell("name") \in Files \cup {Path, None}
         /\ pc = "fd" => Cell("name") \in Files \cup {None}
<1>1. /\ pid \in Pids /\ row.kind \in Kinds \cup {"fd"} /\ row.fd \in Fds \cup {-1}
      /\ row.kind = "fd" => row.fd \in Fds
  <2>1. "fd" \notin Kinds
    BY DEF Kinds
  <2> QED BY <2>1 DEF VisitOK, RowOK, PartRow
<1>2. Target(pid, row.kind, row.fd) \in Files \cup {None}
  BY <1>1, TargetFile
<1>3. Cell("type") \in CellTypes /\ Cell("node") \in Nat /\ Cell("mode") \in {"blank", "u"}
  BY <1>2, StatTypes DEF Cell, CellTypes
<1>4. Cell("name") \in Files \cup {Path, None}
  BY <1>2 DEF Cell, Name
<1>5. pc = "fd" => Cell("name") \in Files \cup {None}
  BY <1>2 DEF Cell, Name, Denied, VisitOK
<1> QED BY <1>3, <1>4, <1>5

\* One more cell of the links' File.
LEMMA SpecialTypes ==
  ASSUME TypeOK, VisitOK, SpecialCall
  PROVE  ScannerOK' /\ VisitOK'
<1>1. pc = "special" /\ pid \in Pids /\ ScannerOK /\ SpecialEffect
  BY SpecialCases, TypeParts DEF SpecialCall, VisitOK
<1>2. PICK n, y, d : /\ n = Cell("name") /\ y = Cell("type") /\ d = Cell("node")
                     /\ y \in CellTypes /\ d \in Nat /\ n \in Files \cup {Path, None}
  BY <1>1, CellTypesOK
<1>3. /\ row \in PartRow /\ row.kind \in Kinds
      /\ call > 1 => row.name # None
      /\ call > 2 => row.type # "blank"
  BY <1>1 DEF VisitOK, RowOK
<1>4. ASSUME call' \in 2 .. 3, row' \in PartRow, row'.kind = row.kind,
             row'.name # None, call' > 2 => row'.type # "blank",
             UNCHANGED <<pc, todo, pid, lines, entries, files, fdFiles, pool, table, held>>
      PROVE  ScannerOK' /\ VisitOK'
  <2>1. ScannerOK'
    BY <1>1, <1>4 DEF ScannerOK
  <2>2. RowOK'
    BY <1>1, <1>3, <1>4 DEF RowOK
  <2> QED BY <1>1, <1>4, <2>1, <2>2 DEF VisitOK
<1>5. CASE LeaveOut
  BY <1>1, <1>5, LeaveOutTypes
<1>6. CASE call = 1 /\ call' = 2 /\ n # None /\ row' = [row EXCEPT !.name = n]
           /\ UNCHANGED <<pc, todo, pid, lines, entries, files, fdFiles, pool, table, held>>
  BY <1>2, <1>3, <1>4, <1>6, FillName
<1>7. CASE call = 2 /\ call' = 3 /\ row' = [row EXCEPT !.type = y]
           /\ UNCHANGED <<pc, todo, pid, lines, entries, files, fdFiles, pool, table, held>>
  BY <1>2, <1>3, <1>4, <1>7, FillType
<1>8. CASE /\ call = 3 /\ call' = 1
           /\ files' = Append(files, [row EXCEPT !.node = d])
           /\ pool' = PoolOf([row EXCEPT !.node = d])
           /\ \/ row.kind = "txt" /\ pc' = "maps" /\ row' = NoRow
              \/ /\ row.kind \in {"cwd", "rtd"} /\ pc' = pc
                 /\ row' = [NoRow EXCEPT !.kind = NextKind[row.kind]]
           /\ UNCHANGED <<todo, pid, lines, entries, fdFiles, table, held>>
  <2> DEFINE r == [row EXCEPT !.node = d]
  <2>1. /\ r \in PartRow /\ r.node = d
        /\ r.kind = row.kind /\ r.name = row.name /\ r.type = row.type
    BY <1>2, <1>3, FillNode
  <2>2. r \in ListRow
    <3> HIDE DEF r
    <3>1. row.name # None /\ row.type # "blank"
      BY <1>3, <1>8
    <3> QED BY <1>3, <2>1, <3>1, Filled
  <2>3. files' = Append(files, r) /\ pool' = PoolOf(r)
    BY <1>8
  <2> HIDE DEF r
  <2>4. files' \in Seq(ListRow)
    BY <1>1, <2>2, <2>3, AppendProperties DEF ScannerOK
  <2>5. pool' \subseteq Nat
    BY <1>1, <1>2, <2>1, <2>3 DEF PoolOf, ScannerOK
  <2>6. /\ pc' \in {"maps", "special"} /\ call' = 1
        /\ UNCHANGED <<todo, pid, lines, entries, fdFiles, table, held>>
    BY <1>1, <1>8
  <2>7. ScannerOK'
    BY <1>1, <2>4, <2>5, <2>6 DEF ScannerOK
  <2>8. RowOK'
    <3>1. CASE pc' = "maps" /\ row' = NoRow
      BY <2>6, <3>1, NoRowOK DEF RowOK
    <3>2. CASE row.kind \in {"cwd", "rtd"} /\ pc' = pc /\ row' = [NoRow EXCEPT !.kind = NextKind[row.kind]]
      <4>1. PICK k \in Kinds : k = NextKind[row.kind]
        BY <3>2 DEF NextKind, Kinds
      <4>2. row' \in PartRow /\ row'.kind = k
        BY <3>2, <4>1, NoRowOK, FillKind
      <4> QED BY <1>1, <2>6, <3>2, <4>2 DEF RowOK
    <3> QED BY <1>8, <3>1, <3>2
  <2> QED BY <1>1, <2>6, <2>7, <2>8 DEF VisitOK
<1> QED BY <1>1, <1>2, <1>5, <1>6, <1>7, <1>8 DEF SpecialEffect

\* One more cell of a descriptor's File.
LEMMA FdTypes ==
  ASSUME TypeOK, VisitOK, FdCall
  PROVE  ScannerOK' /\ VisitOK'
<1>1. pc = "fd" /\ pid \in Pids /\ Access[pid] = "own" /\ ScannerOK /\ FdEffect
  BY FdCases, TypeParts DEF FdCall, VisitOK
<1>2. PICK n, y, d, m :
         /\ n = Cell("name") /\ y = Cell("type") /\ d = Cell("node") /\ m = Cell("mode")
         /\ y \in CellTypes /\ d \in Nat /\ m \in {"blank", "u"} /\ n \in Files \cup {None}
  BY <1>1, CellTypesOK
<1>3. /\ row \in PartRow /\ row.kind = "fd" /\ row.fd \in Fds
      /\ call > 2 => row.type # "blank"
  BY <1>1 DEF VisitOK, RowOK
<1>4. ASSUME call' \in 2 .. 4, row' \in PartRow, row'.kind = row.kind, row'.fd = row.fd,
             call' > 2 => row'.type # "blank",
             UNCHANGED <<pc, fdFiles, todo, pid, lines, entries, files, pool, table, held>>
      PROVE  ScannerOK' /\ VisitOK'
  <2>1. ScannerOK'
    BY <1>1, <1>4 DEF ScannerOK
  <2>2. RowOK'
    BY <1>1, <1>3, <1>4 DEF RowOK
  <2> QED BY <1>1, <1>4, <2>1, <2>2 DEF VisitOK
<1>5. CASE Keep(files)
  BY <1>1, <1>5, KeepTypes DEF ScannerOK
<1>6. CASE call = 1 /\ call' = 2 /\ row' = [row EXCEPT !.mode = m]
           /\ UNCHANGED <<pc, fdFiles, todo, pid, lines, entries, files, pool, table, held>>
  <2> DEFINE r == [row EXCEPT !.mode = m]
  <2>1. r \in PartRow /\ r.kind = row.kind /\ r.fd = row.fd
    BY <1>2, <1>3, FillMode
  <2>2. row' = r
    BY <1>6
  <2> HIDE DEF r
  <2> QED BY <1>4, <1>6, <2>1, <2>2
<1>7. CASE call = 2 /\ call' = 3 /\ row' = [row EXCEPT !.type = y]
           /\ UNCHANGED <<pc, fdFiles, todo, pid, lines, entries, files, pool, table, held>>
  BY <1>2, <1>3, <1>4, <1>7, FillType
<1>8. CASE call = 3 /\ call' = 4 /\ row' = [row EXCEPT !.node = d]
           /\ UNCHANGED <<pc, fdFiles, todo, pid, lines, entries, files, pool, table, held>>
  BY <1>2, <1>3, <1>4, <1>8, FillNode
<1>9. CASE /\ call = 4 /\ call' = 1 /\ pc' = "fds" /\ n # None
           /\ row' = [row EXCEPT !.name = n]
           /\ fdFiles' = Append(fdFiles, [row EXCEPT !.name = n])
           /\ UNCHANGED <<todo, pid, lines, entries, files, pool, table, held>>
  <2> DEFINE r == [row EXCEPT !.name = n]
  <2>1. /\ r \in PartRow /\ r.name = n
        /\ r.kind = row.kind /\ r.type = row.type
    BY <1>2, <1>3, FillName
  <2>2. r \in FdRow
    <3> HIDE DEF r
    <3>1. n \in Files /\ row.type # "blank"
      BY <1>2, <1>3, <1>9
    <3> QED BY <1>3, <2>1, <3>1, Filled
  <2>3. row' = r /\ fdFiles' = Append(fdFiles, r) /\ call' = 1 /\ pc' = "fds"
        /\ UNCHANGED <<todo, pid, lines, entries, files, pool, table, held>>
    BY <1>9
  <2> HIDE DEF r
  <2>4. fdFiles' \in Seq(FdRow)
    BY <1>1, <2>2, <2>3, AppendProperties DEF ScannerOK
  <2>5. ScannerOK'
    BY <1>1, <2>3, <2>4 DEF ScannerOK
  <2>6. RowOK'
    BY <2>1, <2>3 DEF RowOK
  <2> QED BY <1>1, <2>3, <2>5, <2>6 DEF VisitOK
<1> QED BY <1>1, <1>2, <1>5, <1>6, <1>7, <1>8, <1>9 DEF FdEffect

\* The other steps of iterate_proc() and iterate_pid().
LEMMA NextPidTypes ==
  ASSUME TypeOK, VisitOK, NextPid
  PROVE  ScannerOK' /\ VisitOK'
<1>1. ScannerOK /\ pc = "readdir" /\ row \in PartRow /\ call = 1
  BY TypeParts DEF NextPid, VisitOK, RowOK
<1>2. PICK block \in Block(todo, {p \in Pids : There(p)}, pid) :
         IF block = {} THEN pc' = "done" /\ UNCHANGED <<todo, pid, pool>>
         ELSE /\ pid' = Least(block) /\ todo' = block \ {Least(block)}
              /\ pool' = NewPool
              /\ pc' = "comm"
  BY DEF NextPid
<1>3. UNCHANGED <<row, call, lines, entries, files, fdFiles, table, held>>
  BY DEF NextPid, locals
<1>4. block \subseteq Pids /\ block \subseteq Nat
  <2>1. block \subseteq todo \cup {p \in Pids : There(p)}
    BY BlockIn
  <2>2. todo \subseteq Pids
    BY <1>1 DEF ScannerOK
  <2> QED BY <2>1, <2>2, ScanAssumption
<1>5. CASE block = {}
  BY <1>1, <1>2, <1>3, <1>5 DEF ScannerOK, VisitOK, RowOK
<1>6. CASE block # {}
  <2>1. Least(block) \in Pids
    BY <1>4, <1>6, LeastIn
  <2>2. pid' \in Pids /\ todo' \subseteq Pids /\ pool' = {} /\ pc' = "comm"
    BY <1>2, <1>4, <1>6, <2>1 DEF NewPool
  <2>3. ScannerOK'
    BY <1>1, <1>3, <2>2 DEF ScannerOK
  <2> QED BY <1>1, <1>3, <2>2, <2>3 DEF VisitOK, RowOK
<1> QED BY <1>5, <1>6

\* The command and the user of the process.
LEMMA CommandTypes ==
  ASSUME TypeOK, VisitOK, GetCommand \/ GetUser
  PROVE  ScannerOK' /\ VisitOK'
<1>1. ScannerOK /\ pc \in {"comm", "status"} /\ row \in PartRow /\ call = 1 /\ pid \in Pids
  BY TypeParts DEF GetCommand, GetUser, VisitOK, RowOK
<1>2. CASE LeaveOut
  BY <1>1, <1>2, LeaveOutTypes
<1>3. CASE pc' = "status" /\ UNCHANGED <<todo, pid, locals, pool, table, held>>
  BY <1>1, <1>3 DEF locals, ScannerOK, VisitOK, RowOK
<1>4. CASE /\ pc' = "special" /\ row' = [NoRow EXCEPT !.kind = "cwd"]
           /\ UNCHANGED <<todo, pid, call, lines, entries, files, fdFiles, pool, table, held>>
  <2>1. "cwd" \in Kinds
    BY DEF Kinds
  <2>2. row' \in PartRow /\ row'.kind \in Kinds
    BY <1>4, <2>1, NoRowOK, FillKind
  <2>3. ScannerOK'
    BY <1>1, <1>4 DEF ScannerOK
  <2> QED BY <1>1, <1>4, <2>2, <2>3 DEF VisitOK, RowOK
<1> QED BY <1>2, <1>3, <1>4 DEF GetCommand, GetUser

\* Its maps are opened and read.
LEMMA MapsTypes ==
  ASSUME TypeOK, VisitOK, OpenMaps \/ ReadMaps
  PROVE  ScannerOK' /\ VisitOK'
<1>1. ScannerOK /\ pc \in {"maps", "lines"} /\ row \in PartRow /\ call = 1 /\ pid \in Pids
  BY TypeParts DEF OpenMaps, ReadMaps, VisitOK, RowOK
<1>2. CASE LeaveOut
  BY <1>1, <1>2, LeaveOutTypes
<1>3. CASE pc' = "lines" /\ UNCHANGED <<todo, pid, locals, pool, table, held>>
  BY <1>1, <1>3 DEF locals, ScannerOK, VisitOK, RowOK
<1>4. CASE ReadMaps
  <2>1. /\ pc' = "map"
        /\ UNCHANGED <<todo, pid, row, call, entries, files, fdFiles, pool, table, held>>
    BY <1>4 DEF ReadMaps
  <2>2. Maps[pid] \in Seq(Files)
    BY <1>1, ScanAssumption
  <2>3. [i \in DOMAIN Maps[pid] |-> [file |-> Maps[pid][i], deleted |-> Maps[pid][i] \notin exists]]
          \in Seq([file : Files, deleted : BOOLEAN])
    <3>1. PICK n \in Nat : Maps[pid] \in [1 .. n -> Files]
      BY <2>2, LenProperties
    <3> DEFINE m == Maps[pid]
    <3>2. [i \in 1 .. n |-> [file |-> m[i], deleted |-> m[i] \notin exists]]
            \in [1 .. n -> [file : Files, deleted : BOOLEAN]]
      BY <3>1
    <3>3. [i \in 1 .. n |-> [file |-> m[i], deleted |-> m[i] \notin exists]]
            \in Seq([file : Files, deleted : BOOLEAN])
      BY <3>2
    <3> QED BY <3>1, <3>3
  <2>4. lines' \in Seq([file : Files, deleted : BOOLEAN])
    BY <1>4, <2>3, EmptySeq DEF ReadMaps
  <2>5. ScannerOK'
    BY <1>1, <2>1, <2>4 DEF ScannerOK
  <2> QED BY <1>1, <2>1, <2>5 DEF VisitOK, RowOK
<1> QED BY <1>2, <1>3, <1>4 DEF OpenMaps

\* The row of a mapped file.
LEMMA MemRow ==
  ASSUME NEW f \in Files, NEW type \in CellTypes \cup {"DEL"}
  PROVE  LET r == [NoRow EXCEPT !.kind = "mem", !.type = type, !.node = Node[f], !.name = f]
         IN  r \in ListRow /\ r.kind = "mem" /\ r.node = Node[f]
<1>1. Node[f] \in Nat
  BY ScanAssumption
<1> QED BY <1>1 DEF NoRow, ListRow, RowType, CellTypes

\* A line of maps that is used: a row if its node is not in the pool.
Mapped(r, f) ==
  /\ r \in ListRow /\ r.kind = "mem" /\ r.node = Node[f]
  /\ Node[f] \notin pool
  /\ files' = Append(files, r) /\ pool' = pool \cup {Node[f]}

\* A line adds such a row, or nothing.
LEMMA MapEffect ==
  ASSUME TypeOK, MapLine
  PROVE  /\ lines' = Tail(lines)
         /\ UNCHANGED <<pc, todo, pid, row, call, entries, fdFiles, table, held>>
         /\ \/ UNCHANGED <<files, pool>>
            \/ \E f \in Files : \E r \in ListRow : Mapped(r, f)
<1>1. lines \in Seq([file : Files, deleted : BOOLEAN]) /\ lines # <<>>
  BY TypeParts DEF ScannerOK, MapLine
<1>2. Head(lines) \in [file : Files, deleted : BOOLEAN]
  BY <1>1, HeadTailProperties
<1> DEFINE f == Head(lines).file
           type == IF Head(lines).deleted THEN "DEL"
                   ELSE FromStat(IF f \in exists THEN f ELSE None, "type")
           r == [NoRow EXCEPT !.kind = "mem", !.type = type, !.node = Node[f], !.name = f]
<1>3. f \in Files
  BY <1>2
<1>4. type \in CellTypes \cup {"DEL"}
  <2>1. (IF f \in exists THEN f ELSE None) \in Files \cup {None}
    BY <1>3
  <2> HIDE DEF f
  <2>2. FromStat(IF f \in exists THEN f ELSE None, "type") \in CellTypes
    BY <2>1, StatTypes DEF CellTypes
  <2> QED BY <2>2
<1>5. r \in ListRow /\ r.kind = "mem" /\ r.node = Node[f]
  <2> HIDE DEF f, type
  <2> QED BY <1>3, <1>4, MemRow
<1>6. /\ lines' = Tail(lines)
      /\ UNCHANGED <<pc, todo, pid, row, call, entries, fdFiles, table, held>>
      /\ IF Node[f] \in pool THEN UNCHANGED <<files, pool>>
         ELSE files' = Append(files, r) /\ pool' = pool \cup {Node[f]}
  BY DEF MapLine
<1> HIDE DEF f, type, r
<1> QED BY <1>3, <1>5, <1>6 DEF Mapped

\* So the tables keep their types.
LEMMA MapTypes ==
  ASSUME TypeOK, VisitOK, MapLine
  PROVE  ScannerOK' /\ VisitOK'
<1>1. ScannerOK /\ pc = "map" /\ lines # <<>>
  BY TypeParts DEF MapLine
<1>2. /\ lines' = Tail(lines)
      /\ UNCHANGED <<pc, todo, pid, row, call, entries, fdFiles, table, held>>
  BY MapEffect
<1>3. files' \in Seq(ListRow) /\ pool' \subseteq Nat
  <2>1. files \in Seq(ListRow) /\ pool \subseteq Nat
    BY <1>1 DEF ScannerOK
  <2>2. CASE UNCHANGED <<files, pool>>
    BY <2>1, <2>2
  <2>3. ASSUME NEW f \in Files, NEW r, Mapped(r, f) PROVE <1>3!:
    <3>1. r \in ListRow /\ files' = Append(files, r) /\ pool' = pool \cup {Node[f]}
      BY <2>3 DEF Mapped
    <3>2. Node[f] \in Nat
      BY ScanAssumption
    <3>3. Append(files, r) \in Seq(ListRow)
      BY <2>1, <3>1, AppendProperties
    <3> QED BY <2>1, <3>1, <3>2, <3>3
  <2> QED BY <2>2, <2>3, MapEffect
<1>4. lines' \in Seq([file : Files, deleted : BOOLEAN])
  BY <1>1, <1>2, HeadTailProperties DEF ScannerOK
<1>5. ScannerOK'
  BY <1>1, <1>2, <1>3, <1>4 DEF ScannerOK
<1> QED BY <1>2, <1>5 DEF VisitOK, RowOK

\* The descriptor that is never closed is below the limit.
LEMMA OpenFdsTypes ==
  ASSUME TypeOK, VisitOK, OpenFds
  PROVE  ScannerOK' /\ VisitOK'
<1>1. ScannerOK /\ pc = "map" /\ pid \in Pids
  BY TypeParts DEF OpenFds, VisitOK
<1>2. CASE Keep(files)
  BY <1>1, <1>2, KeepTypes DEF ScannerOK
<1>3. CASE /\ Room /\ There(pid) /\ Access[pid] = "own"
           /\ held' = held + 1 /\ pc' = "fds"
           /\ UNCHANGED <<todo, pid, locals, pool, table>>
  <2>1. held' \in 0 .. OpenMax
    BY <1>1, <1>3, ScanAssumption DEF Room, ScannerOK
  <2>2. UNCHANGED <<row, call, lines, entries, files, fdFiles>>
    BY <1>3 DEF locals
  <2>3. ScannerOK'
    BY <1>1, <1>3, <2>1, <2>2 DEF ScannerOK
  <2> QED BY <1>1, <1>3, <2>2, <2>3 DEF VisitOK, RowOK
<1> QED BY <1>2, <1>3 DEF OpenFds

\* The next descriptor, or the end of the directory.
LEMMA NextFdTypes ==
  ASSUME TypeOK, VisitOK, NextFd
  PROVE  ScannerOK' /\ VisitOK'
<1>1. ScannerOK /\ pc = "fds" /\ pid \in Pids /\ Access[pid] = "own" /\ call = 1
  BY TypeParts DEF NextFd, VisitOK, RowOK
<1>2. PICK block \in Block(entries, {fd \in Fds : fdt[pid][fd] # None}, row.fd) :
         IF block = {} THEN Keep(files \o fdFiles)
         ELSE /\ row' = [NoRow EXCEPT !.kind = "fd", !.fd = Least(block)]
              /\ entries' = block \ {Least(block)}
              /\ pc' = "fd"
              /\ UNCHANGED <<todo, pid, call, lines, files, fdFiles, pool, table, held>>
  BY DEF NextFd
<1>3. block \subseteq Fds /\ block \subseteq Nat
  <2>1. block \subseteq entries \cup {fd \in Fds : fdt[pid][fd] # None}
    BY BlockIn
  <2>2. entries \subseteq Fds
    BY <1>1 DEF ScannerOK
  <2> QED BY <2>1, <2>2, ScanAssumption
<1>4. CASE block = {}
  <2>1. FdRow \subseteq ListRow
    BY DEF FdRow, ListRow, RowType
  <2>2. files \o fdFiles \in Seq(ListRow)
    BY <1>1, <2>1, ConcatProperties DEF ScannerOK
  <2> QED BY <1>1, <1>2, <1>4, <2>2, KeepTypes
<1>5. CASE block # {}
  <2>1. PICK fd \in Fds : fd = Least(block)
    BY <1>3, <1>5, LeastIn
  <2>2. row' = [NoRow EXCEPT !.kind = "fd", !.fd = fd] /\ entries' \subseteq Fds /\ pc' = "fd"
        /\ UNCHANGED <<todo, pid, call, lines, files, fdFiles, pool, table, held>>
    BY <1>2, <1>3, <1>5, <2>1
  <2>3. row' \in PartRow /\ row'.kind = "fd" /\ row'.fd = fd
    BY <2>2 DEF NoRow, PartRow
  <2>4. ScannerOK'
    BY <1>1, <2>2 DEF ScannerOK
  <2> QED BY <1>1, <2>2, <2>3, <2>4 DEF VisitOK, RowOK
<1> QED BY <1>4, <1>5

\* Every call of the scanner keeps its types.
LEMMA StepTypes ==
  ASSUME TypeOK, VisitOK, Step
  PROVE  ScannerOK' /\ VisitOK'
BY NextPidTypes, CommandTypes, SpecialTypes, MapsTypes, MapTypes, OpenFdsTypes, NextFdTypes,
   FdTypes DEF Step

\* The inductive step.
LEMMA TypesStep ==
  TypeOK /\ VisitOK /\ [Next]_vars => TypeOK' /\ VisitOK'
<1> SUFFICES ASSUME TypeOK, VisitOK, [Next]_vars PROVE TypeOK' /\ VisitOK'
  OBVIOUS
<1>1. WorldOK /\ ScannerOK
  BY TypeParts
<1>2. SUFFICES WorldOK' /\ ScannerOK' /\ VisitOK'
  BY DEF TypeOK, WorldOK, ScannerOK, ListRow, FdRow
<1>3. ASSUME UNCHANGED world PROVE WorldOK'
  BY <1>1, <1>3 DEF world, WorldOK
<1>4. ASSUME UNCHANGED scanner PROVE ScannerOK' /\ VisitOK'
  BY <1>1, <1>4 DEF scanner, locals, ScannerOK, VisitOK, RowOK
<1>5. CASE Step /\ UNCHANGED world
  BY <1>3, <1>5, StepTypes
<1>6. CASE World
  BY <1>1, <1>4, <1>6, WorldTypes
<1>7. CASE (Output /\ UNCHANGED world) \/ UNCHANGED vars
  BY <1>3, <1>4, <1>7 DEF Output, vars
<1> QED BY <1>5, <1>6, <1>7 DEF Next

\* The scan begins with the right types.
LEMMA TypesInit ==
  Init => TypeOK /\ VisitOK
<1> SUFFICES ASSUME Init PROVE WorldOK /\ ScannerOK /\ VisitOK
  BY TypeParts
<1>1. fdt \in [Pids -> [Fds -> Files \cup {None}]]
  BY ScanAssumption DEF Init
<1>2. \A f \in Files \cup {None} : Opening(f) \in Seq(Files)
  BY DEF Opening
<1>3. opened \in [Pids -> [Fds -> Seq(Files)]]
  <2>1. opened = [p \in Pids |-> [fd \in Fds |-> Opening(fdt[p][fd])]]
    BY DEF Init
  <2> QED BY <1>1, <1>2, <2>1
<1>4. steady \subseteq Pids \X Fds
  BY DEF Init
<1>5. WorldOK
  BY <1>1, <1>3, <1>4, ScanAssumption DEF Init, WorldOK
<1>6. /\ <<>> \in Seq(ListRow) /\ <<>> \in Seq(FdRow)
      /\ <<>> \in Seq([file : Files, deleted : BOOLEAN])
  BY EmptySeq
<1>7. ScannerOK
  BY <1>6, ScanAssumption DEF Init, ScannerOK
<1>8. VisitOK
  BY NoRowOK DEF Init, VisitOK, RowOK
<1> QED BY <1>5, <1>7, <1>8

\* The inductive invariant of the types.
LEMMA TypesAlways == Spec => [](TypeOK /\ VisitOK)
BY TypesInit, TypesStep, PTL DEF Spec

\* Every variable has its type, and a row that is pushed has a name, whatever
\* the scanned processes do between two calls.
THEOREM TypeCorrect == Spec => []TypeOK
BY TypesAlways, PTL

-----------------------------------------------------------------------------
(* The pool.                                                               *)

IsMap(r) == r.kind \in {"txt", "mem"}

\* No two rows of a sequence are of one mapped file.
OnceEach(s) ==
  \A i, j \in DOMAIN s : IsMap(s[i]) /\ IsMap(s[j]) /\ s[i].node = s[j].node => i = j

\* Each mapped file among the rows is in the pool.
Pooled(s, inPool) == \A i \in DOMAIN s : IsMap(s[i]) => s[i].node \in inPool

NoMaps(s) == \A i \in DOMAIN s : ~IsMap(s[i])

\* The pool has the mapped files of the process that is visited: there are none
\* before its program is inserted, and descriptors are none.
PoolInv ==
  /\ pc \in {"readdir", "comm", "status"} => files = <<>>
  /\ pc = "special" => NoMaps(files)
  /\ OnceEach(files) /\ Pooled(files, pool)
  /\ NoMaps(fdFiles)
  /\ \A p \in Pids : OnceEach(table[p])

\* A row that is no mapped file, or whose file is not in the pool, can be added.
LEMMA AppendOnce ==
  ASSUME NEW S, NEW s \in Seq(S), NEW r \in S, NEW inPool,
         OnceEach(s), Pooled(s, inPool), IsMap(r) => r.node \notin inPool
  PROVE  OnceEach(Append(s, r)) /\ Pooled(Append(s, r), inPool \cup {r.node})
<1> DEFINE a == Append(s, r)
<1>1. /\ Len(s) \in Nat /\ DOMAIN s = 1 .. Len(s) /\ DOMAIN a = 1 .. Len(s) + 1
      /\ a[Len(s) + 1] = r /\ \A i \in 1 .. Len(s) : a[i] = s[i]
  BY AppendProperties, LenProperties
<1> HIDE DEF a
<1>2. OnceEach(a)
  <2> SUFFICES ASSUME NEW i \in 1 .. Len(s) + 1, NEW j \in 1 .. Len(s) + 1,
                      IsMap(a[i]), IsMap(a[j]), a[i].node = a[j].node
               PROVE  i = j
    BY <1>1 DEF OnceEach
  <2>1. CASE i \in 1 .. Len(s) /\ j \in 1 .. Len(s)
    BY <1>1, <2>1 DEF OnceEach
  <2>2. CASE i \in 1 .. Len(s) /\ j = Len(s) + 1
    BY <1>1, <2>2 DEF Pooled
  <2>3. CASE i = Len(s) + 1 /\ j \in 1 .. Len(s)
    BY <1>1, <2>3 DEF Pooled
  <2>4. CASE i = Len(s) + 1 /\ j = Len(s) + 1
    BY <2>4
  <2>5. \A k \in 1 .. Len(s) + 1 : k \in 1 .. Len(s) \/ k = Len(s) + 1
    BY <1>1
  <2> QED BY <2>1, <2>2, <2>3, <2>4, <2>5
<1>3. Pooled(a, inPool \cup {r.node})
  <2> SUFFICES ASSUME NEW i \in 1 .. Len(s) + 1, IsMap(a[i])
               PROVE  a[i].node \in inPool \cup {r.node}
    BY <1>1 DEF Pooled
  <2>1. CASE i \in 1 .. Len(s)
    BY <1>1, <2>1 DEF Pooled
  <2>2. CASE i = Len(s) + 1
    BY <1>1, <2>2
  <2> QED BY <1>1, <2>1, <2>2
<1> QED BY <1>2, <1>3 DEF a

\* A row that is no mapped file leaves the pool right.
LEMMA AppendOther ==
  ASSUME NEW S, NEW s \in Seq(S), NEW r \in S, ~IsMap(r)
  PROVE  /\ OnceEach(s) => OnceEach(Append(s, r))
         /\ \A inPool : Pooled(s, inPool) => Pooled(Append(s, r), inPool)
         /\ NoMaps(s) => NoMaps(Append(s, r))
<1> DEFINE a == Append(s, r)
<1>1. /\ Len(s) \in Nat /\ DOMAIN s = 1 .. Len(s) /\ DOMAIN a = 1 .. Len(s) + 1
      /\ a[Len(s) + 1] = r /\ \A i \in 1 .. Len(s) : a[i] = s[i]
  BY AppendProperties, LenProperties
<1> HIDE DEF a
<1>2. \A k \in 1 .. Len(s) + 1 : IsMap(a[k]) => k \in 1 .. Len(s) /\ a[k] = s[k]
  BY <1>1
<1>3. OnceEach(s) => OnceEach(a)
  BY <1>1, <1>2 DEF OnceEach
<1>4. \A inPool : Pooled(s, inPool) => Pooled(a, inPool)
  BY <1>1, <1>2 DEF Pooled
<1>5. NoMaps(s) => NoMaps(a)
  BY <1>1, <1>2 DEF NoMaps
<1> QED BY <1>3, <1>4, <1>5 DEF a

\* The descriptors follow the other rows and change nothing.
LEMMA ConcatOnce ==
  ASSUME NEW s \in Seq(ListRow), NEW t \in Seq(ListRow), OnceEach(s), NoMaps(t)
  PROVE  OnceEach(s \o t)
<1> DEFINE c == s \o t
<1>1. /\ Len(s) \in Nat /\ DOMAIN s = 1 .. Len(s)
      /\ Len(t) \in Nat /\ DOMAIN t = 1 .. Len(t)
      /\ DOMAIN c = 1 .. Len(s) + Len(t)
      /\ \A i \in 1 .. Len(s) + Len(t) : c[i] = IF i <= Len(s) THEN s[i] ELSE t[i - Len(s)]
  BY ConcatProperties, LenProperties
<1> HIDE DEF c
<1>2. \A k \in DOMAIN c : IsMap(c[k]) => k \in DOMAIN s /\ c[k] = s[k]
  <2> SUFFICES ASSUME NEW k \in 1 .. Len(s) + Len(t), IsMap(c[k])
               PROVE  k \in 1 .. Len(s) /\ c[k] = s[k]
    BY <1>1
  <2>1. CASE k <= Len(s)
    BY <1>1, <2>1
  <2>2. CASE ~(k <= Len(s))
    <3>1. k - Len(s) \in 1 .. Len(t) /\ c[k] = t[k - Len(s)]
      BY <1>1, <2>2
    <3> QED BY <1>1, <3>1 DEF NoMaps
  <2> QED BY <2>1, <2>2
<1>3. OnceEach(c)
  BY <1>2 DEF OnceEach
<1> QED BY <1>3 DEF c

\* A visit that ends pushes nothing, or rows that name each mapped file once.
LEMMA ReturnPool ==
  ASSUME TypeOK, PoolInv, NEW rows, OnceEach(rows), LeaveOut \/ Keep(rows)
  PROVE  PoolInv'
<1>1. pc' = "readdir" /\ files' = <<>> /\ fdFiles' = <<>>
  BY DEF LeaveOut, Keep, Return
<1>2. DOMAIN files' = {} /\ DOMAIN fdFiles' = {}
  BY <1>1
<1>3. OnceEach(files') /\ Pooled(files', pool') /\ NoMaps(fdFiles')
  BY <1>2 DEF OnceEach, Pooled, NoMaps
<1>4. \A p \in Pids : OnceEach(table'[p])
  <2>1. \A p \in Pids : table'[p] = table[p] \/ table'[p] = rows
    BY TypeParts DEF LeaveOut, Keep, ScannerOK
  <2>2. \A p \in Pids : OnceEach(table[p])
    BY DEF PoolInv
  <2> HIDE DEF OnceEach
  <2> QED BY <2>1, <2>2
<1> QED BY <1>1, <1>3, <1>4 DEF PoolInv

\* Nothing is inserted and no row is added: only the place in the visit changes.
LEMMA SamePool ==
  ASSUME PoolInv, UNCHANGED <<files, fdFiles, pool, table>>,
         pc' \in {"readdir", "comm", "status"} => files = <<>>,
         pc' = "special" => NoMaps(files)
  PROVE  PoolInv'
BY DEF PoolInv, OnceEach, Pooled, NoMaps

\* The next process: its files are empty, and so is the pool.
LEMMA NextPidPool ==
  ASSUME TypeOK, PoolInv, NextPid
  PROVE  PoolInv'
<1>1. files = <<>> /\ pc' \in {"comm", "done"} /\ UNCHANGED <<files, fdFiles, table>>
  BY DEF NextPid, locals, PoolInv
<1>2. DOMAIN files = {}
  BY <1>1
<1>3. OnceEach(files) /\ Pooled(files, pool') /\ NoMaps(fdFiles)
  BY <1>2 DEF OnceEach, Pooled, PoolInv
<1> QED BY <1>1, <1>3 DEF PoolInv, OnceEach, Pooled, NoMaps

\* The command and the user.
LEMMA CommandPool ==
  ASSUME TypeOK, PoolInv, GetCommand \/ GetUser
  PROVE  PoolInv'
<1>1. files = <<>>
  BY DEF GetCommand, GetUser, PoolInv
<1>2. NoMaps(files) /\ OnceEach(<<>>)
  BY <1>1 DEF NoMaps, OnceEach
<1>3. CASE LeaveOut
  BY <1>2, <1>3, ReturnPool
<1>4. CASE pc' \in {"status", "special"} /\ UNCHANGED <<files, fdFiles, pool, table>>
  BY <1>1, <1>2, <1>4, SamePool
<1> QED BY <1>3, <1>4 DEF GetCommand, GetUser, locals

\* The links: the first mapped file is the program itself, which is inserted.
LEMMA SpecialPool ==
  ASSUME TypeOK, VisitOK, PoolInv, SpecialCall
  PROVE  PoolInv'
<1>1. /\ pc = "special" /\ ScannerOK /\ SpecialEffect /\ NoMaps(files)
      /\ row \in PartRow /\ OnceEach(<<>>)
  BY SpecialCases, TypeParts DEF SpecialCall, VisitOK, RowOK, PoolInv, OnceEach
<1>2. CASE LeaveOut
  BY <1>1, <1>2, ReturnPool
<1>3. CASE pc' = pc /\ UNCHANGED <<files, fdFiles, pool, table>>
  BY <1>1, <1>3, SamePool
<1>4. PICK r : r = [row EXCEPT !.node = Cell("node")]
  OBVIOUS
<1>5. ASSUME files' = Append(files, r), pool' = PoolOf(r), UNCHANGED <<fdFiles, table>>,
             \/ row.kind = "txt" /\ pc' = "maps"
             \/ row.kind \in {"cwd", "rtd"} /\ pc' = pc
      PROVE  PoolInv'
  <2>1. Cell("node") \in Nat
    BY <1>1, CellTypesOK
  <2>2. r \in PartRow /\ r.kind = row.kind
    BY <1>1, <1>4, <2>1, FillNode
  <2>3. PICK S : files \in Seq(S) /\ r \in S
    <3>1. files \in Seq(ListRow \cup {r})
      BY <1>1 DEF ScannerOK
    <3> QED BY <3>1
  <2>4. OnceEach(files) /\ \A s : Pooled(files, s)
    BY <1>1 DEF NoMaps, OnceEach, Pooled
  <2>5. OnceEach(files') /\ Pooled(files', pool') /\ (pc' = "special" => NoMaps(files'))
    <3>1. CASE row.kind = "txt" /\ pc' = "maps"
      <4>1. pool' = pool \cup {r.node}
        BY <1>5, <2>2, <3>1 DEF PoolOf
      <4>2. Pooled(files, {}) /\ r.node \notin {}
        BY <2>4
      <4>3. OnceEach(Append(files, r)) /\ Pooled(Append(files, r), {r.node})
        <5>1. {} \cup {r.node} = {r.node}
          OBVIOUS
        <5> HIDE DEF OnceEach, Pooled
        <5> QED BY <2>3, <2>4, <4>2, <5>1, AppendOnce
      <4>4. Pooled(Append(files, r), pool')
        BY <4>1, <4>3 DEF Pooled
      <4> QED BY <1>5, <3>1, <4>3, <4>4
    <3>2. CASE row.kind \in {"cwd", "rtd"} /\ pc' = pc
      <4>1. ~IsMap(r)
        BY <2>2, <3>2 DEF IsMap
      <4> QED BY <1>1, <1>5, <2>3, <2>4, <4>1, AppendOther
    <3> QED BY <1>5, <3>1, <3>2
  <2>6. NoMaps(fdFiles) /\ \A p \in Pids : OnceEach(table[p])
    BY DEF PoolInv
  <2> QED BY <1>1, <1>5, <2>5, <2>6 DEF PoolInv, NoMaps, OnceEach
<1> QED BY <1>1, <1>2, <1>3, <1>4, <1>5 DEF SpecialEffect

\* The maps are opened and read.
LEMMA MapsPool ==
  ASSUME TypeOK, PoolInv, OpenMaps \/ ReadMaps
  PROVE  PoolInv'
<1>1. OnceEach(<<>>)
  BY DEF OnceEach
<1>2. CASE LeaveOut
  BY <1>1, <1>2, ReturnPool
<1>3. CASE pc' \in {"lines", "map"} /\ UNCHANGED <<files, fdFiles, pool, table>>
  BY <1>3, SamePool
<1> QED BY <1>2, <1>3 DEF OpenMaps, ReadMaps, locals

\* A line of maps is a row only if its file is not in the pool yet.
LEMMA MapPool ==
  ASSUME TypeOK, PoolInv, MapLine
  PROVE  PoolInv'
<1>1. /\ pc = "map" /\ files \in Seq(ListRow)
      /\ UNCHANGED <<pc, fdFiles, table>>
  BY MapEffect, TypeParts DEF MapLine, ScannerOK
<1>2. CASE UNCHANGED <<files, pool>>
  BY <1>1, <1>2, SamePool
<1>3. ASSUME NEW f \in Files, NEW r, Mapped(r, f) PROVE PoolInv'
  <2>1. /\ r \in ListRow /\ r.node = Node[f] /\ r.node \notin pool
        /\ files' = Append(files, r) /\ pool' = pool \cup {r.node}
    BY <1>3 DEF Mapped
  <2>2. OnceEach(files) /\ Pooled(files, pool) /\ NoMaps(fdFiles)
        /\ \A p \in Pids : OnceEach(table[p])
    BY DEF PoolInv
  <2>3. OnceEach(files') /\ Pooled(files', pool')
    BY <1>1, <2>1, <2>2, AppendOnce
  <2> QED BY <1>1, <2>2, <2>3 DEF PoolInv, NoMaps, OnceEach
<1> QED BY <1>2, <1>3, MapEffect

\* The descriptors are no mapped files.
LEMMA FdsPool ==
  ASSUME TypeOK, VisitOK, PoolInv, OpenFds \/ NextFd \/ FdCall
  PROVE  PoolInv'
<1>1. /\ ScannerOK /\ pc \in {"map", "fds", "fd"}
      /\ OnceEach(files) /\ NoMaps(fdFiles)
  BY TypeParts DEF OpenFds, NextFd, FdCall, PoolInv
<1>2. CASE Keep(files)
  BY <1>1, <1>2, ReturnPool
<1>3. CASE pc' \in {"fds", "fd"} /\ UNCHANGED <<files, fdFiles, pool, table>>
  BY <1>3, SamePool
<1>4. CASE Keep(files \o fdFiles)
  <2>1. FdRow \subseteq ListRow
    BY DEF FdRow, ListRow, RowType
  <2>2. files \in Seq(ListRow) /\ fdFiles \in Seq(ListRow)
    BY <1>1, <2>1 DEF ScannerOK
  <2>3. OnceEach(files \o fdFiles)
    BY <1>1, <2>2, ConcatOnce
  <2> QED BY <1>4, <2>3, ReturnPool
<1>5. CASE pc = "fd" /\ FdCall
  <2>1. FdEffect
    BY <1>1, <1>5, FdCases
  <2>2. CASE pc' = pc /\ UNCHANGED <<files, fdFiles, pool, table>>
    BY <1>3, <1>5, <2>2
  <2>3. PICK r : r = [row EXCEPT !.name = Cell("name")]
    OBVIOUS
  <2>4. CASE pc' = "fds" /\ fdFiles' = Append(fdFiles, r) /\ UNCHANGED <<files, pool, table>>
    <3>1. Cell("name") \in Files \cup {Path, None} /\ row \in PartRow /\ row.kind = "fd"
      BY <1>5, CellTypesOK DEF VisitOK, RowOK
    <3>2. ~IsMap(r)
      BY <2>3, <3>1, FillName DEF IsMap
    <3>3. fdFiles \in Seq(FdRow \cup {r})
      BY <1>1 DEF ScannerOK
    <3>4. NoMaps(fdFiles')
      BY <1>1, <2>4, <3>2, <3>3, AppendOther
    <3>5. Pooled(files, pool) /\ \A p \in Pids : OnceEach(table[p])
      BY DEF PoolInv
    <3> QED BY <1>1, <2>4, <3>4, <3>5 DEF PoolInv, OnceEach, Pooled
  <2> QED BY <1>2, <2>1, <2>2, <2>3, <2>4 DEF FdEffect
<1> QED BY <1>2, <1>3, <1>4, <1>5 DEF OpenFds, NextFd, FdCall, locals

\* Every step keeps the pool right; the world does not touch it.
LEMMA PoolStep ==
  TypeOK /\ VisitOK /\ PoolInv /\ [Next]_vars => PoolInv'
<1> SUFFICES ASSUME TypeOK, VisitOK, PoolInv, [Next]_vars PROVE PoolInv'
  OBVIOUS
<1>1. CASE Step
  BY <1>1, NextPidPool, CommandPool, SpecialPool, MapsPool, MapPool, FdsPool DEF Step
<1>2. CASE UNCHANGED scanner
  <2>1. UNCHANGED <<pc, files, fdFiles, pool, table>>
    BY <1>2 DEF scanner, locals
  <2> QED BY <2>1, SamePool DEF PoolInv
<1>3. CASE World
  BY <1>2, <1>3, WorldTypes, TypeParts
<1> QED BY <1>1, <1>2, <1>3 DEF Next, Output, vars

\* There is nothing in the tables at first.
LEMMA PoolInit ==
  Init => PoolInv
<1> SUFFICES ASSUME Init PROVE PoolInv
  OBVIOUS
<1>1. files = <<>> /\ fdFiles = <<>> /\ \A p \in Pids : table[p] = <<>>
  BY DEF Init
<1>2. DOMAIN <<>> = {}
  OBVIOUS
<1>3. pc = "readdir"
  BY DEF Init
<1> QED BY <1>1, <1>2, <1>3 DEF PoolInv, NoMaps, OnceEach, Pooled

\* MappedOnce: in no listing is a file mapped twice, nor mapped and the program
\* itself, whatever maps, processes and inode numbers there are.
THEOREM PooledOnce == Spec => []MappedOnce
<1>1. PoolInv => MappedOnce
  BY DEF PoolInv, OnceEach, IsMap, MappedOnce
<1> QED BY <1>1, TypesAlways, PoolInit, PoolStep, PTL DEF Spec

-----------------------------------------------------------------------------
(* The world as a process that has begun can see it.                       *)

\* What happens to a process that is there, and to the files, in a step: it may
\* die, a descriptor may be closed, or be opened on one more file.
Grown(p) ==
  /\ proc'[p] # "none" /\ (proc'[p] = "alive" => proc[p] = "alive")
  /\ exists' \subseteq exists
  /\ \A fd \in Fds :
       \/ opened'[p][fd] = opened[p][fd] /\ fdt'[p][fd] \in {fdt[p][fd], None}
       \/ \E f \in Files : opened'[p][fd] = Append(opened[p][fd], f)

\* A descriptor that is open is its process's, and on the last file it was
\* opened on.
WorldTrue ==
  \A p \in Pids : \A fd \in Fds :
    fdt[p][fd] # None =>
      /\ proc[p] = "alive"
      /\ opened[p][fd] # <<>> /\ fdt[p][fd] = opened[p][fd][Len(opened[p][fd])]

\* A file that is opened is added to the history; to close one adds nothing.
LEMMA OpeningAdds ==
  ASSUME NEW s \in Seq(Files), NEW f \in Files \cup {None}
  PROVE  /\ f = None => s \o Opening(f) = s
         /\ f # None => /\ f \in Files /\ s \o Opening(f) = Append(s, f)
                        /\ s \o Opening(f) # <<>>
                        /\ (s \o Opening(f))[Len(s \o Opening(f))] = f
<1>1. CASE f = None
  BY <1>1, ConcatEmptySeq DEF Opening
<1>2. CASE f # None
  <2>1. f \in Files /\ Opening(f) = <<f>>
    BY <1>2 DEF Opening
  <2>2. s \o <<f>> = Append(s, f)
    BY <2>1, AppendIsConcat
  <2>3. Append(s, f) # <<>> /\ Append(s, f)[Len(Append(s, f))] = f
    BY <2>1, AppendProperties, LenProperties
  <2> QED BY <1>2, <2>1, <2>2, <2>3
<1> QED BY <1>1, <1>2

\* No step of the world makes WorldTrue false, and to what has begun it does
\* nothing else than that.
LEMMA WorldGrows ==
  ASSUME TypeOK, WorldTrue, World
  PROVE  WorldTrue' /\ \A p \in Pids : proc[p] # "none" => Grown(p)
<1>0. WorldOK
  BY TypeParts
<1>1. ASSUME NEW p \in Pids, Begin(p)
      PROVE  WorldTrue' /\ \A q \in Pids : proc[q] # "none" => Grown(q)
  <2>1. /\ proc[p] = "none" /\ proc' = [proc EXCEPT ![p] = "alive"] /\ exists' = exists
        /\ fdt' = [fdt EXCEPT ![p] = Fds0[p]]
        /\ opened' = [opened EXCEPT ![p] = [fd \in Fds |-> Opening(Fds0[p][fd])]]
    BY <1>1 DEF Begin
  <2>2. \A q \in Pids : q # p => proc'[q] = proc[q] /\ fdt'[q] = fdt[q] /\ opened'[q] = opened[q]
    BY <1>0, <2>1 DEF WorldOK
  <2>3. /\ proc'[p] = "alive"
        /\ \A fd \in Fds : fdt'[p][fd] = Fds0[p][fd] /\ opened'[p][fd] = Opening(Fds0[p][fd])
    BY <1>0, <2>1 DEF WorldOK
  <2>4. ASSUME NEW fd \in Fds, fdt'[p][fd] # None
        PROVE  opened'[p][fd] # <<>> /\ fdt'[p][fd] = opened'[p][fd][Len(opened'[p][fd])]
    <3>1. opened'[p][fd] = <<fdt'[p][fd]>>
      BY <2>3, <2>4 DEF Opening
    <3> QED BY <3>1
  <2>5. WorldTrue'
    BY <2>2, <2>3, <2>4 DEF WorldTrue
  <2> QED BY <2>1, <2>2, <2>5 DEF Grown
<1>2. ASSUME NEW p \in Pids, Exit(p)
      PROVE  WorldTrue' /\ \A q \in Pids : proc[q] # "none" => Grown(q)
  <2>1. /\ proc' = [proc EXCEPT ![p] = "zombie"] /\ exists' = exists /\ opened' = opened
        /\ fdt' = [fdt EXCEPT ![p] = [fd \in Fds |-> None]]
    BY <1>2 DEF Exit
  <2>2. \A q \in Pids : q # p => proc'[q] = proc[q] /\ fdt'[q] = fdt[q]
    BY <1>0, <2>1 DEF WorldOK
  <2>3. proc'[p] = "zombie" /\ \A fd \in Fds : fdt'[p][fd] = None
    BY <1>0, <2>1 DEF WorldOK
  <2> QED BY <2>1, <2>2, <2>3 DEF WorldTrue, Grown
<1>3. ASSUME NEW p \in Pids, Reap(p)
      PROVE  WorldTrue' /\ \A q \in Pids : proc[q] # "none" => Grown(q)
  <2>1. /\ proc[p] = "zombie" /\ proc' = [proc EXCEPT ![p] = "gone"]
        /\ exists' = exists /\ opened' = opened /\ fdt' = fdt
    BY <1>3 DEF Reap
  <2>2. proc'[p] = "gone" /\ \A q \in Pids : q # p => proc'[q] = proc[q]
    BY <1>0, <2>1 DEF WorldOK
  <2> QED BY <2>1, <2>2 DEF WorldTrue, Grown
<1>4. ASSUME NEW p \in Pids, NEW fd \in Fds, NEW f \in Openable \cup {None}, SetFd(p, fd, f)
      PROVE  WorldTrue' /\ \A q \in Pids : proc[q] # "none" => Grown(q)
  <2>1. /\ proc[p] = "alive" /\ proc' = proc /\ exists' = exists
        /\ fdt' = [fdt EXCEPT ![p][fd] = f]
        /\ opened' = [opened EXCEPT ![p][fd] = @ \o Opening(f)]
    BY <1>4 DEF SetFd
  <2>2. /\ fdt'[p][fd] = f /\ opened'[p][fd] = opened[p][fd] \o Opening(f)
        /\ \A q \in Pids : \A e \in Fds :
             q # p \/ e # fd => fdt'[q][e] = fdt[q][e] /\ opened'[q][e] = opened[q][e]
    BY <1>0, <2>1 DEF WorldOK
  <2>3. f \in Files \cup {None} /\ opened[p][fd] \in Seq(Files)
    BY <1>0, ScanAssumption DEF WorldOK
  <2>4. /\ f = None => opened'[p][fd] = opened[p][fd]
        /\ f # None => /\ f \in Files /\ opened'[p][fd] = Append(opened[p][fd], f)
                       /\ opened'[p][fd] # <<>>
                       /\ f = opened'[p][fd][Len(opened'[p][fd])]
    BY <2>2, <2>3, OpeningAdds
  <2>5. WorldTrue'
    <3> SUFFICES ASSUME NEW q \in Pids, NEW e \in Fds, fdt'[q][e] # None
                 PROVE  /\ proc'[q] = "alive"
                        /\ opened'[q][e] # <<>> /\ fdt'[q][e] = opened'[q][e][Len(opened'[q][e])]
      BY DEF WorldTrue
    <3>1. CASE q # p \/ e # fd
      <4>1. fdt'[q][e] = fdt[q][e] /\ opened'[q][e] = opened[q][e]
        BY <2>2, <3>1
      <4> QED BY <2>1, <4>1 DEF WorldTrue
    <3>2. CASE q = p /\ e = fd
      BY <2>1, <2>2, <2>4, <3>2
    <3> QED BY <3>1, <3>2
  <2>6. ASSUME NEW q \in Pids, proc[q] # "none" PROVE Grown(q)
    <3>1. ASSUME NEW e \in Fds
          PROVE  \/ opened'[q][e] = opened[q][e] /\ fdt'[q][e] \in {fdt[q][e], None}
                 \/ \E g \in Files : opened'[q][e] = Append(opened[q][e], g)
      <4>1. CASE q # p \/ e # fd
        BY <2>2, <4>1
      <4>2. CASE q = p /\ e = fd
        BY <2>2, <2>4, <4>2
      <4> QED BY <4>1, <4>2
    <3> QED BY <2>1, <2>6, <3>1 DEF Grown
  <2> QED BY <2>5, <2>6
<1>5. ASSUME NEW f \in Files, Unlink(f)
      PROVE  WorldTrue' /\ \A q \in Pids : proc[q] # "none" => Grown(q)
  BY <1>5 DEF Unlink, WorldTrue, Grown
<1> QED BY <1>1, <1>2, <1>3, <1>4, <1>5 DEF World

\* A row that is true, with the descriptor it is about.
RowSound(p, r) == RowRight(p, r) /\ (r.kind = "fd" => r.fd \in Fds)

AllSound(p, s) == \A i \in DOMAIN s : RowSound(p, s[i])

\* The three kinds of rows.
LEMMA RowKinds ==
  ASSUME NEW p, NEW r
  PROVE  /\ r.kind = "fd" =>
              (RowRight(p, r) <=>
                 /\ r.name \in RangeOf(opened[p][r.fd])
                 /\ Len(opened[p][r.fd]) = 1 => r = RowFor("fd", r.fd, r.name))
         /\ r.kind = "mem" =>
              (RowRight(p, r) <=>
                 /\ r.name \in RangeOf(Maps[p]) /\ r.node = Node[r.name]
                 /\ r.type = Type[r.name]
                    \/ (r.type \in {"DEL", "unknown"} /\ r.name \notin exists))
         /\ r.kind \notin {"fd", "mem"} =>
              (RowRight(p, r) <=>
                 IF Access[p] # "own"
                 THEN r = [NoRow EXCEPT !.kind = r.kind, !.type = "unknown", !.name = Path]
                 ELSE /\ r.name = Special[p][r.kind]
                      /\ r = RowFor(r.kind, -1, r.name) \/ proc[p] # "alive")
<1>1. CASE r.kind = "fd"
  BY <1>1 DEF RowRight
<1>2. CASE r.kind = "mem"
  BY <1>2 DEF RowRight
<1>3. CASE r.kind \notin {"fd", "mem"}
  BY <1>3 DEF RowRight
<1> QED BY <1>1, <1>2, <1>3

\* What has a name in a history that grows by one file.
LEMMA LongerHistory ==
  ASSUME NEW s \in Seq(Files), NEW f \in Files
  PROVE  /\ RangeOf(s) \subseteq RangeOf(Append(s, f))
         /\ s # <<>> => Len(Append(s, f)) # 1
         /\ \A x \in RangeOf(s) : s # <<>>
<1>1. /\ Len(s) \in Nat /\ DOMAIN s = 1 .. Len(s)
      /\ DOMAIN Append(s, f) = 1 .. Len(s) + 1 /\ Len(Append(s, f)) = Len(s) + 1
      /\ \A i \in 1 .. Len(s) : Append(s, f)[i] = s[i]
      /\ s = <<>> <=> Len(s) = 0
  BY AppendProperties, LenProperties, EmptySeq
<1> QED BY <1>1 DEF RangeOf

\* What is true of a process stays true of it, whatever it and the others do.
LEMMA RowStays ==
  ASSUME WorldOK, NEW p \in Pids, Grown(p), NEW r, RowSound(p, r)
  PROVE  RowSound(p, r)'
<1>1. CASE r.kind = "fd"
  <2>1. /\ r.fd \in Fds /\ r.name \in RangeOf(opened[p][r.fd])
        /\ Len(opened[p][r.fd]) = 1 => r = RowFor("fd", r.fd, r.name)
    BY <1>1 DEF RowSound, RowRight
  <2>2. PICK s \in Seq(Files) : s = opened[p][r.fd]
    BY <2>1 DEF WorldOK
  <2>3. CASE opened'[p][r.fd] = s
    BY <1>1, <2>1, <2>2, <2>3 DEF RowSound, RowRight
  <2>4. CASE \E f \in Files : opened'[p][r.fd] = Append(s, f)
    <3>1. r.name \in RangeOf(opened'[p][r.fd]) /\ Len(opened'[p][r.fd]) # 1
      BY <2>1, <2>2, <2>4, LongerHistory
    <3> QED BY <1>1, <2>1, <3>1 DEF RowSound, RowRight
  <2> QED BY <2>1, <2>2, <2>3, <2>4 DEF Grown
<1>2. CASE r.kind = "mem"
  BY <1>2 DEF Grown, RowSound, RowRight
<1>3. CASE r.kind \notin {"fd", "mem"}
  BY <1>3 DEF Grown, RowSound, RowRight
<1> QED BY <1>1, <1>2, <1>3

-----------------------------------------------------------------------------
(* The inductive invariant.                                                *)

\* Only processes that have begun are visited and listed.
Begun ==
  /\ \A p \in todo : proc[p] # "none"
  /\ pc \notin {"readdir", "done"} => proc[pid] # "none"
  /\ \A p \in Pids : proc[p] = "none" => table[p] = <<>>

\* Between two visits there are no locals, and none before a row is begun.
Idle ==
  pc \in {"readdir", "comm", "status", "done"} =>
    files = <<>> /\ fdFiles = <<>> /\ entries = {} /\ lines = <<>>

\* What has been read and not yet used: a descriptor that was open, a file that
\* is mapped, and a deletion that has happened.
Rest ==
  /\ \A fd \in entries : opened[pid][fd] # <<>>
  /\ \A i \in DOMAIN lines :
       /\ lines[i].file \in RangeOf(Maps[pid])
       /\ lines[i].deleted => lines[i].file \notin exists

\* The cells of a link so far; the ones read while the process lives are right.
LinkPart ==
  pc = "special" =>
    /\ row.fd = -1 /\ row.mode = "blank"
    /\ Access[pid] = "own" =>
         /\ call > 1 => row.name = Special[pid][row.kind]
         /\ call > 2 /\ proc[pid] = "alive" => row.type = Type[Special[pid][row.kind]]
    /\ Access[pid] # "own" =>
         /\ call > 1 => row.name = Path
         /\ call > 2 => row.type = "unknown"

\* The cells of a descriptor so far: they are right if it was opened once and
\* is still open, which iterate_fd() learns from its last call.
FdPart ==
  pc = "fd" =>
    LET o == opened[pid][row.fd]
    IN  /\ o # <<>>
        /\ Len(o) = 1 /\ fdt[pid][row.fd] # None =>
             /\ call > 1 => row.mode = "u"
             /\ call > 2 => row.type = Type[o[1]]
             /\ call > 3 => row.node = Node[o[1]]

Listed ==
  /\ \A p \in Pids : AllSound(p, table[p])
  /\ AllSound(pid, files) /\ AllSound(pid, fdFiles)

TrueInv == WorldTrue /\ Begun /\ Idle /\ Rest /\ LinkPart /\ FdPart /\ Listed

\* The world's own steps.
LEMMA WorldKeeps ==
  ASSUME TypeOK, VisitOK, TrueInv, World
  PROVE  TrueInv'
<1>1. /\ WorldOK /\ ScannerOK /\ WorldTrue' /\ \A p \in Pids : proc[p] # "none" => Grown(p)
      /\ UNCHANGED <<pc, todo, pid, row, call, lines, entries, files, fdFiles, table>>
  BY TypeParts, WorldGrows, WorldTypes DEF TrueInv, scanner, locals
<1>2. \A p \in Pids : proc[p] # "none" => proc'[p] # "none"
  BY <1>1 DEF Grown
<1>3. pc \notin {"readdir", "done"} => pid \in Pids /\ proc[pid] # "none" /\ Grown(pid)
  BY <1>1 DEF TrueInv, Begun, VisitOK
<1>4. Begun'
  <2>1. todo \subseteq Pids
    BY <1>1 DEF ScannerOK
  <2> QED BY <1>1, <1>2, <1>3, <2>1 DEF TrueInv, Begun
<1>5. Idle'
  BY <1>1 DEF TrueInv, Idle
<1>6. Rest'
  <2>1. CASE pc \in {"readdir", "done"}
    BY <1>1, <2>1 DEF TrueInv, Idle, Rest
  <2>2. CASE pc \notin {"readdir", "done"}
    <3>1. exists' \subseteq exists
      BY <1>3, <2>2 DEF Grown
    <3>2. ASSUME NEW fd \in entries PROVE opened'[pid][fd] # <<>>
      <4>1. fd \in Fds /\ opened[pid][fd] # <<>> /\ opened[pid][fd] \in Seq(Files)
        BY <1>1, <1>3, <2>2 DEF TrueInv, Rest, ScannerOK, WorldOK
      <4>2. \A f \in Files : Append(opened[pid][fd], f) # <<>>
        BY <4>1, AppendProperties
      <4> QED BY <1>3, <2>2, <4>1, <4>2 DEF Grown
    <3> QED BY <1>1, <3>1, <3>2 DEF TrueInv, Rest
  <2> QED BY <2>1, <2>2
<1>7. LinkPart'
  BY <1>1, <1>3 DEF TrueInv, LinkPart, Grown
<1>8. FdPart'
  <2> SUFFICES ASSUME pc = "fd" PROVE FdPart'
    BY <1>1 DEF FdPart
  <2>1. PICK fd \in Fds : fd = row.fd
    BY DEF VisitOK, RowOK
  <2>2. PICK o \in Seq(Files) : o = opened[pid][fd]
    BY <1>1, <1>3 DEF WorldOK
  <2>3. /\ o # <<>>
        /\ Len(o) = 1 /\ fdt[pid][fd] # None =>
             /\ call > 1 => row.mode = "u"
             /\ call > 2 => row.type = Type[o[1]]
             /\ call > 3 => row.node = Node[o[1]]
    BY <2>1, <2>2 DEF TrueInv, FdPart
  <2>4. CASE opened'[pid][fd] = o /\ fdt'[pid][fd] \in {fdt[pid][fd], None}
    BY <1>1, <2>1, <2>3, <2>4 DEF FdPart
  <2>5. CASE \E f \in Files : opened'[pid][fd] = Append(o, f)
    <3>1. opened'[pid][fd] # <<>> /\ Len(opened'[pid][fd]) # 1
      BY <2>2, <2>3, <2>5, LongerHistory, AppendProperties
    <3> QED BY <1>1, <2>1, <3>1 DEF FdPart
  <2> QED BY <1>3, <2>1, <2>2, <2>4, <2>5 DEF Grown
<1>9. Listed'
  <2>1. ASSUME NEW p \in Pids, NEW s, AllSound(p, s), s = <<>> \/ proc[p] # "none"
        PROVE  AllSound(p, s)'
    <3>1. CASE s = <<>>
      BY <3>1 DEF AllSound
    <3>2. CASE proc[p] # "none"
      BY <1>1, <2>1, <3>2, RowStays DEF AllSound
    <3> QED BY <2>1, <3>1, <3>2
  <2>2. ASSUME NEW p \in Pids PROVE AllSound(p, table[p])'
    <3>1. PICK s : s = table[p]
      OBVIOUS
    <3>2. AllSound(p, s) /\ (s = <<>> \/ proc[p] # "none")
      BY <3>1 DEF TrueInv, Listed, Begun
    <3>3. AllSound(p, s)' /\ s = table'[p]
      BY <1>1, <2>1, <3>1, <3>2
    <3> QED BY <3>3 DEF AllSound
  <2>3. AllSound(pid, files)' /\ AllSound(pid, fdFiles)'
    <3>1. CASE pc \in {"readdir", "done"}
      BY <1>1, <3>1 DEF TrueInv, Idle, AllSound
    <3>2. CASE pc \notin {"readdir", "done"}
      <4>1. PICK p, s, t : p = pid /\ s = files /\ t = fdFiles
        OBVIOUS
      <4>2. p \in Pids /\ proc[p] # "none" /\ AllSound(p, s) /\ AllSound(p, t)
        BY <1>3, <3>2, <4>1 DEF TrueInv, Listed
      <4>3. AllSound(p, s)' /\ AllSound(p, t)' /\ p = pid' /\ s = files' /\ t = fdFiles'
        BY <1>1, <2>1, <4>1, <4>2
      <4> QED BY <4>3 DEF AllSound
    <3> QED BY <3>1, <3>2
  <2> QED BY <2>2, <2>3 DEF Listed
<1> QED BY <1>1, <1>4, <1>5, <1>6, <1>7, <1>8, <1>9 DEF TrueInv

-----------------------------------------------------------------------------
(* The scanner's calls; the world stands still in them.                    *)

\* What is true of a process does not depend on the scanner.
LEMMA SoundSame ==
  ASSUME UNCHANGED world
  PROVE  \A p, r : RowSound(p, r)' <=> RowSound(p, r)
BY DEF world, RowSound, RowRight

\* One more true row.
LEMMA AppendSound ==
  ASSUME NEW S, NEW s \in Seq(S), NEW r \in S, NEW p, AllSound(p, s), RowSound(p, r)
  PROVE  AllSound(p, Append(s, r))
<1> DEFINE a == Append(s, r)
<1>1. /\ Len(s) \in Nat /\ DOMAIN s = 1 .. Len(s) /\ DOMAIN a = 1 .. Len(s) + 1
      /\ a[Len(s) + 1] = r /\ \A i \in 1 .. Len(s) : a[i] = s[i]
  BY AppendProperties, LenProperties
<1> HIDE DEF a
<1>2. AllSound(p, a)
  <2> SUFFICES ASSUME NEW i \in 1 .. Len(s) + 1 PROVE RowSound(p, a[i])
    BY <1>1 DEF AllSound
  <2>1. i \in 1 .. Len(s) \/ i = Len(s) + 1
    BY <1>1
  <2> QED BY <1>1, <2>1 DEF AllSound
<1> QED BY <1>2 DEF a

\* The descriptors after the other rows.
LEMMA ConcatSound ==
  ASSUME NEW s \in Seq(ListRow), NEW t \in Seq(ListRow), NEW p, AllSound(p, s), AllSound(p, t)
  PROVE  AllSound(p, s \o t)
<1> DEFINE c == s \o t
<1>1. /\ Len(s) \in Nat /\ DOMAIN s = 1 .. Len(s)
      /\ Len(t) \in Nat /\ DOMAIN t = 1 .. Len(t)
      /\ DOMAIN c = 1 .. Len(s) + Len(t)
      /\ \A i \in 1 .. Len(s) + Len(t) : c[i] = IF i <= Len(s) THEN s[i] ELSE t[i - Len(s)]
  BY ConcatProperties, LenProperties
<1> HIDE DEF c
<1>2. ASSUME NEW i \in 1 .. Len(s) + Len(t) PROVE RowSound(p, c[i])
  <2>1. CASE i <= Len(s)
    BY <1>1, <2>1 DEF AllSound
  <2>2. CASE ~(i <= Len(s))
    <3>1. i - Len(s) \in 1 .. Len(t) /\ c[i] = t[i - Len(s)]
      BY <1>1, <2>2
    <3> QED BY <1>1, <3>1 DEF AllSound
  <2> QED BY <2>1, <2>2
<1> QED BY <1>1, <1>2 DEF c, AllSound

\* The parts of the invariant that a step which pushes nothing can disturb.
LEMMA SameTable ==
  ASSUME ScannerOK, TrueInv, UNCHANGED world, UNCHANGED table,
         todo' \subseteq todo \cup {p \in Pids : There(p)},
         pc' \notin {"readdir", "done"} => proc[pid'] # "none",
         AllSound(pid', files'), AllSound(pid', fdFiles'),
         Idle', Rest', LinkPart', FdPart'
  PROVE  TrueInv'
<1>1. UNCHANGED <<proc, fdt, exists, opened>> /\ WorldTrue'
  BY DEF world, TrueInv, WorldTrue
<1>2. \A p \in Pids : There(p) => proc[p] # "none"
  BY DEF There
<1>3. Begun'
  BY <1>1, <1>2 DEF TrueInv, Begun
<1>4. \A p, r : RowSound(p, r)' <=> RowSound(p, r)
  BY SoundSame
<1>5. Listed'
  <2>1. \A p \in Pids : AllSound(p, table[p])
    BY DEF TrueInv, Listed
  <2> QED BY <1>4, <2>1 DEF Listed, AllSound
<1> QED BY <1>1, <1>3, <1>5 DEF TrueInv

\* A visit that ends pushes nothing, or rows that are true.
LEMMA ReturnTrue ==
  ASSUME ScannerOK, TrueInv, UNCHANGED world, pid \in Pids, proc[pid] # "none",
         NEW rows, AllSound(pid, rows), LeaveOut \/ Keep(rows)
  PROVE  TrueInv'
<1>1. /\ pc' = "readdir" /\ lines' = <<>> /\ entries' = {} /\ files' = <<>> /\ fdFiles' = <<>>
      /\ UNCHANGED <<todo, pid>>
      /\ table' = table \/ table' = [table EXCEPT ![pid] = rows]
  BY DEF LeaveOut, Keep, Return
<1>2. UNCHANGED <<proc, fdt, exists, opened>> /\ WorldTrue'
  BY DEF world, TrueInv, WorldTrue
<1>3. \A p \in Pids : table'[p] = table[p] \/ (p = pid /\ table'[p] = rows)
  BY <1>1 DEF ScannerOK
<1>4. Begun'
  BY <1>1, <1>2, <1>3 DEF TrueInv, Begun
<1>5. Idle' /\ Rest' /\ LinkPart' /\ FdPart'
  BY <1>1 DEF Idle, Rest, LinkPart, FdPart
<1>6. Listed'
  <2>1. \A p, r : RowSound(p, r)' <=> RowSound(p, r)
    BY SoundSame
  <2>2. \A p \in Pids : AllSound(p, table'[p])
    BY <1>3 DEF TrueInv, Listed
  <2>3. DOMAIN files' = {} /\ DOMAIN fdFiles' = {}
    BY <1>1
  <2> QED BY <2>1, <2>2, <2>3 DEF Listed, AllSound
<1> QED BY <1>2, <1>4, <1>5, <1>6 DEF TrueInv

\* The next process has begun when /proc is read, and its locals are empty.
LEMMA NextPidTrue ==
  ASSUME TypeOK, TrueInv, UNCHANGED world, NextPid
  PROVE  TrueInv'
<1>1. /\ ScannerOK /\ pc = "readdir" /\ pc' \in {"comm", "done"}
      /\ files = <<>> /\ fdFiles = <<>> /\ entries = {} /\ lines = <<>>
      /\ UNCHANGED <<row, call, lines, entries, files, fdFiles, table, held>>
  BY TypeParts DEF NextPid, locals, TrueInv, Idle
<1>2. PICK block \in Block(todo, {p \in Pids : There(p)}, pid) :
         IF block = {} THEN pc' = "done" /\ UNCHANGED <<todo, pid, pool>>
         ELSE /\ pid' = Least(block) /\ todo' = block \ {Least(block)}
              /\ pool' = NewPool
              /\ pc' = "comm"
  BY DEF NextPid
<1>3. block \subseteq todo \cup {p \in Pids : There(p)}
  BY BlockIn
<1>4. block \subseteq Pids /\ block \subseteq Nat /\ \A p \in block : proc[p] # "none"
  BY <1>1, <1>3, ScanAssumption DEF ScannerOK, TrueInv, Begun, There
<1>5. /\ todo' \subseteq todo \cup {p \in Pids : There(p)}
      /\ pc' \notin {"readdir", "done"} => proc[pid'] # "none"
  BY <1>2, <1>3, <1>4, LeastIn
<1>6. AllSound(pid', files') /\ AllSound(pid', fdFiles')
  BY <1>1 DEF AllSound
<1>7. Idle' /\ Rest' /\ LinkPart' /\ FdPart'
  BY <1>1 DEF Idle, Rest, LinkPart, FdPart
<1> QED BY <1>1, <1>5, <1>6, <1>7, SameTable

\* The command and the user; the first row is begun.
LEMMA CommandTrue ==
  ASSUME TypeOK, VisitOK, TrueInv, UNCHANGED world, GetCommand \/ GetUser
  PROVE  TrueInv'
<1>1. /\ ScannerOK /\ pc \in {"comm", "status"} /\ call = 1
      /\ pid \in Pids /\ proc[pid] # "none"
      /\ files = <<>> /\ fdFiles = <<>> /\ entries = {} /\ lines = <<>>
  BY TypeParts DEF GetCommand, GetUser, VisitOK, RowOK, TrueInv, Begun, Idle
<1>2. CASE LeaveOut
  BY <1>1, <1>2, ReturnTrue DEF TrueInv, Listed
<1>3. CASE /\ UNCHANGED <<todo, pid, call, lines, entries, files, fdFiles, pool, table, held>>
           /\ \/ pc' = "status"
              \/ pc' = "special" /\ row' = [NoRow EXCEPT !.kind = "cwd"]
  <2>1. row' = [NoRow EXCEPT !.kind = "cwd"] => row'.fd = -1 /\ row'.mode = "blank"
    BY DEF NoRow
  <2>2. Idle' /\ Rest' /\ LinkPart' /\ FdPart'
    BY <1>1, <1>3, <2>1 DEF Idle, Rest, LinkPart, FdPart
  <2> QED BY <1>1, <1>3, <2>2, SameTable DEF TrueInv, Listed
<1> QED BY <1>2, <1>3 DEF GetCommand, GetUser, locals

\* What the calls about a link return.
LEMMA LinkCells ==
  ASSUME VisitOK, pc = "special"
  PROVE  /\ Access[pid] = "own" =>
              /\ Cell("name") # None => Cell("name") = Special[pid][row.kind]
              /\ proc[pid] = "alive" => /\ Cell("type") = Type[Special[pid][row.kind]]
                                        /\ Cell("node") = Node[Special[pid][row.kind]]
         /\ Access[pid] # "own" =>
              /\ Cell("name") # None => Cell("name") = Path
              /\ Cell("type") = "unknown" /\ Cell("node") = 0
<1>1. pid \in Pids /\ row.kind \in Kinds /\ row.kind # "fd"
  BY DEF VisitOK, RowOK, Kinds
<1>2. PICK f : f = Target(pid, row.kind, row.fd)
  OBVIOUS
<1>3. Special[pid][row.kind] \in Files /\ Special[pid][row.kind] # None
  BY <1>1, ScanAssumption
<1>4. CASE Access[pid] = "own"
  <2>1. ~Denied(pid) /\ f \in {None, Special[pid][row.kind]}
        /\ (proc[pid] = "alive" => f = Special[pid][row.kind])
    BY <1>1, <1>2, <1>4 DEF Target, Denied
  <2>2. Cell("name") = f /\ Cell("type") = FromStat(f, "type") /\ Cell("node") = FromStat(f, "node")
    BY <1>2, <2>1 DEF Cell, Name
  <2> QED BY <1>3, <1>4, <2>1, <2>2 DEF FromStat
<1>5. CASE Access[pid] # "own"
  <2>1. f = None
    BY <1>2, <1>5 DEF Target, Denied, There
  <2>2. Cell("name") \in {f, Path}
        /\ Cell("type") = FromStat(f, "type") /\ Cell("node") = FromStat(f, "node")
    BY <1>2 DEF Cell, Name
  <2> QED BY <1>5, <2>1, <2>2 DEF FromStat
<1> QED BY <1>4, <1>5

\* A row whose cells are all known.
LEMMA LinkRow ==
  ASSUME NEW r \in PartRow, r.kind \in Kinds, r.fd = -1, r.mode = "blank"
  PROVE  /\ \A f : r.name = f /\ r.type = Type[f] /\ r.node = Node[f] => r = RowFor(r.kind, -1, f)
         /\ r.name = Path /\ r.type = "unknown" /\ r.node = 0
              => r = [NoRow EXCEPT !.kind = r.kind, !.type = "unknown", !.name = Path]
<1>1. r = [kind |-> r.kind, fd |-> r.fd, mode |-> r.mode, type |-> r.type, node |-> r.node,
           name |-> r.name]
  BY DEF PartRow
<1>2. r.kind # "fd"
  BY DEF Kinds
<1>3. ASSUME NEW f, r.name = f, r.type = Type[f], r.node = Node[f]
      PROVE  r = RowFor(r.kind, -1, f)
  BY <1>1, <1>2, <1>3 DEF RowFor
<1>4. ASSUME r.name = Path, r.type = "unknown", r.node = 0
      PROVE  r = [NoRow EXCEPT !.kind = r.kind, !.type = "unknown", !.name = Path]
  <2>1. PICK k : k = r.kind
    OBVIOUS
  <2>2. r = [kind |-> k, fd |-> -1, mode |-> "blank", type |-> "unknown", node |-> 0,
             name |-> Path]
    BY <1>1, <1>4, <2>1
  <2>3. PICK x : x = [NoRow EXCEPT !.kind = k, !.type = "unknown", !.name = Path]
    OBVIOUS
  <2>4. /\ x \in PartRow
        /\ x.kind = k /\ x.fd = -1 /\ x.mode = "blank" /\ x.type = "unknown" /\ x.node = 0
        /\ x.name = Path
    BY <2>1, <2>3, NoRowOK DEF NoRow, PartRow, CellTypes
  <2>5. x = [kind |-> x.kind, fd |-> x.fd, mode |-> x.mode, type |-> x.type,
             node |-> x.node, name |-> x.name]
    BY <2>4 DEF PartRow
  <2> QED BY <2>1, <2>2, <2>3, <2>4, <2>5
<1> QED BY <1>3, <1>4

\* One more cell of a link, or the row of it.
LEMMA SpecialTrue ==
  ASSUME TypeOK, VisitOK, TrueInv, UNCHANGED world, SpecialCall
  PROVE  TrueInv'
<1>1. /\ ScannerOK /\ SpecialEffect /\ pc = "special" /\ pid \in Pids /\ proc[pid] # "none"
      /\ row \in PartRow /\ row.kind \in Kinds
      /\ AllSound(pid, files) /\ AllSound(pid, fdFiles)
  BY SpecialCases, TypeParts DEF SpecialCall, VisitOK, RowOK, TrueInv, Begun, Listed
<1>2. UNCHANGED <<proc, opened, exists>>
  BY DEF world
<1>3. PICK f, n, y, d :
        /\ f = Special[pid][row.kind] /\ n = Cell("name") /\ y = Cell("type") /\ d = Cell("node")
        /\ n \in Files \cup {Path, None} /\ y \in CellTypes /\ d \in Nat
  BY <1>1, CellTypesOK
<1>4. /\ Access[pid] = "own" =>
           /\ n # None => n = f
           /\ proc[pid] = "alive" => y = Type[f] /\ d = Node[f]
      /\ Access[pid] # "own" => (n # None => n = Path) /\ y = "unknown" /\ d = 0
  BY <1>1, <1>3, LinkCells
<1>5. /\ row.fd = -1 /\ row.mode = "blank"
      /\ Access[pid] = "own" =>
           /\ call > 1 => row.name = f
           /\ call > 2 /\ proc[pid] = "alive" => row.type = Type[f]
      /\ Access[pid] # "own" =>
           /\ call > 1 => row.name = Path
           /\ call > 2 => row.type = "unknown"
  BY <1>1, <1>3 DEF TrueInv, LinkPart
<1>6. Rest /\ todo \subseteq todo \cup {p \in Pids : There(p)}
  BY DEF TrueInv
<1>7. CASE LeaveOut
  BY <1>1, <1>7, ReturnTrue
<1>8. ASSUME UNCHANGED <<pc, todo, pid, lines, entries, files, fdFiles, table>>, LinkPart'
      PROVE  TrueInv'
  <2>1. Rest' /\ Idle' /\ FdPart'
    BY <1>1, <1>2, <1>6, <1>8 DEF Rest, Idle, FdPart
  <2> QED BY <1>1, <1>6, <1>8, <2>1, SameTable
<1>9. CASE call = 1 /\ call' = 2 /\ n # None /\ row' = [row EXCEPT !.name = n]
           /\ UNCHANGED <<pc, todo, pid, lines, entries, files, fdFiles, pool, table, held>>
  <2>1. /\ row'.kind = row.kind /\ row'.fd = row.fd /\ row'.mode = row.mode /\ row'.name = n
    BY <1>1, <1>9 DEF PartRow
  <2>2. LinkPart'
    BY <1>2, <1>3, <1>4, <1>5, <1>9, <2>1 DEF LinkPart
  <2> QED BY <1>8, <1>9, <2>2
<1>10. CASE call = 2 /\ call' = 3 /\ row' = [row EXCEPT !.type = y]
            /\ UNCHANGED <<pc, todo, pid, lines, entries, files, fdFiles, pool, table, held>>
  <2>1. /\ row'.kind = row.kind /\ row'.fd = row.fd /\ row'.mode = row.mode
        /\ row'.name = row.name /\ row'.type = y
    BY <1>1, <1>10 DEF PartRow
  <2>2. LinkPart'
    BY <1>2, <1>3, <1>4, <1>5, <1>10, <2>1 DEF LinkPart
  <2> QED BY <1>8, <1>10, <2>2
<1>11. PICK r : r = [row EXCEPT !.node = d]
  OBVIOUS
<1>12. /\ r \in PartRow /\ r.kind = row.kind /\ r.fd = row.fd /\ r.mode = row.mode
       /\ r.name = row.name /\ r.type = row.type /\ r.node = d
  BY <1>1, <1>3, <1>11 DEF PartRow
<1>13. CASE /\ call = 3 /\ call' = 1 /\ files' = Append(files, r)
            /\ \/ row.kind = "txt" /\ pc' = "maps" /\ row' = NoRow
               \/ /\ row.kind \in {"cwd", "rtd"} /\ pc' = pc
                  /\ row' = [NoRow EXCEPT !.kind = NextKind[row.kind]]
            /\ UNCHANGED <<todo, pid, lines, entries, fdFiles, table, held>>
  <2>1. RowSound(pid, r)
    <3>1. /\ r.kind \notin {"fd", "mem"}
          /\ r.name = f /\ r.type = Type[f] /\ r.node = Node[f] => r = RowFor(r.kind, -1, f)
          /\ r.name = Path /\ r.type = "unknown" /\ r.node = 0
               => r = [NoRow EXCEPT !.kind = r.kind, !.type = "unknown", !.name = Path]
      BY <1>1, <1>5, <1>12, LinkRow DEF Kinds
    <3>2. CASE Access[pid] = "own"
      <4>1. r.name = Special[pid][r.kind] /\ r.name = f
        BY <1>3, <1>5, <1>12, <1>13, <3>2
      <4>2. r = RowFor(r.kind, -1, r.name) \/ proc[pid] # "alive"
        BY <1>4, <1>5, <1>12, <1>13, <3>1, <3>2, <4>1
      <4> QED BY <3>1, <3>2, <4>1, <4>2, RowKinds DEF RowSound
    <3>3. CASE Access[pid] # "own"
      <4>1. r.name = Path /\ r.type = "unknown" /\ r.node = 0
        BY <1>4, <1>5, <1>12, <1>13, <3>3
      <4> QED BY <3>1, <3>3, <4>1, RowKinds DEF RowSound
    <3> QED BY <3>2, <3>3
  <2>2. AllSound(pid, files')
    <3>1. files \in Seq(ListRow \cup {r})
      BY <1>1 DEF ScannerOK
    <3> QED BY <1>1, <1>13, <2>1, <3>1, AppendSound
  <2>3. row' # NoRow => row'.fd = -1 /\ row'.mode = "blank"
    BY <1>13 DEF NoRow
  <2>4. LinkPart' /\ FdPart'
    BY <1>1, <1>13, <2>3, NoRowOK DEF LinkPart, FdPart
  <2>5. Rest' /\ Idle'
    BY <1>1, <1>2, <1>6, <1>13 DEF Rest, Idle
  <2> QED BY <1>1, <1>6, <1>13, <2>2, <2>4, <2>5, SameTable
<1> QED BY <1>1, <1>3, <1>7, <1>9, <1>10, <1>11, <1>13 DEF SpecialEffect

\* The maps are opened, and read at once: a file that they call deleted is.
LEMMA MapsTrue ==
  ASSUME TypeOK, VisitOK, TrueInv, UNCHANGED world, OpenMaps \/ ReadMaps
  PROVE  TrueInv'
<1>1. /\ ScannerOK /\ pc \in {"maps", "lines"} /\ pid \in Pids /\ proc[pid] # "none"
      /\ AllSound(pid, files) /\ AllSound(pid, fdFiles) /\ Rest
  BY TypeParts DEF OpenMaps, ReadMaps, VisitOK, TrueInv, Begun, Listed
<1>2. UNCHANGED <<opened, exists>>
  BY DEF world
<1>3. CASE LeaveOut
  BY <1>1, <1>3, ReturnTrue
<1>4. ASSUME pc' \in {"lines", "map"}, Rest',
             UNCHANGED <<todo, pid, files, fdFiles, table>>
      PROVE  TrueInv'
  <2>1. Idle' /\ LinkPart' /\ FdPart'
    BY <1>4 DEF Idle, LinkPart, FdPart
  <2> QED BY <1>1, <1>4, <2>1, SameTable
<1>5. CASE pc' = "lines" /\ UNCHANGED <<todo, pid, locals, pool, table, held>>
  <2>1. Rest'
    BY <1>1, <1>2, <1>5 DEF Rest, locals
  <2> QED BY <1>4, <1>5, <2>1 DEF locals
<1>6. CASE ReadMaps
  <2>1. PICK m : m = Maps[pid]
    OBVIOUS
  <2>2. /\ lines' = <<>> \/ lines' = [i \in DOMAIN m |-> [file |-> m[i], deleted |-> m[i] \notin exists]]
        /\ pc' = "map" /\ UNCHANGED <<todo, pid, entries, files, fdFiles, table>>
    BY <1>6, <2>1 DEF ReadMaps
  <2>3. \A i \in DOMAIN lines' : /\ lines'[i].file \in RangeOf(m)
                                 /\ lines'[i].deleted => lines'[i].file \notin exists
    <3>1. CASE lines' = <<>>
      BY <3>1
    <3>2. CASE lines' # <<>>
      <4>1. lines' = [i \in DOMAIN m |-> [file |-> m[i], deleted |-> m[i] \notin exists]]
        BY <2>2, <3>2
      <4> QED BY <4>1 DEF RangeOf
    <3> QED BY <3>1, <3>2
  <2>4. Rest'
    BY <1>1, <1>2, <2>1, <2>2, <2>3 DEF Rest
  <2> QED BY <1>4, <2>2, <2>4
<1> QED BY <1>3, <1>5, <1>6 DEF OpenMaps

\* A line of maps adds nothing, or a row that is true.
LEMMA MapRow ==
  ASSUME TypeOK, Rest, MapLine
  PROVE  UNCHANGED files \/ \E r \in ListRow : files' = Append(files, r) /\ RowSound(pid, r)
<1>1. lines \in Seq([file : Files, deleted : BOOLEAN]) /\ lines # <<>>
  BY TypeParts DEF ScannerOK, MapLine
<1>2. 1 \in DOMAIN lines /\ Head(lines) = lines[1]
  BY <1>1, HeadTailProperties, LenProperties, EmptySeq
<1>3. PICK h \in [file : Files, deleted : BOOLEAN] : h = Head(lines)
  BY <1>1, HeadTailProperties
<1>4. PICK f \in Files : f = h.file
  OBVIOUS
<1>5. f \in RangeOf(Maps[pid]) /\ (h.deleted => f \notin exists)
  BY <1>2, <1>3, <1>4 DEF Rest
<1>6. PICK type : type = IF h.deleted THEN "DEL"
                         ELSE FromStat(IF f \in exists THEN f ELSE None, "type")
  OBVIOUS
<1>7. /\ type \in CellTypes \cup {"DEL"}
      /\ type = Type[f] \/ (type \in {"DEL", "unknown"} /\ f \notin exists)
  <2>1. /\ \A x \in Files \cup {None} : FromStat(x, "type") = IF x = None THEN "unknown" ELSE Type[x]
        /\ None \notin Files
    BY ScanAssumption DEF FromStat
  <2>2. Type[f] \in CellTypes
    BY ScanAssumption DEF CellTypes
  <2>3. CASE h.deleted
    BY <1>5, <1>6, <2>3
  <2>4. CASE ~h.deleted /\ f \in exists
    BY <1>6, <2>1, <2>2, <2>4
  <2>5. CASE ~h.deleted /\ f \notin exists
    BY <1>6, <2>1, <2>5 DEF CellTypes
  <2> QED BY <2>3, <2>4, <2>5
<1>8. PICK r : r = [NoRow EXCEPT !.kind = "mem", !.type = type, !.node = Node[f], !.name = f]
  OBVIOUS
<1>9. r \in ListRow /\ r.kind = "mem" /\ r.node = Node[f] /\ r.type = type /\ r.name = f
  <2>1. Node[f] \in Nat
    BY ScanAssumption
  <2> QED BY <1>7, <1>8, <2>1 DEF NoRow, ListRow, RowType, CellTypes
<1>10. RowSound(pid, r)
  BY <1>5, <1>7, <1>9, RowKinds DEF RowSound
<1>11. UNCHANGED files \/ files' = Append(files, r)
  BY <1>3, <1>4, <1>6, <1>8 DEF MapLine
<1> QED BY <1>9, <1>10, <1>11

\* So the rows so far are true.
LEMMA MapTrue ==
  ASSUME TypeOK, VisitOK, TrueInv, UNCHANGED world, MapLine
  PROVE  TrueInv'
<1>1. /\ ScannerOK /\ pc = "map" /\ pid \in Pids /\ proc[pid] # "none"
      /\ AllSound(pid, files) /\ AllSound(pid, fdFiles) /\ Rest
  BY TypeParts DEF MapLine, VisitOK, TrueInv, Begun, Listed
<1>2. UNCHANGED <<opened, exists>>
  BY DEF world
<1>3. /\ lines # <<>> /\ lines' = Tail(lines)
      /\ UNCHANGED <<pc, todo, pid, row, call, entries, fdFiles, table>>
  BY MapEffect DEF MapLine
<1>4. AllSound(pid, files')
  <2>1. files \in Seq(ListRow)
    BY <1>1 DEF ScannerOK
  <2> QED BY <1>1, <2>1, MapRow, AppendSound
<1>5. Rest'
  <2>1. PICK s \in Seq([file : Files, deleted : BOOLEAN]) : s = lines /\ s # <<>>
    BY <1>1, <1>3 DEF ScannerOK
  <2>2. \A i \in DOMAIN Tail(s) : i + 1 \in DOMAIN s /\ Tail(s)[i] = s[i + 1]
    BY <2>1, HeadTailProperties, LenProperties
  <2>3. \A i \in DOMAIN s : /\ s[i].file \in RangeOf(Maps[pid])
                            /\ s[i].deleted => s[i].file \notin exists
    BY <1>1, <2>1 DEF Rest
  <2>4. \A i \in DOMAIN lines' : /\ lines'[i].file \in RangeOf(Maps[pid])
                                 /\ lines'[i].deleted => lines'[i].file \notin exists
    BY <1>3, <2>1, <2>2, <2>3
  <2> QED BY <1>1, <1>2, <1>3, <2>4 DEF Rest
<1>6. Idle' /\ LinkPart' /\ FdPart'
  BY <1>1, <1>3 DEF Idle, LinkPart, FdPart
<1> QED BY <1>1, <1>3, <1>4, <1>5, <1>6, SameTable

\* The directory of the descriptors is opened, or the visit ends without it.
LEMMA OpenFdsTrue ==
  ASSUME TypeOK, VisitOK, TrueInv, UNCHANGED world, OpenFds
  PROVE  TrueInv'
<1>1. /\ ScannerOK /\ pid \in Pids /\ proc[pid] # "none"
      /\ AllSound(pid, files) /\ AllSound(pid, fdFiles) /\ Rest
  BY TypeParts DEF OpenFds, VisitOK, TrueInv, Begun, Listed
<1>2. UNCHANGED <<opened, exists>>
  BY DEF world
<1>3. CASE Keep(files)
  BY <1>1, <1>3, ReturnTrue
<1>4. CASE pc' = "fds" /\ UNCHANGED <<todo, pid, locals, table>>
  <2>1. Rest' /\ Idle' /\ LinkPart' /\ FdPart'
    BY <1>1, <1>2, <1>4 DEF Rest, Idle, LinkPart, FdPart, locals
  <2> QED BY <1>1, <1>4, <2>1, SameTable DEF locals
<1> QED BY <1>3, <1>4 DEF OpenFds

\* A descriptor that is read from it has been open.
LEMMA NextFdTrue ==
  ASSUME TypeOK, VisitOK, TrueInv, UNCHANGED world, NextFd
  PROVE  TrueInv'
<1>1. /\ ScannerOK /\ pc = "fds" /\ pid \in Pids /\ proc[pid] # "none" /\ call = 1
      /\ AllSound(pid, files) /\ AllSound(pid, fdFiles) /\ Rest
  BY TypeParts DEF NextFd, VisitOK, RowOK, TrueInv, Begun, Listed
<1>2. UNCHANGED <<opened, exists>>
  BY DEF world
<1>3. PICK block \in Block(entries, {fd \in Fds : fdt[pid][fd] # None}, row.fd) :
         IF block = {} THEN Keep(files \o fdFiles)
         ELSE /\ row' = [NoRow EXCEPT !.kind = "fd", !.fd = Least(block)]
              /\ entries' = block \ {Least(block)}
              /\ pc' = "fd"
              /\ UNCHANGED <<todo, pid, call, lines, files, fdFiles, pool, table, held>>
  BY DEF NextFd
<1>4. block \subseteq Fds /\ \A fd \in block : opened[pid][fd] # <<>>
  <2>1. block \subseteq entries \cup {fd \in Fds : fdt[pid][fd] # None}
    BY BlockIn
  <2>2. entries \subseteq Fds
    BY <1>1 DEF ScannerOK
  <2> QED BY <1>1, <2>1, <2>2 DEF TrueInv, WorldTrue, Rest
<1>5. CASE block = {}
  <2>1. FdRow \subseteq ListRow
    BY DEF FdRow, ListRow, RowType
  <2>2. files \in Seq(ListRow) /\ fdFiles \in Seq(ListRow)
    BY <1>1, <2>1 DEF ScannerOK
  <2>3. AllSound(pid, files \o fdFiles)
    BY <1>1, <2>2, ConcatSound
  <2> QED BY <1>1, <1>3, <1>5, <2>3, ReturnTrue
<1>6. CASE block # {}
  <2>1. PICK fd \in block : fd = Least(block)
    <3>1. block \subseteq Nat
      BY <1>4, ScanAssumption
    <3> QED BY <1>6, <3>1, LeastIn
  <2>2. /\ row'.fd = fd /\ entries' \subseteq block /\ pc' = "fd"
        /\ UNCHANGED <<todo, pid, call, lines, files, fdFiles, pool, table, held>>
    BY <1>3, <1>6, <2>1 DEF NoRow
  <2>3. Rest'
    BY <1>1, <1>2, <1>4, <2>2 DEF Rest
  <2>4. FdPart'
    BY <1>1, <1>2, <1>4, <2>2 DEF FdPart
  <2>5. Idle' /\ LinkPart'
    BY <2>2 DEF Idle, LinkPart
  <2> QED BY <1>1, <2>2, <2>3, <2>4, <2>5, SameTable
<1> QED BY <1>5, <1>6

\* What the calls about a descriptor return: they are about what it is open on,
\* and that is the last file it was opened on.
LEMMA FdCells ==
  ASSUME VisitOK, WorldTrue, pc = "fd"
  PROVE  LET f == fdt[pid][row.fd]
             o == opened[pid][row.fd]
         IN  /\ Cell("name") = f
             /\ f # None => /\ o # <<>> /\ f = o[Len(o)]
                            /\ Cell("mode") = "u" /\ Cell("type") = Type[f]
                            /\ Cell("node") = Node[f]
<1>1. pid \in Pids /\ Access[pid] = "own" /\ row.kind = "fd" /\ row.fd \in Fds
  BY DEF VisitOK, RowOK
<1>2. PICK f : f = fdt[pid][row.fd]
  OBVIOUS
<1>3. f # None => /\ proc[pid] = "alive" /\ opened[pid][row.fd] # <<>>
                  /\ f = opened[pid][row.fd][Len(opened[pid][row.fd])]
  BY <1>1, <1>2 DEF WorldTrue
<1>4. ~Denied(pid) /\ Target(pid, row.kind, row.fd) = f
  BY <1>1, <1>2, <1>3 DEF Denied, Target
<1>5. /\ Cell("name") = f /\ Cell("mode") = FromStat(f, "mode")
      /\ Cell("type") = FromStat(f, "type") /\ Cell("node") = FromStat(f, "node")
  BY <1>4 DEF Cell, Name
<1> QED BY <1>2, <1>3, <1>5 DEF FromStat

\* One more cell of a descriptor, the row of it, or the end of the visit.
LEMMA FdTrue ==
  ASSUME TypeOK, VisitOK, TrueInv, UNCHANGED world, FdCall
  PROVE  TrueInv'
<1>1. /\ ScannerOK /\ FdEffect /\ pc = "fd" /\ pid \in Pids /\ proc[pid] # "none"
      /\ row \in PartRow /\ row.kind = "fd" /\ row.fd \in Fds
      /\ AllSound(pid, files) /\ AllSound(pid, fdFiles) /\ Rest
  BY FdCases, TypeParts DEF FdCall, VisitOK, RowOK, TrueInv, Begun, Listed
<1>2. UNCHANGED <<fdt, opened, exists>>
  BY DEF world
<1>3. PICK n, y, d, m :
        /\ n = Cell("name") /\ y = Cell("type") /\ d = Cell("node") /\ m = Cell("mode")
        /\ y \in CellTypes /\ d \in Nat /\ m \in {"blank", "u"} /\ n \in Files \cup {None}
  BY <1>1, CellTypesOK
<1>4. PICK o \in Seq(Files) : o = opened[pid][row.fd] /\ o # <<>>
  BY <1>1, TypeParts DEF WorldOK, TrueInv, FdPart
<1>5. /\ n = fdt[pid][row.fd]
      /\ n # None => n = o[Len(o)] /\ m = "u" /\ y = Type[n] /\ d = Node[n]
  BY <1>1, <1>3, <1>4, FdCells DEF TrueInv
<1>6. Len(o) = 1 /\ n # None =>
        /\ n = o[1]
        /\ call > 1 => row.mode = "u"
        /\ call > 2 => row.type = Type[n]
        /\ call > 3 => row.node = Node[n]
  BY <1>1, <1>4, <1>5 DEF TrueInv, FdPart
<1>7. CASE Keep(files)
  BY <1>1, <1>7, ReturnTrue
<1>8. ASSUME UNCHANGED <<pc, todo, pid, lines, entries, files, fdFiles, table>>,
             row'.fd = row.fd, call' \in Nat,
             Len(o) = 1 /\ n # None => /\ call' > 1 => row'.mode = "u"
                                       /\ call' > 2 => row'.type = Type[n]
                                       /\ call' > 3 => row'.node = Node[n]
      PROVE  TrueInv'
  <2>1. FdPart'
    BY <1>2, <1>4, <1>5, <1>6, <1>8 DEF FdPart
  <2>2. Rest' /\ Idle' /\ LinkPart'
    BY <1>1, <1>2, <1>8 DEF Rest, Idle, LinkPart
  <2> QED BY <1>1, <1>8, <2>1, <2>2, SameTable
<1>9. CASE call = 1 /\ call' = 2 /\ row' = [row EXCEPT !.mode = m]
           /\ UNCHANGED <<pc, fdFiles, todo, pid, lines, entries, files, pool, table, held>>
  <2>1. row'.fd = row.fd /\ row'.mode = m
    BY <1>1, <1>9 DEF PartRow
  <2> QED BY <1>5, <1>8, <1>9, <2>1
<1>10. CASE call = 2 /\ call' = 3 /\ row' = [row EXCEPT !.type = y]
            /\ UNCHANGED <<pc, fdFiles, todo, pid, lines, entries, files, pool, table, held>>
  <2>1. row'.fd = row.fd /\ row'.mode = row.mode /\ row'.type = y
    BY <1>1, <1>10 DEF PartRow
  <2> QED BY <1>5, <1>6, <1>8, <1>10, <2>1
<1>11. CASE call = 3 /\ call' = 4 /\ row' = [row EXCEPT !.node = d]
            /\ UNCHANGED <<pc, fdFiles, todo, pid, lines, entries, files, pool, table, held>>
  <2>1. row'.fd = row.fd /\ row'.mode = row.mode /\ row'.type = row.type /\ row'.node = d
    BY <1>1, <1>11 DEF PartRow
  <2> QED BY <1>5, <1>6, <1>8, <1>11, <2>1
<1>12. PICK r : r = [row EXCEPT !.name = n]
  OBVIOUS
<1>13. /\ r.kind = "fd" /\ r.fd = row.fd /\ r.mode = row.mode
       /\ r.type = row.type /\ r.node = row.node /\ r.name = n
       /\ r = [kind |-> r.kind, fd |-> r.fd, mode |-> r.mode, type |-> r.type, node |-> r.node,
               name |-> r.name]
  BY <1>1, <1>12 DEF PartRow
<1>14. CASE /\ call = 4 /\ call' = 1 /\ pc' = "fds" /\ n # None
            /\ fdFiles' = Append(fdFiles, r)
            /\ UNCHANGED <<todo, pid, lines, entries, files, pool, table, held>>
  <2>1. RowSound(pid, r)
    <3>1. Len(o) \in DOMAIN o
      BY <1>4, LenProperties, EmptySeq
    <3>2. r.name \in RangeOf(o)
      BY <1>5, <1>13, <1>14, <3>1 DEF RangeOf
    <3>3. Len(o) = 1 => r = RowFor("fd", r.fd, r.name)
      BY <1>6, <1>13, <1>14 DEF RowFor
    <3>4. r.kind = "fd" /\ r.fd \in Fds /\ opened[pid][r.fd] = o
      BY <1>1, <1>4, <1>13
    <3>5. RowRight(pid, r)
      BY <3>2, <3>3, <3>4 DEF RowRight
    <3> QED BY <3>4, <3>5 DEF RowSound
  <2>2. AllSound(pid, fdFiles')
    <3>1. fdFiles \in Seq(FdRow \cup {r})
      BY <1>1 DEF ScannerOK
    <3> QED BY <1>1, <1>14, <2>1, <3>1, AppendSound
  <2>3. Rest' /\ Idle' /\ LinkPart' /\ FdPart'
    BY <1>1, <1>2, <1>14 DEF Rest, Idle, LinkPart, FdPart
  <2> QED BY <1>1, <1>14, <2>2, <2>3, SameTable
<1> QED BY <1>1, <1>3, <1>7, <1>9, <1>10, <1>11, <1>12, <1>14 DEF FdEffect

\* The inductive step.
LEMMA TrueStep ==
  TypeOK /\ VisitOK /\ TrueInv /\ [Next]_vars => TrueInv'
<1> SUFFICES ASSUME TypeOK, VisitOK, TrueInv, [Next]_vars PROVE TrueInv'
  OBVIOUS
<1>1. CASE Step /\ UNCHANGED world
  BY <1>1, NextPidTrue, CommandTrue, SpecialTrue, MapsTrue, MapTrue, OpenFdsTrue, NextFdTrue,
     FdTrue DEF Step
<1>2. CASE World
  BY <1>2, WorldKeeps
<1>3. CASE UNCHANGED vars
  <2>1. /\ UNCHANGED world
        /\ UNCHANGED <<pc, todo, pid, row, call, lines, entries, files, fdFiles, table>>
        /\ UNCHANGED <<proc, fdt, exists, opened>>
    BY <1>3 DEF vars, world, scanner, locals
  <2>2. WorldTrue' /\ Begun' /\ Idle' /\ Rest' /\ LinkPart' /\ FdPart'
    BY <2>1 DEF TrueInv, WorldTrue, Begun, Idle, Rest, LinkPart, FdPart
  <2>3. Listed'
    BY <2>1, SoundSame DEF TrueInv, Listed, AllSound
  <2> QED BY <2>2, <2>3 DEF TrueInv
<1> QED BY <1>1, <1>2, <1>3 DEF Next, Output, vars

\* Before the scan nothing is listed, and nothing has been opened twice.
LEMMA TrueInit ==
  Init => TrueInv
<1> SUFFICES ASSUME Init PROVE TrueInv
  OBVIOUS
<1>1. /\ proc = [p \in Pids |-> IF p \in Alive0 THEN "alive" ELSE "none"]
      /\ fdt = [p \in Pids |-> [fd \in Fds |-> IF p \in Alive0 THEN Fds0[p][fd] ELSE None]]
      /\ opened = [p \in Pids |-> [fd \in Fds |-> Opening(fdt[p][fd])]]
      /\ pc = "readdir" /\ todo = {} /\ lines = <<>> /\ entries = {}
      /\ files = <<>> /\ fdFiles = <<>> /\ table = [p \in Pids |-> <<>>]
  BY DEF Init
<1>2. ASSUME NEW p \in Pids, NEW fd \in Fds, fdt[p][fd] # None
      PROVE  /\ proc[p] = "alive"
             /\ opened[p][fd] # <<>> /\ fdt[p][fd] = opened[p][fd][Len(opened[p][fd])]
  <2>1. proc[p] = "alive"
    BY <1>1, <1>2
  <2>2. opened[p][fd] = <<fdt[p][fd]>>
    BY <1>1, <1>2 DEF Opening
  <2> QED BY <2>1, <2>2
<1>3. WorldTrue
  BY <1>2 DEF WorldTrue
<1>4. Begun /\ Idle /\ Rest /\ LinkPart /\ FdPart
  BY <1>1 DEF Begun, Idle, Rest, LinkPart, FdPart
<1>5. Listed
  BY <1>1 DEF Listed, AllSound
<1> QED BY <1>3, <1>4, <1>5 DEF TrueInv

\* RowsTrue: whatever processes and files come and go between the calls that fill
\* a row in, no row is listed that mixes two files or calls a file deleted that
\* is not.
THEOREM RowsRight == Spec => []RowsTrue
<1>1. TrueInv => RowsTrue
  BY DEF TrueInv, Listed, AllSound, RowSound, RowsTrue, Rows, RangeOf
<1> QED BY <1>1, TypesAlways, TrueInit, TrueStep, PTL DEF Spec
=============================================================================
