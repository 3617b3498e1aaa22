------------------------------- MODULE MCScan -------------------------------
(***************************************************************************)
(* Three processes of the user, one of another user and a kernel thread    *)
(* that may start during the scan.  All map one library, twice.            *)
(***************************************************************************)
EXTENDS Scan

MCAccess == [p \in Pids |-> CASE p = 2 -> "other" [] p = 4 -> "kernel" [] OTHER -> "own"]

MCFds == {0, 1, 2}

MCFds0 == [p \in Pids |->
             [fd \in Fds |-> IF p = 1 \/ (p = 3 /\ fd = 1) THEN "log" ELSE None]]

MCSpecial == [p \in Pids |-> [kind \in Kinds |-> IF kind = "txt" THEN "prog" ELSE "root"]]

MCMaps == [p \in Pids |-> <<"prog", "lib", "lib">>]

MCType == [f \in Files |-> CASE f = "root" -> "DIR" [] f = "log" -> "FIFO"
                             [] OTHER -> "REG"]
MCNode == [f \in Files |-> CASE f = "root" -> 1 [] f = "prog" -> 2
                             [] f = "lib" -> 3 [] f = "log" -> 4]
=============================================================================
