\* Three processes of the user, the last without a descriptor left for it, one of
\* another user, and a kernel thread.
CONSTANTS
  Pids = {1, 2, 3, 4, 5}
  Alive0 = {1, 2, 3, 5}
  Named = {1, 2, 3, 4, 5}
  Files = {"root", "prog", "lib", "log"}
  Openable = {"lib"}
  Path = "path"
  OpenMax = 3
  MaxChanges = 2
  None = "none"
  Access <- MCAccess
  Fds <- MCFds
  Fds0 <- MCFds0
  Special <- MCSpecial
  Maps <- MCMaps
  Type <- MCType
  Node <- MCNode
SPECIFICATION Spec
INVARIANTS TypeOK RowsTrue Complete MappedOnce FdsWhole
PROPERTIES Onward
