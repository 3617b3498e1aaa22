------------------------------ MODULE MCLogger ------------------------------
(***************************************************************************)
(* Two threads, two files and the descriptors 3 to 6.                      *)
(***************************************************************************)
EXTENDS Logger, TLC

MCFds == 3 .. 6

\* What the caller of the logger leaves open: nothing, or all of 3 to 5.
\* In neither is FD the lowest free descriptor.
MCInherited == {{}, {3, 4, 5}}

\* 3 and 4 are open, so open() returns FD itself.
MCInheritedLow == {{3, 4}}

MCSymmetry == Permutations(Threads) \cup Permutations(Files)
=============================================================================
