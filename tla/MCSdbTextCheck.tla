--------------------------- MODULE MCSdbTextCheck ---------------------------
(***************************************************************************)
(* The real sizes: words of eight bytes of eight bits.                     *)
(***************************************************************************)
EXTENDS SdbTextCheck

MCBits == 0 .. 7
MCInt3 == {2, 3, 6, 7}
MCOrig == [x \in 0 .. 31 |-> {x % 8, x % 5}]
MCAddrs == {7, 8, 9, 12, 15, 16}
MCWords == {[d \in 0 .. 7 |-> {}], [d \in 0 .. 7 |-> 0 .. 7],
            [d \in 0 .. 7 |-> {d, 4}]}
=============================================================================
