--------------------------- MODULE MCReceiveThread ---------------------------
(***************************************************************************)
(* ReceiveThread for TLC: an IPv4 interface, and an IPv6 interface that is *)
(* not always there.                                                       *)
(***************************************************************************)
EXTENDS ReceiveThread, TLC

NetV4 == [ip |-> 4, index |-> 1]
NetV6 == [ip |-> 6, index |-> 1]
MCNetints == {NetV4, NetV6}
MCNetintLists == {{NetV4}, {NetV4, NetV6}}
Symmetry == Permutations(Receivers) \cup Permutations(Universes)
==============================================================================
