--------------------------- MODULE MCReceiverState ---------------------------
(***************************************************************************)
(* ReceiverState for TLC: the sources are interchangeable.                 *)
(***************************************************************************)
EXTENDS ReceiverState, TLC

Symmetry == Permutations(Sources)
=============================================================================
