--------------------------- MODULE MCMergeReceiver ---------------------------
(***************************************************************************)
(* MergeReceiverSystem for TLC: sources, interfaces and universes are      *)
(* interchangeable.                                                        *)
(***************************************************************************)
EXTENDS MergeReceiverSystem, TLC

Symmetry == Permutations(Sources) \cup Permutations(Netints)
              \cup Permutations(Universes)
Apart == {{"networking"}, {"universe", "other"}, {"preview"}}
=============================================================================
