------------------------- MODULE MCReceiverDeadline -------------------------
\* ReceiverDeadline for TLC: the sources are interchangeable.
EXTENDS ReceiverDeadline, TLC

Symmetry == Permutations(Sources)
==============================================================================
