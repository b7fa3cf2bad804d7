------------------------- MODULE MCReceiverSampling -------------------------
\* ReceiverSampling for TLC.
EXTENDS ReceiverSampling

CONSTANTS s1, s2, n1, n2
==============================================================================
