---------------------------- MODULE SequenceNumbers ----------------------------
(***************************************************************************)
(* The comparison of the sequence numbers of packets (receiver_state.c,    *)
(* check_sequence): two numbers of 8 bits are compared as integers.  The   *)
(* receiver of module ReceiverState leaves open which packets are in       *)
(* sequence; what is said here of all numbers says which they are.         *)
(***************************************************************************)
EXTENDS Integers

SeqNums == 0..255

\* The number of the packet sent k packets after one with number n.
After(n, k) == IF n + k <= 255 THEN n + k ELSE n + k - 256

\* The number of the packet sent k packets before one with number n.
Before(n, k) == IF k <= n THEN n - k ELSE n - k + 256

\* check_sequence
InSequence(new, old) ==
    LET seqnum_cmp == new - old IN seqnum_cmp > 0 \/ seqnum_cmp <= -20
================================================================================
