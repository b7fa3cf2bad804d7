---------------------------- MODULE DmxMergerLoops ----------------------------
(***************************************************************************)
(* The candidate scans of the merger as the loops they are in the code,    *)
(* over the handles in ascending order, to compare the choice the          *)
(* operators of DmxMerger make with.                                       *)
(***************************************************************************)
EXTENDS DmxMergers

\* All handles are below Bound.
Bound == IF Handles = {} THEN 0
         ELSE 1 + CHOOSE h \in Handles : \A c \in Handles : c <= h

\* The while loop of merge_new_priorities: out[n] is the winner when the
\* candidates below n have been looked at.
LoopScan(h, S, slot, start) ==
    LET out[n \in 0..Bound] ==
            IF n = 0 THEN start
            ELSE IF n - 1 \in DOMAIN S \ {h} /\ Beats(Won(n - 1, S[n - 1], slot), out[n - 1])
              THEN Won(n - 1, S[n - 1], slot)
            ELSE out[n - 1]
    IN  out[Bound]

\* The while loop of update_levels_multi_source.
LoopScanLevels(h, S, slot, start) ==
    LET out[n \in 0..Bound] ==
            IF n = 0 THEN start
            ELSE IF /\ n - 1 \in DOMAIN S \ {h}
                    /\ S[n - 1].address_priority[slot] = out[n - 1].pap
                    /\ S[n - 1].levels[slot] > out[n - 1].level
              THEN [out[n - 1] EXCEPT !.level = S[n - 1].levels[slot], !.owner = n - 1]
            ELSE out[n - 1]
    IN  out[Bound]

\* When the owner of a slot lowers its priority or its level, the scan picks the
\* source that the loop of the code ends with.
ScansAreLoops ==
    \A slot \in Slots :
        LET out == output[slot]
            S == source_states
            lower == {Weakened(out, pap) : pap \in {p \in Priority : p < out.pap}}
            dimmer == {[out EXCEPT !.level = level] :
                          level \in {l \in Level : l < out.level}}
        IN  /\ \A start \in lower :
                  Scan(out.owner, S, slot, start) = LoopScan(out.owner, S, slot, start)
            /\ \A start \in dimmer :
                  ScanLevels(out.owner, S, slot, start)
                    = LoopScanLevels(out.owner, S, slot, start)
=============================================================================
