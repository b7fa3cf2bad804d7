---------------------------- MODULE MergedSources ----------------------------
(***************************************************************************)
(* What a merge receiver promises of its merge, whatever the receiver, the *)
(* threads and the calls of the application do: a source is in the merge,  *)
(* or hidden while its interface is sampled, or not there.  Hidden sources *)
(* enter the merge all at once, as far as there is room, and a source      *)
(* never goes back from the merge into hiding.                             *)
(***************************************************************************)
EXTENDS Functions, FiniteSets, Naturals

CONSTANTS Sources, Data,
          Limit,            \* how many sources the merge takes, 0 for any number
          MayBecome(_, _)   \* what may become of data that leaves hiding

VARIABLES merged, hidden    \* the data of the sources that are there

vars == <<merged, hidden>>

There == DOMAIN merged \cup DOMAIN hidden

Init == merged = << >> /\ hidden = << >>

With(f, s, d) == [x \in DOMAIN f \cup {s} |-> IF x = s THEN d ELSE f[x]]

RoomFor(s, f) == Limit = 0 \/ Cardinality(DOMAIN f \cup {s}) <= Limit

\* A source sends: it may be new, if there is room for it, and data of an
\* interface it was not on before may be ignored.
Hear(s, d) ==
    \/ /\ s \in DOMAIN merged \/ (s \notin DOMAIN hidden /\ RoomFor(s, merged))
       /\ merged' = With(merged, s, d) /\ UNCHANGED hidden
    \/ /\ s \in DOMAIN hidden \/ (s \notin DOMAIN merged /\ RoomFor(s, hidden))
       /\ hidden' = With(hidden, s, d) /\ UNCHANGED merged

\* The sampling period ends: no source leaves the merge, and a hidden one is
\* left out only where there is no room left.
Reveal ==
    /\ DOMAIN merged \subseteq DOMAIN merged' /\ DOMAIN merged' \subseteq There
    /\ \A s \in There \ DOMAIN merged' : ~RoomFor(s, merged')
    /\ \A s \in DOMAIN merged' : IF s \in DOMAIN merged THEN merged'[s] = merged[s]
                                  ELSE MayBecome(hidden[s], merged'[s])
    /\ hidden' = << >>

\* Sources are lost, or all are forgotten.
Lose(S) ==
    /\ merged' = Restrict(merged, DOMAIN merged \ S)
    /\ hidden' = Restrict(hidden, DOMAIN hidden \ S)

Next ==
    \/ \E s \in Sources, d \in Data : Hear(s, d)
    \/ Reveal
    \/ \E S \in SUBSET Sources : Lose(S)

Spec == Init /\ [][Next]_vars
=============================================================================
