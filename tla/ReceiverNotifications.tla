------------------------ MODULE ReceiverNotifications ------------------------
(***************************************************************************)
(* What a receiver promises the application about its sources, without     *)
(* timers, termination sets or receive states (SacnReceiverCallbacks in    *)
(* receiver.h): a source is reported lost only if its data has been given  *)
(* to the application, and it is reported once; its priorities are given   *)
(* together with it, are taken back while its levels go on, and are gone   *)
(* when it is lost.                                                        *)
(***************************************************************************)
CONSTANT Sources

VARIABLES
    reported,           \* sources whose data the application has
    pap_held,           \* sources whose per-address priorities it has
    lost                \* the sources of the last sources_lost notification

vars == <<reported, pap_held, lost>>

Init == reported = {} /\ pap_held = {} /\ lost = {}

\* universe_data with NULL start code data, maybe after source_pap_lost.
Levels(s) ==
    /\ reported' = reported \cup {s}
    /\ pap_held' \in {pap_held, pap_held \ {s}}
    /\ lost' = {}

\* universe_data with per-address priorities.
Priorities(s) ==
    /\ reported' = reported \cup {s}
    /\ pap_held' = pap_held \cup {s}
    /\ lost' = {}

\* sources_lost
SourcesLost(L) ==
    /\ L # {}
    /\ L \subseteq reported
    /\ reported' = reported \ L
    /\ pap_held' = pap_held \ L
    /\ lost' = L

\* The application changes the universe and forgets all sources.
Forget == reported' = {} /\ pap_held' = {} /\ lost' = {}

\* Nothing the application hears of.
Quiet == lost' = {} /\ UNCHANGED <<reported, pap_held>>

Next ==
    \/ \E s \in Sources : Levels(s) \/ Priorities(s)
    \/ \E L \in SUBSET Sources : SourcesLost(L)
    \/ Forget
    \/ Quiet

Spec == Init /\ [][Next]_vars
=============================================================================
