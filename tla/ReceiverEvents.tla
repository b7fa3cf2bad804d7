--------------------------- MODULE ReceiverEvents ---------------------------
(***************************************************************************)
(* The receiver as the modules above it see it: which sources it tracks,   *)
(* on which interface, whether it holds their data back while it waits for *)
(* per-address priorities, and its sampling period.  Timers, sequence      *)
(* numbers and termination sets are left out: what depends on them may     *)
(* happen at any time.  ReceiverState implements this module.              *)
(***************************************************************************)
EXTENDS Functions, FiniteSets, Naturals

CONSTANTS
    Sources, Netints,
    MaxSources          \* source_count_max, 0 for kSacnReceiverInfiniteSources

VARIABLES
    tracked,            \* [netint, waiting, pap] of every tracked source
    netints,            \* the interfaces the receiver listens on
    sampling,
    started,            \* notified_sampling_started
    current,            \* interfaces of the current sampling period
    future              \* interfaces of a future sampling period

rcvVars == <<tracked, netints, sampling, started, current, future>>
periodVars == <<netints, sampling, started, current, future>>

Known == DOMAIN tracked

ReceiverInit ==
    /\ tracked = << >>
    /\ netints \in SUBSET Netints
    /\ sampling = TRUE
    /\ started = FALSE
    /\ current = netints
    /\ future = {}

\* A packet of a tracked source that is looked at at all.
Accepts(s, n) ==
    /\ s \in Known
    /\ n \notin future
    /\ n = tracked[s].netint \/ sampling

On(s, n) == [tracked[s] EXCEPT !.netint = n]

\* Dropped as terminated or out of sequence, or data of another start code.
NothingNew(s, n) ==
    /\ Accepts(s, n)
    /\ tracked' = [tracked EXCEPT ![s] = On(s, n)]
    /\ UNCHANGED periodVars

\* NULL start code data that is held back: the PAP wait is not over.
LevelsHeldBack(s, n) == tracked[s].waiting /\ NothingNew(s, n)

\* NULL start code data that is notified.  The priorities of the source may
\* be found lost at this moment.
LevelsOfKnown(s, n, pap_lost) ==
    /\ Accepts(s, n)
    /\ pap_lost => tracked[s].pap
    /\ tracked' = [tracked EXCEPT ![s] = [On(s, n) EXCEPT
                     !.waiting = FALSE, !.pap = @ /\ ~pap_lost]]
    /\ UNCHANGED periodVars

PapOfKnown(s, n) ==
    /\ Accepts(s, n)
    /\ tracked' = [tracked EXCEPT ![s] = [On(s, n) EXCEPT
                     !.waiting = FALSE, !.pap = TRUE]]
    /\ UNCHANGED periodVars

\* The limit of sources is not reached.
HasRoom == MaxSources = 0 \/ Cardinality(Known) < MaxSources

\* A source is found.  Outside the sampling period its levels are held back.
NewSource(s, n, has_pap) ==
    /\ s \notin Known
    /\ HasRoom
    /\ n \notin future
    /\ tracked' = [x \in Known \cup {s} |->
                     IF x # s THEN tracked[x]
                     ELSE [netint |-> n, pap |-> has_pap,
                           waiting |-> ~has_pap /\ ~sampling]]
    /\ UNCHANGED periodVars

\* A tick: the sources in gone are dropped, the ones among them that were
\* not waiting any longer are notified as lost; the period may be over.
Tick(gone, ends) ==
    /\ gone \subseteq Known
    /\ ends => sampling
    /\ tracked' = Restrict(tracked, Known \ gone)
    /\ sampling' = IF ends THEN future # {} ELSE sampling
    /\ current' = IF ends THEN future ELSE current
    /\ future' = IF ends THEN {} ELSE future
    /\ started' = TRUE
    /\ UNCHANGED netints

LostAtTick(gone) == {s \in gone : ~tracked[s].waiting}
StartsAtTick(ends) == ~started \/ (ends /\ future # {})

\* begin_sampling_period
BeginPeriod ==
    /\ sampling' = TRUE
    /\ started' = (sampling /\ started)

ReceiverChangeUniverse ==
    /\ tracked' = << >>
    /\ current' = netints
    /\ future' = {}
    /\ BeginPeriod
    /\ UNCHANGED netints

ReceiverResetNetworking(listed, usable) ==
    LET added == usable \ (netints \cup current \cup future)
        removed == IF sampling THEN netints \ listed ELSE {}
    IN  /\ usable \subseteq listed
        /\ usable # {} \/ listed = {}
        /\ netints' = usable
        /\ current' = (current \ removed) \cup (IF sampling THEN {} ELSE added)
        /\ future' = (future \ removed) \cup (IF sampling THEN added ELSE {})
        /\ BeginPeriod
        /\ UNCHANGED tracked

\* destroy_sacn_receiver, and the creation of another receiver.
ReceiverDestroyed ==
    /\ tracked' = << >>
    /\ netints' = {}
    /\ sampling' = FALSE
    /\ started' = FALSE
    /\ current' = {}
    /\ future' = {}

ReceiverCreated(usable) ==
    /\ netints' = usable
    /\ current' = usable
    /\ sampling' = TRUE
    /\ UNCHANGED <<tracked, started, future>>

Next ==
    \/ \E s \in Sources, n \in Netints :
          \/ NothingNew(s, n)
          \/ \E pap_lost \in BOOLEAN : LevelsOfKnown(s, n, pap_lost)
          \/ PapOfKnown(s, n)
          \/ \E has_pap \in BOOLEAN : NewSource(s, n, has_pap)
    \/ \E gone \in SUBSET Known, ends \in BOOLEAN : Tick(gone, ends)
    \/ ReceiverChangeUniverse
    \/ \E listed \in SUBSET Netints : \E usable \in SUBSET listed :
          ReceiverResetNetworking(listed, usable)

Spec == ReceiverInit /\ [][Next]_rcvVars
=============================================================================
