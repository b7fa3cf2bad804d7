---------------------------- MODULE ReceiverState ----------------------------
(***************************************************************************)
(* One sACN receiver (receiver_state.c): the sources it tracks on its      *)
(* universe, its sampling period, its termination sets, and the            *)
(* notifications it gives the application.                                 *)
(*                                                                         *)
(* Every action holds the receiver lock of the code from beginning to end. *)
(* A timer is what is left of its interval, zero when it is expired, and   *)
(* Elapse ages all of them by one unit.  The receive thread runs Tick at   *)
(* least once every MaxTickDelay units.                                    *)
(*                                                                         *)
(* A packet that the code drops without changing any state is no step.     *)
(***************************************************************************)
EXTENDS SourceLoss, FiniteSets

CONSTANTS
    Netints,            \* the network interfaces of the system
    StartCodes,         \* the start codes sources send
    LossTimeout,        \* kSacnSourceLossTimeout
    SampleTime,         \* kSacnSampleTime
    WaitForPriority,    \* kSacnWaitForPriority
    ExpiredWaits,       \* values the application gives the expired wait
    MaxSources,         \* source_count_max, 0 for kSacnReceiverInfiniteSources
    FilterPreview,      \* kSacnReceiverOptsFilterPreviewData is set
    Reconfigures,       \* the application changes universe and networking
    MaxTickDelay        \* bound: units of time that pass between two ticks

Dmx == "dmx"            \* kSacnStartcodeDmx, 0x00
Pap == "pap"            \* kSacnStartcodePriority, 0xDD
Other == "other"        \* any other start code

ASSUME ReceiverAssumption ==
    /\ IsFiniteSet(Sources) /\ Sources # {}
    /\ Netints # {}
    /\ StartCodes \subseteq {Dmx, Pap, Other}
    /\ LossTimeout \in Nat \ {0}
    /\ SampleTime \in Nat \ {0}
    /\ WaitForPriority \in Nat \ {0}
    /\ ExpiredWaits \subseteq Nat /\ ExpiredWaits # {}
    /\ MaxSources \in Nat
    /\ FilterPreview \in BOOLEAN /\ Reconfigures \in BOOLEAN
    /\ MaxTickDelay \in Nat \ {0}

VARIABLES
    sources,            \* the tracked sources, a partial function of Sources
    term_sets,          \* the termination sets of the universe
    expired_wait,       \* the global notification wait
    suppress_limit_exceeded,
    sampling,
    notified_sampling_started,
    sample_timer,
    netints,            \* the interfaces the receiver listens on
    sp_current,         \* interfaces in the current sampling period
    sp_future,          \* interfaces scheduled for a future sampling period
    since_tick,         \* units of time since the last tick
    \* What the application has been told:
    reported,           \* sources it has 0x00 or 0xDD data of
    pap_held,           \* sources it has per-address priorities of
    app_sampling,       \* it has seen a sampling period start and not end
    lost                \* the sources_lost notification of the last step

srcVars == <<sources, term_sets, suppress_limit_exceeded>>
samplingVars == <<sampling, notified_sampling_started, sample_timer,
                  netints, sp_current, sp_future, app_sampling>>
appVars == <<reported, pap_held, lost>>
vars == <<srcVars, expired_wait, samplingVars, since_tick, appVars>>

Waiting == "WaitingForPap"          \* kRecvStateWaitingForPap
DmxOnly == "HaveDmxOnly"            \* kRecvStateHaveDmxOnly
PapOnly == "HavePapOnly"            \* kRecvStateHavePapOnly
DmxAndPap == "HaveDmxAndPap"        \* kRecvStateHaveDmxAndPap

RecvStates == {Waiting, DmxOnly, PapOnly, DmxAndPap}

\* SacnTrackedSource.  The sequence number is left out: whether a packet is
\* in sequence is a choice of the packet actions.
TrackedSource ==
    [recv_state : RecvStates, packet_timer : Nat,
     pap_timer : Nat, pap_interval : Nat,
     terminated : BOOLEAN, dmx_received : BOOLEAN, netint : Netints]

Tracked == DOMAIN sources

TypeOK ==
    /\ Tracked \subseteq Sources
    /\ sources \in [Tracked -> TrackedSource]
    /\ term_sets \subseteq TerminationSet
    /\ expired_wait \in ExpiredWaits
    /\ suppress_limit_exceeded \in BOOLEAN
    /\ sampling \in BOOLEAN
    /\ notified_sampling_started \in BOOLEAN
    /\ sample_timer \in Nat
    /\ netints \subseteq Netints
    /\ sp_current \subseteq Netints
    /\ sp_future \subseteq Netints
    /\ since_tick \in 0..MaxTickDelay
    /\ reported \subseteq Sources
    /\ pap_held \subseteq Sources
    /\ app_sampling \in BOOLEAN
    /\ lost \subseteq Sources

\* create_sacn_receiver: all interfaces of the new receiver are sampled.
Init ==
    /\ sources = << >>
    /\ term_sets = {}
    /\ expired_wait \in ExpiredWaits
    /\ suppress_limit_exceeded = FALSE
    /\ sampling = TRUE
    /\ notified_sampling_started = FALSE
    /\ sample_timer = SampleTime
    /\ netints \in SUBSET Netints
    /\ sp_current = netints
    /\ sp_future = {}
    /\ since_tick = 0
    /\ reported = {}
    /\ pap_held = {}
    /\ app_sampling = FALSE
    /\ lost = {}
-----------------------------------------------------------------------------
(***************************************************************************)
(* Packets: handle_sacn_data_packet.  The parameters n and preview are the *)
(* interface and the Preview_Data bit of the packet.                       *)
(***************************************************************************)

\* The application's view after a universe_data notification of source s.
Report(s, preview) ==
    reported' = IF preview /\ FilterPreview THEN reported
                                            ELSE reported \cup {s}
ReportPap(s, preview) ==
    pap_held' = IF preview /\ FilterPreview THEN pap_held
                                            ELSE pap_held \cup {s}

\* A packet of a tracked source is looked at if its interface is not waiting
\* for a later sampling period, and is the one the source is tracked on: the
\* source moves to another interface only during the sampling period.
Accepts(s, n) ==
    /\ s \in Tracked
    /\ n \notin sp_future
    /\ n = sources[s].netint \/ sampling

\* The tracked source s, on the interface of the packet.
On(s, n) == [sources[s] EXCEPT !.netint = n]

SetSource(s, src) == sources' = [sources EXCEPT ![s] = src]

\* mark_source_terminated
Terminated(src) == [src EXCEPT !.terminated = TRUE, !.packet_timer = 0]

\* A packet with the Stream_Terminated bit (term), or any packet of a source
\* that is terminated already.
TerminatedPacket(s, n, term) ==
    /\ Accepts(s, n)
    /\ term \/ sources[s].terminated
    /\ SetSource(s, IF term THEN Terminated(On(s, n)) ELSE On(s, n))
    /\ lost' = {}
    /\ UNCHANGED <<term_sets, suppress_limit_exceeded, expired_wait,
                   samplingVars, since_tick, reported, pap_held>>

\* A packet that check_sequence refuses only moves the source, and so does
\* the data of another start code, which is passed on to the application.
OutOfSequenceOrOther(s, n) ==
    /\ Accepts(s, n)
    /\ ~sources[s].terminated
    /\ SetSource(s, On(s, n))
    /\ lost' = {}
    /\ UNCHANGED <<term_sets, suppress_limit_exceeded, expired_wait,
                   samplingVars, since_tick, reported, pap_held>>

\* process_null_start_code: what the packet makes of the receive state.
StateAfterDmx(src) ==
    CASE src.recv_state = PapOnly                            -> DmxAndPap
      [] src.recv_state = Waiting /\ src.pap_timer = 0       -> DmxOnly
      [] src.recv_state = DmxAndPap /\ src.pap_timer = 0     -> DmxOnly
      [] OTHER                                               -> src.recv_state

SourceAfterDmx(src) ==
    LET stops_waiting == src.recv_state = Waiting /\ src.pap_timer = 0
        pap_time(t) == IF stops_waiting THEN LossTimeout ELSE t
    IN  [src EXCEPT !.dmx_received = TRUE, !.packet_timer = LossTimeout,
                    !.recv_state = StateAfterDmx(src),
                    !.pap_timer = pap_time(@), !.pap_interval = pap_time(@)]

\* NULL start code data of a tracked source.  It is held back while the
\* source may still send its priorities; the loss of the priorities of a
\* source is noticed here.
NullStartCode(s, n, preview) ==
    LET src == On(s, n)
        pap_lost == src.recv_state = DmxAndPap /\ src.pap_timer = 0
    IN  /\ Accepts(s, n)
        /\ ~src.terminated
        /\ SetSource(s, SourceAfterDmx(src))
        /\ IF src.recv_state = Waiting /\ src.pap_timer > 0
             THEN reported' = reported
             ELSE Report(s, preview)
        /\ pap_held' = IF pap_lost THEN pap_held \ {s} ELSE pap_held
        /\ lost' = {}
        /\ UNCHANGED <<term_sets, suppress_limit_exceeded, expired_wait,
                       samplingVars, since_tick>>

\* process_pap: etcpal_timer_reset keeps the interval the timer had.
SourceAfterPap(src) ==
    IF src.recv_state \in {Waiting, DmxOnly}
      THEN [src EXCEPT !.recv_state = DmxAndPap,
                       !.pap_timer = LossTimeout, !.pap_interval = LossTimeout]
      ELSE [src EXCEPT !.pap_timer = src.pap_interval]

PapPacket(s, n, preview) ==
    LET src == On(s, n)
    IN  /\ Accepts(s, n)
        /\ ~src.terminated
        /\ SetSource(s, SourceAfterPap(src))
        /\ Report(s, preview)
        /\ ReportPap(s, preview)
        /\ lost' = {}
        /\ UNCHANGED <<term_sets, suppress_limit_exceeded, expired_wait,
                       samplingVars, since_tick>>

\* A faulty variant: outside the sampling period too, a new source does not
\* wait for PAP, although its first data is held back.
NewTrackedSourceAtOnce(sc, n) ==
    [recv_state |-> IF sc = Pap THEN PapOnly ELSE DmxOnly,
     packet_timer |-> LossTimeout,
     pap_timer |-> WaitForPriority, pap_interval |-> WaitForPriority,
     terminated |-> FALSE, dmx_received |-> TRUE, netint |-> n]

\* add_sacn_tracked_source.  During the sampling period any packet counts;
\* after it, a source that starts with NULL start code data waits for PAP.
\* The pap_timer of a source found by DMX during sampling is not started.
NewTrackedSource(sc, n) ==
    LET pap_time == CASE ~sampling             -> WaitForPriority
                      [] sampling /\ sc = Pap  -> LossTimeout
                      [] OTHER                 -> 0
    IN  [recv_state |-> CASE sc = Pap -> PapOnly
                          [] sc # Pap /\ sampling -> DmxOnly
                          [] OTHER -> Waiting,
         packet_timer |-> LossTimeout,
         pap_timer |-> pap_time, pap_interval |-> pap_time,
         terminated |-> FALSE, dmx_received |-> TRUE, netint |-> n]

HasRoom == MaxSources = 0 \/ Cardinality(Tracked) < MaxSources

\* A source that is not tracked is considered when it sends 0x00 or 0xDD
\* without the Stream_Terminated bit.
Considers(s, n, sc) ==
    s \notin Tracked /\ n \notin sp_future /\ sc \in {Dmx, Pap}

\* process_new_source_data, with room for the source.
NewSource(s, n, sc, preview) ==
    /\ Considers(s, n, sc)
    /\ HasRoom
    /\ sources' = [x \in Tracked \cup {s} |->
                     IF x = s THEN NewTrackedSource(sc, n) ELSE sources[x]]
    /\ IF sc = Pap \/ sampling THEN Report(s, preview)
                               ELSE reported' = reported
    /\ IF sc = Pap THEN ReportPap(s, preview) ELSE pap_held' = pap_held
    /\ lost' = {}
    /\ UNCHANGED <<term_sets, suppress_limit_exceeded, expired_wait,
                   samplingVars, since_tick>>

\* process_new_source_data, without room: the source limit notification is
\* given unless it is suppressed.
NoRoomForSource(s, n, sc) ==
    /\ Considers(s, n, sc)
    /\ ~HasRoom
    /\ suppress_limit_exceeded' = TRUE
    /\ lost' = {}
    /\ UNCHANGED <<sources, term_sets, expired_wait, samplingVars, since_tick,
                   reported, pap_held>>

DataPacket(s) ==
    \E n \in Netints :
        \/ \E term \in BOOLEAN : TerminatedPacket(s, n, term)
        \/ OutOfSequenceOrOther(s, n)
        \/ Dmx \in StartCodes /\ \E p \in BOOLEAN : NullStartCode(s, n, p)
        \/ Pap \in StartCodes /\ \E p \in BOOLEAN : PapPacket(s, n, p)
        \/ \E sc \in StartCodes :
              \/ \E p \in BOOLEAN : NewSource(s, n, sc, p)
              \/ NoRoomForSource(s, n, sc)
-----------------------------------------------------------------------------
(***************************************************************************)
(* The periodic tick: process_receivers and process_receiver_sources for   *)
(* this receiver.                                                          *)
(***************************************************************************)

\* check_source_timeouts and update_source_status sort the sources.
IsWaiting(s) == sources[s].recv_state = Waiting
IsExpired(s) == sources[s].packet_timer = 0
\* A faulty variant: every source that has timed out is erased.
ToEraseExpired == {s \in Tracked : IsExpired(s)}

ToErase == {s \in Tracked : IsWaiting(s) /\ IsExpired(s)}
\* A faulty variant: sources that wait for PAP go offline like the others.
OfflineOrWaiting == {s \in Tracked : IsExpired(s)}

OfflineSources == {s \in Tracked : ~IsWaiting(s) /\ IsExpired(s)}
OnlineSources ==
    {s \in Tracked : ~IsWaiting(s) /\ ~IsExpired(s) /\ sources[s].dmx_received}
UnknownSources ==
    {s \in Tracked : ~IsWaiting(s) /\ ~IsExpired(s) /\ ~sources[s].dmx_received}
TerminatedSources == {s \in Tracked : sources[s].terminated}

\* The termination sets after the status of the sources has been entered.
\* The source that takes the unknown ones in is the first new one in the
\* order of the tree of sources, which the model does not know.
TermSetsAtTick(first) ==
    MarkSourcesOnline(
        MarkSourcesOffline(term_sets, OfflineSources, TerminatedSources,
                           UnknownSources, first, expired_wait),
        OnlineSources)

\* A faulty variant: the suppression of the source limit notification is
\* lifted at every tick.
ProcessReceiverSourcesUnsuppressed(first) ==
    LET T == TermSetsAtTick(first)
        gone == ExpiredSources(T) \cup ToErase
    IN  /\ term_sets' = T \ ExpiredTermSets(T)
        /\ lost' = ExpiredSources(T)
        /\ sources' = [s \in Tracked \ gone |->
                         [sources[s] EXCEPT !.dmx_received = FALSE]]
        /\ suppress_limit_exceeded' = FALSE
        /\ reported' = reported \ ExpiredSources(T)
        /\ pap_held' = pap_held \ ExpiredSources(T)

\* process_receiver_sources
ProcessReceiverSources(first) ==
    LET T == TermSetsAtTick(first)
        gone == ExpiredSources(T) \cup ToErase
    IN  /\ term_sets' = T \ ExpiredTermSets(T)
        /\ lost' = ExpiredSources(T)
        /\ sources' = [s \in Tracked \ gone |->
                         IF s \in OnlineSources
                           THEN [sources[s] EXCEPT !.dmx_received = FALSE]
                           ELSE sources[s]]
        /\ suppress_limit_exceeded' =
              (suppress_limit_exceeded /\ ExpiredSources(T) = {})
        /\ reported' = reported \ ExpiredSources(T)
        /\ pap_held' = pap_held \ ExpiredSources(T)

SamplingEnds == sampling /\ sample_timer = 0

\* This tick notifies the start of a sampling period.
SamplingStarts ==
    ~notified_sampling_started \/ (SamplingEnds /\ sp_future # {})

\* end_current_sampling_period: the next one begins at once for the
\* interfaces that are waiting for it.
EndCurrentSamplingPeriod ==
    /\ sp_current' = sp_future
    /\ sp_future' = {}
    /\ sampling' = (sp_future # {})
    /\ sample_timer' = IF sp_future # {} THEN SampleTime ELSE sample_timer

\* The sampling part of process_receivers.  An ended notification of a tick
\* is delivered before the started one.
ProcessSampling ==
    /\ IF SamplingEnds
         THEN EndCurrentSamplingPeriod
         ELSE UNCHANGED <<sp_current, sp_future, sampling, sample_timer>>
    /\ notified_sampling_started' = TRUE
    /\ app_sampling' = (SamplingStarts \/ (app_sampling /\ ~SamplingEnds))
    /\ UNCHANGED netints

Tick ==
    /\ ProcessSampling
    /\ \E first \in Sources :
          /\ OfflineSources \ InTermSet(term_sets) # {} =>
                first \in OfflineSources \ InTermSet(term_sets)
          /\ ProcessReceiverSources(first)
    /\ since_tick' = 0
    /\ UNCHANGED expired_wait

Age(t) == IF t = 0 THEN 0 ELSE t - 1

\* One unit of time passes for every timer.
Elapse ==
    /\ since_tick < MaxTickDelay
    /\ since_tick' = since_tick + 1
    /\ sources' = [s \in Tracked |->
                     [sources[s] EXCEPT !.packet_timer = Age(@),
                                        !.pap_timer = Age(@)]]
    /\ term_sets' = {[t EXCEPT !.wait = Age(@)] : t \in term_sets}
    /\ sample_timer' = Age(sample_timer)
    /\ lost' = {}
    /\ UNCHANGED <<expired_wait, suppress_limit_exceeded, sampling,
                   notified_sampling_started, netints, sp_current, sp_future,
                   app_sampling, reported, pap_held>>
-----------------------------------------------------------------------------
(***************************************************************************)
(* The application's calls.                                                *)
(***************************************************************************)

\* A faulty variant: the start of a second period is not notified.
BeginSamplingPeriodQuietly ==
    /\ sampling' = TRUE
    /\ UNCHANGED notified_sampling_started
    /\ sample_timer' = IF sampling THEN sample_timer ELSE SampleTime

\* begin_sampling_period does nothing when a sampling period is running.
BeginSamplingPeriod ==
    /\ sampling' = TRUE
    /\ notified_sampling_started' = (sampling /\ notified_sampling_started)
    /\ sample_timer' = IF sampling THEN sample_timer ELSE SampleTime

\* change_sacn_receiver_universe: the sources of the old universe are
\* forgotten without a notification.
ChangeUniverse ==
    /\ Reconfigures
    /\ sources' = << >>
    /\ term_sets' = {}
    /\ suppress_limit_exceeded' = FALSE
    /\ sp_current' = netints
    /\ sp_future' = {}
    /\ BeginSamplingPeriod
    /\ reported' = {}
    /\ pap_held' = {}
    /\ lost' = {}
    /\ UNCHANGED <<expired_wait, netints, since_tick, app_sampling>>

\* A faulty variant: new interfaces join the sampling period that is running.
SampleNewNetintsAtOnce(listed, usable) ==
    LET added == usable \ (netints \cup sp_current \cup sp_future)
        removed == IF sampling THEN netints \ listed ELSE {}
    IN  /\ sp_current' = (sp_current \ removed) \cup added
        /\ sp_future' = sp_future \ removed

\* update_sampling_period_netints for a new list of interfaces, "usable" the
\* ones of status Ok.  An interface that is in the tree already stays as it
\* is; what is not in the list any more is removed during sampling only.
UpdateSamplingPeriodNetints(listed, usable) ==
    LET added == usable \ (netints \cup sp_current \cup sp_future)
        removed == IF sampling THEN netints \ listed ELSE {}
    IN  /\ sp_current' = (sp_current \ removed)
                           \cup (IF sampling THEN {} ELSE added)
        /\ sp_future' = (sp_future \ removed)
                           \cup (IF sampling THEN added ELSE {})

\* terminate_sources_on_removed_netints
TerminateSourcesNotOn(usable) ==
    sources' = [s \in Tracked |->
                  IF sources[s].netint \in usable
                    THEN sources[s] ELSE Terminated(sources[s])]

\* sacn_receiver_reset_networking for this receiver, when it succeeds.
ResetNetworking(listed, usable) ==
    /\ Reconfigures
    /\ usable # {} \/ listed = {}
    /\ UpdateSamplingPeriodNetints(listed, usable)
    /\ netints' = usable
    /\ TerminateSourcesNotOn(usable)
    /\ BeginSamplingPeriod
    /\ lost' = {}
    /\ UNCHANGED <<term_sets, suppress_limit_exceeded, expired_wait,
                   since_tick, app_sampling, reported, pap_held>>

\* sacn_receiver_set_expired_wait: termination sets keep the wait they have.
SetExpiredWait(wait) ==
    /\ expired_wait' = wait
    /\ lost' = {}
    /\ UNCHANGED <<srcVars, samplingVars, since_tick, reported, pap_held>>

NetworkingCall ==
    \E listed \in SUBSET Netints : \E usable \in SUBSET listed :
        ResetNetworking(listed, usable)

AppCall ==
    \/ ChangeUniverse
    \/ NetworkingCall
    \/ \E wait \in ExpiredWaits : SetExpiredWait(wait)

Next ==
    \/ \E s \in Sources : DataPacket(s)
    \/ Tick
    \/ Elapse
    \/ AppCall

Spec == Init /\ [][Next]_vars

\* Time passes, and the receive thread loops: read_network_and_process waits
\* for packets with a timeout, so it comes back to the periodic timer.
FairSpec == Spec /\ WF_vars(Elapse) /\ WF_vars(Tick)
-----------------------------------------------------------------------------
(***************************************************************************)
(* Properties.                                                             *)
(***************************************************************************)

\* The termination sets of the universe are disjoint, not empty, and hold
\* only tracked sources that are past the PAP wait: find_existing_ts_src can
\* find one source in one set only, and remove_receiver_source never leaves a
\* member of a termination set behind.
TermSetsOK ==
    \A t \in term_sets :
        /\ t.members # {}
        /\ t.offline \subseteq t.members
        /\ t.terminated \subseteq t.offline
        /\ t.members \subseteq {s \in Tracked : ~IsWaiting(s)}
        /\ \A u \in term_sets : u = t \/ u.members \cap t.members = {}

\* A source that is marked offline in a termination set is still silent, or
\* has been heard since the last tick, in which case the next tick takes it out
\* of the set: packet_timer is never restarted without
\* dmx_received_since_last_tick.
OfflineAreSilent ==
    \A t \in term_sets : \A s \in t.offline :
        IsExpired(s) \/ sources[s].dmx_received

\* The application never holds on to a source the receiver has dropped: a
\* source whose data or priorities it was given is still tracked, in the
\* matching receive state, so that it will be reported lost in time.
AppHoldsTracked ==
    /\ \A s \in reported : s \in Tracked /\ ~IsWaiting(s)
    /\ \A s \in pap_held :
          s \in Tracked /\ sources[s].recv_state \in {PapOnly, DmxAndPap}

\* The receiver keeps no source past the PAP wait that the application was not
\* told of, and the priorities it tracks are the ones the application holds:
\* sources_lost and source_pap_lost never name a source without such data.
\* (Only without preview filtering.)
AppWasTold ==
    \A s \in Tracked :
        /\ ~IsWaiting(s) => s \in reported
        /\ sources[s].recv_state \in {PapOnly, DmxAndPap} => s \in pap_held

\* The application and the receiver agree on the sources there are and on their
\* priorities, in both directions.  (Only without preview filtering.)
AppIsInformed == AppHoldsTracked /\ AppWasTold

\* sources_lost names only sources that are tracked and silent at the tick
\* that reports them, and that are not tracked any longer: a source that came
\* back during the notification wait is not reported.
LostAreSilent ==
    [][\A s \in lost' \ lost :
          s \in Tracked /\ IsExpired(s) /\ s \notin Tracked']_vars

\* While the receiver stays at its limit the application is told once, however
\* many sources are refused: the suppression of the source limit notification is
\* lifted only by a step that makes room for a source.
LimitToldOnce ==
    [][suppress_limit_exceeded /\ ~suppress_limit_exceeded' => HasRoom']_vars

\* After every tick the application's view of the sampling period is the
\* receiver's: started and ended notifications alternate, also when a period
\* for new interfaces begins as the current one ends.  (Only when a tick comes
\* before the first sampling period is over.)
SamplingViewOK ==
    notified_sampling_started => app_sampling = sampling

\* While a sampling period is running no interface is left waiting for a
\* sampling period that will not come, whatever calls changed the interfaces.
FutureNeedsSampling == sp_current \cup sp_future # {} => sampling

\* The period as the application, the timer and the interfaces see it.
SamplingIsConsistent == SamplingViewOK /\ FutureNeedsSampling

\* What the application hears of its sources is a behaviour of the abstract
\* ReceiverNotifications, with the history variables as its state: sources_lost
\* names reported sources only.  (Only without preview filtering.)
Notifications == INSTANCE ReceiverNotifications
ImplementsNotifications == Notifications!Spec

\* The receiver is a behaviour of ReceiverEvents, the receiver as the merge
\* receiver sees it: timers and termination sets only choose among what may
\* happen there, through every reset and change of universe, and no source is
\* added beyond the limit.
Events == INSTANCE ReceiverEvents
    WITH tracked <- [s \in Tracked |->
           [netint |-> sources[s].netint, waiting |-> IsWaiting(s),
            pap |-> sources[s].recv_state \in {PapOnly, DmxAndPap}]],
         started <- notified_sampling_started,
         current <- sp_current, future <- sp_future
ImplementsEvents == Events!Spec

\* A source from which no packet is handled any longer is forgotten, and for
\* good: the timeouts, the settling time of its termination set and the
\* notification wait all come to an end.
SilentSourceIsForgotten ==
    \A s \in Sources :
        []<><<DataPacket(s)>>_vars \/ <>[](s \notin Tracked)
=============================================================================
