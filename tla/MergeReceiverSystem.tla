------------------------- MODULE MergeReceiverSystem -------------------------
(***************************************************************************)
(* A merge receiver on top of its receiver.  The receive thread captures   *)
(* the notifications of a packet or of a tick under the receiver lock,     *)
(* releases it, and then gives them one by one to the handlers of the      *)
(* merge receiver, each of which takes the lock again and calls the        *)
(* application after releasing it.  The application may change the         *)
(* universe or the networking in between: its calls take the receiver lock *)
(* only, not the callback locks the receive thread holds.                  *)
(***************************************************************************)
EXTENDS ReceiverEvents, MergeReceiver, Sequences

CONSTANTS
    Universes,          \* universes the merge receiver is pointed at
    Scenarios           \* sets of what may happen besides DMX and PAP data:
                        \* "preview" data, "other" start codes, "universe"
                        \* changes, "networking" resets

\* The mergers get the source_count_max of the receiver, or with static memory
\* one that may be larger (merge_receiver.c:121).
ASSUME LimitAssumption ==
    /\ IsFiniteSet(Sources)
    /\ MaxSources \in Nat
    /\ MergerLimit = 0 \/ (MaxSources # 0 /\ MaxSources <= MergerLimit)

VARIABLES
    universe,           \* the universe of the receiver
    captured,           \* notifications captured and not yet delivered
    shown,              \* the application was shown the merge as it is
    exists,             \* the merge receiver was created, and not destroyed
    scenario           \* the element of Scenarios of this behaviour

sysVars == <<rcvVars, mrVars, universe, captured, shown, exists, scenario>>

SystemInit ==
    /\ ReceiverInit
    /\ MergeReceiverInit
    /\ universe \in Universes
    /\ captured = << >>
    /\ shown = TRUE
    /\ exists = TRUE
    /\ scenario \in Scenarios

\* The sources that take part in the merge.
HasLevels(merge) == {s \in DOMAIN merge : merge[s].levels # NoLevels}
Merge(merge) == Restrict(merge, HasLevels(merge))

\* The receive thread waits for the next packet or tick.
ThreadIdle == exists /\ captured = << >> /\ merged_data = {}

\* The notifications of a packet of source s on interface n.
DataNotification(s, n, sc, value) ==
    [kind |-> "universe_data", universe |-> universe, source |-> s,
     start_code |-> sc, is_sampling |-> n \in current, value |-> value]
PapLostNotification(s) ==
    [kind |-> "pap_lost", universe |-> universe, source |-> s]

\* Preview data is not notified.
DataIf(preview, notification) ==
    IF preview THEN << >> ELSE <<notification>>

Previews == IF "preview" \in scenario THEN BOOLEAN ELSE {FALSE}

Capture(notifications) ==
    /\ captured' = notifications
    /\ UNCHANGED <<mrVars, universe, shown, exists, scenario>>

\* handle_sacn_data_packet, up to the release of the receiver lock.
CaptureDmx(s, n, preview, value) ==
    LET data == DataIf(preview, DataNotification(s, n, "dmx", value))
    IN  \/ s \in Known /\ LevelsHeldBack(s, n) /\ Capture(<< >>)
        \/ \E pap_lost \in BOOLEAN :
              /\ LevelsOfKnown(s, n, pap_lost)
              /\ Capture((IF pap_lost THEN <<PapLostNotification(s)>> ELSE << >>)
                           \o data)
        \/ NewSource(s, n, FALSE) /\ Capture(IF sampling THEN data ELSE << >>)

CapturePap(s, n, preview) ==
    /\ PapOfKnown(s, n) \/ NewSource(s, n, TRUE)
    /\ Capture(DataIf(preview, DataNotification(s, n, "pap", SentPap)))

CaptureOther(s, n, preview) ==
    /\ "other" \in scenario
    /\ NothingNew(s, n)
    /\ Capture(DataIf(preview, DataNotification(s, n, "other", NoLevels)))

\* process_receivers, up to the release of the receiver lock.
CaptureTick(gone, ends) ==
    LET Of(condition, kind) == IF condition
           THEN <<[kind |-> kind, universe |-> universe,
                   sources |-> LostAtTick(gone)]>>
           ELSE << >>
    IN  /\ Tick(gone, ends)
        /\ Capture(Of(ends, "sampling_ended")
                     \o Of(StartsAtTick(ends), "sampling_started")
                     \o Of(LostAtTick(gone) # {}, "sources_lost"))

\* deliver_receive_callbacks and deliver_periodic_callbacks: the next handler
\* runs when the callback of the one before has returned.
Deliver ==
    /\ captured # << >>
    /\ merged_data = {}
    /\ LET x == Head(captured)
       IN  \/ x.kind = "universe_data" /\ UniverseData(x)
           \/ x.kind = "sources_lost" /\ SourcesLost(x)
           \/ x.kind = "sampling_ended" /\ SamplingEnded(x)
           \/ x.kind = "sampling_started" /\ SamplingStarted
           \/ x.kind = "pap_lost" /\ PapLost(x)
    /\ captured' = Tail(captured)
    /\ shown' = (shown /\ Merge(output') = Merge(output))
    /\ UNCHANGED <<rcvVars, universe, exists, scenario>>

\* The merged data callback, outside the receiver lock.
Callback ==
    /\ merged_data # {}
    /\ shown' = \A d \in merged_data : Merge(d.merge) = Merge(output)
    /\ merged_data' = {}
    /\ UNCHANGED <<rcvVars, mr_sources, output, sampled, universe, captured,
                   exists, scenario>>

ChangeUniverse(u) ==
    /\ "universe" \in scenario
    /\ exists
    /\ u # universe
    /\ universe' = u
    /\ ReceiverChangeUniverse
    /\ ForgetSources
    /\ shown' = TRUE
    /\ UNCHANGED <<merged_data, captured, exists, scenario>>

ResetNetworking(listed, usable) ==
    /\ "networking" \in scenario
    /\ exists
    /\ ReceiverResetNetworking(listed, usable)
    /\ UNCHANGED <<mrVars, universe, captured, shown, exists, scenario>>

\* sacn_merge_receiver_destroy waits for a callback to return.  The handlers
\* of the notifications captured before find no merge receiver of their handle,
\* also when another one is created: the handles are not used again soon.
Destroy ==
    /\ exists
    /\ merged_data = {}
    /\ exists' = FALSE
    /\ captured' = << >>
    /\ ReceiverDestroyed
    /\ Cleared
    /\ shown' = TRUE
    /\ UNCHANGED <<universe, scenario>>

\* sacn_merge_receiver_create, when it succeeds.
Create(u, usable) ==
    /\ ~exists
    /\ exists' = TRUE
    /\ universe' = u
    /\ ReceiverCreated(usable)
    /\ UNCHANGED <<mrVars, captured, shown, scenario>>

ReceivePacket ==
    /\ ThreadIdle
    /\ \E s \in Sources, n \in Netints, preview \in Previews :
          \/ \E value \in Levels \cup {NoLevels} : CaptureDmx(s, n, preview, value)
          \/ CapturePap(s, n, preview)
          \/ CaptureOther(s, n, preview)

ThreadTick ==
    /\ ThreadIdle
    /\ \E gone \in SUBSET Known, ends \in BOOLEAN : CaptureTick(gone, ends)

AppCall ==
    \/ \E u \in Universes : ChangeUniverse(u)
    \/ Destroy
    \/ \E u \in Universes, usable \in SUBSET Netints : Create(u, usable)
    \/ \E listed \in SUBSET Netints : \E usable \in SUBSET listed :
          ResetNetworking(listed, usable)

SystemNext == ReceivePacket \/ ThreadTick \/ Deliver \/ Callback \/ AppCall

SystemSpec == SystemInit /\ [][SystemNext]_sysVars

-----------------------------------------------------------------------------
SystemTypeOK ==
    /\ DOMAIN mr_sources \subseteq Sources
    /\ mr_sources \in [DOMAIN mr_sources ->
         [sampling : BOOLEAN, pap_active : BOOLEAN, levels_active : BOOLEAN]]
    /\ output \in [DOMAIN output -> MergeData]
    /\ sampled \in [DOMAIN sampled -> MergeData]
    /\ universe \in Universes
    /\ Len(captured) <= 3

InMergerOfFlag ==
    /\ \A s \in DOMAIN output : s \in DOMAIN mr_sources /\ ~mr_sources[s].sampling
    /\ \A s \in DOMAIN sampled : s \in DOMAIN mr_sources /\ mr_sources[s].sampling

NoneLeftOut == DOMAIN mr_sources \subseteq DOMAIN output \cup DOMAIN sampled

\* A source is in no other merger than the one its sampling flag names, and the
\* merge receiver knows it: so nothing is left behind in the merged output when
\* a source is lost.  With plain data and one universe each source is in the
\* merger its flag names: adding to a merger that is full would fail without
\* notice (merge_receiver.c:650 and :908), but the limit of the receiver keeps
\* both mergers from being full then, and every lookup finds its source (:905).
MergersMatchFlags ==
    /\ InMergerOfFlag
    /\ scenario \subseteq {"networking"} => NoneLeftOut

\* sources_lost and source_pap_lost, when they are handled, name sources the
\* merge receiver has (the assertions at merge_receiver.c:759 and :989).  It
\* takes plain data and one universe.
LostAreKnown ==
    scenario \subseteq {"networking"} /\ captured # << >> =>
        LET x == Head(captured)
        IN  /\ x.kind = "sources_lost" => x.sources \subseteq DOMAIN mr_sources
            /\ x.kind = "pap_lost" => x.source \in DOMAIN mr_sources

\* With the receive thread idle the merge receiver has exactly the sources the
\* receiver tracks and no longer holds back, with the priorities the receiver
\* believes they send: two tables kept by different modules, related only by
\* the notifications.  On the way there no loss names a source that is unknown.
SourcesAgree ==
    /\ SystemTypeOK
    /\ LostAreKnown
    /\ scenario \subseteq {"networking"} /\ ThreadIdle =>
          /\ DOMAIN mr_sources = {s \in Known : ~tracked[s].waiting}
          /\ \A s \in DOMAIN mr_sources : mr_sources[s].pap_active = tracked[s].pap

\* What the application was shown last is what the output merger holds: no
\* handler changes the merge without telling.  (A source without levels adds
\* nothing to the merge.)
ShownIsCurrent == "universe" \notin scenario /\ ThreadIdle => shown

\* A source is hidden only while a sampling period is running, or its end is
\* about to be delivered: whatever resets, universe changes and late deliveries
\* come between, no source is left in the sampling merger.
HiddenOnlyWhileSampling ==
    DOMAIN sampled # {} =>
        sampling \/ \E i \in DOMAIN captured : captured[i].kind = "sampling_ended"

\* The priorities of a source without levels do not count.
SameButPap(data, seen) ==
    \/ seen = data
    \/ data.levels = NoLevels /\ seen = [data EXCEPT !.pap = ZeroPap]

Merged == INSTANCE MergedSources
              WITH Data <- MergeData, MayBecome <- SameButPap, Limit <- MergerLimit,
                   merged <- output, hidden <- sampled

\* The two mergers implement MergedSources: no packet, loss or universe change,
\* delivered at whatever time, makes a merged source fall back into hiding,
\* shows a part of the sampled sources early, or loses one that there is room
\* for.
ImplementsMergedSources == Merged!Spec
=============================================================================
