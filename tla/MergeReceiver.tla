---------------------------- MODULE MergeReceiver ----------------------------
(***************************************************************************)
(* A merge receiver (merge_receiver.c): the sources a receiver notifies it *)
(* of, the merger of the sources that are sampled, and the merger whose    *)
(* output the application is given.                                        *)
(*                                                                         *)
(* Each operator below is what a handler, or a call of the application,    *)
(* does while it holds the receiver lock.  A merger is the function from   *)
(* its sources to what they sent last: its output is the merge of these    *)
(* (OutputIsMerge of DmxMerger), so that two mergers with the same         *)
(* function have the same output.                                          *)
(***************************************************************************)
EXTENDS Functions, FiniteSets, Naturals

CONSTANTS
    Levels,             \* levels, with the universe priority they come with
    UsePap,             \* use_pap of the configuration
    MergerLimit         \* source_count_max of both mergers, 0 for no limit

NoLevels == "none"      \* valid_level_count is 0
NoPap == "none"         \* using_universe_priority
ZeroPap == "zero"       \* address priorities that are all 0: owns no slot
SentPap == "sent"       \* the address priorities the source sends

ASSUME MergeReceiverAssumption ==
    /\ Levels # {} /\ NoLevels \notin Levels
    /\ UsePap \in BOOLEAN
    /\ MergerLimit \in Nat

VARIABLES
    mr_sources,         \* the sources of the merge receiver
    output,             \* the merger of merger_handle
    sampled,            \* the merger of sampling_merger_handle
    merged_data         \* the merged data notification of this thread, or {}

mrVars == <<mr_sources, output, sampled, merged_data>>

MergeData ==
    [levels : Levels \cup {NoLevels}, pap : {NoPap, ZeroPap, SentPap}]

NewMergeSource == [levels |-> NoLevels, pap |-> NoPap]

MergeReceiverInit ==
    /\ mr_sources = << >>
    /\ output = << >>
    /\ sampled = << >>
    /\ merged_data = {}

\* sacn_merge_receiver_destroy: both mergers and all sources are gone.
Cleared ==
    /\ mr_sources' = << >>
    /\ output' = << >>
    /\ sampled' = << >>
    /\ UNCHANGED merged_data

Fits(S) == MergerLimit = 0 \/ Cardinality(S) <= MergerLimit

AddToOneLess(merger, s) ==            \* faulty: the limit is not reached
    IF MergerLimit # 0 /\ Cardinality(DOMAIN merger) + 1 >= MergerLimit THEN merger
    ELSE [x \in DOMAIN merger \cup {s} |->
            IF x \in DOMAIN merger THEN merger[x] ELSE NewMergeSource]

\* add_source of the DMX merger: an existing source stays as it is, and a
\* merger that is full stays as it is.  No caller looks at the result.
AddTo(merger, s) ==
    IF ~Fits(DOMAIN merger \cup {s}) THEN merger
    ELSE [x \in DOMAIN merger \cup {s} |->
            IF x \in DOMAIN merger THEN merger[x] ELSE NewMergeSource]

\* The sources of S that are added if all of S are added one by one: as many
\* as there is room for.  Which ones depends on the order of their handles.
Entering(merger, S) ==
    {E \in SUBSET S :
       /\ Fits(DOMAIN merger \cup E)
       /\ \A s \in S \ E : ~Fits(DOMAIN merger \cup E \cup {s})}

\* The updates fail, with no effect, if the merger does not have the source.
UpdateLevels(merger, s, levels) ==
    [x \in DOMAIN merger |->
       IF x = s THEN [merger[x] EXCEPT !.levels = levels] ELSE merger[x]]

UpdatePap(merger, s, pap) ==
    [x \in DOMAIN merger |->
       IF x = s THEN [merger[x] EXCEPT !.pap = pap] ELSE merger[x]]

Without(f, S) == Restrict(f, DOMAIN f \ S)

\* add_active_sources
ActiveSources(srcs) ==
    {s \in DOMAIN srcs : ~srcs[s].sampling /\ srcs[s].levels_active}

\* The merged data the application is given: a copy of the output.
MergedData(universe, out, srcs) ==
    [universe |-> universe, merge |-> out, active |-> ActiveSources(srcs)]

\* The notification of a handler: filled in after the mergers were updated.
NotifyOld(condition, universe) ==                 \* faulty: before the update
    merged_data' = IF condition THEN {MergedData(universe, output, mr_sources)} ELSE {}

NotifyIf(condition, universe) ==
    merged_data' = IF condition THEN {MergedData(universe, output', mr_sources')} ELSE {}

\* update_merge_receiver_source_info
UpdateSourceInfoLast(src, start_code) ==          \* faulty: the last packet only
    [src EXCEPT !.pap_active = start_code = "pap",
                !.levels_active = @ \/ start_code = "dmx"]

UpdateSourceInfo(src, start_code) ==
    [src EXCEPT !.pap_active = @ \/ start_code = "pap",
                !.levels_active = @ \/ start_code = "dmx"]

\* add_sacn_merge_receiver_source
NewInternalSource(in_period, start_code) ==
    UpdateSourceInfo([sampling |-> in_period, pap_active |-> FALSE,
                      levels_active |-> FALSE], start_code)

\* What a packet makes of the merger it is for.  A packet without slots
\* updates no merger.
Merges(x) ==
    /\ x.value # NoLevels
    /\ x.start_code = "dmx" \/ (x.start_code = "pap" /\ UsePap)

MergePacket(merger, x) ==
    IF ~Merges(x) THEN merger
    ELSE IF x.start_code = "dmx" THEN UpdateLevels(merger, x.source, x.value)
    ELSE UpdatePap(merger, x.source, x.value)

\* merge_receiver_universe_data.  The sampling flag of the packet, not the one
\* of the source, chooses the merger.  A source that the merger had no room for
\* becomes a source of the merge receiver all the same, and stays out of both.
UniverseData(x) ==
    LET s == x.source
        known == s \in DOMAIN mr_sources
        Enter(merger) == MergePacket(IF known THEN merger ELSE AddTo(merger, s), x)
        srcs == IF known
                  THEN [mr_sources EXCEPT ![s] = UpdateSourceInfo(@, x.start_code)]
                  ELSE [y \in DOMAIN mr_sources \cup {s} |->
                          IF y = s THEN NewInternalSource(x.is_sampling, x.start_code)
                                   ELSE mr_sources[y]]
    IN  /\ mr_sources' = srcs
        /\ output' = IF x.is_sampling THEN output ELSE Enter(output)
        /\ sampled' = IF x.is_sampling THEN Enter(sampled) ELSE sampled
        /\ NotifyIf(Merges(x) /\ ~x.is_sampling, x.universe)

\* merge_receiver_sources_lost.  A source that is not known is asserted
\* against and skipped.
SourcesLost(x) ==
    LET lost == x.sources \cap DOMAIN mr_sources
        hidden == {s \in lost : mr_sources[s].sampling}
    IN  /\ mr_sources' = Without(mr_sources, lost)
        /\ output' = Without(output, lost \ hidden)
        /\ sampled' = Without(sampled, hidden)
        /\ NotifyIf(lost # hidden, x.universe)

\* merge_receiver_sampling_started: no part of the state is looked at later.
SamplingStarted == merged_data' = {} /\ UNCHANGED <<mr_sources, output, sampled>>

\* A source that leaves the sampling merger is entered into the output merger
\* with as many priorities as it has levels: without levels its priorities
\* are cut to none.
MovedWithoutPap(data) == [data EXCEPT !.pap = NoPap]   \* faulty: levels only

Moved(data) ==
    IF data.pap # NoPap /\ data.levels = NoLevels
      THEN [data EXCEPT !.pap = ZeroPap] ELSE data

MovingWithLevels ==                   \* faulty: sources without levels stay
    {s \in DOMAIN mr_sources : mr_sources[s].sampling /\ mr_sources[s].levels_active
                                /\ s \in DOMAIN sampled}

Moving ==
    {s \in DOMAIN mr_sources : mr_sources[s].sampling /\ s \in DOMAIN sampled}

\* merge_receiver_sampling_ended.  A source that the output merger has no room
\* for leaves the sampling merger all the same.
SamplingEnded(x) ==
    LET moving == Moving
    IN  /\ mr_sources' = [s \in DOMAIN mr_sources |->
                            [mr_sources[s] EXCEPT !.sampling = FALSE]]
        /\ \E entering \in Entering(output, moving) :
              output' = [s \in DOMAIN output \cup entering |->
                           IF s \in moving THEN Moved(sampled[s]) ELSE output[s]]
        /\ sampled' = Without(sampled, moving)
        /\ NotifyIf(DOMAIN mr_sources # {}, x.universe)

\* merge_receiver_pap_lost
PapLost(x) ==
    LET s == x.source
        known == UsePap /\ s \in DOMAIN mr_sources
    IN  /\ mr_sources' = IF known
             THEN [mr_sources EXCEPT ![s].pap_active = FALSE] ELSE mr_sources
        /\ output' = IF known /\ ~mr_sources[s].sampling
             THEN UpdatePap(output, s, NoPap) ELSE output
        /\ sampled' = IF known /\ mr_sources[s].sampling
             THEN UpdatePap(sampled, s, NoPap) ELSE sampled
        /\ NotifyIf(known /\ ~mr_sources[s].sampling, x.universe)

\* sacn_merge_receiver_change_universe, when it succeeds: a source is taken
\* from the output merger, or else from the sampling merger.
ForgetSources ==
    LET S == DOMAIN mr_sources
    IN  /\ output' = Without(output, S)
        /\ sampled' = Without(sampled, S \ DOMAIN output)
        /\ mr_sources' = << >>
=============================================================================
