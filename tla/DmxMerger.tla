------------------------------ MODULE DmxMerger ------------------------------
(***************************************************************************)
(* One DMX merger (dmx_merger.c): the levels and priorities of its sources *)
(* and the merge of them it keeps up to date in the buffers of the         *)
(* application.                                                            *)
(*                                                                         *)
(* The merge is incremental: an update of one source changes only the      *)
(* slots it touches, compares its source with the current winner, and      *)
(* looks at the other sources only when the winner got weaker.  A merger   *)
(* with one source copies instead of merging.  Every action holds the      *)
(* merger lock.  All optional outputs of the configuration are present.    *)
(***************************************************************************)
EXTENDS Naturals, FiniteSets

CONSTANTS
    Handles,            \* the source handles the merger may hand out
    NumSlots,           \* SACN_DMX_MERGER_MAX_SLOTS, 512
    MaxLevel,           \* 255
    MaxPriority,        \* 255 for per-address, 200 for universe priorities
    MaxSources          \* source_count_max, 0 for kSacnReceiverInfiniteSources

NoOwner == 65535        \* kSacnDmxMergerSourceInvalid

ASSUME MergerAssumption ==
    /\ IsFiniteSet(Handles)
    /\ Handles \subseteq Nat /\ NoOwner \notin Handles
    /\ NumSlots \in Nat \ {0}
    /\ MaxLevel \in Nat
    /\ MaxPriority \in Nat \ {0}
    /\ MaxSources \in Nat

VARIABLES
    source_states,      \* the source_state_lookup tree, by handle
    output,             \* for each slot its level, owner and priority
    universe_priority,  \* the universe priority output
    pap_active          \* the per_address_priorities_active output

vars == <<source_states, output, universe_priority, pap_active>>

Slots == 1..NumSlots
Level == 0..MaxLevel
Priority == 0..MaxPriority

\* SourceState
SourceState ==
    [levels : [Slots -> Level], valid_level_count : 0..NumSlots,
     address_priority : [Slots -> Priority], pap_count : 0..NumSlots,
     universe_priority : Priority, universe_priority_uninitialized : BOOLEAN,
     using_universe_priority : BOOLEAN]

SlotOutput ==
    [level : Level, owner : Handles \cup {NoOwner}, pap : Priority]

Sources == DOMAIN source_states

TypeOK ==
    /\ Sources \subseteq Handles
    /\ source_states \in [Sources -> SourceState]
    /\ output \in [Slots -> SlotOutput]
    /\ universe_priority \in Priority
    /\ pap_active \in BOOLEAN

Unsourced == [level |-> 0, owner |-> NoOwner, pap |-> 0]

\* construct_merger_state
Init ==
    /\ source_states = << >>
    /\ output = [slot \in Slots |-> Unsourced]
    /\ universe_priority = 0
    /\ pap_active = FALSE
-----------------------------------------------------------------------------
(***************************************************************************)
(* Merging one slot.  S is the table of sources, src the entry of handle h *)
(* after its update, out the output of the slot.                           *)
(***************************************************************************)

\* CALC_SRC_PAP: slots beyond the level count have no priority.
SourcePap(src, slot) ==
    IF slot <= src.valid_level_count THEN src.address_priority[slot] ELSE 0

Won(h, src, slot) ==
    [level |-> src.levels[slot], owner |-> h, pap |-> SourcePap(src, slot)]

\* Output a is better than b: a higher priority, or the same and a higher level.
Beats(a, b) ==
    a.pap > b.pap \/ (a.pap > 0 /\ a.pap = b.pap /\ a.level > b.level)

\* A faulty variant: of equally good candidates the last one wins.
ScanLast(h, S, slot, start) ==
    LET offer(c) == Won(c, S[c], slot)
        better == {c \in DOMAIN S \ {h} : Beats(offer(c), start)}
        best == {c \in better : \A d \in better : ~Beats(offer(d), offer(c))}
    IN  IF better = {} THEN start
        ELSE offer(CHOOSE c \in best : \A d \in best : d <= c)

\* The candidate scan in ascending order of handles, in which a candidate that
\* beats the winner so far replaces it: the first of the best ones wins.
Scan(h, S, slot, start) ==
    LET offer(c) == Won(c, S[c], slot)
        better == {c \in DOMAIN S \ {h} : Beats(offer(c), start)}
        best == {c \in better : \A d \in better : ~Beats(offer(d), offer(c))}
    IN  IF better = {} THEN start
        ELSE offer(CHOOSE c \in best : \A d \in best : c <= d)

\* What an owner whose priority went down starts with.
Weakened(out, pap) ==
    IF pap = 0 THEN Unsourced ELSE [out EXCEPT !.pap = pap]

\* A faulty variant: an owner that got weaker keeps the slot.
MergePriorityInPlace(h, src, S, slot, out) ==
    LET won == Won(h, src, slot)
    IN  IF h = out.owner
          THEN IF won.pap = 0 THEN Unsourced ELSE won
          ELSE IF Beats(won, out) THEN won ELSE out

\* merge_new_priorities, for one slot.
MergePriority(h, src, S, slot, out) ==
    LET won == Won(h, src, slot)
    IN  CASE won.pap > out.pap -> won
          [] won.pap <= out.pap /\ h # out.owner ->
                IF Beats(won, out) THEN won ELSE out
          [] won.pap < out.pap /\ h = out.owner ->
                Scan(h, S, slot, Weakened(out, won.pap))
          [] OTHER -> out

\* The level loop of update_levels_multi_source, for one slot below both the
\* old and the new level count.  Its scan looks at the levels of the sources of
\* the winning priority.
ScanLevels(h, S, slot, start) ==
    LET rivals == {c \in DOMAIN S \ {h} :
                      /\ S[c].address_priority[slot] = start.pap
                      /\ S[c].levels[slot] > start.level}
        top == {c \in rivals : \A d \in rivals :
                                  S[d].levels[slot] <= S[c].levels[slot]}
        first == CHOOSE c \in top : \A d \in top : c <= d
    IN  IF rivals = {} THEN start
        ELSE [start EXCEPT !.level = S[first].levels[slot], !.owner = first]

MergeLevel(h, src, S, slot, out) ==
    LET level == src.levels[slot]
        wins == src.address_priority[slot] > 0
                  /\ src.address_priority[slot] = out.pap
    IN  CASE wins /\ level > out.level ->
                [out EXCEPT !.level = level, !.owner = h]
          [] wins /\ level < out.level /\ h = out.owner ->
                ScanLevels(h, S, slot, [out EXCEPT !.level = level])
          [] OTHER -> out

\* merge_new_priorities on the slots from..to.
MergePriorities(h, S, from, to) ==
    [slot \in Slots |-> IF slot \in from..to
                          THEN MergePriority(h, S[h], S, slot, output[slot])
                          ELSE output[slot]]
-----------------------------------------------------------------------------
(***************************************************************************)
(* The operations.                                                         *)
(***************************************************************************)

IsSingle == Cardinality(Sources) = 1

\* A faulty variant: what lies beyond the new count is left as it was.
OverwriteFirst(array, old_count, values, count) ==
    [slot \in Slots |-> IF slot <= count THEN values[slot] ELSE array[slot]]

\* An array with new values in its first slots; the rest of the old_count
\* values it had is cleared.
Overwrite(array, old_count, values, count) ==
    [slot \in Slots |-> IF slot <= count THEN values[slot]
                        ELSE IF slot <= old_count THEN 0 ELSE array[slot]]

Larger(a, b) == IF a > b THEN a ELSE b
Smaller(a, b) == IF a < b THEN a ELSE b

\* construct_source_state
NewSourceState ==
    [levels |-> [slot \in Slots |-> 0], valid_level_count |-> 0,
     address_priority |-> [slot \in Slots |-> 0], pap_count |-> 0,
     universe_priority |-> 0, universe_priority_uninitialized |-> TRUE,
     using_universe_priority |-> TRUE]

\* add_source: any handle that is not in use.
AddSource(h) ==
    /\ h \notin Sources
    /\ MaxSources = 0 \/ Cardinality(Sources) < MaxSources
    /\ source_states' = [x \in Sources \cup {h} |->
                           IF x = h THEN NewSourceState ELSE source_states[x]]
    /\ UNCHANGED <<output, universe_priority, pap_active>>

\* update_levels_single_source: the priority and the owner of a slot are
\* written only if the slot is new.
CopyLevel(h, src, old_count, slot, out) ==
    LET count == src.valid_level_count
        sourced == src.address_priority[slot] > 0
    IN  CASE slot <= count /\ sourced /\ slot <= old_count ->
                [out EXCEPT !.level = src.levels[slot]]
          [] slot <= count /\ sourced /\ slot > old_count -> Won(h, src, slot)
          [] slot > count /\ slot <= old_count -> Unsourced
          [] OTHER -> out

\* update_levels_multi_source: levels first, then the priorities of the slots
\* that came or went.
MergeLevels(h, S, old_count) ==
    LET count == S[h].valid_level_count
    IN  [slot \in Slots |->
           CASE slot <= Smaller(count, old_count) ->
                   MergeLevel(h, S[h], S, slot, output[slot])
             [] slot > Smaller(count, old_count)
                  /\ slot <= Larger(count, old_count) ->
                   MergePriority(h, S[h], S, slot, output[slot])
             [] OTHER -> output[slot]]

\* update_levels.  A value that equals the stored one leaves all as it is.
UpdateLevels(h, levels, count) ==
    LET src == source_states[h]
        old_count == src.valid_level_count
        new == [src EXCEPT !.valid_level_count = count,
                  !.levels = Overwrite(@, old_count, levels, count)]
        S == [source_states EXCEPT ![h] = new]
        changed == count # old_count
                     \/ \E slot \in 1..count : levels[slot] # src.levels[slot]
    IN  /\ h \in Sources
        /\ changed
        /\ source_states' = S
        /\ output' = IF IsSingle
                       THEN [slot \in Slots |->
                               CopyLevel(h, new, old_count, slot, output[slot])]
                       ELSE MergeLevels(h, S, old_count)
        /\ UNCHANGED <<universe_priority, pap_active>>

\* update_pap_single_source and update_universe_priority_single_source: the
\* slots that have levels are copied.
CopyPriorities(h, src) ==
    [slot \in Slots |->
        CASE slot > src.valid_level_count -> output[slot]
          [] slot <= src.valid_level_count /\ SourcePap(src, slot) = 0 -> Unsourced
          [] OTHER -> Won(h, src, slot)]

\* The output after the priorities of source h have changed, in the table S.
NewPriorities(h, S) ==
    IF IsSingle THEN CopyPriorities(h, S[h])
                ELSE MergePriorities(h, S, 1, S[h].valid_level_count)

\* update_pap.  The source stops using its universe priority in any case.
UpdatePap(h, paps, count) ==
    LET src == source_states[h]
        new == [src EXCEPT !.using_universe_priority = FALSE,
                  !.pap_count = count,
                  !.address_priority = Overwrite(@, src.pap_count, paps, count)]
        S == [source_states EXCEPT ![h] = new]
        changed == count # src.pap_count
                     \/ \E slot \in 1..count :
                           paps[slot] # src.address_priority[slot]
    IN  /\ h \in Sources
        /\ source_states' = S
        /\ output' = IF changed THEN NewPriorities(h, S) ELSE output
        /\ pap_active' = TRUE
        /\ UNCHANGED universe_priority

\* A universe priority as a per-address priority on all slots: 0 becomes 1.
ConvertedPriority(priority) ==
    [slot \in Slots |-> IF priority = 0 THEN 1 ELSE priority]

\* A faulty variant: the lowest universe priority is taken.
LowestUniversePriority(S) ==
    CHOOSE p \in {S[h].universe_priority : h \in DOMAIN S} \cup {0} :
        \A h \in DOMAIN S : p <= S[h].universe_priority

\* recalculate_universe_priority
HighestUniversePriority(S) ==
    CHOOSE p \in {S[h].universe_priority : h \in DOMAIN S} \cup {0} :
        \A h \in DOMAIN S : S[h].universe_priority <= p

\* update_universe_priority: the first value counts even if it is 0.
UpdateUniversePriority(h, priority) ==
    LET src == source_states[h]
        initialized == [src EXCEPT !.universe_priority = priority,
                          !.universe_priority_uninitialized = FALSE]
        new == IF src.using_universe_priority
                 THEN [initialized EXCEPT !.pap_count = NumSlots,
                         !.address_priority = ConvertedPriority(priority)]
                 ELSE initialized
        S == [source_states EXCEPT ![h] = new]
        was_max == src.universe_priority >= universe_priority
    IN  /\ h \in Sources
        /\ priority # src.universe_priority \/ src.universe_priority_uninitialized
        /\ source_states' = S
        /\ output' = IF src.using_universe_priority
                       THEN NewPriorities(h, S) ELSE output
        /\ universe_priority' =
              IF IsSingle \/ priority >= universe_priority THEN priority
              ELSE IF was_max THEN HighestUniversePriority(S)
              ELSE universe_priority
        /\ UNCHANGED pap_active

\* recalculate_pap_active
AnyPapActive(S) == \E h \in DOMAIN S : ~S[h].using_universe_priority

\* remove_sacn_dmx_merger_pap: always merges, whatever the number of sources.
RemovePap(h) ==
    LET src == source_states[h]
        new == [src EXCEPT !.using_universe_priority = TRUE,
                  !.pap_count = NumSlots,
                  !.address_priority = ConvertedPriority(src.universe_priority)]
        S == [source_states EXCEPT ![h] = new]
    IN  /\ h \in Sources
        /\ source_states' = S
        /\ output' = MergePriorities(h, S, 1, src.valid_level_count)
        /\ pap_active' = IF src.using_universe_priority
                           THEN pap_active ELSE AnyPapActive(S)
        /\ UNCHANGED universe_priority

\* remove_sacn_dmx_merger_source: the source is merged without priorities, and
\* taken out of the table after the outputs no longer refer to it.
RemoveSource(h) ==
    LET src == source_states[h]
        silenced == [src EXCEPT !.address_priority = [slot \in Slots |-> 0]]
        S == [source_states EXCEPT ![h] = silenced]
        rest == [x \in Sources \ {h} |-> source_states[x]]
    IN  /\ h \in Sources
        /\ source_states' = rest
        /\ output' = MergePriorities(h, S, 1, NumSlots)
        /\ pap_active' = IF pap_active /\ ~src.using_universe_priority
                           THEN AnyPapActive(rest) ELSE pap_active
        /\ universe_priority' = IF src.universe_priority >= universe_priority
                                  THEN HighestUniversePriority(rest)
                                  ELSE universe_priority

UpdateSource(h) ==
    \/ \E count \in 0..NumSlots : \E levels \in [1..count -> Level] :
          UpdateLevels(h, levels, count)
    \/ \E count \in 0..NumSlots : \E paps \in [1..count -> Priority] :
          UpdatePap(h, paps, count)
    \/ \E priority \in Priority : UpdateUniversePriority(h, priority)
    \/ RemovePap(h)

Next ==
    \E h \in Handles : AddSource(h) \/ UpdateSource(h) \/ RemoveSource(h)

Spec == Init /\ [][Next]_vars
-----------------------------------------------------------------------------
(***************************************************************************)
(* Properties.                                                             *)
(***************************************************************************)

\* The merge as the users of the merger understand it, stated without its
\* history: a slot for which no source has a level and a priority is unsourced;
\* any other slot shows the level and the priority of its owner, which no other
\* source beats (the highest priority takes precedence, then the highest level).
SlotMergedOf(S, slot, out) ==
    \/ /\ \A h \in DOMAIN S : SourcePap(S[h], slot) = 0
       /\ out = Unsourced
    \/ /\ out.owner \in DOMAIN S
       /\ out.pap > 0
       /\ out = Won(out.owner, S[out.owner], slot)
       /\ \A h \in DOMAIN S : ~Beats(Won(h, S[h], slot), out)

\* After any sequence of calls the output is the merge of the sources as they
\* are now: no incremental step or copy leaves a slot with a source that was
\* beaten, changed, or removed.
OutputIsMerge == \A slot \in Slots : SlotMergedOf(source_states, slot, output[slot])

\* The universe priority to transmit the output with is the highest of the
\* sources, also after that source has changed, lowered or left.
UniversePriorityIsHighest ==
    /\ \A h \in Sources : source_states[h].universe_priority <= universe_priority
    /\ universe_priority = 0
         \/ \E h \in Sources : source_states[h].universe_priority = universe_priority

\* Per-address priorities are transmitted while some source has its own.
PapActiveIsExact == pap_active = AnyPapActive(source_states)

\* Levels beyond the valid level count are zero, which the scan of the level
\* loop relies on ("candidate_level will be 0"), and so are priorities beyond
\* the PAP count, which update_pap relies on to find nothing changed.
BeyondCountIsZero ==
    \A h \in Sources : \A slot \in Slots :
        LET src == source_states[h]
        IN  /\ slot > src.valid_level_count => src.levels[slot] = 0
            /\ slot > src.pap_count => src.address_priority[slot] = 0

\* The arrays of a source hold values of their type, and nothing where the scans
\* count on nothing.
StorageOK == TypeOK /\ BeyondCountIsZero

\* Both priority outputs, updated in part only, are what a full pass over the
\* sources would give (update_universe_priority, update_per_address_priorities_active).
PrioritiesAreExact == UniversePriorityIsHighest /\ PapActiveIsExact
=============================================================================
