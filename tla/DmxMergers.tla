------------------------------ MODULE DmxMergers ------------------------------
(***************************************************************************)
(* The life of a merger (dmx_merger.c): the calls that create and destroy  *)
(* it, and the calls on it that pass their checks.  A call that does not   *)
(* pass changes nothing.  The mergers of the table share no state, and one *)
(* of them stands for all.  It is the application's, or it belongs to a    *)
(* merge receiver, which makes the same calls under another lock.          *)
(***************************************************************************)
EXTENDS DmxMerger

VARIABLE created        \* the merger is in the table

mergerVars == <<vars, created>>

\* The buffers of the outputs are the application's, and hold anything before a
\* merger is created; Init stands for what they hold.
MergersInit == Init /\ created = FALSE

\* lookup_state
LookupState(h) == created /\ h \in Sources

\* create_sacn_dmx_merger: the outputs are cleared, whatever the buffers held.
CreateSacnDmxMerger ==
    /\ created' = TRUE
    /\ source_states' = << >>
    /\ output' = [slot \in Slots |-> Unsourced]
    /\ universe_priority' = 0
    /\ pap_active' = FALSE

\* destroy_sacn_dmx_merger: the sources go, the buffers keep what they hold.
DestroySacnDmxMerger ==
    /\ created
    /\ created' = FALSE
    /\ source_states' = << >>
    /\ UNCHANGED <<output, universe_priority, pap_active>>

\* add_sacn_dmx_merger_source, add_sacn_dmx_merger_source_with_handle: the next
\* free handle or, of a merge receiver, that of the remote source.
AddSacnDmxMergerSource(h) == created /\ AddSource(h)

\* sacn_dmx_merger_create
MergerCreate == ~created /\ CreateSacnDmxMerger

\* sacn_dmx_merger_destroy, and sacn_dmx_merger_deinit for all mergers
MergerDestroy == DestroySacnDmxMerger

\* sacn_dmx_merger_add_source
MergerAddSource(h) == AddSacnDmxMergerSource(h) /\ UNCHANGED created

\* sacn_dmx_merger_remove_source
MergerRemoveSource(h) == LookupState(h) /\ RemoveSource(h) /\ UNCHANGED created

\* sacn_dmx_merger_update_levels takes one slot at least.
MergerUpdateLevels(h) ==
    /\ LookupState(h)
    /\ \E count \in 1..NumSlots : \E levels \in [1..count -> Level] :
          UpdateLevels(h, levels, count)
    /\ UNCHANGED created

\* sacn_dmx_merger_update_pap
MergerUpdatePap(h) ==
    /\ LookupState(h)
    /\ \E count \in 1..NumSlots : \E paps \in [1..count -> Priority] :
          UpdatePap(h, paps, count)
    /\ UNCHANGED created

\* At the end of sampling a merge receiver moves a source with no levels yet.
MergerUpdateWithoutSlots(h) ==
    /\ LookupState(h)
    /\ UpdateLevels(h, << >>, 0) \/ UpdatePap(h, << >>, 0)
    /\ UNCHANGED created

\* sacn_dmx_merger_update_universe_priority
MergerUpdateUniversePriority(h) ==
    /\ LookupState(h)
    /\ \E priority \in Priority : UpdateUniversePriority(h, priority)
    /\ UNCHANGED created

\* sacn_dmx_merger_remove_pap
MergerRemovePap(h) == LookupState(h) /\ RemovePap(h) /\ UNCHANGED created

MergersNext ==
    \/ MergerCreate
    \/ MergerDestroy
    \/ \E h \in Handles :
          \/ MergerAddSource(h)
          \/ MergerRemoveSource(h)
          \/ MergerUpdateLevels(h)
          \/ MergerUpdatePap(h)
          \/ MergerUpdateWithoutSlots(h)
          \/ MergerUpdateUniversePriority(h)
          \/ MergerRemovePap(h)

MergersSpec == MergersInit /\ [][MergersNext]_mergerVars

--------------------------------------------------------------------------------

\* What DmxMerger says of its sources and outputs holds of a merger from its
\* creation to its destruction, whatever the buffers held before: a second merger
\* in the same buffers starts as the first.
CreatedStorageOK == created => StorageOK
CreatedOutputIsMerge == created => OutputIsMerge
CreatedPrioritiesAreExact == created => PrioritiesAreExact
=============================================================================
