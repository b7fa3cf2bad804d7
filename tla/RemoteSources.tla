--------------------------- MODULE RemoteSources ---------------------------
(***************************************************************************)
(* The handles of remote sources (mem/receiver/remote_source.c).  Every    *)
(* receiver that tracks a source, and the source detector, take a          *)
(* reference on the handle of its CID; the handle is freed with the last   *)
(* reference, and may then be given to another source.                     *)
(***************************************************************************)
EXTENDS Naturals, FiniteSets, Functions

CONSTANTS
    Sources,            \* the CIDs
    MaxHandle           \* kSacnMaxValidSourceHandleValue

ASSUME RemoteSourcesAssumption ==
    /\ IsFiniteSet(Sources) /\ Sources # {}
    /\ MaxHandle \in Nat /\ MaxHandle + 1 >= Cardinality(Sources)

VARIABLES
    remote_sources,     \* [handle, refcount] of every CID that is known
    next_handle         \* of the handle manager

handleVars == <<remote_sources, next_handle>>

HandleInUse(h) == \E s \in DOMAIN remote_sources : remote_sources[s].handle = h

\* get_next_int_handle: the counter wraps around and skips the handles in use.
Following(h) == (h + 1) % (MaxHandle + 1)

NextHandle ==
    LET skipped == CHOOSE n \in 0..MaxHandle :
            /\ ~HandleInUse((next_handle + n) % (MaxHandle + 1))
            /\ \A m \in 0..(n - 1) : HandleInUse((next_handle + m) % (MaxHandle + 1))
    IN  (next_handle + skipped) % (MaxHandle + 1)

\* The handle of a source, or none (get_remote_source_handle).
HandleOf(s) == {remote_sources[x].handle : x \in {s} \cap DOMAIN remote_sources}

\* add_remote_source_handle
AddRemoteSourceAnew(s) ==                \* faulty: does not look the CID up
    /\ remote_sources' = [x \in DOMAIN remote_sources \cup {s} |->
            IF x = s THEN [handle |-> NextHandle, refcount |-> 1]
                     ELSE remote_sources[x]]
    /\ next_handle' = Following(NextHandle)

AddRemoteSourceHandle(s) ==
    IF s \in DOMAIN remote_sources
      THEN /\ remote_sources' = [remote_sources EXCEPT ![s].refcount = @ + 1]
           /\ UNCHANGED next_handle
      ELSE /\ remote_sources' = [x \in DOMAIN remote_sources \cup {s} |->
                IF x = s THEN [handle |-> NextHandle, refcount |-> 1]
                         ELSE remote_sources[x]]
           /\ next_handle' = Following(NextHandle)

\* remove_remote_source_handle, called for every source of S.
RemovedAtOnce(S) ==                      \* faulty: the first user frees it
    Restrict(remote_sources, DOMAIN remote_sources \ S)

Removed(S) ==
    [s \in {x \in DOMAIN remote_sources : x \notin S \/ remote_sources[x].refcount > 1} |->
       IF s \in S THEN [remote_sources[s] EXCEPT !.refcount = @ - 1]
                  ELSE remote_sources[s]]

RemoveRemoteSourceHandles(S) ==
    remote_sources' = Removed(S) /\ UNCHANGED next_handle

RemoteSourcesInit == remote_sources = << >> /\ next_handle = 0
=============================================================================
