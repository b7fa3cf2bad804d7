---------------------------- MODULE ReceiveThread ----------------------------
(***************************************************************************)
(* Receivers and the source detector as listeners of one receive thread:   *)
(* their creation and destruction, the change of universe, the networking  *)
(* resets, the cycle of the thread and the shutdown of the library         *)
(* (receiver.c, source_detector.c, receiver_state.c).                      *)
(*                                                                         *)
(* Every action holds the receiver lock.                                   *)
(***************************************************************************)
EXTENDS ReceiveSockets

CONSTANTS
    Receivers, Detector,        \* the listeners
    Universes, Discovery,       \* kSacnDiscoveryUniverse is that of the detector
    NetintLists,                \* the lists of interfaces that are configured
    MaxQueued                   \* bound: the application waits for the thread

ASSUME ReceiveThreadAssumption ==
    /\ IsFiniteSet(Receivers) /\ Detector \notin Receivers
    /\ Discovery \notin Universes
    /\ NetintLists \subseteq SUBSET Netints

Listeners == Receivers \cup {Detector}

VARIABLES
    initialized,        \* the network features of the library
    context,            \* of the receive thread, with its sockets
    thread,             \* "none", "starting", "running" or "failed"
    listeners,          \* [universe, netints, sockets] of those that exist
    \* History:
    broken,             \* receivers that a failed call left in an invalid state
    moved,              \* a receiver has changed its universe
    abandoned,          \* sockets that were open when the library shut down
    failed              \* sockets that are not polled because a read failed

history == <<broken, moved, abandoned, failed>>
vars == <<initialized, context, thread, listeners, history>>

\* context->running
Running == thread # "none"

Init ==
    /\ initialized = FALSE
    /\ context = NewContext({})
    /\ thread = "none"
    /\ listeners = << >>
    /\ broken = {} /\ moved = FALSE /\ abandoned = {} /\ failed = {}

Existing == DOMAIN listeners
UniverseInUse(universe) == \E l \in Existing : listeners[l].universe = universe
MayQueue ==
    /\ BagCardinality(context.subs) + BagCardinality(context.unsubs) < MaxQueued
    /\ initialized

With(l, entry) ==
    [x \in Existing \cup {l} |-> IF x = l THEN entry ELSE listeners[x]]
Without(l) == [x \in Existing \ {l} |-> listeners[x]]
-----------------------------------------------------------------------------
\* add_sacn_receiver, add_sacn_source_detector
NewListener(universe, netints) ==
    [universe |-> universe, netints |-> netints, sockets |-> NoSockets]

\* assign_receiver_to_thread, assign_source_detector_to_thread: added is what
\* became of adding the sockets.
Assigned(l, universe, netints, added) ==
    \/ ~added.ok /\ context' = added.c /\ UNCHANGED <<listeners, thread>>
    \/ /\ added.ok
       /\ context' = added.c
       /\ listeners' = With(l, [NewListener(universe, netints) EXCEPT
                                  !.sockets = added.sockets])
       /\ thread' = IF Running THEN thread ELSE "starting"
    \/ /\ added.ok /\ ~Running              \* the thread cannot be started
       /\ context' = RemoveSockets(added.c, added.sockets, universe, netints, TRUE)
       /\ UNCHANGED <<listeners, thread>>

Assign(l, universe, netints) ==
    Assigned(l, universe, netints, AddSockets(context, universe, netints))

\* create_sacn_receiver
CreateReceiver(r, universe, netints) ==
    /\ MayQueue
    /\ r \notin Existing
    /\ ~UniverseInUse(universe)
    /\ Assign(r, universe, netints)
    /\ UNCHANGED <<initialized, history>>

\* sacn_source_detector_create
CreateDetector(netints) ==
    /\ MayQueue
    /\ Detector \notin Existing
    /\ Assign(Detector, Discovery, netints)
    /\ UNCHANGED <<initialized, history>>

\* remove_receiver_sockets, remove_source_detector_sockets
RemoveSocketsOf(c, l, now) ==
    RemoveSockets(c, listeners[l].sockets, listeners[l].universe, listeners[l].netints, now)

\* sacn_receiver_destroy, sacn_source_detector_destroy
Destroy(l) ==
    /\ initialized
    /\ l \in Existing
    /\ context' = RemoveSocketsOf(context, l, ~Running)
    /\ listeners' = Without(l)
    /\ broken' = broken \ {l}
    /\ UNCHANGED <<initialized, thread, moved, abandoned, failed>>

UpdateReceiverUniverse(r, universe) == [listeners EXCEPT ![r].universe = universe]

Moved(r, universe, added) ==
    /\ context' = added.c
    /\ listeners' = [UpdateReceiverUniverse(r, universe) EXCEPT ![r].sockets = added.sockets]
    /\ broken' = IF added.ok THEN broken ELSE broken \cup {r}

\* change_sacn_receiver_universe: the universe of the receiver has been updated
\* when its sockets are removed.
ChangeUniverse(r, universe) ==
    /\ MayQueue
    /\ r \in Existing \ broken
    /\ ~UniverseInUse(universe)
    /\ Moved(r, universe,
             AddSockets(RemoveSockets(context, listeners[r].sockets, universe,
                                      listeners[r].netints, FALSE),
                        universe, listeners[r].netints))
    /\ moved' = TRUE
    /\ UNCHANGED <<initialized, thread, abandoned, failed>>

\* remove_all_receiver_sockets: removed[i] is the context when the first i listeners
\* have been passed, in the order of the tree of receivers.
RemoveAllSockets(c, order, now) ==
    LET removed[i \in 0..Len(order)] ==
            IF i = 0 THEN c ELSE RemoveSocketsOf(removed[i - 1], order[i], now)
    IN  removed[Len(order)]

\* The sockets of the listeners are added again in the same order, until one fails:
\* what becomes of the context, of the listeners, and the result.
AddedAgain(done, l, netints, added) ==
    [c |-> added.c, ok |-> added.ok,
     listeners |-> [done.listeners EXCEPT ![l].netints = netints,
                                          ![l].sockets = added.sockets]]

ListenersWithoutSockets(L) ==
    [l \in Existing |-> IF l \in L THEN [listeners[l] EXCEPT !.sockets = NoSockets]
                        ELSE listeners[l]]

AddAgain(c, order, netints) ==
    LET done[i \in 0..Len(order)] ==
            IF i = 0 THEN [c |-> c, ok |-> TRUE,
                           listeners |-> ListenersWithoutSockets(Range(order))]
            ELSE IF ~done[i - 1].ok THEN done[i - 1]
            ELSE AddedAgain(done[i - 1], order[i], netints,
                            AddSockets(done[i - 1].c, listeners[order[i]].universe, netints))
    IN  done[Len(order)]

WasReset(L, done) ==
    /\ context' = done.c
    /\ listeners' = done.listeners
    /\ broken' = IF done.ok THEN broken ELSE broken \cup L

\* sacn_receiver_reset_networking, sacn_source_detector_reset_networking
ResetNetworking(L, netints) ==
    /\ MayQueue
    /\ L # {} /\ L \cap broken = {}
    /\ \E order \in SetToSeqs(L) :
          WasReset(L, AddAgain(RemoveAllSockets(context, order, FALSE), order, netints))
    /\ UNCHANGED <<initialized, thread, moved, abandoned, failed>>
-----------------------------------------------------------------------------
\* sacn_receive_thread: the poll context is initialized, or not.
ThreadStarts ==
    /\ thread = "starting"
    /\ thread' = "running"
    /\ context' = [context EXCEPT !.polls = TRUE]
    /\ UNCHANGED <<initialized, listeners, history>>

ThreadFails ==
    /\ thread = "starting"
    /\ thread' = "failed"
    /\ UNCHANGED <<initialized, context, listeners, history>>

\* read_network_and_process, up to the read.
Cycle ==
    /\ thread = "running"
    /\ context' = WorkOffQueues(context)
    /\ failed' = failed \cap context'.open
    /\ UNCHANGED <<initialized, thread, listeners, broken, moved, abandoned>>

\* sacn_read: the socket is taken out of the poll context when a read fails.
ReadFails(h) ==
    /\ thread = "running"
    /\ h \in context.polled
    /\ context' = [context EXCEPT !.polled = @ \ {h}]
    /\ failed' = failed \cup {h}
    /\ UNCHANGED <<initialized, thread, listeners, broken, moved, abandoned>>
-----------------------------------------------------------------------------
\* sacn_init: the contexts of the threads are initialized.  (Bound: after sockets
\* were left open the process ends first, and the system closes them.)
Initialize ==
    /\ ~initialized
    /\ initialized' = TRUE
    /\ context' = NewContext({})
    /\ abandoned' = {}
    /\ UNCHANGED <<thread, listeners, broken, moved, failed>>

\* sacn_receiver_state_deinit, when the thread has been joined.
ClosedByDeinit(order) ==
    LET cleaned == IF Running
                     THEN CleanupDeadSockets([context EXCEPT !.polls = FALSE])
                     ELSE context
    IN  RemoveAllSockets(cleaned, order, TRUE)

Deinitialize ==
    /\ initialized
    /\ initialized' = FALSE
    /\ \E order \in SetToSeqs(Existing \cap Receivers) :
          context' = NewContext(ClosedByDeinit(order).open)
    /\ listeners' = << >>
    /\ thread' = "none"
    /\ abandoned' = abandoned
         \cup (IF Running THEN {} ELSE Handles(context.dead))
         \cup (IF Detector \notin Existing THEN {}
               ELSE {listeners[Detector].sockets[ip] : ip \in IpTypes} \ {NoSocket})
    /\ broken' = {} /\ moved' = FALSE /\ failed' = {}

Next ==
    \/ \E l \in Listeners : Destroy(l)
    \/ \E r \in Receivers, u \in Universes, N \in NetintLists : CreateReceiver(r, u, N)
    \/ \E N \in NetintLists :
          \/ CreateDetector(N)
          \/ ResetNetworking(Existing \cap Receivers, N)
          \/ ResetNetworking(Existing \cap {Detector}, N)
    \/ \E r \in Receivers, u \in Universes : ChangeUniverse(r, u)
    \/ \E h \in 1..MaxSockets : ReadFails(h)
    \/ ThreadStarts \/ ThreadFails \/ Cycle
    \/ Initialize \/ Deinitialize

Spec == Init /\ [][Next]_vars
-----------------------------------------------------------------------------
Refs == Range(context.refs)

Request == [handle : 1..MaxSockets, universe : Universes \cup {Discovery}, netint : Netints]

TypeOK ==
    /\ thread \in {"none", "starting", "running", "failed"}
    /\ DOMAIN listeners \subseteq Listeners
    /\ \A ref \in Refs : ref.handle \in 1..MaxSockets /\ ref.refcount \in 1..MaxSubs
    /\ BagToSet(context.subs) \cup BagToSet(context.unsubs) \subseteq Request
    /\ context.joined \subseteq Request
    /\ context.polled \subseteq context.open

\* The references that wait for the thread are the last new_socket_refs ones:
\* sacn_add_pending_sockets reaches these and no others.
PendingAreLast ==
    \A i \in DOMAIN context.refs :
        context.refs[i].pending <=> i > Len(context.refs) - context.new_refs

\* A shared socket is counted once for every listener that uses it, and a
\* listener uses only sockets that are there; none is given to more listeners
\* than MaxSubs.
RefsAreCounted ==
    /\ \A ref \in Refs : ref.refcount =
          Cardinality({l \in Existing : listeners[l].sockets[ref.ip] = ref.handle})
    /\ \A l \in Existing, ip \in IpTypes :
          listeners[l].sockets[ip] # NoSocket =>
            \E ref \in Refs : ref.handle = listeners[l].sockets[ip] /\ ref.ip = ip

\* Every open socket is in use or waits to be closed, never both, and nothing
\* else is kept: none leaks and none is used when it is closed.  (abandoned: the
\* sockets of a source detector that exists when the library is shut down, and
\* those that wait for a thread that was never started.)
OpenAreAccounted ==
    /\ context.open = Handles(Refs) \cup Handles(context.dead) \cup abandoned
    /\ Handles(Refs) \cap Handles(context.dead) = {}
    /\ \A i, j \in DOMAIN context.refs :
          context.refs[i].handle = context.refs[j].handle => i = j

\* The table of references, the listeners and the system agree on the sockets,
\* and those the thread has not seen are the last in the table.
SocketsAreAccounted == TypeOK /\ PendingAreLast /\ RefsAreCounted /\ OpenAreAccounted

\* opts.h:254: with LimitBind one socket of each ip type is bound, and one is as
\* long as there are any, except while the one that was waits to be closed.
OneIsBound ==
    LimitBind => \A ip \in IpTypes :
        LET ofType == {ref \in Refs : ref.ip = ip}
            bound == {ref \in ofType : ref.bound}
        IN  /\ Cardinality(bound) <= 1
            /\ context.bound[ip] <=> bound # {}
            /\ ofType = {} \/ bound # {} \/ \E s \in context.dead : s.ip = ip /\ s.bound

\* A bound socket is polled as soon as the thread has seen it, until a read fails.
BoundArePolled ==
    thread = "running" =>
        \A ref \in Refs : ref.bound /\ ~ref.pending /\ ref.handle \notin failed =>
            ref.handle \in context.polled

\* Whichever listeners go, on each ip type one socket is left that receives.
BoundIsPolled == OneIsBound /\ BoundArePolled

\* The groups of a listener, once the thread has worked off the requests.
WillBeJoined ==
    (context.joined \ BagToSet(context.unsubs)) \cup BagToSet(context.subs)

Wanted(l) ==
    UNION {Requests(listeners[l].sockets[ip], listeners[l].universe, ip, listeners[l].netints)
             : ip \in {v \in IpTypes : listeners[l].sockets[v] # NoSocket}}

\* Whatever is created, destroyed and reset: the sockets in use are subscribed to
\* the universes of their listeners on the interfaces of these, and to nothing
\* else.  (As long as no receiver changes its universe.)
ListenersListen ==
    ~moved => {r \in WillBeJoined : r.handle \in Handles(Refs)}
                = UNION {Wanted(l) : l \in Existing}

\* receiver.h: after a change of universe the receiver is notified of the data
\* received for its universe.  It is not: the code asks to leave the group of
\* the new universe, not of the old one, and then takes this request back
\* instead of joining.
MovedListen ==
    \A r \in Existing \cap Receivers : Wanted(r) \subseteq WillBeJoined
=============================================================================
