--------------------------- MODULE ReceiveSockets ---------------------------
(***************************************************************************)
(* The sockets of a receive thread (recv_thread_context.c and the receive  *)
(* part of sockets.c).  Receivers share sockets: each one is subscribed to *)
(* the multicast groups of up to MaxSubs universes.  The application only  *)
(* queues subscriptions and sockets to close; the thread works them off.   *)
(*                                                                         *)
(* The operators take the context c of the thread, together with what the  *)
(* operating system knows of its sockets, and return what becomes of it.   *)
(***************************************************************************)
EXTENDS Naturals, FiniteSets, Bags, SequencesExt

CONSTANTS
    Netints,            \* network interfaces, with the ip type and an index
    MaxSubs,            \* SACN_RECEIVER_MAX_SUBS_PER_SOCKET
    LimitBind,          \* SACN_RECEIVER_LIMIT_BIND
    MaxSockets          \* how many sockets the operating system gives out

IpTypes == {4, 6}

ASSUME ReceiveSocketsAssumption ==
    /\ \A n \in Netints : n.ip \in IpTypes
    /\ MaxSubs \in Nat \ {0} /\ MaxSockets \in Nat
    /\ LimitBind \in BOOLEAN

\* ETCPAL_SOCKET_INVALID
NoSocket == 0

\* init_recv_thread_context_entry, without the sockets that are still open.
NewContext(open) ==
    [refs |-> << >>, new_refs |-> 0, dead |-> {}, subs |-> EmptyBag,
     unsubs |-> EmptyBag, bound |-> [ip \in IpTypes |-> FALSE], polls |-> FALSE,
     open |-> open, joined |-> {}, polled |-> {}]

\* The first of some places, 0 for none.
FirstOf(I) == IF I = {} THEN 0 ELSE Min(I)

FindSocketRefWithRoom(c, ip) ==
    FirstOf({i \in DOMAIN c.refs : c.refs[i].ip = ip /\ c.refs[i].refcount < MaxSubs})
FindSocketRefByType(c, ip) == FirstOf({i \in DOMAIN c.refs : c.refs[i].ip = ip})
FindSocketRefByHandle(c, h) == FirstOf({i \in DOMAIN c.refs : c.refs[i].handle = h})

\* The requests for a socket to join or leave the group of a universe.
Requests(h, universe, ip, netints) ==
    {[handle |-> h, universe |-> universe, netint |-> n]
       : n \in {m \in netints : m.ip = ip}}

QueuedIn(bag, reqs) == {r \in reqs : BagIn(r, bag)}
-----------------------------------------------------------------------------
\* queue_subscription: a request to leave that is still queued is taken back.
Subscribed(c, cancelled, reqs) ==
    [c EXCEPT !.unsubs = @ (-) SetToBag(cancelled), !.subs = @ (+) SetToBag(reqs \ cancelled)]

QueueSubscription(c, reqs) == Subscribed(c, QueuedIn(c.unsubs, reqs), reqs)

\* unsubscribe_socket: a request to join that is still queued is taken back.
UnsubscribedAlways(c, cancelled, reqs, now) ==  \* faulty: it stays queued
    [c EXCEPT !.joined = IF now THEN @ \ reqs ELSE @,
              !.unsubs = IF now THEN @ ELSE @ (+) SetToBag(reqs)]

Unsubscribed(c, cancelled, reqs, now) ==
    [c EXCEPT !.subs = @ (-) SetToBag(cancelled),
              !.joined = IF now THEN @ \ (reqs \ cancelled) ELSE @,
              !.unsubs = IF now THEN @ ELSE @ (+) SetToBag(reqs \ cancelled)]

UnsubscribeSocket(c, reqs, now) == Unsubscribed(c, QueuedIn(c.subs, reqs), reqs, now)

\* mark_socket_ref_bound
MarkSocketRefBound(c, i) ==
    [c EXCEPT !.refs[i].bound = TRUE,
              !.bound[c.refs[i].ip] = IF LimitBind THEN TRUE ELSE @]

\* poll_add_socket
PollAddSocket(c, i) ==
    IF ~c.polls THEN c
    ELSE [c EXCEPT !.refs[i].polling = TRUE, !.polled = @ \cup {c.refs[i].handle}]

\* cleanup_receive_socket, kPerformAllSocketCleanupNow.  With LimitBind another
\* socket takes over when the one that is closed was bound.
CloseSocketOnly(c, socket) ==
    [c EXCEPT !.open = @ \ {socket.handle}, !.polled = @ \ {socket.handle},
              !.joined = {r \in @ : r.handle # socket.handle}]

BindSuccessorUnpolled(c, i) == MarkSocketRefBound(c, i)  \* faulty: never polled

BindSuccessor(c, i) ==
    IF c.refs[i].pending THEN MarkSocketRefBound(c, i)
    ELSE PollAddSocket(MarkSocketRefBound(c, i), i)

WithSuccessor(c, socket, successor) ==
    IF ~LimitBind \/ ~socket.bound \/ c.bound[socket.ip] \/ successor = 0 THEN c
    ELSE BindSuccessor(c, successor)

CloseSocket(c, socket) ==
    WithSuccessor(CloseSocketOnly(c, socket), socket, FindSocketRefByType(c, socket.ip))

CleanupReceiveSocket(c, socket, now) ==
    IF now THEN CloseSocket(c, socket) ELSE [c EXCEPT !.dead = @ \cup {socket}]

\* remove_socket_ref, of the last user.
DropRefKeepCount(c, i, ref) ==           \* faulty: forgets new_socket_refs
    [c EXCEPT !.refs = RemoveAt(@, i), !.bound[ref.ip] = @ /\ ~(LimitBind /\ ref.bound)]

DropRef(c, i, ref) ==
    [c EXCEPT !.refs = RemoveAt(@, i),
              !.new_refs = @ - (IF ref.pending THEN 1 ELSE 0),
              !.bound[ref.ip] = @ /\ ~(LimitBind /\ ref.bound)]

SocketOf(ref) ==
    [handle |-> ref.handle, ip |-> ref.ip, bound |-> ref.bound, polling |-> ref.polling]

ReleaseSocketRef(c, i, ref, now) ==
    IF ref.refcount > 1 THEN [c EXCEPT !.refs[i].refcount = @ - 1]
    ELSE CleanupReceiveSocket(DropRef(c, i, ref), SocketOf(ref), now)

\* unsubscribe_socket_ref
UnsubscribeSocketRef(c, i, ref, universe, netints, now) ==
    ReleaseSocketRef(
        UnsubscribeSocket(c, Requests(ref.handle, universe, ref.ip, netints), now),
        i, ref, now)

UnsubscribeAt(c, i, universe, netints, now) ==
    UnsubscribeSocketRef(c, i, c.refs[i], universe, netints, now)

\* sacn_remove_receiver_socket
RemoveReceiverSocket(c, h, universe, netints, now) ==
    IF h = NoSocket THEN c
    ELSE UnsubscribeAt(c, FindSocketRefByHandle(c, h), universe, netints, now)
-----------------------------------------------------------------------------
\* create_receive_socket and add_socket_ref
CanCreate(c) == Cardinality(c.open) < MaxSockets

NewSocketRef(c, ip, h, binds) ==
    [c EXCEPT !.open = @ \cup {h},
              !.refs = Append(@, [handle |-> h, ip |-> ip, refcount |-> 1,
                         pending |-> TRUE, bound |-> binds, polling |-> FALSE]),
              !.new_refs = @ + 1,
              !.bound[ip] = @ \/ (LimitBind /\ binds)]

CreateSocketRef(c, ip) ==
    NewSocketRef(c, ip, Min((1..MaxSockets) \ c.open), ~LimitBind \/ ~c.bound[ip])

\* sacn_add_receiver_socket: the context, the socket and the result.  There must
\* be an interface of the ip type.
SubscribeRef(c, i, reqs, universe, netints) ==
    IF reqs = {}
      THEN [c |-> UnsubscribeAt(c, i, universe, netints, FALSE),
            socket |-> NoSocket, res |-> "NoNetints"]
    ELSE [c |-> QueueSubscription(c, reqs), socket |-> c.refs[i].handle, res |-> "Ok"]

UseRef(c, i, universe, netints) ==
    SubscribeRef(c, i, Requests(c.refs[i].handle, universe, c.refs[i].ip, netints),
                 universe, netints)

FindOrCreate(c, found, ip, universe, netints) ==
    IF found # 0
      THEN UseRef([c EXCEPT !.refs[found].refcount = @ + 1], found, universe, netints)
    ELSE IF CanCreate(c)
      THEN UseRef(CreateSocketRef(c, ip), Len(c.refs) + 1, universe, netints)
    ELSE [c |-> c, socket |-> NoSocket, res |-> "Sys"]

AddReceiverSocket(c, ip, universe, netints) ==
    FindOrCreate(c, FindSocketRefWithRoom(c, ip), ip, universe, netints)

\* remove_sockets
RemoveSockets(c, sockets, universe, netints, now) ==
    RemoveReceiverSocket(
        RemoveReceiverSocket(c, sockets[4], universe, netints, now),
        sockets[6], universe, netints, now)

Sockets(v4, v6) == [ip \in IpTypes |-> IF ip = 4 THEN v4 ELSE v6]

\* initialize_receiver_sockets
NoSockets == Sockets(NoSocket, NoSocket)

\* add_sockets: an empty list of interfaces gives no socket and no error.
AddSocketsOf(c, ip, universe, netints) ==
    IF netints = {} THEN [c |-> c, socket |-> NoSocket, res |-> "Ok"]
    ELSE AddReceiverSocket(c, ip, universe, netints)

\* add_receiver_sockets, add_source_detector_sockets: IPv4, then IPv6; when this
\* fails the socket for IPv4 is given back.
Both(v4, v6, universe, netints) ==
    IF v6.res = "Ok" \/ (v6.res = "NoNetints" /\ v4.res = "Ok")
      THEN [c |-> v6.c, sockets |-> Sockets(v4.socket, v6.socket), ok |-> TRUE]
    ELSE [c |-> RemoveReceiverSocket(v6.c, v4.socket, universe, netints, FALSE),
          sockets |-> NoSockets, ok |-> FALSE]

AfterV4(v4, universe, netints) ==
    IF v4.res = "Sys" THEN [c |-> v4.c, sockets |-> NoSockets, ok |-> FALSE]
    ELSE Both(v4, AddSocketsOf(v4.c, 6, universe, netints), universe, netints)

AddSockets(c, universe, netints) ==
    AfterV4(AddSocketsOf(c, 4, universe, netints), universe, netints)
-----------------------------------------------------------------------------
\* sacn_unsubscribe_sockets, sacn_subscribe_sockets
WorkOffRequests(c) ==
    [c EXCEPT !.joined = (@ \ BagToSet(c.unsubs))
                           \cup {r \in BagToSet(c.subs) : r.handle \in c.open},
              !.unsubs = EmptyBag, !.subs = EmptyBag]

Handles(S) == {x.handle : x \in S}

\* sacn_cleanup_dead_sockets: closed[h] is the context when the dead sockets up to
\* h are closed.  (No two have the same handle, and their order does not matter.)
DeadSocketsClosed(c) ==
    LET closed[h \in 0..MaxSockets] ==
            IF h = 0 THEN c
            ELSE IF h \in Handles(c.dead)
              THEN CloseSocket(closed[h - 1], CHOOSE socket \in c.dead : socket.handle = h)
            ELSE closed[h - 1]
    IN  closed[MaxSockets]

CleanupDeadSocketsAgain(c) == DeadSocketsClosed(c)  \* faulty: closed again next time

CleanupDeadSockets(c) == [DeadSocketsClosed(c) EXCEPT !.dead = {}]

\* sacn_add_pending_sockets: the last new_refs places.
Polling(ref) == [ref EXCEPT !.pending = FALSE, !.polling = @ \/ ref.bound]

AddPendingSockets(c) ==
    LET news == IF c.new_refs > Len(c.refs) THEN {}
                ELSE (Len(c.refs) - c.new_refs + 1)..Len(c.refs)
    IN  [c EXCEPT !.refs = [i \in DOMAIN @ |-> IF i \in news THEN Polling(@[i]) ELSE @[i]],
                  !.polled = @ \cup {c.refs[i].handle : i \in {j \in news : c.refs[j].bound}},
                  !.new_refs = 0]

\* What read_network_and_process does under the lock before it reads.
WorkOffQueues(c) == AddPendingSockets(CleanupDeadSockets(WorkOffRequests(c)))
=============================================================================
