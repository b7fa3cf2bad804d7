--------------------------- MODULE NetworkInterfaces ---------------------------
(***************************************************************************)
(* The network interfaces of sockets.c: the list of interfaces that the    *)
(* system has and that passed a test, kept for the sources, the receivers  *)
(* and the source detector apart, the sockets that the sources send with,  *)
(* and the interfaces that each user (the universe of a source, a          *)
(* receiver, the detector) takes from the list.  The three lists share     *)
(* nothing: a behaviour is that of one of them.                            *)
(***************************************************************************)
EXTENDS Naturals, SequencesExt

CONSTANTS
    Netints,            \* the interfaces of the system: index and IP type
    Invalid,            \* an interface of the application with index 0
    Users,              \* universes of sources, or receivers, or the detector
    SystemLists,        \* bound: what etcpal_netint_get_interfaces may return;
                        \* an interface with two addresses is there twice
    SysConfigs,         \* bound: the configurations of the list
    UserConfigs,        \* bound: the configurations of a user other than AllNetints
    MadeUnicast,        \* bound: how the sockets for unicast may turn out
    MaxAbandoned        \* bound: sockets that were opened and forgotten

NetTypes == {"source", "receiver", "detector"}
IpTypes == {"v4", "v6"}
NoSocket == 0

\* SacnNetintConfig: a list of interfaces or, without one, all or none of them.
Listing(list) == [netints |-> list, no_netints |-> FALSE]
AllNetints == Listing(<< >>)
NoNetints == [netints |-> << >>, no_netints |-> TRUE]

ASSUME InterfacesAssumption ==
    /\ Invalid \notin Netints
    /\ SystemLists \subseteq Seq(Netints)
    /\ \A c \in SysConfigs \cup UserConfigs :
          c.netints \in Seq(Netints \cup {Invalid}) /\ c.no_netints \in BOOLEAN
    /\ MadeUnicast \subseteq [IpTypes -> {"unasked", "made", "failed", "half"}]
    /\ MaxAbandoned \in Nat

VARIABLES
    type,               \* the kind of the users
    up,                 \* the stage is initialized
    sys_netints,        \* the interfaces that were tested, with the result
    send_sockets,       \* multicast_send_sockets, one for each of sys_netints
    unicast_sockets,    \* ipv4_unicast_send_socket, ipv6_unicast_send_socket
    open,               \* for each open socket, what it sends on
    abandoned,          \* the open sockets that no variable holds any longer
    users,              \* for each user, its interfaces, and for a universe
                        \* whether it is being removed
    settled             \* no networking reset has failed since the last that
                        \* succeeded

networking == <<sys_netints, send_sockets, unicast_sockets, open, abandoned>>
vars == <<type, up, networking, users, settled>>

NoUnicast == [v \in IpTypes |-> NoSocket]
NoUsers == [u \in {} |-> [netints |-> << >>, removing |-> FALSE]]

Init ==
    /\ type \in NetTypes
    /\ up = FALSE
    /\ sys_netints = << >> /\ send_sockets = << >> /\ unicast_sockets = NoUnicast
    /\ open = [k \in {} |-> Invalid]
    /\ abandoned = {}
    /\ users = NoUsers
    /\ settled = TRUE

(***************************************************************************)
(* The list of interfaces and the sockets, as a record that the steps of   *)
(* sockets_init and clear_source_networking transform.                     *)
(***************************************************************************)
Current == [sys |-> sys_netints, send |-> send_sockets, unicast |-> unicast_sockets,
            open |-> open, abandoned |-> abandoned, ok |-> TRUE]

Becomes(state) ==
    /\ sys_netints' = state.sys
    /\ send_sockets' = state.send
    /\ unicast_sockets' = state.unicast
    /\ open' = state.open
    /\ abandoned' = state.abandoned

\* The function f with an entry more.
With(f, x, value) == [y \in DOMAIN f \cup {x} |-> IF y = x THEN value ELSE f[y]]

\* The handle of a new socket may be that of one that was closed.
Unused(state) ==
    CHOOSE k \in 1..(Cardinality(DOMAIN state.open) + 1) : k \notin DOMAIN state.open

Open(state, purpose) == [state EXCEPT !.open = With(@, Unused(state), purpose)]
CloseAll(state, closed) ==
    [state EXCEPT !.open = Restrict(@, DOMAIN @ \ closed)]

\* netint_id_index_in_array
IndexOf(list, n) ==
    IF \E i \in DOMAIN list : list[i].iface = n
      THEN CHOOSE i \in DOMAIN list : list[i].iface = n
      ELSE 0

\* netints_valid
NetintsValid(list) == \A i \in DOMAIN list : list[i] # Invalid

\* clear_source_networking; the lists of the receivers and of the detector have
\* no sockets.
Cleared(state) ==
    [CloseAll(state, {state.unicast[v] : v \in IpTypes} \cup ToSet(state.send))
        EXCEPT !.sys = << >>, !.send = << >>, !.unicast = NoUnicast]

\* add_sacn_sys_netint
AddSysNetint(state, n, status) ==
    [state EXCEPT !.sys = Append(@, [iface |-> n, status |-> status])]

\* A faulty variant: an interface that cannot be used gets no entry among the
\* sockets.
AddSourceSysNetintSkipping(state, n, works, socket) ==
    [AddSysNetint(state, n, works) EXCEPT
        !.send = IF works THEN Append(@, socket) ELSE @]

\* add_sacn_source_sys_netint
AddSourceSysNetint(state, n, works, socket) ==
    [AddSysNetint(state, n, works) EXCEPT !.send = Append(@, socket)]

\* test_sacn_source_netint: the socket that was made for the test is kept to
\* send with, unless the interface has one, from another address of it.
TestSourceNetint(state, n, works) ==
    IF IndexOf(state.sys, n) # 0 THEN state
    ELSE IF works THEN AddSourceSysNetint(Open(state, n), n, works, Unused(state))
    ELSE AddSourceSysNetint(state, n, works, NoSocket)

\* test_sacn_receiver_netint: the socket is closed after the test.
TestReceiverNetint(state, n, works) ==
    IF IndexOf(state.sys, n) # 0 THEN state ELSE AddSysNetint(state, n, works)

\* test_netint
TestNetint(state, n, works) ==
    IF type = "source" THEN TestSourceNetint(state, n, works)
    ELSE TestReceiverNetint(state, n, works)

\* The positions of the system's list that a configuration selects.
Selected(config, list) ==
    {i \in DOMAIN list : ~config.no_netints
        /\ (config.netints = << >> \/ list[i] \in ToSet(config.netints))}

\* apply_netint_config tests the interfaces in their order.
ApplyNetintConfig(state, config, list, works) ==
    LET applied[i \in 0..Len(list)] ==
            IF i = 0 THEN state
            ELSE IF i \in Selected(config, list)
              THEN TestNetint(applied[i - 1], list[i], works[i])
            ELSE applied[i - 1]
    IN  applied[Len(list)]

\* The interfaces that apply_netint_config reports as usable: a failure is not
\* overwritten by the result of another address.
Reported(config, list, works) ==
    {n \in ToSet(config.netints) \cap Netints :
        /\ NetintsValid(config.netints)
        /\ \E i \in Selected(config, list) : list[i] = n
        /\ \A i \in Selected(config, list) : list[i] = n => works[i]}

\* create_unicast_send_socket: a socket whose options cannot be set is "half"
\* made, and open.
CreateUnicast(state, v, outcome) ==
    IF outcome \in {"made", "half"} THEN Open(state, v) ELSE state
Created(state, outcome) == IF outcome \in {"made", "half"} THEN Unused(state) ELSE NoSocket
Fails(outcome) == outcome \in {"failed", "half"}

\* init_unicast_send_sockets: when one fails its variable is overwritten, also
\* if it was half made, and the other one is closed.
InitUnicast(state, made) ==
    LET first == CreateUnicast(state, "v4", made["v4"])
        second == CreateUnicast(first, "v6", made["v6"])
        v4 == Created(state, made["v4"])
        v6 == Created(first, made["v6"])
    IN  IF Fails(made["v4"])
          THEN [first EXCEPT !.ok = FALSE, !.abandoned = @ \cup ({v4} \ {NoSocket})]
        ELSE IF Fails(made["v6"])
          THEN [CloseAll(second, {v4})
                   EXCEPT !.ok = FALSE, !.abandoned = @ \cup ({v6} \ {NoSocket})]
        ELSE [second EXCEPT !.unicast = [v \in IpTypes |-> IF v = "v4" THEN v4 ELSE v6]]

\* populate_sys_netint_list finds interfaces.  The empty list stands for all
\* that may fail before the interfaces are tested.
IsPopulated(list) == list # << >>

\* sockets_init: what it makes of a cleared state.
SocketsInit(state, config, list, works, made) ==
    LET applied == ApplyNetintConfig(state, config, list, works)
        num_valid == Cardinality({i \in Selected(config, list) : works[i]})
    IN  IF ~IsPopulated(list) THEN [state EXCEPT !.ok = FALSE]
        ELSE IF num_valid = 0 /\ ~config.no_netints THEN [applied EXCEPT !.ok = FALSE]
        ELSE IF type = "source" THEN InitUnicast(applied, made)
        ELSE applied

\* sockets_reset
SocketsReset(config, list, works, made) ==
    IF ~NetintsValid(config.netints) THEN [Current EXCEPT !.ok = FALSE]
    ELSE SocketsInit(Cleared(Current), config, list, works, made)

\* The ways the calls of the operating system may turn out: each interface
\* that is tested works or not, the sockets for unicast are not asked for, made,
\* fail, or fail when they are open.
TestResults(config, list) ==
    {works \in [DOMAIN list -> BOOLEAN] :
        \A i \in DOMAIN list \ Selected(config, list) : ~works[i]}
UnicastResults(list) ==
    IF type # "source" \/ ~IsPopulated(list) THEN {[v \in IpTypes |-> "unasked"]}
    ELSE {made \in MadeUnicast :
             Cardinality(abandoned) = MaxAbandoned => \A v \in IpTypes : made[v] # "half"}

(***************************************************************************)
(* The interfaces of a user.                                               *)
(***************************************************************************)

\* sacn_validate_netint_config: the status of an interface of the application.
Usable(state, n) ==
    n # Invalid /\ \E i \in DOMAIN state.sys : state.sys[i] = [iface |-> n, status |-> TRUE]

\* netints_to_use: those of the application, or those of the system.
NetintsToUse(state, config) ==
    IF config.no_netints THEN << >>
    ELSE IF config.netints # << >> THEN config.netints
    ELSE [i \in DOMAIN state.sys |-> state.sys[i].iface]

\* sacn_validate_netint_config: whether any interface is usable.
Validated(state, config) ==
    config.no_netints \/ \E n \in ToSet(NetintsToUse(state, config)) : Usable(state, n)

\* A faulty variant: an interface that is named twice is listened on twice.
InternalNetintsTwice(state, config) ==
    SelectSeq(NetintsToUse(state, config), LAMBDA n : Usable(state, n))

\* sacn_initialize_internal_netints
InternalNetints(state, config) ==
    LET netints == NetintsToUse(state, config)
        taken[i \in 0..Len(netints)] ==
            IF i = 0 THEN << >>
            ELSE IF Usable(state, netints[i]) /\ netints[i] \notin ToSet(taken[i - 1])
              THEN Append(taken[i - 1], netints[i])
            ELSE taken[i - 1]
    IN  taken[Len(netints)]

(***************************************************************************)
(* The calls.                                                              *)
(***************************************************************************)

\* sacn_sockets_init; another list, or a later stage, may fail as well.
SocketsStart ==
    /\ ~up
    /\ \E config \in SysConfigs, list \in SystemLists, others \in BOOLEAN :
       \E works \in TestResults(config, list), made \in UnicastResults(list) :
          LET started == SocketsReset(config, list, works, made) IN
          /\ up' = (started.ok /\ others)
          /\ Becomes(IF up' THEN started ELSE Cleared(started))
    /\ UNCHANGED <<type, users, settled>>

\* sacn_sockets_deinit, when the users are gone.
SocketsStop ==
    /\ up
    /\ up' = FALSE
    /\ Becomes(Cleared(Current))
    /\ users' = NoUsers
    /\ settled' = TRUE
    /\ UNCHANGED type

\* sacn_receiver_create, sacn_source_add_universe, sacn_source_detector_create:
\* the user is there if an interface is usable and nothing else fails.
AddUser(u) ==
    /\ up
    /\ u \notin DOMAIN users
    /\ type = "detector" => users = NoUsers
    /\ \E config \in UserConfigs \cup {AllNetints} :
          /\ Validated(Current, config)
          /\ users' = With(users, u, [netints |-> InternalNetints(Current, config),
                                      removing |-> FALSE])
    /\ UNCHANGED <<type, up, networking, settled>>

\* A universe is removed when its termination packets are sent.
BeginRemoving(u) ==
    /\ up /\ type = "source"
    /\ u \in DOMAIN users /\ ~users[u].removing
    /\ users' = [users EXCEPT ![u].removing = TRUE]
    /\ UNCHANGED <<type, up, networking, settled>>

RemoveUser(u) ==
    /\ up
    /\ u \in DOMAIN users
    /\ type = "source" => users[u].removing
    /\ users' = Restrict(users, DOMAIN users \ {u})
    /\ UNCHANGED <<type, up, networking, settled>>

\* reset_source_universe_networking and its like for one user.
Renewed(state, u, config) == [users[u] EXCEPT !.netints = InternalNetints(state, config)]

ConfigsIf(per_user) == IF per_user THEN UserConfigs ELSE {AllNetints}

\* The users with a configuration get new interfaces one after another, up to
\* one that has none that is usable, or (a receiver, the detector) fails to add
\* its sockets.
ResetUsers(state, configs, sockets_fail) ==
    LET chosen == DOMAIN configs
        refused == {u \in chosen : ~Validated(state, configs[u])}
        RenewedIn(done) == [u \in DOMAIN users |->
            IF u \in done THEN Renewed(state, u, configs[u]) ELSE users[u]]
    IN  \/ refused = {} /\ users' = RenewedIn(chosen) /\ settled' = TRUE
        \/ \E failing \in chosen, done \in SUBSET (chosen \ refused) :
              /\ failing \in refused \/ (sockets_fail /\ failing \in done)
              /\ users' = RenewedIn(done)
              /\ settled' = FALSE

\* What sockets_reset may make of the list and the sockets.
ResetResults ==
    UNION {{SocketsReset(config, list, works, made) :
               works \in TestResults(config, list), made \in UnicastResults(list)} :
           config \in SysConfigs, list \in SystemLists}

\* A reset of the sources does not look whether the sockets were reset.
ResetSources(chosen, per_universe) ==
    /\ \E reset \in ResetResults, configs \in [chosen -> ConfigsIf(per_universe)] :
          Becomes(reset) /\ ResetUsers(reset, configs, FALSE)
    /\ UNCHANGED <<type, up>>

\* sacn_source_reset_networking
SourceResetNetworking ==
    up /\ type = "source" /\ ResetSources(DOMAIN users, FALSE)

\* sacn_source_reset_networking_per_universe leaves alone the universes that are
\* being removed, and takes no empty list of universes.
SourceResetNetworkingPerUniverse ==
    LET kept == {u \in DOMAIN users : ~users[u].removing}
    IN  up /\ type = "source" /\ kept # {} /\ ResetSources(kept, TRUE)

\* A reset of receivers or the detector goes on only if the list was made.
ResetListeners(per_user) ==
    /\ \E reset \in ResetResults :
          /\ Becomes(reset)
          /\ \/ /\ reset.ok
                /\ \E configs \in [DOMAIN users -> ConfigsIf(per_user)] :
                      ResetUsers(reset, configs, TRUE)
             \/ ~reset.ok /\ settled' = FALSE /\ UNCHANGED users
    /\ UNCHANGED <<type, up>>

\* sacn_receiver_reset_networking
ReceiverResetNetworking == up /\ type = "receiver" /\ ResetListeners(FALSE)

\* sacn_receiver_reset_networking_per_receiver
ReceiverResetNetworkingPerReceiver ==
    up /\ type = "receiver" /\ users # NoUsers /\ ResetListeners(TRUE)

\* sacn_source_detector_reset_networking
DetectorResetNetworking == up /\ type = "detector" /\ ResetListeners(FALSE)

Next ==
    \/ SocketsStart
    \/ SocketsStop
    \/ \E u \in Users : AddUser(u) \/ BeginRemoving(u) \/ RemoveUser(u)
    \/ SourceResetNetworking
    \/ SourceResetNetworkingPerUniverse
    \/ ReceiverResetNetworking
    \/ ReceiverResetNetworkingPerReceiver
    \/ DetectorResetNetworking

Spec == Init /\ [][Next]_vars

--------------------------------------------------------------------------------

\* send_multicast: the socket for an interface.
SocketFor(n) ==
    LET i == IndexOf(sys_netints, n) IN IF i = 0 THEN NoSocket ELSE send_sockets[i]

\* An interface is never listed twice, and what is sent on an interface, or by
\* unicast, goes through an open socket that was made for it, although handles
\* are used again and the two tables are found by the same index.
SendsOnOwnSocket ==
    /\ Len(send_sockets) = IF type = "source" THEN Len(sys_netints) ELSE 0
    /\ \A i, j \in DOMAIN sys_netints : sys_netints[i].iface = sys_netints[j].iface => i = j
    /\ type = "source" =>
          \A n \in Netints :
              IF Usable(Current, n) THEN SocketFor(n) \in DOMAIN open /\ open[SocketFor(n)] = n
              ELSE SocketFor(n) = NoSocket
    /\ \A v \in IpTypes : unicast_sockets[v] # NoSocket =>
          unicast_sockets[v] \in DOMAIN open /\ open[unicast_sockets[v]] = v

\* No socket is lost but those that were half made: through resets that fail at
\* any point the open sockets are those of the tables.
NoSocketIsLost ==
    DOMAIN open =
        ((ToSet(send_sockets) \cup {unicast_sockets[v] : v \in IpTypes}) \ {NoSocket})
        \cup abandoned

\* The table of the sockets agrees with the list and with what is open.
SendSocketsAgree == SendsOnOwnSocket /\ NoSocketIsLost

\* After a reset that succeeds, and until one fails, a user has only interfaces
\* that are usable, and none twice; a universe that is being removed keeps the
\* ones it had.
UsersAreOnUsable ==
    settled => \A u \in DOMAIN users :
        /\ IsInjective(users[u].netints)
        /\ ~users[u].removing => \A n \in ToSet(users[u].netints) : Usable(Current, n)

\* An interface that a call reports as usable to the application is usable, for
\* whatever addresses the system lists and the tests of each of them find.
ReportsAreTrue ==
    ~up => \A config \in SysConfigs, list \in SystemLists :
        \A works \in TestResults(config, list) :
            \A n \in Reported(config, list, works) :
                Usable(ApplyNetintConfig(Current, config, list, works), n)

\* What the application is told is usable, and what is used, is usable.
UsedAreUsable == UsersAreOnUsable /\ ReportsAreTrue
================================================================================
