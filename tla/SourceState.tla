----------------------------- MODULE SourceState -----------------------------
(***************************************************************************)
(* One sACN source (source.c, source_state.c, mem/source): its universes   *)
(* and their unicast destinations, the transmission of levels (start code  *)
(* 0x00) and per-address priorities (0xDD), and their termination.  Each   *)
(* API call and each pass over the universes holds the source lock and is  *)
(* one action.  The source is processed by the thread of the library or    *)
(* manually by the application.                                            *)
(*                                                                         *)
(* The keep-alive and discovery timers may expire at any pass.  Levels,    *)
(* priorities, names and the other contents of packets are left out: a     *)
(* packet is its kind, its sequence number and where it goes.              *)
(***************************************************************************)
EXTENDS Naturals, Sequences, FiniteSets, FiniteSetsExt

CONSTANTS
    Universes,          \* universe numbers
    Netints,            \* multicast network interfaces
    Addresses,          \* IP addresses of unicast destinations
    DestLists,          \* values of unicast_destinations for a new universe
    PreSuppression,     \* NUM_PRE_SUPPRESSION_PACKETS
    TerminationsRequired,   \* 3, the terminations sent
    ManualChoices,      \* values of manually_process_source
    SeqSize,            \* 256, the number of sequence numbers
    MaxDests,           \* bound: destinations of a universe
    MaxFailures         \* bound: sends that fail in a pass

ASSUME SourceAssumption ==
    /\ IsFiniteSet(Universes) /\ Universes \subseteq Nat
    /\ IsFiniteSet(Netints) /\ Netints \cap Addresses = {}
    /\ DestLists \subseteq Seq(Addresses)
    /\ PreSuppression \in Nat
    /\ TerminationsRequired \in Nat \ {0}
    /\ ManualChoices \subseteq BOOLEAN
    /\ SeqSize \in Nat \ {0}
    /\ MaxDests \in Nat
    /\ MaxFailures \in Nat

VARIABLES
    source,             \* "none", "active" or "terminating"
    manual,             \* process_manually
    universes,          \* SacnSourceUniverse by number, those that are tracked
    unicast_dests,      \* for each of them, its unicast destinations
    num_active_universes,
    netint_refs,        \* num_refs of the source's netints, 0 if not listed
    shutting_down,
    thread,             \* what the thread does next, "off" when it is not there
    discovery_failed,   \* in a pass of the thread since the last for levels
    sources_tracked,    \* whether the last pass of the thread met the source
    wire                \* history: what has been sent for each universe

sourceVars ==
    <<source, manual, universes, unicast_dests, num_active_universes, netint_refs>>
threadVars == <<shutting_down, thread, discovery_failed, sources_tracked>>
vars == <<sourceVars, threadVars, wire>>

Tracked == DOMAIN universes
Targets == Netints \cup Addresses

\* kNotTerminating, kTerminatingWithoutRemoving, kTerminatingAndRemoving
TerminationState == {"not", "keeping", "removing"}

UnicastDestination ==
    [addr : Addresses, termination_state : TerminationState,
     num_terminations_sent : 0..TerminationsRequired]

SourceUniverse ==
    [termination_state : TerminationState,
     num_terminations_sent : 0..TerminationsRequired,
     next_seq_num : 0..(SeqSize - 1),
     level_seq : 0..(SeqSize - 1),      \* packed in level_send_buf
     pap_seq : 0..(SeqSize - 1),        \* packed in pap_send_buf
     has_level_data : BOOLEAN, has_pap_data : BOOLEAN,
     level_packets : 0..PreSuppression, \* _sent_before_suppression
     pap_packets : 0..PreSuppression,
     send_unicast_only : BOOLEAN,
     netints : SUBSET Netints]

\* For the receivers of a universe: the number they expect next, whether none
\* was repeated or left out, and how many terminations each target is still to
\* get for the data that was sent to it.
Wire ==
    [expected : 0..(SeqSize - 1), in_order : BOOLEAN,
     owed : [Targets -> 0..TerminationsRequired]]

TypeOK ==
    /\ source \in {"none", "active", "terminating"}
    /\ manual \in BOOLEAN
    /\ Tracked \subseteq Universes
    /\ universes \in [Tracked -> SourceUniverse]
    /\ unicast_dests \in [Tracked -> Seq(UnicastDestination)]
    /\ num_active_universes \in 0..Cardinality(Universes)
    /\ netint_refs \in [Netints -> 0..Cardinality(Universes)]
    /\ shutting_down \in BOOLEAN
    /\ thread \in {"off", "levels", "pap", "check"}
    /\ discovery_failed \in BOOLEAN
    /\ sources_tracked \in BOOLEAN
    /\ wire \in [Universes -> Wire]

Unused ==
    [expected |-> 0, in_order |-> TRUE, owed |-> [t \in Targets |-> 0]]

Init ==
    /\ source = "none"
    /\ manual = FALSE
    /\ universes = << >>
    /\ unicast_dests = << >>
    /\ num_active_universes = 0
    /\ netint_refs = [n \in Netints |-> 0]
    /\ shutting_down = FALSE
    /\ thread = "off"
    /\ discovery_failed = FALSE
    /\ sources_tracked = FALSE
    /\ wire = [u \in Universes |-> Unused]
-----------------------------------------------------------------------------
(***************************************************************************)
(* Universes and destinations.                                             *)
(***************************************************************************)

IsPartOfDiscovery(uni) == uni.has_level_data /\ ~uni.send_unicast_only

\* pack_universe_discovery_page: the universes that the pages list.
Active(unis) == {u \in DOMAIN unis : IsPartOfDiscovery(unis[u])}

NewDest(addr) ==
    [addr |-> addr, termination_state |-> "not", num_terminations_sent |-> 0]

\* add_sacn_unicast_dest for each of the addresses, which may repeat.
NewDests(addrs) == [i \in DOMAIN addrs |-> NewDest(addrs[i])]

\* add_sacn_source_universe
NewUniverse(only, ints) ==
    [termination_state |-> "not", num_terminations_sent |-> 0,
     next_seq_num |-> 0, level_seq |-> 0, pap_seq |-> 0,
     has_level_data |-> FALSE, has_pap_data |-> FALSE,
     level_packets |-> 0, pap_packets |-> 0,
     send_unicast_only |-> only,
     netints |-> ints]

\* set_universe_terminating and set_unicast_dest_terminating, for either.
SetTerminating(x, behavior) ==
    [x EXCEPT
       !.num_terminations_sent = IF x.termination_state = "not" THEN 0 ELSE @,
       !.termination_state = IF @ = "removing" THEN @ ELSE behavior]

\* A faulty variant: the unicast destinations are left as they are.
SetNoDestsTerminating(dests, behavior) == dests

SetDestsTerminating(dests, behavior) ==
    [i \in DOMAIN dests |-> SetTerminating(dests[i], behavior)]

\* The elements of a sequence at the indices S, in their order.
ElementsAt(seq, S) ==
    [k \in 1..Cardinality(S) |->
        seq[CHOOSE i \in S : Cardinality({j \in S : j <= i}) = k]]

\* finish_unicast_dest_termination for the destinations at the indices S: those
\* being removed go, the others are reset.
FinishDests(dests, S) ==
    LET left == {i \in DOMAIN dests :
                   i \in S => dests[i].termination_state # "removing"}
        finished == [i \in DOMAIN dests |->
                       IF i \in S THEN NewDest(dests[i].addr) ELSE dests[i]]
    IN  ElementsAt(finished, left)

\* reset_universe
ResetUniverse(uni) ==
    [uni EXCEPT !.termination_state = "not", !.num_terminations_sent = 0,
                !.has_level_data = FALSE, !.has_pap_data = FALSE]

\* disable_pap_data
WithoutPap(uni) == [uni EXCEPT !.has_pap_data = FALSE]

\* cancel_termination_if_not_removing
CancelTermination(uni) ==
    IF uni.termination_state = "keeping"
      THEN [uni EXCEPT !.termination_state = "not", !.num_terminations_sent = 0]
      ELSE uni

\* A faulty variant: the destinations are forgotten.
CancelNoDests(uni, dests) == dests

CancelDests(uni, dests) ==
    [i \in DOMAIN dests |->
        IF /\ uni.termination_state = "keeping"
           /\ dests[i].termination_state = "keeping"
          THEN NewDest(dests[i].addr) ELSE dests[i]]

\* reset_transmission_suppression with kResetLevelAndPap
ResetSuppression(uni) == [uni EXCEPT !.level_packets = 0, !.pap_packets = 0]

\* remove_from_source_netints for the universes of S
WithoutRefs(refs, unis, S) ==
    [n \in Netints |->
        LET gone == Cardinality({u \in S : n \in unis[u].netints})
        IN  IF refs[n] >= gone THEN refs[n] - gone ELSE 0]

\* add_sacn_source_netint for the universes of S
RefsOf(unis, S) ==
    [n \in Netints |-> Cardinality({u \in S : n \in unis[u].netints})]

Without(unis, S) == [u \in DOMAIN unis \ S |-> unis[u]]
-----------------------------------------------------------------------------
(***************************************************************************)
(* A pass over one universe, uni, and its unicast destinations, dests.     *)
(* fail[k] are the targets to which sending a packet of kind k fails.  The *)
(* result is the universe and its destinations after the pass and          *)
(*   ok        all_sends_succeeded                                         *)
(*   finished  finish_source_universe_termination was called               *)
(*   packets   what was sent: [kind, seq, to]                              *)
(*   ended     the targets to which a termination was sent, or tried       *)
(***************************************************************************)
Kinds == {"term", "levels", "pap"}

Multicast(uni) == IF uni.send_unicast_only THEN {} ELSE uni.netints

Addrs(dests, S) == {dests[i].addr : i \in S}

TargetsOf(uni, dests) == uni.netints \cup Addrs(dests, DOMAIN dests)

\* The destinations send_universe_unicast sends to.
Unicast(dests) ==
    Addrs(dests, {i \in DOMAIN dests : dests[i].termination_state = "not"})

\* send_universe_multicast, and send_universe_unicast if no interface failed.
SentTo(uni, dests, failing) ==
    (Multicast(uni) \ failing)
      \cup (IF Multicast(uni) \cap failing = {}
              THEN Unicast(dests) \ failing ELSE {})

AllSent(uni, dests, failing) ==
    (Multicast(uni) \cup Unicast(dests)) \cap failing = {}

Packets(kind, seq, to) == {[kind |-> kind, seq |-> seq, to |-> t] : t \in to}

\* send_termination_multicast and send_termination_unicast count what they try to
\* send, x is the universe or the destination.
TerminationTried(x) == [x EXCEPT !.num_terminations_sent = @ + 1]

\* process_unicast_termination: from the last destination to the first that
\* fails.  The others only have their counters looked at.
UnicastTermination(uni, dests, failing) ==
    LET terminating == {i \in DOMAIN dests : dests[i].termination_state # "not"}
        due == {i \in terminating :
                  /\ dests[i].num_terminations_sent < TerminationsRequired
                  /\ uni.has_level_data}
        failed == {i \in due : dests[i].addr \in failing}
        tried == {i \in due : \A j \in failed : i >= j}
        counted == [i \in DOMAIN dests |->
            IF i \in tried THEN TerminationTried(dests[i]) ELSE dests[i]]
        finished == {i \in terminating :
            \/ counted[i].num_terminations_sent >= TerminationsRequired
            \/ ~uni.has_level_data}
    IN  [dests |-> FinishDests(counted, finished),
         ok |-> failed = {},
         terminating |-> terminating \ finished # {},
         packets |-> Packets("term", uni.level_seq,
                             Addrs(dests, tried \ failed)),
         ended |-> Addrs(dests, tried)]

NoUnicastTermination(dests, all_sends_succeeded) ==
    [dests |-> dests, ok |-> all_sends_succeeded, terminating |-> FALSE,
     packets |-> {}, ended |-> {}]

\* The sends of transmit_levels_and_pap_when_needed.  sent says whether
\* a termination has set levels_sent_this_tick; expired are the kinds whose
\* keep-alive timer has expired.
LevelsAreDue(uni, mode, expired) ==
    /\ mode # "pap" /\ uni.has_level_data
    /\ uni.level_packets < PreSuppression \/ "levels" \in expired

PapIsDue(uni, mode, expired) ==
    /\ mode # "levels" /\ uni.has_pap_data
    /\ uni.pap_packets < PreSuppression \/ "pap" \in expired

Transmit(uni, dests, mode, expired, fail, sent) ==
    LET levels_due == LevelsAreDue(uni, mode, expired)
        levels_to == IF levels_due THEN SentTo(uni, dests, fail["levels"]) ELSE {}
        levels_ok == levels_due => AllSent(uni, dests, fail["levels"])
        pap_due == PapIsDue(uni, mode, expired)
        pap_seq == IF sent \/ levels_to # {}
                     THEN (uni.next_seq_num + 1) % SeqSize ELSE uni.pap_seq
        pap_to == IF pap_due /\ levels_ok THEN SentTo(uni, dests, fail["pap"]) ELSE {}
        Counted(count, due) ==
            IF due /\ count < PreSuppression THEN count + 1 ELSE count
    IN  [universe |-> [uni EXCEPT
             !.level_packets = Counted(@, levels_due),
             !.pap_packets = Counted(@, pap_due)],
         ok |-> levels_ok /\ (pap_due => AllSent(uni, dests, fail["pap"])),
         finished |-> FALSE,
         packets |-> Packets("levels", uni.level_seq, levels_to)
                       \cup Packets("pap", pap_seq, pap_to),
         ended |-> {}]

\* process_multicast_termination
MulticastTermination(uni, failing, unicast_terminating) ==
    LET due == /\ uni.num_terminations_sent < TerminationsRequired
               /\ uni.has_level_data
        counted == IF due THEN TerminationTried(uni) ELSE uni
        to == IF due THEN Multicast(uni) ELSE {}
    IN  [universe |-> counted,
         ok |-> to \cap failing = {},
         finished |->
            \/ /\ counted.num_terminations_sent >= TerminationsRequired
               /\ ~unicast_terminating
            \/ ~uni.has_level_data,
         packets |-> Packets("term", uni.level_seq, to \ failing),
         ended |-> to]

Untouched(uni, all_sends_succeeded) ==
    [universe |-> uni, ok |-> all_sends_succeeded, finished |-> FALSE,
     packets |-> {}, ended |-> {}]

\* A faulty variant: levels and PAP of one pass count as one packet.
IncrementSequenceNumberOnce(uni, packets) ==
    LET next == (uni.next_seq_num + (IF packets = {} THEN 0 ELSE 1)) % SeqSize
    IN  [uni EXCEPT !.next_seq_num = next, !.level_seq = next, !.pap_seq = next]

\* increment_sequence_number
IncrementSequenceNumber(uni, packets) ==
    LET Sent(kinds) == IF \E p \in packets : p.kind \in kinds THEN 1 ELSE 0
        next == (uni.next_seq_num + Sent({"levels", "term"}) + Sent({"pap"})
                   + Sent({"other"})) % SeqSize
    IN  [uni EXCEPT !.next_seq_num = next, !.level_seq = next, !.pap_seq = next]

\* What a universe does after its unicast terminations, unicast.
AfterUnicast(uni, mode, expired, fail, unicast) ==
    IF ~unicast.ok THEN Untouched(uni, FALSE)
    ELSE IF uni.termination_state = "not"
      THEN Transmit(uni, unicast.dests, mode, expired, fail,
                    unicast.packets # {})
    ELSE IF mode = "pap" THEN Untouched(uni, TRUE)
    ELSE MulticastTermination(uni, fail["term"], unicast.terminating)

\* A universe that has finished its termination and stays is reset.
IsReset(uni, result) == result.finished /\ uni.termination_state = "keeping"

Outcome(uni, unicast, result) ==
    [universe |-> IncrementSequenceNumber(
         IF IsReset(uni, result) THEN ResetUniverse(result.universe)
         ELSE result.universe,
         unicast.packets \cup result.packets),
     dests |-> IF IsReset(uni, result)
                 THEN FinishDests(unicast.dests, DOMAIN unicast.dests)
                 ELSE unicast.dests,
     ok |-> result.ok,
     finished |-> result.finished,
     packets |-> unicast.packets \cup result.packets,
     ended |-> unicast.ended \cup result.ended]

\* The body of the loop of process_universes.  In a pass for PAP only,
\* all_sends_succeeded is what the lower universes left.
ProcessUniverse(uni, dests, mode, all_sends_succeeded, expired, fail) ==
    LET unicast == IF mode = "pap"
                     THEN NoUnicastTermination(dests, all_sends_succeeded)
                     ELSE UnicastTermination(uni, dests, fail["term"])
    IN  Outcome(uni, unicast, AfterUnicast(uni, mode, expired, fail, unicast))
-----------------------------------------------------------------------------
(***************************************************************************)
(* History: what the receivers of a universe have seen of packets.         *)
(***************************************************************************)

\* Terminations share the number of the levels of the same pass, which go to
\* other destinations; PAP comes after them.
WireAfter(w, packets, ended) ==
    LET Seqs(kinds) == {p.seq : p \in {q \in packets : q.kind \in kinds}}
        first == Seqs({"levels", "term", "other"})
        second == Seqs({"pap"})
        after_first == IF first = {} THEN w.expected
                       ELSE (w.expected + 1) % SeqSize
        live == {p.to : p \in {q \in packets : q.kind \in {"levels", "pap"}}}
    IN  [expected |-> IF second = {} THEN after_first
                      ELSE (after_first + 1) % SeqSize,
         in_order |-> /\ w.in_order
                      /\ first \subseteq {w.expected}
                      /\ second \subseteq {after_first},
         owed |-> [t \in Targets |->
                     IF t \in live THEN TerminationsRequired
                     ELSE IF t \in ended /\ w.owed[t] > 0 THEN w.owed[t] - 1
                     ELSE w.owed[t]]]

\* A target the application or a networking reset takes away without
\* a termination is forgotten.
WireFor(w, targets) ==
    [w EXCEPT !.owed = [t \in Targets |-> IF t \in targets THEN @[t] ELSE 0]]
-----------------------------------------------------------------------------
(***************************************************************************)
(* Passes over the universes: process_sources.                             *)
(***************************************************************************)

\* A faulty variant: the universes are terminated and kept.
AllTerminatingAndKept(unis) ==
    [u \in DOMAIN unis |-> SetTerminating(unis[u], "keeping")]

\* set_source_terminating
AllTerminating(unis) ==
    [u \in DOMAIN unis |-> SetTerminating(unis[u], "removing")]

AllDestsTerminating(dests) ==
    [u \in DOMAIN dests |-> SetDestsTerminating(dests[u], "removing")]

\* process_universes for the universes unis, lowest first.  In a pass for PAP
\* only, the first failure blocks the rest.
Results(unis, dests, mode, expired, fail) ==
    LET Result(u, ok) ==
            ProcessUniverse(unis[u], dests[u], mode, ok,
                {k \in Kinds : <<u, k>> \in expired},
                [k \in Kinds |-> {t \in Targets : <<u, k, t>> \in fail}])
        Blocked(u) ==
            mode = "pap" /\ \E v \in DOMAIN unis : v < u /\ ~Result(v, TRUE).ok
    IN  [u \in DOMAIN unis |-> Result(u, ~Blocked(u))]

\* The universes that finish_source_universe_termination is called for, and
\* those it removes.
Finished(unis, results) == {u \in DOMAIN unis : results[u].finished}

Removed(unis, results) ==
    {u \in Finished(unis, results) : unis[u].termination_state = "removing"}

\* What a pass with these results leaves, and the removal of the source.
EndPass(state, unis, results) ==
    LET removed == Removed(unis, results)
        left == DOMAIN unis \ removed
        After(u) == WireAfter(wire[u], results[u].packets, results[u].ended)
    IN  /\ universes' = [u \in left |-> results[u].universe]
        /\ unicast_dests' = [u \in left |-> results[u].dests]
        /\ num_active_universes' = num_active_universes
             - Cardinality(Finished(unis, results) \cap Active(unis))
        /\ netint_refs' = WithoutRefs(netint_refs, unis, removed)
        /\ source' = IF state = "terminating" /\ left = {} THEN "none" ELSE state
        /\ wire' = [u \in Universes |->
             IF u \in removed THEN [After(u) EXCEPT !.expected = 0]
             ELSE IF u \in left THEN After(u)
             ELSE wire[u]]

\* The keep-alive timers that a pass looks at and that may have expired, and
\* the sends that may fail.
Timers(unis, mode) ==
    {timer \in (DOMAIN unis) \X {"levels", "pap"} :
        LET uni == unis[timer[1]]
        IN  /\ uni.termination_state = "not"
            /\ \/ /\ timer[2] = "levels" /\ mode # "pap"
                  /\ uni.has_level_data /\ uni.level_packets = PreSuppression
               \/ /\ timer[2] = "pap" /\ mode # "levels"
                  /\ uni.has_pap_data /\ uni.pap_packets = PreSuppression}

Sends(unis, dests, mode) ==
    {send \in (DOMAIN unis) \X Kinds \X Targets :
        LET uni == unis[send[1]]
        IN  /\ IF send[2] = "pap" THEN mode # "levels" /\ uni.has_pap_data
               ELSE mode # "pap" /\ uni.has_level_data
            /\ send[2] # "term" => uni.termination_state = "not"
            /\ send[3] \in Multicast(uni)
                             \cup Addrs(dests[send[1]], DOMAIN dests[send[1]])}

UpTo(n, S) == UNION {kSubset(i, S) : i \in 0..n}

\* A pass that gets to the universes.
Process(mode) ==
    LET ends == source = "active" /\ shutting_down /\ ~manual
        state == IF ends THEN "terminating" ELSE source
        unis == IF ends THEN AllTerminating(universes) ELSE universes
        dests == IF ends THEN AllDestsTerminating(unicast_dests)
                 ELSE unicast_dests
    IN  /\ source # "none"
        /\ \E expired \in SUBSET Timers(unis, mode) :
             \E fail \in UpTo(MaxFailures, Sends(unis, dests, mode)) :
               EndPass(state, unis, Results(unis, dests, mode, expired, fail))
        /\ UNCHANGED <<manual, shutting_down>>

\* send_universe_discovery has a page to send, and interfaces to send it on.
SendsDiscovery ==
    Active(universes) # {} /\ \E n \in Netints : netint_refs[n] > 0

\* process_universe_discovery fails, and the universes wait for another pass.
\* The discovery interval is much longer than that between two passes.
DiscoveryFails ==
    /\ source = "active" /\ ~shutting_down
    /\ SendsDiscovery
    /\ ~discovery_failed

\* sacn_source_process_manual, when discovery does not fail.
ProcessManual(mode) ==
    /\ manual
    /\ Process(mode)
    /\ UNCHANGED <<thread, discovery_failed, sources_tracked>>

\* source_thread_function: levels, PAP, and whether to go on.
Threaded == source # "none" /\ ~manual

Loop(mode) ==
    /\ thread = mode
    /\ thread' = IF mode = "levels" THEN "pap" ELSE "check"
    /\ sources_tracked' = IF mode = "pap" THEN Threaded ELSE sources_tracked

ThreadProcesses(mode) ==
    /\ Loop(mode)
    /\ Threaded
    /\ Process(mode)
    /\ discovery_failed' = (discovery_failed /\ mode # "levels")

ThreadDiscoveryFails(mode) ==
    /\ Loop(mode)
    /\ Threaded
    /\ DiscoveryFails
    /\ discovery_failed' = TRUE
    /\ UNCHANGED <<sourceVars, shutting_down, wire>>

ThreadIdles(mode) ==
    /\ Loop(mode)
    /\ ~Threaded
    /\ UNCHANGED <<sourceVars, shutting_down, discovery_failed, wire>>

ThreadChecks ==
    /\ thread = "check"
    /\ thread' = IF shutting_down /\ ~sources_tracked THEN "off" ELSE "levels"
    /\ UNCHANGED <<sourceVars, shutting_down, discovery_failed, sources_tracked, wire>>
-----------------------------------------------------------------------------
(***************************************************************************)
(* The API.  The application does not use it after sacn_deinit.            *)
(***************************************************************************)
\* add_sacn_source
AddSource(manually) ==
    /\ source' = "active"
    /\ manual' = manually
    /\ universes' = << >>
    /\ unicast_dests' = << >>
    /\ num_active_universes' = 0
    /\ netint_refs' = [n \in Netints |-> 0]

\* sacn_source_create
CreateSource(manually) ==
    /\ source = "none"
    /\ AddSource(manually)
    /\ thread' = IF manually \/ thread # "off" THEN thread ELSE "levels"
    /\ UNCHANGED <<shutting_down, discovery_failed, sources_tracked, wire>>

\* sacn_source_destroy
DestroySource ==
    /\ source = "active"
    /\ source' = "terminating"
    /\ universes' = AllTerminating(universes)
    /\ unicast_dests' = AllDestsTerminating(unicast_dests)
    /\ UNCHANGED <<manual, num_active_universes, netint_refs, threadVars, wire>>

\* What sacn_source_add_universe does with an old universe of this number.
IsOld(u) == u \in Tracked /\ universes[u].termination_state = "removing"

\* A faulty variant: the old universe is not taken off the count.
ActiveWithoutChange(u) == num_active_universes

ActiveWithout(u) ==
    num_active_universes
      - (IF u \in Tracked /\ IsPartOfDiscovery(universes[u]) THEN 1 ELSE 0)

\* sacn_source_add_universe
AddUniverse(u, only, addrs, ints) ==
    LET new == NewUniverse(only, ints)
        old_refs == WithoutRefs(netint_refs, universes, {u} \cap Tracked)
    IN  /\ source = "active"
        /\ u \notin Tracked \/ IsOld(u)
        /\ universes' = [v \in Tracked \cup {u} |->
                            IF v = u THEN new ELSE universes[v]]
        /\ unicast_dests' = [v \in Tracked \cup {u} |->
                IF v = u THEN NewDests(addrs) ELSE unicast_dests[v]]
        /\ num_active_universes' = ActiveWithout(u)
        /\ netint_refs' = [n \in Netints |->
                              old_refs[n] + (IF n \in ints THEN 1 ELSE 0)]
        /\ wire' = [wire EXCEPT ![u] = Unused]
        /\ UNCHANGED <<source, manual, threadVars>>

\* sacn_source_add_universe, when none of the interfaces can be used: the old
\* universe is gone all the same.
AddUniverseFails(u) ==
    /\ source = "active"
    /\ IsOld(u)
    /\ universes' = Without(universes, {u})
    /\ unicast_dests' = Without(unicast_dests, {u})
    /\ num_active_universes' = ActiveWithout(u)
    /\ netint_refs' = WithoutRefs(netint_refs, universes, {u})
    /\ wire' = [wire EXCEPT ![u] = Unused]
    /\ UNCHANGED <<source, manual, threadVars>>

\* The functions that look up a universe and treat one that is being removed as
\* not found.
IsFound(u) == u \in Tracked /\ universes[u].termination_state # "removing"

Update(u, uni, dests) ==
    /\ universes' = [universes EXCEPT ![u] = uni]
    /\ unicast_dests' = [unicast_dests EXCEPT ![u] = dests]
    /\ UNCHANGED <<source, manual, netint_refs, threadVars>>

\* sacn_source_remove_universe
RemoveUniverse(u) ==
    /\ IsFound(u)
    /\ Update(u, SetTerminating(universes[u], "removing"),
              SetDestsTerminating(unicast_dests[u], "removing"))
    /\ UNCHANGED <<num_active_universes, wire>>

\* get_unicast_dest_index: the first destination with the address.
IsDest(dests, i, addr) ==
    /\ i \in DOMAIN dests
    /\ dests[i].addr = addr
    /\ \A j \in 1..(i - 1) : dests[j].addr # addr

\* sacn_source_add_unicast_destination.  A destination added again while the
\* transmission ends gets none of the terminations that it is still owed.
AddUnicastDestination(u, addr) ==
    LET dests == unicast_dests[u]
        found == {i \in DOMAIN dests : IsDest(dests, i, addr)}
    IN  /\ IsFound(u)
        /\ Len(dests) - Cardinality(found) < MaxDests
        /\ \A i \in found : dests[i].termination_state = "removing"
        /\ Update(u, ResetSuppression(universes[u]),
                  Append(FinishDests(dests, found), NewDest(addr)))
        /\ wire' = IF universes[u].termination_state = "keeping"
                     THEN [wire EXCEPT ![u].owed[addr] = 0] ELSE wire
        /\ UNCHANGED num_active_universes

\* sacn_source_remove_unicast_destination
RemoveUnicastDestination(u, addr) ==
    LET dests == unicast_dests[u]
    IN  /\ IsFound(u)
        /\ \E i \in DOMAIN dests :
              /\ IsDest(dests, i, addr)
              /\ dests[i].termination_state # "removing"
              /\ Update(u, universes[u],
                    [dests EXCEPT ![i] = SetTerminating(@, "removing")])
        /\ UNCHANGED <<num_active_universes, wire>>

\* update_levels
WithLevels(uni) ==
    [CancelTermination(uni) EXCEPT !.has_level_data = TRUE, !.level_packets = 0]

\* update_pap
WithPap(uni) == [uni EXCEPT !.has_pap_data = TRUE, !.pap_packets = 0]

\* update_levels_and_or_pap, with levels: the priorities go first.
WithLevelsAndPap(uni, pap) == WithLevels(IF pap THEN WithPap(uni) ELSE WithoutPap(uni))

\* What follows from new levels: the universe is active, its destinations stay.
SetLevels(u, new) ==
    /\ IsFound(u)
    /\ Update(u, new, CancelDests(universes[u], unicast_dests[u]))
    /\ num_active_universes' = num_active_universes
         + (IF IsPartOfDiscovery(new) /\ ~IsPartOfDiscovery(universes[u])
              THEN 1 ELSE 0)
    /\ UNCHANGED wire

\* sacn_source_update_levels: the priorities stay as they are.
UpdateLevels(u) == SetLevels(u, WithLevels(universes[u]))

\* sacn_source_update_levels_and_pap with new priorities, or with none.
UpdateLevelsAndPap(u, pap) == SetLevels(u, WithLevelsAndPap(universes[u], pap))

\* Either of them with no levels: the transmission ends.
EndLevels(u) ==
    /\ IsFound(u)
    /\ Update(u, WithoutPap(SetTerminating(universes[u], "keeping")),
              SetDestsTerminating(unicast_dests[u], "keeping"))
    /\ UNCHANGED <<num_active_universes, wire>>

\* sacn_source_update_levels_and_force_sync: the same, with a flag in the packets.
UpdateLevelsAndForceSync(u) == UpdateLevels(u) \/ EndLevels(u)

\* sacn_source_update_levels_and_pap_and_force_sync
UpdateLevelsAndPapAndForceSync(u) ==
    EndLevels(u) \/ \E pap \in BOOLEAN : UpdateLevelsAndPap(u, pap)

\* set_universe_priority, set_preview_flag
ChangeSettings(u) ==
    /\ IsFound(u)
    /\ Update(u, ResetSuppression(universes[u]), unicast_dests[u])
    /\ UNCHANGED <<num_active_universes, wire>>

\* sacn_source_change_priority
ChangePriority(u) == ChangeSettings(u)

\* sacn_source_change_preview_flag
ChangePreviewFlag(u) == ChangeSettings(u)

\* set_source_name
Renamed(unis) == [u \in DOMAIN unis |-> ResetSuppression(unis[u])]

\* sacn_source_change_name
ChangeName ==
    /\ source = "active"
    /\ universes' = Renamed(universes)
    /\ UNCHANGED <<source, manual, unicast_dests, num_active_universes,
                   netint_refs, threadVars, wire>>

\* sacn_source_send_now
SendNow(u, failing) ==
    LET uni == universes[u]
        packets == Packets("other", uni.next_seq_num,
            (Multicast(uni) \cup Unicast(unicast_dests[u])) \ failing)
    IN  /\ IsFound(u)
        /\ Update(u, IncrementSequenceNumber(uni, packets), unicast_dests[u])
        /\ wire' = [wire EXCEPT ![u] = WireAfter(@, packets, {})]
        /\ UNCHANGED num_active_universes

\* sacn_source_reset_networking_per_universe, and sacn_source_reset_networking,
\* which gives all interfaces to every universe and resets those being removed too.
ResetNetworking(ints, all) ==
    LET Keeps(u) == ~all /\ universes[u].termination_state = "removing"
        reset == [u \in Tracked |->
            IF Keeps(u) THEN universes[u]
            ELSE [ResetSuppression(universes[u]) EXCEPT !.netints = ints[u]]]
    IN  /\ source # "none"
        /\ universes' = reset
        /\ netint_refs' = RefsOf(reset, Tracked)
        /\ wire' = [u \in Universes |->
             IF u \in Tracked
               THEN WireFor(wire[u], TargetsOf(reset[u], unicast_dests[u]))
               ELSE wire[u]]
        /\ UNCHANGED <<source, manual, unicast_dests, num_active_universes, threadVars>>

\* sacn_source_state_deinit, when a thread has been started.  The application
\* has cleaned up manual sources.
ShutDown ==
    /\ thread # "off"
    /\ ~(manual /\ source # "none")
    /\ shutting_down' = TRUE
    /\ UNCHANGED <<sourceVars, thread, discovery_failed, sources_tracked, wire>>

\* deinit_sources when the thread has ended, and sacn_source_state_init.
Restart ==
    /\ shutting_down /\ thread = "off"
    /\ shutting_down' = FALSE
    /\ source' = "none"
    /\ universes' = << >>
    /\ unicast_dests' = << >>
    /\ num_active_universes' = 0
    /\ netint_refs' = [n \in Netints |-> 0]
    /\ wire' = [u \in Universes |-> [wire[u] EXCEPT !.expected = 0]]
    /\ UNCHANGED <<manual, thread, discovery_failed, sources_tracked>>

SourceCall ==
    \/ \E manually \in ManualChoices : CreateSource(manually)
    \/ DestroySource
    \/ ChangeName
    \/ \E ints \in [Tracked -> SUBSET Netints] : ResetNetworking(ints, FALSE)
    \/ \E N \in (SUBSET Netints) \ {{}} :
          ResetNetworking([u \in Tracked |-> N], TRUE)

UniverseCall(u) ==
    \/ \E only \in BOOLEAN, addrs \in DestLists, ints \in SUBSET Netints :
          AddUniverse(u, only, addrs, ints)
    \/ AddUniverseFails(u)
    \/ RemoveUniverse(u)
    \/ \E addr \in Addresses :
          AddUnicastDestination(u, addr) \/ RemoveUnicastDestination(u, addr)
    \/ UpdateLevels(u)
    \/ \E pap \in BOOLEAN : UpdateLevelsAndPap(u, pap)
    \/ EndLevels(u)
    \/ UpdateLevelsAndForceSync(u)
    \/ UpdateLevelsAndPapAndForceSync(u)
    \/ ChangePriority(u)
    \/ ChangePreviewFlag(u)
    \/ \E failing \in SUBSET Targets : SendNow(u, failing)

AppCall ==
    /\ ~shutting_down
    /\ SourceCall \/ (\E u \in Universes : UniverseCall(u)) \/ ShutDown

ThreadStep ==
    \/ \E mode \in {"levels", "pap"} :
          \/ ThreadProcesses(mode)
          \/ ThreadDiscoveryFails(mode)
          \/ ThreadIdles(mode)
    \/ ThreadChecks

Next ==
    \/ AppCall
    \/ Restart
    \/ ThreadStep
    \/ \E mode \in {"levels", "pap", "both"} : ProcessManual(mode)

Spec == Init /\ [][Next]_vars

\* The thread runs: with ThreadMoves, every action of ThreadStep is meant, each
\* of which changes thread.
ThreadMoves ==
    /\ thread # "off"
    /\ thread' \in {"off", "levels", "pap", "check"} \ {thread}

FairSpec == Spec /\ WF_thread(ThreadMoves)
-----------------------------------------------------------------------------
(***************************************************************************)
(* Properties.                                                             *)
(***************************************************************************)

\* num_active_universes, kept by hand in updates and terminations, is the number
\* of universes that the pages of universe discovery list.
ActiveCountExact == num_active_universes = Cardinality(Active(universes))

\* The interfaces of the source, to which discovery is sent, are those of its
\* universes, each counted once for every universe that uses it.
NetintRefsExact == netint_refs = RefsOf(universes, Tracked)

\* The destinations of a universe being removed are being removed too, and those
\* that terminate without being removed have a universe that does, so that none
\* stays terminating when the universe transmits again.
DestsFollowUniverse ==
    \A u \in Tracked : \A i \in DOMAIN unicast_dests[u] :
        LET dest == unicast_dests[u][i]
        IN  /\ universes[u].termination_state = "removing"
                 => dest.termination_state = "removing"
            /\ dest.termination_state = "keeping"
                 => universes[u].termination_state = "keeping"

\* Priorities are never kept without levels, nor while the transmission of
\* levels is being ended.
PapNeedsLevels ==
    \A u \in Tracked : universes[u].has_pap_data =>
        /\ universes[u].has_level_data
        /\ universes[u].termination_state # "keeping"

\* No sequence number of a universe is repeated or left out, in whatever passes
\* and calls levels, priorities, terminations and other start codes are sent,
\* and whatever sends fail.
SequenceUnbroken ==
    \A u \in Universes :
        /\ wire[u].in_order
        /\ u \in Tracked => universes[u].next_seq_num = wire[u].expected

\* A target that got data either got all the terminations since, or belongs to
\* a universe that still has the levels it needs to send them: no universe,
\* destination or source goes away in the middle of a stream.
NoStreamLeftOpen ==
    \A u \in Universes : \A t \in Targets : wire[u].owed[t] > 0 =>
        /\ u \in Tracked
        /\ universes[u].has_level_data
        /\ t \in TargetsOf(universes[u], unicast_dests[u])

\* What the calls and passes assume of a universe and its destinations.
UniverseStatesAgree == TypeOK /\ DestsFollowUniverse /\ PapNeedsLevels

\* The two counts kept by hand in every path through adding, terminating and
\* removing: of the universes in discovery and of the uses of each interface.
CountsAreExact == ActiveCountExact /\ NetintRefsExact

\* The thread finishes the removal of a universe, whatever sends fail.
RemovalEnds ==
    \A u \in Universes :
        (/\ Threaded /\ thread # "off"
         /\ u \in Tracked /\ universes[u].termination_state = "removing")
          ~> (\/ u \notin Tracked \/ thread = "off"
              \/ universes[u].termination_state # "removing")

\* The join of sacn_source_state_deinit returns: the thread ends, once it has
\* terminated what is left.
ShutdownEnds == shutting_down ~> thread = "off"

\* What is told to end ends: universes, and the thread with all of them.
TerminationsEnd == RemovalEnds /\ ShutdownEnds
=============================================================================
