-------------------------- MODULE SourceStateProofs --------------------------
(***************************************************************************)
(* The sequence numbers, the counters and the priorities of a source, the  *)
(* states of its universes and destinations, and what they still have to   *)
(* send to those that got data, for any number of universes, interfaces    *)
(* and destinations.                                                       *)
(***************************************************************************)
EXTENDS SourceState, FiniteSetTheorems, SequenceTheorems, TLAPS

-----------------------------------------------------------------------------
(***************************************************************************)
(* The inductive invariant.  The history says which number comes next, and *)
(* both send buffers hold it between two passes.                           *)
(***************************************************************************)

InSequence(uni, w) ==
    /\ w.in_order
    /\ uni.next_seq_num = w.expected
    /\ uni.level_seq = w.expected
    /\ uni.pap_seq = w.expected

PapFits(uni) ==
    uni.has_pap_data => uni.has_level_data /\ uni.termination_state # "keeping"

\* A table of universes that fits the history ws.
Fits(unis, ws) ==
    /\ DOMAIN unis \subseteq Universes
    /\ unis \in [DOMAIN unis -> SourceUniverse]
    /\ \A u \in DOMAIN unis : InSequence(unis[u], ws[u]) /\ PapFits(unis[u])

IsHistory(ws) ==
    /\ ws \in [Universes -> Wire]
    /\ \A u \in Universes : ws[u].in_order

IInv ==
    /\ Fits(universes, wire)
    /\ IsHistory(wire)
    /\ num_active_universes = Cardinality(Active(universes))
    /\ netint_refs = RefsOf(universes, Tracked)

-----------------------------------------------------------------------------
(***************************************************************************)
(* Sequence numbers.                                                       *)
(***************************************************************************)

\* What one pass or call sends: at most the number seq, and then at most the
\* number that follows what was sent with seq.
FirstKinds == {"levels", "term", "other"}

SentFirst(packets) == \E p \in packets : p.kind \in FirstKinds

Numbered(packets, seq) ==
    /\ \A p \in packets : p.kind \in FirstKinds \cup {"pap"}
    /\ (\E p \in packets : p.kind = "other") =>
            \A p \in packets : p.kind = "other"
    /\ \A p \in packets : p.kind \in FirstKinds => p.seq = seq
    /\ \A p \in packets : p.kind = "pap" =>
            p.seq = IF SentFirst(packets) THEN (seq + 1) % SeqSize ELSE seq

\* The arithmetic of 8-bit numbers: a step of two is two steps of one.
LEMMA NextNumber ==
    ASSUME NEW n \in 0..(SeqSize - 1)
    PROVE  /\ (n + 1) % SeqSize \in 0..(SeqSize - 1)
           /\ (n + 0) % SeqSize = n
           /\ (n + 2) % SeqSize = (((n + 1) % SeqSize) + 1) % SeqSize
           /\ (n + 2) % SeqSize \in 0..(SeqSize - 1)
  BY SourceAssumption

\* The history after packets that are numbered.
LEMMA WireAfterNumbered ==
    ASSUME NEW w \in Wire, w.in_order, NEW packets, NEW ended,
           Numbered(packets, w.expected)
    PROVE  LET first == IF SentFirst(packets)
                          THEN (w.expected + 1) % SeqSize ELSE w.expected
           IN  /\ WireAfter(w, packets, ended) \in Wire
               /\ WireAfter(w, packets, ended).in_order
               /\ WireAfter(w, packets, ended).expected =
                    IF \E p \in packets : p.kind = "pap"
                      THEN (first + 1) % SeqSize ELSE first
<1> DEFINE Seqs(kinds) == {p.seq : p \in {q \in packets : q.kind \in kinds}}
           sent == SentFirst(packets)
           pap == \E p \in packets : p.kind = "pap"
           first == IF sent THEN (w.expected + 1) % SeqSize ELSE w.expected
           next == IF pap THEN (first + 1) % SeqSize ELSE first
           live == {p.to : p \in {q \in packets : q.kind \in {"levels", "pap"}}}
           owed == [t \in Targets |->
                     IF t \in live THEN TerminationsRequired
                     ELSE IF t \in ended /\ w.owed[t] > 0 THEN w.owed[t] - 1
                     ELSE w.owed[t]]
<1>1. w.expected \in 0..(SeqSize - 1) /\ w.owed \in [Targets -> 0..TerminationsRequired]
  BY DEF Wire
<1>2. first \in 0..(SeqSize - 1)
  BY <1>1, NextNumber
<1>3. next \in 0..(SeqSize - 1)
  BY <1>2, NextNumber
<1>4. Seqs({"levels", "term", "other"}) = IF sent THEN {w.expected} ELSE {}
  BY DEF Numbered, SentFirst, FirstKinds
<1>5. Seqs({"pap"}) = IF pap THEN {first} ELSE {}
  BY DEF Numbered
<1>6. owed \in [Targets -> 0..TerminationsRequired]
  <2> SUFFICES ASSUME NEW t \in Targets
               PROVE  (IF t \in live THEN TerminationsRequired
                       ELSE IF t \in ended /\ w.owed[t] > 0 THEN w.owed[t] - 1
                       ELSE w.owed[t]) \in 0..TerminationsRequired
    OBVIOUS
  <2>1. w.owed[t] \in 0..TerminationsRequired
    BY <1>1
  <2> QED
    BY <2>1, SourceAssumption
<1>7. WireAfter(w, packets, ended) =
        [expected |-> next, in_order |-> TRUE, owed |-> owed]
  <2> HIDE DEF live, owed
  <2>1. WireAfter(w, packets, ended) =
          [expected |-> IF Seqs({"pap"}) = {}
                          THEN IF Seqs({"levels", "term", "other"}) = {}
                                 THEN w.expected ELSE (w.expected + 1) % SeqSize
                          ELSE ((IF Seqs({"levels", "term", "other"}) = {}
                                   THEN w.expected
                                   ELSE (w.expected + 1) % SeqSize) + 1) % SeqSize,
           in_order |->
             /\ w.in_order
             /\ Seqs({"levels", "term", "other"}) \subseteq {w.expected}
             /\ Seqs({"pap"}) \subseteq
                  {IF Seqs({"levels", "term", "other"}) = {}
                     THEN w.expected ELSE (w.expected + 1) % SeqSize},
           owed |-> owed]
    BY Zenon DEF WireAfter, owed, live
  <2> HIDE DEF Seqs
  <2> QED
    BY <2>1, <1>4, <1>5
<1> QED
  <2> HIDE DEF owed, next
  <2>1. WireAfter(w, packets, ended) \in Wire
    BY <1>3, <1>6, <1>7 DEF Wire
  <2>2. /\ WireAfter(w, packets, ended).in_order
        /\ WireAfter(w, packets, ended).expected = next
    BY <1>7
  <2> QED
    BY <2>1, <2>2 DEF next

\* increment_sequence_number keeps up with it.
LEMMA IncrementKeepsUp ==
    ASSUME NEW uni \in SourceUniverse, NEW w \in Wire, InSequence(uni, w),
           NEW packets, NEW ended, Numbered(packets, w.expected)
    PROVE  /\ IncrementSequenceNumber(uni, packets) \in SourceUniverse
           /\ \E n \in 0..(SeqSize - 1) :
                IncrementSequenceNumber(uni, packets) =
                  [uni EXCEPT !.next_seq_num = n, !.level_seq = n, !.pap_seq = n]
           /\ InSequence(IncrementSequenceNumber(uni, packets),
                         WireAfter(w, packets, ended))
<1> DEFINE Sent(kinds) == IF \E p \in packets : p.kind \in kinds THEN 1 ELSE 0
           next == (uni.next_seq_num + Sent({"levels", "term"}) + Sent({"pap"})
                      + Sent({"other"})) % SeqSize
           e == w.expected
           new == [uni EXCEPT !.next_seq_num = next, !.level_seq = next,
                              !.pap_seq = next]
<1>1. e \in 0..(SeqSize - 1) /\ uni.next_seq_num = e
  BY DEF Wire, InSequence
<1>2. IncrementSequenceNumber(uni, packets) = new
  BY DEF IncrementSequenceNumber
<1>3. next = WireAfter(w, packets, ended).expected /\ next \in 0..(SeqSize - 1)
  <2> DEFINE first == IF SentFirst(packets) THEN (e + 1) % SeqSize ELSE e
  <2>1. WireAfter(w, packets, ended).expected =
          IF \E p \in packets : p.kind = "pap" THEN (first + 1) % SeqSize ELSE first
    BY WireAfterNumbered DEF InSequence
  <2>2. Sent({"levels", "term"}) + Sent({"other"}) = IF SentFirst(packets) THEN 1 ELSE 0
    BY DEF Numbered, SentFirst, FirstKinds
  <2>3. Sent({"pap"}) = IF \E p \in packets : p.kind = "pap" THEN 1 ELSE 0
    OBVIOUS
  <2>4. Sent({"levels", "term"}) \in {0, 1} /\ Sent({"other"}) \in {0, 1}
    OBVIOUS
  <2> HIDE DEF Sent
  <2>5. next = (e + (IF SentFirst(packets) THEN 1 ELSE 0)
                  + (IF \E p \in packets : p.kind = "pap" THEN 1 ELSE 0)) % SeqSize
    BY <1>1, <2>2, <2>3, <2>4
  <2> HIDE DEF next
  <2>6. CASE SentFirst(packets)
    <3>1. CASE \E p \in packets : p.kind = "pap"
      <4>1. next = (e + 2) % SeqSize
        BY <1>1, <2>5, <2>6, <3>1
      <4> QED
        BY <1>1, <2>1, <2>6, <3>1, <4>1, NextNumber
    <3>2. CASE ~ \E p \in packets : p.kind = "pap"
      BY <1>1, <2>1, <2>5, <2>6, <3>2, NextNumber
    <3> QED
      BY <3>1, <3>2
  <2>7. CASE ~SentFirst(packets)
    <3>1. CASE \E p \in packets : p.kind = "pap"
      BY <1>1, <2>1, <2>5, <2>7, <3>1, NextNumber
    <3>2. CASE ~ \E p \in packets : p.kind = "pap"
      BY <1>1, <2>1, <2>5, <2>7, <3>2, NextNumber
    <3> QED
      BY <3>1, <3>2
  <2> QED
    BY <2>6, <2>7
<1>4. WireAfter(w, packets, ended).in_order
  BY WireAfterNumbered DEF InSequence
<1> HIDE DEF next
<1> QED
  BY <1>2, <1>3, <1>4 DEF SourceUniverse, InSequence

-----------------------------------------------------------------------------
(***************************************************************************)
(* A pass over one universe.                                               *)
(***************************************************************************)

\* What a pass leaves alone before the sequence numbers are increased, unless
\* the termination of the universe is over.
SameStream(uni, new) ==
    /\ new \in SourceUniverse
    /\ new.next_seq_num = uni.next_seq_num
    /\ new.level_seq = uni.level_seq
    /\ new.pap_seq = uni.pap_seq
    /\ new.termination_state = uni.termination_state
    /\ new.has_level_data = uni.has_level_data
    /\ new.has_pap_data = uni.has_pap_data
    /\ new.send_unicast_only = uni.send_unicast_only
    /\ new.netints = uni.netints

\* Packets sent alike have one kind and one number.
LEMMA PacketsOf ==
    ASSUME NEW kind, NEW seq, NEW to
    PROVE  /\ \A p \in Packets(kind, seq, to) : p.kind = kind /\ p.seq = seq
           /\ Packets(kind, seq, to) = {} <=> to = {}
<1>1. \A t \in to : [kind |-> kind, seq |-> seq, to |-> t] \in Packets(kind, seq, to)
  BY DEF Packets
<1>2. \A p \in Packets(kind, seq, to) : \E t \in to :
        p = [kind |-> kind, seq |-> seq, to |-> t]
  BY DEF Packets
<1>3. \A p \in Packets(kind, seq, to) : p.kind = kind /\ p.seq = seq
  BY <1>2
<1>4. Packets(kind, seq, to) = {} <=> to = {}
  BY Zenon, <1>1, <1>2
<1> QED
  BY <1>3, <1>4

\* process_unicast_termination sends terminations with the number of the
\* levels.
LEMMA UnicastPackets ==
    ASSUME NEW uni, NEW dests, NEW failing
    PROVE  \A p \in UnicastTermination(uni, dests, failing).packets :
             p.kind = "term" /\ p.seq = uni.level_seq
<1>1. \E to : UnicastTermination(uni, dests, failing).packets =
                Packets("term", uni.level_seq, to)
  BY DEF UnicastTermination
<1> QED
  BY <1>1, PacketsOf

\* The result of a transmission; sent says whether terminations went first.
IsTransmission(uni, sent, result) ==
    /\ SameStream(uni, result.universe)
    /\ result.finished = FALSE
    /\ \A p \in result.packets : p.kind \in {"levels", "pap"}
    /\ \A p \in result.packets : p.kind = "levels" => p.seq = uni.level_seq
    /\ \A p \in result.packets : p.kind = "pap" =>
         p.seq = IF sent \/ \E q \in result.packets : q.kind = "levels"
                 THEN (uni.next_seq_num + 1) % SeqSize ELSE uni.pap_seq

\* transmit_levels_and_pap_when_needed numbers levels and PAP one after the
\* other.
LEMMA TransmitStream ==
    ASSUME NEW uni \in SourceUniverse, NEW dests, NEW mode, NEW expired,
           NEW fail, NEW sent \in BOOLEAN
    PROVE  IsTransmission(uni, sent,
                          Transmit(uni, dests, mode, expired, fail, sent))
<1> DEFINE result == Transmit(uni, dests, mode, expired, fail, sent)
           levels_due == LevelsAreDue(uni, mode, expired)
           levels_to == IF levels_due THEN SentTo(uni, dests, fail["levels"]) ELSE {}
           levels_ok == levels_due => AllSent(uni, dests, fail["levels"])
           pap_due == PapIsDue(uni, mode, expired)
           pap_seq == IF sent \/ levels_to # {}
                        THEN (uni.next_seq_num + 1) % SeqSize ELSE uni.pap_seq
           pap_to == IF pap_due /\ levels_ok THEN SentTo(uni, dests, fail["pap"]) ELSE {}
           l == IF levels_due /\ uni.level_packets < PreSuppression
                  THEN uni.level_packets + 1 ELSE uni.level_packets
           p == IF pap_due /\ uni.pap_packets < PreSuppression
                  THEN uni.pap_packets + 1 ELSE uni.pap_packets
<1>1. /\ result.universe = [uni EXCEPT !.level_packets = l, !.pap_packets = p]
      /\ result.finished = FALSE
      /\ result.packets = Packets("levels", uni.level_seq, levels_to)
                            \cup Packets("pap", pap_seq, pap_to)
  BY DEF Transmit
<1>2. l \in 0..PreSuppression /\ p \in 0..PreSuppression
  BY SourceAssumption DEF SourceUniverse
<1> HIDE DEF result, l, p, levels_to, pap_to
<1>3. SameStream(uni, result.universe)
  BY <1>1, <1>2 DEF SameStream, SourceUniverse
<1>4. (\E q \in result.packets : q.kind = "levels") <=> levels_to # {}
  BY <1>1, PacketsOf
<1>5. \A q \in result.packets :
        \/ q.kind = "levels" /\ q.seq = uni.level_seq
        \/ q.kind = "pap" /\ q.seq = pap_seq
  BY <1>1, PacketsOf
<1> QED
  BY <1>1, <1>3, <1>4, <1>5 DEF result, IsTransmission

\* process_multicast_termination leaves the data and numbers of the universe
\* alone.
LEMMA MulticastStream ==
    ASSUME NEW uni \in SourceUniverse, NEW failing, NEW unicast_terminating
    PROVE  LET result == MulticastTermination(uni, failing, unicast_terminating)
           IN  /\ SameStream(uni, result.universe)
               /\ \A p \in result.packets : p.kind = "term" /\ p.seq = uni.level_seq
<1> DEFINE result == MulticastTermination(uni, failing, unicast_terminating)
           due == /\ uni.num_terminations_sent < TerminationsRequired
                  /\ uni.has_level_data
           n == IF due THEN uni.num_terminations_sent + 1
                ELSE uni.num_terminations_sent
<1>1. result.universe = [uni EXCEPT !.num_terminations_sent = n]
  BY DEF MulticastTermination, TerminationTried, SourceUniverse
<1>2. n \in 0..TerminationsRequired
  BY SourceAssumption DEF SourceUniverse
<1>3. \A p \in result.packets : p.kind = "term" /\ p.seq = uni.level_seq
  BY DEF MulticastTermination, Packets
<1> HIDE DEF result, n
<1>4. SameStream(uni, result.universe)
  BY <1>1, <1>2 DEF SameStream, SourceUniverse
<1> QED
  BY <1>3, <1>4 DEF result

\* A pass keeps the universe in sequence, and takes it off universe discovery
\* if it resets it.
LEMMA ProcessUniverseStream ==
    ASSUME NEW uni \in SourceUniverse, NEW dests, NEW mode,
           NEW all_sends_succeeded \in BOOLEAN, NEW expired, NEW fail,
           NEW w \in Wire, InSequence(uni, w), PapFits(uni)
    PROVE  LET result == ProcessUniverse(uni, dests, mode, all_sends_succeeded,
                                         expired, fail)
               reset == result.finished /\ uni.termination_state = "keeping"
               after == WireAfter(w, result.packets, result.ended)
           IN  /\ result.universe \in SourceUniverse
               /\ after \in Wire
               /\ InSequence(result.universe, after)
               /\ PapFits(result.universe)
               /\ result.universe.netints = uni.netints
               /\ IsPartOfDiscovery(result.universe)
                    <=> IsPartOfDiscovery(uni) /\ ~reset
               /\ result.finished => uni.termination_state # "not"
<1> DEFINE unicast == IF mode = "pap"
                        THEN NoUnicastTermination(dests, all_sends_succeeded)
                        ELSE UnicastTermination(uni, dests, fail["term"])
           result ==
             IF ~unicast.ok THEN Untouched(uni, FALSE)
             ELSE IF uni.termination_state = "not"
               THEN Transmit(uni, unicast.dests, mode, expired, fail,
                             unicast.packets # {})
             ELSE IF mode = "pap" THEN Untouched(uni, TRUE)
             ELSE MulticastTermination(uni, fail["term"], unicast.terminating)
           packets == unicast.packets \cup result.packets
           ended == unicast.ended \cup result.ended
           reset == result.finished /\ uni.termination_state = "keeping"
           left == IF reset THEN ResetUniverse(result.universe) ELSE result.universe
           r == ProcessUniverse(uni, dests, mode, all_sends_succeeded, expired, fail)
<1>1. /\ r.universe = IncrementSequenceNumber(left, packets)
      /\ r.finished = result.finished
      /\ r.packets = packets
      /\ r.ended = ended
  BY Zenon DEF ProcessUniverse, Outcome, AfterUnicast, IsReset
<1>2. \A p \in unicast.packets : p.kind = "term" /\ p.seq = uni.level_seq
  BY UnicastPackets DEF NoUnicastTermination
<1> HIDE DEF unicast, r
<1>3. SameStream(uni, uni)
  BY DEF SameStream
<1>4. /\ SameStream(uni, result.universe)
      /\ Numbered(packets, w.expected)
      /\ result.finished => uni.termination_state # "not"
  <2>1. CASE ~unicast.ok
    <3>1. result = Untouched(uni, FALSE)
      BY <2>1
    <3> QED
      BY <1>2, <1>3, <3>1 DEF Untouched, Numbered, InSequence, FirstKinds
  <2>2. CASE unicast.ok /\ uni.termination_state = "not"
    <3> DEFINE sent == unicast.packets # {}
               levels == \E p \in result.packets : p.kind = "levels"
    <3>1. IsTransmission(uni, sent, result)
      BY <2>2, TransmitStream, sent \in BOOLEAN
    <3>2. /\ SameStream(uni, result.universe)
          /\ result.finished = FALSE
          /\ \A p \in result.packets : p.kind \in {"levels", "pap"}
          /\ \A p \in result.packets : p.kind = "levels" => p.seq = uni.level_seq
          /\ \A p \in result.packets : p.kind = "pap" =>
               p.seq = IF sent \/ levels THEN (uni.next_seq_num + 1) % SeqSize
                       ELSE uni.pap_seq
      BY <3>1 DEF IsTransmission
    <3> HIDE DEF result
    <3>3. SentFirst(packets) <=> sent \/ levels
      BY <1>2, <3>2 DEF SentFirst, FirstKinds
    <3>4. Numbered(packets, w.expected)
      BY <1>2, <3>2, <3>3 DEF Numbered, InSequence, FirstKinds
    <3> QED
      BY <3>2, <3>4
  <2>3. CASE unicast.ok /\ uni.termination_state # "not" /\ mode = "pap"
    <3>1. result = Untouched(uni, TRUE)
      BY <2>3
    <3> QED
      BY <1>2, <1>3, <2>3, <3>1 DEF Untouched, Numbered, InSequence, FirstKinds
  <2>4. CASE unicast.ok /\ uni.termination_state # "not" /\ mode # "pap"
    <3> DEFINE ended_one == MulticastTermination(uni, fail["term"], unicast.terminating)
    <3>1. result = ended_one
      BY <2>4
    <3>2. /\ SameStream(uni, ended_one.universe)
          /\ \A p \in ended_one.packets : p.kind = "term" /\ p.seq = uni.level_seq
      BY MulticastStream
    <3> HIDE DEF result, ended_one
    <3>3. /\ SameStream(uni, result.universe)
          /\ \A p \in result.packets : p.kind = "term" /\ p.seq = uni.level_seq
      BY <3>1, <3>2
    <3>4. Numbered(packets, w.expected)
      BY <1>2, <3>3 DEF Numbered, InSequence, FirstKinds
    <3> QED
      BY <2>4, <3>3, <3>4
  <2> QED
    BY <2>1, <2>2, <2>3, <2>4
<1> HIDE DEF result, packets, ended
<1>5. /\ left \in SourceUniverse
      /\ InSequence(left, w)
      /\ PapFits(left)
      /\ left.netints = uni.netints
      /\ IsPartOfDiscovery(left) <=> IsPartOfDiscovery(uni) /\ ~reset
  <2>1. CASE reset
    <3>1. left = [result.universe EXCEPT
                    !.termination_state = "not", !.num_terminations_sent = 0,
                    !.has_level_data = FALSE, !.has_pap_data = FALSE]
      BY <2>1 DEF ResetUniverse
    <3>2. 0 \in 0..TerminationsRequired
      BY SourceAssumption
    <3> HIDE DEF left
    <3>3. left \in SourceUniverse
      BY <1>4, <3>1, <3>2 DEF SameStream, SourceUniverse, TerminationState
    <3>4. InSequence(left, w) /\ left.netints = uni.netints
      BY <1>4, <3>1 DEF SameStream, SourceUniverse, InSequence
    <3>5. ~left.has_level_data /\ ~left.has_pap_data
      BY <1>4, <3>1 DEF SameStream, SourceUniverse
    <3> QED
      BY <2>1, <3>3, <3>4, <3>5 DEF PapFits, IsPartOfDiscovery
  <2>2. CASE ~reset
    BY <1>4, <2>2 DEF SameStream, InSequence, PapFits, IsPartOfDiscovery
  <2> QED
    BY <2>1, <2>2
<1> HIDE DEF left
<1>6. /\ IncrementSequenceNumber(left, packets) \in SourceUniverse
      /\ \E n \in 0..(SeqSize - 1) :
           IncrementSequenceNumber(left, packets) =
             [left EXCEPT !.next_seq_num = n, !.level_seq = n, !.pap_seq = n]
      /\ InSequence(IncrementSequenceNumber(left, packets),
                    WireAfter(w, packets, ended))
  <2>1. left \in SourceUniverse /\ InSequence(left, w) /\ Numbered(packets, w.expected)
    BY <1>4, <1>5
  <2> QED
    BY Zenon, <2>1, IncrementKeepsUp
<1>7. /\ r.universe \in SourceUniverse
      /\ InSequence(r.universe, WireAfter(w, packets, ended))
  BY <1>1, <1>6
<1>8. /\ PapFits(r.universe)
      /\ r.universe.netints = left.netints
      /\ IsPartOfDiscovery(r.universe) <=> IsPartOfDiscovery(left)
  <2>1. PICK n \in 0..(SeqSize - 1) :
          r.universe = [left EXCEPT !.next_seq_num = n, !.level_seq = n,
                                    !.pap_seq = n]
    BY <1>1, <1>6
  <2> QED
    BY <1>5, <2>1 DEF SourceUniverse, PapFits, IsPartOfDiscovery
<1>9. WireAfter(w, packets, ended) \in Wire
  BY <1>4, WireAfterNumbered DEF InSequence
<1> QED
  BY <1>1, <1>4, <1>5, <1>7, <1>8, <1>9 DEF r

-----------------------------------------------------------------------------
(***************************************************************************)
(* The counters.                                                           *)
(***************************************************************************)

\* The tracked universes are finitely many.
LEMMA FiniteTable ==
    ASSUME NEW D, D \subseteq Universes
    PROVE  IsFiniteSet(D)
  BY SourceAssumption, FS_Subset

\* Universes with the same interfaces give the same reference counts.
LEMMA RefsSame ==
    ASSUME NEW old, NEW new, NEW S,
           \A u \in S : new[u].netints = old[u].netints
    PROVE  RefsOf(new, S) = RefsOf(old, S)
<1>1. \A n \in Netints : {u \in S : n \in new[u].netints} = {u \in S : n \in old[u].netints}
  OBVIOUS
<1> QED
  BY <1>1 DEF RefsOf

\* Removing the references of the universes of S leaves those of the others.
LEMMA RefsWithout ==
    ASSUME NEW unis, NEW D, NEW S, D \subseteq Universes, S \subseteq D
    PROVE  WithoutRefs(RefsOf(unis, D), unis, S) = RefsOf(unis, D \ S)
<1> DEFINE Users(n, T) == {u \in T : n \in unis[u].netints}
           refs == RefsOf(unis, D)
<1>1. \A n \in Netints : refs[n] = Cardinality(Users(n, D))
  BY DEF RefsOf
<1>2. ASSUME NEW n \in Netints
      PROVE  /\ Cardinality(Users(n, D)) \in Nat
             /\ Cardinality(Users(n, S)) \in Nat
             /\ Cardinality(Users(n, S)) <= Cardinality(Users(n, D))
             /\ Cardinality(Users(n, D \ S)) =
                  Cardinality(Users(n, D)) - Cardinality(Users(n, S))
  <2>1. IsFiniteSet(Users(n, D)) /\ IsFiniteSet(Users(n, S))
    <3>1. Users(n, D) \subseteq Universes /\ Users(n, S) \subseteq Universes
      OBVIOUS
    <3> QED
      BY <3>1, FiniteTable
  <2>2. Users(n, D \ S) = Users(n, D) \ Users(n, S)
    OBVIOUS
  <2>3. Users(n, S) \subseteq Users(n, D) /\ Users(n, D) \cap Users(n, S) = Users(n, S)
    OBVIOUS
  <2> HIDE DEF Users
  <2>4. Cardinality(Users(n, D) \ Users(n, S)) =
          Cardinality(Users(n, D)) - Cardinality(Users(n, D) \cap Users(n, S))
    BY <2>1, FS_Difference
  <2>5. Cardinality(Users(n, S)) <= Cardinality(Users(n, D))
    BY <2>1, <2>3, FS_Subset
  <2> QED
    BY <2>1, <2>2, <2>3, <2>4, <2>5, FS_CardinalityType
<1>3. WithoutRefs(refs, unis, S) =
        [n \in Netints |-> IF refs[n] >= Cardinality(Users(n, S))
                             THEN refs[n] - Cardinality(Users(n, S)) ELSE 0]
  BY DEF WithoutRefs
<1>4. RefsOf(unis, D \ S) = [n \in Netints |-> Cardinality(Users(n, D \ S))]
  BY DEF RefsOf
<1> HIDE DEF Users, refs
<1>5. \A n \in Netints :
        (IF refs[n] >= Cardinality(Users(n, S))
           THEN refs[n] - Cardinality(Users(n, S)) ELSE 0)
          = Cardinality(Users(n, D \ S))
  BY <1>1, <1>2
<1> QED
  BY <1>3, <1>4, <1>5 DEF refs

\* A universe u with the interfaces ints is added.
LEMMA RefsAdded ==
    ASSUME NEW old, NEW new, NEW D, NEW u, NEW ints \in SUBSET Netints,
           D \subseteq Universes, u \in Universes \ D,
           new[u].netints = ints,
           \A v \in D : new[v].netints = old[v].netints
    PROVE  RefsOf(new, D \cup {u}) =
             [n \in Netints |-> RefsOf(old, D)[n] + (IF n \in ints THEN 1 ELSE 0)]
<1> SUFFICES ASSUME NEW n \in Netints
             PROVE  Cardinality({v \in D \cup {u} : n \in new[v].netints}) =
                      Cardinality({v \in D : n \in old[v].netints})
                        + (IF n \in ints THEN 1 ELSE 0)
  BY DEF RefsOf
<1> DEFINE Users == {v \in D : n \in old[v].netints}
<1>1. {v \in D \cup {u} : n \in new[v].netints} =
        IF n \in ints THEN Users \cup {u} ELSE Users
  OBVIOUS
<1>2. u \notin Users
  OBVIOUS
<1>3. IsFiniteSet(Users)
  <2>1. Users \subseteq Universes
    OBVIOUS
  <2> QED
    BY <2>1, FiniteTable
<1> HIDE DEF Users
<1>4. Cardinality(Users \cup {u}) = Cardinality(Users) + 1
  BY <1>2, <1>3, FS_AddElement
<1>5. Cardinality(Users) \in Nat
  BY <1>3, FS_CardinalityType
<1>6. Cardinality({v \in D \cup {u} : n \in new[v].netints}) =
        Cardinality(Users) + (IF n \in ints THEN 1 ELSE 0)
  <2>1. CASE n \in ints
    BY <1>1, <1>4, <2>1
  <2>2. CASE n \notin ints
    <3>1. Cardinality({v \in D \cup {u} : n \in new[v].netints}) = Cardinality(Users)
      BY Zenon, <1>1, <2>2
    <3> QED
      BY <1>5, <2>2, <3>1
  <2> QED
    BY <2>1, <2>2
<1> QED
  BY <1>6 DEF Users

-----------------------------------------------------------------------------
(***************************************************************************)
(* The calls that change one universe.                                     *)
(***************************************************************************)

\* A call replaces the tracked universe u by uni, which stays on the list of
\* universe discovery if it was there.
LEMMA UpdateKeeps ==
    ASSUME IInv, NEW u \in Tracked, NEW uni \in SourceUniverse, NEW dests,
           Update(u, uni, dests),
           IsHistory(wire'),
           \A v \in Universes \ {u} : wire'[v] = wire[v],
           InSequence(uni, wire'[u]),
           PapFits(uni),
           uni.netints = universes[u].netints,
           IsPartOfDiscovery(universes[u]) => IsPartOfDiscovery(uni),
           num_active_universes' = num_active_universes
             + (IF IsPartOfDiscovery(uni) /\ ~IsPartOfDiscovery(universes[u])
                  THEN 1 ELSE 0)
    PROVE  IInv'
<1>1. /\ universes' = [universes EXCEPT ![u] = uni]
      /\ netint_refs' = netint_refs
  BY DEF Update
<1>2. /\ Tracked \subseteq Universes
      /\ universes \in [Tracked -> SourceUniverse]
      /\ Tracked' = Tracked
      /\ universes'[u] = uni
      /\ \A v \in Tracked \ {u} : universes'[v] = universes[v]
      /\ universes' \in [Tracked -> SourceUniverse]
  BY <1>1 DEF IInv, Fits, Tracked
<1>3. Fits(universes', wire')
  <2>1. \A v \in Tracked : InSequence(universes'[v], wire'[v]) /\ PapFits(universes'[v])
    BY <1>2 DEF IInv, Fits, Tracked
  <2> QED
    BY <1>2, <2>1 DEF Fits, Tracked
<1>4. num_active_universes' = Cardinality(Active(universes'))
  <2>1. Active(universes) \subseteq Universes
    BY <1>2 DEF Active, Tracked
  <2>2. IsFiniteSet(Active(universes)) /\ Cardinality(Active(universes)) \in Nat
    BY <2>1, FiniteTable, FS_CardinalityType
  <2>3. CASE IsPartOfDiscovery(uni) /\ ~IsPartOfDiscovery(universes[u])
    <3>1. Active(universes') = Active(universes) \cup {u} /\ u \notin Active(universes)
      BY <1>2, <2>3 DEF Active, Tracked
    <3>2. Cardinality(Active(universes')) = Cardinality(Active(universes)) + 1
      BY <2>2, <3>1, FS_AddElement
    <3> QED
      BY <2>3, <3>2 DEF IInv
  <2>4. CASE ~(IsPartOfDiscovery(uni) /\ ~IsPartOfDiscovery(universes[u]))
    <3>1. Active(universes') = Active(universes)
      BY <1>2, <2>4 DEF Active, Tracked
    <3> QED
      BY <2>2, <2>4, <3>1 DEF IInv
  <2> QED
    BY <2>3, <2>4
<1>5. netint_refs' = RefsOf(universes', Tracked')
  <2>1. \A v \in Tracked : universes'[v].netints = universes[v].netints
    BY <1>2
  <2>2. RefsOf(universes', Tracked) = RefsOf(universes, Tracked)
    BY <2>1, RefsSame
  <2> QED
    BY <1>1, <1>2, <2>2 DEF IInv
<1> QED
  BY <1>3, <1>4, <1>5 DEF IInv

\* A universe that differs from uni in its termination, data and suppression only.
SameNumbers(uni, new) ==
    /\ new \in SourceUniverse
    /\ new.next_seq_num = uni.next_seq_num
    /\ new.level_seq = uni.level_seq
    /\ new.pap_seq = uni.pap_seq
    /\ new.netints = uni.netints
    /\ new.send_unicast_only = uni.send_unicast_only

SameData(uni, new) ==
    new.has_level_data = uni.has_level_data /\ new.has_pap_data = uni.has_pap_data

\* What the invariant says of a tracked universe.
LEMMA Holds ==
    ASSUME IInv, NEW u \in Tracked
    PROVE  /\ u \in Universes
           /\ universes[u] \in SourceUniverse
           /\ wire[u] \in Wire
           /\ InSequence(universes[u], wire[u])
           /\ PapFits(universes[u])
           /\ IsHistory(wire)
           /\ num_active_universes \in Nat
<1>1. Active(universes) \subseteq Universes
  BY DEF IInv, Fits, Active
<1>2. num_active_universes \in Nat
  BY <1>1, FiniteTable, FS_CardinalityType DEF IInv
<1> QED
  BY <1>2 DEF IInv, Fits, IsHistory, Tracked

\* A call that sends nothing.
LEMMA UpdateKeepsQuietly ==
    ASSUME IInv, NEW u \in Tracked, NEW uni, NEW dests,
           Update(u, uni, dests), UNCHANGED wire,
           SameNumbers(universes[u], uni), PapFits(uni),
           IsPartOfDiscovery(universes[u]) => IsPartOfDiscovery(uni),
           num_active_universes' = num_active_universes
             + (IF IsPartOfDiscovery(uni) /\ ~IsPartOfDiscovery(universes[u])
                  THEN 1 ELSE 0)
    PROVE  IInv'
<1>1. /\ uni \in SourceUniverse
      /\ InSequence(uni, wire'[u])
      /\ uni.netints = universes[u].netints
      /\ IsHistory(wire')
  BY Holds DEF SameNumbers, InSequence
<1> QED
  BY <1>1, UpdateKeeps

\* A call that sends nothing and leaves the levels alone.
LEMMA UpdateKeepsData ==
    ASSUME IInv, NEW u \in Tracked, NEW uni, NEW dests,
           Update(u, uni, dests), UNCHANGED <<num_active_universes, wire>>,
           SameNumbers(universes[u], uni), PapFits(uni),
           uni.has_level_data = universes[u].has_level_data
    PROVE  IInv'
<1>1. IsPartOfDiscovery(universes[u]) <=> IsPartOfDiscovery(uni)
  BY DEF IsPartOfDiscovery, SameNumbers
<1>2. num_active_universes' = num_active_universes
        + (IF IsPartOfDiscovery(uni) /\ ~IsPartOfDiscovery(universes[u])
             THEN 1 ELSE 0)
  BY <1>1, Holds
<1> QED
  BY <1>1, <1>2, UpdateKeepsQuietly

\* set_universe_terminating changes the termination only.
LEMMA SetTerminatingData ==
    ASSUME NEW uni \in SourceUniverse, NEW behavior \in {"keeping", "removing"}
    PROVE  LET new == SetTerminating(uni, behavior)
           IN  /\ SameNumbers(uni, new)
               /\ SameData(uni, new)
               /\ new.termination_state =
                    IF uni.termination_state = "removing" THEN "removing" ELSE behavior
<1> DEFINE n == IF uni.termination_state = "not" THEN 0
                ELSE uni.num_terminations_sent
           state == IF uni.termination_state = "removing"
                      THEN uni.termination_state ELSE behavior
           new == [uni EXCEPT !.num_terminations_sent = n, !.termination_state = state]
<1>1. n \in 0..TerminationsRequired /\ state \in TerminationState
  BY SourceAssumption DEF SourceUniverse, TerminationState
<1>2. SetTerminating(uni, behavior) = new
  BY DEF SetTerminating
<1>3. state = IF uni.termination_state = "removing" THEN "removing" ELSE behavior
  OBVIOUS
<1> HIDE DEF n, state
<1>4. SameNumbers(uni, new) /\ SameData(uni, new) /\ new.termination_state = state
  BY <1>1 DEF SourceUniverse, SameNumbers, SameData
<1> QED
  BY <1>2, <1>3, <1>4

\* reset_transmission_suppression changes the suppression only.
LEMMA ResetSuppressionData ==
    ASSUME NEW uni \in SourceUniverse
    PROVE  LET new == ResetSuppression(uni)
           IN  /\ SameNumbers(uni, new)
               /\ SameData(uni, new)
               /\ new.termination_state = uni.termination_state
<1>1. 0 \in 0..PreSuppression
  BY SourceAssumption
<1> QED
  BY <1>1 DEF ResetSuppression, SourceUniverse, SameNumbers, SameData

\* update_levels cancels a termination that does not remove the universe.
LEMMA WithLevelsData ==
    ASSUME NEW uni \in SourceUniverse
    PROVE  LET new == WithLevels(uni)
           IN  /\ SameNumbers(uni, new)
               /\ new.has_level_data
               /\ new.termination_state # "keeping"
<1>1. 0 \in 0..PreSuppression /\ 0 \in 0..TerminationsRequired
  BY SourceAssumption
<1>2. /\ SameNumbers(uni, CancelTermination(uni))
      /\ CancelTermination(uni).termination_state # "keeping"
  <2>1. CASE uni.termination_state = "keeping"
    BY <1>1, <2>1 DEF CancelTermination, SourceUniverse, SameNumbers, TerminationState
  <2>2. CASE uni.termination_state # "keeping"
    BY <2>2 DEF CancelTermination, SameNumbers
  <2> QED
    BY <2>1, <2>2
<1>3. WithLevels(uni) =
        [CancelTermination(uni) EXCEPT !.has_level_data = TRUE, !.level_packets = 0]
  BY DEF WithLevels
<1> QED
  BY <1>1, <1>2, <1>3 DEF SourceUniverse, SameNumbers

\* sacn_source_remove_universe keeps the invariant.
LEMMA RemoveUniverseKeeps ==
    ASSUME IInv, NEW u, RemoveUniverse(u)
    PROVE  IInv'
<1> DEFINE new == SetTerminating(universes[u], "removing")
<1>1. u \in Tracked /\ universes[u].termination_state # "removing"
  BY DEF RemoveUniverse, IsFound
<1>2. /\ Update(u, new, SetDestsTerminating(unicast_dests[u], "removing"))
      /\ UNCHANGED <<num_active_universes, wire>>
  BY DEF RemoveUniverse
<1>3. /\ SameNumbers(universes[u], new)
      /\ SameData(universes[u], new)
      /\ new.termination_state = "removing"
  BY <1>1, Holds, SetTerminatingData
<1> HIDE DEF new
<1>4. PapFits(new)
  BY <1>1, <1>3, Holds DEF PapFits, SameData
<1> QED
  BY <1>1, <1>2, <1>3, <1>4, UpdateKeepsData DEF SameData

\* sacn_source_add_unicast_destination keeps the invariant.
LEMMA AddUnicastDestinationKeeps ==
    ASSUME IInv, NEW u, NEW addr \in Addresses, AddUnicastDestination(u, addr)
    PROVE  IInv'
<1> DEFINE new == ResetSuppression(universes[u])
<1>1. u \in Tracked
  BY DEF AddUnicastDestination, IsFound
<1>2. PICK dests :
        /\ Update(u, new, dests)
        /\ wire' = IF universes[u].termination_state = "keeping"
                     THEN [wire EXCEPT ![u].owed[addr] = 0] ELSE wire
        /\ num_active_universes' = num_active_universes
  BY DEF AddUnicastDestination
<1>3. SameNumbers(universes[u], new) /\ SameData(universes[u], new)
      /\ new.termination_state = universes[u].termination_state
  BY <1>1, Holds, ResetSuppressionData
<1> HIDE DEF new
<1>4. PapFits(new)
  BY <1>1, <1>3, Holds DEF PapFits, SameData
<1>5. /\ IsHistory(wire')
      /\ wire'[u].in_order
      /\ wire'[u].expected = wire[u].expected
      /\ \A v \in Universes \ {u} : wire'[v] = wire[v]
  <2> DEFINE owed == [wire[u].owed EXCEPT ![addr] = 0]
             forgotten == [wire[u] EXCEPT !.owed = owed]
  <2>1. /\ wire \in [Universes -> Wire] /\ u \in Universes /\ wire[u] \in Wire
        /\ wire[u].in_order
    BY <1>1, Holds DEF IsHistory, InSequence
  <2>2. forgotten \in Wire /\ forgotten.in_order /\ forgotten.expected = wire[u].expected
    <3>1. owed \in [Targets -> 0..TerminationsRequired]
      <4>1. 0 \in 0..TerminationsRequired
        BY SourceAssumption
      <4>2. wire[u].owed \in [Targets -> 0..TerminationsRequired]
        BY <2>1 DEF Wire
      <4>3. \A f \in [Targets -> 0..TerminationsRequired] :
              [f EXCEPT ![addr] = 0] \in [Targets -> 0..TerminationsRequired]
        BY <4>1
      <4> QED
        BY <4>2, <4>3
    <3> HIDE DEF owed
    <3> QED
      BY <2>1, <3>1 DEF Wire
  <2>3. CASE universes[u].termination_state = "keeping"
    <3>1. wire' = [wire EXCEPT ![u] = forgotten]
      BY <1>2, <2>3
    <3> HIDE DEF forgotten
    <3> QED
      BY <2>1, <2>2, <3>1, Holds, <1>1 DEF IsHistory
  <2>4. CASE universes[u].termination_state # "keeping"
    BY <1>1, <1>2, <2>4, Holds DEF IsHistory, InSequence
  <2> QED
    BY <2>3, <2>4
<1>6. InSequence(new, wire'[u]) /\ new.netints = universes[u].netints
      /\ new \in SourceUniverse
  BY <1>1, <1>3, <1>5, Holds DEF InSequence, SameNumbers
<1>7. IsPartOfDiscovery(universes[u]) <=> IsPartOfDiscovery(new)
  BY <1>3 DEF IsPartOfDiscovery, SameNumbers, SameData
<1>8. num_active_universes' = num_active_universes
        + (IF IsPartOfDiscovery(new) /\ ~IsPartOfDiscovery(universes[u])
             THEN 1 ELSE 0)
  BY <1>1, <1>2, <1>7, Holds
<1> QED
  BY <1>1, <1>2, <1>4, <1>5, <1>6, <1>7, <1>8, UpdateKeeps

\* sacn_source_remove_unicast_destination keeps the invariant.
LEMMA RemoveUnicastDestinationKeeps ==
    ASSUME IInv, NEW u, NEW addr, RemoveUnicastDestination(u, addr)
    PROVE  IInv'
<1>1. u \in Tracked
  BY DEF RemoveUnicastDestination, IsFound
<1>2. PICK dests : Update(u, universes[u], dests)
  BY DEF RemoveUnicastDestination
<1>3. UNCHANGED <<num_active_universes, wire>>
  BY DEF RemoveUnicastDestination
<1>4. SameNumbers(universes[u], universes[u]) /\ PapFits(universes[u])
  BY <1>1, Holds DEF SameNumbers
<1> QED
  BY <1>1, <1>2, <1>3, <1>4, UpdateKeepsData

\* New levels on top of a universe in the same sequence keep the invariant.
LEMMA SetLevelsKeeps ==
    ASSUME IInv, NEW u, NEW uni \in SourceUniverse, SameNumbers(universes[u], uni),
           SetLevels(u, WithLevels(uni))
    PROVE  IInv'
<1> DEFINE new == WithLevels(uni)
<1>1. u \in Tracked
  BY DEF SetLevels, IsFound
<1>2. /\ Update(u, new, CancelDests(universes[u], unicast_dests[u]))
      /\ num_active_universes' = num_active_universes
           + (IF IsPartOfDiscovery(new) /\ ~IsPartOfDiscovery(universes[u])
                THEN 1 ELSE 0)
      /\ UNCHANGED wire
  BY DEF SetLevels
<1>3. /\ SameNumbers(uni, new)
      /\ new.has_level_data
      /\ new.termination_state # "keeping"
  BY WithLevelsData
<1> HIDE DEF new
<1>4. SameNumbers(universes[u], new)
  BY <1>3 DEF SameNumbers
<1>5. PapFits(new) /\ (IsPartOfDiscovery(universes[u]) => IsPartOfDiscovery(new))
  BY <1>3, <1>4 DEF PapFits, IsPartOfDiscovery, SameNumbers
<1> QED
  BY <1>1, <1>2, <1>3, <1>4, <1>5, UpdateKeepsQuietly

\* sacn_source_update_levels keeps the invariant.
LEMMA UpdateLevelsKeeps ==
    ASSUME IInv, NEW u, UpdateLevels(u)
    PROVE  IInv'
<1>1. u \in Tracked
  BY DEF UpdateLevels, SetLevels, IsFound
<1>2. universes[u] \in SourceUniverse /\ SameNumbers(universes[u], universes[u])
  BY <1>1, Holds DEF SameNumbers
<1> QED
  BY <1>2, SetLevelsKeeps DEF UpdateLevels

\* sacn_source_update_levels_and_pap keeps the invariant.
LEMMA UpdateLevelsAndPapKeeps ==
    ASSUME IInv, NEW u, NEW pap \in BOOLEAN, UpdateLevelsAndPap(u, pap)
    PROVE  IInv'
<1> DEFINE uni == IF pap THEN WithPap(universes[u]) ELSE WithoutPap(universes[u])
<1>1. u \in Tracked
  BY DEF UpdateLevelsAndPap, SetLevels, IsFound
<1>2. universes[u] \in SourceUniverse
  BY <1>1, Holds
<1>3. uni \in SourceUniverse /\ SameNumbers(universes[u], uni)
  <2>1. 0 \in 0..PreSuppression
    BY SourceAssumption
  <2> QED
    BY <1>2, <2>1 DEF WithPap, WithoutPap, SourceUniverse, SameNumbers
<1>4. SetLevels(u, WithLevels(uni))
  BY DEF UpdateLevelsAndPap, WithLevelsAndPap
<1> HIDE DEF uni
<1> QED
  BY <1>3, <1>4, SetLevelsKeeps

\* An update without levels keeps the invariant.
LEMMA EndLevelsKeeps ==
    ASSUME IInv, NEW u, EndLevels(u)
    PROVE  IInv'
<1> DEFINE ending == SetTerminating(universes[u], "keeping")
           new == WithoutPap(ending)
<1>1. u \in Tracked
  BY DEF EndLevels, IsFound
<1>2. /\ Update(u, new, SetDestsTerminating(unicast_dests[u], "keeping"))
      /\ UNCHANGED <<num_active_universes, wire>>
  BY DEF EndLevels
<1>3. SameNumbers(universes[u], ending) /\ SameData(universes[u], ending)
  BY <1>1, Holds, SetTerminatingData
<1> HIDE DEF ending
<1>4. /\ SameNumbers(universes[u], new)
      /\ new.has_level_data = universes[u].has_level_data
      /\ ~new.has_pap_data
  BY <1>3 DEF WithoutPap, SameNumbers, SameData, SourceUniverse
<1> HIDE DEF new
<1>5. PapFits(new)
  BY <1>4 DEF PapFits
<1> QED
  BY <1>1, <1>2, <1>4, <1>5, UpdateKeepsData

\* A change of priority or preview flag keeps the invariant.
LEMMA ChangeSettingsKeeps ==
    ASSUME IInv, NEW u, ChangeSettings(u)
    PROVE  IInv'
<1> DEFINE new == ResetSuppression(universes[u])
<1>1. u \in Tracked
  BY DEF ChangeSettings, IsFound
<1>2. /\ Update(u, new, unicast_dests[u])
      /\ UNCHANGED <<num_active_universes, wire>>
  BY DEF ChangeSettings
<1>3. SameNumbers(universes[u], new) /\ SameData(universes[u], new)
      /\ new.termination_state = universes[u].termination_state
  BY <1>1, Holds, ResetSuppressionData
<1> HIDE DEF new
<1>4. PapFits(new)
  BY <1>1, <1>3, Holds DEF PapFits, SameData
<1> QED
  BY <1>1, <1>2, <1>3, <1>4, UpdateKeepsData DEF SameData

\* sacn_source_send_now keeps the invariant.
LEMMA SendNowKeeps ==
    ASSUME IInv, NEW u, NEW failing, SendNow(u, failing)
    PROVE  IInv'
<1> DEFINE uni == universes[u]
           to == (Multicast(uni) \cup Unicast(unicast_dests[u])) \ failing
           packets == Packets("other", uni.next_seq_num, to)
           new == IncrementSequenceNumber(uni, packets)
           after == WireAfter(wire[u], packets, {})
<1>1. u \in Tracked
  BY DEF SendNow, IsFound
<1>2. /\ Update(u, new, unicast_dests[u])
      /\ wire' = [wire EXCEPT ![u] = after]
      /\ UNCHANGED num_active_universes
  BY DEF SendNow
<1>3. /\ u \in Universes /\ uni \in SourceUniverse /\ wire[u] \in Wire
      /\ InSequence(uni, wire[u]) /\ PapFits(uni) /\ IsHistory(wire)
      /\ num_active_universes \in Nat
  BY <1>1, Holds
<1> HIDE DEF uni, to
<1>4. \A p \in packets : p.kind = "other" /\ p.seq = uni.next_seq_num
  BY PacketsOf
<1> HIDE DEF packets
<1>5. Numbered(packets, wire[u].expected)
  BY <1>3, <1>4 DEF Numbered, FirstKinds, InSequence
<1>6. /\ new \in SourceUniverse
      /\ \E n \in 0..(SeqSize - 1) :
           new = [uni EXCEPT !.next_seq_num = n, !.level_seq = n, !.pap_seq = n]
      /\ InSequence(new, after)
  BY Zenon, <1>3, <1>5, IncrementKeepsUp
<1>7. after \in Wire /\ after.in_order
  BY <1>3, <1>5, WireAfterNumbered DEF InSequence
<1> HIDE DEF new, after
<1>8. /\ new.has_level_data = uni.has_level_data
      /\ new.has_pap_data = uni.has_pap_data
      /\ new.termination_state = uni.termination_state
      /\ new.send_unicast_only = uni.send_unicast_only
      /\ new.netints = uni.netints
  BY <1>3, <1>6 DEF SourceUniverse
<1>9. PapFits(new) /\ (IsPartOfDiscovery(new) <=> IsPartOfDiscovery(uni))
  BY <1>3, <1>8 DEF PapFits, IsPartOfDiscovery
<1>10. /\ IsHistory(wire') /\ wire'[u] = after
       /\ \A v \in Universes \ {u} : wire'[v] = wire[v]
  BY <1>2, <1>3, <1>7 DEF IsHistory
<1>11. num_active_universes' = num_active_universes
         + (IF IsPartOfDiscovery(new) /\ ~IsPartOfDiscovery(universes[u])
              THEN 1 ELSE 0)
  BY <1>2, <1>3, <1>9 DEF uni
<1> QED
  BY <1>1, <1>2, <1>6, <1>8, <1>9, <1>10, <1>11, UpdateKeeps DEF uni

-----------------------------------------------------------------------------
(***************************************************************************)
(* The calls and passes that change all universes.                         *)
(***************************************************************************)

\* The universes become new, which is tracked, with the same numbers and data.
LEMMA AllKeep ==
    ASSUME IInv, NEW new,
           DOMAIN new = Tracked,
           new \in [Tracked -> SourceUniverse],
           \A u \in Tracked :
             /\ InSequence(universes[u], wire[u]) => InSequence(new[u], wire[u])
             /\ SameData(universes[u], new[u])
             /\ new[u].send_unicast_only = universes[u].send_unicast_only
             /\ PapFits(new[u])
    PROVE  /\ Fits(new, wire)
           /\ num_active_universes = Cardinality(Active(new))
<1>1. Fits(new, wire)
  BY DEF IInv, Fits, Tracked
<1>2. Active(new) = Active(universes)
  BY DEF Active, IsPartOfDiscovery, SameData, Tracked
<1> QED
  BY <1>1, <1>2 DEF IInv

\* set_source_terminating gives universes that fit too.
LEMMA Terminating ==
    ASSUME IInv
    PROVE  LET unis == AllTerminating(universes)
           IN  /\ DOMAIN unis = Tracked
               /\ Fits(unis, wire)
               /\ num_active_universes = Cardinality(Active(unis))
               /\ netint_refs = RefsOf(unis, Tracked)
<1> DEFINE unis == AllTerminating(universes)
<1>1. DOMAIN unis = Tracked
      /\ \A u \in Tracked : unis[u] = SetTerminating(universes[u], "removing")
  BY DEF AllTerminating, Tracked
<1>2. unis = [u \in Tracked |-> unis[u]]
  BY DEF AllTerminating, Tracked
<1> HIDE DEF unis
<1>3. ASSUME NEW u \in Tracked
      PROVE  /\ SameNumbers(universes[u], unis[u])
             /\ SameData(universes[u], unis[u])
             /\ unis[u].termination_state = "removing"
  <2>1. LET new == SetTerminating(universes[u], "removing")
        IN  /\ SameNumbers(universes[u], new)
            /\ SameData(universes[u], new)
            /\ new.termination_state = "removing"
    BY Holds, SetTerminatingData
  <2> QED
    BY <1>1, <2>1
<1>4. unis \in [Tracked -> SourceUniverse]
  BY <1>1, <1>2, <1>3 DEF SameNumbers
<1>5. \A u \in Tracked :
        /\ InSequence(universes[u], wire[u]) => InSequence(unis[u], wire[u])
        /\ SameData(universes[u], unis[u])
        /\ unis[u].send_unicast_only = universes[u].send_unicast_only
        /\ PapFits(unis[u])
  BY <1>3, Holds DEF SameNumbers, SameData, InSequence, PapFits
<1>6. RefsOf(unis, Tracked) = RefsOf(universes, Tracked)
  BY <1>3, RefsSame DEF SameNumbers
<1>7. Fits(unis, wire) /\ num_active_universes = Cardinality(Active(unis))
  BY <1>1, <1>4, <1>5, AllKeep
<1> QED
  BY <1>1, <1>6, <1>7 DEF IInv, unis

\* sacn_source_destroy keeps the invariant.
LEMMA DestroySourceKeeps ==
    ASSUME IInv, DestroySource
    PROVE  IInv'
<1> DEFINE unis == AllTerminating(universes)
<1>1. /\ universes' = unis
      /\ UNCHANGED <<num_active_universes, netint_refs, wire>>
  BY DEF DestroySource
<1>2. /\ DOMAIN unis = Tracked
      /\ Fits(unis, wire)
      /\ num_active_universes = Cardinality(Active(unis))
      /\ netint_refs = RefsOf(unis, Tracked)
  BY Terminating
<1> HIDE DEF unis
<1> QED
  BY <1>1, <1>2 DEF IInv, Tracked

\* sacn_source_change_name keeps the invariant.
LEMMA ChangeNameKeeps ==
    ASSUME IInv, ChangeName
    PROVE  IInv'
<1> DEFINE unis == [u \in Tracked |-> ResetSuppression(universes[u])]
<1>1. /\ universes' = unis
      /\ UNCHANGED <<num_active_universes, netint_refs, wire>>
  BY DEF ChangeName, Renamed, Tracked
<1>2. ASSUME NEW u \in Tracked
      PROVE  /\ SameNumbers(universes[u], unis[u])
             /\ SameData(universes[u], unis[u])
             /\ unis[u].termination_state = universes[u].termination_state
  BY Holds, ResetSuppressionData
<1>3. DOMAIN unis = Tracked /\ unis \in [Tracked -> SourceUniverse]
  BY <1>2 DEF SameNumbers
<1> HIDE DEF unis
<1>4. \A u \in Tracked :
        /\ InSequence(universes[u], wire[u]) => InSequence(unis[u], wire[u])
        /\ SameData(universes[u], unis[u])
        /\ unis[u].send_unicast_only = universes[u].send_unicast_only
        /\ PapFits(unis[u])
  BY <1>2, Holds DEF SameNumbers, SameData, InSequence, PapFits
<1>5. RefsOf(unis, Tracked) = RefsOf(universes, Tracked)
  BY <1>2, RefsSame DEF SameNumbers
<1>6. Fits(unis, wire) /\ num_active_universes = Cardinality(Active(unis))
  BY <1>3, <1>4, AllKeep
<1> QED
  BY <1>1, <1>3, <1>5, <1>6 DEF IInv, Tracked

\* Forgetting targets leaves the numbers of the history alone.
LEMMA WireForHistory ==
    ASSUME NEW w \in Wire, NEW targets
    PROVE  /\ WireFor(w, targets) \in Wire
           /\ WireFor(w, targets).in_order = w.in_order
           /\ WireFor(w, targets).expected = w.expected
<1> DEFINE owed == [t \in Targets |-> IF t \in targets THEN w.owed[t] ELSE 0]
<1>1. owed \in [Targets -> 0..TerminationsRequired]
  BY SourceAssumption DEF Wire
<1>2. WireFor(w, targets) = [w EXCEPT !.owed = owed]
  BY DEF WireFor
<1> HIDE DEF owed
<1> QED
  BY <1>1, <1>2 DEF Wire

\* sacn_source_reset_networking keeps the invariant, for one source or universe
\* by universe.
LEMMA ResetNetworkingKeeps ==
    ASSUME IInv, NEW ints \in [Tracked -> SUBSET Netints], NEW all,
           ResetNetworking(ints, all)
    PROVE  IInv'
<1> DEFINE Keeps(u) == ~all /\ universes[u].termination_state = "removing"
           Reset(u) == [ResetSuppression(universes[u]) EXCEPT !.netints = ints[u]]
           unis == [u \in Tracked |-> IF Keeps(u) THEN universes[u] ELSE Reset(u)]
<1>1. /\ universes' = unis
      /\ netint_refs' = RefsOf(unis, Tracked)
      /\ wire' = [u \in Universes |->
           IF u \in Tracked
             THEN WireFor(wire[u], TargetsOf(unis[u], unicast_dests[u]))
             ELSE wire[u]]
      /\ UNCHANGED num_active_universes
  BY DEF ResetNetworking
<1>2. ASSUME NEW u \in Tracked
      PROVE  /\ unis[u] \in SourceUniverse
             /\ InSequence(universes[u], wire[u]) => InSequence(unis[u], wire[u])
             /\ SameData(universes[u], unis[u])
             /\ unis[u].send_unicast_only = universes[u].send_unicast_only
             /\ PapFits(unis[u])
  <2>1. CASE Keeps(u)
    <3>1. unis[u] = universes[u]
      BY <2>1
    <3> HIDE DEF unis
    <3> QED
      BY <3>1, Holds DEF SameData
  <2>2. CASE ~Keeps(u)
    <3>1. unis[u] = Reset(u)
      BY <2>2
    <3> DEFINE new == ResetSuppression(universes[u])
    <3>2. SameNumbers(universes[u], new) /\ SameData(universes[u], new)
          /\ new.termination_state = universes[u].termination_state
      BY Holds, ResetSuppressionData
    <3>3. unis[u] = [new EXCEPT !.netints = ints[u]] /\ ints[u] \in SUBSET Netints
      BY <3>1
    <3> HIDE DEF new, unis
    <3>4. /\ unis[u] \in SourceUniverse
          /\ unis[u].next_seq_num = universes[u].next_seq_num
          /\ unis[u].level_seq = universes[u].level_seq
          /\ unis[u].pap_seq = universes[u].pap_seq
          /\ SameData(universes[u], unis[u])
          /\ unis[u].send_unicast_only = universes[u].send_unicast_only
          /\ unis[u].termination_state = universes[u].termination_state
      BY <3>2, <3>3 DEF SourceUniverse, SameNumbers, SameData
    <3> QED
      BY <3>4, Holds DEF InSequence, PapFits, SameData
  <2> QED
    BY <2>1, <2>2
<1>3. DOMAIN unis = Tracked /\ unis \in [Tracked -> SourceUniverse]
  BY <1>2
<1> HIDE DEF unis
<1>4. Fits(unis, wire) /\ num_active_universes = Cardinality(Active(unis))
  BY <1>2, <1>3, AllKeep
<1>5. \A u \in Universes : /\ wire'[u] \in Wire
                           /\ wire'[u].in_order = wire[u].in_order
                           /\ wire'[u].expected = wire[u].expected
  BY <1>1, WireForHistory DEF IInv, IsHistory
<1>6. IsHistory(wire')
  BY <1>1, <1>5 DEF IInv, IsHistory
<1>7. Fits(unis, wire')
  BY <1>3, <1>4, <1>5 DEF Fits, InSequence
<1> QED
  BY <1>1, <1>3, <1>4, <1>6, <1>7 DEF IInv, Tracked

\* A new universe fits a new history.
LEMMA NewUniverseFits ==
    ASSUME NEW only \in BOOLEAN, NEW ints \in SUBSET Netints
    PROVE  LET new == NewUniverse(only, ints)
           IN  /\ new \in SourceUniverse
               /\ new.netints = ints
               /\ InSequence(new, Unused)
               /\ PapFits(new)
               /\ ~IsPartOfDiscovery(new)
<1>1. /\ 0 \in 0..(SeqSize - 1)
      /\ 0 \in 0..PreSuppression
      /\ 0 \in 0..TerminationsRequired
  BY SourceAssumption
<1> QED
  BY <1>1 DEF NewUniverse, SourceUniverse, TerminationState, InSequence, Unused,
              PapFits, IsPartOfDiscovery

\* A new history is one in order.
LEMMA UnusedIsWire == Unused \in Wire /\ Unused.in_order
<1>1. 0 \in 0..(SeqSize - 1) /\ 0 \in 0..TerminationsRequired
  BY SourceAssumption
<1> QED
  BY <1>1 DEF Unused, Wire

\* The table without an old universe u.
LEMMA OldIsGone ==
    ASSUME IInv, NEW u \in Universes, u \in Tracked => IsOld(u)
    PROVE  /\ ActiveWithout(u) = Cardinality(Active(universes) \ {u})
           /\ WithoutRefs(netint_refs, universes, {u} \cap Tracked)
                = RefsOf(universes, Tracked \ {u})
<1>1. Active(universes) \subseteq Universes /\ Tracked \subseteq Universes
  BY DEF IInv, Fits, Active, Tracked
<1>2. IsFiniteSet(Active(universes))
  BY <1>1, FiniteTable
<1>3. ActiveWithout(u) = Cardinality(Active(universes) \ {u})
  <2>1. CASE u \in Active(universes)
    <3>1. Cardinality(Active(universes) \ {u}) = Cardinality(Active(universes)) - 1
      BY <1>2, <2>1, FS_RemoveElement
    <3> QED
      BY <2>1, <3>1 DEF ActiveWithout, Active, Tracked, IInv
  <2>2. CASE u \notin Active(universes)
    <3>1. Active(universes) \ {u} = Active(universes)
      BY <2>2
    <3>2. Cardinality(Active(universes)) \in Nat
      BY <1>2, FS_CardinalityType
    <3> QED
      BY <2>2, <3>1, <3>2 DEF ActiveWithout, Active, Tracked, IInv
  <2> QED
    BY <2>1, <2>2
<1>4. WithoutRefs(netint_refs, universes, {u} \cap Tracked)
        = RefsOf(universes, Tracked \ ({u} \cap Tracked))
  BY <1>1, RefsWithout DEF IInv
<1>5. Tracked \ ({u} \cap Tracked) = Tracked \ {u}
  OBVIOUS
<1> QED
  BY <1>3, <1>4, <1>5

\* sacn_source_add_universe keeps the invariant.
LEMMA AddUniverseKeeps ==
    ASSUME IInv, NEW u \in Universes, NEW only \in BOOLEAN, NEW addrs,
           NEW ints \in SUBSET Netints, AddUniverse(u, only, addrs, ints)
    PROVE  IInv'
<1> DEFINE new == NewUniverse(only, ints)
           unis == [v \in Tracked \cup {u} |-> IF v = u THEN new ELSE universes[v]]
           refs == WithoutRefs(netint_refs, universes, {u} \cap Tracked)
<1>1. /\ universes' = unis
      /\ num_active_universes' = ActiveWithout(u)
      /\ netint_refs' = [n \in Netints |-> refs[n] + (IF n \in ints THEN 1 ELSE 0)]
      /\ wire' = [wire EXCEPT ![u] = Unused]
      /\ u \in Tracked => IsOld(u)
  BY DEF AddUniverse
<1>2. /\ new \in SourceUniverse
      /\ new.netints = ints
      /\ InSequence(new, Unused)
      /\ PapFits(new)
      /\ ~IsPartOfDiscovery(new)
  BY NewUniverseFits
<1> HIDE DEF new
<1>3. /\ DOMAIN unis = Tracked \cup {u}
      /\ unis[u] = new
      /\ \A v \in Tracked \ {u} : unis[v] = universes[v]
      /\ unis \in [Tracked \cup {u} -> SourceUniverse]
  BY <1>2 DEF IInv, Fits, Tracked
<1> HIDE DEF unis, refs
<1>4. IsHistory(wire') /\ wire'[u] = Unused
      /\ \A v \in Universes \ {u} : wire'[v] = wire[v]
  BY <1>1, UnusedIsWire DEF IInv, IsHistory
<1>5. Fits(unis, wire')
  BY <1>2, <1>3, <1>4 DEF IInv, Fits, Tracked
<1>6. Active(unis) = Active(universes) \ {u}
  BY <1>2, <1>3 DEF Active, Tracked
<1>7. /\ ActiveWithout(u) = Cardinality(Active(universes) \ {u})
      /\ refs = RefsOf(universes, Tracked \ {u})
  BY <1>1, OldIsGone DEF refs
<1>8. RefsOf(unis, (Tracked \ {u}) \cup {u}) =
        [n \in Netints |-> RefsOf(universes, Tracked \ {u})[n]
                             + (IF n \in ints THEN 1 ELSE 0)]
  <2>1. Tracked \ {u} \subseteq Universes /\ u \in Universes \ (Tracked \ {u})
    BY DEF IInv, Fits, Tracked
  <2>2. unis[u].netints = ints
        /\ \A v \in Tracked \ {u} : unis[v].netints = universes[v].netints
    BY <1>2, <1>3
  <2> QED
    BY <2>1, <2>2, RefsAdded
<1>9. (Tracked \ {u}) \cup {u} = Tracked \cup {u}
  OBVIOUS
<1>10. netint_refs' = RefsOf(unis, Tracked \cup {u})
  BY <1>1, <1>7, <1>8, <1>9
<1>11. num_active_universes' = Cardinality(Active(unis))
  BY <1>1, <1>6, <1>7
<1> QED
  BY <1>1, <1>3, <1>4, <1>5, <1>10, <1>11 DEF IInv, Tracked

\* sacn_source_add_universe keeps it when it fails after the old universe is
\* gone.
LEMMA AddUniverseFailsKeeps ==
    ASSUME IInv, NEW u \in Universes, AddUniverseFails(u)
    PROVE  IInv'
<1> DEFINE unis == Without(universes, {u})
<1>1. /\ universes' = unis
      /\ num_active_universes' = ActiveWithout(u)
      /\ netint_refs' = WithoutRefs(netint_refs, universes, {u})
      /\ wire' = [wire EXCEPT ![u] = Unused]
      /\ u \in Tracked /\ IsOld(u)
  BY DEF AddUniverseFails, IsOld
<1>2. /\ DOMAIN unis = Tracked \ {u}
      /\ \A v \in Tracked \ {u} : unis[v] = universes[v]
      /\ unis \in [Tracked \ {u} -> SourceUniverse]
  BY DEF Without, IInv, Fits, Tracked
<1> HIDE DEF unis
<1>3. IsHistory(wire') /\ \A v \in Universes \ {u} : wire'[v] = wire[v]
  BY <1>1, UnusedIsWire DEF IInv, IsHistory
<1>4. Fits(unis, wire')
  BY <1>2, <1>3 DEF IInv, Fits, Tracked
<1>5. Active(unis) = Active(universes) \ {u}
  BY <1>2 DEF Active, Tracked
<1>6. {u} \cap Tracked = {u}
  BY <1>1
<1>7. /\ ActiveWithout(u) = Cardinality(Active(universes) \ {u})
      /\ WithoutRefs(netint_refs, universes, {u}) = RefsOf(universes, Tracked \ {u})
  BY <1>1, <1>6, OldIsGone
<1>8. RefsOf(unis, Tracked \ {u}) = RefsOf(universes, Tracked \ {u})
  BY <1>2, RefsSame
<1>9. num_active_universes' = Cardinality(Active(unis))
  BY <1>1, <1>5, <1>7
<1> QED
  BY <1>1, <1>2, <1>3, <1>4, <1>7, <1>8, <1>9 DEF IInv, Tracked

\* A pass over universes that fit: those whose termination is over leave
\* universe discovery, and those being removed leave the interfaces too.
LEMMA ProcessUniversesKeeps ==
    ASSUME NEW state, NEW unis, NEW dests, NEW mode, NEW expired, NEW fail,
           Fits(unis, wire), IsHistory(wire),
           num_active_universes = Cardinality(Active(unis)),
           netint_refs = RefsOf(unis, DOMAIN unis),
           EndPass(state, unis, Results(unis, dests, mode, expired, fail))
    PROVE  IInv'
<1> DEFINE Result(u, ok) ==
             ProcessUniverse(unis[u], dests[u], mode, ok,
                {k \in Kinds : <<u, k>> \in expired},
                [k \in Kinds |-> {t \in Targets : <<u, k, t>> \in fail}])
           Blocked(u) ==
             mode = "pap" /\ \E v \in DOMAIN unis : v < u /\ ~Result(v, TRUE).ok
           result == Results(unis, dests, mode, expired, fail)
           finished == Finished(unis, result)
           removed == Removed(unis, result)
           left == DOMAIN unis \ removed
           over == finished \cap Active(unis)
           after == [u \in DOMAIN unis |->
                       WireAfter(wire[u], result[u].packets, result[u].ended)]
<1>1. /\ universes' = [u \in left |-> result[u].universe]
      /\ num_active_universes' = num_active_universes - Cardinality(over)
      /\ netint_refs' = WithoutRefs(netint_refs, unis, removed)
      /\ wire' = [u \in Universes |->
           IF u \in removed THEN [after[u] EXCEPT !.expected = 0]
           ELSE IF u \in left THEN after[u]
           ELSE wire[u]]
  <2> DEFINE After(u) == WireAfter(wire[u], result[u].packets, result[u].ended)
  <2>1. /\ universes' = [u \in left |-> result[u].universe]
        /\ num_active_universes' = num_active_universes - Cardinality(over)
        /\ netint_refs' = WithoutRefs(netint_refs, unis, removed)
        /\ wire' = [u \in Universes |->
             IF u \in removed THEN [After(u) EXCEPT !.expected = 0]
             ELSE IF u \in left THEN After(u)
             ELSE wire[u]]
    BY Zenon DEF EndPass
  <2>2. removed \subseteq DOMAIN unis
    BY DEF Removed, Finished
  <2> HIDE DEF result, removed
  <2>3. \A u \in left \cup removed : after[u] = After(u)
    BY <2>2
  <2> HIDE DEF After, after, left
  <2> QED
    BY <2>1, <2>3
<1>2. ASSUME NEW u \in DOMAIN unis
      PROVE  /\ result[u].universe \in SourceUniverse
             /\ after[u] \in Wire
             /\ InSequence(result[u].universe, after[u])
             /\ PapFits(result[u].universe)
             /\ result[u].universe.netints = unis[u].netints
             /\ IsPartOfDiscovery(result[u].universe)
                  <=> IsPartOfDiscovery(unis[u])
                        /\ ~(result[u].finished /\ unis[u].termination_state = "keeping")
             /\ result[u].finished => unis[u].termination_state # "not"
  <2> DEFINE ok == ~Blocked(u)
             dests_u == dests[u]
             expired_u == {k \in Kinds : <<u, k>> \in expired}
             fail_u == [k \in Kinds |-> {t \in Targets : <<u, k, t>> \in fail}]
             one == ProcessUniverse(unis[u], dests_u, mode, ok, expired_u, fail_u)
  <2>1. unis[u] \in SourceUniverse /\ wire[u] \in Wire
        /\ InSequence(unis[u], wire[u]) /\ PapFits(unis[u])
    BY DEF Fits, IsHistory
  <2>2. ok \in BOOLEAN
    OBVIOUS
  <2>3. result[u] = one /\ after[u] = WireAfter(wire[u], one.packets, one.ended)
    BY Zenon DEF Results
  <2> HIDE DEF ok, dests_u, expired_u, fail_u, result, after
  <2>4. LET reset == one.finished /\ unis[u].termination_state = "keeping"
            next == WireAfter(wire[u], one.packets, one.ended)
        IN  /\ one.universe \in SourceUniverse
            /\ next \in Wire
            /\ InSequence(one.universe, next)
            /\ PapFits(one.universe)
            /\ one.universe.netints = unis[u].netints
            /\ IsPartOfDiscovery(one.universe)
                 <=> IsPartOfDiscovery(unis[u]) /\ ~reset
            /\ one.finished => unis[u].termination_state # "not"
    BY <2>1, <2>2, ProcessUniverseStream
  <2> HIDE DEF one
  <2> QED
    BY <2>3, <2>4
<1> HIDE DEF result, after
<1>2a. /\ finished = {u \in DOMAIN unis : result[u].finished}
      /\ removed = {u \in finished : unis[u].termination_state = "removing"}
  BY DEF Finished, Removed
<1> HIDE DEF finished, removed
<1>3. /\ left \subseteq DOMAIN unis /\ DOMAIN unis \subseteq Universes
      /\ removed \subseteq DOMAIN unis
      /\ universes' = [u \in left |-> result[u].universe]
      /\ DOMAIN universes' = left
      /\ universes' \in [left -> SourceUniverse]
  BY <1>1, <1>2, <1>2a DEF Fits
<1>4. \A u \in Universes : wire'[u] \in Wire /\ wire'[u].in_order
  <2> SUFFICES ASSUME NEW u \in Universes
               PROVE  wire'[u] \in Wire /\ wire'[u].in_order
    OBVIOUS
  <2>1. 0 \in 0..(SeqSize - 1)
    BY SourceAssumption
  <2>2. CASE u \in removed
    <3>1. wire'[u] = [after[u] EXCEPT !.expected = 0]
      BY <1>1, <1>3, <2>2
    <3>2. after[u] \in Wire /\ after[u].in_order
      BY <1>2, <1>3, <2>2 DEF InSequence
    <3> QED
      BY <2>1, <3>1, <3>2 DEF Wire
  <2>3. CASE u \in left
    <3>1. wire'[u] = after[u]
      BY <1>1, <1>3, <2>3
    <3> QED
      BY <1>2, <1>3, <2>3, <3>1 DEF InSequence
  <2>4. CASE u \notin DOMAIN unis
    BY <1>1, <1>3, <2>4 DEF IsHistory
  <2> QED
    BY <2>2, <2>3, <2>4
<1>5. IsHistory(wire')
  BY <1>1, <1>4 DEF IsHistory
<1>6. Fits(universes', wire')
  <2>1. ASSUME NEW u \in left
        PROVE  InSequence(universes'[u], wire'[u]) /\ PapFits(universes'[u])
    <3>1. universes'[u] = result[u].universe /\ wire'[u] = after[u]
      BY <1>1, <1>3
    <3> QED
      BY <1>2, <1>3, <3>1
  <2> QED
    BY <1>3, <2>1 DEF Fits
<1>7. num_active_universes' = Cardinality(Active(universes'))
  <2>1. over \subseteq Active(unis)
    BY DEF Active
  <2>2. Active(universes') = Active(unis) \ over
    <3>1. ASSUME NEW u \in left
          PROVE  IsPartOfDiscovery(universes'[u])
                   <=> IsPartOfDiscovery(unis[u]) /\ u \notin finished
      <4>1. /\ universes'[u] = result[u].universe
            /\ u \in DOMAIN unis
            /\ unis[u].termination_state \in TerminationState
        BY <1>3 DEF Fits, SourceUniverse
      <4>2. u \in finished => unis[u].termination_state = "keeping"
        BY <1>2, <1>2a, <4>1 DEF TerminationState
      <4> QED
        BY <1>2, <1>2a, <4>1, <4>2
    <3>2. removed \subseteq finished
      BY <1>2a
    <3> QED
      BY <1>3, <3>1, <3>2 DEF Active
  <2>3. IsFiniteSet(Active(unis))
    <3>1. Active(unis) \subseteq Universes
      BY DEF Active, Fits
    <3> QED
      BY <3>1, FiniteTable
  <2> HIDE DEF over
  <2>4. Active(unis) \cap over = over
    BY <2>1
  <2> QED
    BY <1>1, <2>2, <2>3, <2>4, FS_Difference
<1>8. netint_refs' = RefsOf(universes', left)
  <2>1. netint_refs' = RefsOf(unis, left)
    BY <1>1, <1>3, RefsWithout
  <2>2. \A u \in left : universes'[u].netints = unis[u].netints
    BY <1>2, <1>3
  <2> QED
    BY <2>1, <2>2, RefsSame
<1> QED
  BY <1>3, <1>5, <1>6, <1>7, <1>8 DEF IInv, Tracked

\* A pass keeps the invariant, and so does the one that starts the shutdown.
LEMMA ProcessKeeps ==
    ASSUME IInv, NEW mode, Process(mode)
    PROVE  IInv'
<1> DEFINE ends == source = "active" /\ shutting_down /\ ~manual
           state == IF ends THEN "terminating" ELSE source
           unis == IF ends THEN AllTerminating(universes) ELSE universes
           dests == IF ends THEN AllDestsTerminating(unicast_dests)
                    ELSE unicast_dests
<1>1. PICK expired, fail :
        EndPass(state, unis, Results(unis, dests, mode, expired, fail))
  BY DEF Process
<1>2. /\ Fits(unis, wire)
      /\ num_active_universes = Cardinality(Active(unis))
      /\ netint_refs = RefsOf(unis, DOMAIN unis)
  <2>1. CASE ends
    BY <2>1, Terminating
  <2>2. CASE ~ends
    BY <2>2 DEF IInv, Tracked
  <2> QED
    BY <2>1, <2>2
<1> HIDE DEF state, unis, dests
<1> QED
  BY <1>1, <1>2, ProcessUniversesKeeps DEF IInv

\* No universe is tracked, at first and after a restart.
LEMMA EmptyFits ==
    ASSUME NEW ws
    PROVE  /\ Fits(<< >>, ws)
           /\ Cardinality(Active(<< >>)) = 0
           /\ RefsOf(<< >>, DOMAIN << >>) = [n \in Netints |-> 0]
<1>1. DOMAIN << >> = {}
  OBVIOUS
<1>2. Active(<< >>) = {}
  BY <1>1 DEF Active
<1>3. \A n \in Netints : {u \in DOMAIN << >> : n \in (<< >>)[u].netints} = {}
  BY <1>1
<1> QED
  BY <1>1, <1>2, <1>3, FS_EmptySet DEF Fits, RefsOf

\* A new initialization keeps the invariant.
LEMMA RestartKeeps ==
    ASSUME IInv, Restart
    PROVE  IInv'
<1>1. /\ universes' = << >>
      /\ num_active_universes' = 0
      /\ netint_refs' = [n \in Netints |-> 0]
      /\ wire' = [u \in Universes |-> [wire[u] EXCEPT !.expected = 0]]
  BY DEF Restart
<1>2. IsHistory(wire')
  <2>1. 0 \in 0..(SeqSize - 1)
    BY SourceAssumption
  <2>2. ASSUME NEW u \in Universes
        PROVE  wire'[u] \in Wire /\ wire'[u].in_order
    <3>1. wire[u] \in Wire /\ wire[u].in_order
      BY DEF IInv, IsHistory
    <3>2. wire'[u] = [wire[u] EXCEPT !.expected = 0]
      BY <1>1
    <3> QED
      BY <2>1, <3>1, <3>2 DEF Wire
  <2> QED
    BY <1>1, <2>2 DEF IsHistory
<1> QED
  BY <1>1, <1>2, EmptyFits DEF IInv, Tracked

\* The invariant holds at first.
LEMMA InitFits == Init => IInv
<1> SUFFICES ASSUME Init
             PROVE  IInv
  OBVIOUS
<1>1. IsHistory(wire)
  BY UnusedIsWire DEF Init, IsHistory
<1> QED
  BY <1>1, EmptyFits DEF Init, IInv, Tracked

-----------------------------------------------------------------------------
(***************************************************************************)
(* Every step keeps the invariant.                                         *)
(***************************************************************************)

\* The calls for the source.
LEMMA SourceCallKeeps ==
    ASSUME IInv, SourceCall
    PROVE  IInv'
<1>1. ASSUME NEW manually \in ManualChoices, CreateSource(manually)
      PROVE  IInv'
  BY <1>1, EmptyFits DEF CreateSource, AddSource, IInv, Tracked
<1>2. CASE DestroySource
  BY <1>2, DestroySourceKeeps
<1>3. CASE ChangeName
  BY <1>3, ChangeNameKeeps
<1>4. ASSUME NEW ints \in [Tracked -> SUBSET Netints], ResetNetworking(ints, FALSE)
      PROVE  IInv'
  BY <1>4, ResetNetworkingKeeps
<1>5. ASSUME NEW N \in (SUBSET Netints) \ {{}},
             ResetNetworking([u \in Tracked |-> N], TRUE)
      PROVE  IInv'
  <2>1. [u \in Tracked |-> N] \in [Tracked -> SUBSET Netints]
    OBVIOUS
  <2> QED
    BY <1>5, <2>1, ResetNetworkingKeeps
<1> QED
  BY <1>1, <1>2, <1>3, <1>4, <1>5 DEF SourceCall

\* The calls for one universe.
LEMMA UniverseCallKeeps ==
    ASSUME IInv, NEW u \in Universes, UniverseCall(u)
    PROVE  IInv'
<1>1. ASSUME NEW only \in BOOLEAN, NEW addrs \in DestLists,
             NEW ints \in SUBSET Netints, AddUniverse(u, only, addrs, ints)
      PROVE  IInv'
  BY <1>1, AddUniverseKeeps
<1>2. CASE AddUniverseFails(u)
  BY <1>2, AddUniverseFailsKeeps
<1>3. CASE RemoveUniverse(u)
  BY <1>3, RemoveUniverseKeeps
<1>4. ASSUME NEW addr \in Addresses,
             AddUnicastDestination(u, addr) \/ RemoveUnicastDestination(u, addr)
      PROVE  IInv'
  BY <1>4, AddUnicastDestinationKeeps, RemoveUnicastDestinationKeeps
<1>5. CASE UpdateLevels(u)
  BY <1>5, UpdateLevelsKeeps
<1>6. ASSUME NEW pap \in BOOLEAN, UpdateLevelsAndPap(u, pap)
      PROVE  IInv'
  BY <1>6, UpdateLevelsAndPapKeeps
<1>7. CASE EndLevels(u)
  BY <1>7, EndLevelsKeeps
<1>8. CASE ChangePriority(u) \/ ChangePreviewFlag(u)
  BY <1>8, ChangeSettingsKeeps DEF ChangePriority, ChangePreviewFlag
<1>9. ASSUME NEW failing \in SUBSET Targets, SendNow(u, failing)
      PROVE  IInv'
  BY <1>9, SendNowKeeps
<1>10. CASE UpdateLevelsAndForceSync(u) \/ UpdateLevelsAndPapAndForceSync(u)
  BY <1>10, UpdateLevelsKeeps, UpdateLevelsAndPapKeeps, EndLevelsKeeps
     DEF UpdateLevelsAndForceSync, UpdateLevelsAndPapAndForceSync
<1> QED
  BY <1>1, <1>2, <1>3, <1>4, <1>5, <1>6, <1>7, <1>8, <1>9, <1>10 DEF UniverseCall

\* The passes and checks of the thread.
LEMMA ThreadStepKeeps ==
    ASSUME IInv, ThreadStep
    PROVE  IInv'
<1>1. ASSUME NEW mode \in {"levels", "pap"}, ThreadProcesses(mode)
      PROVE  IInv'
  BY <1>1, ProcessKeeps DEF ThreadProcesses
<1>2. ASSUME NEW mode \in {"levels", "pap"},
             ThreadDiscoveryFails(mode) \/ ThreadIdles(mode)
      PROVE  IInv'
  BY <1>2 DEF ThreadDiscoveryFails, ThreadIdles, sourceVars, IInv, Tracked
<1>3. CASE ThreadChecks
  BY <1>3 DEF ThreadChecks, sourceVars, IInv, Tracked
<1> QED
  BY <1>1, <1>2, <1>3 DEF ThreadStep

\* Every step keeps the invariant.
LEMMA NextKeeps == IInv /\ [Next]_vars => IInv'
<1> SUFFICES ASSUME IInv, [Next]_vars
             PROVE  IInv'
  OBVIOUS
<1>1. CASE SourceCall
  BY <1>1, SourceCallKeeps
<1>2. ASSUME NEW u \in Universes, UniverseCall(u)
      PROVE  IInv'
  BY <1>2, UniverseCallKeeps
<1>3. CASE ShutDown
  BY <1>3 DEF ShutDown, sourceVars, IInv, Tracked
<1>4. CASE Restart
  BY <1>4, RestartKeeps
<1>5. CASE ThreadStep
  BY <1>5, ThreadStepKeeps
<1>6. ASSUME NEW mode \in {"levels", "pap", "both"}, ProcessManual(mode)
      PROVE  IInv'
  BY <1>6, ProcessKeeps DEF ProcessManual
<1>7. CASE UNCHANGED vars
  BY <1>7 DEF vars, sourceVars, IInv, Tracked
<1> QED
  BY <1>1, <1>2, <1>3, <1>4, <1>5, <1>6, <1>7 DEF Next, AppCall

-----------------------------------------------------------------------------
(***************************************************************************)
(* The theorems of the numbers, the counters and the priorities.           *)
(***************************************************************************)

\* The invariant holds throughout.
LEMMA Invariance == Spec => []IInv
  BY InitFits, NextKeeps, PTL DEF Spec

\* No sequence number of a universe is repeated or left out, whatever sends
\* fail and in whatever order the calls and passes come
\* (increment_sequence_number and its callers).
THEOREM SourceSequence == Spec => []SequenceUnbroken
<1>1. IInv => SequenceUnbroken
  BY DEF IInv, Fits, IsHistory, InSequence, SequenceUnbroken, Tracked
<1> QED
  BY <1>1, Invariance, PTL

\* The count of universes for the pages of universe discovery is exact
\* (num_active_universes).
THEOREM SourceActiveCount == Spec => []ActiveCountExact
<1>1. IInv => ActiveCountExact
  BY DEF IInv, ActiveCountExact
<1> QED
  BY <1>1, Invariance, PTL

\* The reference counts of the interfaces of the source are exact
\* (add_sacn_source_netint, remove_from_source_netints).
THEOREM SourceNetintRefs == Spec => []NetintRefsExact
<1>1. IInv => NetintRefsExact
  BY DEF IInv, NetintRefsExact
<1> QED
  BY <1>1, Invariance, PTL

\* Priorities are never kept without levels (disable_pap_data).
THEOREM SourcePapNeedsLevels == Spec => []PapNeedsLevels
<1>1. IInv => PapNeedsLevels
  BY DEF IInv, Fits, PapFits, PapNeedsLevels, Tracked
<1> QED
  BY <1>1, Invariance, PTL

\* Both counts that are kept by hand are exact (source_state.c:1037,
\* source_netint.c).
THEOREM SourceCounts == Spec => []CountsAreExact
BY SourceActiveCount, SourceNetintRefs, PTL DEF CountsAreExact

-----------------------------------------------------------------------------
(***************************************************************************)
(* The unicast destinations.                                               *)
(***************************************************************************)

\* The elements at given indices are those of the sequence there, and no others.
LEMMA ElementsAtAre ==
    ASSUME NEW T, NEW seq \in Seq(T), NEW S \in SUBSET (DOMAIN seq)
    PROVE  LET some == ElementsAt(seq, S)
           IN  /\ some \in Seq(T)
               /\ \A k \in DOMAIN some : \E i \in S : some[k] = seq[i]
               /\ \A i \in S : \E k \in DOMAIN some : some[k] = seq[i]
<1> DEFINE UpTo1(i) == {j \in S : j <= i}
           rank(i) == Cardinality(UpTo1(i))
           n == Cardinality(S)
           some == ElementsAt(seq, S)
           At(k) == CHOOSE i \in S : rank(i) = k
<1>1. Len(seq) \in Nat /\ DOMAIN seq = 1..Len(seq) /\ S \subseteq 1..Len(seq)
  OBVIOUS
<1>2. IsFiniteSet(S) /\ n \in Nat
  <2>1. IsFiniteSet(1..Len(seq))
    BY <1>1, FS_Interval
  <2> QED BY <1>1, <2>1, FS_Subset, FS_CardinalityType
<1>3. \A i \in S : IsFiniteSet(UpTo1(i)) /\ rank(i) \in Nat /\ rank(i) <= n
  <2>1. \A i \in S : UpTo1(i) \in SUBSET S
    OBVIOUS
  <2> HIDE DEF UpTo1
  <2> QED BY <1>2, <2>1, FS_Subset, FS_CardinalityType
<1>4. \A i \in S : rank(i) \in 1..n
  <2>1. \A i \in S : i \in UpTo1(i)
    BY <1>1
  <2> HIDE DEF UpTo1
  <2>2. \A i \in S : rank(i) # 0
    BY <1>3, <2>1, FS_EmptySet
  <2> QED BY <1>2, <1>3, <2>2
<1>5. \A i, j \in S : i < j => rank(i) # rank(j)
  <2> SUFFICES ASSUME NEW i \in S, NEW j \in S, i < j, rank(i) = rank(j)
               PROVE  FALSE
    OBVIOUS
  <2>1. UpTo1(i) \subseteq UpTo1(j)
    BY <1>1
  <2>2. j \in UpTo1(j) /\ j \notin UpTo1(i)
    BY <1>1
  <2> HIDE DEF UpTo1
  <2> QED BY <1>3, <2>1, <2>2, FS_Subset
<1> HIDE DEF UpTo1, rank, n
<1>6. \A i, j \in S : rank(i) = rank(j) => i = j
  <2>1. \A i, j \in S : i = j \/ i < j \/ j < i
    BY <1>1
  <2> QED BY <1>5, <2>1
<1>7. ASSUME NEW k \in 1..n PROVE \E i \in S : rank(i) = k
  <2> SUFFICES ASSUME \A i \in S : rank(i) # k PROVE FALSE
    OBVIOUS
  <2> DEFINE R == (1..n) \ {k}
             f == [i \in S |-> rank(i)]
  <2>1. IsFiniteSet(1..n) /\ Cardinality(1..n) = n
    <3>1. 1 \in Int /\ n \in Int /\ (1 > n => n = 0) /\ n - 1 + 1 = n
      BY <1>2
    <3>2. /\ IsFiniteSet(1..n)
          /\ Cardinality(1..n) = IF 1 > n THEN 0 ELSE n - 1 + 1
      BY <3>1, FS_Interval
    <3> QED BY <3>1, <3>2
  <2>2. IsFiniteSet(R) /\ Cardinality(R) = n - 1
    BY <2>1, FS_RemoveElement
  <2>3. f \in [S -> R]
    BY <1>4
  <2>4. Cardinality(R) < Cardinality(S)
    BY <1>2, <2>2 DEF n
  <2> HIDE DEF R, f
  <2>5. \E x, y \in S : x # y /\ f[x] = f[y]
    BY <1>2, <2>2, <2>3, <2>4, FS_PigeonHole
  <2> QED BY <1>6, <2>5 DEF f
<1>8. \A k \in 1..n : At(k) \in S /\ rank(At(k)) = k
  BY <1>7
<1>9. some = [k \in 1..n |-> seq[At(k)]]
  BY DEF ElementsAt, rank, UpTo1, n
<1> HIDE DEF some, At
<1>10. /\ DOMAIN some = 1..n
       /\ \A k \in 1..n : some[k] = seq[At(k)] /\ some[k] \in T
  <2>1. \A i \in S : seq[i] \in T
    BY <1>1
  <2> QED BY <1>8, <1>9, <2>1
<1>11. some \in Seq(T)
  <2>1. some \in [1..n -> T]
    BY <1>9, <1>10
  <2> QED BY <1>2, <2>1, SeqDef
<1>12. \A i \in S : rank(i) \in 1..n /\ At(rank(i)) = i
  BY <1>4, <1>6, <1>8
<1> QED BY <1>8, <1>10, <1>11, <1>12 DEF some

\* A new destination has its type.
LEMMA NewDestIs ==
    ASSUME NEW addr \in Addresses
    PROVE  NewDest(addr) \in UnicastDestination
<1>1. 0 \in 0..TerminationsRequired
  BY SourceAssumption
<1> QED BY <1>1 DEF NewDest, UnicastDestination, TerminationState

\* The destinations at the indices S that are not being removed are reset, those
\* at other indices stay.
LEMMA FinishDestsAre ==
    ASSUME NEW dests \in Seq(UnicastDestination), NEW S
    PROVE  LET left == FinishDests(dests, S)
           IN  /\ left \in Seq(UnicastDestination)
               /\ \A k \in DOMAIN left : \E i \in DOMAIN dests :
                     /\ i \in S => dests[i].termination_state # "removing"
                     /\ left[k] = IF i \in S THEN NewDest(dests[i].addr) ELSE dests[i]
               /\ \A i \in DOMAIN dests :
                     (i \in S => dests[i].termination_state # "removing") =>
                       \E k \in DOMAIN left :
                          left[k] = IF i \in S THEN NewDest(dests[i].addr) ELSE dests[i]
<1> DEFINE Left(i) == IF i \in S THEN NewDest(dests[i].addr) ELSE dests[i]
           stay == {i \in DOMAIN dests : i \in S => dests[i].termination_state # "removing"}
           finished == [i \in DOMAIN dests |-> Left(i)]
<1>1. /\ Len(dests) \in Nat /\ DOMAIN dests = 1..Len(dests)
      /\ \A i \in DOMAIN dests : dests[i] \in UnicastDestination
  OBVIOUS
<1>2. \A i \in DOMAIN dests : Left(i) \in UnicastDestination
  <2>1. \A i \in DOMAIN dests : dests[i].addr \in Addresses
    BY <1>1 DEF UnicastDestination
  <2> QED BY <1>1, <2>1, NewDestIs
<1> HIDE DEF Left
<1>3. finished \in Seq(UnicastDestination) /\ DOMAIN finished = DOMAIN dests
  <2>1. finished \in [1..Len(dests) -> UnicastDestination]
    BY <1>1, <1>2
  <2> QED BY <1>1, <2>1, SeqDef
<1>4. FinishDests(dests, S) = ElementsAt(finished, stay)
  BY DEF FinishDests, Left
<1>5. stay \in SUBSET (DOMAIN finished)
  BY <1>3
<1>6. \A i \in DOMAIN dests : finished[i] = Left(i)
  OBVIOUS
<1> HIDE DEF finished
<1>7. /\ ElementsAt(finished, stay) \in Seq(UnicastDestination)
      /\ \A k \in DOMAIN ElementsAt(finished, stay) : \E i \in stay :
            ElementsAt(finished, stay)[k] = finished[i]
      /\ \A i \in stay : \E k \in DOMAIN ElementsAt(finished, stay) :
            ElementsAt(finished, stay)[k] = finished[i]
  BY <1>3, <1>5, ElementsAtAre
<1> DEFINE left == FinishDests(dests, S)
<1>8. \A i \in stay : i \in DOMAIN dests /\ (i \in S => dests[i].termination_state # "removing")
  OBVIOUS
<1>9. \A i \in DOMAIN dests : (i \in S => dests[i].termination_state # "removing") => i \in stay
  OBVIOUS
<1> HIDE DEF stay, left
<1>10. \A k \in DOMAIN left : \E i \in DOMAIN dests :
          /\ i \in S => dests[i].termination_state # "removing"
          /\ left[k] = Left(i)
  BY <1>4, <1>6, <1>7, <1>8 DEF left
<1>11. \A i \in DOMAIN dests : (i \in S => dests[i].termination_state # "removing") =>
          \E k \in DOMAIN left : left[k] = Left(i)
  BY <1>4, <1>6, <1>7, <1>9 DEF left
<1>12. left \in Seq(UnicastDestination)
  BY <1>4, <1>7 DEF left
<1> QED BY <1>10, <1>11, <1>12 DEF Left, left
-----------------------------------------------------------------------------
(***************************************************************************)
(* What is still to be sent for the data that was sent.                    *)
(***************************************************************************)

\* A universe uni, or a destination of it, will send n terminations: all of them
\* if it transmits, those left to it if it terminates.
Serves(uni, x, n) ==
    IF x.termination_state = "not" THEN uni.termination_state = "not"
    ELSE x.num_terminations_sent + n <= TerminationsRequired

\* Target t gets n terminations from one or the other.
IsServed(uni, dests, t, n) ==
    \/ t \in Multicast(uni) /\ Serves(uni, uni, n)
    \/ \E i \in DOMAIN dests : dests[i].addr = t /\ Serves(uni, dests[i], n)

\* Every target gets what it is owed.
Covered(uni, dests, owed) ==
    \A t \in Targets : owed[t] > 0 =>
        uni.has_level_data /\ IsServed(uni, dests, t, owed[t])

Owes == [Targets -> 0..TerminationsRequired]

NothingOwed(owed) == \A t \in Targets : owed[t] = 0

\* The destinations are in states that agree with the universe.
DestsFit(uni, dests) ==
    /\ dests \in Seq(UnicastDestination)
    /\ \A i \in DOMAIN dests :
          /\ uni.termination_state = "removing" => dests[i].termination_state = "removing"
          /\ dests[i].termination_state = "keeping" => uni.termination_state = "keeping"

IsSettled(uni, dests, owed) ==
    /\ uni \in SourceUniverse
    /\ DestsFit(uni, dests)
    /\ owed \in Owes
    /\ Covered(uni, dests, owed)

\* One termination less for the targets ended.
Ended(owed, ended) ==
    [t \in Targets |-> IF t \in ended /\ owed[t] > 0 THEN owed[t] - 1 ELSE owed[t]]

\* Terminations leave numbers in their range, none of them larger.
LEMMA EndedIs ==
    ASSUME NEW owed \in Owes, NEW ended
    PROVE  /\ Ended(owed, ended) \in Owes
           /\ \A t \in Targets : Ended(owed, ended)[t] <= owed[t]
<1>1. TerminationsRequired \in Nat
  BY SourceAssumption
<1>2. \A n \in 0..TerminationsRequired : n > 0 => n - 1 \in 0..TerminationsRequired
  BY <1>1
<1>3. ASSUME NEW t \in Targets
      PROVE  /\ Ended(owed, ended)[t] \in 0..TerminationsRequired
             /\ Ended(owed, ended)[t] <= owed[t]
  <2>1. owed[t] \in 0..TerminationsRequired
    BY DEF Owes
  <2>2. Ended(owed, ended)[t] = IF t \in ended /\ owed[t] > 0 THEN owed[t] - 1 ELSE owed[t]
    BY DEF Ended
  <2> QED BY <1>1, <1>2, <2>1, <2>2
<1>4. Ended(owed, ended) = [t \in Targets |-> Ended(owed, ended)[t]]
  BY DEF Ended
<1> QED BY <1>3, <1>4 DEF Owes

\* process_unicast_termination leaves destinations that serve what is left to
\* be sent after their terminations.
LEMMA UnicastSettles ==
    ASSUME NEW uni, NEW dests, NEW owed, NEW failing, IsSettled(uni, dests, owed)
    PROVE  LET result == UnicastTermination(uni, dests, failing)
           IN  /\ IsSettled(uni, result.dests, Ended(owed, result.ended))
               /\ result.ended \subseteq Addresses
               /\ ~result.terminating =>
                     \A k \in DOMAIN result.dests : result.dests[k].termination_state = "not"
<1> DEFINE terminating == {i \in DOMAIN dests : dests[i].termination_state # "not"}
           due == {i \in terminating :
                     /\ dests[i].num_terminations_sent < TerminationsRequired
                     /\ uni.has_level_data}
           failed == {i \in due : dests[i].addr \in failing}
           tried == {i \in due : \A j \in failed : i >= j}
           counted == [i \in DOMAIN dests |->
               IF i \in tried THEN TerminationTried(dests[i]) ELSE dests[i]]
           finished == {i \in terminating :
               \/ counted[i].num_terminations_sent >= TerminationsRequired
               \/ ~uni.has_level_data}
           result == UnicastTermination(uni, dests, failing)
           left == FinishDests(counted, finished)
           ended == Addrs(dests, tried)
<1>1. /\ result.dests = left /\ result.ended = ended
      /\ result.terminating = (terminating \ finished # {})
  BY DEF UnicastTermination
<1> HIDE DEF result
<1>2. /\ Len(dests) \in Nat /\ DOMAIN dests = 1..Len(dests)
      /\ \A i \in DOMAIN dests : dests[i] \in UnicastDestination
      /\ uni \in SourceUniverse /\ owed \in Owes
  BY DEF IsSettled, DestsFit
<1>3. ASSUME NEW i \in DOMAIN dests
      PROVE  /\ counted[i] \in UnicastDestination
             /\ counted[i].addr = dests[i].addr
             /\ counted[i].termination_state = dests[i].termination_state
             /\ counted[i].num_terminations_sent =
                  IF i \in tried THEN dests[i].num_terminations_sent + 1
                  ELSE dests[i].num_terminations_sent
  <2>1. dests[i] \in UnicastDestination
    BY <1>2
  <2>2. CASE i \in tried
    <3>1. counted[i] = TerminationTried(dests[i])
      BY <2>2
    <3>2. dests[i].num_terminations_sent + 1 \in 0..TerminationsRequired
      BY <2>1, <2>2, SourceAssumption DEF UnicastDestination
    <3>3. PICK n \in 0..TerminationsRequired : n = dests[i].num_terminations_sent + 1
      BY <3>2
    <3>4. counted[i] = [dests[i] EXCEPT !.num_terminations_sent = n]
      BY <3>1, <3>3 DEF TerminationTried
    <3> HIDE DEF counted, tried
    <3> QED BY <2>1, <2>2, <3>3, <3>4 DEF UnicastDestination
  <2>3. CASE i \notin tried
    BY <2>1, <2>3
  <2> QED BY <2>2, <2>3
<1>4. DOMAIN counted = DOMAIN dests /\ counted \in Seq(UnicastDestination)
  <2>1. DOMAIN counted = DOMAIN dests /\ counted \in [1..Len(dests) -> UnicastDestination]
    <3>1. counted = [i \in 1..Len(dests) |-> counted[i]]
      BY <1>2
    <3> HIDE DEF counted
    <3> QED BY <1>2, <1>3, <3>1
  <2> HIDE DEF counted
  <2> QED BY <1>2, <2>1, SeqDef
<1>5. \A i \in finished : i \in terminating
  OBVIOUS
<1>6. \A i \in tried : i \in terminating /\ dests[i].addr \in ended
  BY DEF Addrs
<1>7. /\ \A i \in terminating : i \in DOMAIN dests /\ dests[i].termination_state # "not"
      /\ \A i \in DOMAIN dests : i \notin terminating => dests[i].termination_state = "not"
      /\ \A i \in terminating : i \notin finished <=>
            ~(counted[i].num_terminations_sent >= TerminationsRequired) /\ uni.has_level_data
  OBVIOUS
<1>8. ended \subseteq Addresses
  BY <1>2 DEF Addrs, UnicastDestination
<1> HIDE DEF terminating, finished, counted, tried, ended
<1> HIDE DEF left
<1>9. /\ left \in Seq(UnicastDestination)
      /\ \A k \in DOMAIN left : \E i \in DOMAIN dests :
            /\ i \in finished => counted[i].termination_state # "removing"
            /\ left[k] = IF i \in finished THEN NewDest(counted[i].addr) ELSE counted[i]
      /\ \A i \in DOMAIN dests : i \notin finished =>
            \E k \in DOMAIN left : left[k] = counted[i]
  <2>1. /\ left \in Seq(UnicastDestination)
        /\ \A k \in DOMAIN left : \E i \in DOMAIN counted :
              /\ i \in finished => counted[i].termination_state # "removing"
              /\ left[k] = IF i \in finished THEN NewDest(counted[i].addr) ELSE counted[i]
        /\ \A i \in DOMAIN counted :
              (i \in finished => counted[i].termination_state # "removing") =>
                \E k \in DOMAIN left :
                   left[k] = IF i \in finished THEN NewDest(counted[i].addr) ELSE counted[i]
    BY <1>4, FinishDestsAre DEF left
  <2>2. ASSUME NEW i \in DOMAIN dests, i \notin finished
        PROVE  \E k \in DOMAIN left : left[k] = counted[i]
    <3>1. i \in DOMAIN counted
      BY <1>4
    <3>2. \E k \in DOMAIN left :
             left[k] = IF i \in finished THEN NewDest(counted[i].addr) ELSE counted[i]
      BY <2>1, <2>2, <3>1
    <3> QED BY <2>2, <3>2
  <2> QED BY <1>4, <2>1, <2>2
<1>10. ASSUME NEW k \in DOMAIN left
       PROVE  /\ uni.termination_state = "removing" => left[k].termination_state = "removing"
              /\ left[k].termination_state = "keeping" => uni.termination_state = "keeping"
  <2>1. PICK i \in DOMAIN dests :
          /\ i \in finished => counted[i].termination_state # "removing"
          /\ left[k] = IF i \in finished THEN NewDest(counted[i].addr) ELSE counted[i]
    BY <1>9
  <2>2. /\ uni.termination_state = "removing" => dests[i].termination_state = "removing"
        /\ dests[i].termination_state = "keeping" => uni.termination_state = "keeping"
    BY DEF IsSettled, DestsFit
  <2> QED BY <1>3, <2>1, <2>2 DEF NewDest
<1>11. DestsFit(uni, left)
  BY <1>9, <1>10 DEF DestsFit
<1>12. ~result.terminating => \A k \in DOMAIN left : left[k].termination_state = "not"
  <2> SUFFICES ASSUME ~result.terminating, NEW k \in DOMAIN left
               PROVE  left[k].termination_state = "not"
    OBVIOUS
  <2>1. terminating \ finished = {}
    BY <1>1
  <2>2. PICK i \in DOMAIN dests :
           left[k] = IF i \in finished THEN NewDest(counted[i].addr) ELSE counted[i]
    BY <1>9
  <2> QED BY <1>3, <1>7, <2>1, <2>2 DEF NewDest
<1> DEFINE rest == Ended(owed, ended)
<1>13. ASSUME NEW t \in Targets, rest[t] > 0
       PROVE  uni.has_level_data /\ IsServed(uni, left, t, rest[t])
  <2>1. /\ owed[t] \in 0..TerminationsRequired /\ owed[t] > 0
        /\ rest[t] = IF t \in ended THEN owed[t] - 1 ELSE owed[t]
    BY <1>2, <1>13 DEF Ended, Owes
  <2> HIDE DEF rest
  <2>2. uni.has_level_data /\ IsServed(uni, dests, t, owed[t])
    BY <2>1 DEF IsSettled, Covered
  <2>3. TerminationsRequired \in Nat
    BY SourceAssumption
  <2>4. CASE t \in Multicast(uni) /\ Serves(uni, uni, owed[t])
    <3>1. Serves(uni, uni, rest[t])
      BY <1>2, <2>1, <2>3, <2>4 DEF Serves, SourceUniverse
    <3> QED BY <2>2, <2>4, <3>1 DEF IsServed
  <2>5. ASSUME NEW i \in DOMAIN dests, dests[i].addr = t, Serves(uni, dests[i], owed[t])
        PROVE  IsServed(uni, left, t, rest[t])
    <3>1. dests[i].num_terminations_sent \in Nat
      BY <1>2 DEF UnicastDestination
    <3>2. i \notin finished /\ Serves(uni, counted[i], rest[t])
      <4>1. CASE i \notin terminating
        <5>1. dests[i].termination_state = "not" /\ uni.termination_state = "not"
          BY <1>7, <2>5, <4>1 DEF Serves
        <5> QED BY <1>3, <1>5, <4>1, <5>1 DEF Serves
      <4>2. CASE i \in terminating
        <5>1. dests[i].num_terminations_sent + owed[t] <= TerminationsRequired
          BY <1>7, <2>5, <4>2 DEF Serves
        <5>2. counted[i].num_terminations_sent + rest[t] <= TerminationsRequired
          BY <1>3, <1>6, <2>1, <2>3, <2>5, <3>1, <5>1
        <5>3. counted[i].num_terminations_sent \in Nat /\ rest[t] \in Nat
          BY <1>3, <2>1, <3>1
        <5>4. ~(counted[i].num_terminations_sent >= TerminationsRequired)
          BY <1>13, <2>3, <5>2, <5>3 DEF rest
        <5> QED BY <1>3, <1>7, <2>2, <4>2, <5>2, <5>4 DEF Serves
      <4> QED BY <4>1, <4>2
    <3>3. PICK k \in DOMAIN left : left[k] = counted[i]
      BY <1>9, <3>2
    <3> QED BY <1>3, <2>5, <3>2, <3>3 DEF IsServed
  <2> QED BY <2>2, <2>4, <2>5 DEF IsServed
<1>14. Covered(uni, left, rest)
  BY <1>13 DEF Covered
<1>15. rest \in Owes
  BY <1>2, EndedIs
<1> HIDE DEF rest
<1>16. IsSettled(uni, left, rest)
  BY <1>2, <1>11, <1>14, <1>15 DEF IsSettled
<1> QED BY <1>1, <1>8, <1>12, <1>16 DEF result, rest

\* What a call or a pass leaves alone of what a universe serves.
SameService(uni, new) ==
    /\ new \in SourceUniverse
    /\ new.termination_state = uni.termination_state
    /\ new.num_terminations_sent = uni.num_terminations_sent
    /\ new.has_level_data = uni.has_level_data
    /\ new.send_unicast_only = uni.send_unicast_only
    /\ new.netints = uni.netints

\* A universe that serves the same stays settled.
LEMMA ServedAlike ==
    ASSUME NEW uni, NEW new, NEW dests, NEW owed, SameService(uni, new),
           IsSettled(uni, dests, owed)
    PROVE  IsSettled(new, dests, owed)
<1>1. Multicast(new) = Multicast(uni)
  BY DEF Multicast, SameService
<1>2. \A n : Serves(new, new, n) = Serves(uni, uni, n)
  BY DEF Serves, SameService
<1>3. \A x, n : Serves(new, x, n) = Serves(uni, x, n)
  BY DEF Serves, SameService
<1>4. \A t, n : IsServed(new, dests, t, n) = IsServed(uni, dests, t, n)
  BY <1>1, <1>2, <1>3 DEF IsServed
<1>5. Covered(new, dests, owed)
  BY <1>4 DEF Covered, IsSettled, SameService
<1>6. DestsFit(new, dests)
  BY DEF DestsFit, IsSettled, SameService
<1> QED BY <1>5, <1>6 DEF IsSettled, SameService

\* The data that packets bring, and what is owed for it.
Live(packets) == {p.to : p \in {q \in packets : q.kind \in {"levels", "pap"}}}

Owed(owed, live) == [t \in Targets |-> IF t \in live THEN TerminationsRequired ELSE owed[t]]

\* The history after a pass: first the terminations count, then the data.
LEMMA WireAfterOwed ==
    ASSUME NEW w, NEW packets, NEW ended
    PROVE  WireAfter(w, packets, ended).owed = Owed(Ended(w.owed, ended), Live(packets))
<1> DEFINE live == Live(packets)
<1>1. WireAfter(w, packets, ended).owed =
        [t \in Targets |->
            IF t \in live THEN TerminationsRequired
            ELSE IF t \in ended /\ w.owed[t] > 0 THEN w.owed[t] - 1
            ELSE w.owed[t]]
  BY DEF WireAfter, Live
<1> HIDE DEF live
<1>2. Owed(Ended(w.owed, ended), live) =
        [t \in Targets |->
            IF t \in live THEN TerminationsRequired
            ELSE IF t \in ended /\ w.owed[t] > 0 THEN w.owed[t] - 1
            ELSE w.owed[t]]
  BY DEF Owed, Ended
<1> QED BY <1>1, <1>2 DEF live

\* New data, when all of its targets are served all the terminations.
LEMMA OwedSettles ==
    ASSUME NEW uni, NEW dests, NEW owed, NEW live, IsSettled(uni, dests, owed),
           \A t \in live \cap Targets :
              uni.has_level_data /\ IsServed(uni, dests, t, TerminationsRequired)
    PROVE  IsSettled(uni, dests, Owed(owed, live))
<1>1. owed \in Owes
  BY DEF IsSettled
<1>2. \A t \in Targets : Owed(owed, live)[t] =
         IF t \in live THEN TerminationsRequired ELSE owed[t]
  BY DEF Owed
<1>3. Owed(owed, live) \in Owes
  <2>1. TerminationsRequired \in 0..TerminationsRequired
    BY SourceAssumption
  <2>2. \A t \in Targets : Owed(owed, live)[t] \in 0..TerminationsRequired
    BY <1>1, <1>2, <2>1 DEF Owes
  <2>3. Owed(owed, live) = [t \in Targets |-> Owed(owed, live)[t]]
    BY DEF Owed
  <2> QED BY <2>2, <2>3 DEF Owes
<1>4. Covered(uni, dests, Owed(owed, live))
  BY <1>2 DEF IsSettled, Covered
<1> QED BY <1>3, <1>4 DEF IsSettled

\* Terminations to different targets may be taken together.
LEMMA EndedTwice ==
    ASSUME NEW owed \in Owes, NEW first, NEW second, first \cap second = {}
    PROVE  Ended(Ended(owed, first), second) = Ended(owed, first \cup second)
<1>1. ASSUME NEW t \in Targets
      PROVE  Ended(Ended(owed, first), second)[t] = Ended(owed, first \cup second)[t]
  BY DEF Ended
<1> QED BY <1>1 DEF Ended

\* No termination changes nothing.
LEMMA EndedNone ==
    ASSUME NEW owed \in Owes
    PROVE  Ended(owed, {}) = owed
<1>1. \A t \in Targets : Ended(owed, {})[t] = owed[t]
  BY DEF Ended
<1> QED BY <1>1 DEF Ended, Owes

\* No data changes nothing.
LEMMA OwedNone ==
    ASSUME NEW owed \in Owes
    PROVE  Owed(owed, {}) = owed
<1>1. \A t \in Targets : Owed(owed, {})[t] = owed[t]
  BY DEF Owed
<1> QED BY <1>1 DEF Owed, Owes

\* Transmitted data goes to targets that a universe or destination that
\* transmits serves.
LEMMA TransmitServes ==
    ASSUME NEW uni \in SourceUniverse, uni.termination_state = "not", PapFits(uni),
           NEW dests, NEW mode, NEW expired, NEW fail, NEW sent
    PROVE  LET result == Transmit(uni, dests, mode, expired, fail, sent)
           IN  /\ SameService(uni, result.universe)
               /\ result.ended = {}
               /\ result.finished = FALSE
               /\ \A t \in Live(result.packets) :
                    uni.has_level_data /\ IsServed(uni, dests, t, TerminationsRequired)
<1> DEFINE result == Transmit(uni, dests, mode, expired, fail, sent)
           levels_due == LevelsAreDue(uni, mode, expired)
           levels_to == IF levels_due THEN SentTo(uni, dests, fail["levels"]) ELSE {}
           levels_ok == levels_due => AllSent(uni, dests, fail["levels"])
           pap_due == PapIsDue(uni, mode, expired)
           pap_seq == IF sent \/ levels_to # {}
                        THEN (uni.next_seq_num + 1) % SeqSize ELSE uni.pap_seq
           pap_to == IF pap_due /\ levels_ok THEN SentTo(uni, dests, fail["pap"]) ELSE {}
           l == IF levels_due /\ uni.level_packets < PreSuppression
                  THEN uni.level_packets + 1 ELSE uni.level_packets
           p == IF pap_due /\ uni.pap_packets < PreSuppression
                  THEN uni.pap_packets + 1 ELSE uni.pap_packets
<1>1. /\ result.universe = [uni EXCEPT !.level_packets = l, !.pap_packets = p]
      /\ result.finished = FALSE
      /\ result.ended = {}
      /\ result.packets = Packets("levels", uni.level_seq, levels_to)
                            \cup Packets("pap", pap_seq, pap_to)
  BY DEF Transmit
<1>2. l \in 0..PreSuppression /\ p \in 0..PreSuppression
  BY SourceAssumption DEF SourceUniverse
<1>3. /\ levels_to # {} => uni.has_level_data
      /\ pap_to # {} => uni.has_level_data
  BY DEF LevelsAreDue, PapIsDue, PapFits
<1>4. \A failing : SentTo(uni, dests, failing) \subseteq Multicast(uni) \cup Unicast(dests)
  BY DEF SentTo
<1>5. levels_to \cup pap_to \subseteq Multicast(uni) \cup Unicast(dests)
  BY <1>4
<1> HIDE DEF result, l, p, levels_to, pap_to, pap_seq
<1>6. SameService(uni, result.universe)
  BY <1>1, <1>2 DEF SameService, SourceUniverse
<1>7. \A t \in Live(result.packets) : t \in levels_to \cup pap_to
  BY <1>1 DEF Live, Packets
<1>8. \A t \in Multicast(uni) \cup Unicast(dests) : IsServed(uni, dests, t, TerminationsRequired)
  BY DEF Unicast, Addrs, IsServed, Serves
<1>9. \A t \in Live(result.packets) :
         uni.has_level_data /\ IsServed(uni, dests, t, TerminationsRequired)
  BY <1>3, <1>5, <1>7, <1>8
<1> QED BY <1>1, <1>6, <1>9 DEF result

\* process_multicast_termination serves what is left after its terminations,
\* and is only over when nothing is.
LEMMA MulticastSettles ==
    ASSUME NEW uni, NEW dests, NEW owed, NEW failing, NEW terminating \in BOOLEAN,
           IsSettled(uni, dests, owed), uni.termination_state # "not",
           ~terminating => \A k \in DOMAIN dests : dests[k].termination_state = "not"
    PROVE  LET result == MulticastTermination(uni, failing, terminating)
               rest == Ended(owed, result.ended)
           IN  /\ IsSettled(result.universe, dests, rest)
               /\ result.universe.termination_state = uni.termination_state
               /\ result.ended \subseteq Netints
               /\ Live(result.packets) = {}
               /\ result.finished => NothingOwed(rest)
<1> DEFINE result == MulticastTermination(uni, failing, terminating)
           new == result.universe
           due == /\ uni.num_terminations_sent < TerminationsRequired
                  /\ uni.has_level_data
           n == IF due THEN uni.num_terminations_sent + 1
                ELSE uni.num_terminations_sent
           to == IF due THEN Multicast(uni) ELSE {}
           rest == Ended(owed, to)
<1>1. uni \in SourceUniverse /\ owed \in Owes /\ DestsFit(uni, dests)
      /\ TerminationsRequired \in Nat
  BY SourceAssumption DEF IsSettled
<1>2. /\ result.universe = [uni EXCEPT !.num_terminations_sent = n]
      /\ result.ended = to
      /\ result.packets = Packets("term", uni.level_seq, to \ failing)
  BY <1>1 DEF MulticastTermination, TerminationTried, SourceUniverse
<1>3. n \in 0..TerminationsRequired
  BY <1>1 DEF SourceUniverse
<1>4. result.finished =
         (\/ result.universe.num_terminations_sent >= TerminationsRequired /\ ~terminating
          \/ ~uni.has_level_data)
  <2>1. result.universe =
          IF due THEN TerminationTried(uni) ELSE uni
    BY DEF MulticastTermination
  <2>2. result.finished =
          (\/ (IF due THEN TerminationTried(uni) ELSE uni).num_terminations_sent
                >= TerminationsRequired /\ ~terminating
           \/ ~uni.has_level_data)
    BY DEF MulticastTermination
  <2> QED BY <2>1, <2>2
<1> HIDE DEF result, n
<1>5. /\ new \in SourceUniverse
      /\ new.termination_state = uni.termination_state
      /\ new.num_terminations_sent = n
      /\ new.has_level_data = uni.has_level_data
      /\ Multicast(new) = Multicast(uni)
  BY <1>1, <1>2, <1>3 DEF SourceUniverse, Multicast
<1>6. to \subseteq Netints
  BY <1>1 DEF Multicast, SourceUniverse
<1>7. Live(result.packets) = {}
  BY <1>2 DEF Live, Packets
<1>8. rest \in Owes
  BY <1>1, EndedIs
<1> HIDE DEF new
<1>9. ASSUME NEW t \in Targets, rest[t] > 0
      PROVE  new.has_level_data /\ IsServed(new, dests, t, rest[t])
  <2>1. /\ owed[t] \in 0..TerminationsRequired /\ owed[t] > 0
        /\ rest[t] = IF t \in to THEN owed[t] - 1 ELSE owed[t]
    BY <1>1, <1>9 DEF Ended, Owes
  <2>2. uni.has_level_data /\ IsServed(uni, dests, t, owed[t])
    BY <2>1 DEF IsSettled, Covered
  <2>3. CASE t \in Multicast(uni) /\ Serves(uni, uni, owed[t])
    <3>1. uni.num_terminations_sent + owed[t] <= TerminationsRequired
      BY <2>3 DEF Serves
    <3>2. uni.num_terminations_sent \in Nat
      BY <1>1 DEF SourceUniverse
    <3>3. uni.num_terminations_sent < TerminationsRequired
      BY <1>1, <2>1, <3>1, <3>2
    <3>4. due /\ t \in to
      BY <2>2, <2>3, <3>3
    <3>5. new.num_terminations_sent + rest[t] <= TerminationsRequired
      BY <1>5, <2>1, <3>1, <3>2, <3>4 DEF n
    <3> QED BY <1>5, <2>2, <2>3, <3>5 DEF IsServed, Serves
  <2>4. ASSUME NEW i \in DOMAIN dests, dests[i].addr = t, Serves(uni, dests[i], owed[t])
        PROVE  IsServed(new, dests, t, rest[t])
    <3>1. dests[i] \in UnicastDestination
      BY <1>1 DEF DestsFit
    <3>2. dests[i].num_terminations_sent \in Nat /\ dests[i].termination_state # "not"
      BY <2>4, <3>1 DEF Serves, UnicastDestination
    <3>3. dests[i].num_terminations_sent + owed[t] <= TerminationsRequired
      BY <2>4, <3>2 DEF Serves
    <3>4. dests[i].num_terminations_sent + rest[t] <= TerminationsRequired
      BY <1>1, <2>1, <3>2, <3>3
    <3> QED BY <2>4, <3>2, <3>4 DEF IsServed, Serves
  <2> QED BY <1>5, <2>2, <2>3, <2>4 DEF IsServed
<1>10. DestsFit(new, dests)
  BY <1>1, <1>5 DEF DestsFit
<1>11. IsSettled(new, dests, rest)
  BY <1>5, <1>8, <1>9, <1>10 DEF IsSettled, Covered
<1>12. ASSUME result.finished
       PROVE  NothingOwed(rest)
  <2> SUFFICES ASSUME NEW t \in Targets, rest[t] > 0
               PROVE  FALSE
    BY <1>8 DEF NothingOwed, Owes
  <2>1. new.has_level_data /\ IsServed(new, dests, t, rest[t])
    BY <1>9
  <2>2. new.num_terminations_sent >= TerminationsRequired /\ ~terminating
    BY <1>4, <1>5, <1>12, <2>1 DEF new
  <2>3. new.num_terminations_sent \in Nat /\ rest[t] \in Nat
    BY <1>5, <1>8 DEF SourceUniverse, Owes
  <2>4. ~Serves(new, new, rest[t])
    BY <1>1, <1>5, <2>2, <2>3 DEF Serves
  <2>5. \A i \in DOMAIN dests : ~Serves(new, dests[i], rest[t])
    BY <1>5, <2>2 DEF Serves
  <2> QED BY <2>1, <2>4, <2>5 DEF IsServed
<1> QED BY <1>2, <1>5, <1>6, <1>7, <1>11, <1>12 DEF result, new

\* The reset of a universe, when nothing is owed.
LEMMA ResetSettles ==
    ASSUME NEW uni \in SourceUniverse, NEW dests, NEW owed \in Owes,
           DestsFit(uni, dests), NothingOwed(owed)
    PROVE  IsSettled(ResetUniverse(uni), FinishDests(dests, DOMAIN dests), owed)
<1> DEFINE new == ResetUniverse(uni)
           left == FinishDests(dests, DOMAIN dests)
<1>1. 0 \in 0..TerminationsRequired
  BY SourceAssumption
<1>2. new \in SourceUniverse /\ new.termination_state = "not"
  BY <1>1 DEF ResetUniverse, SourceUniverse, TerminationState
<1>3. /\ left \in Seq(UnicastDestination)
      /\ \A k \in DOMAIN left : \E i \in DOMAIN dests :
            left[k] = IF i \in DOMAIN dests THEN NewDest(dests[i].addr) ELSE dests[i]
  BY FinishDestsAre DEF DestsFit
<1>4. Covered(new, left, owed)
  BY DEF Covered, NothingOwed
<1> HIDE DEF new, left
<1>5. \A k \in DOMAIN left : left[k].termination_state = "not"
  BY <1>3 DEF NewDest
<1>6. DestsFit(new, left)
  BY <1>2, <1>3, <1>5 DEF DestsFit
<1> QED BY <1>2, <1>4, <1>6 DEF IsSettled, new, left

\* increment_sequence_number changes nothing of it.
LEMMA IncrementService ==
    ASSUME NEW uni \in SourceUniverse, NEW packets
    PROVE  SameService(uni, IncrementSequenceNumber(uni, packets))
<1> DEFINE Sent(kinds) == IF \E p \in packets : p.kind \in kinds THEN 1 ELSE 0
           next == (uni.next_seq_num + Sent({"levels", "term"}) + Sent({"pap"})
                      + Sent({"other"})) % SeqSize
<1>1. \A kinds : Sent(kinds) \in Nat
  OBVIOUS
<1>2. uni.next_seq_num \in Nat /\ SeqSize \in Nat \ {0}
  BY SourceAssumption DEF SourceUniverse
<1>3. next \in 0..(SeqSize - 1)
  <2>1. /\ Sent({"levels", "term"}) \in Nat /\ Sent({"pap"}) \in Nat
        /\ Sent({"other"}) \in Nat
    BY <1>1
  <2> HIDE DEF Sent
  <2> QED BY <1>2, <2>1
<1>4. IncrementSequenceNumber(uni, packets) =
        [uni EXCEPT !.next_seq_num = next, !.level_seq = next, !.pap_seq = next]
  BY DEF IncrementSequenceNumber
<1> HIDE DEF next
<1> QED BY <1>3, <1>4 DEF SameService, SourceUniverse

\* What a universe does after its unicast terminations serves what is then
\* left, and it is only over when nothing is.
LEMMA AfterUnicastSettles ==
    ASSUME NEW uni, NEW mode, NEW expired, NEW fail, NEW unicast, NEW owed,
           IsSettled(uni, unicast.dests, owed), PapFits(uni),
           unicast.terminating \in BOOLEAN,
           mode # "pap" /\ ~unicast.terminating =>
              \A k \in DOMAIN unicast.dests : unicast.dests[k].termination_state = "not"
    PROVE  LET result == AfterUnicast(uni, mode, expired, fail, unicast)
               rest == Owed(Ended(owed, result.ended), Live(result.packets))
           IN  /\ IsSettled(result.universe, unicast.dests, rest)
               /\ result.universe.termination_state = uni.termination_state
               /\ result.ended \subseteq Netints
               /\ result.finished => NothingOwed(rest)
<1> DEFINE result == AfterUnicast(uni, mode, expired, fail, unicast)
           rest == Owed(Ended(owed, result.ended), Live(result.packets))
<1>1. uni \in SourceUniverse /\ owed \in Owes
  BY DEF IsSettled
<1>2. Ended(owed, {}) = owed /\ Owed(owed, {}) = owed
  BY <1>1, EndedNone, OwedNone
<1>3. ASSUME \E ok : result = Untouched(uni, ok)
      PROVE  /\ IsSettled(result.universe, unicast.dests, rest)
             /\ result.universe.termination_state = uni.termination_state
             /\ result.ended \subseteq Netints
             /\ result.finished => NothingOwed(rest)
  <2>1. /\ result.universe = uni /\ result.finished = FALSE
        /\ result.packets = {} /\ result.ended = {}
    BY <1>3 DEF Untouched
  <2>2. Live(result.packets) = {}
    BY <2>1 DEF Live
  <2> HIDE DEF result
  <2>3. rest = owed
    BY <1>2, <2>1, <2>2
  <2> QED BY <2>1, <2>3
<1>4. ASSUME uni.termination_state = "not",
             \E sent : result = Transmit(uni, unicast.dests, mode, expired, fail, sent)
      PROVE  /\ IsSettled(result.universe, unicast.dests, rest)
             /\ result.universe.termination_state = uni.termination_state
             /\ result.ended \subseteq Netints
             /\ result.finished => NothingOwed(rest)
  <2>1. PICK sent : result = Transmit(uni, unicast.dests, mode, expired, fail, sent)
    BY <1>4
  <2> HIDE DEF result
  <2>2. /\ SameService(uni, result.universe)
        /\ result.ended = {}
        /\ result.finished = FALSE
        /\ \A t \in Live(result.packets) :
             uni.has_level_data /\ IsServed(uni, unicast.dests, t, TerminationsRequired)
    <3> DEFINE sends == Transmit(uni, unicast.dests, mode, expired, fail, sent)
    <3>1. /\ SameService(uni, sends.universe)
          /\ sends.ended = {}
          /\ sends.finished = FALSE
          /\ \A t \in Live(sends.packets) :
               uni.has_level_data /\ IsServed(uni, unicast.dests, t, TerminationsRequired)
      BY <1>1, <1>4, TransmitServes
    <3> HIDE DEF sends
    <3> QED BY <2>1, <3>1 DEF sends
  <2>3. IsSettled(uni, unicast.dests, rest)
    BY <1>2, <2>2, OwedSettles
  <2> HIDE DEF rest
  <2>4. IsSettled(result.universe, unicast.dests, rest)
    BY <2>2, <2>3, ServedAlike
  <2> QED BY <2>2, <2>4 DEF SameService
<1>5. ASSUME uni.termination_state # "not", mode # "pap",
             result = MulticastTermination(uni, fail["term"], unicast.terminating)
      PROVE  /\ IsSettled(result.universe, unicast.dests, rest)
             /\ result.universe.termination_state = uni.termination_state
             /\ result.ended \subseteq Netints
             /\ result.finished => NothingOwed(rest)
  <2>1. ~unicast.terminating =>
            \A k \in DOMAIN unicast.dests : unicast.dests[k].termination_state = "not"
    BY <1>5
  <2> HIDE DEF result
  <2>2. /\ IsSettled(result.universe, unicast.dests, Ended(owed, result.ended))
        /\ result.universe.termination_state = uni.termination_state
        /\ result.ended \subseteq Netints
        /\ Live(result.packets) = {}
        /\ result.finished => NothingOwed(Ended(owed, result.ended))
    BY <1>5, <2>1, MulticastSettles
  <2>3. Ended(owed, result.ended) \in Owes
    BY <1>1, EndedIs
  <2>4. rest = Ended(owed, result.ended)
    BY <2>2, <2>3, OwedNone
  <2> QED BY <2>2, <2>4
<1>6. \/ \E ok : result = Untouched(uni, ok)
      \/ /\ uni.termination_state = "not"
         /\ \E sent : result = Transmit(uni, unicast.dests, mode, expired, fail, sent)
      \/ /\ uni.termination_state # "not" /\ mode # "pap"
         /\ result = MulticastTermination(uni, fail["term"], unicast.terminating)
  <2>1. CASE ~unicast.ok
    <3>1. result = Untouched(uni, FALSE)
      BY <2>1 DEF AfterUnicast
    <3> QED BY <3>1
  <2>2. CASE unicast.ok /\ uni.termination_state = "not"
    <3>1. result = Transmit(uni, unicast.dests, mode, expired, fail, unicast.packets # {})
      BY <2>2 DEF AfterUnicast
    <3> QED BY <2>2, <3>1
  <2>3. CASE unicast.ok /\ uni.termination_state # "not"
    <3>1. result = IF mode = "pap" THEN Untouched(uni, TRUE)
                   ELSE MulticastTermination(uni, fail["term"], unicast.terminating)
      BY <2>3 DEF AfterUnicast
    <3> HIDE DEF result
    <3> QED BY <2>3, <3>1
  <2> QED BY <2>1, <2>2, <2>3
<1> HIDE DEF result
<1> QED BY <1>3, <1>4, <1>5, <1>6 DEF result

\* A pass serves what is left after it; a universe whose removal is over
\* leaves nothing.
LEMMA ProcessUniverseSettles ==
    ASSUME NEW uni, NEW dests, NEW mode, NEW all_sends_succeeded, NEW expired,
           NEW fail, NEW w, IsSettled(uni, dests, w.owed), PapFits(uni)
    PROVE  LET result == ProcessUniverse(uni, dests, mode, all_sends_succeeded,
                                         expired, fail)
               rest == WireAfter(w, result.packets, result.ended).owed
           IN  /\ rest \in Owes
               /\ IF result.finished /\ uni.termination_state = "removing"
                    THEN NothingOwed(rest)
                    ELSE IsSettled(result.universe, result.dests, rest)
<1> DEFINE unicast == IF mode = "pap"
                        THEN NoUnicastTermination(dests, all_sends_succeeded)
                        ELSE UnicastTermination(uni, dests, fail["term"])
           after == AfterUnicast(uni, mode, expired, fail, unicast)
           result == ProcessUniverse(uni, dests, mode, all_sends_succeeded,
                                     expired, fail)
           owed == Ended(w.owed, unicast.ended)
           rest == Owed(Ended(owed, after.ended), Live(after.packets))
           packets == unicast.packets \cup after.packets
           stays == IF IsReset(uni, after) THEN ResetUniverse(after.universe)
                    ELSE after.universe
           left == IF IsReset(uni, after)
                     THEN FinishDests(unicast.dests, DOMAIN unicast.dests)
                     ELSE unicast.dests
<1>1. w.owed \in Owes /\ uni \in SourceUniverse
  BY DEF IsSettled
<1>2. /\ IsSettled(uni, unicast.dests, owed)
      /\ unicast.ended \subseteq Addresses
      /\ unicast.terminating \in BOOLEAN
      /\ Live(unicast.packets) = {}
      /\ mode # "pap" /\ ~unicast.terminating =>
           \A k \in DOMAIN unicast.dests : unicast.dests[k].termination_state = "not"
  <2>1. CASE mode = "pap"
    <3>1. /\ unicast.dests = dests /\ unicast.ended = {} /\ unicast.packets = {}
          /\ unicast.terminating = FALSE
      BY <2>1 DEF NoUnicastTermination
    <3>2. Live(unicast.packets) = {}
      BY <3>1 DEF Live
    <3> HIDE DEF unicast
    <3>3. owed = w.owed
      BY <1>1, <3>1, EndedNone
    <3> QED BY <2>1, <3>1, <3>2, <3>3
  <2>2. CASE mode # "pap"
    <3>1. unicast = UnicastTermination(uni, dests, fail["term"])
      BY <2>2
    <3> HIDE DEF unicast
    <3>2. /\ IsSettled(uni, unicast.dests, Ended(w.owed, unicast.ended))
          /\ unicast.ended \subseteq Addresses
          /\ ~unicast.terminating =>
                \A k \in DOMAIN unicast.dests : unicast.dests[k].termination_state = "not"
      BY <3>1, UnicastSettles
    <3>3. unicast.terminating \in BOOLEAN
      BY <3>1 DEF UnicastTermination
    <3>4. Live(unicast.packets) = {}
      BY <3>1, UnicastPackets DEF Live
    <3> QED BY <3>2, <3>3, <3>4
  <2> QED BY <2>1, <2>2
<1>3. /\ result.universe = IncrementSequenceNumber(stays, packets)
      /\ result.dests = left
      /\ result.finished = after.finished
      /\ result.packets = packets
      /\ result.ended = unicast.ended \cup after.ended
  BY DEF ProcessUniverse, Outcome
<1> HIDE DEF unicast, result
<1>4. /\ IsSettled(after.universe, unicast.dests, rest)
      /\ after.universe.termination_state = uni.termination_state
      /\ after.ended \subseteq Netints
      /\ after.finished => NothingOwed(rest)
  <2> HIDE DEF owed
  <2> QED BY <1>2, AfterUnicastSettles
<1> HIDE DEF after
<1>5. Ended(owed, after.ended) = Ended(w.owed, unicast.ended \cup after.ended)
  <2>1. unicast.ended \cap after.ended = {}
    BY <1>2, <1>4, SourceAssumption
  <2> QED BY <1>1, <2>1, EndedTwice
<1>6. Live(packets) = Live(after.packets)
  <2>1. Live(packets) = Live(unicast.packets) \cup Live(after.packets)
    BY DEF Live
  <2> QED BY <1>2, <2>1
<1>7. WireAfter(w, result.packets, result.ended).owed = rest
  <2> HIDE DEF owed
  <2> QED BY <1>3, <1>5, <1>6, WireAfterOwed
<1>8. rest \in Owes
  BY <1>4 DEF IsSettled
<1> HIDE DEF owed, rest, packets
<1>9. ASSUME ~(result.finished /\ uni.termination_state = "removing")
      PROVE  IsSettled(result.universe, result.dests, rest)
  <2>1. IsSettled(stays, left, rest)
    <3>1. CASE IsReset(uni, after)
      <4>1. NothingOwed(rest) /\ after.universe \in SourceUniverse
            /\ DestsFit(after.universe, unicast.dests)
        BY <1>4, <3>1 DEF IsReset, IsSettled
      <4> QED BY <1>8, <3>1, <4>1, ResetSettles
    <3>2. CASE ~IsReset(uni, after)
      BY <1>4, <3>2
    <3> QED BY <3>1, <3>2
  <2> HIDE DEF stays, left
  <2>2. SameService(stays, result.universe)
    BY <1>3, <2>1, IncrementService DEF IsSettled
  <2> QED BY <1>3, <2>1, <2>2, ServedAlike
<1>10. result.finished => NothingOwed(rest)
  BY <1>3, <1>4
<1> QED BY <1>7, <1>8, <1>9, <1>10 DEF result

-----------------------------------------------------------------------------
(***************************************************************************)
(* The calls for a universe leave it settled.                              *)
(***************************************************************************)

\* set_unicast_dest_terminating for one destination, which is then served what it
\* was, and is given all terminations if it had none.
LEMMA DestTerminating ==
    ASSUME NEW dest \in UnicastDestination, NEW behavior \in {"keeping", "removing"}
    PROVE  LET new == SetTerminating(dest, behavior)
           IN  /\ new \in UnicastDestination
               /\ new.addr = dest.addr
               /\ new.termination_state =
                     IF dest.termination_state = "removing" THEN "removing" ELSE behavior
               /\ \A uni, n : n \in 0..TerminationsRequired /\ Serves(uni, dest, n)
                      => Serves(uni, new, n)
<1> DEFINE n == IF dest.termination_state = "not" THEN 0 ELSE dest.num_terminations_sent
           s == IF dest.termination_state = "removing" THEN "removing" ELSE behavior
           new == SetTerminating(dest, behavior)
<1>1. new = [dest EXCEPT !.num_terminations_sent = n, !.termination_state = s]
  BY DEF SetTerminating, UnicastDestination
<1>2. n \in 0..TerminationsRequired /\ s \in TerminationState /\ s # "not"
  BY SourceAssumption DEF UnicastDestination, TerminationState
<1> HIDE DEF n, s, new
<1>3. /\ new \in UnicastDestination
      /\ new.addr = dest.addr
      /\ new.termination_state = s /\ new.num_terminations_sent = n
  BY <1>1, <1>2 DEF UnicastDestination
<1>4. ASSUME NEW uni, NEW k \in 0..TerminationsRequired, Serves(uni, dest, k)
      PROVE  Serves(uni, new, k)
  <2>1. n + k <= TerminationsRequired
    <3>1. CASE dest.termination_state = "not"
      BY <3>1, SourceAssumption DEF n
    <3>2. CASE dest.termination_state # "not"
      BY <1>4, <3>2 DEF n, Serves
    <3> QED BY <3>1, <3>2
  <2> QED BY <1>2, <1>3, <2>1 DEF Serves
<1> QED BY <1>3, <1>4 DEF s, new

\* set_universe_terminating: the same for the universe.
LEMMA UniverseTerminating ==
    ASSUME NEW uni \in SourceUniverse, NEW behavior \in {"keeping", "removing"}
    PROVE  LET new == SetTerminating(uni, behavior)
           IN  /\ new \in SourceUniverse
               /\ Multicast(new) = Multicast(uni)
               /\ new.has_level_data = uni.has_level_data
               /\ new.termination_state =
                     IF uni.termination_state = "removing" THEN "removing" ELSE behavior
               /\ \A n : n \in 0..TerminationsRequired /\ Serves(uni, uni, n)
                      => Serves(new, new, n)
<1> DEFINE n == IF uni.termination_state = "not" THEN 0 ELSE uni.num_terminations_sent
           s == IF uni.termination_state = "removing" THEN "removing" ELSE behavior
           new == SetTerminating(uni, behavior)
<1>1. new = [uni EXCEPT !.num_terminations_sent = n, !.termination_state = s]
  BY DEF SetTerminating, SourceUniverse
<1>2. n \in 0..TerminationsRequired /\ s \in TerminationState /\ s # "not"
  BY SourceAssumption DEF SourceUniverse, TerminationState
<1> HIDE DEF n, s, new
<1>3. /\ new \in SourceUniverse
      /\ Multicast(new) = Multicast(uni)
      /\ new.has_level_data = uni.has_level_data
      /\ new.termination_state = s /\ new.num_terminations_sent = n
  BY <1>1, <1>2 DEF SourceUniverse, Multicast
<1>4. ASSUME NEW k \in 0..TerminationsRequired, Serves(uni, uni, k)
      PROVE  Serves(new, new, k)
  <2>1. n + k <= TerminationsRequired
    <3>1. CASE uni.termination_state = "not"
      BY <3>1, SourceAssumption DEF n
    <3>2. CASE uni.termination_state # "not"
      BY <1>4, <3>2 DEF n, Serves
    <3> QED BY <3>1, <3>2
  <2> QED BY <1>2, <1>3, <2>1 DEF Serves
<1> QED BY <1>3, <1>4 DEF s, new

\* A universe and its destinations told to terminate together are served as
\* before.
LEMMA TerminatingSettles ==
    ASSUME NEW uni, NEW dests, NEW owed, NEW behavior \in {"keeping", "removing"},
           IsSettled(uni, dests, owed),
           behavior = "keeping" => uni.termination_state # "removing"
    PROVE  IsSettled(SetTerminating(uni, behavior),
                     SetDestsTerminating(dests, behavior), owed)
<1> DEFINE new == SetTerminating(uni, behavior)
           left == SetDestsTerminating(dests, behavior)
<1>1. /\ uni \in SourceUniverse /\ owed \in Owes
      /\ Len(dests) \in Nat /\ DOMAIN dests = 1..Len(dests)
      /\ \A i \in DOMAIN dests : dests[i] \in UnicastDestination
  BY DEF IsSettled, DestsFit
<1>2. /\ new \in SourceUniverse
      /\ Multicast(new) = Multicast(uni)
      /\ new.has_level_data = uni.has_level_data
      /\ new.termination_state =
            IF uni.termination_state = "removing" THEN "removing" ELSE behavior
      /\ \A n : n \in 0..TerminationsRequired /\ Serves(uni, uni, n) => Serves(new, new, n)
  BY <1>1, UniverseTerminating
<1>3. DOMAIN left = DOMAIN dests
  BY DEF SetDestsTerminating
<1>4. ASSUME NEW i \in DOMAIN dests
      PROVE  /\ left[i] \in UnicastDestination
             /\ left[i].addr = dests[i].addr
             /\ left[i].termination_state =
                   IF dests[i].termination_state = "removing" THEN "removing" ELSE behavior
             /\ \A n : n \in 0..TerminationsRequired /\ Serves(uni, dests[i], n)
                    => Serves(new, left[i], n)
  <2>1. left[i] = SetTerminating(dests[i], behavior)
    BY DEF SetDestsTerminating
  <2> HIDE DEF left, new
  <2>2. dests[i] \in UnicastDestination
    BY <1>1
  <2>3. /\ left[i] \in UnicastDestination
        /\ left[i].addr = dests[i].addr
        /\ left[i].termination_state =
              IF dests[i].termination_state = "removing" THEN "removing" ELSE behavior
        /\ \A x, n : n \in 0..TerminationsRequired /\ Serves(x, dests[i], n)
               => Serves(x, left[i], n)
    BY <2>1, <2>2, DestTerminating
  <2>4. left[i].termination_state # "not"
    BY <2>3
  <2>5. \A n : Serves(uni, left[i], n) = Serves(new, left[i], n)
    BY <2>4 DEF Serves
  <2> QED BY <2>3, <2>5
<1> HIDE DEF new
<1>5. left \in Seq(UnicastDestination)
  <2>1. left \in [1..Len(dests) -> UnicastDestination]
    <3>1. left = [i \in 1..Len(dests) |-> left[i]]
      BY <1>1 DEF SetDestsTerminating
    <3> HIDE DEF left
    <3> QED BY <1>1, <1>4, <3>1
  <2> HIDE DEF left
  <2> QED BY <1>1, <2>1, SeqDef
<1> HIDE DEF left
<1>6. DestsFit(new, left)
  BY <1>2, <1>3, <1>4, <1>5 DEF DestsFit
<1>7. ASSUME NEW t \in Targets, owed[t] > 0
      PROVE  new.has_level_data /\ IsServed(new, left, t, owed[t])
  <2>1. owed[t] \in 0..TerminationsRequired
    BY <1>1 DEF Owes
  <2>2. uni.has_level_data /\ IsServed(uni, dests, t, owed[t])
    BY <1>7 DEF IsSettled, Covered
  <2>3. CASE t \in Multicast(uni) /\ Serves(uni, uni, owed[t])
    BY <1>2, <2>1, <2>2, <2>3 DEF IsServed
  <2>4. ASSUME NEW i \in DOMAIN dests, dests[i].addr = t, Serves(uni, dests[i], owed[t])
        PROVE  IsServed(new, left, t, owed[t])
    BY <1>3, <1>4, <2>1, <2>4 DEF IsServed
  <2> QED BY <1>2, <2>2, <2>3, <2>4 DEF IsServed
<1> QED BY <1>1, <1>2, <1>6, <1>7 DEF IsSettled, Covered, new, left

\* One destination told to terminate, of a universe that stays.
LEMMA RemovalSettles ==
    ASSUME NEW uni, NEW dests, NEW owed, NEW i \in DOMAIN dests,
           IsSettled(uni, dests, owed)
    PROVE  IsSettled(uni, [dests EXCEPT ![i] = SetTerminating(@, "removing")], owed)
<1> DEFINE left == [dests EXCEPT ![i] = SetTerminating(@, "removing")]
<1>1. /\ uni \in SourceUniverse /\ owed \in Owes
      /\ Len(dests) \in Nat /\ DOMAIN dests = 1..Len(dests)
      /\ \A k \in DOMAIN dests : dests[k] \in UnicastDestination
      /\ dests \in Seq(UnicastDestination)
  BY DEF IsSettled, DestsFit
<1>2. /\ SetTerminating(dests[i], "removing") \in UnicastDestination
      /\ SetTerminating(dests[i], "removing").addr = dests[i].addr
      /\ SetTerminating(dests[i], "removing").termination_state = "removing"
      /\ \A x, n : n \in 0..TerminationsRequired /\ Serves(x, dests[i], n)
             => Serves(x, SetTerminating(dests[i], "removing"), n)
  BY <1>1, DestTerminating
<1>3. /\ left \in Seq(UnicastDestination)
      /\ DOMAIN left = DOMAIN dests
      /\ left[i] = SetTerminating(dests[i], "removing")
      /\ \A k \in DOMAIN dests : k # i => left[k] = dests[k]
  BY <1>1, <1>2
<1> HIDE DEF left
<1>4. ASSUME NEW k \in DOMAIN dests
      PROVE  /\ left[k].addr = dests[k].addr
             /\ uni.termination_state = "removing" => left[k].termination_state = "removing"
             /\ left[k].termination_state = "keeping" => uni.termination_state = "keeping"
             /\ \A n : n \in 0..TerminationsRequired /\ Serves(uni, dests[k], n)
                    => Serves(uni, left[k], n)
  <2>1. CASE k = i
    BY <1>2, <1>3, <2>1
  <2>2. CASE k # i
    BY <1>3, <2>2 DEF IsSettled, DestsFit
  <2> QED BY <2>1, <2>2
<1>5. DestsFit(uni, left)
  BY <1>3, <1>4 DEF DestsFit
<1>6. ASSUME NEW t \in Targets, owed[t] > 0
      PROVE  uni.has_level_data /\ IsServed(uni, left, t, owed[t])
  <2>1. owed[t] \in 0..TerminationsRequired
    BY <1>1 DEF Owes
  <2>2. uni.has_level_data /\ IsServed(uni, dests, t, owed[t])
    BY <1>6 DEF IsSettled, Covered
  <2> QED BY <1>3, <1>4, <2>1, <2>2 DEF IsServed
<1> QED BY <1>1, <1>5, <1>6 DEF IsSettled, Covered, left

\* cancel_termination_if_not_removing: the universe transmits again, and so do
\* the destinations that are not being removed.
LEMMA CancelSettles ==
    ASSUME NEW uni, NEW new, NEW dests, NEW owed, IsSettled(uni, dests, owed),
           uni.termination_state # "removing",
           new \in SourceUniverse, new.has_level_data,
           new.termination_state = "not", Multicast(new) = Multicast(uni)
    PROVE  IsSettled(new, CancelDests(uni, dests), owed)
<1> DEFINE left == CancelDests(uni, dests)
<1>1. /\ uni \in SourceUniverse /\ owed \in Owes
      /\ Len(dests) \in Nat /\ DOMAIN dests = 1..Len(dests)
      /\ \A i \in DOMAIN dests : dests[i] \in UnicastDestination
  BY DEF IsSettled, DestsFit
<1>2. DOMAIN left = DOMAIN dests
  BY DEF CancelDests
<1>3. ASSUME NEW i \in DOMAIN dests
      PROVE  /\ left[i] \in UnicastDestination
             /\ left[i].addr = dests[i].addr
             /\ left[i].termination_state # "keeping"
             /\ \A n : Serves(uni, dests[i], n) => Serves(new, left[i], n)
  <2>1. dests[i] \in UnicastDestination
    BY <1>1
  <2>2. dests[i].termination_state = "keeping" => uni.termination_state = "keeping"
    BY DEF IsSettled, DestsFit
  <2>3. CASE dests[i].termination_state = "keeping"
    <3>1. left[i] = NewDest(dests[i].addr)
      BY <2>2, <2>3 DEF CancelDests
    <3> HIDE DEF left
    <3>2. dests[i].addr \in Addresses
      BY <2>1 DEF UnicastDestination
    <3>3. left[i] \in UnicastDestination
      BY <3>1, <3>2, NewDestIs
    <3> QED BY <3>1, <3>3 DEF NewDest, Serves
  <2>4. CASE dests[i].termination_state # "keeping"
    <3>1. left[i] = dests[i]
      BY <2>4 DEF CancelDests
    <3> HIDE DEF left
    <3> QED BY <2>1, <2>4, <3>1 DEF Serves
  <2> QED BY <2>3, <2>4
<1>4. left \in Seq(UnicastDestination)
  <2>1. left \in [1..Len(dests) -> UnicastDestination]
    <3>1. left = [i \in 1..Len(dests) |-> left[i]]
      BY <1>1 DEF CancelDests
    <3> HIDE DEF left
    <3> QED BY <1>1, <1>3, <3>1
  <2> HIDE DEF left
  <2> QED BY <1>1, <2>1, SeqDef
<1> HIDE DEF left
<1>5. DestsFit(new, left)
  BY <1>2, <1>3, <1>4 DEF DestsFit
<1>6. ASSUME NEW t \in Targets, owed[t] > 0
      PROVE  IsServed(new, left, t, owed[t])
  <2>1. IsServed(uni, dests, t, owed[t])
    BY <1>6 DEF IsSettled, Covered
  <2>2. \A n : Serves(new, new, n)
    BY DEF Serves
  <2> QED BY <1>2, <1>3, <2>1, <2>2 DEF IsServed
<1> QED BY <1>1, <1>5, <1>6 DEF IsSettled, Covered, left

\* A destination that is added, in place of those that were being removed.  If
\* the transmission is being ended, nothing may be owed to it.
LEMMA AdditionSettles ==
    ASSUME NEW uni, NEW dests, NEW owed, NEW new, NEW addr \in Addresses, NEW S,
           IsSettled(uni, dests, owed), NEW rest \in Owes,
           uni.termination_state # "removing",
           S \subseteq DOMAIN dests,
           \A i \in S : dests[i].addr = addr /\ dests[i].termination_state = "removing",
           \A t \in Targets : rest[t] > 0 => rest[t] = owed[t],
           uni.termination_state = "keeping" => rest[addr] = 0,
           SameService(uni, new)
    PROVE  IsSettled(new, Append(FinishDests(dests, S), NewDest(addr)), rest)
<1> DEFINE stay == FinishDests(dests, S)
           left == Append(stay, NewDest(addr))
<1>1. /\ uni \in SourceUniverse /\ owed \in Owes
      /\ dests \in Seq(UnicastDestination)
      /\ \A i \in DOMAIN dests :
            /\ dests[i] \in UnicastDestination
            /\ dests[i].termination_state = "keeping" => uni.termination_state = "keeping"
  BY DEF IsSettled, DestsFit
<1>2. /\ stay \in Seq(UnicastDestination)
      /\ \A k \in DOMAIN stay : \E i \in DOMAIN dests :
            /\ i \in S => dests[i].termination_state # "removing"
            /\ stay[k] = IF i \in S THEN NewDest(dests[i].addr) ELSE dests[i]
      /\ \A i \in DOMAIN dests :
            (i \in S => dests[i].termination_state # "removing") =>
              \E k \in DOMAIN stay :
                 stay[k] = IF i \in S THEN NewDest(dests[i].addr) ELSE dests[i]
  BY <1>1, FinishDestsAre
<1> HIDE DEF stay
<1>3. \A k \in DOMAIN stay :
         stay[k].termination_state = "keeping" => uni.termination_state = "keeping"
  BY <1>1, <1>2
<1>4. \A i \in DOMAIN dests : i \notin S => \E k \in DOMAIN stay : stay[k] = dests[i]
  <2> SUFFICES ASSUME NEW i \in DOMAIN dests, i \notin S
               PROVE  \E k \in DOMAIN stay : stay[k] = dests[i]
    OBVIOUS
  <2>1. \E k \in DOMAIN stay :
           stay[k] = IF i \in S THEN NewDest(dests[i].addr) ELSE dests[i]
    BY <1>2
  <2> QED BY <2>1
<1>5. /\ left \in Seq(UnicastDestination)
      /\ DOMAIN left = 1..(Len(stay) + 1)
      /\ \A k \in DOMAIN stay : k \in DOMAIN left /\ left[k] = stay[k]
      /\ left[Len(stay) + 1] = NewDest(addr)
      /\ \A k \in DOMAIN left : k \in DOMAIN stay \/ k = Len(stay) + 1
  <2>1. NewDest(addr) \in UnicastDestination
    BY NewDestIs
  <2>2. Len(stay) \in Nat /\ DOMAIN stay = 1..Len(stay)
    BY <1>2
  <2>3. left \in Seq(UnicastDestination) /\ Len(left) = Len(stay) + 1
    BY <1>2, <2>1
  <2>4. DOMAIN left = 1..(Len(stay) + 1)
    BY <2>3
  <2> QED BY <1>2, <2>1, <2>2, <2>3, <2>4
<1> HIDE DEF left
<1>6. \A k \in DOMAIN left :
         left[k].termination_state = "keeping" => uni.termination_state = "keeping"
  BY <1>3, <1>5 DEF NewDest
<1>7. DestsFit(uni, left)
  BY <1>5, <1>6 DEF DestsFit
<1>8. ASSUME NEW t \in Targets, rest[t] > 0
      PROVE  uni.has_level_data /\ IsServed(uni, left, t, rest[t])
  <2>1. rest[t] = owed[t] /\ owed[t] > 0
    BY <1>8
  <2>2. uni.has_level_data /\ IsServed(uni, dests, t, owed[t])
    BY <2>1 DEF IsSettled, Covered
  <2>3. CASE t = addr
    <3>1. rest[addr] # 0
      BY <1>8, <2>3 DEF Owes
    <3>2. uni.termination_state = "not"
      BY <1>1, <3>1 DEF SourceUniverse, TerminationState
    <3>3. Serves(uni, NewDest(addr), rest[t])
      BY <3>2 DEF Serves, NewDest
    <3>4. Len(stay) + 1 \in DOMAIN left
      BY <1>2, <1>5
    <3>5. left[Len(stay) + 1].addr = t
      BY <1>5, <2>3 DEF NewDest
    <3> QED BY <1>5, <2>2, <3>3, <3>4, <3>5 DEF IsServed
  <2>4. CASE t # addr
    <3>1. ASSUME NEW i \in DOMAIN dests, dests[i].addr = t, Serves(uni, dests[i], owed[t])
          PROVE  IsServed(uni, left, t, rest[t])
      <4>1. i \notin S
        BY <2>4, <3>1
      <4>2. PICK k \in DOMAIN stay : stay[k] = dests[i]
        BY <1>4, <4>1
      <4>3. k \in DOMAIN left /\ left[k] = dests[i]
        BY <1>5, <4>2
      <4> QED BY <2>1, <3>1, <4>3 DEF IsServed
    <3> QED BY <2>1, <2>2, <3>1 DEF IsServed
  <2> QED BY <2>3, <2>4
<1>9. IsSettled(uni, left, rest)
  BY <1>1, <1>7, <1>8 DEF IsSettled, Covered
<1> QED BY <1>9, ServedAlike DEF left, stay

\* Other interfaces, when the targets that are taken away are forgotten.
LEMMA NetintsSettle ==
    ASSUME NEW uni, NEW dests, NEW w \in Wire, NEW new,
           IsSettled(uni, dests, w.owed),
           new \in SourceUniverse,
           new.termination_state = uni.termination_state,
           new.num_terminations_sent = uni.num_terminations_sent,
           new.has_level_data = uni.has_level_data,
           new.send_unicast_only = uni.send_unicast_only
    PROVE  LET rest == WireFor(w, TargetsOf(new, dests)).owed
           IN  /\ IsSettled(new, dests, rest)
               /\ NothingOwed(w.owed) => NothingOwed(rest)
<1> DEFINE rest == WireFor(w, TargetsOf(new, dests)).owed
<1>1. /\ rest = [t \in Targets |-> IF t \in TargetsOf(new, dests) THEN w.owed[t] ELSE 0]
  BY DEF WireFor, Wire
<1>2. w.owed \in Owes
  BY DEF IsSettled
<1> HIDE DEF rest
<1>3. \A t \in Targets : rest[t] = IF t \in TargetsOf(new, dests) THEN w.owed[t] ELSE 0
  BY <1>1
<1>4. rest \in Owes
  <2>1. 0 \in 0..TerminationsRequired
    BY SourceAssumption
  <2>2. \A t \in Targets : rest[t] \in 0..TerminationsRequired
    BY <1>2, <1>3, <2>1 DEF Owes
  <2> QED BY <1>1, <2>2 DEF Owes
<1>5. NothingOwed(w.owed) => NothingOwed(rest)
  BY <1>3 DEF NothingOwed
<1>6. ASSUME NEW t \in Targets, rest[t] > 0
      PROVE  new.has_level_data /\ IsServed(new, dests, t, rest[t])
  <2>1. t \in TargetsOf(new, dests) /\ rest[t] = w.owed[t] /\ w.owed[t] > 0
    BY <1>3, <1>6
  <2>2. uni.has_level_data /\ IsServed(uni, dests, t, w.owed[t])
    BY <2>1 DEF IsSettled, Covered
  <2>3. \A x, n : Serves(new, x, n) = Serves(uni, x, n)
    BY DEF Serves
  <2>4. \A n : Serves(new, new, n) = Serves(uni, uni, n)
    BY DEF Serves
  <2>5. CASE t \in Multicast(uni) /\ Serves(uni, uni, w.owed[t])
    <3>1. ~uni.send_unicast_only /\ t \in Netints
      BY <2>5 DEF Multicast, IsSettled, SourceUniverse
    <3>2. t \notin Addrs(dests, DOMAIN dests)
      <4>1. \A i \in DOMAIN dests : dests[i].addr \in Addresses
        <5>1. \A i \in DOMAIN dests : dests[i] \in UnicastDestination
          BY DEF IsSettled, DestsFit
        <5> QED BY <5>1 DEF UnicastDestination
      <4> QED BY <3>1, <4>1, SourceAssumption DEF Addrs
    <3>3. t \in Multicast(new)
      BY <2>1, <3>1, <3>2 DEF TargetsOf, Multicast
    <3> QED BY <2>1, <2>2, <2>4, <2>5, <3>3 DEF IsServed
  <2>6. ASSUME NEW i \in DOMAIN dests, dests[i].addr = t, Serves(uni, dests[i], w.owed[t])
        PROVE  IsServed(new, dests, t, rest[t])
    BY <2>1, <2>3, <2>6 DEF IsServed
  <2> QED BY <2>2, <2>5, <2>6 DEF IsServed
<1>7. DestsFit(new, dests)
  BY DEF IsSettled, DestsFit
<1> QED BY <1>4, <1>5, <1>6, <1>7 DEF IsSettled, Covered, rest

\* A new universe owes nothing.
LEMMA NewSettles ==
    ASSUME NEW only \in BOOLEAN, NEW ints \in SUBSET Netints,
           NEW addrs \in Seq(Addresses)
    PROVE  /\ IsSettled(NewUniverse(only, ints), NewDests(addrs), Unused.owed)
           /\ NothingOwed(Unused.owed)
<1> DEFINE uni == NewUniverse(only, ints)
           dests == NewDests(addrs)
<1>1. Unused.owed = [t \in Targets |-> 0]
  BY DEF Unused
<1>2. NothingOwed(Unused.owed) /\ Unused.owed \in Owes
  BY <1>1, SourceAssumption DEF NothingOwed, Owes
<1>3. uni \in SourceUniverse /\ uni.termination_state = "not"
  <2>1. 0 \in 0..TerminationsRequired /\ 0 \in 0..(SeqSize - 1) /\ 0 \in 0..PreSuppression
    BY SourceAssumption
  <2> QED BY <2>1 DEF NewUniverse, SourceUniverse, TerminationState
<1>4. Len(addrs) \in Nat /\ DOMAIN addrs = 1..Len(addrs)
      /\ \A i \in DOMAIN addrs : addrs[i] \in Addresses
  OBVIOUS
<1>5. /\ DOMAIN dests = DOMAIN addrs
      /\ \A i \in DOMAIN dests : /\ dests[i] \in UnicastDestination
                                 /\ dests[i].termination_state = "not"
  <2>1. /\ DOMAIN dests = DOMAIN addrs
        /\ \A i \in DOMAIN dests : dests[i] = NewDest(addrs[i])
    BY DEF NewDests
  <2> HIDE DEF dests
  <2>2. \A i \in DOMAIN dests : NewDest(addrs[i]) \in UnicastDestination
    BY <1>4, <2>1, NewDestIs
  <2> QED BY <2>1, <2>2 DEF NewDest
<1>6. dests \in Seq(UnicastDestination)
  <2>1. dests = [i \in 1..Len(addrs) |-> dests[i]]
    BY <1>4 DEF NewDests
  <2> HIDE DEF dests
  <2>2. dests \in [1..Len(addrs) -> UnicastDestination]
    BY <1>4, <1>5, <2>1
  <2> QED BY <1>4, <2>2, SeqDef
<1> HIDE DEF uni, dests
<1>7. DestsFit(uni, dests)
  BY <1>3, <1>5, <1>6 DEF DestsFit
<1>8. Covered(uni, dests, Unused.owed)
  BY <1>2 DEF Covered, NothingOwed
<1> QED BY <1>2, <1>3, <1>7, <1>8 DEF IsSettled, uni, dests

-----------------------------------------------------------------------------
(***************************************************************************)
(* The invariant of what is owed: every tracked universe is settled, and   *)
(* nothing is owed by others, nor to anyone when the thread is gone or     *)
(* about to go.                                                            *)
(***************************************************************************)

Settled(unis, dests, ws) ==
    /\ DOMAIN unis \subseteq Universes
    /\ dests \in [DOMAIN unis -> Seq(UnicastDestination)]
    /\ \A u \in DOMAIN unis : IsSettled(unis[u], dests[u], ws[u].owed)
    /\ \A u \in Universes \ DOMAIN unis : NothingOwed(ws[u].owed)

NothingLeft(ws) == \A u \in Universes : NothingOwed(ws[u].owed)

IsControlled ==
    /\ source \in {"none", "active", "terminating"}
    /\ manual \in BOOLEAN
    /\ shutting_down \in BOOLEAN
    /\ thread \in {"off", "levels", "pap", "check"}
    /\ discovery_failed \in BOOLEAN
    /\ sources_tracked \in BOOLEAN
    /\ source = "none" => Tracked = {}
    /\ shutting_down => ~(manual /\ source # "none")

\* The thread does nothing more for the universes that there are.
IsIdle == ~manual /\ (thread = "off" \/ (thread = "check" /\ ~sources_tracked))

SInv ==
    /\ Settled(universes, unicast_dests, wire)
    /\ IsControlled
    /\ IsIdle => NothingLeft(wire)

\* Calls that leave the source and the thread alone, and bring no new data.
LEMMA ControlsKeep ==
    ASSUME SInv, UNCHANGED <<source, manual, threadVars>>,
           source = "none" => Tracked' = {},
           \A u \in Universes : NothingOwed(wire[u].owed) => NothingOwed(wire'[u].owed)
    PROVE  IsControlled' /\ (IsIdle' => NothingLeft(wire'))
<1>1. IsControlled'
  BY DEF SInv, IsControlled, threadVars
<1>2. IsIdle' => IsIdle
  BY DEF IsIdle, threadVars
<1> QED BY <1>1, <1>2 DEF SInv, NothingLeft

\* A call replaces one tracked universe by one that is settled.
LEMMA CallSettles ==
    ASSUME SInv, NEW u \in Tracked, NEW uni, NEW dests, Update(u, uni, dests),
           IsSettled(uni, dests, wire'[u].owed),
           NothingOwed(wire[u].owed) => NothingOwed(wire'[u].owed),
           \A v \in Universes \ {u} : wire'[v] = wire[v]
    PROVE  SInv'
<1>1. /\ universes' = [universes EXCEPT ![u] = uni]
      /\ unicast_dests' = [unicast_dests EXCEPT ![u] = dests]
      /\ UNCHANGED <<source, manual, threadVars>>
  BY DEF Update
<1>2. /\ DOMAIN universes = Tracked /\ Tracked \subseteq Universes
      /\ unicast_dests \in [Tracked -> Seq(UnicastDestination)]
      /\ \A v \in Tracked : IsSettled(universes[v], unicast_dests[v], wire[v].owed)
      /\ \A v \in Universes \ Tracked : NothingOwed(wire[v].owed)
  BY DEF SInv, Settled, Tracked
<1>3. /\ DOMAIN universes' = Tracked
      /\ universes'[u] = uni /\ unicast_dests'[u] = dests
      /\ \A v \in Tracked \ {u} :
            universes'[v] = universes[v] /\ unicast_dests'[v] = unicast_dests[v]
  BY <1>1, <1>2
<1>4. unicast_dests' \in [Tracked -> Seq(UnicastDestination)]
  <2>1. dests \in Seq(UnicastDestination)
    BY DEF IsSettled, DestsFit
  <2> QED BY <1>1, <1>2, <2>1
<1>5. Settled(universes', unicast_dests', wire')
  BY <1>2, <1>3, <1>4 DEF Settled
<1>6. \A v \in Universes : NothingOwed(wire[v].owed) => NothingOwed(wire'[v].owed)
  OBVIOUS
<1>7. source = "none" => Tracked' = {}
  BY <1>2, <1>3 DEF SInv, IsControlled, Tracked
<1>8. IsControlled' /\ (IsIdle' => NothingLeft(wire'))
  BY <1>1, <1>6, <1>7, ControlsKeep
<1> QED BY <1>5, <1>8 DEF SInv

\* What the invariant says of a tracked universe.
LEMMA HoldsSettled ==
    ASSUME SInv, NEW u \in Tracked
    PROVE  /\ u \in Universes
           /\ universes[u] \in SourceUniverse
           /\ IsSettled(universes[u], unicast_dests[u], wire[u].owed)
  BY DEF SInv, Settled, IsSettled, Tracked

\* Calls that leave the history alone.
LEMMA QuietSettles ==
    ASSUME SInv, NEW u \in Tracked, NEW uni, NEW dests, Update(u, uni, dests),
           UNCHANGED wire, IsSettled(uni, dests, wire[u].owed)
    PROVE  SInv'
<1>1. wire'[u].owed = wire[u].owed
  OBVIOUS
<1>2. \A v \in Universes \ {u} : wire'[v] = wire[v]
  OBVIOUS
<1>3. IsSettled(uni, dests, wire'[u].owed)
  BY <1>1
<1> QED BY <1>1, <1>2, <1>3, CallSettles

\* sacn_source_remove_universe keeps the invariant.
LEMMA RemoveUniverseSettles ==
    ASSUME SInv, NEW u, RemoveUniverse(u)
    PROVE  SInv'
<1> DEFINE uni == SetTerminating(universes[u], "removing")
           dests == SetDestsTerminating(unicast_dests[u], "removing")
<1>1. u \in Tracked /\ Update(u, uni, dests) /\ UNCHANGED wire
  BY DEF RemoveUniverse, IsFound
<1>2. IsSettled(universes[u], unicast_dests[u], wire[u].owed)
  BY <1>1, HoldsSettled
<1>3. IsSettled(uni, dests, wire[u].owed)
  BY <1>2, TerminatingSettles
<1> HIDE DEF uni, dests
<1> QED BY <1>1, <1>3, QuietSettles

\* sacn_source_remove_unicast_destination keeps the invariant.
LEMMA RemoveUnicastDestinationSettles ==
    ASSUME SInv, NEW u, NEW addr, RemoveUnicastDestination(u, addr)
    PROVE  SInv'
<1> DEFINE Left(i) == [unicast_dests[u] EXCEPT ![i] = SetTerminating(@, "removing")]
<1>1. u \in Tracked /\ UNCHANGED wire
  BY DEF RemoveUnicastDestination, IsFound
<1>2. PICK i \in DOMAIN unicast_dests[u] : Update(u, universes[u], Left(i))
  BY DEF RemoveUnicastDestination
<1>3. IsSettled(universes[u], unicast_dests[u], wire[u].owed)
  BY <1>1, HoldsSettled
<1>4. IsSettled(universes[u], Left(i), wire[u].owed)
  BY <1>3, RemovalSettles
<1> HIDE DEF Left
<1> QED BY <1>1, <1>2, <1>4, QuietSettles

\* The changes of a universe that leave its levels and termination alone.
LEMMA ServiceKept ==
    ASSUME NEW uni \in SourceUniverse
    PROVE  /\ SameService(uni, ResetSuppression(uni))
           /\ SameService(uni, WithoutPap(uni))
           /\ SameService(uni, WithPap(uni))
<1>1. 0 \in 0..PreSuppression
  BY SourceAssumption
<1> QED
  BY <1>1 DEF SameService, SourceUniverse, ResetSuppression, WithoutPap, WithPap

\* set_universe_priority and set_preview_flag keep the invariant.
LEMMA ChangeSettingsSettles ==
    ASSUME SInv, NEW u, ChangeSettings(u)
    PROVE  SInv'
<1> DEFINE uni == ResetSuppression(universes[u])
<1>1. u \in Tracked /\ Update(u, uni, unicast_dests[u]) /\ UNCHANGED wire
  BY DEF ChangeSettings, IsFound
<1>2. IsSettled(universes[u], unicast_dests[u], wire[u].owed)
      /\ universes[u] \in SourceUniverse
  BY <1>1, HoldsSettled
<1>3. IsSettled(uni, unicast_dests[u], wire[u].owed)
  BY <1>2, ServiceKept, ServedAlike
<1> HIDE DEF uni
<1> QED BY <1>1, <1>3, QuietSettles

\* The calls without levels keep the invariant.
LEMMA EndLevelsSettles ==
    ASSUME SInv, NEW u, EndLevels(u)
    PROVE  SInv'
<1> DEFINE mid == SetTerminating(universes[u], "keeping")
           uni == WithoutPap(mid)
           dests == SetDestsTerminating(unicast_dests[u], "keeping")
<1>1. /\ u \in Tracked /\ Update(u, uni, dests) /\ UNCHANGED wire
      /\ universes[u].termination_state # "removing"
  BY DEF EndLevels, IsFound
<1>2. IsSettled(universes[u], unicast_dests[u], wire[u].owed)
  BY <1>1, HoldsSettled
<1>3. IsSettled(mid, dests, wire[u].owed)
  BY <1>1, <1>2, TerminatingSettles
<1> HIDE DEF mid, dests
<1>4. SameService(mid, uni)
  BY <1>3, ServiceKept DEF IsSettled
<1> HIDE DEF uni
<1>5. IsSettled(uni, dests, wire[u].owed)
  BY <1>3, <1>4, ServedAlike
<1> QED BY <1>1, <1>5, QuietSettles

\* New levels, after whatever was done for the priorities.
LEMMA WithLevelsSettles ==
    ASSUME NEW uni, NEW mid, NEW dests, NEW owed, IsSettled(uni, dests, owed),
           uni.termination_state # "removing", SameService(uni, mid)
    PROVE  IsSettled(WithLevels(mid), CancelDests(uni, dests), owed)
<1> DEFINE new == WithLevels(mid)
           cancelled == CancelTermination(mid)
<1>1. /\ 0 \in 0..PreSuppression /\ 0 \in 0..TerminationsRequired
      /\ mid \in SourceUniverse /\ uni \in SourceUniverse
      /\ mid.termination_state = uni.termination_state
      /\ mid.send_unicast_only = uni.send_unicast_only
      /\ mid.netints = uni.netints
  BY SourceAssumption DEF IsSettled, SameService
<1>2. /\ cancelled \in SourceUniverse
      /\ cancelled.termination_state = "not"
      /\ cancelled.send_unicast_only = mid.send_unicast_only
      /\ cancelled.netints = mid.netints
  <2>1. CASE mid.termination_state = "keeping"
    BY <1>1, <2>1 DEF CancelTermination, SourceUniverse, TerminationState
  <2>2. CASE mid.termination_state # "keeping"
    <3>1. mid.termination_state = "not"
      BY <1>1, <2>2 DEF SourceUniverse, TerminationState
    <3> QED BY <1>1, <2>2, <3>1 DEF CancelTermination
  <2> QED BY <2>1, <2>2
<1>3. new = [cancelled EXCEPT !.has_level_data = TRUE, !.level_packets = 0]
  BY DEF WithLevels
<1> HIDE DEF new, cancelled
<1>4. /\ new \in SourceUniverse /\ new.has_level_data
      /\ new.termination_state = "not" /\ Multicast(new) = Multicast(uni)
  BY <1>1, <1>2, <1>3 DEF SourceUniverse, Multicast
<1> QED BY <1>4, CancelSettles DEF new

\* The calls with levels keep the invariant.
LEMMA SetLevelsSettles ==
    ASSUME SInv, NEW u, NEW mid, SetLevels(u, WithLevels(mid)),
           u \in Tracked => SameService(universes[u], mid)
    PROVE  SInv'
<1> DEFINE uni == WithLevels(mid)
           dests == CancelDests(universes[u], unicast_dests[u])
<1>1. /\ u \in Tracked /\ Update(u, uni, dests) /\ UNCHANGED wire
      /\ universes[u].termination_state # "removing"
  BY DEF SetLevels, IsFound
<1>2. IsSettled(universes[u], unicast_dests[u], wire[u].owed)
  BY <1>1, HoldsSettled
<1>3. IsSettled(uni, dests, wire[u].owed)
  BY <1>1, <1>2, WithLevelsSettles
<1> HIDE DEF uni, dests
<1> QED BY <1>1, <1>3, QuietSettles

\* sacn_source_update_levels keeps the invariant.
LEMMA UpdateLevelsSettles ==
    ASSUME SInv, NEW u, UpdateLevels(u)
    PROVE  SInv'
<1>1. SetLevels(u, WithLevels(universes[u]))
  BY DEF UpdateLevels
<1>2. u \in Tracked => SameService(universes[u], universes[u])
  BY HoldsSettled DEF SameService
<1> QED BY <1>1, <1>2, SetLevelsSettles

\* sacn_source_update_levels_and_pap keeps the invariant.
LEMMA UpdateLevelsAndPapSettles ==
    ASSUME SInv, NEW u, NEW pap, UpdateLevelsAndPap(u, pap)
    PROVE  SInv'
<1> DEFINE mid == IF pap THEN WithPap(universes[u]) ELSE WithoutPap(universes[u])
<1>1. SetLevels(u, WithLevels(mid))
  BY DEF UpdateLevelsAndPap, WithLevelsAndPap
<1>2. u \in Tracked => SameService(universes[u], mid)
  BY HoldsSettled, ServiceKept
<1> HIDE DEF mid
<1> QED BY <1>1, <1>2, SetLevelsSettles

\* sacn_source_send_now keeps the invariant: its packets are no data.
LEMMA SendNowSettles ==
    ASSUME SInv, NEW u, NEW failing, SendNow(u, failing)
    PROVE  SInv'
<1> DEFINE to == (Multicast(universes[u]) \cup Unicast(unicast_dests[u])) \ failing
           packets == Packets("other", universes[u].next_seq_num, to)
           uni == IncrementSequenceNumber(universes[u], packets)
           after == WireAfter(wire[u], packets, {})
<1>1. /\ u \in Tracked /\ Update(u, uni, unicast_dests[u])
      /\ wire' = [wire EXCEPT ![u] = after]
  BY DEF SendNow, IsFound
<1>2. /\ IsSettled(universes[u], unicast_dests[u], wire[u].owed)
      /\ universes[u] \in SourceUniverse /\ wire[u].owed \in Owes
  BY <1>1, HoldsSettled DEF IsSettled
<1>3. Live(packets) = {}
  BY DEF Live, Packets
<1>4. SameService(universes[u], uni)
  BY <1>2, IncrementService
<1> HIDE DEF packets, uni
<1>5. after.owed = wire[u].owed
  <2>1. after.owed = Owed(Ended(wire[u].owed, {}), Live(packets))
    BY WireAfterOwed
  <2>2. Ended(wire[u].owed, {}) = wire[u].owed /\ Owed(wire[u].owed, {}) = wire[u].owed
    BY <1>2, EndedNone, OwedNone
  <2> HIDE DEF after
  <2> QED BY <1>3, <2>1, <2>2
<1> HIDE DEF after
<1>6. IsSettled(uni, unicast_dests[u], wire[u].owed)
  BY <1>2, <1>4, ServedAlike
<1>7. wire'[u].owed = wire[u].owed /\ \A v \in Universes \ {u} : wire'[v] = wire[v]
  <2>1. CASE u \in DOMAIN wire
    BY <1>1, <1>5, <2>1
  <2>2. CASE u \notin DOMAIN wire
    BY <1>1, <2>2
  <2> QED BY <2>1, <2>2
<1>8. IsSettled(uni, unicast_dests[u], wire'[u].owed)
  BY <1>6, <1>7
<1> QED BY <1>1, <1>7, <1>8, CallSettles

\* sacn_source_add_unicast_destination keeps the invariant.
LEMMA AddUnicastDestinationSettles ==
    ASSUME IInv, SInv, NEW u, NEW addr \in Addresses, AddUnicastDestination(u, addr)
    PROVE  SInv'
<1> DEFINE old == unicast_dests[u]
           found == {i \in DOMAIN old : IsDest(old, i, addr)}
           uni == ResetSuppression(universes[u])
           dests == Append(FinishDests(old, found), NewDest(addr))
           owed == wire[u].owed
           rest == wire'[u].owed
<1>1. /\ u \in Tracked
      /\ universes[u].termination_state # "removing"
      /\ \A i \in found : old[i].termination_state = "removing"
      /\ Update(u, uni, dests)
      /\ wire' = IF universes[u].termination_state = "keeping"
                   THEN [wire EXCEPT ![u].owed[addr] = 0] ELSE wire
  BY DEF AddUnicastDestination, IsFound
<1>2. /\ IsSettled(universes[u], old, owed)
      /\ universes[u] \in SourceUniverse /\ u \in Universes
      /\ wire \in [Universes -> Wire] /\ owed \in Owes
  BY <1>1, HoldsSettled DEF IInv, IsHistory, IsSettled
<1>3. SameService(universes[u], uni)
  BY <1>2, ServiceKept
<1>4. /\ found \subseteq DOMAIN old
      /\ \A i \in found : old[i].addr = addr /\ old[i].termination_state = "removing"
  BY <1>1 DEF IsDest
<1>5. /\ rest \in Owes
      /\ \A t \in Targets : rest[t] > 0 => rest[t] = owed[t]
      /\ universes[u].termination_state = "keeping" => rest[addr] = 0
      /\ NothingOwed(owed) => NothingOwed(rest)
      /\ \A v \in Universes \ {u} : wire'[v] = wire[v]
  <2>1. CASE universes[u].termination_state = "keeping"
    <3>1. addr \in Targets /\ 0 \in 0..TerminationsRequired
      BY SourceAssumption DEF Targets
    <3>2. wire[u] \in [expected : 0..(SeqSize - 1), in_order : BOOLEAN,
                       owed : [Targets -> 0..TerminationsRequired]]
      BY <1>2 DEF Wire
    <3>3. wire' = [wire EXCEPT ![u] = [wire[u] EXCEPT !.owed = [owed EXCEPT ![addr] = 0]]]
      BY <1>1, <2>1
    <3>4. wire'[u] = [wire[u] EXCEPT !.owed = [owed EXCEPT ![addr] = 0]]
      BY <1>2, <3>3
    <3>5. rest = [owed EXCEPT ![addr] = 0]
      BY <3>2, <3>4
    <3>6. \A v \in Universes \ {u} : wire'[v] = wire[v]
      BY <1>2, <3>3
    <3> HIDE DEF rest, owed
    <3>7. /\ rest \in Owes /\ rest[addr] = 0
          /\ \A t \in Targets : t # addr => rest[t] = owed[t]
      BY <1>2, <3>1, <3>5 DEF Owes
    <3> QED BY <3>6, <3>7 DEF NothingOwed
  <2>2. CASE universes[u].termination_state # "keeping"
    BY <1>1, <1>2, <2>2
  <2> QED BY <2>1, <2>2
<1> HIDE DEF found, uni, owed, rest, old
<1>6. IsSettled(uni, dests, rest)
  BY <1>1, <1>2, <1>3, <1>4, <1>5, AdditionSettles
<1> HIDE DEF dests
<1> QED BY <1>1, <1>5, <1>6, CallSettles DEF owed, rest

\* Universes that replace those there are, all of them settled.
LEMMA AllSettle ==
    ASSUME IInv, SInv, UNCHANGED <<source, manual, threadVars>>,
           DOMAIN universes' = Tracked,
           unicast_dests' \in [Tracked -> Seq(UnicastDestination)],
           \A u \in Tracked :
              /\ IsSettled(universes'[u], unicast_dests'[u], wire'[u].owed)
              /\ NothingOwed(wire[u].owed) => NothingOwed(wire'[u].owed),
           \A u \in Universes \ Tracked : wire'[u] = wire[u]
    PROVE  SInv'
<1>1. /\ Tracked \subseteq Universes /\ Tracked' = Tracked
      /\ \A v \in Universes \ Tracked : NothingOwed(wire[v].owed)
  BY DEF SInv, Settled, Tracked
<1>2. Settled(universes', unicast_dests', wire')
  BY <1>1 DEF Settled
<1>3. \A v \in Universes : NothingOwed(wire[v].owed) => NothingOwed(wire'[v].owed)
  OBVIOUS
<1>4. source = "none" => Tracked' = {}
  BY <1>1 DEF SInv, IsControlled
<1>5. IsControlled' /\ (IsIdle' => NothingLeft(wire'))
  BY <1>3, <1>4, ControlsKeep
<1> QED BY <1>2, <1>5 DEF SInv

\* set_source_terminating leaves universes that are settled.
LEMMA AllTerminatingSettled ==
    ASSUME SInv
    PROVE  Settled(AllTerminating(universes), AllDestsTerminating(unicast_dests), wire)
<1> DEFINE unis == AllTerminating(universes)
           dests == AllDestsTerminating(unicast_dests)
<1>1. /\ Tracked \subseteq Universes
      /\ \A v \in Universes \ Tracked : NothingOwed(wire[v].owed)
      /\ DOMAIN unicast_dests = Tracked
  BY DEF SInv, Settled, Tracked
<1>2. /\ DOMAIN unis = Tracked
      /\ \A u \in Tracked : unis[u] = SetTerminating(universes[u], "removing")
  BY DEF AllTerminating, Tracked
<1>3. /\ dests = [u \in Tracked |-> dests[u]]
      /\ \A u \in Tracked : dests[u] = SetDestsTerminating(unicast_dests[u], "removing")
  BY <1>1 DEF AllDestsTerminating
<1> HIDE DEF unis, dests
<1>4. ASSUME NEW u \in Tracked
      PROVE  IsSettled(unis[u], dests[u], wire[u].owed)
  <2>1. IsSettled(universes[u], unicast_dests[u], wire[u].owed)
    BY HoldsSettled
  <2>2. IsSettled(SetTerminating(universes[u], "removing"),
                  SetDestsTerminating(unicast_dests[u], "removing"), wire[u].owed)
    BY <2>1, TerminatingSettles
  <2> QED BY <1>2, <1>3, <2>2
<1>5. dests \in [Tracked -> Seq(UnicastDestination)]
  BY <1>3, <1>4 DEF IsSettled, DestsFit
<1>6. Settled(unis, dests, wire)
  BY <1>1, <1>2, <1>4, <1>5 DEF Settled
<1> QED BY <1>6 DEF unis, dests

\* sacn_source_destroy keeps the invariant.
LEMMA DestroySourceSettles ==
    ASSUME SInv, DestroySource
    PROVE  SInv'
<1>1. /\ source' = "terminating"
      /\ universes' = AllTerminating(universes)
      /\ unicast_dests' = AllDestsTerminating(unicast_dests)
      /\ UNCHANGED <<manual, threadVars, wire>>
      /\ source = "active"
  BY DEF DestroySource
<1>2. Settled(universes', unicast_dests', wire')
  BY <1>1, AllTerminatingSettled
<1>3. IsControlled'
  BY <1>1 DEF SInv, IsControlled, threadVars
<1>4. IsIdle' => NothingLeft(wire')
  BY <1>1 DEF SInv, IsIdle, threadVars
<1> QED BY <1>2, <1>3, <1>4 DEF SInv

\* sacn_source_change_name keeps the invariant.
LEMMA ChangeNameSettles ==
    ASSUME IInv, SInv, ChangeName
    PROVE  SInv'
<1>1. /\ universes' = Renamed(universes)
      /\ UNCHANGED <<source, manual, unicast_dests, threadVars, wire>>
  BY DEF ChangeName
<1>2. /\ DOMAIN universes' = Tracked
      /\ \A u \in Tracked : universes'[u] = ResetSuppression(universes[u])
  BY <1>1 DEF Renamed, Tracked
<1>3. unicast_dests' \in [Tracked -> Seq(UnicastDestination)]
  BY <1>1 DEF SInv, Settled, Tracked
<1>4. ASSUME NEW u \in Tracked
      PROVE  IsSettled(universes'[u], unicast_dests'[u], wire'[u].owed)
  <2>1. IsSettled(universes[u], unicast_dests[u], wire[u].owed)
        /\ universes[u] \in SourceUniverse
    BY HoldsSettled
  <2>2. SameService(universes[u], universes'[u])
    BY <1>2, <2>1, ServiceKept
  <2>3. IsSettled(universes'[u], unicast_dests[u], wire[u].owed)
    BY <2>1, <2>2, ServedAlike
  <2> QED BY <1>1, <2>3
<1> QED BY <1>1, <1>2, <1>3, <1>4, AllSettle

\* sacn_source_reset_networking keeps the invariant, for one source or universe
\* by universe.
LEMMA ResetNetworkingSettles ==
    ASSUME IInv, SInv, NEW ints \in [Tracked -> SUBSET Netints], NEW all,
           ResetNetworking(ints, all)
    PROVE  SInv'
<1> DEFINE Keeps(u) == ~all /\ universes[u].termination_state = "removing"
           reset == [u \in Tracked |->
             IF Keeps(u) THEN universes[u]
             ELSE [ResetSuppression(universes[u]) EXCEPT !.netints = ints[u]]]
<1>1. /\ universes' = reset
      /\ wire' = [u \in Universes |->
           IF u \in Tracked
             THEN WireFor(wire[u], TargetsOf(reset[u], unicast_dests[u]))
             ELSE wire[u]]
      /\ UNCHANGED <<source, manual, unicast_dests, threadVars>>
  BY DEF ResetNetworking
<1>2. ASSUME NEW u \in Tracked
      PROVE  /\ reset[u] \in SourceUniverse
             /\ reset[u].termination_state = universes[u].termination_state
             /\ reset[u].num_terminations_sent = universes[u].num_terminations_sent
             /\ reset[u].has_level_data = universes[u].has_level_data
             /\ reset[u].send_unicast_only = universes[u].send_unicast_only
  <2>1. universes[u] \in SourceUniverse /\ SameService(universes[u], ResetSuppression(universes[u]))
    BY HoldsSettled, ServiceKept
  <2>2. CASE Keeps(u)
    <3>1. reset[u] = universes[u]
      BY <2>2
    <3> QED BY <2>1, <3>1
  <2>3. CASE ~Keeps(u)
    <3>1. reset[u] = [ResetSuppression(universes[u]) EXCEPT !.netints = ints[u]]
      BY <2>3
    <3>2. ints[u] \in SUBSET Netints
      OBVIOUS
    <3> HIDE DEF reset
    <3> QED BY <2>1, <3>1, <3>2 DEF SameService, SourceUniverse
  <2> QED BY <2>2, <2>3
<1> HIDE DEF reset
<1>3. ASSUME NEW u \in Tracked
      PROVE  /\ IsSettled(universes'[u], unicast_dests'[u], wire'[u].owed)
             /\ NothingOwed(wire[u].owed) => NothingOwed(wire'[u].owed)
  <2>1. /\ IsSettled(universes[u], unicast_dests[u], wire[u].owed)
        /\ u \in Universes /\ wire[u] \in Wire
    BY HoldsSettled, Holds
  <2>2. /\ wire'[u] = WireFor(wire[u], TargetsOf(reset[u], unicast_dests[u]))
        /\ universes'[u] = reset[u] /\ unicast_dests'[u] = unicast_dests[u]
    BY <1>1, <2>1
  <2> DEFINE rest == WireFor(wire[u], TargetsOf(reset[u], unicast_dests[u])).owed
  <2>3. /\ IsSettled(reset[u], unicast_dests[u], rest)
        /\ NothingOwed(wire[u].owed) => NothingOwed(rest)
    BY <1>2, <2>1, NetintsSettle
  <2> QED BY <2>2, <2>3
<1>4. unicast_dests' \in [Tracked -> Seq(UnicastDestination)]
  BY <1>1 DEF SInv, Settled, Tracked
<1>5. DOMAIN universes' = Tracked
  BY <1>1 DEF reset
<1>6. \A u \in Universes \ Tracked : wire'[u] = wire[u]
  BY <1>1
<1> QED BY <1>1, <1>3, <1>4, <1>5, <1>6, AllSettle

\* sacn_source_add_universe keeps the invariant, in place of an old universe
\* or not.
LEMMA AddUniverseSettles ==
    ASSUME IInv, SInv, NEW u \in Universes, NEW only \in BOOLEAN,
           NEW addrs \in DestLists, NEW ints \in SUBSET Netints,
           AddUniverse(u, only, addrs, ints)
    PROVE  SInv'
<1> DEFINE uni == NewUniverse(only, ints)
           dests == NewDests(addrs)
<1>1. /\ source = "active"
      /\ universes' = [v \in Tracked \cup {u} |-> IF v = u THEN uni ELSE universes[v]]
      /\ unicast_dests' = [v \in Tracked \cup {u} |->
                              IF v = u THEN dests ELSE unicast_dests[v]]
      /\ wire' = [wire EXCEPT ![u] = Unused]
      /\ UNCHANGED <<source, manual, threadVars>>
  BY DEF AddUniverse
<1>2. IsSettled(uni, dests, Unused.owed) /\ NothingOwed(Unused.owed)
  <2>1. addrs \in Seq(Addresses)
    BY SourceAssumption
  <2> QED BY <2>1, NewSettles
<1> HIDE DEF uni, dests
<1>3. /\ Tracked \subseteq Universes
      /\ unicast_dests \in [Tracked -> Seq(UnicastDestination)]
      /\ \A v \in Tracked : IsSettled(universes[v], unicast_dests[v], wire[v].owed)
      /\ \A v \in Universes \ Tracked : NothingOwed(wire[v].owed)
      /\ wire \in [Universes -> Wire]
  BY DEF SInv, Settled, Tracked, IInv, IsHistory
<1>4. wire'[u] = Unused /\ \A v \in Universes \ {u} : wire'[v] = wire[v]
  BY <1>1, <1>3
<1>5. /\ DOMAIN universes' = Tracked \cup {u}
      /\ universes'[u] = uni /\ unicast_dests'[u] = dests
      /\ \A v \in Tracked \ {u} :
            universes'[v] = universes[v] /\ unicast_dests'[v] = unicast_dests[v]
  BY <1>1
<1>6. unicast_dests' \in [Tracked \cup {u} -> Seq(UnicastDestination)]
  <2>1. dests \in Seq(UnicastDestination)
    BY <1>2 DEF IsSettled, DestsFit
  <2> QED BY <1>1, <1>3, <2>1
<1>7. \A v \in Tracked \cup {u} : IsSettled(universes'[v], unicast_dests'[v], wire'[v].owed)
  <2> SUFFICES ASSUME NEW v \in Tracked \cup {u}
               PROVE  IsSettled(universes'[v], unicast_dests'[v], wire'[v].owed)
    OBVIOUS
  <2>1. CASE v = u
    BY <1>2, <1>4, <1>5, <2>1
  <2>2. CASE v # u
    BY <1>3, <1>4, <1>5, <2>2
  <2> QED BY <2>1, <2>2
<1>8. \A v \in Universes \ (Tracked \cup {u}) : NothingOwed(wire'[v].owed)
  BY <1>3, <1>4
<1>9. Settled(universes', unicast_dests', wire')
  BY <1>3, <1>5, <1>6, <1>7, <1>8 DEF Settled
<1>10. \A v \in Universes : NothingOwed(wire[v].owed) => NothingOwed(wire'[v].owed)
  BY <1>2, <1>4
<1>11. IsControlled' /\ (IsIdle' => NothingLeft(wire'))
  <2>1. source = "none" => Tracked' = {}
    BY <1>1
  <2> QED BY <1>1, <1>10, <2>1, ControlsKeep
<1> QED BY <1>9, <1>11 DEF SInv

\* It does when it fails and the old universe is gone.
LEMMA AddUniverseFailsSettles ==
    ASSUME IInv, SInv, NEW u \in Universes, AddUniverseFails(u)
    PROVE  SInv'
<1>1. /\ source = "active" /\ u \in Tracked
      /\ universes' = [v \in Tracked \ {u} |-> universes[v]]
      /\ unicast_dests' = Without(unicast_dests, {u})
      /\ wire' = [wire EXCEPT ![u] = Unused]
      /\ UNCHANGED <<source, manual, threadVars>>
  BY DEF AddUniverseFails, IsOld, Without, Tracked
<1>2. NothingOwed(Unused.owed)
  <2>1. Unused.owed = [t \in Targets |-> 0]
    BY DEF Unused
  <2> QED BY <2>1 DEF NothingOwed
<1>3. /\ Tracked \subseteq Universes
      /\ unicast_dests \in [Tracked -> Seq(UnicastDestination)]
      /\ \A v \in Tracked : IsSettled(universes[v], unicast_dests[v], wire[v].owed)
      /\ \A v \in Universes \ Tracked : NothingOwed(wire[v].owed)
      /\ wire \in [Universes -> Wire]
  BY DEF SInv, Settled, Tracked, IInv, IsHistory
<1>4. wire'[u] = Unused /\ \A v \in Universes \ {u} : wire'[v] = wire[v]
  BY <1>1, <1>3
<1>5. /\ DOMAIN universes' = Tracked \ {u}
      /\ unicast_dests' = [v \in Tracked \ {u} |-> unicast_dests[v]]
      /\ \A v \in Tracked \ {u} :
            universes'[v] = universes[v] /\ unicast_dests'[v] = unicast_dests[v]
  BY <1>1, <1>3 DEF Without
<1>6. unicast_dests' \in [Tracked \ {u} -> Seq(UnicastDestination)]
  BY <1>3, <1>5
<1>7. \A v \in Tracked \ {u} : IsSettled(universes'[v], unicast_dests'[v], wire'[v].owed)
  BY <1>3, <1>4, <1>5
<1>8. \A v \in Universes \ (Tracked \ {u}) : NothingOwed(wire'[v].owed)
  BY <1>2, <1>3, <1>4
<1>9. Settled(universes', unicast_dests', wire')
  BY <1>3, <1>5, <1>6, <1>7, <1>8 DEF Settled
<1>10. \A v \in Universes : NothingOwed(wire[v].owed) => NothingOwed(wire'[v].owed)
  BY <1>2, <1>4
<1>11. IsControlled' /\ (IsIdle' => NothingLeft(wire'))
  <2>1. source = "none" => Tracked' = {}
    BY <1>1
  <2> QED BY <1>1, <1>10, <2>1, ControlsKeep
<1> QED BY <1>9, <1>11 DEF SInv

\* No universe is tracked, and nothing is owed.
LEMMA EmptySettled ==
    ASSUME NEW ws, NothingLeft(ws)
    PROVE  Settled(<< >>, << >>, ws)
<1>1. DOMAIN << >> = {}
  OBVIOUS
<1>2. << >> \in [{} -> Seq(UnicastDestination)]
  OBVIOUS
<1> QED BY <1>1, <1>2 DEF Settled, NothingLeft

\* Without a source nothing is owed.
LEMMA UntrackedOwesNothing ==
    ASSUME SInv, source = "none"
    PROVE  NothingLeft(wire)
  BY DEF SInv, Settled, IsControlled, NothingLeft, Tracked

\* sacn_source_create keeps the invariant.
LEMMA CreateSourceSettles ==
    ASSUME SInv, ~shutting_down, NEW manually \in ManualChoices, CreateSource(manually)
    PROVE  SInv'
<1>1. /\ source = "none" /\ source' = "active" /\ manual' = manually
      /\ universes' = << >> /\ unicast_dests' = << >>
      /\ thread' = IF manually \/ thread # "off" THEN thread ELSE "levels"
      /\ UNCHANGED <<shutting_down, discovery_failed, sources_tracked, wire>>
  BY DEF CreateSource, AddSource
<1>2. NothingLeft(wire')
  BY <1>1, UntrackedOwesNothing
<1>3. Settled(universes', unicast_dests', wire')
  BY <1>1, <1>2, EmptySettled
<1>4. manual' \in BOOLEAN
  BY <1>1, SourceAssumption
<1>5. thread' \in {"off", "levels", "pap", "check"}
  BY <1>1 DEF SInv, IsControlled
<1>6. IsControlled'
  BY <1>1, <1>4, <1>5 DEF SInv, IsControlled
<1> QED BY <1>2, <1>3, <1>6 DEF SInv

\* A new initialization keeps the invariant: nothing is owed when the thread
\* has ended.
LEMMA RestartSettles ==
    ASSUME IInv, SInv, Restart
    PROVE  SInv'
<1>1. /\ shutting_down /\ thread = "off" /\ shutting_down' = FALSE /\ source' = "none"
      /\ universes' = << >> /\ unicast_dests' = << >>
      /\ wire' = [u \in Universes |-> [wire[u] EXCEPT !.expected = 0]]
      /\ UNCHANGED <<manual, thread, discovery_failed, sources_tracked>>
  BY DEF Restart
<1>2. NothingLeft(wire)
  <2>1. CASE manual
    BY <1>1, <2>1, UntrackedOwesNothing DEF SInv, IsControlled
  <2>2. CASE ~manual
    BY <1>1, <2>2 DEF SInv, IsIdle
  <2> QED BY <2>1, <2>2
<1>3. \A u \in Universes : wire'[u].owed = wire[u].owed
  <2> SUFFICES ASSUME NEW u \in Universes PROVE wire'[u].owed = wire[u].owed
    OBVIOUS
  <2>1. wire[u] \in Wire
    BY DEF IInv, IsHistory
  <2>2. wire'[u] = [wire[u] EXCEPT !.expected = 0]
    BY <1>1
  <2> QED BY <2>1, <2>2 DEF Wire
<1>4. NothingLeft(wire')
  BY <1>2, <1>3 DEF NothingLeft
<1>5. Settled(universes', unicast_dests', wire')
  BY <1>1, <1>4, EmptySettled
<1>6. Tracked' = {}
  BY <1>1 DEF Tracked
<1>7. IsControlled'
  BY <1>1, <1>6 DEF SInv, IsControlled
<1> QED BY <1>4, <1>5, <1>7 DEF SInv

\* A pass over universes that are settled leaves those that stay settled, and
\* nothing owed by those that go.
LEMMA EndPassSettles ==
    ASSUME NEW state \in {"active", "terminating"}, NEW unis, NEW dests, NEW mode,
           NEW expired, NEW fail,
           Fits(unis, wire), IsHistory(wire), Settled(unis, dests, wire),
           EndPass(state, unis, Results(unis, dests, mode, expired, fail))
    PROVE  /\ Settled(universes', unicast_dests', wire')
           /\ source' \in {"none", "active", "terminating"}
           /\ source' = "none" => Tracked' = {}
<1> DEFINE Result(u, ok) ==
             ProcessUniverse(unis[u], dests[u], mode, ok,
                {k \in Kinds : <<u, k>> \in expired},
                [k \in Kinds |-> {t \in Targets : <<u, k, t>> \in fail}])
           Blocked(u) ==
             mode = "pap" /\ \E v \in DOMAIN unis : v < u /\ ~Result(v, TRUE).ok
           result == Results(unis, dests, mode, expired, fail)
           removed == Removed(unis, result)
           left == DOMAIN unis \ removed
           After(u) == WireAfter(wire[u], result[u].packets, result[u].ended)
<1>1. /\ universes' = [u \in left |-> result[u].universe]
      /\ unicast_dests' = [u \in left |-> result[u].dests]
      /\ source' = IF state = "terminating" /\ left = {} THEN "none" ELSE state
      /\ wire' = [u \in Universes |->
           IF u \in removed THEN [After(u) EXCEPT !.expected = 0]
           ELSE IF u \in left THEN After(u)
           ELSE wire[u]]
  BY Zenon DEF EndPass
<1>2. ASSUME NEW u \in DOMAIN unis
      PROVE  /\ After(u).owed \in Owes
             /\ IF result[u].finished /\ unis[u].termination_state = "removing"
                  THEN NothingOwed(After(u).owed)
                  ELSE IsSettled(result[u].universe, result[u].dests, After(u).owed)
  <2> DEFINE ok == ~Blocked(u)
             dests_u == dests[u]
             expired_u == {k \in Kinds : <<u, k>> \in expired}
             fail_u == [k \in Kinds |-> {t \in Targets : <<u, k, t>> \in fail}]
             one == ProcessUniverse(unis[u], dests_u, mode, ok, expired_u, fail_u)
  <2>1. PapFits(unis[u]) /\ IsSettled(unis[u], dests_u, wire[u].owed)
    BY DEF Fits, Settled
  <2>2. result[u] = one
    BY Zenon DEF Results
  <2> HIDE DEF ok, dests_u, expired_u, fail_u, result
  <2>3. LET rest == WireAfter(wire[u], one.packets, one.ended).owed
        IN  /\ rest \in Owes
            /\ IF one.finished /\ unis[u].termination_state = "removing"
                 THEN NothingOwed(rest)
                 ELSE IsSettled(one.universe, one.dests, rest)
    BY <2>1, ProcessUniverseSettles
  <2> HIDE DEF one
  <2> QED BY <2>2, <2>3
<1>3. /\ removed \subseteq DOMAIN unis
      /\ \A u \in DOMAIN unis : u \in removed <=>
            result[u].finished /\ unis[u].termination_state = "removing"
  BY DEF Removed, Finished
<1> HIDE DEF result, removed
<1>4. /\ DOMAIN unis \subseteq Universes
      /\ \A u \in Universes \ DOMAIN unis : NothingOwed(wire[u].owed)
  BY DEF Settled
<1>5. \A u \in left : After(u).owed \in Owes
         /\ IsSettled(result[u].universe, result[u].dests, After(u).owed)
  BY <1>2, <1>3
<1>6. \A u \in removed : NothingOwed(After(u).owed)
  BY <1>2, <1>3
<1>7. \A u \in left : /\ wire'[u].owed = After(u).owed
                      /\ universes'[u] = result[u].universe
                      /\ unicast_dests'[u] = result[u].dests
  <2> SUFFICES ASSUME NEW u \in left
               PROVE  /\ wire'[u].owed = After(u).owed
                      /\ universes'[u] = result[u].universe
                      /\ unicast_dests'[u] = result[u].dests
    OBVIOUS
  <2>1. u \in Universes /\ u \notin removed
    BY <1>4
  <2> HIDE DEF After
  <2> QED BY <1>1, <2>1
<1>8. \A u \in left : IsSettled(universes'[u], unicast_dests'[u], wire'[u].owed)
  <2> HIDE DEF After
  <2> QED BY <1>5, <1>7
<1>9. ASSUME NEW u \in Universes \ left
      PROVE  NothingOwed(wire'[u].owed)
  <2>1. CASE u \in removed
    <3> DEFINE after == After(u)
    <3>1. wire'[u] = [after EXCEPT !.expected = 0] /\ NothingOwed(after.owed)
      BY <1>1, <1>6, <2>1
    <3>2. after.owed = [after EXCEPT !.expected = 0].owed
      BY DEF WireAfter
    <3> HIDE DEF after
    <3> QED BY <3>1, <3>2
  <2>2. CASE u \notin removed
    <3>1. wire'[u] = wire[u] /\ u \notin DOMAIN unis
      <4> HIDE DEF After
      <4> QED BY <1>1, <2>2
    <3> QED BY <1>4, <3>1
  <2> QED BY <2>1, <2>2
<1>10. DOMAIN universes' = left /\ left \subseteq Universes
  BY <1>1, <1>4
<1>11. unicast_dests' \in [left -> Seq(UnicastDestination)]
  <2>1. \A u \in left : result[u].dests \in Seq(UnicastDestination)
    BY <1>5 DEF IsSettled, DestsFit
  <2> HIDE DEF left
  <2> QED BY <1>1, <2>1
<1> HIDE DEF left
<1>12. Settled(universes', unicast_dests', wire')
  BY <1>8, <1>9, <1>10, <1>11 DEF Settled
<1> QED BY <1>1, <1>10, <1>12 DEF Tracked

\* What a pass leaves, whether it is the one that starts the shutdown or not.
LEMMA PassSettles ==
    ASSUME IInv, SInv, NEW mode, Process(mode)
    PROVE  /\ Settled(universes', unicast_dests', wire')
           /\ source' \in {"none", "active", "terminating"}
           /\ source' = "none" => Tracked' = {}
           /\ source # "none"
           /\ UNCHANGED <<manual, shutting_down>>
<1> DEFINE ends == source = "active" /\ shutting_down /\ ~manual
           state == IF ends THEN "terminating" ELSE source
           unis == IF ends THEN AllTerminating(universes) ELSE universes
           dests == IF ends THEN AllDestsTerminating(unicast_dests)
                    ELSE unicast_dests
<1>1. PICK expired, fail :
        EndPass(state, unis, Results(unis, dests, mode, expired, fail))
  BY DEF Process
<1>2. source # "none" /\ UNCHANGED <<manual, shutting_down>>
  BY DEF Process
<1>3. Fits(unis, wire) /\ Settled(unis, dests, wire) /\ IsHistory(wire)
  <2>1. CASE ends
    BY <2>1, Terminating, AllTerminatingSettled DEF IInv
  <2>2. CASE ~ends
    BY <2>2 DEF IInv, SInv
  <2> QED BY <2>1, <2>2
<1>4. state \in {"active", "terminating"}
  BY <1>2 DEF SInv, IsControlled
<1> HIDE DEF state, unis, dests
<1> QED BY <1>1, <1>2, <1>3, <1>4, EndPassSettles

\* The thread keeps the invariant: it ends after a pass that found no source.
LEMMA ThreadStepSettles ==
    ASSUME IInv, SInv, ThreadStep
    PROVE  SInv'
<1>1. ASSUME NEW mode \in {"levels", "pap"}, ThreadProcesses(mode)
      PROVE  SInv'
  <2>1. /\ Process(mode) /\ ~manual
        /\ thread' = IF mode = "levels" THEN "pap" ELSE "check"
        /\ sources_tracked' = IF mode = "pap" THEN TRUE ELSE sources_tracked
        /\ discovery_failed' = (discovery_failed /\ mode # "levels")
    BY <1>1 DEF ThreadProcesses, Loop, Threaded
  <2>2. /\ Settled(universes', unicast_dests', wire')
        /\ source' \in {"none", "active", "terminating"}
        /\ source' = "none" => Tracked' = {}
        /\ UNCHANGED <<manual, shutting_down>>
    BY <2>1, PassSettles
  <2>3. /\ thread' \in {"off", "levels", "pap", "check"}
        /\ sources_tracked' \in BOOLEAN /\ discovery_failed' \in BOOLEAN
    BY <2>1 DEF SInv, IsControlled
  <2>4. IsControlled'
    BY <2>1, <2>2, <2>3 DEF SInv, IsControlled
  <2>5. ~IsIdle'
    BY <1>1, <2>1 DEF IsIdle
  <2> QED BY <2>2, <2>4, <2>5 DEF SInv
<1>2. ASSUME NEW mode \in {"levels", "pap"},
             ThreadDiscoveryFails(mode) \/ ThreadIdles(mode)
      PROVE  SInv'
  <2>1. /\ thread' = IF mode = "levels" THEN "pap" ELSE "check"
        /\ sources_tracked' = IF mode = "pap" THEN Threaded ELSE sources_tracked
        /\ UNCHANGED <<sourceVars, shutting_down, wire>>
        /\ discovery_failed' = TRUE \/ discovery_failed' = discovery_failed
    BY <1>2 DEF ThreadDiscoveryFails, ThreadIdles, Loop
  <2>2. UNCHANGED <<source, manual, universes, unicast_dests, shutting_down, wire>>
    BY <2>1 DEF sourceVars
  <2>3. /\ thread' \in {"off", "levels", "pap", "check"}
        /\ sources_tracked' \in BOOLEAN /\ discovery_failed' \in BOOLEAN
    BY <2>1 DEF SInv, IsControlled, Threaded
  <2>4. IsControlled'
    BY <2>2, <2>3 DEF SInv, IsControlled, Tracked
  <2>5. Settled(universes', unicast_dests', wire')
    BY <2>2 DEF SInv
  <2>6. ASSUME IsIdle'
        PROVE  NothingLeft(wire')
    <3>1. mode = "pap" /\ ~Threaded /\ ~manual
      BY <2>1, <2>2, <2>6 DEF IsIdle
    <3>2. source = "none"
      BY <3>1 DEF Threaded
    <3> QED BY <2>2, <3>2, UntrackedOwesNothing
  <2> QED BY <2>4, <2>5, <2>6 DEF SInv
<1>3. CASE ThreadChecks
  <2>1. /\ thread = "check"
        /\ thread' = IF shutting_down /\ ~sources_tracked THEN "off" ELSE "levels"
        /\ UNCHANGED <<source, manual, universes, unicast_dests, shutting_down,
                       discovery_failed, sources_tracked, wire>>
    BY <1>3 DEF ThreadChecks, sourceVars
  <2>2. IsControlled'
    BY <2>1 DEF SInv, IsControlled, Tracked
  <2>3. IsIdle' => IsIdle
    BY <2>1 DEF IsIdle
  <2> QED BY <2>1, <2>2, <2>3 DEF SInv
<1> QED BY <1>1, <1>2, <1>3 DEF ThreadStep

\* So do the passes of the application.
LEMMA ProcessManualSettles ==
    ASSUME IInv, SInv, NEW mode, ProcessManual(mode)
    PROVE  SInv'
<1>1. /\ manual /\ Process(mode)
      /\ UNCHANGED <<thread, discovery_failed, sources_tracked>>
  BY DEF ProcessManual
<1>2. /\ Settled(universes', unicast_dests', wire')
      /\ source' \in {"none", "active", "terminating"}
      /\ source' = "none" => Tracked' = {}
      /\ source # "none"
      /\ UNCHANGED <<manual, shutting_down>>
  BY <1>1, PassSettles
<1>3. IsControlled'
  BY <1>1, <1>2 DEF SInv, IsControlled
<1>4. ~IsIdle'
  BY <1>1, <1>2 DEF IsIdle
<1> QED BY <1>2, <1>3, <1>4 DEF SInv

-----------------------------------------------------------------------------
(***************************************************************************)
(* Every step keeps what is owed settled, and the theorems that follow.    *)
(***************************************************************************)

\* The calls for one universe.
LEMMA UniverseCallSettles ==
    ASSUME IInv, SInv, NEW u \in Universes, UniverseCall(u)
    PROVE  SInv'
<1>1. ASSUME NEW only \in BOOLEAN, NEW addrs \in DestLists,
             NEW ints \in SUBSET Netints, AddUniverse(u, only, addrs, ints)
      PROVE  SInv'
  BY <1>1, AddUniverseSettles
<1>2. CASE AddUniverseFails(u)
  BY <1>2, AddUniverseFailsSettles
<1>3. CASE RemoveUniverse(u)
  BY <1>3, RemoveUniverseSettles
<1>4. ASSUME NEW addr \in Addresses,
             AddUnicastDestination(u, addr) \/ RemoveUnicastDestination(u, addr)
      PROVE  SInv'
  BY <1>4, AddUnicastDestinationSettles, RemoveUnicastDestinationSettles
<1>5. CASE UpdateLevels(u)
  BY <1>5, UpdateLevelsSettles
<1>6. ASSUME NEW pap \in BOOLEAN, UpdateLevelsAndPap(u, pap)
      PROVE  SInv'
  BY <1>6, UpdateLevelsAndPapSettles
<1>7. CASE EndLevels(u)
  BY <1>7, EndLevelsSettles
<1>8. CASE ChangePriority(u) \/ ChangePreviewFlag(u)
  BY <1>8, ChangeSettingsSettles DEF ChangePriority, ChangePreviewFlag
<1>9. ASSUME NEW failing \in SUBSET Targets, SendNow(u, failing)
      PROVE  SInv'
  BY <1>9, SendNowSettles
<1>10. CASE UpdateLevelsAndForceSync(u) \/ UpdateLevelsAndPapAndForceSync(u)
  BY <1>10, UpdateLevelsSettles, UpdateLevelsAndPapSettles, EndLevelsSettles
     DEF UpdateLevelsAndForceSync, UpdateLevelsAndPapAndForceSync
<1> QED
  BY <1>1, <1>2, <1>3, <1>4, <1>5, <1>6, <1>7, <1>8, <1>9, <1>10 DEF UniverseCall

\* The calls for the source.
LEMMA SourceCallSettles ==
    ASSUME IInv, SInv, ~shutting_down, SourceCall
    PROVE  SInv'
<1>1. ASSUME NEW manually \in ManualChoices, CreateSource(manually)
      PROVE  SInv'
  BY <1>1, CreateSourceSettles
<1>2. CASE DestroySource
  BY <1>2, DestroySourceSettles
<1>3. CASE ChangeName
  BY <1>3, ChangeNameSettles
<1>4. ASSUME NEW ints \in [Tracked -> SUBSET Netints], ResetNetworking(ints, FALSE)
      PROVE  SInv'
  BY <1>4, ResetNetworkingSettles
<1>5. ASSUME NEW N \in (SUBSET Netints) \ {{}},
             ResetNetworking([u \in Tracked |-> N], TRUE)
      PROVE  SInv'
  <2>1. [u \in Tracked |-> N] \in [Tracked -> SUBSET Netints]
    OBVIOUS
  <2> QED BY <1>5, <2>1, ResetNetworkingSettles
<1> QED
  BY <1>1, <1>2, <1>3, <1>4, <1>5 DEF SourceCall

\* Every step keeps the invariant.
LEMMA NextSettles == IInv /\ SInv /\ [Next]_vars => SInv'
<1> SUFFICES ASSUME IInv, SInv, [Next]_vars
             PROVE  SInv'
  OBVIOUS
<1>1. CASE ~shutting_down /\ SourceCall
  BY <1>1, SourceCallSettles
<1>2. ASSUME NEW u \in Universes, UniverseCall(u)
      PROVE  SInv'
  BY <1>2, UniverseCallSettles
<1>3. CASE ShutDown
  <2>1. /\ ~(manual /\ source # "none") /\ shutting_down' = TRUE
        /\ UNCHANGED <<source, manual, universes, unicast_dests, thread,
                       discovery_failed, sources_tracked, wire>>
    BY <1>3 DEF ShutDown, sourceVars
  <2>2. IsControlled' /\ (IsIdle' <=> IsIdle)
    BY <2>1 DEF SInv, IsControlled, IsIdle, Tracked
  <2> QED BY <2>1, <2>2 DEF SInv
<1>4. CASE Restart
  BY <1>4, RestartSettles
<1>5. CASE ThreadStep
  BY <1>5, ThreadStepSettles
<1>6. ASSUME NEW mode \in {"levels", "pap", "both"}, ProcessManual(mode)
      PROVE  SInv'
  BY <1>6, ProcessManualSettles
<1>7. CASE UNCHANGED vars
  BY <1>7 DEF vars, sourceVars, threadVars, SInv, IsControlled, IsIdle, Tracked
<1> QED
  BY <1>1, <1>2, <1>3, <1>4, <1>5, <1>6, <1>7 DEF Next, AppCall

\* The invariant holds at first.
LEMMA InitSettles == Init => SInv
<1> SUFFICES ASSUME Init
             PROVE  SInv
  OBVIOUS
<1>1. \A u \in Universes : wire[u] = Unused
  BY DEF Init
<1>2. Unused.owed = [t \in Targets |-> 0]
  BY DEF Unused
<1>3. NothingLeft(wire)
  BY <1>1, <1>2 DEF NothingLeft, NothingOwed
<1>4. Settled(universes, unicast_dests, wire)
  BY <1>3, EmptySettled DEF Init
<1>5. IsControlled
  <2>1. Tracked = {}
    BY DEF Init, Tracked
  <2> QED BY <2>1 DEF Init, IsControlled
<1> QED BY <1>3, <1>4, <1>5 DEF SInv

\* Both invariants hold throughout.
LEMMA SettledInvariance == Spec => [](IInv /\ SInv)
<1>1. Init => IInv /\ SInv
  BY InitFits, InitSettles
<1>2. (IInv /\ SInv) /\ [Next]_vars => (IInv /\ SInv)'
  BY NextKeeps, NextSettles
<1> QED BY <1>1, <1>2, PTL DEF Spec

\* The counters stay within the number of universes.
LEMMA CountsBounded ==
    ASSUME IInv
    PROVE  /\ num_active_universes \in 0..Cardinality(Universes)
           /\ netint_refs \in [Netints -> 0..Cardinality(Universes)]
<1>1. \A S : S \subseteq Universes => Cardinality(S) \in 0..Cardinality(Universes)
  <2> SUFFICES ASSUME NEW S \in SUBSET Universes
               PROVE  Cardinality(S) \in 0..Cardinality(Universes)
    OBVIOUS
  <2>1. IsFiniteSet(Universes)
    BY SourceAssumption
  <2>2. IsFiniteSet(S) /\ Cardinality(S) <= Cardinality(Universes)
    BY <2>1, FS_Subset
  <2>3. Cardinality(S) \in Nat /\ Cardinality(Universes) \in Nat
    BY <2>1, <2>2, FS_CardinalityType
  <2> QED BY <2>2, <2>3
<1>2. Active(universes) \subseteq Universes /\ Tracked \subseteq Universes
  BY DEF IInv, Fits, Active, Tracked
<1>3. \A n : {u \in Tracked : n \in universes[u].netints} \subseteq Universes
  BY <1>2
<1>4. \A n : Cardinality({u \in Tracked : n \in universes[u].netints})
               \in 0..Cardinality(Universes)
  BY <1>1, <1>3
<1> QED BY <1>1, <1>2, <1>4 DEF IInv, RefsOf

\* No universe, destination or source goes away in the middle of a stream: the
\* targets that got data get all the terminations, or are those of a universe
\* that still has to send them (process_universe_termination and its callers,
\* set_source_terminating, sacn_source_state_deinit).
THEOREM SourceNoStreamLeftOpen == Spec => []NoStreamLeftOpen
<1>1. IInv /\ SInv => NoStreamLeftOpen
  <2> SUFFICES ASSUME SInv, NEW u \in Universes, NEW t \in Targets, wire[u].owed[t] > 0
               PROVE  /\ u \in Tracked
                      /\ universes[u].has_level_data
                      /\ t \in TargetsOf(universes[u], unicast_dests[u])
    BY DEF NoStreamLeftOpen
  <2>1. u \in Tracked
    BY DEF SInv, Settled, NothingOwed, Tracked
  <2>2. /\ universes[u].has_level_data
        /\ IsServed(universes[u], unicast_dests[u], t, wire[u].owed[t])
    BY <2>1, HoldsSettled DEF IsSettled, Covered
  <2> QED BY <2>1, <2>2 DEF IsServed, TargetsOf, Multicast, Addrs
<1> QED BY <1>1, SettledInvariance, PTL

\* Types, and a universe agrees with its destinations and its data on whether
\* and how it terminates (set_universe_terminating,
\* set_unicast_dest_terminating, cancel_termination_if_not_removing).
THEOREM SourceStatesAgree == Spec => []UniverseStatesAgree
<1>1. IInv /\ SInv => TypeOK
  <2> SUFFICES ASSUME IInv, SInv PROVE TypeOK
    OBVIOUS
  <2>1. /\ Tracked \subseteq Universes
        /\ universes \in [Tracked -> SourceUniverse]
        /\ unicast_dests \in [Tracked -> Seq(UnicastDestination)]
        /\ wire \in [Universes -> Wire]
    BY DEF IInv, Fits, IsHistory, SInv, Settled, Tracked
  <2> QED BY <2>1, CountsBounded DEF SInv, IsControlled, TypeOK
<1>2. SInv => DestsFollowUniverse
  BY DEF SInv, Settled, IsSettled, DestsFit, DestsFollowUniverse, Tracked
<1>3. IInv => PapNeedsLevels
  BY DEF IInv, Fits, PapFits, PapNeedsLevels, Tracked
<1>4. IInv /\ SInv => UniverseStatesAgree
  BY <1>1, <1>2, <1>3 DEF UniverseStatesAgree
<1> QED BY <1>4, SettledInvariance, PTL

=============================================================================
