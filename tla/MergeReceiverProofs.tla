-------------------------- MODULE MergeReceiverProofs --------------------------
(***************************************************************************)
(* Theorems about MergeReceiverSystem, for any sources, interfaces, levels *)
(* universes and limits of sources: the two mergers follow the sampling    *)
(* flags of the sources, and they implement MergedSources.                 *)
(***************************************************************************)
EXTENDS MergeReceiverSystem, SequenceTheorems, FiniteSetTheorems, TLAPS

MergeSource == [sampling : BOOLEAN, pap_active : BOOLEAN, levels_active : BOOLEAN]

\* The notifications a receiver captures.
DataNotes ==
    [kind : {"universe_data"}, universe : Universes, source : Sources,
     start_code : {"dmx"}, is_sampling : BOOLEAN, value : Levels \cup {NoLevels}]
PapNotes ==
    [kind : {"universe_data"}, universe : Universes, source : Sources,
     start_code : {"pap"}, is_sampling : BOOLEAN, value : {SentPap}]
OtherNotes ==
    [kind : {"universe_data"}, universe : Universes, source : Sources,
     start_code : {"other"}, is_sampling : BOOLEAN, value : {NoLevels}]
UniverseDataNotes == DataNotes \cup PapNotes \cup OtherNotes
PapLostNotes == [kind : {"pap_lost"}, universe : Universes, source : Sources]
TickNotes ==
    [kind : {"sampling_ended", "sampling_started", "sources_lost"},
     universe : Universes, sources : SUBSET Sources]
PacketNotes == UniverseDataNotes \cup PapLostNotes
Notes == PacketNotes \cup TickNotes

\* The notifications of a packet now: an interface is sampled while the period
\* is running only.
NotesNow == {x \in PacketNotes : x \in UniverseDataNotes /\ x.is_sampling => sampling}

\* The part of the inductive invariant about the merge receiver.
MergersOK ==
    /\ DOMAIN mr_sources \subseteq Sources
    /\ mr_sources \in [DOMAIN mr_sources -> MergeSource]
    /\ output \in [DOMAIN output -> MergeData]
    /\ sampled \in [DOMAIN sampled -> MergeData]
    /\ InMergerOfFlag

PeriodOK == sampling \in BOOLEAN /\ (sampling \/ current = {})

\* The inductive invariant.
MInv ==
    /\ MergersOK
    /\ DOMAIN tracked \subseteq Sources
    /\ universe \in Universes
    /\ captured \in Seq(Notes)
    /\ PeriodOK
-----------------------------------------------------------------------------
Put(f, s, d) == [x \in DOMAIN f \cup {s} |-> IF x = s THEN d ELSE f[x]]

LEMMA NothingRestricted == \A f : Restrict(f, {}) = << >>
BY DEF Restrict

LEMMA AllKept ==
  ASSUME NEW V, NEW f, f \in [DOMAIN f -> V], NEW S, S \cap DOMAIN f = {}
  PROVE  Without(f, S) = f
BY DEF Without, Restrict

\* What a packet does to a merger: the data of its source changes, if the
\* merger has the source.
LEMMA PacketMerged ==
  ASSUME NEW merger, merger \in [DOMAIN merger -> MergeData], NEW x \in UniverseDataNotes
  PROVE  \/ MergePacket(merger, x) = merger
         \/ /\ x.source \in DOMAIN merger
            /\ \E d \in MergeData : MergePacket(merger, x) = Put(merger, x.source, d)
<1>1. CASE ~Merges(x)
  BY <1>1 DEF MergePacket
<1>2. CASE Merges(x) /\ x.source \notin DOMAIN merger
  <2>1. \A v : UpdateLevels(merger, x.source, v) = merger
    BY <1>2 DEF UpdateLevels
  <2>2. \A v : UpdatePap(merger, x.source, v) = merger
    BY <1>2 DEF UpdatePap
  <2> QED
    BY <1>2, <2>1, <2>2 DEF MergePacket
<1>3. CASE Merges(x) /\ x.source \in DOMAIN merger /\ x.start_code = "dmx"
  <2> DEFINE d == [merger[x.source] EXCEPT !.levels = x.value]
  <2>1. x.value \in Levels \cup {NoLevels}
    BY <1>3 DEF UniverseDataNotes, DataNotes, PapNotes, OtherNotes
  <2>2. d \in MergeData
    BY <1>3, <2>1 DEF MergeData
  <2>3. MergePacket(merger, x) = Put(merger, x.source, d)
    BY <1>3 DEF MergePacket, UpdateLevels, Put
  <2> QED
    BY <1>3, <2>2, <2>3
<1>4. CASE Merges(x) /\ x.source \in DOMAIN merger /\ x.start_code # "dmx"
  <2> DEFINE d == [merger[x.source] EXCEPT !.pap = x.value]
  <2>1. x.value = SentPap
    BY <1>4 DEF Merges, UniverseDataNotes, DataNotes, PapNotes, OtherNotes
  <2>2. d \in MergeData
    BY <1>4, <2>1 DEF MergeData
  <2>3. MergePacket(merger, x) = Put(merger, x.source, d)
    BY <1>4 DEF MergePacket, UpdatePap, Put
  <2> QED
    BY <1>4, <2>2, <2>3
<1> QED
  BY <1>1, <1>2, <1>3, <1>4

\* The same for a source that is entered into the merger first, if there is
\* room for it.
LEMMA PacketEnters ==
  ASSUME NEW merger, merger \in [DOMAIN merger -> MergeData], NEW x \in UniverseDataNotes,
         x.source \notin DOMAIN merger
  PROVE  \/ /\ Fits(DOMAIN merger \cup {x.source})
            /\ \E d \in MergeData :
                  MergePacket(AddTo(merger, x.source), x) = Put(merger, x.source, d)
         \/ /\ ~Fits(DOMAIN merger \cup {x.source})
            /\ MergePacket(AddTo(merger, x.source), x) = merger
<1>. SUFFICES ASSUME Fits(DOMAIN merger \cup {x.source})
              PROVE  \E d \in MergeData :
                        MergePacket(AddTo(merger, x.source), x) = Put(merger, x.source, d)
  BY PacketMerged DEF AddTo
<1> DEFINE m == AddTo(merger, x.source)
<1>1. NewMergeSource \in MergeData
  BY DEF NewMergeSource, MergeData
<1>2. m = Put(merger, x.source, NewMergeSource)
  BY DEF AddTo, Put
<1>3. m \in [DOMAIN m -> MergeData]
  BY <1>1 DEF AddTo
<1>4. \A d : Put(m, x.source, d) = Put(merger, x.source, d)
  BY <1>2 DEF Put
<1>5. m = Put(merger, x.source, m[x.source]) /\ m[x.source] \in MergeData
  BY <1>1, <1>2, <1>3 DEF Put
<1> HIDE DEF m
<1>6. \/ MergePacket(m, x) = m
      \/ \E d \in MergeData : MergePacket(m, x) = Put(m, x.source, d)
  BY <1>3, PacketMerged
<1> QED
  BY <1>4, <1>5, <1>6 DEF m

LEMMA PutType ==
  ASSUME NEW merger, merger \in [DOMAIN merger -> MergeData], NEW s, NEW d \in MergeData
  PROVE  /\ Put(merger, s, d) \in [DOMAIN merger \cup {s} -> MergeData]
         /\ DOMAIN Put(merger, s, d) = DOMAIN merger \cup {s}
BY DEF Put

LEMMA SourceInfoType ==
  ASSUME NEW src \in MergeSource, NEW sc
  PROVE  /\ UpdateSourceInfo(src, sc) \in MergeSource
         /\ UpdateSourceInfo(src, sc).sampling = src.sampling
BY DEF UpdateSourceInfo, MergeSource

LEMMA NewSourceType ==
  ASSUME NEW in_period \in BOOLEAN, NEW sc
  PROVE  /\ NewInternalSource(in_period, sc) \in MergeSource
         /\ NewInternalSource(in_period, sc).sampling = in_period
BY DEF NewInternalSource, UpdateSourceInfo, MergeSource
-----------------------------------------------------------------------------
\* What each handler does, in terms of MergedSources.
Steps == Merged!Next \/ UNCHANGED <<output, sampled>>

LEMMA RoomIsFits ==
  ASSUME NEW s, NEW f
  PROVE  Merged!RoomFor(s, f) <=> Fits(DOMAIN f \cup {s})
<1>1. \A S : Merged!Cardinality(S) = Cardinality(S)
  BY Zenon DEF Merged!Cardinality, Cardinality
<1> QED
  BY <1>1 DEF Merged!RoomFor, Fits

LEMMA Heard ==
  ASSUME NEW s \in Sources, NEW d \in MergeData,
         \/ /\ \/ s \in DOMAIN output
               \/ s \notin DOMAIN sampled /\ Fits(DOMAIN output \cup {s})
            /\ output' = Put(output, s, d) /\ sampled' = sampled
         \/ /\ \/ s \in DOMAIN sampled
               \/ s \notin DOMAIN output /\ Fits(DOMAIN sampled \cup {s})
            /\ sampled' = Put(sampled, s, d) /\ output' = output
  PROVE  Steps
<1>1. /\ Merged!RoomFor(s, output) <=> Fits(DOMAIN output \cup {s})
      /\ Merged!RoomFor(s, sampled) <=> Fits(DOMAIN sampled \cup {s})
  BY RoomIsFits
<1>2. Merged!Hear(s, d)
  BY <1>1 DEF Put, Merged!Hear, Merged!With
<1> QED
  BY <1>2 DEF Steps, Merged!Next

LEMMA Lost ==
  ASSUME NEW S \in SUBSET Sources,
         output' = Without(output, S), sampled' = Without(sampled, S)
  PROVE  Steps
BY DEF Steps, Without, Restrict, Merged!Next, Merged!Lose, Merged!Restrict

LEMMA UniverseDataStep ==
  ASSUME MergersOK, NEW x \in UniverseDataNotes, UniverseData(x)
  PROVE  MergersOK' /\ Steps
<1> DEFINE s == x.source
<1>1. s \in Sources /\ x.is_sampling \in BOOLEAN
  BY DEF UniverseDataNotes, DataNotes, PapNotes, OtherNotes
<1>2. CASE s \in DOMAIN mr_sources
  <2>1. /\ mr_sources' = [mr_sources EXCEPT ![s] = UpdateSourceInfo(@, x.start_code)]
        /\ output' = IF x.is_sampling THEN output ELSE MergePacket(output, x)
        /\ sampled' = IF x.is_sampling THEN MergePacket(sampled, x) ELSE sampled
    BY <1>2 DEF UniverseData
  <2>2. /\ DOMAIN mr_sources' = DOMAIN mr_sources
        /\ mr_sources' \in [DOMAIN mr_sources' -> MergeSource]
        /\ \A y \in DOMAIN mr_sources : mr_sources'[y].sampling = mr_sources[y].sampling
    BY <1>2, <2>1, SourceInfoType DEF MergersOK
  <2>3. CASE ~x.is_sampling
    <3>1. sampled' = sampled /\ output' = MergePacket(output, x)
      BY <2>1, <2>3
    <3>2. CASE output' = output
      BY <2>2, <3>1, <3>2 DEF MergersOK, InMergerOfFlag, Steps
    <3>3. CASE s \in DOMAIN output /\ \E d \in MergeData : output' = Put(output, s, d)
      <4>1. PICK d \in MergeData : output' = Put(output, s, d)
        BY <3>3
      <4>3. Steps
        BY <1>1, <3>1, <3>3, <4>1, Heard
      <4>4. /\ DOMAIN output' = DOMAIN output
            /\ output' \in [DOMAIN output' -> MergeData]
        <5>1. DOMAIN output \cup {s} = DOMAIN output
          BY <3>3
        <5> QED
          BY <4>1, <5>1, PutType DEF MergersOK
      <4> QED
        BY <2>2, <3>1, <4>3, <4>4 DEF MergersOK, InMergerOfFlag
    <3> QED
      BY <3>1, <3>2, <3>3, PacketMerged DEF MergersOK
  <2>4. CASE x.is_sampling
    <3>1. output' = output /\ sampled' = MergePacket(sampled, x)
      BY <2>1, <2>4
    <3>2. CASE sampled' = sampled
      BY <2>2, <3>1, <3>2 DEF MergersOK, InMergerOfFlag, Steps
    <3>3. CASE s \in DOMAIN sampled /\ \E d \in MergeData : sampled' = Put(sampled, s, d)
      <4>1. PICK d \in MergeData : sampled' = Put(sampled, s, d)
        BY <3>3
      <4>3. Steps
        BY <1>1, <3>1, <3>3, <4>1, Heard
      <4>4. /\ DOMAIN sampled' = DOMAIN sampled
            /\ sampled' \in [DOMAIN sampled' -> MergeData]
        <5>1. DOMAIN sampled \cup {s} = DOMAIN sampled
          BY <3>3
        <5> QED
          BY <4>1, <5>1, PutType DEF MergersOK
      <4> QED
        BY <2>2, <3>1, <4>3, <4>4 DEF MergersOK, InMergerOfFlag
    <3> QED
      BY <3>1, <3>2, <3>3, PacketMerged DEF MergersOK
  <2> QED
    BY <1>1, <2>3, <2>4
<1>3. CASE s \notin DOMAIN mr_sources
  <2>1. /\ mr_sources' = [y \in DOMAIN mr_sources \cup {s} |->
                 IF y = s THEN NewInternalSource(x.is_sampling, x.start_code)
                          ELSE mr_sources[y]]
        /\ output' = IF x.is_sampling THEN output ELSE MergePacket(AddTo(output, s), x)
        /\ sampled' = IF x.is_sampling THEN MergePacket(AddTo(sampled, s), x) ELSE sampled
    BY <1>3 DEF UniverseData
  <2>2. s \notin DOMAIN output /\ s \notin DOMAIN sampled
    BY <1>3 DEF MergersOK, InMergerOfFlag
  <2>3. /\ DOMAIN mr_sources' = DOMAIN mr_sources \cup {s}
        /\ mr_sources' \in [DOMAIN mr_sources' -> MergeSource]
        /\ mr_sources'[s].sampling = x.is_sampling
        /\ \A y \in DOMAIN mr_sources : mr_sources'[y] = mr_sources[y]
    BY <1>1, <1>3, <2>1, NewSourceType DEF MergersOK
  <2>4. CASE ~x.is_sampling
    <3>1. sampled' = sampled
      BY <2>1, <2>4
    <3>2. CASE output' = output
      BY <1>1, <1>3, <2>2, <2>3, <2>4, <3>1, <3>2 DEF MergersOK, InMergerOfFlag, Steps
    <3>3. CASE output' # output
      <4>1. PICK d \in MergeData : /\ output' = Put(output, s, d)
                                   /\ Fits(DOMAIN output \cup {s})
        BY <2>1, <2>2, <2>4, <3>3, PacketEnters DEF MergersOK
      <4>2. Steps
        BY <1>1, <2>2, <3>1, <4>1, Heard
      <4>3. /\ DOMAIN output' = DOMAIN output \cup {s}
            /\ output' \in [DOMAIN output' -> MergeData]
        BY <4>1, PutType DEF MergersOK
      <4> QED
        BY <1>1, <1>3, <2>3, <2>4, <3>1, <4>2, <4>3 DEF MergersOK, InMergerOfFlag
    <3> QED
      BY <3>2, <3>3
  <2>5. CASE x.is_sampling
    <3>1. output' = output
      BY <2>1, <2>5
    <3>2. CASE sampled' = sampled
      BY <1>1, <1>3, <2>2, <2>3, <2>5, <3>1, <3>2 DEF MergersOK, InMergerOfFlag, Steps
    <3>3. CASE sampled' # sampled
      <4>1. PICK d \in MergeData : /\ sampled' = Put(sampled, s, d)
                                   /\ Fits(DOMAIN sampled \cup {s})
        BY <2>1, <2>2, <2>5, <3>3, PacketEnters DEF MergersOK
      <4>2. Steps
        BY <1>1, <2>2, <3>1, <4>1, Heard
      <4>3. /\ DOMAIN sampled' = DOMAIN sampled \cup {s}
            /\ sampled' \in [DOMAIN sampled' -> MergeData]
        BY <4>1, PutType DEF MergersOK
      <4> QED
        BY <1>1, <1>3, <2>3, <2>5, <3>1, <4>2, <4>3 DEF MergersOK, InMergerOfFlag
    <3> QED
      BY <3>2, <3>3
  <2> QED
    BY <1>1, <2>4, <2>5
<1> QED
  BY <1>2, <1>3

LEMMA SourcesLostStep ==
  ASSUME MergersOK, NEW x, SourcesLost(x)
  PROVE  MergersOK' /\ Steps
<1> DEFINE lost == x.sources \cap DOMAIN mr_sources
           hidden == {s \in lost : mr_sources[s].sampling}
<1>1. /\ mr_sources' = Without(mr_sources, lost)
      /\ output' = Without(output, lost \ hidden)
      /\ sampled' = Without(sampled, hidden)
  BY DEF SourcesLost
<1>2. /\ DOMAIN output \ (lost \ hidden) = DOMAIN output \ lost
      /\ DOMAIN sampled \ hidden = DOMAIN sampled \ lost
      /\ lost \in SUBSET Sources
  BY DEF MergersOK, InMergerOfFlag
<1>3. output' = Without(output, lost) /\ sampled' = Without(sampled, lost)
  BY <1>1, <1>2 DEF Without
<1>4. Steps
  BY <1>2, <1>3, Lost
<1> HIDE DEF lost
<1>5. MergersOK'
  BY <1>1, <1>3 DEF MergersOK, InMergerOfFlag, Without, Restrict
<1> QED
  BY <1>4, <1>5

LEMMA MovedType ==
  ASSUME NEW data \in MergeData
  PROVE  Moved(data) \in MergeData /\ SameButPap(data, Moved(data))
BY DEF Moved, SameButPap, MergeData

LEMMA SamplingEndedStep ==
  ASSUME MergersOK, NEW x, SamplingEnded(x)
  PROVE  MergersOK' /\ Steps
<1>1. Moving = DOMAIN sampled
  BY DEF Moving, MergersOK, InMergerOfFlag
<1>2. PICK entering \in Entering(output, DOMAIN sampled) :
        /\ mr_sources' = [s \in DOMAIN mr_sources |->
                            [mr_sources[s] EXCEPT !.sampling = FALSE]]
        /\ output' = [s \in DOMAIN output \cup entering |->
                        IF s \in DOMAIN sampled THEN Moved(sampled[s]) ELSE output[s]]
        /\ sampled' = Without(sampled, DOMAIN sampled)
  BY <1>1 DEF SamplingEnded
<1>3. DOMAIN sampled' = {} /\ sampled' = << >>
  <2>1. DOMAIN sampled \ DOMAIN sampled = {}
    OBVIOUS
  <2>2. sampled' = Restrict(sampled, {})
    BY <1>2, <2>1 DEF Without
  <2> QED
    BY <2>2, NothingRestricted DEF Restrict
<1>4. /\ DOMAIN mr_sources' = DOMAIN mr_sources
      /\ mr_sources' \in [DOMAIN mr_sources' -> MergeSource]
      /\ \A s \in DOMAIN mr_sources : ~mr_sources'[s].sampling
  BY <1>2 DEF MergersOK, MergeSource
<1>5. /\ DOMAIN output' = DOMAIN output \cup entering
      /\ entering \subseteq DOMAIN sampled
      /\ output' \in [DOMAIN output' -> MergeData]
  BY <1>2, MovedType DEF MergersOK, Entering
<1>6. DOMAIN output' \subseteq DOMAIN mr_sources
  BY <1>5 DEF MergersOK, InMergerOfFlag
<1>7. MergersOK'
  <2>1. sampled' \in [DOMAIN sampled' -> MergeData]
    BY <1>3
  <2> QED
    BY <1>3, <1>4, <1>5, <1>6, <2>1 DEF MergersOK, InMergerOfFlag
<1>8. Merged!Reveal
  <2>1. \A s \in DOMAIN output' :
          IF s \in DOMAIN output THEN output'[s] = output[s]
                                 ELSE SameButPap(sampled[s], output'[s])
    <3>1. \A s \in DOMAIN output : s \notin DOMAIN sampled
      BY DEF MergersOK, InMergerOfFlag
    <3> QED
      BY <1>2, <1>5, <3>1, MovedType DEF MergersOK
  <2>2. ASSUME NEW s \in (DOMAIN output \cup DOMAIN sampled) \ DOMAIN output'
        PROVE  ~Merged!RoomFor(s, output')
    <3>1. s \in DOMAIN sampled \ entering
      BY <1>5
    <3>2. ~Fits(DOMAIN output' \cup {s})
      BY <1>2, <1>5, <3>1 DEF Entering
    <3> QED
      BY <3>2, RoomIsFits
  <2> QED
    BY <1>3, <1>5, <2>1, <2>2 DEF Merged!Reveal, Merged!There
<1> QED
  BY <1>7, <1>8 DEF Steps, Merged!Next

LEMMA PapLostStep ==
  ASSUME MergersOK, NEW x, x.source \in Sources, PapLost(x)
  PROVE  MergersOK' /\ Steps
<1> DEFINE s == x.source
<1>1. CASE ~(UsePap /\ s \in DOMAIN mr_sources)
  BY <1>1 DEF PapLost, MergersOK, InMergerOfFlag, Steps
<1>2. CASE UsePap /\ s \in DOMAIN mr_sources
  <2>1. /\ mr_sources' = [mr_sources EXCEPT ![s].pap_active = FALSE]
        /\ output' = IF ~mr_sources[s].sampling THEN UpdatePap(output, s, NoPap) ELSE output
        /\ sampled' = IF mr_sources[s].sampling THEN UpdatePap(sampled, s, NoPap) ELSE sampled
    BY <1>2 DEF PapLost
  <2>2. /\ DOMAIN mr_sources' = DOMAIN mr_sources
        /\ mr_sources' \in [DOMAIN mr_sources' -> MergeSource]
        /\ \A y \in DOMAIN mr_sources : mr_sources'[y].sampling = mr_sources[y].sampling
    BY <1>2, <2>1 DEF MergersOK, MergeSource
  <2>3. \A data \in MergeData : [data EXCEPT !.pap = NoPap] \in MergeData
    BY DEF MergeData
  <2>4. CASE s \notin DOMAIN sampled /\ s \notin DOMAIN output
    <3>1. output' = output /\ sampled' = sampled
      BY <2>1, <2>4 DEF UpdatePap, MergersOK
    <3> QED
      BY <2>2, <3>1 DEF MergersOK, InMergerOfFlag, Steps
  <2>5. CASE s \in DOMAIN sampled
    <3>1. s \in DOMAIN sampled /\ mr_sources[s].sampling
      BY <2>5 DEF MergersOK, InMergerOfFlag
    <3>2. output' = output /\ sampled' = Put(sampled, s, [sampled[s] EXCEPT !.pap = NoPap])
      BY <2>1, <2>5, <3>1 DEF UpdatePap, Put
    <3>3. [sampled[s] EXCEPT !.pap = NoPap] \in MergeData
      BY <2>3, <3>1 DEF MergersOK
    <3>4. Steps
      BY <3>1, <3>2, <3>3, Heard
    <3>5. DOMAIN sampled \cup {s} = DOMAIN sampled
      BY <3>1
    <3>6. /\ DOMAIN sampled' = DOMAIN sampled
          /\ sampled' \in [DOMAIN sampled' -> MergeData]
      BY <3>2, <3>3, <3>5, PutType DEF MergersOK
    <3> QED
      BY <2>2, <3>2, <3>4, <3>6 DEF MergersOK, InMergerOfFlag
  <2>6. CASE s \in DOMAIN output
    <3>1. s \in DOMAIN output /\ ~mr_sources[s].sampling
      BY <2>6 DEF MergersOK, InMergerOfFlag
    <3>2. sampled' = sampled /\ output' = Put(output, s, [output[s] EXCEPT !.pap = NoPap])
      BY <2>1, <2>6, <3>1 DEF UpdatePap, Put
    <3>3. [output[s] EXCEPT !.pap = NoPap] \in MergeData
      BY <2>3, <3>1 DEF MergersOK
    <3>4. Steps
      BY <3>1, <3>2, <3>3, Heard
    <3>5. DOMAIN output \cup {s} = DOMAIN output
      BY <3>1
    <3>6. /\ DOMAIN output' = DOMAIN output
          /\ output' \in [DOMAIN output' -> MergeData]
      BY <3>2, <3>3, <3>5, PutType DEF MergersOK
    <3> QED
      BY <2>2, <3>2, <3>4, <3>6 DEF MergersOK, InMergerOfFlag
  <2> QED
    BY <2>4, <2>5, <2>6
<1> QED
  BY <1>1, <1>2

LEMMA NoSourcesOK ==
  ASSUME mr_sources' = << >>, output' = << >>, sampled' = << >>
  PROVE  MergersOK'
BY DEF MergersOK, InMergerOfFlag

LEMMA ForgetStep ==
  ASSUME MergersOK, ForgetSources
  PROVE  MergersOK' /\ Steps
<1> DEFINE S == DOMAIN mr_sources
<1>1. /\ output' = Without(output, S)
      /\ sampled' = Without(sampled, S \ DOMAIN output)
      /\ mr_sources' = << >>
  BY DEF ForgetSources
<1>2. /\ DOMAIN output \ S = {}
      /\ DOMAIN sampled \ (S \ DOMAIN output) = {}
      /\ DOMAIN sampled \ S = {}
      /\ S \in SUBSET Sources
  BY DEF MergersOK, InMergerOfFlag
<1>3. /\ output' = << >> /\ sampled' = << >>
      /\ output' = Without(output, S) /\ sampled' = Without(sampled, S)
  BY <1>1, <1>2, NothingRestricted DEF Without
<1> QED
  BY <1>1, <1>2, <1>3, NoSourcesOK, Lost

LEMMA ClearedStep ==
  ASSUME MergersOK, Cleared
  PROVE  MergersOK' /\ Steps
<1>1. /\ DOMAIN output \ Sources = {}
      /\ DOMAIN sampled \ Sources = {}
  BY DEF MergersOK, InMergerOfFlag
<1>2. output' = Without(output, Sources) /\ sampled' = Without(sampled, Sources)
  BY <1>1, NothingRestricted DEF Cleared, Without
<1> QED
  BY <1>2, NoSourcesOK, Lost DEF Cleared

LEMMA MergersUnchanged ==
  ASSUME MergersOK, UNCHANGED <<mr_sources, output, sampled>>
  PROVE  MergersOK' /\ Steps
BY DEF MergersOK, InMergerOfFlag, Steps
-----------------------------------------------------------------------------
\* What the receive thread captures are notifications.
LEMMA Sequences ==
  ASSUME NEW N
  PROVE  /\ << >> \in Seq(N)
         /\ \A x \in N : <<x>> \in Seq(N)
         /\ \A q, r \in Seq(N) : q \o r \in Seq(N)
BY ConcatProperties

LEMMA WiderSequence ==
  ASSUME NEW N, NEW W, N \subseteq W, NEW q \in Seq(N)
  PROVE  q \in Seq(W)
BY SeqDef

LEMMA DataTypes ==
  ASSUME MInv, NEW s \in Sources, NEW n
  PROVE  /\ \A value \in Levels \cup {NoLevels} :
               DataNotification(s, n, "dmx", value) \in NotesNow
         /\ DataNotification(s, n, "pap", SentPap) \in NotesNow
         /\ DataNotification(s, n, "other", NoLevels) \in NotesNow
         /\ PapLostNotification(s) \in NotesNow
<1>1. universe \in Universes /\ (n \in current => sampling)
  BY DEF MInv, PeriodOK
<1>2. \A sc, value : /\ DataNotification(s, n, sc, value).is_sampling = (n \in current)
  BY DEF DataNotification
<1>3. \A value \in Levels \cup {NoLevels} :
        DataNotification(s, n, "dmx", value) \in DataNotes
  BY <1>1 DEF DataNotification, DataNotes
<1>4. DataNotification(s, n, "pap", SentPap) \in PapNotes
  BY <1>1 DEF DataNotification, PapNotes
<1>5. DataNotification(s, n, "other", NoLevels) \in OtherNotes
  BY <1>1 DEF DataNotification, OtherNotes
<1>6. PapLostNotification(s) \in PapLostNotes
  BY <1>1 DEF PapLostNotification, PapLostNotes
<1>7. PapLostNotification(s) \notin UniverseDataNotes
  BY DEF PapLostNotification, UniverseDataNotes, DataNotes, PapNotes, OtherNotes
<1> QED
  BY <1>1, <1>2, <1>3, <1>4, <1>5, <1>6, <1>7 DEF NotesNow, PacketNotes, UniverseDataNotes

LEMMA DataIfType ==
  ASSUME NEW x \in NotesNow, NEW preview
  PROVE  DataIf(preview, x) \in Seq(NotesNow)
BY Sequences DEF DataIf

\* A packet: only the sources the receiver tracks and what it captured change.
PacketDone ==
    /\ DOMAIN tracked' \subseteq Sources
    /\ captured' \in Seq(NotesNow)
    /\ UNCHANGED <<mrVars, universe, sampling, current>>

LEMMA PacketCaptured ==
  ASSUME MInv, ReceivePacket
  PROVE  PacketDone
<1>1. PICK s \in Sources, n \in Netints, preview \in Previews :
          \/ \E value \in Levels \cup {NoLevels} : CaptureDmx(s, n, preview, value)
          \/ CapturePap(s, n, preview)
          \/ CaptureOther(s, n, preview)
  BY DEF ReceivePacket
<1>2. universe \in Universes /\ DOMAIN tracked \subseteq Sources
  BY DEF MInv
<1>3. ASSUME NEW value \in Levels \cup {NoLevels}, CaptureDmx(s, n, preview, value)
      PROVE  PacketDone
  <2> DEFINE data == DataIf(preview, DataNotification(s, n, "dmx", value))
  <2>1. data \in Seq(NotesNow)
    BY DataTypes, DataIfType
  <2> HIDE DEF data
  <2>2. CASE s \in Known /\ LevelsHeldBack(s, n) /\ Capture(<< >>)
    BY <1>2, <2>2, Sequences
       DEF LevelsHeldBack, NothingNew, periodVars, Capture, PacketDone, mrVars
  <2>3. ASSUME NEW pap_lost \in BOOLEAN, LevelsOfKnown(s, n, pap_lost),
               Capture((IF pap_lost THEN <<PapLostNotification(s)>> ELSE << >>) \o data)
        PROVE  PacketDone
    <3> DEFINE lost == IF pap_lost THEN <<PapLostNotification(s)>> ELSE << >>
    <3>1. lost \in Seq(NotesNow)
      BY DataTypes, Sequences
    <3>2. captured' = lost \o data /\ UNCHANGED <<mrVars, universe, sampling, current>>
      BY <2>3 DEF Capture, LevelsOfKnown, periodVars
    <3> HIDE DEF lost
    <3>3. captured' \in Seq(NotesNow)
      BY <2>1, <3>1, <3>2, Sequences
    <3>4. DOMAIN tracked' = DOMAIN tracked
      BY <2>3 DEF LevelsOfKnown
    <3> QED
      BY <1>2, <3>2, <3>3, <3>4 DEF PacketDone
  <2>4. CASE NewSource(s, n, FALSE) /\ Capture(IF sampling THEN data ELSE << >>)
    <3>1. captured' = (IF sampling THEN data ELSE << >>) /\ UNCHANGED <<mrVars, universe, sampling, current>>
      BY <2>4 DEF Capture, NewSource, periodVars
    <3>2. captured' \in Seq(NotesNow)
      BY <2>1, <3>1, Sequences
    <3>3. DOMAIN tracked' = DOMAIN tracked \cup {s}
      BY <2>4 DEF NewSource, Known
    <3> QED
      BY <1>2, <3>1, <3>2, <3>3 DEF PacketDone
  <2>5. \/ s \in Known /\ LevelsHeldBack(s, n) /\ Capture(<< >>)
        \/ \E pap_lost \in BOOLEAN :
              /\ LevelsOfKnown(s, n, pap_lost)
              /\ Capture((IF pap_lost THEN <<PapLostNotification(s)>> ELSE << >>) \o data)
        \/ NewSource(s, n, FALSE) /\ Capture(IF sampling THEN data ELSE << >>)
    BY <1>3 DEF CaptureDmx, data
  <2> QED
    BY <2>2, <2>3, <2>4, <2>5
<1>4. ASSUME CapturePap(s, n, preview)
      PROVE  PacketDone
  <2> DEFINE data == DataIf(preview, DataNotification(s, n, "pap", SentPap))
  <2>1. data \in Seq(NotesNow)
    BY DataTypes, DataIfType
  <2>2. /\ PapOfKnown(s, n) \/ NewSource(s, n, TRUE)
        /\ captured' = data /\ UNCHANGED <<mrVars, universe, sampling, current>>
    BY <1>4 DEF CapturePap, Capture, PapOfKnown, NewSource, periodVars
  <2> HIDE DEF data
  <2>3. DOMAIN tracked' \subseteq DOMAIN tracked \cup {s}
    BY <2>2 DEF PapOfKnown, NewSource, Known
  <2> QED
    BY <1>2, <2>1, <2>2, <2>3 DEF PacketDone
<1>5. ASSUME CaptureOther(s, n, preview)
      PROVE  PacketDone
  <2> DEFINE data == DataIf(preview, DataNotification(s, n, "other", NoLevels))
  <2>1. data \in Seq(NotesNow)
    BY DataTypes, DataIfType
  <2>2. /\ NothingNew(s, n)
        /\ captured' = data /\ UNCHANGED <<mrVars, universe, sampling, current>>
    BY <1>5 DEF CaptureOther, Capture, NothingNew, periodVars
  <2> HIDE DEF data
  <2>3. DOMAIN tracked' = DOMAIN tracked
    BY <2>2 DEF NothingNew
  <2> QED
    BY <1>2, <2>1, <2>2, <2>3 DEF PacketDone
<1> QED
  BY <1>1, <1>3, <1>4, <1>5

\* A tick: the period ends with a notification.
TickDone ==
    /\ DOMAIN tracked' \subseteq Sources
    /\ captured' \in Seq(TickNotes)
    /\ PeriodOK'
    /\ sampling => \/ sampling'
                   \/ \E i \in DOMAIN captured' : captured'[i].kind = "sampling_ended"
    /\ UNCHANGED <<mrVars, universe>>

LEMMA FirstOfThree ==
  ASSUME NEW N, NEW x \in N, NEW q \in Seq(N), NEW r \in Seq(N)
  PROVE  1 \in DOMAIN (<<x>> \o q \o r) /\ (<<x>> \o q \o r)[1] = x
<1>1. <<x>> \in Seq(N) /\ Len(<<x>>) = 1 /\ <<x>>[1] = x
  OBVIOUS
<1>2. /\ <<x>> \o q \in Seq(N) /\ Len(<<x>> \o q) = 1 + Len(q)
      /\ (<<x>> \o q)[1] = x
  BY <1>1, ConcatProperties, LenProperties
<1>3. Len(q) \in Nat /\ Len(r) \in Nat
  BY LenProperties
<1> DEFINE p == <<x>> \o q
<1> HIDE DEF p
<1>4. /\ p \o r \in Seq(N) /\ Len(p \o r) = 1 + Len(q) + Len(r)
      /\ (p \o r)[1] = x
  BY <1>2, <1>3, ConcatProperties DEF p
<1>5. 1 \in DOMAIN (p \o r)
  BY <1>3, <1>4
<1> QED
  BY <1>4, <1>5 DEF p

LEMMA TickCaptured ==
  ASSUME MInv, ThreadTick
  PROVE  TickDone
<1>1. PICK gone \in SUBSET Known, ends \in BOOLEAN : CaptureTick(gone, ends)
  BY DEF ThreadTick
<1> DEFINE note(kind) == [kind |-> kind, universe |-> universe, sources |-> LostAtTick(gone)]
           Of(condition, kind) == IF condition THEN <<note(kind)>> ELSE << >>
           ended == Of(ends, "sampling_ended")
           begun == Of(StartsAtTick(ends), "sampling_started")
           lost == Of(LostAtTick(gone) # {}, "sources_lost")
<1>2. /\ Tick(gone, ends)
      /\ captured' = ended \o begun \o lost
      /\ UNCHANGED <<mrVars, universe>>
  BY <1>1 DEF CaptureTick, Capture
<1>3. universe \in Universes /\ DOMAIN tracked \subseteq Sources /\ PeriodOK
  BY DEF MInv
<1>4. LostAtTick(gone) \in SUBSET Sources
  BY <1>3 DEF LostAtTick, Known
<1>5. /\ note("sampling_ended") \in TickNotes
      /\ note("sampling_started") \in TickNotes
      /\ note("sources_lost") \in TickNotes
  BY <1>3, <1>4 DEF TickNotes
<1>6. ended \in Seq(TickNotes) /\ begun \in Seq(TickNotes) /\ lost \in Seq(TickNotes)
  BY <1>5, Sequences
<1>7. DOMAIN tracked' \subseteq DOMAIN tracked
  BY <1>2 DEF Tick, Restrict, Known
<1>8. PeriodOK'
  BY <1>2, <1>3 DEF Tick, PeriodOK
<1>9. ends => ended = <<note("sampling_ended")>>
  OBVIOUS
<1>10. ~ends => sampling' = sampling
  BY <1>2 DEF Tick
<1> HIDE DEF ended, begun, lost
<1>11. captured' \in Seq(TickNotes)
  BY <1>2, <1>6, Sequences
<1>12. ends => \E i \in DOMAIN captured' : captured'[i].kind = "sampling_ended"
  <2> SUFFICES ASSUME ends
               PROVE  \E i \in DOMAIN captured' : captured'[i].kind = "sampling_ended"
    OBVIOUS
  <2>1. captured' = <<note("sampling_ended")>> \o begun \o lost
    BY <1>2, <1>9
  <2>2. note("sampling_ended").kind = "sampling_ended"
    OBVIOUS
  <2> HIDE DEF note
  <2>3. 1 \in DOMAIN captured' /\ captured'[1] = note("sampling_ended")
    BY <1>5, <1>6, <2>1, FirstOfThree
  <2> QED
    BY <2>2, <2>3
<1> QED
  BY <1>2, <1>3, <1>7, <1>8, <1>10, <1>11, <1>12 DEF TickDone
-----------------------------------------------------------------------------
LEMMA Delivered ==
  ASSUME MInv, Deliver
  PROVE  MInv' /\ Steps
<1> DEFINE x == Head(captured)
<1>1. /\ captured # << >> /\ captured' = Tail(captured)
      /\ UNCHANGED <<rcvVars, universe>>
      /\ \/ x.kind = "universe_data" /\ UniverseData(x)
         \/ x.kind = "sources_lost" /\ SourcesLost(x)
         \/ x.kind = "sampling_ended" /\ SamplingEnded(x)
         \/ x.kind = "sampling_started" /\ SamplingStarted
         \/ x.kind = "pap_lost" /\ PapLost(x)
  BY DEF Deliver
<1>2. captured \in Seq(Notes) /\ MergersOK
  BY DEF MInv
<1>3. x \in Notes /\ Tail(captured) \in Seq(Notes)
  <2> HIDE DEF Notes
  <2> QED
    BY <1>1, <1>2, HeadTailProperties
<1> HIDE DEF x
<1>4. MergersOK' /\ Steps
  <2>1. CASE x.kind = "universe_data" /\ UniverseData(x)
    <3>1. x \in UniverseDataNotes
      BY <1>3, <2>1 DEF Notes, PacketNotes, PapLostNotes, TickNotes
    <3> QED
      BY <1>2, <2>1, <3>1, UniverseDataStep
  <2>2. CASE SourcesLost(x)
    BY <1>2, <2>2, SourcesLostStep
  <2>3. CASE SamplingEnded(x)
    BY <1>2, <2>3, SamplingEndedStep
  <2>4. CASE SamplingStarted
    BY <1>2, <2>4, MergersUnchanged DEF SamplingStarted
  <2>5. CASE x.kind = "pap_lost" /\ PapLost(x)
    <3>1. x.source \in Sources
      BY <1>3, <2>5
         DEF Notes, PacketNotes, UniverseDataNotes, DataNotes, PapNotes, OtherNotes,
             PapLostNotes, TickNotes
    <3> QED
      BY <1>2, <2>5, <3>1, PapLostStep
  <2> QED
    BY <1>1, <2>1, <2>2, <2>3, <2>4, <2>5
<1> QED
  BY <1>1, <1>3, <1>4 DEF MInv, PeriodOK, rcvVars

LEMMA MergersInit == SystemInit => MInv /\ Merged!Init
<1> SUFFICES ASSUME SystemInit
             PROVE  MInv /\ Merged!Init
  OBVIOUS
<1>1. /\ mr_sources = << >> /\ output = << >> /\ sampled = << >>
      /\ tracked = << >> /\ captured = << >> /\ universe \in Universes
      /\ sampling = TRUE
  BY DEF SystemInit, ReceiverInit, MergeReceiverInit
<1>2. MergersOK
  BY <1>1 DEF MergersOK, InMergerOfFlag
<1> QED
  BY <1>1, <1>2, Sequences DEF MInv, PeriodOK, Merged!Init

LEMMA MergersStep == MInv /\ [SystemNext]_sysVars => MInv' /\ Steps
<1> SUFFICES ASSUME MInv, [SystemNext]_sysVars
             PROVE  MInv' /\ Steps
  OBVIOUS
<1>1. MergersOK
  BY DEF MInv
<1>2. NotesNow \subseteq Notes /\ TickNotes \subseteq Notes
  BY DEF NotesNow, Notes
<1>3. CASE ReceivePacket
  <2>1. PacketDone
    BY <1>3, PacketCaptured
  <2>2. captured' \in Seq(Notes)
    BY <1>2, <2>1, WiderSequence DEF PacketDone
  <2> QED
    BY <1>1, <2>1, <2>2, MergersUnchanged DEF PacketDone, MInv, PeriodOK, mrVars
<1>4. CASE ThreadTick
  <2>1. TickDone
    BY <1>4, TickCaptured
  <2>2. captured' \in Seq(Notes)
    BY <1>2, <2>1, WiderSequence DEF TickDone
  <2> QED
    BY <1>1, <2>1, <2>2, MergersUnchanged DEF TickDone, MInv, mrVars
<1>5. CASE Deliver
  BY <1>5, Delivered
<1>6. CASE Callback
  BY <1>1, <1>6, MergersUnchanged DEF Callback, MInv, PeriodOK, rcvVars
<1>7. ASSUME NEW u \in Universes, ChangeUniverse(u)
      PROVE  MInv' /\ Steps
  <2>1. /\ ForgetSources /\ universe' = u /\ captured' = captured /\ tracked' = << >>
        /\ sampling' = TRUE
    BY <1>7 DEF ChangeUniverse, ReceiverChangeUniverse, BeginPeriod
  <2> QED
    BY <1>1, <2>1, ForgetStep DEF MInv, PeriodOK
<1>8. CASE Destroy
  <2>1. /\ Cleared /\ universe' = universe /\ captured' = << >> /\ tracked' = << >>
        /\ sampling' = FALSE /\ current' = {}
    BY <1>8 DEF Destroy, ReceiverDestroyed
  <2>2. captured' \in Seq(Notes)
    BY <2>1, Sequences
  <2>3. MergersOK' /\ Steps
    BY <1>1, <2>1, ClearedStep
  <2>4. PeriodOK'
    BY <2>1 DEF PeriodOK
  <2>5. DOMAIN tracked' \subseteq Sources
    BY <2>1
  <2> QED
    BY <2>1, <2>2, <2>3, <2>4, <2>5 DEF MInv
<1>9. ASSUME NEW u \in Universes, NEW usable \in SUBSET Netints, Create(u, usable)
      PROVE  MInv' /\ Steps
  BY <1>1, <1>9, MergersUnchanged DEF Create, ReceiverCreated, MInv, PeriodOK, mrVars
<1>10. ASSUME NEW listed \in SUBSET Netints, NEW usable \in SUBSET listed,
              ResetNetworking(listed, usable)
       PROVE  MInv' /\ Steps
  BY <1>1, <1>10, MergersUnchanged
     DEF ResetNetworking, ReceiverResetNetworking, BeginPeriod, MInv, PeriodOK, mrVars
<1>11. CASE UNCHANGED sysVars
  BY <1>1, <1>11, MergersUnchanged DEF sysVars, rcvVars, mrVars, MInv, PeriodOK
<1> QED
  BY <1>3, <1>4, <1>5, <1>6, <1>7, <1>8, <1>9, <1>10, <1>11 DEF SystemNext, AppCall

\* The mergers of a merge receiver implement MergedSources: the sampled sources
\* enter the merge together at the end of the period (merge_receiver.c:915),
\* and no source of the merge falls back into hiding.
THEOREM MergeReceiverImplements == SystemSpec => ImplementsMergedSources
<1>1. Steps => [Merged!Next]_(Merged!vars)
  BY DEF Steps, Merged!vars
<1> QED
  BY <1>1, MergersInit, MergersStep, PTL DEF SystemSpec, ImplementsMergedSources, Merged!Spec
-----------------------------------------------------------------------------
\* The notifications captured at one time are those of a packet or those of a
\* tick.  The ones of a packet of a sampled interface wait only while the
\* period is running: the thread that would end it has to deliver them first.
InPeriod(q, period) ==
    \A i \in DOMAIN q : q[i] \in UniverseDataNotes /\ q[i].is_sampling => period

CapturedTogether ==
    \/ captured \in Seq(TickNotes)
    \/ captured \in Seq(PacketNotes) /\ InPeriod(captured, sampling)

\* The inductive invariant for HiddenOnlyWhileSampling.
PInv ==
    /\ MInv
    /\ CapturedTogether
    /\ HiddenOnlyWhileSampling

LEMMA NoteKinds ==
  /\ \A x \in TickNotes : x \in Notes /\ x.kind # "universe_data" /\ x.kind # "pap_lost"
  /\ \A x \in PacketNotes : x \in Notes /\ x.kind # "sampling_ended"
  /\ \A x \in UniverseDataNotes : x.kind = "universe_data"
  /\ \A x \in PapLostNotes : x.kind = "pap_lost"
BY DEF TickNotes, PacketNotes, UniverseDataNotes, DataNotes, PapNotes, OtherNotes,
       PapLostNotes, Notes

\* Of the notifications delivered only data of a sampled interface adds to the
\* sampling merger, and the end of the period empties it.
LEMMA SampledAfter ==
  ASSUME MergersOK, NEW x
  PROVE  /\ UniverseData(x) /\ ~x.is_sampling => sampled' = sampled
         /\ SourcesLost(x) => DOMAIN sampled' \subseteq DOMAIN sampled
         /\ PapLost(x) => DOMAIN sampled' = DOMAIN sampled
         /\ SamplingStarted => sampled' = sampled
         /\ SamplingEnded(x) => DOMAIN sampled' = {}
<1>1. UniverseData(x) /\ ~x.is_sampling => sampled' = sampled
  BY DEF UniverseData
<1>2. SourcesLost(x) => DOMAIN sampled' \subseteq DOMAIN sampled
  BY DEF SourcesLost, Without, Restrict
<1>3. PapLost(x) => DOMAIN sampled' = DOMAIN sampled
  BY DEF PapLost, UpdatePap
<1>4. SamplingStarted => sampled' = sampled
  BY DEF SamplingStarted
<1>5. SamplingEnded(x) => DOMAIN sampled' = {}
  <2>1. Moving = DOMAIN sampled
    BY DEF Moving, MergersOK, InMergerOfFlag
  <2> QED
    BY <2>1 DEF SamplingEnded, Without, Restrict
<1> QED
  BY <1>1, <1>2, <1>3, <1>4, <1>5

LEMMA TailElements ==
  ASSUME NEW S, NEW q \in Seq(S), q # << >>
  PROVE  /\ Head(q) = q[1] /\ 1 \in DOMAIN q /\ Head(q) \in S
         /\ Tail(q) \in Seq(S)
         /\ \A i \in DOMAIN Tail(q) : i + 1 \in DOMAIN q /\ Tail(q)[i] = q[i + 1]
         /\ \A i \in DOMAIN q : i # 1 => /\ i - 1 \in DOMAIN Tail(q)
                                         /\ Tail(q)[i - 1] = q[i]
<1>1. Len(q) \in Nat \ {0} /\ DOMAIN q = 1..Len(q) /\ Head(q) = q[1]
  BY EmptySeq
<1>2. /\ Head(q) \in S /\ Tail(q) \in Seq(S) /\ Len(Tail(q)) = Len(q) - 1
      /\ \A i \in 1..Len(Tail(q)) : Tail(q)[i] = q[i + 1]
  BY HeadTailProperties
<1>3. DOMAIN Tail(q) = 1..(Len(q) - 1)
  BY <1>2
<1>4. \A i \in DOMAIN q : i # 1 => i - 1 \in 1..(Len(q) - 1) /\ (i - 1) + 1 = i
  BY <1>1
<1>5. \A i \in 1..(Len(q) - 1) : i + 1 \in DOMAIN q
  BY <1>1
<1> QED
  BY <1>1, <1>2, <1>3, <1>4, <1>5

LEMMA HiddenDelivered ==
  ASSUME PInv, Deliver
  PROVE  CapturedTogether' /\ HiddenOnlyWhileSampling'
<1> DEFINE x == Head(captured)
<1>1. /\ captured # << >> /\ captured' = Tail(captured) /\ sampling' = sampling
      /\ \/ x.kind = "universe_data" /\ UniverseData(x)
         \/ x.kind = "sources_lost" /\ SourcesLost(x)
         \/ x.kind = "sampling_ended" /\ SamplingEnded(x)
         \/ x.kind = "sampling_started" /\ SamplingStarted
         \/ x.kind = "pap_lost" /\ PapLost(x)
  BY DEF Deliver, rcvVars
<1>2. MergersOK
  BY DEF PInv, MInv
<1>3. CASE captured \in Seq(TickNotes)
  <2>1. /\ x \in TickNotes /\ captured' \in Seq(TickNotes)
        /\ x = captured[1]
        /\ \A i \in DOMAIN captured : i # 1 =>
              i - 1 \in DOMAIN captured' /\ captured'[i - 1] = captured[i]
    <3> HIDE DEF TickNotes
    <3> QED
      BY <1>1, <1>3, TailElements
  <2>2. CASE x.kind = "sampling_ended"
    BY <1>1, <1>2, <2>1, <2>2, SampledAfter DEF CapturedTogether, HiddenOnlyWhileSampling
  <2>3. CASE x.kind # "sampling_ended"
    <3>1. DOMAIN sampled' \subseteq DOMAIN sampled
      BY <1>1, <1>2, <2>1, <2>3, SampledAfter, NoteKinds
    <3>2. (\E i \in DOMAIN captured : captured[i].kind = "sampling_ended")
            => (\E i \in DOMAIN captured' : captured'[i].kind = "sampling_ended")
      BY <2>1, <2>3
    <3> QED
      BY <1>1, <2>1, <3>1, <3>2 DEF PInv, CapturedTogether, HiddenOnlyWhileSampling
  <2> QED
    BY <2>2, <2>3
<1>4. CASE captured \in Seq(PacketNotes) /\ InPeriod(captured, sampling)
  <2>1. /\ x \in PacketNotes /\ captured' \in Seq(PacketNotes)
        /\ x = captured[1] /\ 1 \in DOMAIN captured
        /\ \A i \in DOMAIN captured' : i + 1 \in DOMAIN captured
                                        /\ captured'[i] = captured[i + 1]
    <3> HIDE DEF PacketNotes
    <3> QED
      BY <1>1, <1>4, TailElements
  <2>2. CapturedTogether'
    BY <1>1, <1>4, <2>1 DEF CapturedTogether, InPeriod
  <2>3. \A i \in DOMAIN captured : captured[i].kind # "sampling_ended"
    <3>1. \A i \in DOMAIN captured : captured[i] \in PacketNotes
      <4> HIDE DEF PacketNotes
      <4> QED
        BY <1>4
    <3> QED
      BY <3>1, NoteKinds
  <2>4. DOMAIN sampled # {} => sampling
    BY <2>3 DEF PInv, HiddenOnlyWhileSampling
  <2>5. DOMAIN sampled' # {} => sampling
    <3>1. CASE x \in UniverseDataNotes
      <4>1. UniverseData(x) /\ x.is_sampling \in BOOLEAN
        BY <1>1, <3>1, NoteKinds DEF UniverseDataNotes, DataNotes, PapNotes, OtherNotes
      <4>2. x.is_sampling => sampling
        BY <1>4, <2>1, <3>1 DEF InPeriod
      <4> QED
        BY <1>2, <2>4, <4>1, <4>2, SampledAfter
    <3>2. CASE x \in PapLostNotes
      <4>1. PapLost(x)
        BY <1>1, <3>2, NoteKinds
      <4> QED
        BY <1>2, <2>4, <4>1, SampledAfter
    <3> QED
      BY <2>1, <3>1, <3>2 DEF PacketNotes
  <2> QED
    BY <1>1, <2>2, <2>5 DEF HiddenOnlyWhileSampling
<1> QED
  BY <1>3, <1>4 DEF PInv, CapturedTogether

LEMMA HiddenInit == SystemInit => PInv
<1> SUFFICES ASSUME SystemInit
             PROVE  PInv
  OBVIOUS
<1>1. captured = << >> /\ sampled = << >>
  BY DEF SystemInit, MergeReceiverInit
<1>2. CapturedTogether
  BY <1>1, Sequences DEF CapturedTogether
<1> QED
  BY <1>1, <1>2, MergersInit DEF PInv, HiddenOnlyWhileSampling

LEMMA HiddenStep == PInv /\ [SystemNext]_sysVars => PInv'
<1> SUFFICES ASSUME PInv, [SystemNext]_sysVars
             PROVE  CapturedTogether' /\ HiddenOnlyWhileSampling'
  BY MergersStep DEF PInv
<1>1. ASSUME captured' = captured, DOMAIN sampled' \subseteq DOMAIN sampled,
             sampling => sampling'
      PROVE  CapturedTogether' /\ HiddenOnlyWhileSampling'
  BY <1>1 DEF PInv, CapturedTogether, InPeriod, HiddenOnlyWhileSampling
<1>2. CASE ReceivePacket
  <2>1. PacketDone /\ captured = << >>
    BY <1>2, PacketCaptured DEF PInv, ReceivePacket, ThreadIdle
  <2>2. captured' \in Seq(PacketNotes)
    BY <2>1, WiderSequence DEF PacketDone, NotesNow
  <2>3. \A i \in DOMAIN captured' : captured'[i] \in NotesNow
    <3> HIDE DEF NotesNow
    <3> QED
      BY <2>1 DEF PacketDone
  <2>4. InPeriod(captured', sampling')
    BY <2>1, <2>3 DEF InPeriod, NotesNow, PacketDone
  <2>5. HiddenOnlyWhileSampling'
    BY <2>1 DEF PInv, HiddenOnlyWhileSampling, PacketDone, mrVars
  <2> QED
    BY <2>2, <2>4, <2>5 DEF CapturedTogether
<1>3. CASE ThreadTick
  <2>1. TickDone /\ captured = << >>
    BY <1>3, TickCaptured DEF PInv, ThreadTick, ThreadIdle
  <2>2. HiddenOnlyWhileSampling'
    BY <2>1 DEF PInv, HiddenOnlyWhileSampling, TickDone, mrVars
  <2> QED
    BY <2>1, <2>2 DEF TickDone, CapturedTogether
<1>4. CASE Deliver
  BY <1>4, HiddenDelivered
<1>5. CASE Callback
  BY <1>1, <1>5 DEF Callback, rcvVars
<1>6. ASSUME NEW u \in Universes, ChangeUniverse(u)
      PROVE  CapturedTogether' /\ HiddenOnlyWhileSampling'
  BY <1>1, <1>6 DEF ChangeUniverse, ReceiverChangeUniverse, BeginPeriod, ForgetSources,
                    Without, Restrict
<1>7. CASE Destroy
  <2>1. captured' = << >> /\ sampled' = << >>
    BY <1>7 DEF Destroy, Cleared
  <2> QED
    BY <2>1, Sequences DEF CapturedTogether, HiddenOnlyWhileSampling
<1>8. ASSUME NEW u \in Universes, NEW usable \in SUBSET Netints, Create(u, usable)
      PROVE  CapturedTogether' /\ HiddenOnlyWhileSampling'
  BY <1>1, <1>8 DEF Create, ReceiverCreated, mrVars
<1>9. ASSUME NEW listed \in SUBSET Netints, NEW usable \in SUBSET listed,
             ResetNetworking(listed, usable)
      PROVE  CapturedTogether' /\ HiddenOnlyWhileSampling'
  BY <1>1, <1>9 DEF ResetNetworking, ReceiverResetNetworking, BeginPeriod, mrVars
<1>10. CASE UNCHANGED sysVars
  BY <1>1, <1>10 DEF sysVars, rcvVars, mrVars
<1> QED
  BY <1>2, <1>3, <1>4, <1>5, <1>6, <1>7, <1>8, <1>9, <1>10 DEF SystemNext, AppCall

\* No source is hidden after the sampling period is over and its end has been
\* handled: the notifications that would hide one are delivered before the
\* thread comes to end the period (deliver_receive_callbacks; the tick of
\* receiver_state.c).
THEOREM MergeReceiverHidesWhileSampling == SystemSpec => []HiddenOnlyWhileSampling
<1>1. PInv => HiddenOnlyWhileSampling
  BY DEF PInv
<1> QED
  BY <1>1, HiddenInit, HiddenStep, PTL DEF SystemSpec
-----------------------------------------------------------------------------
\* The inductive invariant for ShownIsCurrent: a copy of the output that is yet
\* to be shown is the output as it is, and where there is none it was shown.
UpToDate ==
    /\ \A d \in merged_data : d.merge = output
    /\ shown \/ merged_data # {}

SInv == MInv /\ ("universe" \notin scenario => UpToDate)

\* A handler that does not notify leaves the merge as it was.
ToldOrSame == \/ \E d : merged_data' = {d} /\ d.merge = output'
              \/ merged_data' = {} /\ Merge(output') = Merge(output)

LEMMA NotifyTells ==
  ASSUME NEW condition, NEW u, NotifyIf(condition, u),
         ~condition => Merge(output') = Merge(output)
  PROVE  ToldOrSame
<1>1. CASE condition
  <2> DEFINE d == MergedData(u, output', mr_sources')
  <2>1. merged_data' = {d}
    BY <1>1 DEF NotifyIf
  <2>2. d.merge = output'
    BY DEF MergedData
  <2> HIDE DEF d
  <2> QED
    BY <2>1, <2>2 DEF ToldOrSame
<1>2. CASE ~condition
  BY <1>2 DEF NotifyIf, ToldOrSame
<1> QED
  BY <1>1, <1>2

LEMMA UniverseDataTells ==
  ASSUME MergersOK, NEW x \in UniverseDataNotes, UniverseData(x)
  PROVE  ToldOrSame
<1>1. NotifyIf(Merges(x) /\ ~x.is_sampling, x.universe)
  BY DEF UniverseData
<1>2. ASSUME ~(Merges(x) /\ ~x.is_sampling)
      PROVE  Merge(output') = Merge(output)
  <2>1. output' = IF x.is_sampling THEN output
                  ELSE IF x.source \in DOMAIN mr_sources THEN output
                  ELSE AddTo(output, x.source)
    BY <1>2 DEF UniverseData, MergePacket
  <2>2. Merge(AddTo(output, x.source)) = Merge(output)
    <3> SUFFICES ASSUME Fits(DOMAIN output \cup {x.source})
                 PROVE  Merge(AddTo(output, x.source)) = Merge(output)
      BY DEF AddTo
    <3> DEFINE more == AddTo(output, x.source)
    <3>1. /\ DOMAIN more = DOMAIN output \cup {x.source}
          /\ \A y \in DOMAIN output : more[y] = output[y]
          /\ x.source \notin DOMAIN output => more[x.source].levels = NoLevels
      BY DEF AddTo, NewMergeSource
    <3> HIDE DEF more
    <3>2. HasLevels(more) = HasLevels(output)
      BY <3>1 DEF HasLevels
    <3>3. \A y \in HasLevels(output) : more[y] = output[y]
      BY <3>1 DEF HasLevels
    <3> QED
      BY <3>2, <3>3 DEF Merge, Restrict, more
  <2> QED
    BY <2>1, <2>2
<1> QED
  BY <1>1, <1>2, NotifyTells

LEMMA SourcesLostTells ==
  ASSUME MergersOK, NEW x, SourcesLost(x)
  PROVE  ToldOrSame
<1> DEFINE lost == x.sources \cap DOMAIN mr_sources
           hidden == {s \in lost : mr_sources[s].sampling}
<1>1. /\ output' = Without(output, lost \ hidden)
      /\ NotifyIf(lost # hidden, x.universe)
  BY DEF SourcesLost
<1>2. lost = hidden => output' = output
  BY <1>1, AllKept DEF MergersOK
<1> HIDE DEF lost, hidden
<1> QED
  BY <1>1, <1>2, NotifyTells

LEMMA SamplingEndedTells ==
  ASSUME MergersOK, NEW x, SamplingEnded(x)
  PROVE  ToldOrSame
<1>1. NotifyIf(DOMAIN mr_sources # {}, x.universe)
  BY DEF SamplingEnded
<1>2. DOMAIN mr_sources = {} => DOMAIN output = {} /\ DOMAIN output' = {}
  <2>1. PICK entering \in Entering(output, Moving) :
          DOMAIN output' = DOMAIN output \cup entering
    BY DEF SamplingEnded
  <2>2. entering \subseteq DOMAIN mr_sources
    BY DEF Entering, Moving
  <2> QED
    BY <2>1, <2>2 DEF MergersOK, InMergerOfFlag
<1>3. DOMAIN mr_sources = {} => Merge(output') = Merge(output)
  BY <1>2 DEF Merge, HasLevels, Restrict
<1> QED
  BY <1>1, <1>3, NotifyTells

LEMMA PapLostTells ==
  ASSUME NEW x, PapLost(x)
  PROVE  ToldOrSame
<1> DEFINE known == UsePap /\ x.source \in DOMAIN mr_sources
<1>1. /\ NotifyIf(known /\ ~mr_sources[x.source].sampling, x.universe)
      /\ ~(known /\ ~mr_sources[x.source].sampling) => output' = output
  BY DEF PapLost
<1> HIDE DEF known
<1> QED
  BY <1>1, NotifyTells

LEMMA DeliverTells ==
  ASSUME MInv, Deliver
  PROVE  ToldOrSame
<1> DEFINE x == Head(captured)
<1>1. /\ captured # << >>
      /\ \/ x.kind = "universe_data" /\ UniverseData(x)
         \/ x.kind = "sources_lost" /\ SourcesLost(x)
         \/ x.kind = "sampling_ended" /\ SamplingEnded(x)
         \/ x.kind = "sampling_started" /\ SamplingStarted
         \/ x.kind = "pap_lost" /\ PapLost(x)
  BY DEF Deliver
<1>2. captured \in Seq(Notes) /\ MergersOK
  BY DEF MInv
<1>3. x \in Notes
  <2> HIDE DEF Notes
  <2> QED
    BY <1>1, <1>2, HeadTailProperties
<1> HIDE DEF x
<1>4. x.kind = "universe_data" => x \in UniverseDataNotes
  BY <1>3 DEF Notes, PacketNotes, PapLostNotes, TickNotes
<1>5. SamplingStarted => ToldOrSame
  BY DEF SamplingStarted, ToldOrSame
<1> QED
  BY <1>1, <1>2, <1>4, <1>5, UniverseDataTells, SourcesLostTells, SamplingEndedTells,
     PapLostTells

LEMMA ShownStep == SInv /\ [SystemNext]_sysVars => SInv'
<1> SUFFICES ASSUME SInv, [SystemNext]_sysVars, "universe" \notin scenario'
             PROVE  UpToDate'
  BY MergersStep DEF SInv
<1>1. scenario' = scenario
  BY DEF SystemNext, ReceivePacket, ThreadTick, AppCall, CaptureDmx, CapturePap, CaptureOther,
         CaptureTick, Capture, Deliver, Callback, ChangeUniverse, ResetNetworking, Destroy,
         Create, sysVars
<1>2. UpToDate /\ MInv
  BY <1>1 DEF SInv
<1>3. ASSUME output' = output, merged_data' = merged_data, shown' = shown
      PROVE  UpToDate'
  BY <1>2, <1>3 DEF UpToDate
<1>4. CASE ReceivePacket
  BY <1>3, <1>4 DEF ReceivePacket, CaptureDmx, CapturePap, CaptureOther, Capture, mrVars
<1>5. CASE ThreadTick
  BY <1>3, <1>5 DEF ThreadTick, CaptureTick, Capture, mrVars
<1>6. CASE Deliver
  <2>1. /\ merged_data = {}
        /\ shown' = (shown /\ Merge(output') = Merge(output))
    BY <1>6 DEF Deliver
  <2>2. ToldOrSame
    BY <1>2, <1>6, DeliverTells
  <2> QED
    BY <1>2, <2>1, <2>2 DEF UpToDate, ToldOrSame
<1>7. CASE Callback
  <2>1. /\ shown' = \A d \in merged_data : Merge(d.merge) = Merge(output)
        /\ merged_data' = {}
    BY <1>7 DEF Callback
  <2>2. shown'
    BY <1>2, <2>1 DEF UpToDate
  <2> QED
    BY <2>1, <2>2 DEF UpToDate
<1>8. CASE Destroy
  BY <1>8 DEF Destroy, Cleared, UpToDate
<1>9. CASE \E u \in Universes, usable \in SUBSET Netints : Create(u, usable)
  BY <1>3, <1>9 DEF Create, mrVars
<1>10. CASE \E listed \in SUBSET Netints : \E usable \in SUBSET listed :
              ResetNetworking(listed, usable)
  BY <1>3, <1>10 DEF ResetNetworking, mrVars
<1>11. CASE UNCHANGED sysVars
  BY <1>3, <1>11 DEF sysVars, mrVars
<1>12. ~\E u \in Universes : ChangeUniverse(u)
  BY <1>1 DEF ChangeUniverse
<1> QED
  BY <1>4, <1>5, <1>6, <1>7, <1>8, <1>9, <1>10, <1>11, <1>12 DEF SystemNext, AppCall

\* Unless the universe is changed, which forgets the sources without a word,
\* the application was shown the merge as it is whenever the receive thread has
\* done its work: every handler that changes the merge notifies
\* (merge_receiver_universe_data and the others).
THEOREM MergeReceiverShowsTheMerge == SystemSpec => []ShownIsCurrent
<1>1. SystemInit => SInv
  <2>1. SystemInit => UpToDate
    BY DEF SystemInit, MergeReceiverInit, UpToDate
  <2> QED
    BY <2>1, MergersInit DEF SInv
<1>2. SInv => ShownIsCurrent
  BY DEF SInv, UpToDate, ShownIsCurrent, ThreadIdle
<1> QED
  BY <1>1, <1>2, ShownStep, PTL DEF SystemSpec
-----------------------------------------------------------------------------
(***************************************************************************)
(* SourcesAgree.  What the receiver holds and what the merge receiver      *)
(* holds are compared as sets: the sources whose data was notified and,    *)
(* among them, the ones with per-address priorities.                       *)
(***************************************************************************)
Announced == {s \in DOMAIN tracked : ~tracked[s].waiting}
WithPap == {s \in DOMAIN tracked : tracked[s].pap}
Merging == DOMAIN mr_sources
MergingPap == {s \in DOMAIN mr_sources : mr_sources[s].pap_active}

TrackedEntry == [netint : Netints, waiting : BOOLEAN, pap : BOOLEAN]

\* A source with priorities is not waiting for them.
TrackedOK ==
    /\ tracked \in [DOMAIN tracked -> TrackedEntry]
    /\ WithPap \subseteq Announced

LEMMA EnteredEntry ==
  ASSUME TrackedOK, NEW s \in DOMAIN tracked, NEW e \in TrackedEntry,
         e.pap => ~e.waiting, tracked' = [tracked EXCEPT ![s] = e]
  PROVE  /\ TrackedOK'
         /\ Announced' = IF e.waiting THEN Announced \ {s} ELSE Announced \cup {s}
         /\ WithPap' = IF e.pap THEN WithPap \cup {s} ELSE WithPap \ {s}
<1>1. /\ DOMAIN tracked' = DOMAIN tracked /\ tracked'[s] = e
      /\ \A x \in DOMAIN tracked \ {s} : tracked'[x] = tracked[x]
  OBVIOUS
<1>2. tracked' \in [DOMAIN tracked' -> TrackedEntry]
  BY DEF TrackedOK
<1>3. Announced' = IF e.waiting THEN Announced \ {s} ELSE Announced \cup {s}
  BY <1>1 DEF Announced
<1>4. WithPap' = IF e.pap THEN WithPap \cup {s} ELSE WithPap \ {s}
  BY <1>1 DEF WithPap
<1>5. WithPap' \subseteq Announced'
  BY <1>3, <1>4 DEF TrackedOK
<1> QED
  BY <1>2, <1>3, <1>4, <1>5 DEF TrackedOK

LEMMA NothingNewTracked ==
  ASSUME TrackedOK, NEW s, NEW n \in Netints, NothingNew(s, n)
  PROVE  TrackedOK' /\ Announced' = Announced /\ WithPap' = WithPap
<1> DEFINE e == On(s, n)
<1>1. s \in DOMAIN tracked /\ tracked' = [tracked EXCEPT ![s] = e]
  BY DEF NothingNew, Accepts, Known
<1>2. /\ e \in TrackedEntry /\ e.waiting = tracked[s].waiting
      /\ e.pap = tracked[s].pap
  BY <1>1 DEF On, TrackedOK, TrackedEntry
<1> HIDE DEF e
<1>3. e.pap => ~e.waiting
  BY <1>1, <1>2 DEF TrackedOK, WithPap, Announced
<1>4. /\ TrackedOK'
      /\ Announced' = IF e.waiting THEN Announced \ {s} ELSE Announced \cup {s}
      /\ WithPap' = IF e.pap THEN WithPap \cup {s} ELSE WithPap \ {s}
  BY <1>1, <1>2, <1>3, EnteredEntry
<1> QED
  BY <1>1, <1>2, <1>4 DEF WithPap, Announced

LEMMA LevelsTracked ==
  ASSUME TrackedOK, NEW s, NEW n \in Netints, NEW pap_lost \in BOOLEAN,
         LevelsOfKnown(s, n, pap_lost)
  PROVE  /\ TrackedOK'
         /\ Announced' = Announced \cup {s}
         /\ pap_lost => WithPap' = WithPap \ {s} /\ s \in WithPap
         /\ ~pap_lost => WithPap' = WithPap
<1>1. /\ s \in DOMAIN tracked /\ (pap_lost => tracked[s].pap)
      /\ tracked' = [tracked EXCEPT ![s] = [On(s, n) EXCEPT
                       !.waiting = FALSE, !.pap = @ /\ ~pap_lost]]
  BY DEF LevelsOfKnown, Accepts, Known
<1> DEFINE e == [On(s, n) EXCEPT !.waiting = FALSE, !.pap = @ /\ ~pap_lost]
<1>2. tracked[s] \in TrackedEntry
  BY <1>1 DEF TrackedOK
<1>3. /\ e \in TrackedEntry /\ ~e.waiting
      /\ e.pap <=> tracked[s].pap /\ ~pap_lost
  BY <1>2 DEF On, TrackedEntry
<1>4. tracked' = [tracked EXCEPT ![s] = e]
  BY <1>1
<1> HIDE DEF e
<1>5. /\ TrackedOK'
      /\ Announced' = IF e.waiting THEN Announced \ {s} ELSE Announced \cup {s}
      /\ WithPap' = IF e.pap THEN WithPap \cup {s} ELSE WithPap \ {s}
  BY <1>1, <1>3, <1>4, EnteredEntry
<1> QED
  BY <1>1, <1>3, <1>5 DEF WithPap

LEMMA PapTracked ==
  ASSUME TrackedOK, NEW s, NEW n \in Netints, PapOfKnown(s, n)
  PROVE  TrackedOK' /\ Announced' = Announced \cup {s} /\ WithPap' = WithPap \cup {s}
<1>1. /\ s \in DOMAIN tracked
      /\ tracked' = [tracked EXCEPT ![s] = [On(s, n) EXCEPT
                       !.waiting = FALSE, !.pap = TRUE]]
  BY DEF PapOfKnown, Accepts, Known
<1> DEFINE e == [On(s, n) EXCEPT !.waiting = FALSE, !.pap = TRUE]
<1>2. tracked[s] \in TrackedEntry
  BY <1>1 DEF TrackedOK
<1>3. e \in TrackedEntry /\ ~e.waiting /\ e.pap
  BY <1>2 DEF On, TrackedEntry
<1>4. tracked' = [tracked EXCEPT ![s] = e]
  BY <1>1
<1> HIDE DEF e
<1> QED
  BY <1>1, <1>3, <1>4, EnteredEntry

LEMMA NewTracked ==
  ASSUME TrackedOK, sampling \in BOOLEAN, NEW s, NEW n \in Netints,
         NEW has_pap \in BOOLEAN, NewSource(s, n, has_pap)
  PROVE  /\ TrackedOK'
         /\ Announced' = IF has_pap \/ sampling THEN Announced \cup {s} ELSE Announced
         /\ WithPap' = IF has_pap THEN WithPap \cup {s} ELSE WithPap
<1> DEFINE e == [netint |-> n, pap |-> has_pap, waiting |-> ~has_pap /\ ~sampling]
<1>1. /\ s \notin DOMAIN tracked
      /\ tracked' = [x \in DOMAIN tracked \cup {s} |-> IF x # s THEN tracked[x] ELSE e]
  BY DEF NewSource, Known
<1>2. PICK held \in BOOLEAN : held <=> ~has_pap /\ ~sampling
  OBVIOUS
<1>3. e = [netint |-> n, pap |-> has_pap, waiting |-> held]
  BY <1>2
<1>4. e \in TrackedEntry /\ e.pap = has_pap /\ e.waiting = held
  BY <1>3 DEF TrackedEntry
<1> HIDE DEF e
<1>5. /\ DOMAIN tracked' = DOMAIN tracked \cup {s} /\ tracked'[s] = e
      /\ \A x \in DOMAIN tracked : tracked'[x] = tracked[x]
  BY <1>1
<1>6. tracked' \in [DOMAIN tracked' -> TrackedEntry]
  BY <1>1, <1>4 DEF TrackedOK
<1>7. Announced' = IF has_pap \/ sampling THEN Announced \cup {s} ELSE Announced
  BY <1>1, <1>2, <1>4, <1>5 DEF Announced
<1>8. WithPap' = IF has_pap THEN WithPap \cup {s} ELSE WithPap
  BY <1>1, <1>4, <1>5 DEF WithPap
<1> QED
  BY <1>6, <1>7, <1>8 DEF TrackedOK

LEMMA TickTracked ==
  ASSUME TrackedOK, NEW gone, NEW ends, Tick(gone, ends)
  PROVE  /\ TrackedOK'
         /\ Announced' = Announced \ LostAtTick(gone)
         /\ WithPap' = WithPap \ LostAtTick(gone)
         /\ LostAtTick(gone) \subseteq Announced
<1>1. /\ gone \subseteq DOMAIN tracked /\ DOMAIN tracked' = DOMAIN tracked \ gone
      /\ \A x \in DOMAIN tracked \ gone : tracked'[x] = tracked[x]
      /\ tracked' = [x \in DOMAIN tracked \ gone |-> tracked[x]]
  BY DEF Tick, Known, Restrict
<1>2. LostAtTick(gone) = gone \cap Announced
  BY <1>1 DEF LostAtTick, Announced
<1>3. tracked' \in [DOMAIN tracked' -> TrackedEntry]
  BY <1>1 DEF TrackedOK
<1>4. Announced' = Announced \ gone /\ WithPap' = WithPap \ gone
  BY <1>1 DEF Announced, WithPap
<1> QED
  BY <1>2, <1>3, <1>4 DEF TrackedOK

\* The merge receiver after a notification was handled.
LEMMA DataMerging ==
  ASSUME MergersOK, NEW x \in UniverseDataNotes, UniverseData(x)
  PROVE  /\ Merging' = Merging \cup {x.source}
         /\ MergingPap' = IF x.start_code = "pap" THEN MergingPap \cup {x.source}
                                                  ELSE MergingPap
<1> DEFINE s == x.source
           pap == x.start_code = "pap"
<1>1. \A y \in DOMAIN mr_sources : mr_sources[y] \in MergeSource
  BY DEF MergersOK
<1>2. CASE s \in DOMAIN mr_sources
  <2> DEFINE e == UpdateSourceInfo(mr_sources[s], x.start_code)
  <2>1. mr_sources' = [mr_sources EXCEPT ![s] = e]
    BY <1>2 DEF UniverseData
  <2>2. e.pap_active <=> mr_sources[s].pap_active \/ pap
    BY <1>1, <1>2 DEF UpdateSourceInfo, MergeSource
  <2> HIDE DEF e
  <2>3. /\ DOMAIN mr_sources' = DOMAIN mr_sources /\ mr_sources'[s] = e
        /\ \A y \in DOMAIN mr_sources \ {s} : mr_sources'[y] = mr_sources[y]
    BY <1>2, <2>1
  <2> QED
    BY <1>2, <2>2, <2>3 DEF Merging, MergingPap
<1>3. CASE s \notin DOMAIN mr_sources
  <2> DEFINE e == NewInternalSource(x.is_sampling, x.start_code)
  <2>1. mr_sources' = [y \in DOMAIN mr_sources \cup {s} |->
                         IF y = s THEN e ELSE mr_sources[y]]
    BY <1>3 DEF UniverseData
  <2>2. e.pap_active <=> pap
    BY DEF NewInternalSource, UpdateSourceInfo
  <2> HIDE DEF e
  <2>3. /\ DOMAIN mr_sources' = DOMAIN mr_sources \cup {s} /\ mr_sources'[s] = e
        /\ \A y \in DOMAIN mr_sources : mr_sources'[y] = mr_sources[y]
    BY <1>3, <2>1
  <2> QED
    BY <1>3, <2>2, <2>3 DEF Merging, MergingPap
<1> QED
  BY <1>2, <1>3

LEMMA LostMerging ==
  ASSUME NEW x, SourcesLost(x)
  PROVE  Merging' = Merging \ x.sources /\ MergingPap' = MergingPap \ x.sources
<1>1. mr_sources' = Without(mr_sources, x.sources \cap DOMAIN mr_sources)
  BY DEF SourcesLost
<1>2. /\ DOMAIN mr_sources' = DOMAIN mr_sources \ x.sources
      /\ \A y \in DOMAIN mr_sources \ x.sources : mr_sources'[y] = mr_sources[y]
  BY <1>1 DEF Without, Restrict
<1> QED
  BY <1>2 DEF Merging, MergingPap

LEMMA EndedMerging ==
  ASSUME MergersOK, NEW x, SamplingEnded(x)
  PROVE  Merging' = Merging /\ MergingPap' = MergingPap
<1>1. mr_sources' = [s \in DOMAIN mr_sources |-> [mr_sources[s] EXCEPT !.sampling = FALSE]]
  BY DEF SamplingEnded
<1>2. \A y \in DOMAIN mr_sources : mr_sources[y] \in MergeSource
  BY DEF MergersOK
<1>3. \A y \in DOMAIN mr_sources :
        [mr_sources[y] EXCEPT !.sampling = FALSE].pap_active = mr_sources[y].pap_active
  BY <1>2 DEF MergeSource
<1>4. /\ DOMAIN mr_sources' = DOMAIN mr_sources
      /\ \A y \in DOMAIN mr_sources : mr_sources'[y].pap_active = mr_sources[y].pap_active
  BY <1>1, <1>3
<1> QED
  BY <1>4 DEF Merging, MergingPap

LEMMA PapLostMerging ==
  ASSUME MergersOK, NEW x, x.source \in Merging, PapLost(x)
  PROVE  Merging' = Merging /\ (UsePap => MergingPap' = MergingPap \ {x.source})
<1>1. ~UsePap => Merging' = Merging
  BY DEF PapLost, Merging
<1> SUFFICES ASSUME UsePap
             PROVE  Merging' = Merging /\ MergingPap' = MergingPap \ {x.source}
  BY <1>1
<1> DEFINE s == x.source
           e == [mr_sources[s] EXCEPT !.pap_active = FALSE]
<1>2. s \in DOMAIN mr_sources /\ mr_sources' = [mr_sources EXCEPT ![s] = e]
  BY DEF PapLost, Merging
<1>3. ~e.pap_active
  BY <1>2 DEF MergersOK, MergeSource
<1> HIDE DEF e
<1>4. /\ DOMAIN mr_sources' = DOMAIN mr_sources /\ mr_sources'[s] = e
      /\ \A y \in DOMAIN mr_sources \ {s} : mr_sources'[y] = mr_sources[y]
  BY <1>2
<1> QED
  BY <1>2, <1>3, <1>4 DEF Merging, MergingPap

\* What is left to deliver makes the merge receiver agree with the receiver:
\* data of a packet, after a loss of PAP perhaps, or a loss at the end of
\* the notifications of a tick.  Without use_pap it ignores the loss of PAP.
LostBy(q) ==
    IF q # << >> /\ q[Len(q)].kind = "sources_lost" THEN q[Len(q)].sources ELSE {}

\* Only the last notification of a tick is about losses.
LossIsLast(q) == \A i \in 1..Len(q) : q[i].kind = "sources_lost" => i = Len(q)

TickPending(q) ==
    /\ q \in Seq(TickNotes)
    /\ LossIsLast(q)
    /\ LostBy(q) \subseteq Merging
    /\ Announced = Merging \ LostBy(q)
    /\ UsePap => WithPap = MergingPap \ LostBy(q)

DataPending(x) ==
    /\ Announced = Merging \cup {x.source}
    /\ UsePap => WithPap = IF x.start_code = "pap" THEN MergingPap \cup {x.source}
                                                   ELSE MergingPap

PapLostPending(p, x) ==
    /\ p \in PapLostNotes /\ x.start_code = "dmx" /\ x.source = p.source
    /\ p.source \in Merging
    /\ Announced = Merging
    /\ UsePap => WithPap = MergingPap \ {p.source}

Pending ==
    \/ TickPending(captured)
    \/ \E x \in UniverseDataNotes : captured = <<x>> /\ DataPending(x)
    \/ \E p, x : x \in UniverseDataNotes /\ captured = <<p, x>> /\ PapLostPending(p, x)

\* The inductive invariant for SourcesAgree.
AInv ==
    /\ MInv
    /\ Len(captured) <= 3
    /\ scenario \subseteq {"networking"} => TrackedOK /\ Pending

LEMMA NothingPending ==
  TickPending(<< >>) <=> Announced = Merging /\ (UsePap => WithPap = MergingPap)
<1>1. << >> \in Seq(TickNotes) /\ LossIsLast(<< >>)
  BY Sequences DEF LossIsLast
<1>2. LostBy(<< >>) = {}
  BY DEF LostBy
<1> QED
  BY <1>1, <1>2 DEF TickPending

LEMMA NothingLeft ==
  ASSUME captured' = << >>, Announced' = Merging', UsePap => WithPap' = MergingPap'
  PROVE  Pending'
<1>1. captured' \in Seq(TickNotes) /\ LossIsLast(captured)'
  BY Sequences DEF LossIsLast
<1>2. LostBy(captured)' = {}
  BY DEF LostBy
<1>3. TickPending(captured)'
  BY <1>1, <1>2 DEF TickPending
<1> QED
  BY <1>3 DEF Pending

LEMMA TailPending ==
  ASSUME NEW q \in Seq(TickNotes), q # << >>, LossIsLast(q)
  PROVE  /\ Head(q) \in TickNotes /\ Tail(q) \in Seq(TickNotes) /\ LossIsLast(Tail(q))
         /\ Tail(q) = << >> => LostBy(q) = IF Head(q).kind = "sources_lost"
                                              THEN Head(q).sources ELSE {}
         /\ Tail(q) # << >> => /\ Head(q).kind # "sources_lost"
                               /\ LostBy(Tail(q)) = LostBy(q)
<1> DEFINE t == Tail(q)
           h == Head(q)
           n == Len(q)
<1>1. /\ h \in TickNotes /\ t \in Seq(TickNotes) /\ h = q[1]
      /\ n \in Nat \ {0} /\ Len(t) = n - 1
      /\ \A i \in 1..(n - 1) : t[i] = q[i + 1]
      /\ t = << >> <=> n = 1
  <2> HIDE DEF TickNotes
  <2>1. n \in Nat \ {0} /\ h = q[1]
    BY EmptySeq
  <2>2. /\ h \in TickNotes /\ t \in Seq(TickNotes) /\ Len(t) = n - 1
        /\ \A i \in 1..Len(t) : t[i] = q[i + 1]
    BY HeadTailProperties
  <2> HIDE DEF t
  <2>3. t = << >> <=> Len(t) = 0
    BY <2>2, EmptySeq
  <2> QED
    BY <2>1, <2>2, <2>3
<1> HIDE DEF t, h
<1>2. \A i \in 1..n : q[i].kind = "sources_lost" => i = n
  BY DEF LossIsLast
<1> HIDE DEF n
<1>3. \A i \in 1..(n - 1) : i + 1 \in 1..n /\ (i + 1 = n => i = n - 1)
  BY <1>1
<1>4. LossIsLast(t)
  BY <1>1, <1>2, <1>3 DEF LossIsLast
<1>5. ASSUME n = 1
      PROVE  LostBy(q) = IF h.kind = "sources_lost" THEN h.sources ELSE {}
  BY <1>1, <1>5 DEF LostBy, n
<1>6. ASSUME n # 1
      PROVE  h.kind # "sources_lost" /\ LostBy(t) = LostBy(q)
  <2>1. n - 1 \in 1..(n - 1) /\ (n - 1) + 1 = n /\ 1 \in 1..n
    BY <1>1, <1>6
  <2>2. h.kind # "sources_lost"
    BY <1>1, <1>2, <1>6, <2>1
  <2>3. t # << >> /\ t[Len(t)] = q[n]
    BY <1>1, <1>6, <2>1
  <2> QED
    BY <2>2, <2>3 DEF LostBy, n
<1> QED
  BY <1>1, <1>4, <1>5, <1>6 DEF t, h

LEMMA AgreeDelivered ==
  ASSUME MInv, TrackedOK, Pending, Deliver
  PROVE  TrackedOK' /\ Pending'
<1> DEFINE x == Head(captured)
<1>1. /\ captured # << >> /\ captured' = Tail(captured)
      /\ tracked' = tracked
      /\ \/ x.kind = "universe_data" /\ UniverseData(x)
         \/ x.kind = "sources_lost" /\ SourcesLost(x)
         \/ x.kind = "sampling_ended" /\ SamplingEnded(x)
         \/ x.kind = "sampling_started" /\ SamplingStarted
         \/ x.kind = "pap_lost" /\ PapLost(x)
  BY DEF Deliver, rcvVars
<1>2. MergersOK
  BY DEF MInv
<1>3. TrackedOK' /\ Announced' = Announced /\ WithPap' = WithPap
  BY <1>1 DEF TrackedOK, Announced, WithPap
<1>4. CASE TickPending(captured)
  <2>1. /\ x \in TickNotes /\ captured' \in Seq(TickNotes) /\ LossIsLast(captured')
        /\ captured' = << >> => LostBy(captured) = IF x.kind = "sources_lost"
                                                     THEN x.sources ELSE {}
        /\ captured' # << >> => /\ x.kind # "sources_lost"
                                /\ LostBy(captured') = LostBy(captured)
    BY <1>1, <1>4, TailPending DEF TickPending
  <2> HIDE DEF x
  <2>2. x.kind = "sources_lost" =>
           Merging' = Merging \ x.sources /\ MergingPap' = MergingPap \ x.sources
    BY <1>1, LostMerging
  <2>3. x.kind # "sources_lost" => Merging' = Merging /\ MergingPap' = MergingPap
    <3>1. CASE x.kind = "sampling_ended"
      BY <1>1, <1>2, <3>1, EndedMerging
    <3>2. CASE x.kind = "sampling_started"
      BY <1>1, <3>2 DEF SamplingStarted, Merging, MergingPap
    <3> QED
      BY <2>1, <3>1, <3>2 DEF TickNotes
  <2>4. CASE captured' = << >>
    <3>1. Announced' = Merging' /\ (UsePap => WithPap' = MergingPap')
      BY <1>3, <1>4, <2>1, <2>2, <2>3, <2>4 DEF TickPending
    <3> QED
      BY <1>3, <2>4, <3>1, NothingLeft
  <2>5. CASE captured' # << >>
    <3>1. TickPending(captured)'
      <4>1. LostBy(captured)' = LostBy(captured)
        BY <2>1, <2>5 DEF LostBy
      <4>2. LossIsLast(captured)'
        BY <2>1 DEF LossIsLast
      <4> QED
        BY <1>3, <1>4, <2>1, <2>3, <2>5, <4>1, <4>2 DEF TickPending
    <3> QED
      BY <1>3, <3>1 DEF Pending
  <2> QED
    BY <2>4, <2>5
<1>5. ASSUME NEW d \in UniverseDataNotes, captured = <<d>>, DataPending(d)
      PROVE  Pending'
  <2>1. x = d /\ captured' = << >>
    BY <1>1, <1>5
  <2>2. UniverseData(d)
    BY <1>1, <2>1, NoteKinds
  <2>3. Announced' = Merging' /\ (UsePap => WithPap' = MergingPap')
    BY <1>2, <1>3, <1>5, <2>2, DataMerging DEF DataPending
  <2> QED
    BY <2>1, <2>3, NothingLeft
<1>6. ASSUME NEW p, NEW d \in UniverseDataNotes, captured = <<p, d>>, PapLostPending(p, d)
      PROVE  Pending'
  <2>1. x = p /\ captured' = <<d>>
    BY <1>1, <1>6
  <2>2. PapLost(p)
    BY <1>1, <1>6, <2>1, NoteKinds DEF PapLostPending
  <2>3. Merging' = Merging /\ (UsePap => MergingPap' = MergingPap \ {p.source})
    BY <1>2, <1>6, <2>2, PapLostMerging DEF PapLostPending
  <2>4. DataPending(d)'
    BY <1>3, <1>6, <2>3 DEF PapLostPending, DataPending
  <2> QED
    BY <2>1, <2>4 DEF Pending
<1> QED
  BY <1>3, <1>4, <1>5, <1>6 DEF Pending

\* Captured notifications, put together.
LEMMA TwoNotes ==
  ASSUME NEW a, NEW b
  PROVE  <<a>> \o <<b>> = <<a, b>>
<1> DEFINE N == {a, b}
           q == <<a>> \o <<b>>
           r == <<a, b>>
<1>1. /\ <<a>> \in Seq(N) /\ <<b>> \in Seq(N) /\ r \in Seq(N)
      /\ Len(<<a>>) = 1 /\ Len(<<b>>) = 1 /\ <<a>>[1] = a /\ <<b>>[1] = b
      /\ Len(r) = 2 /\ r[1] = a /\ r[2] = b
  OBVIOUS
<1>2. q \in Seq(N) /\ Len(q) = 2 /\ q[1] = a /\ q[2] = b
  BY <1>1, ConcatProperties
<1>3. \A i \in 1..2 : i = 1 \/ i = 2
  OBVIOUS
<1> HIDE DEF q, r, N
<1>4. q = r
  BY <1>1, <1>2, <1>3, SeqEqual
<1> QED
  BY <1>4 DEF q, r

LEMMA ThreeNotes ==
  ASSUME NEW a, NEW b, NEW c
  PROVE  <<a, b>> \o <<c>> = <<a, b, c>>
<1> DEFINE N == {a, b, c}
           q == <<a, b>> \o <<c>>
           r == <<a, b, c>>
<1>1. /\ <<a, b>> \in Seq(N) /\ <<c>> \in Seq(N) /\ r \in Seq(N)
      /\ Len(<<a, b>>) = 2 /\ Len(<<c>>) = 1
      /\ <<a, b>>[1] = a /\ <<a, b>>[2] = b /\ <<c>>[1] = c
      /\ Len(r) = 3 /\ r[1] = a /\ r[2] = b /\ r[3] = c
  OBVIOUS
<1>2. q \in Seq(N) /\ Len(q) = 3 /\ q[1] = a /\ q[2] = b /\ q[3] = c
  BY <1>1, ConcatProperties
<1>3. \A i \in 1..3 : i = 1 \/ i = 2 \/ i = 3
  OBVIOUS
<1> HIDE DEF q, r, N
<1>4. q = r
  BY <1>1, <1>2, <1>3, SeqEqual
<1> QED
  BY <1>4 DEF q, r

LEMMA EmptyNotes ==
  ASSUME NEW a, NEW b
  PROVE  /\ << >> \o << >> = << >>
         /\ << >> \o <<a>> = <<a>> /\ <<a>> \o << >> = <<a>>
         /\ <<a, b>> \o << >> = <<a, b>>
OBVIOUS

\* The notifications of a packet of plain data.
LEMMA AgreePacket ==
  ASSUME MInv, TrackedOK, Pending, scenario \subseteq {"networking"}, ReceivePacket
  PROVE  TrackedOK' /\ Pending'
<1>1. PICK s \in Sources, n \in Netints, preview \in Previews :
          \/ \E value \in Levels \cup {NoLevels} : CaptureDmx(s, n, preview, value)
          \/ CapturePap(s, n, preview)
          \/ CaptureOther(s, n, preview)
  BY DEF ReceivePacket
<1>2. /\ preview = FALSE /\ ~CaptureOther(s, n, preview)
      /\ captured = << >> /\ sampling \in BOOLEAN
  BY DEF Previews, CaptureOther, ReceivePacket, ThreadIdle, MInv, PeriodOK
<1>3. /\ Announced = Merging /\ (UsePap => WithPap = MergingPap)
      /\ MergingPap \subseteq Merging /\ WithPap \subseteq Announced
  <2>1. \A p, x : captured # <<x>> /\ captured # <<p, x>>
    BY <1>2
  <2> QED
    BY <1>2, <2>1, NothingPending DEF Pending, Merging, MergingPap, TrackedOK
<1>4. ASSUME NEW q, Capture(q)
      PROVE  captured' = q /\ Merging' = Merging /\ MergingPap' = MergingPap
  BY <1>4 DEF Capture, mrVars, Merging, MergingPap
<1>5. ASSUME NEW value \in Levels \cup {NoLevels}, CaptureDmx(s, n, preview, value)
      PROVE  TrackedOK' /\ Pending'
  <2> PICK d : d = DataNotification(s, n, "dmx", value)
    OBVIOUS
  <2>1. d \in UniverseDataNotes /\ d.source = s /\ d.start_code = "dmx"
    BY DataTypes DEF NotesNow, DataNotification, PacketNotes, PapLostNotes
  <2>2. \/ s \in Known /\ LevelsHeldBack(s, n) /\ Capture(<< >>)
        \/ \E pap_lost \in BOOLEAN :
              /\ LevelsOfKnown(s, n, pap_lost)
              /\ Capture((IF pap_lost THEN <<PapLostNotification(s)>> ELSE << >>) \o <<d>>)
        \/ NewSource(s, n, FALSE) /\ Capture(IF sampling THEN <<d>> ELSE << >>)
    BY <1>2, <1>5 DEF CaptureDmx, DataIf
  <2>3. CASE LevelsHeldBack(s, n) /\ Capture(<< >>)
    BY <1>3, <1>4, <2>3, NothingNewTracked, NothingLeft DEF LevelsHeldBack
  <2>4. ASSUME NEW pap_lost \in BOOLEAN, LevelsOfKnown(s, n, pap_lost),
               Capture((IF pap_lost THEN <<PapLostNotification(s)>> ELSE << >>) \o <<d>>)
        PROVE  TrackedOK' /\ Pending'
    <3>1. /\ TrackedOK' /\ Announced' = Announced \cup {s}
          /\ pap_lost => WithPap' = WithPap \ {s} /\ s \in WithPap
          /\ ~pap_lost => WithPap' = WithPap
      BY <2>4, LevelsTracked
    <3>2. CASE pap_lost
      <4> PICK p : p = PapLostNotification(s)
        OBVIOUS
      <4>1. p \in PapLostNotes /\ p.source = s
        BY DEF MInv, PapLostNotification, PapLostNotes
      <4>2. captured' = <<p>> \o <<d>> /\ Merging' = Merging /\ MergingPap' = MergingPap
        BY <1>4, <2>4, <3>2
      <4>3. captured' = <<p, d>>
        BY <4>2, TwoNotes
      <4>4. PapLostPending(p, d)'
        BY <1>3, <2>1, <3>1, <3>2, <4>1, <4>2 DEF PapLostPending
      <4> QED
        BY <2>1, <3>1, <4>3, <4>4 DEF Pending
    <3>3. CASE ~pap_lost
      <4>1. captured' = << >> \o <<d>> /\ Merging' = Merging /\ MergingPap' = MergingPap
        BY <1>4, <2>4, <3>3
      <4>2. captured' = <<d>>
        BY <4>1, EmptyNotes
      <4>3. DataPending(d)'
        BY <1>3, <2>1, <3>1, <3>3, <4>1 DEF DataPending
      <4> QED
        BY <2>1, <3>1, <4>2, <4>3 DEF Pending
    <3> QED
      BY <3>2, <3>3
  <2>5. CASE NewSource(s, n, FALSE) /\ Capture(IF sampling THEN <<d>> ELSE << >>)
    <3>1. /\ TrackedOK' /\ WithPap' = WithPap
          /\ Announced' = IF sampling THEN Announced \cup {s} ELSE Announced
      BY <1>2, <2>5, NewTracked
    <3>2. CASE sampling
      <4>1. captured' = <<d>> /\ DataPending(d)'
        BY <1>3, <1>4, <2>1, <2>5, <3>1, <3>2 DEF DataPending
      <4> QED
        BY <2>1, <3>1, <4>1 DEF Pending
    <3>3. CASE ~sampling
      BY <1>3, <1>4, <2>5, <3>1, <3>3, NothingLeft
    <3> QED
      BY <3>2, <3>3
  <2> QED
    BY <2>2, <2>3, <2>4, <2>5
<1>6. ASSUME CapturePap(s, n, preview)
      PROVE  TrackedOK' /\ Pending'
  <2> PICK d : d = DataNotification(s, n, "pap", SentPap)
    OBVIOUS
  <2>1. d \in UniverseDataNotes /\ d.source = s /\ d.start_code = "pap"
    BY DataTypes DEF NotesNow, DataNotification, PacketNotes, PapLostNotes
  <2>2. (PapOfKnown(s, n) \/ NewSource(s, n, TRUE)) /\ Capture(<<d>>)
    BY <1>2, <1>6 DEF CapturePap, DataIf
  <2>3. TrackedOK' /\ Announced' = Announced \cup {s} /\ WithPap' = WithPap \cup {s}
    BY <1>2, <2>2, PapTracked, NewTracked
  <2>4. captured' = <<d>> /\ DataPending(d)'
    BY <1>3, <1>4, <2>1, <2>2, <2>3 DEF DataPending
  <2> QED
    BY <2>1, <2>3, <2>4 DEF Pending
<1> QED
  BY <1>1, <1>2, <1>5, <1>6

LEMMA OneOrTwo ==
  ASSUME NEW e \in TickNotes, NEW b \in TickNotes,
         e.kind # "sources_lost", b.kind # "sources_lost",
         NEW q \in {<< >>, <<e>>, <<b>>, <<e, b>>}
  PROVE  q \in Seq(TickNotes) /\ LossIsLast(q) /\ Len(q) <= 3 /\ LostBy(q) = {}
<1> HIDE DEF TickNotes
<1>1. << >> \in Seq(TickNotes) /\ <<e>> \in Seq(TickNotes) /\ <<b>> \in Seq(TickNotes)
        /\ <<e, b>> \in Seq(TickNotes)
  OBVIOUS
<1>2. CASE q = << >>
  BY <1>1, <1>2 DEF LossIsLast, LostBy
<1>3. CASE q = <<e>>
  <2>1. Len(q) = 1 /\ q # << >> /\ q[1] = e
    BY <1>3
  <2>2. \A i \in 1..1 : i = 1
    OBVIOUS
  <2> QED
    BY <1>1, <1>3, <2>1, <2>2 DEF LossIsLast, LostBy
<1>4. CASE q = <<b>>
  <2>1. Len(q) = 1 /\ q # << >> /\ q[1] = b
    BY <1>4
  <2>2. \A i \in 1..1 : i = 1
    OBVIOUS
  <2> QED
    BY <1>1, <1>4, <2>1, <2>2 DEF LossIsLast, LostBy
<1>5. CASE q = <<e, b>>
  <2>1. Len(q) = 2 /\ q # << >> /\ q[1] = e /\ q[2] = b
    BY <1>5
  <2>2. \A i \in 1..2 : i = 1 \/ i = 2
    OBVIOUS
  <2> QED
    BY <1>1, <1>5, <2>1, <2>2 DEF LossIsLast, LostBy
<1> QED
  BY <1>2, <1>3, <1>4, <1>5

LEMMA LossAtEnd ==
  ASSUME NEW e \in TickNotes, NEW b \in TickNotes, NEW l \in TickNotes,
         e.kind # "sources_lost", b.kind # "sources_lost", l.kind = "sources_lost",
         NEW q \in {<<l>>, <<e, l>>, <<b, l>>, <<e, b, l>>}
  PROVE  q \in Seq(TickNotes) /\ LossIsLast(q) /\ Len(q) <= 3 /\ LostBy(q) = l.sources
<1> HIDE DEF TickNotes
<1>1. <<l>> \in Seq(TickNotes) /\ <<e, l>> \in Seq(TickNotes)
        /\ <<b, l>> \in Seq(TickNotes) /\ <<e, b, l>> \in Seq(TickNotes)
  OBVIOUS
<1>2. CASE q = <<l>>
  <2>1. Len(q) = 1 /\ q # << >> /\ q[1] = l
    BY <1>2
  <2>2. \A i \in 1..1 : i = 1
    OBVIOUS
  <2> QED
    BY <1>1, <1>2, <2>1, <2>2 DEF LossIsLast, LostBy
<1>3. CASE q = <<e, l>>
  <2>1. Len(q) = 2 /\ q # << >> /\ q[1] = e /\ q[2] = l
    BY <1>3
  <2>2. \A i \in 1..2 : i = 1 \/ i = 2
    OBVIOUS
  <2> QED
    BY <1>1, <1>3, <2>1, <2>2 DEF LossIsLast, LostBy
<1>4. CASE q = <<b, l>>
  <2>1. Len(q) = 2 /\ q # << >> /\ q[1] = b /\ q[2] = l
    BY <1>4
  <2>2. \A i \in 1..2 : i = 1 \/ i = 2
    OBVIOUS
  <2> QED
    BY <1>1, <1>4, <2>1, <2>2 DEF LossIsLast, LostBy
<1>5. CASE q = <<e, b, l>>
  <2>1. Len(q) = 3 /\ q # << >> /\ q[1] = e /\ q[2] = b /\ q[3] = l
    BY <1>5
  <2>2. \A i \in 1..3 : i = 1 \/ i = 2 \/ i = 3
    OBVIOUS
  <2> QED
    BY <1>1, <1>5, <2>1, <2>2 DEF LossIsLast, LostBy
<1> QED
  BY <1>2, <1>3, <1>4, <1>5

\* The notifications of a tick: at most three, the loss at the end.
LEMMA AgreeTick ==
  ASSUME MInv, ThreadTick
  PROVE  /\ Len(captured') <= 3
         /\ TrackedOK /\ Pending => TrackedOK' /\ Pending'
<1>1. PICK gone \in SUBSET Known, ends \in BOOLEAN : CaptureTick(gone, ends)
  BY DEF ThreadTick
<1> DEFINE S == LostAtTick(gone)
           note(kind) == [kind |-> kind, universe |-> universe, sources |-> S]
           Of(condition, kind) == IF condition THEN <<note(kind)>> ELSE << >>
           ended == Of(ends, "sampling_ended")
           begun == Of(StartsAtTick(ends), "sampling_started")
           lost == Of(S # {}, "sources_lost")
<1>2. /\ Tick(gone, ends)
      /\ captured' = ended \o begun \o lost
      /\ Merging' = Merging /\ MergingPap' = MergingPap
      /\ captured = << >>
  BY <1>1 DEF CaptureTick, Capture, mrVars, Merging, MergingPap, ThreadTick, ThreadIdle
<1>3. S \in SUBSET Sources /\ universe \in Universes
  BY DEF MInv, LostAtTick, Known
<1> HIDE DEF S
<1>4. /\ note("sampling_ended") \in TickNotes /\ note("sampling_ended").kind = "sampling_ended"
      /\ note("sampling_started") \in TickNotes
      /\ note("sampling_started").kind = "sampling_started"
      /\ note("sources_lost") \in TickNotes /\ note("sources_lost").kind = "sources_lost"
      /\ note("sources_lost").sources = S
  BY <1>3 DEF TickNotes
<1> HIDE DEF note
<1>5. /\ captured' \in Seq(TickNotes) /\ LossIsLast(captured') /\ Len(captured') <= 3
      /\ LostBy(captured') = S
  <2>1. PICK e, b, l : e = note("sampling_ended") /\ b = note("sampling_started")
                         /\ l = note("sources_lost")
    OBVIOUS
  <2>2. /\ e \in TickNotes /\ b \in TickNotes /\ l \in TickNotes
        /\ e.kind # "sources_lost" /\ b.kind # "sources_lost"
        /\ l.kind = "sources_lost" /\ l.sources = S
    BY <1>4, <2>1
  <2>3. /\ ended = IF ends THEN <<e>> ELSE << >>
        /\ begun = IF StartsAtTick(ends) THEN <<b>> ELSE << >>
        /\ lost = IF S # {} THEN <<l>> ELSE << >>
    BY <2>1
  <2> HIDE DEF ended, begun, lost
  <2>4. (ended \o begun) \in {<< >>, <<e>>, <<b>>, <<e, b>>}
    BY <2>3, EmptyNotes, TwoNotes
  <2> DEFINE period == ended \o begun
  <2> HIDE DEF period
  <2>5. captured' = period \o lost
    BY <1>2 DEF period
  <2>6. CASE S = {}
    <3>1. captured' \in {<< >>, <<e>>, <<b>>, <<e, b>>}
      BY <2>3, <2>4, <2>5, <2>6, EmptyNotes DEF period
    <3> QED
      BY <2>2, <2>6, <3>1, OneOrTwo
  <2>7. CASE S # {}
    <3>1. captured' = period \o <<l>> /\ period \in {<< >>, <<e>>, <<b>>, <<e, b>>}
      BY <2>3, <2>4, <2>5, <2>7 DEF period
    <3>2. /\ << >> \o <<l>> = <<l>> /\ <<e>> \o <<l>> = <<e, l>>
          /\ <<b>> \o <<l>> = <<b, l>> /\ <<e, b>> \o <<l>> = <<e, b, l>>
      BY EmptyNotes, TwoNotes, ThreeNotes
    <3>3. captured' \in {<<l>>, <<e, l>>, <<b, l>>, <<e, b, l>>}
      BY <3>1, <3>2
    <3> QED
      BY <2>2, <3>3, LossAtEnd
  <2> QED
    BY <2>6, <2>7
<1>6. ASSUME TrackedOK, Pending
      PROVE  TrackedOK' /\ Pending'
  <2>1. Announced = Merging /\ (UsePap => WithPap = MergingPap)
    <3>1. \A p, x : captured # <<x>> /\ captured # <<p, x>>
      BY <1>2
    <3> QED
      BY <1>2, <1>6, <3>1, NothingPending DEF Pending
  <2>2. /\ TrackedOK' /\ Announced' = Announced \ S /\ WithPap' = WithPap \ S
        /\ S \subseteq Announced
    BY <1>2, <1>6, TickTracked DEF S
  <2>3. LossIsLast(captured)' /\ LostBy(captured)' = S
    BY <1>5 DEF LossIsLast, LostBy
  <2>4. TickPending(captured)'
    BY <1>2, <1>5, <2>1, <2>2, <2>3 DEF TickPending
  <2> QED
    BY <2>2, <2>4 DEF Pending
<1> QED
  BY <1>5, <1>6

LEMMA PacketLength ==
  ASSUME ReceivePacket
  PROVE  Len(captured') <= 2
<1>1. PICK s \in Sources, n \in Netints, preview \in Previews :
          \/ \E value \in Levels \cup {NoLevels} : CaptureDmx(s, n, preview, value)
          \/ CapturePap(s, n, preview)
          \/ CaptureOther(s, n, preview)
  BY DEF ReceivePacket
<1>2. ASSUME NEW x PROVE DataIf(preview, x) \in {<< >>, <<x>>}
  BY DEF DataIf
<1>3. ASSUME NEW value \in Levels \cup {NoLevels}, CaptureDmx(s, n, preview, value)
      PROVE  Len(captured') <= 2
  <2> PICK d : d = DataNotification(s, n, "dmx", value)
    OBVIOUS
  <2> PICK p : p = PapLostNotification(s)
    OBVIOUS
  <2>1. \/ captured' = << >>
        \/ \E lost \in {<< >>, <<p>>} : captured' = lost \o DataIf(preview, d)
        \/ captured' = DataIf(preview, d)
    BY <1>3 DEF CaptureDmx, Capture
  <2>2. captured' \in {<< >>, <<d>>, <<p>>, <<p, d>>}
    BY <1>2, <2>1, EmptyNotes, TwoNotes
  <2>3. Len(<< >>) = 0 /\ Len(<<d>>) = 1 /\ Len(<<p>>) = 1 /\ Len(<<p, d>>) = 2
    OBVIOUS
  <2>4. Len(captured') \in {0, 1, 2}
    BY <2>2, <2>3, Zenon
  <2>5. \A k \in {0, 1, 2} : k <= 2
    OBVIOUS
  <2> QED
    BY <2>4, <2>5, Zenon
<1>4. CASE CapturePap(s, n, preview) \/ CaptureOther(s, n, preview)
  <2>1. PICK x : captured' = DataIf(preview, x)
    BY <1>4 DEF CapturePap, CaptureOther, Capture
  <2>2. captured' \in {<< >>, <<x>>}
    BY <1>2, <2>1
  <2>3. Len(<< >>) = 0 /\ Len(<<x>>) = 1
    OBVIOUS
  <2>4. Len(captured') \in {0, 1, 2}
    BY <2>2, <2>3, Zenon
  <2>5. \A k \in {0, 1, 2} : k <= 2
    OBVIOUS
  <2> QED
    BY <2>4, <2>5, Zenon
<1> QED
  BY <1>1, <1>3, <1>4

LEMMA AgreeUnchanged ==
  ASSUME TrackedOK, Pending, UNCHANGED <<tracked, mr_sources, captured>>
  PROVE  TrackedOK' /\ Pending'
<1>1. /\ Announced' = Announced /\ WithPap' = WithPap
      /\ Merging' = Merging /\ MergingPap' = MergingPap
  BY DEF Announced, WithPap, Merging, MergingPap
<1>2. TrackedOK'
  BY <1>1 DEF TrackedOK
<1>3. TickPending(captured) => TickPending(captured)'
  BY <1>1 DEF TickPending, LossIsLast, LostBy
<1>4. \A x : DataPending(x) => DataPending(x)'
  BY <1>1 DEF DataPending
<1>5. \A p, x : PapLostPending(p, x) => PapLostPending(p, x)'
  BY <1>1 DEF PapLostPending
<1> QED
  BY <1>2, <1>3, <1>4, <1>5 DEF Pending

LEMMA AgreeStep ==
  ASSUME AInv, [SystemNext]_sysVars
  PROVE  AInv'
<1> DEFINE Plain == scenario \subseteq {"networking"}
           Agree == Len(captured') <= 3 /\ (Plain => TrackedOK' /\ Pending')
<1>1. /\ MInv /\ MInv' /\ Len(captured) <= 3 /\ (Plain => TrackedOK /\ Pending)
      /\ captured \in Seq(Notes)
  BY MergersStep DEF AInv, MInv
<1>2. scenario' = scenario
  BY DEF SystemNext, ReceivePacket, CaptureDmx, CapturePap, CaptureOther, Capture, ThreadTick,
         CaptureTick, Deliver, Callback, AppCall, ChangeUniverse, Destroy, Create,
         ResetNetworking, sysVars
<1>3. ASSUME UNCHANGED <<tracked, mr_sources, captured>>
      PROVE  Agree
  BY <1>1, <1>3, AgreeUnchanged
<1>4. ASSUME ReceivePacket
      PROVE  Agree
  <2>1. Len(captured') <= 3
    <3>1. Len(captured') <= 2 /\ Len(captured') \in Nat
      BY <1>1, <1>4, PacketLength, LenProperties DEF MInv
    <3> QED
      BY <3>1
  <2> QED
    BY <1>1, <1>4, <2>1, AgreePacket
<1>5. ASSUME ThreadTick
      PROVE  Agree
  BY <1>1, <1>5, AgreeTick
<1>6. ASSUME Deliver
      PROVE  Agree
  <2>1. captured # << >> /\ captured' = Tail(captured)
    BY <1>6 DEF Deliver
  <2>2. Len(captured') <= 3
    <3> HIDE DEF Notes
    <3>1. Len(Tail(captured)) = Len(captured) - 1 /\ Len(captured) \in Nat
      BY <1>1, <2>1, HeadTailProperties, LenProperties
    <3> QED
      BY <1>1, <2>1, <3>1
  <2> QED
    BY <1>1, <1>6, <2>2, AgreeDelivered
<1>7. ASSUME Callback
      PROVE  Agree
  BY <1>3, <1>7 DEF Callback, rcvVars
<1>8. ASSUME NEW u \in Universes, ChangeUniverse(u)
      PROVE  Agree
  BY <1>1, <1>8 DEF ChangeUniverse
<1>9. ASSUME Destroy
      PROVE  Agree
  <2>1. captured' = << >> /\ tracked' = << >> /\ mr_sources' = << >>
    BY <1>9 DEF Destroy, ReceiverDestroyed, Cleared
  <2>2. TrackedOK'
    BY <2>1 DEF TrackedOK, WithPap, Announced
  <2>3. Announced' = Merging' /\ WithPap' = MergingPap'
    BY <2>1 DEF Announced, WithPap, Merging, MergingPap
  <2> QED
    BY <2>1, <2>2, <2>3, NothingLeft
<1>10. ASSUME NEW u \in Universes, NEW usable \in SUBSET Netints, Create(u, usable)
       PROVE  Agree
  BY <1>3, <1>10 DEF Create, ReceiverCreated, mrVars
<1>11. ASSUME NEW listed \in SUBSET Netints, NEW usable \in SUBSET listed,
              ResetNetworking(listed, usable)
       PROVE  Agree
  BY <1>3, <1>11 DEF ResetNetworking, ReceiverResetNetworking, mrVars
<1>12. ASSUME UNCHANGED sysVars
      PROVE  Agree
  BY <1>3, <1>12 DEF sysVars, rcvVars, mrVars
<1>13. Agree
  BY <1>4, <1>5, <1>6, <1>7, <1>8, <1>9, <1>10, <1>11, <1>12 DEF SystemNext, AppCall
<1> QED
  BY <1>1, <1>2, <1>13 DEF AInv

LEMMA AgreeInit == SystemInit => AInv
<1> SUFFICES ASSUME SystemInit
             PROVE  AInv
  OBVIOUS
<1>1. captured = << >> /\ tracked = << >> /\ mr_sources = << >>
  BY DEF SystemInit, ReceiverInit, MergeReceiverInit
<1>2. Announced = Merging /\ WithPap = MergingPap /\ TrackedOK
  BY <1>1 DEF Announced, WithPap, Merging, MergingPap, TrackedOK
<1> QED
  BY <1>1, <1>2, MergersInit, NothingPending DEF AInv, Pending

\* The notification that is delivered next names sources that are known.
LEMMA NextLossIsKnown ==
  ASSUME Pending, captured # << >>
  PROVE  /\ Head(captured).kind = "sources_lost" => Head(captured).sources \subseteq Merging
         /\ Head(captured).kind = "pap_lost" => Head(captured).source \in Merging
<1>1. CASE TickPending(captured)
  BY <1>1, TailPending, NoteKinds DEF TickPending
<1>2. ASSUME NEW x \in UniverseDataNotes, captured = <<x>>
      PROVE  Head(captured).kind = "universe_data"
  BY <1>2, NoteKinds
<1>3. ASSUME NEW p, NEW x, captured = <<p, x>>, PapLostPending(p, x)
      PROVE  Head(captured).kind = "pap_lost" /\ Head(captured).source \in Merging
  BY <1>3, NoteKinds DEF PapLostPending
<1> QED
  BY <1>1, <1>2, <1>3 DEF Pending

LEMMA AgreeImplies == UsePap /\ AInv => SourcesAgree
<1> SUFFICES ASSUME UsePap, AInv
             PROVE  SourcesAgree
  OBVIOUS
<1>1. SystemTypeOK
  BY DEF AInv, MInv, MergersOK, MergeSource, SystemTypeOK
<1>2. LostAreKnown
  BY NextLossIsKnown DEF AInv, LostAreKnown, Merging
<1>3. ASSUME scenario \subseteq {"networking"}, ThreadIdle
      PROVE  /\ DOMAIN mr_sources = {s \in Known : ~tracked[s].waiting}
             /\ \A s \in DOMAIN mr_sources : mr_sources[s].pap_active = tracked[s].pap
  <2>1. captured = << >> /\ TrackedOK /\ Pending
    BY <1>3 DEF AInv, ThreadIdle
  <2>2. Announced = Merging /\ WithPap = MergingPap
    <3>1. \A p, x : captured # <<x>> /\ captured # <<p, x>>
      BY <2>1
    <3> QED
      BY <2>1, <3>1, NothingPending DEF Pending
  <2>3. ASSUME NEW s \in DOMAIN mr_sources
        PROVE  mr_sources[s].pap_active = tracked[s].pap
    <3>1. mr_sources[s].pap_active \in BOOLEAN
      BY DEF AInv, MInv, MergersOK, MergeSource
    <3>2. s \in DOMAIN tracked
      BY <2>2 DEF Announced, Merging
    <3>3. tracked[s].pap \in BOOLEAN
      BY <2>1, <3>2 DEF TrackedOK, TrackedEntry
    <3>4. mr_sources[s].pap_active <=> tracked[s].pap
      BY <2>2, <3>2 DEF WithPap, MergingPap
    <3> QED
      BY <3>1, <3>3, <3>4
  <2> QED
    BY <2>2, <2>3 DEF Announced, Merging, Known
<1> QED
  BY <1>1, <1>2, <1>3 DEF SourcesAgree

\* With priorities in use, and data that is neither of another universe nor
\* preview data, the sources of the merge receiver are the ones its receiver
\* has notified, with the same priorities, whenever all notifications are
\* delivered; no assertion of merge_receiver.c (:759, :989) is violated.
THEOREM MergeReceiverSourcesAgree ==
  ASSUME UsePap PROVE SystemSpec => []SourcesAgree
<1>1. AInv /\ [SystemNext]_sysVars => AInv'
  BY AgreeStep
<1> QED
  BY <1>1, AgreeInit, AgreeImplies, PTL DEF SystemSpec
-----------------------------------------------------------------------------
(***************************************************************************)
(* MergersMatchFlags.  With plain data the merge receiver never has more   *)
(* sources than the receiver may track, so that no merger refuses one.     *)
(***************************************************************************)
WithinLimit(S) == MaxSources = 0 \/ Cardinality(S) <= MaxSources

\* The inductive invariant for MergersMatchFlags.
LInv ==
    /\ AInv
    /\ WithinLimit(DOMAIN tracked)
    /\ scenario \subseteq {"networking"} => WithinLimit(Merging) /\ NoneLeftOut

LEMMA FewerFit ==
  ASSUME NEW S \in SUBSET Sources, WithinLimit(S), NEW T \in SUBSET S
  PROVE  WithinLimit(T) /\ Fits(T)
<1>1. IsFiniteSet(S)
  BY LimitAssumption, FS_Subset
<1>2. /\ IsFiniteSet(T) /\ Cardinality(T) <= Cardinality(S)
      /\ Cardinality(S) \in Nat /\ Cardinality(T) \in Nat
  BY <1>1, FS_Subset, FS_CardinalityType
<1> QED
  BY <1>2, LimitAssumption, MergeReceiverAssumption DEF WithinLimit, Fits

LEMMA OneMoreFits ==
  ASSUME DOMAIN tracked \subseteq Sources, NEW s \in Sources, s \notin Known, HasRoom
  PROVE  WithinLimit(DOMAIN tracked \cup {s})
<1>1. IsFiniteSet(DOMAIN tracked)
  BY LimitAssumption, FS_Subset
<1>2. /\ Cardinality(DOMAIN tracked) \in Nat
      /\ Cardinality(DOMAIN tracked \cup {s}) = Cardinality(DOMAIN tracked) + 1
  BY <1>1, FS_CardinalityType, FS_AddElement DEF Known
<1> QED
  BY <1>2, LimitAssumption DEF WithinLimit, HasRoom, Known

\* The receiver keeps its limit.
LEMMA TrackedStep ==
  ASSUME MInv, WithinLimit(DOMAIN tracked), [SystemNext]_sysVars
  PROVE  WithinLimit(DOMAIN tracked')
<1>1. DOMAIN tracked \in SUBSET Sources
  BY DEF MInv
<1>2. ASSUME DOMAIN tracked' \subseteq DOMAIN tracked
      PROVE  WithinLimit(DOMAIN tracked')
  BY <1>1, <1>2, FewerFit
<1>3. ASSUME NEW s \in Sources, NEW n, NEW has_pap, NewSource(s, n, has_pap)
      PROVE  WithinLimit(DOMAIN tracked')
  <2>1. s \notin Known /\ HasRoom /\ DOMAIN tracked' = DOMAIN tracked \cup {s}
    BY <1>3 DEF NewSource, Known
  <2> QED
    BY <1>1, <2>1, OneMoreFits
<1>4. CASE ReceivePacket
  <2>1. PICK s \in Sources, n \in Netints, preview \in Previews :
            \/ \E value \in Levels \cup {NoLevels} : CaptureDmx(s, n, preview, value)
            \/ CapturePap(s, n, preview)
            \/ CaptureOther(s, n, preview)
    BY <1>4 DEF ReceivePacket
  <2>2. \/ NothingNew(s, n)
        \/ \E pap_lost \in BOOLEAN : LevelsOfKnown(s, n, pap_lost)
        \/ PapOfKnown(s, n)
        \/ NewSource(s, n, FALSE) \/ NewSource(s, n, TRUE)
    BY <2>1 DEF CaptureDmx, CapturePap, CaptureOther, LevelsHeldBack
  <2>3. NothingNew(s, n) => DOMAIN tracked' = DOMAIN tracked
    BY DEF NothingNew
  <2>4. \A pap_lost \in BOOLEAN :
          LevelsOfKnown(s, n, pap_lost) => DOMAIN tracked' = DOMAIN tracked
    BY DEF LevelsOfKnown
  <2>5. PapOfKnown(s, n) => DOMAIN tracked' = DOMAIN tracked
    BY DEF PapOfKnown
  <2> QED
    BY <1>2, <1>3, <2>2, <2>3, <2>4, <2>5
<1>5. CASE ThreadTick
  BY <1>2, <1>5 DEF ThreadTick, CaptureTick, Tick, Restrict, Known
<1>6. CASE \/ Deliver \/ Callback \/ UNCHANGED sysVars
  BY <1>2, <1>6 DEF Deliver, Callback, sysVars, rcvVars
<1>7. CASE AppCall
  <2>1. tracked' = tracked \/ tracked' = << >>
    BY <1>7 DEF AppCall, ChangeUniverse, ReceiverChangeUniverse, Destroy, ReceiverDestroyed,
                Create, ReceiverCreated, ResetNetworking, ReceiverResetNetworking
  <2> QED
    BY <1>2, <2>1
<1> QED
  BY <1>4, <1>5, <1>6, <1>7 DEF SystemNext

\* Data that is delivered next is of a source the receiver has announced.
LEMMA NextData ==
  ASSUME Pending, captured # << >>, Head(captured).kind = "universe_data"
  PROVE  Head(captured) \in UniverseDataNotes /\ DataPending(Head(captured))
<1>1. CASE TickPending(captured)
  BY <1>1, TailPending, NoteKinds DEF TickPending
<1>2. ASSUME NEW x \in UniverseDataNotes, captured = <<x>>, DataPending(x)
      PROVE  Head(captured) = x
  BY <1>2
<1>3. ASSUME NEW p, NEW x, captured = <<p, x>>, PapLostPending(p, x)
      PROVE  Head(captured).kind = "pap_lost"
  BY <1>3, NoteKinds DEF PapLostPending
<1> QED
  BY <1>1, <1>2, <1>3 DEF Pending

LEMMA DomainsKept ==
  ASSUME NEW merger, NEW x
  PROVE  DOMAIN MergePacket(merger, x) = DOMAIN merger
BY DEF MergePacket, UpdateLevels, UpdatePap

\* A new source finds room in the merger it is for.
LEMMA DataFits ==
  ASSUME MInv, WithinLimit(DOMAIN tracked), NoneLeftOut,
         NEW x \in UniverseDataNotes, DataPending(x), UniverseData(x)
  PROVE  WithinLimit(Merging') /\ NoneLeftOut'
<1> DEFINE s == x.source
<1>1. MergersOK /\ DOMAIN tracked \in SUBSET Sources
  BY DEF MInv
<1>2. Merging' = Merging \cup {s} /\ Merging' = Announced
  BY <1>1, DataMerging DEF DataPending
<1>3. Merging \cup {s} \in SUBSET DOMAIN tracked
  BY <1>2 DEF Announced
<1>4. WithinLimit(Merging')
  BY <1>1, <1>2, <1>3, FewerFit
<1>5. CASE s \in DOMAIN mr_sources
  <2>1. /\ output' = IF x.is_sampling THEN output ELSE MergePacket(output, x)
        /\ sampled' = IF x.is_sampling THEN MergePacket(sampled, x) ELSE sampled
    BY <1>5 DEF UniverseData
  <2>2. DOMAIN output' = DOMAIN output /\ DOMAIN sampled' = DOMAIN sampled
    BY <2>1, DomainsKept
  <2> QED
    BY <1>2, <1>4, <1>5, <2>2 DEF NoneLeftOut, Merging
<1>6. CASE s \notin DOMAIN mr_sources
  <2>1. /\ output' = IF x.is_sampling THEN output ELSE MergePacket(AddTo(output, s), x)
        /\ sampled' = IF x.is_sampling THEN MergePacket(AddTo(sampled, s), x) ELSE sampled
    BY <1>6 DEF UniverseData
  <2>2. DOMAIN output \subseteq Merging /\ DOMAIN sampled \subseteq Merging
    BY <1>1 DEF MergersOK, InMergerOfFlag, Merging
  <2>3. Fits(DOMAIN output \cup {s}) /\ Fits(DOMAIN sampled \cup {s})
    <3>1. /\ DOMAIN output \cup {s} \in SUBSET DOMAIN tracked
          /\ DOMAIN sampled \cup {s} \in SUBSET DOMAIN tracked
      BY <1>3, <2>2
    <3> QED
      BY <1>1, <3>1, FewerFit
  <2>4. /\ DOMAIN AddTo(output, s) = DOMAIN output \cup {s}
        /\ DOMAIN AddTo(sampled, s) = DOMAIN sampled \cup {s}
    BY <2>3 DEF AddTo
  <2>5. \/ DOMAIN output' = DOMAIN output \cup {s} /\ DOMAIN sampled' = DOMAIN sampled
        \/ DOMAIN sampled' = DOMAIN sampled \cup {s} /\ DOMAIN output' = DOMAIN output
    BY <2>1, <2>4, DomainsKept
  <2> QED
    BY <1>2, <1>4, <2>5 DEF NoneLeftOut, Merging
<1> QED
  BY <1>5, <1>6

\* All sampled sources find room in the output merger.
LEMMA EndFits ==
  ASSUME MergersOK, WithinLimit(Merging), NoneLeftOut, NEW x, SamplingEnded(x)
  PROVE  WithinLimit(Merging') /\ NoneLeftOut'
<1>1. Merging' = Merging
  BY EndedMerging
<1>2. Moving = DOMAIN sampled /\ DOMAIN output \subseteq Merging
        /\ DOMAIN sampled \subseteq Merging /\ Merging \in SUBSET Sources
  BY DEF Moving, MergersOK, InMergerOfFlag, Merging
<1>3. PICK entering \in Entering(output, DOMAIN sampled) :
        DOMAIN output' = DOMAIN output \cup entering
  BY <1>2 DEF SamplingEnded
<1>4. ASSUME NEW s \in DOMAIN sampled
      PROVE  s \in entering
  <2>1. DOMAIN output \cup entering \cup {s} \in SUBSET Merging
    BY <1>2 DEF Entering
  <2>2. Fits(DOMAIN output \cup entering \cup {s})
    BY <1>2, <2>1, FewerFit
  <2> QED
    BY <2>2 DEF Entering
<1> QED
  BY <1>1, <1>3, <1>4 DEF NoneLeftOut, Merging

LEMMA LossFits ==
  ASSUME MergersOK, WithinLimit(Merging), NoneLeftOut, NEW x, SourcesLost(x)
  PROVE  WithinLimit(Merging') /\ NoneLeftOut'
<1> DEFINE lost == x.sources \cap DOMAIN mr_sources
           hidden == {s \in lost : mr_sources[s].sampling}
<1>1. /\ mr_sources' = Without(mr_sources, lost)
      /\ output' = Without(output, lost \ hidden)
      /\ sampled' = Without(sampled, hidden)
  BY DEF SourcesLost
<1>2. \A g, S : DOMAIN Without(g, S) = DOMAIN g \ S
  BY DEF Without, Restrict
<1>a. hidden \subseteq lost
  OBVIOUS
<1> HIDE DEF hidden
<1> HIDE DEF lost
<1>b. DOMAIN mr_sources' = DOMAIN mr_sources \ lost
  BY <1>1, <1>2
<1>c. DOMAIN output \ lost \subseteq DOMAIN output'
  <2>1. DOMAIN output' = DOMAIN output \ (lost \ hidden)
    BY <1>1, <1>2
  <2> QED
    BY <2>1
<1>d. DOMAIN sampled \ lost \subseteq DOMAIN sampled'
  <2>1. DOMAIN sampled' = DOMAIN sampled \ hidden
    BY <1>1, <1>2
  <2> QED
    BY <2>1, <1>a
<1>3. /\ DOMAIN mr_sources' = DOMAIN mr_sources \ lost
      /\ DOMAIN output \ lost \subseteq DOMAIN output'
      /\ DOMAIN sampled \ lost \subseteq DOMAIN sampled'
  BY <1>b, <1>c, <1>d
<1>4. NoneLeftOut'
  BY <1>3 DEF NoneLeftOut
<1>5. Merging \in SUBSET Sources /\ Merging' \in SUBSET Merging
  BY <1>3 DEF MergersOK, Merging
<1> QED
  BY <1>4, <1>5, FewerFit

LEMMA DomainsFit ==
  ASSUME WithinLimit(Merging), NoneLeftOut, DOMAIN mr_sources' = DOMAIN mr_sources,
         DOMAIN output' = DOMAIN output, DOMAIN sampled' = DOMAIN sampled
  PROVE  WithinLimit(Merging') /\ NoneLeftOut'
BY DEF Merging, NoneLeftOut

LEMMA LimitStep ==
  ASSUME LInv, [SystemNext]_sysVars
  PROVE  LInv'
<1>1. /\ AInv /\ AInv' /\ MInv /\ MergersOK /\ WithinLimit(DOMAIN tracked)
      /\ WithinLimit(DOMAIN tracked')
  BY AgreeStep, TrackedStep DEF LInv, AInv, MInv
<1>2. scenario' = scenario
  BY DEF SystemNext, ReceivePacket, CaptureDmx, CapturePap, CaptureOther, Capture, ThreadTick,
         CaptureTick, Deliver, Callback, AppCall, ChangeUniverse, Destroy, Create,
         ResetNetworking, sysVars
<1> SUFFICES ASSUME scenario \subseteq {"networking"}
             PROVE  WithinLimit(Merging') /\ NoneLeftOut'
  BY <1>1, <1>2 DEF LInv, WithinLimit, Merging
<1>3. WithinLimit(Merging) /\ NoneLeftOut /\ Pending
  BY DEF LInv, AInv
<1>4. ASSUME UNCHANGED <<mr_sources, output, sampled>>
      PROVE  WithinLimit(Merging') /\ NoneLeftOut'
  BY <1>3, <1>4, DomainsFit
<1>5. CASE Deliver
  <2> DEFINE x == Head(captured)
  <2>1. /\ captured # << >>
        /\ \/ x.kind = "universe_data" /\ UniverseData(x)
           \/ x.kind = "sources_lost" /\ SourcesLost(x)
           \/ x.kind = "sampling_ended" /\ SamplingEnded(x)
           \/ x.kind = "sampling_started" /\ SamplingStarted
           \/ x.kind = "pap_lost" /\ PapLost(x)
    BY <1>5 DEF Deliver
  <2> HIDE DEF x
  <2>2. CASE x.kind = "universe_data" /\ UniverseData(x)
    BY <1>1, <1>3, <2>1, <2>2, NextData, DataFits DEF x
  <2>3. CASE SourcesLost(x)
    BY <1>1, <1>3, <2>3, LossFits
  <2>4. CASE SamplingEnded(x)
    BY <1>1, <1>3, <2>4, EndFits
  <2>5. CASE SamplingStarted
    BY <1>4, <2>5 DEF SamplingStarted
  <2>6. CASE PapLost(x)
    <3>1. /\ DOMAIN mr_sources' = DOMAIN mr_sources
          /\ DOMAIN output' = DOMAIN output /\ DOMAIN sampled' = DOMAIN sampled
      BY <2>6 DEF PapLost, UpdatePap
    <3> QED
      BY <1>3, <3>1, DomainsFit
  <2> QED
    BY <2>1, <2>2, <2>3, <2>4, <2>5, <2>6
<1>6. CASE Destroy
  <2>1. DOMAIN mr_sources' = {}
    BY <1>6 DEF Destroy, Cleared
  <2>2. Merging \in SUBSET Sources /\ Merging' \in SUBSET Merging /\ NoneLeftOut'
    BY <1>1, <2>1 DEF Merging, NoneLeftOut, MergersOK
  <2> QED
    BY <1>3, <2>2, FewerFit
<1>7. CASE ReceivePacket
  BY <1>4, <1>7 DEF ReceivePacket, CaptureDmx, CapturePap, CaptureOther, Capture, mrVars
<1>8. CASE ThreadTick
  BY <1>4, <1>8 DEF ThreadTick, CaptureTick, Capture, mrVars
<1>9. CASE Callback \/ UNCHANGED sysVars
  BY <1>4, <1>9 DEF Callback, sysVars, mrVars
<1>10. CASE AppCall /\ ~Destroy
  <2>1. ~\E u \in Universes : ChangeUniverse(u)
    BY DEF ChangeUniverse
  <2> QED
    BY <1>4, <1>10, <2>1 DEF AppCall, Create, ResetNetworking, mrVars
<1> QED
  BY <1>5, <1>6, <1>7, <1>8, <1>9, <1>10 DEF SystemNext

LEMMA LimitInit == SystemInit => LInv
<1> SUFFICES ASSUME SystemInit
             PROVE  LInv
  OBVIOUS
<1>1. DOMAIN tracked = {} /\ DOMAIN mr_sources = {}
  BY DEF SystemInit, ReceiverInit, MergeReceiverInit
<1>2. WithinLimit({})
  BY FS_EmptySet, LimitAssumption DEF WithinLimit
<1> QED
  BY <1>1, <1>2, AgreeInit DEF LInv, NoneLeftOut, Merging

\* Whatever is delivered late, whatever the application calls in between, and
\* whatever a merger has no room for, no source of the merge receiver is in
\* another merger than the one its sampling flag names.  With plain data each
\* is in that one: the limit of the receiver keeps the mergers from refusing a
\* source (merge_receiver.c:650, :764, :895, :905 and :908).
THEOREM MergeReceiverMergersMatchFlags == SystemSpec => []MergersMatchFlags
<1>1. LInv => MergersMatchFlags
  BY DEF LInv, AInv, MInv, MergersOK, MergersMatchFlags
<1>2. LInv /\ [SystemNext]_sysVars => LInv'
  BY LimitStep
<1> QED
  BY <1>1, <1>2, LimitInit, PTL DEF SystemSpec
===============================================================================
