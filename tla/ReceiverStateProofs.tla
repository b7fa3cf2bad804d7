------------------------- MODULE ReceiverStateProofs -------------------------
(***************************************************************************)
(* The tracked sources, the termination sets and the application's view of *)
(* a receiver fit together, for any number of sources and interfaces and   *)
(* any lengths of the timeouts.                                            *)
(***************************************************************************)
EXTENDS ReceiverSampling, ReceiverDeadline, SequenceNumbers, FiniteSetTheorems, TLAPS

(***************************************************************************)
(* What the operators of the source loss algorithm keep of the termination *)
(* sets, for any set of sources.                                           *)
(***************************************************************************)

\* The shape of the termination sets of a universe: they are disjoint, not
\* empty, and have members in M only.
Sound(T, M) ==
    /\ T \subseteq TerminationSet
    /\ \A t \in T :
          /\ t.members # {}
          /\ t.offline \subseteq t.members
          /\ t.terminated \subseteq t.offline
          /\ t.members \subseteq M
          /\ \A u \in T : u = t \/ u.members \cap t.members = {}

\* Marking members leaves the members of a set as they are.
LEMMA MarkMembersResult ==
    ASSUME NEW t \in TerminationSet, t.offline \subseteq t.members,
           t.terminated \subseteq t.offline, NEW offline, NEW terminated
    PROVE  LET r == MarkMembersOffline(t, offline, terminated)
           IN  /\ r \in TerminationSet
               /\ r.members = t.members
               /\ r.offline = t.offline \cup (t.members \cap offline)
               /\ r.terminated \subseteq r.offline
               /\ r.wait = t.wait
<1> DEFINE newly == (t.members \cap offline) \ t.offline
           r == MarkMembersOffline(t, offline, terminated)
<1>1. r = [t EXCEPT !.offline = t.offline \cup newly,
                     !.terminated = t.terminated \cup (newly \cap terminated)]
  BY DEF MarkMembersOffline
<1>2. /\ t.offline \cup newly \in SUBSET Sources
      /\ t.terminated \cup (newly \cap terminated) \in SUBSET Sources
  BY DEF TerminationSet
<1>3. /\ r \in TerminationSet
      /\ r.members = t.members
      /\ r.offline = t.offline \cup newly
      /\ r.terminated = t.terminated \cup (newly \cap terminated)
      /\ r.wait = t.wait
  <2> HIDE DEF newly, r
  <2> QED
    BY <1>1, <1>2 DEF TerminationSet
<1> QED
  BY <1>3

\* What is marked in R was marked in T or is offline.
MarkedFrom(R, T, offline) ==
    \A r \in R : \A s \in r.offline :
        s \in offline \/ \E t \in T : s \in t.offline

\* mark_sources_offline keeps the termination sets disjoint, and marks only
\* sources that are offline.
LEMMA MarkOfflineSound ==
    ASSUME NEW M \in SUBSET Sources, NEW T, Sound(T, M),
           NEW offline \in SUBSET M, NEW unknown \in SUBSET M,
           offline \cap unknown = {},
           NEW terminated, NEW first, NEW wait \in Nat
    PROVE  LET R == MarkSourcesOffline(T, offline, terminated, unknown, first, wait)
           IN  Sound(R, M) /\ MarkedFrom(R, T, offline)
<1> DEFINE In == InTermSet(T)
           new == offline \ In
           waiting(s) == IF s = first THEN unknown \ In ELSE {}
           mark(t) == MarkMembersOffline(t, offline, terminated)
           make(s) == NewTermSet(s, waiting(s), wait, terminated)
           R == MarkSourcesOffline(T, offline, terminated, unknown, first, wait)
<1>1. R = {mark(t) : t \in T} \cup {make(s) : s \in new}
  BY DEF MarkSourcesOffline
<1>2. ASSUME NEW t \in T
      PROVE  /\ mark(t) \in TerminationSet
             /\ mark(t).members = t.members
             /\ mark(t).offline = t.offline \cup (t.members \cap offline)
             /\ mark(t).terminated \subseteq mark(t).offline
  <2>1. t \in TerminationSet /\ t.offline \subseteq t.members
          /\ t.terminated \subseteq t.offline
    BY DEF Sound
  <2> QED
    BY <2>1, MarkMembersResult
<1>3. ASSUME NEW s \in new
      PROVE  /\ make(s) \in TerminationSet
             /\ make(s).members = {s} \cup waiting(s)
             /\ make(s).offline = {s}
             /\ make(s).terminated \subseteq {s}
             /\ s \in offline /\ s \notin In
             /\ waiting(s) \subseteq unknown \ In
             /\ waiting(s) # {} => s = first
  <2>1. waiting(s) \subseteq unknown \ In /\ (waiting(s) # {} => s = first)
    OBVIOUS
  <2> QED
    BY <2>1 DEF NewTermSet, TerminationSet
<1>4. \A t \in T : t.members \subseteq In
  BY DEF InTermSet
<1>5. ASSUME NEW t \in T
      PROVE  /\ t.members # {} /\ t.offline \subseteq t.members
             /\ t.members \subseteq M
             /\ \A u \in T : u = t \/ u.members \cap t.members = {}
  BY DEF Sound
<1> HIDE DEF R, mark, make, waiting, In
<1>6. R \subseteq TerminationSet
  BY <1>1, <1>2, <1>3
<1>7. ASSUME NEW r \in R
      PROVE  /\ r.members # {}
             /\ r.offline \subseteq r.members
             /\ r.terminated \subseteq r.offline
             /\ r.members \subseteq M
             /\ \A s \in r.offline :
                   s \in offline \/ \E t \in T : s \in t.offline
  <2>1. ASSUME NEW t \in T, r = mark(t)
        PROVE  /\ r.members # {}
               /\ r.offline \subseteq r.members
               /\ r.terminated \subseteq r.offline
               /\ r.members \subseteq M
               /\ \A s \in r.offline :
                     s \in offline \/ \E x \in T : s \in x.offline
    BY <1>2, <1>5, <2>1
  <2>2. ASSUME NEW s \in new, r = make(s)
        PROVE  /\ r.members # {}
               /\ r.offline \subseteq r.members
               /\ r.terminated \subseteq r.offline
               /\ r.members \subseteq M
               /\ \A x \in r.offline : x \in offline
    BY <1>3, <2>2
  <2> QED
    BY <1>1, <2>1, <2>2
<1>8. ASSUME NEW r \in R, NEW q \in R
      PROVE  q = r \/ q.members \cap r.members = {}
  <2>1. ASSUME NEW t \in T, NEW u \in T, r = mark(t), q = mark(u)
        PROVE  q = r \/ q.members \cap r.members = {}
    BY <1>2, <1>5, <2>1
  <2>2. ASSUME NEW t \in T, NEW s \in new, r = mark(t), q = make(s)
        PROVE  q.members \cap r.members = {}
    BY <1>2, <1>3, <1>4, <2>2
  <2>3. ASSUME NEW t \in T, NEW s \in new, q = mark(t), r = make(s)
        PROVE  q.members \cap r.members = {}
    BY <1>2, <1>3, <1>4, <2>3
  <2>4. ASSUME NEW s \in new, NEW x \in new, r = make(s), q = make(x)
        PROVE  q = r \/ q.members \cap r.members = {}
    <3>1. CASE s = x
      BY <2>4, <3>1
    <3>2. CASE s # x
      BY <1>3, <2>4, <3>2
    <3> QED
      BY <3>1, <3>2
  <2> QED
    BY <1>1, <2>1, <2>2, <2>3, <2>4
<1>9. Sound(R, M)
  BY <1>6, <1>7, <1>8 DEF Sound
<1>10. MarkedFrom(R, T, offline)
  BY <1>7 DEF MarkedFrom
<1> QED
  BY <1>9, <1>10 DEF R

\* mark_sources_online takes every confirmed source out of the termination sets.
LEMMA MarkOnlineSound ==
    ASSUME NEW M, NEW T, Sound(T, M), NEW online,
           NEW R, R = MarkSourcesOnline(T, online)
    PROVE  /\ Sound(R, M \ online)
           /\ \A r \in R : \A s \in r.offline :
                 s \notin online /\ \E t \in T : s \in t.offline
<1> DEFINE out(t) == WithoutMembers(t, online)
<1>1. R \subseteq {out(t) : t \in T} /\ \A r \in R : r.members # {}
  BY DEF MarkSourcesOnline
<1>2. ASSUME NEW t \in T
      PROVE  /\ out(t) \in TerminationSet
             /\ out(t).members = t.members \ online
             /\ out(t).offline = t.offline \ online
             /\ out(t).terminated = t.terminated \ online
  <2>1. t \in TerminationSet
    BY DEF Sound
  <2>2. /\ t.members \ online \in SUBSET Sources
        /\ t.offline \ online \in SUBSET Sources
        /\ t.terminated \ online \in SUBSET Sources
    BY <2>1 DEF TerminationSet
  <2> QED
    BY <2>1, <2>2 DEF WithoutMembers, TerminationSet
<1>3. ASSUME NEW t \in T
      PROVE  /\ t.offline \subseteq t.members
             /\ t.terminated \subseteq t.offline
             /\ t.members \subseteq M
             /\ \A u \in T : u = t \/ u.members \cap t.members = {}
  BY DEF Sound
<1> HIDE DEF out
<1>4. R \subseteq TerminationSet
  BY <1>1, <1>2
<1>5. ASSUME NEW r \in R
      PROVE  /\ r.members # {}
             /\ r.offline \subseteq r.members
             /\ r.terminated \subseteq r.offline
             /\ r.members \subseteq M \ online
             /\ \A s \in r.offline :
                   s \notin online /\ \E t \in T : s \in t.offline
  <2>1. PICK t \in T : r = out(t)
    BY <1>1
  <2> QED
    BY <1>1, <1>2, <1>3, <2>1
<1>6. ASSUME NEW r \in R, NEW q \in R
      PROVE  q = r \/ q.members \cap r.members = {}
  <2>1. PICK t \in T : r = out(t)
    BY <1>1
  <2>2. PICK u \in T : q = out(u)
    BY <1>1
  <2> QED
    BY <1>2, <1>3, <2>1, <2>2
<1>7. Sound(R, M \ online)
  BY <1>4, <1>5, <1>6 DEF Sound
<1> QED
  BY <1>5, <1>7

\* The members of an expired termination set are in no set that is left.
LEMMA ExpiredLeave ==
    ASSUME NEW M, NEW T, Sound(T, M)
    PROVE  /\ Sound(T \ ExpiredTermSets(T), M \ ExpiredSources(T))
           /\ ExpiredSources(T) \subseteq M
           /\ \A s \in ExpiredSources(T) : \E t \in T : s \in t.offline
<1>1. ASSUME NEW t \in T \ ExpiredTermSets(T)
      PROVE  t.members \cap ExpiredSources(T) = {}
  <2>1. ASSUME NEW s \in t.members, s \in ExpiredSources(T) PROVE FALSE
    <3>1. PICK u \in ExpiredTermSets(T) : s \in u.members
      BY <2>1 DEF ExpiredSources
    <3>2. u \in T /\ u # t
      BY DEF ExpiredTermSets
    <3>3. u.members \cap t.members = {}
      BY <3>2 DEF Sound
    <3> QED
      BY <3>1, <3>3
  <2> QED
    BY <2>1
<1>2. Sound(T \ ExpiredTermSets(T), M \ ExpiredSources(T))
  BY <1>1 DEF Sound
<1>3. ASSUME NEW s \in ExpiredSources(T)
      PROVE  s \in M /\ \E t \in T : s \in t.offline
  <2>1. PICK u \in ExpiredTermSets(T) : s \in u.members
    BY DEF ExpiredSources
  <2>2. u \in T /\ u.members \subseteq u.offline /\ u.members \subseteq M
    BY DEF ExpiredTermSets, Sound
  <2> QED
    BY <2>1, <2>2
<1> QED
  BY <1>2, <1>3

\* What a tick makes of the termination sets: each set left is a set there was,
\* with its wait, or the set of an offline source that was in none; and every
\* source that is offline is marked in a set.
LEMMA MarkShape ==
    ASSUME NEW M \in SUBSET Sources, NEW T, Sound(T, M),
           NEW offline \in SUBSET M, NEW terminated, NEW unknown, NEW first,
           NEW wait, NEW online, offline \cap online = {}
    PROVE  LET Q == MarkSourcesOffline(T, offline, terminated, unknown, first, wait)
               R == MarkSourcesOnline(Q, online)
           IN  /\ \A r \in R :
                     \/ \E t \in T :
                           /\ r.wait = t.wait
                           /\ r.members = t.members \ online
                           /\ r.offline =
                                 (t.offline \cup (t.members \cap offline)) \ online
                     \/ r.wait = wait /\ r.offline \subseteq offline \ InTermSet(T)
               /\ \A s \in offline : \E r \in R : s \in r.offline
<1> DEFINE Q == MarkSourcesOffline(T, offline, terminated, unknown, first, wait)
           R == MarkSourcesOnline(Q, online)
           out(q) == WithoutMembers(q, online)
           waiting(s) == IF s = first THEN unknown \ InTermSet(T) ELSE {}
           mark(t) == MarkMembersOffline(t, offline, terminated)
           make(s) == NewTermSet(s, waiting(s), wait, terminated)
           new == offline \ InTermSet(T)
<1>1. Q = {mark(t) : t \in T} \cup {make(s) : s \in new}
  BY DEF MarkSourcesOffline
<1>2. R = {r \in {out(q) : q \in Q} : r.members # {}}
  BY DEF MarkSourcesOnline
<1>3. ASSUME NEW t \in T
      PROVE  /\ out(mark(t)).wait = t.wait
             /\ out(mark(t)).members = t.members \ online
             /\ out(mark(t)).offline =
                   (t.offline \cup (t.members \cap offline)) \ online
  <2> DEFINE q == mark(t)
  <2>1. /\ t \in TerminationSet /\ t.offline \subseteq t.members
        /\ t.terminated \subseteq t.offline
    BY DEF Sound
  <2>2. /\ q \in TerminationSet /\ q.members = t.members /\ q.wait = t.wait
        /\ q.offline = t.offline \cup (t.members \cap offline)
    BY <2>1, MarkMembersResult
  <2> HIDE DEF q
  <2>3. /\ out(q).wait = q.wait /\ out(q).members = q.members \ online
        /\ out(q).offline = q.offline \ online
    BY <2>2 DEF WithoutMembers, TerminationSet
  <2> QED
    BY <2>2, <2>3 DEF q
<1>4. ASSUME NEW s \in new
      PROVE  /\ out(make(s)).wait = wait
             /\ out(make(s)).members = ({s} \cup waiting(s)) \ online
             /\ out(make(s)).offline = {s} \ online
  BY DEF NewTermSet, WithoutMembers
<1> HIDE DEF out, mark, make, waiting, Q, R
<1>5. ASSUME NEW r \in R
      PROVE  \/ \E t \in T :
                   /\ r.wait = t.wait
                   /\ r.members = t.members \ online
                   /\ r.offline = (t.offline \cup (t.members \cap offline)) \ online
             \/ r.wait = wait /\ r.offline \subseteq new
  <2>1. PICK q \in Q : r = out(q)
    BY <1>2
  <2>2. CASE \E t \in T : q = mark(t)
    BY <1>3, <2>1, <2>2
  <2>3. CASE \E s \in new : q = make(s)
    BY <1>4, <2>1, <2>3
  <2> QED
    BY <1>1, <2>2, <2>3
<1>6. ASSUME NEW s \in offline
      PROVE  \E r \in R : s \in r.offline
  <2>1. CASE s \in InTermSet(T)
    <3>1. PICK t \in T : s \in t.members
      BY <2>1 DEF InTermSet
    <3>2. /\ out(mark(t)) \in {out(q) : q \in Q}
          /\ s \in out(mark(t)).members /\ s \in out(mark(t)).offline
      BY <1>1, <1>3, <3>1
    <3> QED
      BY <1>2, <3>2
  <2>2. CASE s \notin InTermSet(T)
    <3>1. /\ out(make(s)) \in {out(q) : q \in Q}
          /\ s \in out(make(s)).members /\ s \in out(make(s)).offline
      BY <1>1, <1>4, <2>2
    <3> QED
      BY <1>2, <3>1
  <2> QED
    BY <2>1, <2>2
<1> QED
  BY <1>5, <1>6 DEF Q, R

-----------------------------------------------------------------------------
(***************************************************************************)
(* The inductive invariant.  It is stated of values rather than of the     *)
(* variables, so that the lemmas can speak of the state before and after.  *)
(***************************************************************************)

\* The tracked sources of S that are past the PAP wait.
Past(S) == {s \in DOMAIN S : S[s].recv_state # Waiting}

\* A source that has not been heard, or has been since the last tick.
Silent(src) == src.packet_timer = 0 \/ src.dmx_received

IsTable(S) == DOMAIN S \subseteq Sources /\ S \in [DOMAIN S -> TrackedSource]

\* Termination sets hold sources past the PAP wait only, which the erasing of
\* waiting sources leaves alone; the sources marked offline are silent.
SetsFit(S, T) ==
    /\ Sound(T, Past(S))
    /\ \A t \in T : \A s \in t.offline : Silent(S[s])

AppFits(S, rep, pap) ==
    /\ rep \subseteq Past(S)
    /\ \A s \in pap : s \in DOMAIN S /\ S[s].recv_state \in {PapOnly, DmxAndPap}

Core ==
    /\ IsTable(sources)
    /\ SetsFit(sources, term_sets)
    /\ AppFits(sources, reported, pap_held)

\* The variables the termination sets do not depend on.
Misc ==
    /\ expired_wait \in ExpiredWaits
    /\ suppress_limit_exceeded \in BOOLEAN
    /\ sampling \in BOOLEAN
    /\ notified_sampling_started \in BOOLEAN
    /\ sample_timer \in Nat
    /\ netints \subseteq Netints
    /\ sp_current \subseteq Netints
    /\ sp_future \subseteq Netints
    /\ since_tick \in 0..MaxTickDelay
    /\ app_sampling \in BOOLEAN
    /\ lost \subseteq Sources

IInv == Core /\ Misc

\* The invariant gives the properties.
LEMMA InvImplies ==
    IInv => TypeOK /\ TermSetsOK /\ OfflineAreSilent /\ AppHoldsTracked
<1> SUFFICES ASSUME IInv
             PROVE  TypeOK /\ TermSetsOK /\ OfflineAreSilent /\ AppHoldsTracked
  OBVIOUS
<1>1. Past(sources) = {s \in Tracked : ~IsWaiting(s)}
  BY DEF Past, IsWaiting, Tracked
<1>2. TermSetsOK
  BY <1>1 DEF IInv, Core, SetsFit, Sound, TermSetsOK
<1>3. OfflineAreSilent
  BY DEF IInv, Core, SetsFit, Silent, IsExpired, OfflineAreSilent
<1>4. AppHoldsTracked
  BY <1>1 DEF IInv, Core, AppFits, AppHoldsTracked, Tracked
<1>5. reported \subseteq Sources /\ pap_held \subseteq Sources
  BY DEF IInv, Core, AppFits, IsTable, Past
<1>6. TypeOK
  BY <1>5 DEF IInv, Core, Misc, IsTable, SetsFit, Sound, TypeOK, Tracked
<1> QED
  BY <1>2, <1>3, <1>4, <1>6
-----------------------------------------------------------------------------
(***************************************************************************)
(* Changes of the entries of sources.                                      *)
(***************************************************************************)

\* An entry is replaced by one that is past the PAP wait if it was, and silent
\* if it was.
Keeps(old, new) ==
    /\ new \in TrackedSource
    /\ new.recv_state = Waiting => old.recv_state = Waiting
    /\ Silent(old) => Silent(new)

\* Larger sets of possible members.
LEMMA SoundMono ==
    ASSUME NEW M, NEW M2, M \subseteq M2, NEW T, Sound(T, M)
    PROVE  Sound(T, M2)
BY DEF Sound

\* Replacing entries keeps the termination sets in order.
LEMMA MapSetsFit ==
    ASSUME NEW S, IsTable(S), NEW T, SetsFit(S, T),
           NEW S2, DOMAIN S2 = DOMAIN S, IsTable(S2),
           \A s \in DOMAIN S : Keeps(S[s], S2[s])
    PROVE  SetsFit(S2, T)
<1>1. Past(S) \subseteq Past(S2)
  BY DEF Past, Keeps
<1>2. Sound(T, Past(S2))
  BY <1>1, SoundMono DEF SetsFit
<1>3. ASSUME NEW t \in T, NEW s \in t.offline PROVE Silent(S2[s])
  <2>1. s \in DOMAIN S /\ Silent(S[s])
    BY DEF SetsFit, Sound, Past
  <2> QED
    BY <2>1 DEF Keeps
<1> QED
  BY <1>2, <1>3 DEF SetsFit

\* Replacing entries keeps what the application holds.
LEMMA MapAppFits ==
    ASSUME NEW S, NEW rep, NEW pap, AppFits(S, rep, pap),
           NEW S2, DOMAIN S2 = DOMAIN S,
           \A s \in DOMAIN S : S2[s].recv_state = S[s].recv_state
    PROVE  AppFits(S2, rep, pap)
BY DEF AppFits, Past

\* A packet of one tracked source replaces its entry and may add it to what the
\* application holds.
LEMMA PacketCore ==
    ASSUME Core, NEW s \in Tracked, NEW new, Keeps(sources[s], new),
           SetSource(s, new), term_sets' = term_sets,
           reported' \subseteq reported \cup {s},
           s \in reported' => new.recv_state # Waiting,
           pap_held' \subseteq pap_held \cup {s},
           s \in pap_held' => new.recv_state \in {PapOnly, DmxAndPap}
    PROVE  Core'
<1> DEFINE S == [sources EXCEPT ![s] = new]
<1>1. sources' = S
  BY DEF SetSource
<1>2. /\ DOMAIN S = DOMAIN sources /\ S[s] = new /\ s \in DOMAIN sources
      /\ \A x \in DOMAIN sources \ {s} : S[x] = sources[x]
  BY DEF Tracked
<1>3. IsTable(S)
  <2>1. new \in TrackedSource /\ sources \in [DOMAIN sources -> TrackedSource]
    BY DEF Keeps, Core, IsTable
  <2>2. S \in [DOMAIN sources -> TrackedSource]
    BY <2>1
  <2> QED
    BY <1>2, <2>2 DEF Core, IsTable
<1> HIDE DEF S
<1>4. \A x \in DOMAIN sources : Keeps(sources[x], S[x])
  <2>1. \A x \in DOMAIN sources : sources[x] \in TrackedSource
    BY DEF Core, IsTable
  <2>2. \A x \in DOMAIN sources : Keeps(sources[x], sources[x])
    BY <2>1 DEF Keeps
  <2> QED
    BY <1>2, <2>2
<1>5. SetsFit(S, term_sets)
  BY <1>2, <1>3, <1>4, MapSetsFit DEF Core
<1>6. reported' \subseteq Past(S)
  <2>1. reported \subseteq Past(sources)
    BY DEF Core, AppFits
  <2> QED
    BY <1>2, <2>1 DEF Past
<1>7. \A x \in pap_held' :
         x \in DOMAIN S /\ S[x].recv_state \in {PapOnly, DmxAndPap}
  BY <1>2 DEF Core, AppFits
<1> QED
  BY <1>1, <1>3, <1>5, <1>6, <1>7 DEF Core, AppFits
-----------------------------------------------------------------------------
(***************************************************************************)
(* Packets.                                                                *)
(***************************************************************************)

\* The four receive states are different.
LEMMA DistinctStates ==
    /\ Waiting # PapOnly /\ Waiting # DmxOnly /\ Waiting # DmxAndPap
    /\ PapOnly # DmxOnly /\ PapOnly # DmxAndPap /\ DmxOnly # DmxAndPap
    /\ RecvStates = {Waiting, DmxOnly, PapOnly, DmxAndPap}
BY DEF Waiting, PapOnly, DmxOnly, DmxAndPap, RecvStates

\* The interface of a packet is entered first.
LEMMA OnKeeps ==
    ASSUME Core, NEW s \in Tracked, NEW n \in Netints
    PROVE  /\ On(s, n) \in TrackedSource
           /\ Keeps(sources[s], On(s, n))
           /\ On(s, n).recv_state = sources[s].recv_state
<1>1. sources[s] \in TrackedSource
  BY DEF Core, IsTable, Tracked
<1>2. /\ On(s, n) \in TrackedSource
      /\ On(s, n).recv_state = sources[s].recv_state
      /\ On(s, n).packet_timer = sources[s].packet_timer
      /\ On(s, n).dmx_received = sources[s].dmx_received
  BY <1>1 DEF On, TrackedSource
<1> QED
  BY <1>2 DEF Keeps, Silent

\* A terminated source is silent and keeps its receive state.
LEMMA TerminatedKeeps ==
    ASSUME NEW old, NEW src \in TrackedSource, Keeps(old, src)
    PROVE  Keeps(old, Terminated(src))
             /\ Terminated(src).recv_state = src.recv_state
<1>1. /\ Terminated(src) \in TrackedSource
      /\ Terminated(src).recv_state = src.recv_state
      /\ Terminated(src).packet_timer = 0
  BY DEF Terminated, TrackedSource
<1> QED
  BY <1>1 DEF Keeps, Silent

\* NULL start code data: the source is heard, and past the PAP wait unless the
\* wait is not over yet.
LEMMA DmxKeeps ==
    ASSUME NEW old, NEW src \in TrackedSource, Keeps(old, src)
    PROVE  /\ Keeps(old, SourceAfterDmx(src))
           /\ SourceAfterDmx(src).recv_state = StateAfterDmx(src)
           /\ StateAfterDmx(src) = Waiting
                => src.recv_state = Waiting /\ src.pap_timer > 0
           /\ src.recv_state \in {PapOnly, DmxAndPap}
                => \/ StateAfterDmx(src) = DmxAndPap
                   \/ src.recv_state = DmxAndPap /\ src.pap_timer = 0
<1> DEFINE new == SourceAfterDmx(src)
<1>1. /\ src.recv_state \in RecvStates /\ src.pap_timer \in Nat
      /\ src.pap_interval \in Nat /\ LossTimeout \in Nat
  BY ReceiverAssumption DEF TrackedSource
<1>2. StateAfterDmx(src) \in RecvStates
  BY <1>1, DistinctStates DEF StateAfterDmx
<1>3. /\ StateAfterDmx(src) = Waiting
           => src.recv_state = Waiting /\ src.pap_timer > 0
      /\ src.recv_state \in {PapOnly, DmxAndPap}
           => \/ StateAfterDmx(src) = DmxAndPap
              \/ src.recv_state = DmxAndPap /\ src.pap_timer = 0
  BY <1>1, DistinctStates DEF StateAfterDmx
<1>4. /\ new \in TrackedSource
      /\ new.recv_state = StateAfterDmx(src)
      /\ new.dmx_received = TRUE
  BY <1>1, <1>2 DEF SourceAfterDmx, TrackedSource
<1>5. Silent(new)
  BY <1>4 DEF Silent
<1> QED
  BY <1>3, <1>4, <1>5 DEF Keeps

\* A PAP packet: the source is past the PAP wait, with priorities.
LEMMA PapKeeps ==
    ASSUME NEW old, NEW src \in TrackedSource, Keeps(old, src)
    PROVE  /\ Keeps(old, SourceAfterPap(src))
           /\ SourceAfterPap(src).recv_state \in {PapOnly, DmxAndPap}
<1> DEFINE new == SourceAfterPap(src)
<1>1. /\ src.recv_state \in RecvStates /\ src.pap_interval \in Nat
      /\ LossTimeout \in Nat
  BY ReceiverAssumption DEF TrackedSource
<1>2. /\ new \in TrackedSource
      /\ new.recv_state \in {PapOnly, DmxAndPap}
      /\ new.packet_timer = src.packet_timer
      /\ new.dmx_received = src.dmx_received
  BY <1>1, DistinctStates DEF SourceAfterPap, TrackedSource
<1> QED
  BY <1>2, DistinctStates DEF Keeps, Silent

\* A termination ends the packet timer only, in every receive state.
LEMMA TerminatedPacketStep ==
    ASSUME Core, NEW s \in Sources, NEW n \in Netints, NEW term \in BOOLEAN,
           TerminatedPacket(s, n, term)
    PROVE  Core'
<1> DEFINE new == IF term THEN Terminated(On(s, n)) ELSE On(s, n)
<1>1. /\ s \in Tracked /\ SetSource(s, new) /\ term_sets' = term_sets
      /\ reported' = reported /\ pap_held' = pap_held
  BY DEF TerminatedPacket, Accepts
<1>2. Keeps(sources[s], new) /\ new.recv_state = sources[s].recv_state
  BY <1>1, OnKeeps, TerminatedKeeps
<1> HIDE DEF new
<1>3. /\ s \in reported => sources[s].recv_state # Waiting
      /\ s \in pap_held => sources[s].recv_state \in {PapOnly, DmxAndPap}
  BY DEF Core, AppFits, Past
<1> QED
  BY <1>1, <1>2, <1>3, PacketCore

\* A packet that only moves the source keeps the invariant.
LEMMA OutOfSequenceOrOtherStep ==
    ASSUME Core, NEW s \in Sources, NEW n \in Netints, OutOfSequenceOrOther(s, n)
    PROVE  Core'
<1>1. /\ s \in Tracked /\ SetSource(s, On(s, n)) /\ term_sets' = term_sets
      /\ reported' = reported /\ pap_held' = pap_held
  BY DEF OutOfSequenceOrOther, Accepts
<1>2. Keeps(sources[s], On(s, n)) /\ On(s, n).recv_state = sources[s].recv_state
  BY <1>1, OnKeeps
<1>3. /\ s \in reported => sources[s].recv_state # Waiting
      /\ s \in pap_held => sources[s].recv_state \in {PapOnly, DmxAndPap}
  BY DEF Core, AppFits, Past
<1> QED
  BY <1>1, <1>2, <1>3, PacketCore

\* NULL start code data restarts the packet timer and marks the source as
\* heard.
LEMMA NullStartCodeStep ==
    ASSUME Core, NEW s \in Sources, NEW n \in Netints, NEW preview \in BOOLEAN,
           NullStartCode(s, n, preview)
    PROVE  Core'
<1> DEFINE src == On(s, n)
           new == SourceAfterDmx(src)
           held == src.recv_state = Waiting /\ src.pap_timer > 0
           pap_lost == src.recv_state = DmxAndPap /\ src.pap_timer = 0
<1>1. /\ s \in Tracked /\ SetSource(s, new) /\ term_sets' = term_sets
      /\ IF held THEN reported' = reported ELSE Report(s, preview)
      /\ pap_held' = IF pap_lost THEN pap_held \ {s} ELSE pap_held
  BY DEF NullStartCode, Accepts
<1>2. /\ src \in TrackedSource /\ Keeps(sources[s], src)
      /\ src.recv_state = sources[s].recv_state
  BY <1>1, OnKeeps
<1>3. /\ s \in reported => sources[s].recv_state # Waiting
      /\ s \in pap_held => sources[s].recv_state \in {PapOnly, DmxAndPap}
  BY DEF Core, AppFits, Past
<1> HIDE DEF src
<1>4. /\ Keeps(sources[s], new)
      /\ new.recv_state = Waiting => held
      /\ src.recv_state \in {PapOnly, DmxAndPap}
           => new.recv_state = DmxAndPap \/ pap_lost
  BY <1>2, DmxKeeps
<1> HIDE DEF new
<1>5. reported' \subseteq reported \cup {s}
  BY <1>1 DEF Report
<1>6. s \in reported' => new.recv_state # Waiting
  <2>1. CASE held
    BY <1>1, <1>2, <1>3, <2>1
  <2>2. CASE ~held
    BY <1>4, <2>2
  <2> QED
    BY <2>1, <2>2
<1>7. s \in pap_held' => new.recv_state \in {PapOnly, DmxAndPap}
  BY <1>1, <1>2, <1>3, <1>4
<1>8. pap_held' \subseteq pap_held \cup {s}
  BY <1>1
<1> QED
  BY <1>1, <1>4, <1>5, <1>6, <1>7, <1>8, PacketCore

\* Priorities bring the source past the PAP wait, with its priorities reported.
LEMMA PapPacketStep ==
    ASSUME Core, NEW s \in Sources, NEW n \in Netints, NEW preview \in BOOLEAN,
           PapPacket(s, n, preview)
    PROVE  Core'
<1> DEFINE src == On(s, n)
           new == SourceAfterPap(src)
<1>1. /\ s \in Tracked /\ SetSource(s, new) /\ term_sets' = term_sets
      /\ reported' \subseteq reported \cup {s}
      /\ pap_held' \subseteq pap_held \cup {s}
  BY DEF PapPacket, Accepts, Report, ReportPap
<1>2. src \in TrackedSource /\ Keeps(sources[s], src)
  BY <1>1, OnKeeps
<1> HIDE DEF src
<1>3. Keeps(sources[s], new) /\ new.recv_state \in {PapOnly, DmxAndPap}
  BY <1>2, PapKeeps
<1>4. new.recv_state # Waiting
  BY <1>3, DistinctStates
<1> HIDE DEF new
<1> QED
  BY <1>1, <1>3, <1>4, PacketCore

\* A new source is in no termination set yet, and the application is told of it
\* only if it is past the PAP wait.
LEMMA NewSourceStep ==
    ASSUME Core, Misc, NEW s \in Sources, NEW n \in Netints,
           NEW sc \in StartCodes, NEW preview \in BOOLEAN,
           NewSource(s, n, sc, preview)
    PROVE  Core'
<1> DEFINE new == NewTrackedSource(sc, n)
           S == [x \in Tracked \cup {s} |-> IF x = s THEN new ELSE sources[x]]
<1>1. /\ s \notin Tracked /\ sc \in {Dmx, Pap}
      /\ sources' = S /\ term_sets' = term_sets
      /\ IF sc = Pap \/ sampling THEN Report(s, preview) ELSE reported' = reported
      /\ IF sc = Pap THEN ReportPap(s, preview) ELSE pap_held' = pap_held
  BY DEF NewSource, Considers
<1>2. /\ new \in TrackedSource
      /\ sc = Pap => new.recv_state = PapOnly
      /\ sc # Pap /\ sampling => new.recv_state = DmxOnly
  <2>1. /\ WaitForPriority \in Nat /\ LossTimeout \in Nat
    BY ReceiverAssumption
  <2>2. sampling \in BOOLEAN
    BY DEF Misc
  <2> DEFINE pap_time == CASE ~sampling             -> WaitForPriority
                           [] sampling /\ sc = Pap  -> LossTimeout
                           [] OTHER                 -> 0
             state == CASE sc = Pap -> PapOnly
                        [] sc # Pap /\ sampling -> DmxOnly
                        [] OTHER -> Waiting
  <2>3. new = [recv_state |-> state, packet_timer |-> LossTimeout,
               pap_timer |-> pap_time, pap_interval |-> pap_time,
               terminated |-> FALSE, dmx_received |-> TRUE, netint |-> n]
    BY DEF NewTrackedSource
  <2>4. pap_time \in Nat
    BY <2>1, <2>2
  <2>5. /\ state \in RecvStates
        /\ sc = Pap => state = PapOnly
        /\ sc # Pap /\ sampling => state = DmxOnly
    BY <2>2, DistinctStates
  <2> HIDE DEF pap_time, state
  <2> QED
    BY <2>1, <2>3, <2>4, <2>5 DEF TrackedSource
<1> HIDE DEF new
<1>3. /\ DOMAIN S = Tracked \cup {s} /\ S[s] = new
      /\ \A x \in Tracked : S[x] = sources[x]
  BY <1>1
<1>4. IsTable(S)
  <2>1. S \in [Tracked \cup {s} -> TrackedSource]
    BY <1>2 DEF Core, IsTable, Tracked
  <2> HIDE DEF S
  <2> QED
    BY <1>3, <2>1 DEF Core, IsTable, Tracked
<1> HIDE DEF S
<1>5. Past(sources) \subseteq Past(S) /\ Past(S) \subseteq Past(sources) \cup {s}
  BY <1>3 DEF Past, Tracked
<1>6. SetsFit(S, term_sets)
  <2>1. Sound(term_sets, Past(S))
    BY <1>5, SoundMono DEF Core, SetsFit
  <2>2. ASSUME NEW t \in term_sets, NEW x \in t.offline PROVE Silent(S[x])
    <3>1. x \in Tracked /\ Silent(sources[x])
      BY DEF Core, SetsFit, Sound, Past, Tracked
    <3> QED
      BY <1>3, <3>1
  <2> QED
    BY <2>1, <2>2 DEF SetsFit
<1>7. AppFits(S, reported', pap_held')
  <2>1. reported' \subseteq Past(S)
    <3>1. reported \subseteq Past(S)
      BY <1>5 DEF Core, AppFits
    <3>2. CASE sc = Pap \/ sampling
      <4>1. new.recv_state # Waiting
        BY <1>2, <3>2, DistinctStates
      <4>2. s \in Past(S)
        BY <1>3, <4>1 DEF Past
      <4> QED
        BY <1>1, <3>1, <3>2, <4>2 DEF Report
    <3>3. CASE ~(sc = Pap \/ sampling)
      BY <1>1, <3>1, <3>3
    <3> QED
      BY <3>2, <3>3
  <2>2. ASSUME NEW x \in pap_held'
        PROVE  x \in DOMAIN S /\ S[x].recv_state \in {PapOnly, DmxAndPap}
    <3>1. CASE x \in pap_held
      BY <1>3, <3>1 DEF Core, AppFits, Tracked
    <3>2. CASE x \notin pap_held
      <4>1. sc = Pap /\ x = s
        BY <1>1, <3>2 DEF ReportPap
      <4> QED
        BY <1>2, <1>3, <4>1
    <3> QED
      BY <3>1, <3>2
  <2> QED
    BY <2>1, <2>2 DEF AppFits
<1> QED
  BY <1>1, <1>4, <1>6, <1>7 DEF Core
-----------------------------------------------------------------------------
(***************************************************************************)
(* The periodic tick.                                                      *)
(***************************************************************************)

\* The tick sorts the tracked sources.
LEMMA TickSorts ==
    ASSUME Core
    PROVE  /\ OfflineSources \subseteq Past(sources)
           /\ OnlineSources \subseteq Past(sources)
           /\ UnknownSources \subseteq Past(sources)
           /\ OfflineSources \cap UnknownSources = {}
           /\ ToErase \cap Past(sources) = {}
           /\ \A s \in Past(sources) :
                 Silent(sources[s]) => IsExpired(s) \/ s \in OnlineSources
           /\ \A s \in OfflineSources : IsExpired(s)
BY DEF OfflineSources, OnlineSources, UnknownSources, ToErase, Past, Silent,
       IsWaiting, IsExpired, Tracked

\* After the status of the sources has been entered, the sources that are marked
\* offline in a termination set are those that are silent at this tick.
LEMMA TickSets ==
    ASSUME Core, Misc, NEW first
    PROVE  LET T == TermSetsAtTick(first)
           IN  /\ Sound(T, Past(sources) \ OnlineSources)
               /\ \A t \in T : \A s \in t.offline : s \in Tracked /\ IsExpired(s)
<1> DEFINE M == Past(sources)
           R == MarkSourcesOffline(term_sets, OfflineSources, TerminatedSources,
                                   UnknownSources, first, expired_wait)
           T == TermSetsAtTick(first)
<1>1. M \in SUBSET Sources
  BY DEF Core, IsTable, Past
<1>2. expired_wait \in Nat
  BY ReceiverAssumption DEF Misc
<1>3. Sound(term_sets, M)
  BY DEF Core, SetsFit
<1>4. OfflineSources \in SUBSET M /\ UnknownSources \in SUBSET M
        /\ OfflineSources \cap UnknownSources = {}
  BY TickSorts
<1> HIDE DEF M
<1>5. Sound(R, M) /\ MarkedFrom(R, term_sets, OfflineSources)
  BY ONLY <1>1, <1>2, <1>3, <1>4, MarkOfflineSound
<1> HIDE DEF R
<1>6. /\ Sound(T, M \ OnlineSources)
      /\ \A t \in T : \A s \in t.offline :
            s \notin OnlineSources /\ \E r \in R : s \in r.offline
  <2>1. T = MarkSourcesOnline(R, OnlineSources)
    BY DEF TermSetsAtTick, R
  <2>2. Sound(R, M)
    BY <1>5
  <2> HIDE DEF T
  <2> QED
    BY <2>1, <2>2, MarkOnlineSound
<1> HIDE DEF T
<1>7. ASSUME NEW t \in T, NEW s \in t.offline
      PROVE  s \in Tracked /\ IsExpired(s)
  <2>1. s \notin OnlineSources /\ s \in M
    BY <1>6 DEF Sound
  <2>2. s \in OfflineSources \/ \E u \in term_sets : s \in u.offline
    BY <1>5, <1>6 DEF MarkedFrom
  <2>3. CASE s \in OfflineSources
    BY <2>3, TickSorts DEF OfflineSources
  <2>4. CASE \E u \in term_sets : s \in u.offline
    <3>1. Silent(sources[s])
      BY <2>4 DEF Core, SetsFit
    <3> QED
      BY <2>1, <3>1, TickSorts DEF M, Past, Tracked
  <2> QED
    BY <2>2, <2>3, <2>4
<1> QED
  BY <1>6, <1>7 DEF M, T

\* A tick removes what it reports lost from the sources and from the
\* termination sets together.
LEMMA TickStep ==
    ASSUME Core, Misc, NEW first, ProcessReceiverSources(first)
    PROVE  /\ Core'
           /\ lost' \subseteq Sources
           /\ \A s \in lost' : s \in Tracked /\ IsExpired(s) /\ s \notin Tracked'
<1> DEFINE T == TermSetsAtTick(first)
           left == T \ ExpiredTermSets(T)
           gone == ExpiredSources(T) \cup ToErase
           S == [s \in Tracked \ gone |->
                   IF s \in OnlineSources
                     THEN [sources[s] EXCEPT !.dmx_received = FALSE]
                     ELSE sources[s]]
<1>1. /\ term_sets' = left /\ lost' = ExpiredSources(T) /\ sources' = S
      /\ reported' = reported \ ExpiredSources(T)
      /\ pap_held' = pap_held \ ExpiredSources(T)
  BY DEF ProcessReceiverSources
<1>2. /\ Sound(T, Past(sources) \ OnlineSources)
      /\ \A t \in T : \A s \in t.offline : s \in Tracked /\ IsExpired(s)
  BY TickSets
<1> HIDE DEF T
<1>3. /\ Sound(left, (Past(sources) \ OnlineSources) \ ExpiredSources(T))
      /\ ExpiredSources(T) \subseteq Past(sources) \ OnlineSources
      /\ \A s \in ExpiredSources(T) : \E t \in T : s \in t.offline
  BY <1>2, ExpiredLeave
<1>4. /\ DOMAIN S = Tracked \ gone
      /\ \A s \in Tracked \ gone :
            /\ S[s] \in TrackedSource
            /\ S[s].recv_state = sources[s].recv_state
            /\ S[s].packet_timer = sources[s].packet_timer
            /\ s \notin OnlineSources => S[s] = sources[s]
  <2>1. \A s \in Tracked : sources[s] \in TrackedSource
    BY DEF Core, IsTable, Tracked
  <2>2. ASSUME NEW s \in Tracked
        PROVE  LET new == [sources[s] EXCEPT !.dmx_received = FALSE]
               IN  /\ new \in TrackedSource
                   /\ new.recv_state = sources[s].recv_state
                   /\ new.packet_timer = sources[s].packet_timer
    BY <2>1 DEF TrackedSource
  <2> QED
    BY <2>1, <2>2
<1>5. S \in [Tracked \ gone -> TrackedSource]
  <2>1. S = [s \in Tracked \ gone |-> S[s]]
    OBVIOUS
  <2> HIDE DEF S
  <2> QED
    BY <1>4, <2>1
<1> HIDE DEF S
<1>6. IsTable(S)
  BY <1>4, <1>5 DEF Core, IsTable, Tracked
<1>7. Past(S) = Past(sources) \ gone
  BY <1>4 DEF Past, Tracked
<1>8. ToErase \cap Past(sources) = {}
  BY TickSorts
<1>9. SetsFit(S, left)
  <2>1. (Past(sources) \ OnlineSources) \ ExpiredSources(T) \subseteq Past(S)
    BY <1>7, <1>8
  <2>2. Sound(left, Past(S))
    BY <1>3, <2>1, SoundMono
  <2>3. ASSUME NEW t \in left, NEW s \in t.offline PROVE Silent(S[s])
    <3>1. IsExpired(s)
      BY <1>2
    <3>2. s \in Past(S)
      BY <2>2 DEF Sound
    <3>3. s \in Tracked \ gone
      BY <1>4, <3>2 DEF Past
    <3> QED
      BY <1>4, <3>1, <3>3 DEF Silent, IsExpired
  <2> QED
    BY <2>2, <2>3 DEF SetsFit
<1>10. AppFits(S, reported', pap_held')
  <2>1. reported \subseteq Past(sources)
    BY DEF Core, AppFits
  <2>2. reported' \subseteq Past(S)
    BY <1>1, <1>7, <1>8, <2>1
  <2>3. ASSUME NEW s \in pap_held'
        PROVE  s \in DOMAIN S /\ S[s].recv_state \in {PapOnly, DmxAndPap}
    <3>1. s \in Tracked /\ sources[s].recv_state \in {PapOnly, DmxAndPap}
      BY <1>1 DEF Core, AppFits, Tracked
    <3>2. s \in Past(sources)
      BY <3>1, DistinctStates DEF Past, Tracked
    <3>3. s \in Tracked \ gone
      BY <1>1, <1>8, <3>1, <3>2
    <3> QED
      BY <1>4, <3>1, <3>3
  <2> QED
    BY <2>2, <2>3 DEF AppFits
<1>11. Core'
  BY <1>1, <1>6, <1>9, <1>10 DEF Core
<1>12. \A s \in lost' :
          s \in Sources /\ s \in Tracked /\ IsExpired(s) /\ s \notin Tracked'
  BY <1>1, <1>2, <1>3, <1>4 DEF Core, IsTable, Tracked
<1> QED
  BY <1>11, <1>12
-----------------------------------------------------------------------------
(***************************************************************************)
(* Time and the application's calls.                                       *)
(***************************************************************************)

\* A timer stays a natural number, and stays expired.
LEMMA AgeType == \A t \in Nat : Age(t) \in Nat /\ (t = 0 => Age(t) = 0)
BY DEF Age

\* The wait of a termination set is all that time changes of it.
LEMMA AgedSetsFit ==
    ASSUME NEW S, NEW T, SetsFit(S, T)
    PROVE  SetsFit(S, {[t EXCEPT !.wait = Age(@)] : t \in T})
<1> DEFINE aged(t) == [t EXCEPT !.wait = Age(@)]
           R == {aged(t) : t \in T}
<1>1. ASSUME NEW t \in T
      PROVE  /\ aged(t) \in TerminationSet
             /\ aged(t).members = t.members
             /\ aged(t).offline = t.offline
             /\ aged(t).terminated = t.terminated
  <2>1. t \in TerminationSet
    BY DEF SetsFit, Sound
  <2>2. Age(t.wait) \in Nat
    BY <2>1, AgeType DEF TerminationSet
  <2> QED
    BY <2>1, <2>2 DEF TerminationSet
<1>2. Sound(T, Past(S)) /\ \A t \in T : \A s \in t.offline : Silent(S[s])
  BY DEF SetsFit
<1> HIDE DEF aged
<1>3. R \subseteq TerminationSet
  BY <1>1
<1>4. ASSUME NEW r \in R
      PROVE  /\ r.members # {}
             /\ r.offline \subseteq r.members
             /\ r.terminated \subseteq r.offline
             /\ r.members \subseteq Past(S)
             /\ \A s \in r.offline : Silent(S[s])
             /\ \A q \in R : q = r \/ q.members \cap r.members = {}
  <2>1. PICK t \in T : r = aged(t)
    OBVIOUS
  <2>2. ASSUME NEW q \in R PROVE q = r \/ q.members \cap r.members = {}
    <3>1. PICK u \in T : q = aged(u)
      OBVIOUS
    <3>2. u = t \/ u.members \cap t.members = {}
      BY <1>2 DEF Sound
    <3> QED
      BY <1>1, <2>1, <3>1, <3>2
  <2> QED
    BY <1>1, <1>2, <2>1, <2>2 DEF Sound
<1>5. SetsFit(S, R)
  BY <1>3, <1>4 DEF SetsFit, Sound
<1> QED
  BY <1>5 DEF aged

\* The passing of time keeps the invariant: timers only run down.
LEMMA ElapseStep ==
    ASSUME Core, Elapse
    PROVE  Core'
<1> DEFINE older(src) == [src EXCEPT !.packet_timer = Age(@),
                                     !.pap_timer = Age(@)]
           S == [s \in Tracked |-> older(sources[s])]
           T == {[t EXCEPT !.wait = Age(@)] : t \in term_sets}
<1>1. /\ sources' = S /\ term_sets' = T
      /\ reported' = reported /\ pap_held' = pap_held
  BY DEF Elapse
<1>2. ASSUME NEW s \in Tracked
      PROVE  /\ Keeps(sources[s], older(sources[s]))
             /\ older(sources[s]).recv_state = sources[s].recv_state
  <2> DEFINE src == sources[s]
  <2>1. src \in TrackedSource
    BY DEF Core, IsTable, Tracked
  <2> HIDE DEF src
  <2>2. /\ Age(src.packet_timer) \in Nat /\ Age(src.pap_timer) \in Nat
        /\ src.packet_timer = 0 => Age(src.packet_timer) = 0
    BY <2>1, AgeType DEF TrackedSource
  <2>3. /\ older(src) \in TrackedSource
        /\ older(src).recv_state = src.recv_state
        /\ older(src).packet_timer = Age(src.packet_timer)
        /\ older(src).dmx_received = src.dmx_received
    BY <2>1, <2>2 DEF TrackedSource
  <2>4. Keeps(src, older(src))
    BY <2>2, <2>3 DEF Keeps, Silent
  <2> QED
    BY <2>3, <2>4 DEF src
<1> HIDE DEF older
<1>3. /\ DOMAIN S = DOMAIN sources
      /\ \A s \in DOMAIN sources :
            Keeps(sources[s], S[s]) /\ S[s].recv_state = sources[s].recv_state
  BY <1>2 DEF Tracked
<1>4. IsTable(S)
  <2>1. S \in [Tracked -> TrackedSource]
    BY <1>2 DEF Keeps
  <2> QED
    BY <1>3, <2>1 DEF Core, IsTable, Tracked
<1> HIDE DEF S
<1>5. SetsFit(S, T)
  <2>1. SetsFit(S, term_sets)
    BY <1>3, <1>4, MapSetsFit DEF Core
  <2> QED
    BY <2>1, AgedSetsFit
<1>6. AppFits(S, reported, pap_held)
  BY <1>3, MapAppFits DEF Core
<1> QED
  BY <1>1, <1>4, <1>5, <1>6 DEF Core

\* A change of universe leaves no source and no termination set.
LEMMA ChangeUniverseStep ==
    ASSUME ChangeUniverse
    PROVE  Core'
<1>1. /\ DOMAIN sources' = {} /\ term_sets' = {}
      /\ reported' = {} /\ pap_held' = {}
  BY DEF ChangeUniverse
<1>2. IsTable(sources')
  BY <1>1 DEF ChangeUniverse, IsTable
<1>3. SetsFit(sources', {}) /\ AppFits(sources', {}, {})
  BY DEF SetsFit, Sound, AppFits
<1> QED
  BY <1>1, <1>2, <1>3 DEF Core

\* A networking reset terminates sources and forgets none.
LEMMA ResetNetworkingStep ==
    ASSUME Core, NEW listed, NEW usable, ResetNetworking(listed, usable)
    PROVE  Core'
<1> DEFINE S == [s \in Tracked |->
                   IF sources[s].netint \in usable
                     THEN sources[s] ELSE Terminated(sources[s])]
<1>1. /\ sources' = S /\ term_sets' = term_sets
      /\ reported' = reported /\ pap_held' = pap_held
  BY DEF ResetNetworking, TerminateSourcesNotOn
<1>2. ASSUME NEW s \in Tracked
      PROVE  /\ Keeps(sources[s], S[s])
             /\ S[s].recv_state = sources[s].recv_state
  <2>1. sources[s] \in TrackedSource
    BY DEF Core, IsTable, Tracked
  <2>2. Keeps(sources[s], sources[s])
    BY <2>1 DEF Keeps
  <2> QED
    BY <2>1, <2>2, TerminatedKeeps
<1>3. /\ DOMAIN S = DOMAIN sources
      /\ \A s \in DOMAIN sources :
            Keeps(sources[s], S[s]) /\ S[s].recv_state = sources[s].recv_state
  BY <1>2 DEF Tracked
<1>4. IsTable(S)
  <2>1. S = [s \in Tracked |-> S[s]]
    OBVIOUS
  <2> HIDE DEF S
  <2>2. S \in [Tracked -> TrackedSource]
    BY <1>2, <2>1 DEF Keeps
  <2> QED
    BY <1>3, <2>2 DEF Core, IsTable, Tracked
<1> HIDE DEF S
<1>5. SetsFit(S, term_sets)
  BY <1>3, <1>4, MapSetsFit DEF Core
<1>6. AppFits(S, reported, pap_held)
  BY <1>3, MapAppFits DEF Core
<1> QED
  BY <1>1, <1>4, <1>5, <1>6 DEF Core
-----------------------------------------------------------------------------
(***************************************************************************)
(* The theorems.                                                           *)
(***************************************************************************)

\* A new receiver satisfies the inductive invariant.
LEMMA InitInv == Init => IInv
<1> SUFFICES ASSUME Init PROVE IInv
  OBVIOUS
<1>1. DOMAIN sources = {} /\ IsTable(sources)
  BY DEF Init, IsTable
<1>2. SetsFit(sources, term_sets) /\ AppFits(sources, reported, pap_held)
  BY DEF Init, SetsFit, Sound, AppFits
<1>3. Misc
  <2>1. SampleTime \in Nat /\ 0 \in 0..MaxTickDelay
    BY ReceiverAssumption
  <2>2. netints \subseteq Netints
    BY DEF Init
  <2> QED
    BY <2>1, <2>2 DEF Init, Misc
<1> QED
  BY <1>1, <1>2, <1>3 DEF IInv, Core

\* Every packet preserves the inductive invariant.
LEMMA DataPacketStep ==
    ASSUME IInv, NEW s \in Sources, DataPacket(s)
    PROVE  Core'
<1> USE DEF IInv
<1>1. PICK n \in Netints :
         \/ \E term \in BOOLEAN : TerminatedPacket(s, n, term)
         \/ OutOfSequenceOrOther(s, n)
         \/ Dmx \in StartCodes /\ \E p \in BOOLEAN : NullStartCode(s, n, p)
         \/ Pap \in StartCodes /\ \E p \in BOOLEAN : PapPacket(s, n, p)
         \/ \E sc \in StartCodes :
               \/ \E p \in BOOLEAN : NewSource(s, n, sc, p)
               \/ NoRoomForSource(s, n, sc)
  BY DEF DataPacket
<1>2. ASSUME NEW term \in BOOLEAN, TerminatedPacket(s, n, term) PROVE Core'
  BY <1>2, TerminatedPacketStep
<1>3. CASE OutOfSequenceOrOther(s, n)
  BY <1>3, OutOfSequenceOrOtherStep
<1>4. ASSUME NEW p \in BOOLEAN, NullStartCode(s, n, p) PROVE Core'
  BY <1>4, NullStartCodeStep
<1>5. ASSUME NEW p \in BOOLEAN, PapPacket(s, n, p) PROVE Core'
  BY <1>5, PapPacketStep
<1>6. ASSUME NEW sc \in StartCodes, NEW p \in BOOLEAN, NewSource(s, n, sc, p)
      PROVE  Core'
  BY <1>6, NewSourceStep
<1>7. ASSUME NEW sc \in StartCodes, NoRoomForSource(s, n, sc) PROVE Core'
  <2>1. UNCHANGED <<sources, term_sets, reported, pap_held>>
    BY <1>7 DEF NoRoomForSource
  <2> QED
    BY <2>1 DEF Core
<1> QED
  BY <1>1, <1>2, <1>3, <1>4, <1>5, <1>6, <1>7

\* A packet leaves the sampling period and the wait alone, and reports no loss.
LEMMA DataPacketMisc ==
    ASSUME IInv, NEW s \in Sources, DataPacket(s)
    PROVE  Misc' /\ lost' = {}
<1>1. /\ UNCHANGED <<expired_wait, samplingVars, since_tick>>
      /\ lost' = {}
      /\ \/ suppress_limit_exceeded' = suppress_limit_exceeded
         \/ suppress_limit_exceeded' = TRUE
  BY DEF DataPacket, TerminatedPacket, OutOfSequenceOrOther, NullStartCode,
         PapPacket, NewSource, NoRoomForSource
<1>2. UNCHANGED <<sampling, notified_sampling_started, sample_timer, netints,
                  sp_current, sp_future, app_sampling>>
  BY <1>1 DEF samplingVars
<1> QED
  BY <1>1, <1>2 DEF IInv, Misc

\* The periodic tick preserves the inductive invariant.
LEMMA TickInv ==
    ASSUME IInv, Tick
    PROVE  /\ IInv'
           /\ \A s \in lost' : s \in Tracked /\ IsExpired(s) /\ s \notin Tracked'
<1>1. PICK first : ProcessReceiverSources(first)
  BY DEF Tick
<1>2. /\ Core' /\ lost' \subseteq Sources
      /\ \A s \in lost' : s \in Tracked /\ IsExpired(s) /\ s \notin Tracked'
  BY <1>1, TickStep DEF IInv
<1>3. suppress_limit_exceeded' \in BOOLEAN
  BY <1>1 DEF ProcessReceiverSources
<1>4. /\ sampling' \in BOOLEAN
      /\ notified_sampling_started' \in BOOLEAN
      /\ sample_timer' \in Nat
      /\ netints' \subseteq Netints
      /\ sp_current' \subseteq Netints
      /\ sp_future' \subseteq Netints
      /\ app_sampling' \in BOOLEAN
  <2>1. ProcessSampling /\ SampleTime \in Nat
    BY ReceiverAssumption DEF Tick
  <2>2. app_sampling' \in BOOLEAN
    BY <2>1 DEF ProcessSampling
  <2>3. CASE SamplingEnds
    BY <2>1, <2>2, <2>3 DEF ProcessSampling, EndCurrentSamplingPeriod, IInv, Misc
  <2>4. CASE ~SamplingEnds
    BY <2>1, <2>2, <2>4 DEF ProcessSampling, IInv, Misc
  <2> QED
    BY <2>3, <2>4
<1>5. expired_wait' = expired_wait /\ since_tick' = 0 /\ 0 \in 0..MaxTickDelay
  BY ReceiverAssumption DEF Tick
<1>6. Misc'
  BY <1>2, <1>3, <1>4, <1>5 DEF IInv, Misc
<1> QED
  BY <1>2, <1>6 DEF IInv

\* The passing of time preserves the inductive invariant.
LEMMA ElapseInv ==
    ASSUME IInv, Elapse
    PROVE  IInv' /\ lost' = {}
<1>1. Core'
  BY ElapseStep DEF IInv
<1>2. since_tick' \in 0..MaxTickDelay
  <2>1. /\ since_tick < MaxTickDelay /\ since_tick' = since_tick + 1
        /\ since_tick \in 0..MaxTickDelay /\ MaxTickDelay \in Nat
    BY ReceiverAssumption DEF Elapse, IInv, Misc
  <2> QED
    BY <2>1
<1>3. sample_timer' \in Nat
  BY AgeType DEF Elapse, IInv, Misc
<1>4. /\ UNCHANGED <<expired_wait, suppress_limit_exceeded, sampling,
                     notified_sampling_started, netints, sp_current, sp_future,
                     app_sampling>>
      /\ lost' = {}
  BY DEF Elapse
<1>5. Misc'
  BY <1>2, <1>3, <1>4 DEF IInv, Misc
<1> QED
  BY <1>1, <1>4, <1>5 DEF IInv

\* The application's calls preserve the inductive invariant.
LEMMA AppCallInv ==
    ASSUME IInv, AppCall
    PROVE  IInv' /\ lost' = {}
<1>1. SampleTime \in Nat
  BY ReceiverAssumption
<1>2. CASE ChangeUniverse
  <2>1. Core'
    BY <1>2, ChangeUniverseStep
  <2>2. Misc' /\ lost' = {}
    BY <1>1, <1>2 DEF ChangeUniverse, BeginSamplingPeriod, IInv, Misc
  <2> QED
    BY <2>1, <2>2 DEF IInv
<1>3. ASSUME NEW listed \in SUBSET Netints, NEW usable \in SUBSET listed,
             ResetNetworking(listed, usable)
      PROVE  IInv' /\ lost' = {}
  <2>1. Core'
    BY <1>3, ResetNetworkingStep DEF IInv
  <2>2. sp_current' \subseteq Netints /\ sp_future' \subseteq Netints
    BY <1>3 DEF ResetNetworking, UpdateSamplingPeriodNetints, IInv, Misc
  <2>3. Misc' /\ lost' = {}
    BY <1>1, <1>3, <2>2 DEF ResetNetworking, BeginSamplingPeriod, IInv, Misc
  <2> QED
    BY <2>1, <2>3 DEF IInv
<1>4. ASSUME NEW wait \in ExpiredWaits, SetExpiredWait(wait)
      PROVE  IInv' /\ lost' = {}
  <2>1. /\ UNCHANGED <<sources, term_sets, suppress_limit_exceeded, reported,
                       pap_held, since_tick, sampling, notified_sampling_started,
                       sample_timer, netints, sp_current, sp_future, app_sampling>>
        /\ expired_wait' = wait /\ lost' = {}
    BY <1>4 DEF SetExpiredWait, srcVars, samplingVars
  <2>2. Core'
    BY <2>1 DEF IInv, Core
  <2>3. Misc'
    BY <2>1 DEF IInv, Misc
  <2> QED
    BY <2>1, <2>2, <2>3 DEF IInv
<1> QED
  BY <1>2, <1>3, <1>4 DEF AppCall, NetworkingCall

\* Every step keeps the invariant, and a step that reports sources as lost
\* reports silent sources, which it stops tracking.
LEMMA NextInv ==
    ASSUME IInv, [Next]_vars
    PROVE  /\ IInv'
           /\ \A s \in lost' \ lost :
                 s \in Tracked /\ IsExpired(s) /\ s \notin Tracked'
<1>1. ASSUME NEW s \in Sources, DataPacket(s) PROVE IInv' /\ lost' = {}
  BY <1>1, DataPacketStep, DataPacketMisc DEF IInv
<1>2. CASE Tick
  BY <1>2, TickInv
<1>3. CASE Elapse
  BY <1>3, ElapseInv
<1>4. CASE AppCall
  BY <1>4, AppCallInv
<1>5. CASE UNCHANGED vars
  BY <1>5 DEF vars, srcVars, samplingVars, appVars, IInv, Core, Misc
<1> QED
  BY <1>1, <1>2, <1>3, <1>4, <1>5 DEF Next

\* The inductive invariant holds in every state of a receiver.
LEMMA InvHolds == Spec => []IInv
<1>1. IInv /\ [Next]_vars => IInv'
  BY NextInv
<1> QED
  BY <1>1, InitInv, PTL DEF Spec

\* The receiver's tables and timers keep their types.
THEOREM ReceiverTypes == Spec => []TypeOK
BY InvHolds, InvImplies, PTL

\* Termination sets stay disjoint and keep to tracked sources past the PAP wait
\* (receiver_state.c, process_receiver_sources; source_loss.c): a source is
\* found in one set only and no set refers to a source that has been freed.
THEOREM ReceiverTermSets == Spec => []TermSetsOK
BY InvHolds, InvImplies, PTL

\* What is marked offline in a termination set is silent, or is taken out at the
\* next tick (source_loss.c, mark_sources_online).
THEOREM ReceiverOfflineSilent == Spec => []OfflineAreSilent
BY InvHolds, InvImplies, PTL

\* What the application was told of is still tracked, in a state in which its
\* loss will be reported.
THEOREM ReceiverAppHoldsTracked == Spec => []AppHoldsTracked
BY InvHolds, InvImplies, PTL

\* sources_lost names silent sources, which are tracked up to then and no longer
\* (source_loss.c, get_expired_sources; receiver_state.c,
\* process_receiver_sources).
THEOREM ReceiverLostAreSilent == Spec => LostAreSilent
<1>1. IInv /\ [Next]_vars =>
         [\A s \in lost' \ lost :
             s \in Tracked /\ IsExpired(s) /\ s \notin Tracked']_vars
  BY NextInv
<1> QED
  BY <1>1, InvHolds, PTL DEF Spec, LostAreSilent
-----------------------------------------------------------------------------
(***************************************************************************)
(* The source limit.                                                       *)
(***************************************************************************)

WithinLimit == MaxSources = 0 \/ Cardinality(Tracked) <= MaxSources

\* The suppression is lifted only where there is room.
LiftedWithRoom == suppress_limit_exceeded /\ ~suppress_limit_exceeded' => HasRoom'

\* The tracked sources can be counted.
LEMMA TrackedFinite ==
    ASSUME Core
    PROVE  IsFiniteSet(Tracked) /\ Cardinality(Tracked) \in Nat /\ MaxSources \in Nat
<1>1. IsFiniteSet(Tracked)
  BY FS_Subset, ReceiverAssumption DEF Core, IsTable, Tracked
<1> QED
  BY <1>1, FS_CardinalityType, ReceiverAssumption

\* A step that adds no source keeps the limit, and makes room if a source leaves.
LEMMA FewerTracked ==
    ASSUME Core, WithinLimit, Tracked' \subseteq Tracked
    PROVE  WithinLimit' /\ (Tracked' # Tracked => HasRoom')
<1>1. /\ IsFiniteSet(Tracked) /\ Cardinality(Tracked) \in Nat /\ MaxSources \in Nat
      /\ IsFiniteSet(Tracked') /\ Cardinality(Tracked') \in Nat
      /\ Cardinality(Tracked') <= Cardinality(Tracked)
  BY TrackedFinite, FS_Subset, FS_CardinalityType
<1>2. WithinLimit'
  BY <1>1 DEF WithinLimit
<1>3. ASSUME Tracked' # Tracked PROVE HasRoom'
  <2>1. PICK s \in Tracked : s \notin Tracked'
    BY <1>3
  <2>2. /\ IsFiniteSet(Tracked \ {s})
        /\ Cardinality(Tracked \ {s}) = Cardinality(Tracked) - 1
    BY <1>1, FS_RemoveElement
  <2>3. Tracked' \subseteq Tracked \ {s}
    BY <2>1
  <2>4. Cardinality(Tracked') <= Cardinality(Tracked) - 1
    BY <2>2, <2>3, FS_Subset
  <2> QED
    BY <1>1, <2>4 DEF WithinLimit, HasRoom
<1> QED
  BY <1>2, <1>3

\* A packet adds a source only if there is room, and never lifts the suppression.
LEMMA DataPacketLimit ==
    ASSUME Core, WithinLimit, NEW s \in Sources, DataPacket(s)
    PROVE  WithinLimit' /\ LiftedWithRoom
<1>1. suppress_limit_exceeded' = suppress_limit_exceeded \/ suppress_limit_exceeded'
  BY DEF DataPacket, TerminatedPacket, OutOfSequenceOrOther, NullStartCode,
         PapPacket, NewSource, NoRoomForSource
<1>2. ASSUME Tracked' = Tracked PROVE WithinLimit'
  BY <1>2 DEF WithinLimit
<1>3. ASSUME Tracked' = Tracked \cup {s}, s \notin Tracked, HasRoom
      PROVE  WithinLimit'
  <2>1. Cardinality(Tracked') = Cardinality(Tracked) + 1
    BY <1>3, TrackedFinite, FS_AddElement
  <2> QED
    BY <1>3, <2>1, TrackedFinite DEF HasRoom, WithinLimit
<1>4. \/ Tracked' = Tracked
      \/ Tracked' = Tracked \cup {s} /\ s \notin Tracked /\ HasRoom
  BY DEF DataPacket, TerminatedPacket, OutOfSequenceOrOther, NullStartCode,
         PapPacket, NewSource, NoRoomForSource, Considers, SetSource, Tracked
<1>5. LiftedWithRoom
  BY <1>1, Zenon DEF LiftedWithRoom
<1> QED
  BY <1>2, <1>3, <1>4, <1>5

\* A tick lifts the suppression when it reports a loss, which makes room.
LEMMA TickLimit ==
    ASSUME IInv, WithinLimit, Tick
    PROVE  WithinLimit' /\ LiftedWithRoom
<1>1. PICK first : ProcessReceiverSources(first)
  BY DEF Tick
<1>2. Tracked' \subseteq Tracked
  BY <1>1 DEF ProcessReceiverSources, Tracked
<1>3. WithinLimit' /\ (Tracked' # Tracked => HasRoom')
  BY <1>2, FewerTracked DEF IInv
<1>4. suppress_limit_exceeded /\ ~suppress_limit_exceeded' => lost' # {}
  BY <1>1 DEF ProcessReceiverSources
<1>5. \A s \in lost' : s \in Tracked /\ s \notin Tracked'
  BY TickInv
<1> QED
  BY <1>3, <1>4, <1>5 DEF LiftedWithRoom

\* The application's calls and time add no source; a change of universe lifts the
\* suppression and leaves no source.
LEMMA OtherLimit ==
    ASSUME Core, WithinLimit, Elapse \/ AppCall \/ UNCHANGED vars
    PROVE  WithinLimit' /\ LiftedWithRoom
<1>1. CASE ChangeUniverse
  <2>1. Tracked' = {}
    BY <1>1 DEF ChangeUniverse, Tracked
  <2>2. Cardinality(Tracked') = 0 /\ MaxSources \in Nat
    BY <2>1, FS_EmptySet, ReceiverAssumption
  <2> QED
    BY <2>2 DEF WithinLimit, LiftedWithRoom, HasRoom
<1>2. CASE Tracked' = Tracked /\ suppress_limit_exceeded' = suppress_limit_exceeded
  BY <1>2 DEF WithinLimit, LiftedWithRoom
<1>3. \/ ChangeUniverse
      \/ Tracked' = Tracked /\ suppress_limit_exceeded' = suppress_limit_exceeded
  <2>1. CASE Elapse
    BY <2>1 DEF Elapse, Tracked
  <2>2. ASSUME NEW listed, NEW usable, ResetNetworking(listed, usable)
        PROVE  Tracked' = Tracked /\ suppress_limit_exceeded' = suppress_limit_exceeded
    BY <2>2 DEF ResetNetworking, TerminateSourcesNotOn, Tracked
  <2>3. ASSUME NEW wait, SetExpiredWait(wait)
        PROVE  Tracked' = Tracked /\ suppress_limit_exceeded' = suppress_limit_exceeded
    BY <2>3 DEF SetExpiredWait, srcVars, Tracked
  <2>4. CASE UNCHANGED vars
    BY <2>4 DEF vars, srcVars, Tracked
  <2> QED
    BY <2>1, <2>2, <2>3, <2>4 DEF AppCall, NetworkingCall
<1> QED
  BY <1>1, <1>2, <1>3

\* The receiver tracks no more sources than it may, and after it has told the
\* application of its source limit tells it again only when there has been room
\* in between (receiver_state.c, process_new_source_data and
\* process_receiver_sources).
THEOREM ReceiverLimitToldOnce == Spec => LimitToldOnce
<1>1. Init => WithinLimit
  BY FS_EmptySet, ReceiverAssumption DEF Init, WithinLimit, Tracked
<1>2. IInv /\ WithinLimit /\ [Next]_vars => WithinLimit' /\ LiftedWithRoom
  BY DataPacketLimit, TickLimit, OtherLimit DEF IInv, Next
<1>3. IInv /\ WithinLimit /\ [Next]_vars =>
         [suppress_limit_exceeded /\ ~suppress_limit_exceeded' => HasRoom']_vars
  BY <1>2 DEF LiftedWithRoom
<1> QED
  BY <1>1, <1>2, <1>3, InvHolds, PTL DEF Spec, LimitToldOnce
-----------------------------------------------------------------------------
(***************************************************************************)
(* The receiver implements ReceiverNotifications if it does not filter     *)
(* preview data.                                                           *)
(***************************************************************************)

\* The application holds all that the receiver tracks past the PAP wait.
Told ==
    /\ Past(sources) \subseteq reported
    /\ \A s \in Tracked :
          sources[s].recv_state \in {PapOnly, DmxAndPap} => s \in pap_held

\* What was told covers the sources past the PAP wait and their priorities.
LEMMA ToldResult == Told => AppWasTold
BY DEF Told, AppWasTold, Past, IsWaiting, Tracked

\* A packet of a tracked source of which the application is told what it needs.
LEMMA PacketTold ==
    ASSUME Told, NEW s \in Tracked, NEW new, SetSource(s, new),
           reported \subseteq reported', pap_held \ {s} \subseteq pap_held',
           new.recv_state # Waiting => s \in reported',
           new.recv_state \in {PapOnly, DmxAndPap} => s \in pap_held'
    PROVE  Told'
<1>1. /\ DOMAIN sources' = DOMAIN sources /\ sources'[s] = new
      /\ \A x \in DOMAIN sources \ {s} : sources'[x] = sources[x]
  BY DEF SetSource, Tracked
<1>2. Past(sources)' \subseteq reported'
  BY <1>1 DEF Told, Past, Tracked
<1>3. \A x \in Tracked' :
         sources'[x].recv_state \in {PapOnly, DmxAndPap} => x \in pap_held'
  BY <1>1 DEF Told, Tracked
<1> QED
  BY <1>2, <1>3 DEF Told

\* A step in which nothing is told and no source changes its receive state.
LEMMA QuietTold ==
    ASSUME Told, NEW D \in SUBSET DOMAIN sources, DOMAIN sources' = D,
           \A x \in D : sources'[x].recv_state = sources[x].recv_state,
           reported' = reported, pap_held' = pap_held
    PROVE  Told'
<1>1. Past(sources)' \subseteq Past(sources)
  BY DEF Past
<1>2. Told' = /\ Past(sources)' \subseteq reported'
              /\ \A s \in Tracked' :
                    sources'[s].recv_state \in {PapOnly, DmxAndPap}
                      => s \in pap_held'
  BY DEF Told
<1> QED
  BY <1>1, <1>2 DEF Told, Tracked

\* NULL start code data is told as levels, or held back during the PAP wait.
LEMMA NullStartCodeTold ==
    ASSUME Core, Told, ~FilterPreview, NEW s \in Sources, NEW n \in Netints,
           NEW preview \in BOOLEAN, NullStartCode(s, n, preview)
    PROVE  Told' /\ (Notifications!Levels(s) \/ Notifications!Quiet)
<1> DEFINE src == On(s, n)
           new == SourceAfterDmx(src)
           held == src.recv_state = Waiting /\ src.pap_timer > 0
           pap_lost == src.recv_state = DmxAndPap /\ src.pap_timer = 0
<1>1. /\ s \in Tracked /\ SetSource(s, new) /\ lost' = {}
      /\ reported' = IF held THEN reported ELSE reported \cup {s}
      /\ pap_held' = IF pap_lost THEN pap_held \ {s} ELSE pap_held
  BY DEF NullStartCode, Accepts, Report
<1>2. /\ src \in TrackedSource /\ Keeps(sources[s], src)
      /\ src.recv_state = sources[s].recv_state
      /\ src.recv_state \in RecvStates /\ src.pap_timer \in Nat
  BY <1>1, OnKeeps DEF TrackedSource
<1>3. sources[s].recv_state \in {PapOnly, DmxAndPap} => s \in pap_held
  BY <1>1 DEF Told
<1>4. new.recv_state = StateAfterDmx(src)
  BY <1>2, DmxKeeps
<1> HIDE DEF src, new
<1>5. /\ held => StateAfterDmx(src) = Waiting
      /\ StateAfterDmx(src) \in {PapOnly, DmxAndPap} =>
            src.recv_state \in {PapOnly, DmxAndPap} /\ ~pap_lost
  BY <1>2, DistinctStates DEF StateAfterDmx
<1>6. Told'
  <2>1. new.recv_state # Waiting => s \in reported'
    BY <1>1, <1>4, <1>5
  <2>2. new.recv_state \in {PapOnly, DmxAndPap} => s \in pap_held'
    BY <1>1, <1>2, <1>3, <1>4, <1>5
  <2>3. reported \subseteq reported' /\ pap_held \ {s} \subseteq pap_held'
    BY <1>1
  <2> QED
    BY <1>1, <2>1, <2>2, <2>3, PacketTold
<1>7. CASE held
  <2>1. ~pap_lost
    BY <1>7, DistinctStates
  <2> QED
    BY <1>1, <1>6, <1>7, <2>1 DEF Notifications!Quiet
<1>8. CASE ~held
  BY <1>1, <1>6, <1>8 DEF Notifications!Levels
<1> QED
  BY <1>7, <1>8

\* Priorities are told as such.
LEMMA PapPacketTold ==
    ASSUME Core, Told, ~FilterPreview, NEW s \in Sources, NEW n \in Netints,
           NEW preview \in BOOLEAN, PapPacket(s, n, preview)
    PROVE  Told' /\ Notifications!Priorities(s)
<1>1. /\ s \in Tracked /\ SetSource(s, SourceAfterPap(On(s, n))) /\ lost' = {}
      /\ reported' = reported \cup {s} /\ pap_held' = pap_held \cup {s}
  BY DEF PapPacket, Accepts, Report, ReportPap
<1>2. Told'
  <2>1. s \in reported' /\ s \in pap_held'
    BY <1>1
  <2>2. reported \subseteq reported' /\ pap_held \ {s} \subseteq pap_held'
    BY <1>1
  <2> QED
    BY <1>1, <2>1, <2>2, PacketTold
<1> QED
  BY <1>1, <1>2 DEF Notifications!Priorities

\* A new source is told of at once, or waits for PAP.
LEMMA NewSourceTold ==
    ASSUME Core, Misc, Told, ~FilterPreview, NEW s \in Sources,
           NEW n \in Netints, NEW sc \in StartCodes, NEW preview \in BOOLEAN,
           NewSource(s, n, sc, preview)
    PROVE  /\ Told'
           /\ \/ Notifications!Priorities(s)
              \/ Notifications!Levels(s)
              \/ Notifications!Quiet
<1> DEFINE new == NewTrackedSource(sc, n)
<1>1. /\ DOMAIN sources' = Tracked \cup {s} /\ s \notin Tracked
      /\ sources'[s] = new /\ \A x \in Tracked : sources'[x] = sources[x]
      /\ reported' = IF sc = Pap \/ sampling THEN reported \cup {s} ELSE reported
      /\ pap_held' = IF sc = Pap THEN pap_held \cup {s} ELSE pap_held
      /\ lost' = {} /\ sc \in {Dmx, Pap}
  BY DEF NewSource, Considers, Report, ReportPap
<1>2. /\ sampling /\ sc # Pap => new.recv_state = DmxOnly
      /\ ~sampling /\ sc # Pap => new.recv_state = Waiting
      /\ sampling \in BOOLEAN
  BY DEF NewTrackedSource, Misc
<1> HIDE DEF new
<1>3. /\ new.recv_state # Waiting => s \in reported'
      /\ new.recv_state \in {PapOnly, DmxAndPap} => s \in pap_held'
  BY <1>1, <1>2, DistinctStates
<1>4. Past(sources)' \subseteq reported'
  BY <1>1, <1>3 DEF Told, Past, Tracked
<1>5. \A x \in Tracked' :
         sources'[x].recv_state \in {PapOnly, DmxAndPap} => x \in pap_held'
  BY <1>1, <1>3 DEF Told, Tracked
<1>6. Told'
  BY <1>4, <1>5 DEF Told
<1> QED
  BY <1>1, <1>6 DEF Notifications!Priorities, Notifications!Levels,
                    Notifications!Quiet

\* What a tick reports lost was told before.
LEMMA TickTold ==
    ASSUME Core, Misc, Told, NEW first, ProcessReceiverSources(first)
    PROVE  Told' /\ Notifications!Next
<1> DEFINE T == TermSetsAtTick(first)
           L == ExpiredSources(T)
           gone == L \cup ToErase
<1>1. /\ lost' = L /\ reported' = reported \ L /\ pap_held' = pap_held \ L
      /\ DOMAIN sources' = Tracked \ gone
      /\ \A s \in Tracked \ gone :
            sources'[s] = IF s \in OnlineSources
                            THEN [sources[s] EXCEPT !.dmx_received = FALSE]
                            ELSE sources[s]
  BY DEF ProcessReceiverSources
<1>2. Sound(T, Past(sources) \ OnlineSources)
  BY TickSets
<1> HIDE DEF T
<1>3. L \subseteq Past(sources)
  <2> DEFINE M == Past(sources) \ OnlineSources
  <2> HIDE DEF M
  <2>1. Sound(T, M)
    BY <1>2 DEF M
  <2>2. ExpiredSources(T) \subseteq M
    BY <2>1, ExpiredLeave
  <2> QED
    BY <2>2 DEF M
<1> HIDE DEF L
<1>4. ASSUME NEW s \in Tracked \ gone
      PROVE  sources'[s].recv_state = sources[s].recv_state
  <2>1. sources[s] \in TrackedSource
    BY DEF Core, IsTable, Tracked
  <2>2. [sources[s] EXCEPT !.dmx_received = FALSE].recv_state
           = sources[s].recv_state
    BY <2>1 DEF TrackedSource
  <2> QED
    BY <1>1, <2>2
<1>5. Past(sources)' \subseteq reported'
  BY <1>1, <1>4 DEF Told, Past, Tracked
<1>6. \A x \in Tracked' :
         sources'[x].recv_state \in {PapOnly, DmxAndPap} => x \in pap_held'
  BY <1>1, <1>4 DEF Told, Tracked
<1>7. Told'
  BY <1>5, <1>6 DEF Told
<1>8. L \subseteq reported /\ L \in SUBSET Sources
  BY <1>3 DEF Told, Core, IsTable, Past
<1>9. CASE L = {}
  BY <1>1, <1>7, <1>9 DEF Notifications!Next, Notifications!Quiet
<1>10. CASE L # {}
  <2>1. Notifications!SourcesLost(L)
    BY <1>1, <1>8, <1>10 DEF Notifications!SourcesLost
  <2> QED
    BY <1>7, <1>8, <2>1 DEF Notifications!Next
<1> QED
  BY <1>9, <1>10

\* Every step of the receiver is a step of ReceiverNotifications.
LEMMA NextTold ==
    ASSUME IInv, Told, ~FilterPreview, [Next]_vars
    PROVE  Told' /\ [Notifications!Next]_(Notifications!vars)
<1> USE DEF IInv
<1>1. ASSUME NEW s \in Sources, DataPacket(s)
      PROVE  Told' /\ Notifications!Next
  <2>1. PICK n \in Netints :
           \/ \E term \in BOOLEAN : TerminatedPacket(s, n, term)
           \/ OutOfSequenceOrOther(s, n)
           \/ Dmx \in StartCodes /\ \E p \in BOOLEAN : NullStartCode(s, n, p)
           \/ Pap \in StartCodes /\ \E p \in BOOLEAN : PapPacket(s, n, p)
           \/ \E sc \in StartCodes :
                 \/ \E p \in BOOLEAN : NewSource(s, n, sc, p)
                 \/ NoRoomForSource(s, n, sc)
    BY <1>1 DEF DataPacket
  <2>2. ASSUME NEW new, s \in Tracked, SetSource(s, new),
               new.recv_state = sources[s].recv_state,
               reported' = reported, pap_held' = pap_held, lost' = {}
        PROVE  Told' /\ Notifications!Next
    <3>1. s \in Tracked /\ (new.recv_state # Waiting => s \in reported')
            /\ (new.recv_state \in {PapOnly, DmxAndPap} => s \in pap_held')
      BY <2>2 DEF Told, Past, Tracked
    <3>2. Told'
      BY <2>2, <3>1, PacketTold
    <3> QED
      BY <2>2, <3>2 DEF Notifications!Next, Notifications!Quiet
  <2>3. ASSUME NEW term \in BOOLEAN, TerminatedPacket(s, n, term)
        PROVE  Told' /\ Notifications!Next
    <3> DEFINE new == IF term THEN Terminated(On(s, n)) ELSE On(s, n)
    <3>1. /\ s \in Tracked /\ SetSource(s, new) /\ lost' = {}
          /\ reported' = reported /\ pap_held' = pap_held
      BY <2>3 DEF TerminatedPacket, Accepts
    <3>2. new.recv_state = sources[s].recv_state
      BY <3>1, OnKeeps, TerminatedKeeps
    <3> HIDE DEF new
    <3> QED
      BY <2>2, <3>1, <3>2
  <2>4. CASE OutOfSequenceOrOther(s, n)
    <3>1. /\ s \in Tracked /\ SetSource(s, On(s, n)) /\ lost' = {}
          /\ reported' = reported /\ pap_held' = pap_held
      BY <2>4 DEF OutOfSequenceOrOther, Accepts
    <3>2. On(s, n).recv_state = sources[s].recv_state
      BY <3>1, OnKeeps
    <3> QED
      BY <2>2, <3>1, <3>2
  <2>5. ASSUME NEW p \in BOOLEAN, NullStartCode(s, n, p)
        PROVE  Told' /\ Notifications!Next
    BY <2>5, NullStartCodeTold DEF Notifications!Next
  <2>6. ASSUME NEW p \in BOOLEAN, PapPacket(s, n, p)
        PROVE  Told' /\ Notifications!Next
    BY <2>6, PapPacketTold DEF Notifications!Next
  <2>7. ASSUME NEW sc \in StartCodes, NEW p \in BOOLEAN, NewSource(s, n, sc, p)
        PROVE  Told' /\ Notifications!Next
    BY <2>7, NewSourceTold DEF Notifications!Next
  <2>8. ASSUME NEW sc \in StartCodes, NoRoomForSource(s, n, sc)
        PROVE  Told' /\ Notifications!Next
    <3>1. /\ sources' = sources /\ reported' = reported
          /\ pap_held' = pap_held /\ lost' = {}
      BY <2>8 DEF NoRoomForSource
    <3>2. Told'
      BY <3>1, QuietTold
    <3> QED
      BY <3>1, <3>2 DEF Notifications!Next, Notifications!Quiet
  <2> QED
    BY <2>1, <2>3, <2>4, <2>5, <2>6, <2>7, <2>8
<1>2. CASE Tick
  BY <1>2, TickTold DEF Tick
<1>3. ASSUME DOMAIN sources' = DOMAIN sources,
             \A x \in DOMAIN sources :
                sources'[x].recv_state = sources[x].recv_state,
             reported' = reported, pap_held' = pap_held, lost' = {}
      PROVE  Told' /\ Notifications!Next
  <2>1. Told'
    BY <1>3, QuietTold
  <2> QED
    BY <1>3, <2>1 DEF Notifications!Next, Notifications!Quiet
<1>4. \A x \in DOMAIN sources : sources[x] \in TrackedSource
  BY DEF Core, IsTable
<1>5. CASE Elapse
  <2>1. DOMAIN sources' = DOMAIN sources /\ lost' = {}
          /\ reported' = reported /\ pap_held' = pap_held
    BY <1>5 DEF Elapse, Tracked
  <2>2. \A x \in DOMAIN sources :
           sources'[x].recv_state = sources[x].recv_state
    BY <1>4, <1>5 DEF Elapse, Tracked, TrackedSource
  <2> QED
    BY <1>3, <2>1, <2>2
<1>6. CASE ChangeUniverse
  <2>1. DOMAIN sources' = {} /\ reported' = {} /\ pap_held' = {} /\ lost' = {}
    BY <1>6 DEF ChangeUniverse
  <2>2. Told'
    BY <2>1 DEF Told, Past, Tracked
  <2> QED
    BY <2>1, <2>2 DEF Notifications!Next, Notifications!Forget
<1>7. ASSUME NEW listed, NEW usable, ResetNetworking(listed, usable)
      PROVE  Told' /\ Notifications!Next
  <2>1. DOMAIN sources' = DOMAIN sources /\ lost' = {}
          /\ reported' = reported /\ pap_held' = pap_held
    BY <1>7 DEF ResetNetworking, TerminateSourcesNotOn, Tracked
  <2>2. \A x \in DOMAIN sources :
           sources'[x].recv_state = sources[x].recv_state
    BY <1>4, <1>7 DEF ResetNetworking, TerminateSourcesNotOn, Terminated,
                      Tracked, TrackedSource
  <2> QED
    BY <1>3, <2>1, <2>2
<1>8. ASSUME NEW wait, SetExpiredWait(wait)
      PROVE  Told' /\ Notifications!Next
  <2>1. /\ sources' = sources /\ reported' = reported
        /\ pap_held' = pap_held /\ lost' = {}
    BY <1>8 DEF SetExpiredWait, srcVars
  <2> QED
    BY <1>3, <2>1
<1>9. CASE UNCHANGED vars
  <2>1. /\ sources' = sources /\ reported' = reported
        /\ pap_held' = pap_held /\ lost' = lost
    BY <1>9 DEF vars, srcVars, appVars
  <2>2. Told'
    BY <2>1, QuietTold
  <2> QED
    BY <2>1, <2>2 DEF Notifications!vars
<1> QED
  BY <1>1, <1>2, <1>5, <1>6, <1>7, <1>8, <1>9
     DEF Next, AppCall, NetworkingCall

\* A new receiver has told nothing.
LEMMA InitTold == Init => Told /\ Notifications!Init
BY DEF Init, Told, Past, Tracked, Notifications!Init

\* Without preview filtering the application was told of every source past the
\* PAP wait and of the priorities that are tracked, so that no sources_lost or
\* source_pap_lost comes as news.
THEOREM ReceiverAppWasTold ==
    ASSUME ~FilterPreview PROVE Spec => []AppWasTold
<1>1. IInv /\ Told /\ [Next]_vars => Told'
  BY NextTold
<1> QED
  BY <1>1, InvHolds, InitTold, ToldResult, PTL DEF Spec

\* Without preview filtering the application and the receiver agree on the
\* sources and their priorities (receiver_state.c, process_receiver_sources).
THEOREM ReceiverAppIsInformed ==
    ASSUME ~FilterPreview PROVE Spec => []AppIsInformed
BY ReceiverAppWasTold, ReceiverAppHoldsTracked, PTL DEF AppIsInformed

\* Without preview filtering, what the application hears of its sources is a
\* behaviour of ReceiverNotifications: a source is reported lost once, and only
\* if its data has been given to the application.
THEOREM ReceiverImplementsNotifications ==
    ASSUME ~FilterPreview PROVE Spec => ImplementsNotifications
<1>1. IInv /\ Told /\ [Next]_vars =>
         Told' /\ [Notifications!Next]_(Notifications!vars)
  BY NextTold
<1> QED
  BY <1>1, InvHolds, InitTold, PTL
     DEF Spec, ImplementsNotifications, Notifications!Spec
-----------------------------------------------------------------------------
(***************************************************************************)
(* The refinement of ReceiverEvents.                                       *)
(***************************************************************************)

\* A tracked source as ReceiverEvents sees it.
View(src) ==
    [netint |-> src.netint, waiting |-> src.recv_state = Waiting,
     pap |-> src.recv_state \in {PapOnly, DmxAndPap}]

Views(S) == [s \in DOMAIN S |-> View(S[s])]

ViewType == [netint : Netints, waiting : BOOLEAN, pap : BOOLEAN]

LEMMA ViewFields ==
  ASSUME NEW src, src.netint \in Netints
  PROVE  /\ View(src) \in ViewType
         /\ View(src).netint = src.netint
         /\ (View(src).waiting <=> src.recv_state = Waiting)
         /\ (View(src).pap <=> src.recv_state \in {PapOnly, DmxAndPap})
<1>1. /\ View(src).netint = src.netint
      /\ View(src).waiting = (src.recv_state = Waiting)
      /\ View(src).pap = (src.recv_state \in {PapOnly, DmxAndPap})
  BY Zenon DEF View
<1>2. View(src) \in ViewType
  <2>1. /\ (src.recv_state = Waiting) \in BOOLEAN
        /\ (src.recv_state \in {PapOnly, DmxAndPap}) \in BOOLEAN
    OBVIOUS
  <2> QED
    BY <2>1, Zenon DEF View, ViewType
<1> QED
  BY <1>1, <1>2

LEMMA SameView ==
  ASSUME NEW a \in ViewType, NEW b \in ViewType, a.netint = b.netint,
         a.waiting <=> b.waiting, a.pap <=> b.pap
  PROVE  a = b
<1>1. a.waiting = b.waiting /\ a.pap = b.pap
  BY DEF ViewType
<1> QED
  BY <1>1 DEF ViewType

\* The entries that ReceiverEvents makes of the view of a source.
LEMMA OnView ==
  ASSUME NEW a \in ViewType, NEW n \in Netints
  PROVE  LET b == [a EXCEPT !.netint = n]
         IN  b \in ViewType /\ b.netint = n /\ b.waiting = a.waiting /\ b.pap = a.pap
BY DEF ViewType

LEMMA PapView ==
  ASSUME NEW a \in ViewType, NEW n \in Netints
  PROVE  LET b == [[a EXCEPT !.netint = n] EXCEPT !.waiting = FALSE, !.pap = TRUE]
         IN  b \in ViewType /\ b.netint = n /\ ~b.waiting /\ b.pap
BY DEF ViewType

\* Of a packet of a tracked source ReceiverEvents sees what becomes of the
\* receive state.
LEMMA PacketEvents ==
  ASSUME IsTable(sources), NEW s \in Sources, NEW n \in Netints, Accepts(s, n),
         NEW new, SetSource(s, new), new.netint = n, UNCHANGED samplingVars
  PROVE  /\ new.recv_state = sources[s].recv_state => Events!NothingNew(s, n)
         /\ \A pap_lost \in BOOLEAN :
              /\ new.recv_state # Waiting
              /\ pap_lost => sources[s].recv_state \in {PapOnly, DmxAndPap}
              /\ (new.recv_state \in {PapOnly, DmxAndPap}
                    <=> (sources[s].recv_state \in {PapOnly, DmxAndPap} /\ ~pap_lost))
              => Events!LevelsOfKnown(s, n, pap_lost)
         /\ new.recv_state \in {PapOnly, DmxAndPap} => Events!PapOfKnown(s, n)
<1>1. /\ s \in DOMAIN sources
      /\ DOMAIN sources' = DOMAIN sources
      /\ sources'[s] = new
      /\ \A x \in DOMAIN sources \ {s} : sources'[x] = sources[x]
  BY DEF Accepts, SetSource, Tracked
<1>2. Views(sources') = [Views(sources) EXCEPT ![s] = View(new)]
  BY <1>1 DEF Views
<1>3. Views(sources)[s] = View(sources[s])
  BY <1>1 DEF Views
<1>4. /\ View(sources[s]).netint = sources[s].netint
      /\ DOMAIN Views(sources) = DOMAIN sources
  BY DEF View, Views
<1>5. Events!Accepts(s, n)
  BY <1>1, <1>3, <1>4 DEF Accepts, Events!Accepts, Events!Known, Views, View, Tracked, IsWaiting
<1>6. UNCHANGED <<netints, sampling, notified_sampling_started, sp_current, sp_future>>
  BY DEF samplingVars
<1> DEFINE old == View(sources[s])
<1> HIDE DEF old
<1>7. /\ old \in ViewType
       /\ (old.waiting <=> sources[s].recv_state = Waiting)
       /\ (old.pap <=> sources[s].recv_state \in {PapOnly, DmxAndPap})
       /\ Views(sources)[s] = old
  <2>1. sources[s].netint \in Netints
    BY <1>1 DEF IsTable, TrackedSource
  <2> QED
    BY <1>3, <2>1, ViewFields DEF old
<1>8. /\ View(new) \in ViewType
       /\ View(new).netint = n
       /\ (View(new).waiting <=> new.recv_state = Waiting)
       /\ (View(new).pap <=> new.recv_state \in {PapOnly, DmxAndPap})
  BY ViewFields
<1>9. ASSUME new.recv_state = sources[s].recv_state
      PROVE  Events!NothingNew(s, n)
  <2> DEFINE b == [old EXCEPT !.netint = n]
  <2>1. b \in ViewType /\ b.netint = n /\ b.waiting = old.waiting /\ b.pap = old.pap
    BY <1>7, OnView
  <2> HIDE DEF b
  <2>2. View(new) = b
    BY <1>9, <1>7, <1>8, <2>1, SameView
  <2>3. Views(sources') = [Views(sources) EXCEPT ![s] =
                             [Views(sources)[s] EXCEPT !.netint = n]]
    BY <1>2, <1>7, <2>2 DEF b
  <2> QED
    BY <1>5, <1>6, <2>3
       DEF Events!NothingNew, Events!On, Events!periodVars, Views, View, Tracked, IsWaiting
<1>10. ASSUME NEW pap_lost \in BOOLEAN, new.recv_state # Waiting,
             pap_lost => sources[s].recv_state \in {PapOnly, DmxAndPap},
             new.recv_state \in {PapOnly, DmxAndPap}
               <=> (sources[s].recv_state \in {PapOnly, DmxAndPap} /\ ~pap_lost)
      PROVE  Events!LevelsOfKnown(s, n, pap_lost)
  <2> DEFINE b == [[old EXCEPT !.netint = n] EXCEPT
                     !.waiting = FALSE, !.pap = @ /\ ~pap_lost]
  <2>1. /\ b \in ViewType /\ b.netint = n
        /\ ~b.waiting
        /\ (b.pap <=> (old.pap /\ ~pap_lost))
    BY <1>7 DEF ViewType
  <2> HIDE DEF b
  <2>2. View(new) = b
    BY <1>10, <1>7, <1>8, <2>1, SameView
  <2>3. Views(sources') = [Views(sources) EXCEPT ![s] =
           [[Views(sources)[s] EXCEPT !.netint = n] EXCEPT
              !.waiting = FALSE, !.pap = @ /\ ~pap_lost]]
    BY <1>2, <1>7, <2>2 DEF b
  <2>4. pap_lost => Views(sources)[s].pap
    BY <1>10, <1>7
  <2> QED
    BY <1>5, <1>6, <2>3, <2>4
       DEF Events!LevelsOfKnown, Events!On, Events!periodVars, Views, View, Tracked, IsWaiting
<1>11. ASSUME new.recv_state \in {PapOnly, DmxAndPap}
      PROVE  Events!PapOfKnown(s, n)
  <2> DEFINE b == [[old EXCEPT !.netint = n] EXCEPT !.waiting = FALSE, !.pap = TRUE]
  <2>1. b \in ViewType /\ b.netint = n /\ ~b.waiting /\ b.pap
    BY <1>7, PapView
  <2> HIDE DEF b
  <2>2. View(new) = b
    BY <1>11, <1>8, <2>1, SameView, DistinctStates
  <2>3. Views(sources') = [Views(sources) EXCEPT ![s] =
           [[Views(sources)[s] EXCEPT !.netint = n] EXCEPT
              !.waiting = FALSE, !.pap = TRUE]]
    BY <1>2, <1>7, <2>2 DEF b
  <2> QED
    BY <1>5, <1>6, <2>3
       DEF Events!PapOfKnown, Events!On, Events!periodVars, Views, View, Tracked, IsWaiting
<1> QED
  BY <1>9, <1>10, <1>11

\* A step that leaves the view alone is a stutter of ReceiverEvents.
LEMMA UnseenStep ==
  ASSUME Views(sources') = Views(sources), UNCHANGED samplingVars
  PROVE  UNCHANGED Events!rcvVars
BY DEF Views, View, Tracked, IsWaiting, samplingVars, Events!rcvVars

\* The view of sources that keep their interface and receive state.
LEMMA SameViews ==
  ASSUME DOMAIN sources' = DOMAIN sources,
         \A s \in DOMAIN sources : /\ sources'[s].netint = sources[s].netint
                                   /\ sources'[s].recv_state = sources[s].recv_state
  PROVE  Views(sources') = Views(sources)
<1>1. \A s \in DOMAIN sources : View(sources'[s]) = View(sources[s])
  BY DEF View
<1> QED
  BY <1>1 DEF Views

LEMMA NewSourceEvents ==
  ASSUME IsTable(sources), sampling \in BOOLEAN, NEW s \in Sources, NEW n \in Netints,
         NEW sc, NEW preview, NewSource(s, n, sc, preview)
  PROVE  Events!NewSource(s, n, sc = Pap)
<1>1. /\ s \notin DOMAIN sources /\ n \notin sp_future /\ sc \in {Dmx, Pap}
      /\ sources' = [x \in DOMAIN sources \cup {s} |->
                       IF x = s THEN NewTrackedSource(sc, n) ELSE sources[x]]
      /\ UNCHANGED samplingVars
  BY DEF NewSource, Considers, Tracked
<1> DEFINE new == NewTrackedSource(sc, n)
           seen == [netint |-> n, pap |-> sc = Pap,
                    waiting |-> ~(sc = Pap) /\ ~sampling]
<1>2. /\ new.netint = n
      /\ new.recv_state = Waiting <=> ~(sc = Pap) /\ ~sampling
      /\ new.recv_state \in {PapOnly, DmxAndPap} <=> sc = Pap
  <2>1. new.netint = n
    BY DEF NewTrackedSource
  <2>2. CASE sc = Pap
    BY <2>1, <2>2, DistinctStates DEF NewTrackedSource
  <2>3. CASE sc # Pap /\ sampling
    BY <2>1, <2>3, DistinctStates DEF NewTrackedSource
  <2>4. CASE sc # Pap /\ ~sampling
    BY <2>1, <2>4, DistinctStates DEF NewTrackedSource
  <2> QED
    BY <2>2, <2>3, <2>4
<1> HIDE DEF new
<1>3. View(new) = seen
  <2>1. /\ View(new) \in ViewType /\ View(new).netint = n
        /\ View(new).waiting <=> new.recv_state = Waiting
        /\ View(new).pap <=> new.recv_state \in {PapOnly, DmxAndPap}
    BY <1>2, ViewFields
  <2>2. /\ (sc = Pap) \in BOOLEAN
        /\ (~(sc = Pap) /\ ~sampling) \in BOOLEAN
    OBVIOUS
  <2>3. seen \in ViewType
    BY <2>2, Zenon DEF ViewType
  <2>4. /\ seen.netint = n /\ seen.waiting = (~(sc = Pap) /\ ~sampling)
        /\ seen.pap = (sc = Pap)
    BY Zenon
  <2> HIDE DEF seen
  <2> QED
    BY <1>2, <2>1, <2>3, <2>4, SameView
<1> HIDE DEF seen
<1>4. Views(sources') = [x \in DOMAIN Views(sources) \cup {s} |->
                           IF x # s THEN Views(sources)[x] ELSE seen]
  <2>1. DOMAIN Views(sources) = DOMAIN sources
    BY DEF Views
  <2>2. DOMAIN sources' = DOMAIN sources \cup {s}
    BY <1>1
  <2>3. ASSUME NEW x \in DOMAIN sources \cup {s}
        PROVE  View(sources'[x]) = IF x # s THEN Views(sources)[x] ELSE seen
    BY <1>1, <1>3, <2>3 DEF Views, new
  <2> QED
    BY <2>1, <2>2, <2>3 DEF Views
<1>5. Events!HasRoom
  <2>1. Events!Known = DOMAIN sources
    BY DEF Events!Known, Tracked
  <2>2. MaxSources = 0 \/ Cardinality(DOMAIN sources) < MaxSources
    BY DEF NewSource, HasRoom, Tracked
  <2>3. \A S : Events!Cardinality(S) = Cardinality(S)
    BY Zenon DEF Events!Cardinality, Cardinality
  <2> QED
    BY <2>1, <2>2, <2>3 DEF Events!HasRoom
<1> QED
  BY <1>1, <1>4, <1>5 DEF seen, Events!NewSource, Events!Known, Events!periodVars,
     samplingVars, Views, View, Tracked, IsWaiting

\* NULL start code data: held back, or notified, perhaps with a loss of PAP.
LEMMA NullStartCodeEvents ==
  ASSUME Core, NEW s \in Sources, NEW n \in Netints, NEW preview,
         NullStartCode(s, n, preview)
  PROVE  \/ Events!NothingNew(s, n)
         \/ \E pap_lost \in BOOLEAN : Events!LevelsOfKnown(s, n, pap_lost)
<1> DEFINE src == On(s, n)
           new == SourceAfterDmx(src)
           held == src.recv_state = Waiting /\ src.pap_timer > 0
           pap_lost == src.recv_state = DmxAndPap /\ src.pap_timer = 0
<1>1. /\ Accepts(s, n) /\ s \in Tracked /\ SetSource(s, new)
      /\ UNCHANGED samplingVars
  BY DEF NullStartCode, Accepts
<1>2. /\ src \in TrackedSource /\ Keeps(sources[s], src)
      /\ src.recv_state = sources[s].recv_state /\ src.netint = n
      /\ src.recv_state \in RecvStates /\ src.pap_timer \in Nat
  <2>1. sources[s] \in TrackedSource
    BY <1>1 DEF Core, IsTable, Tracked
  <2>2. src.netint = n
    BY <2>1 DEF On, TrackedSource
  <2> QED
    BY <1>1, <2>2, OnKeeps DEF TrackedSource
<1>3. new.recv_state = StateAfterDmx(src)
  BY <1>2, DmxKeeps
<1>4. new.netint = n
  BY <1>2 DEF SourceAfterDmx, TrackedSource
<1> HIDE DEF src, new
<1>5. /\ held => StateAfterDmx(src) = src.recv_state
      /\ ~held => StateAfterDmx(src) # Waiting
      /\ StateAfterDmx(src) \in {PapOnly, DmxAndPap} <=>
            src.recv_state \in {PapOnly, DmxAndPap} /\ ~pap_lost
  BY <1>2, DistinctStates DEF StateAfterDmx
<1>6. IsTable(sources)
  BY DEF Core
<1>7. CASE held
  BY <1>1, <1>2, <1>3, <1>4, <1>5, <1>6, <1>7, PacketEvents
<1>8. CASE ~held
  <2>1. PICK found_lost \in BOOLEAN : found_lost <=> pap_lost
    OBVIOUS
  <2>2. found_lost => sources[s].recv_state \in {PapOnly, DmxAndPap}
    BY <1>2, <2>1
  <2>3. new.recv_state # Waiting
    BY <1>3, <1>5, <1>8
  <2>4. new.recv_state \in {PapOnly, DmxAndPap} <=>
            sources[s].recv_state \in {PapOnly, DmxAndPap} /\ ~found_lost
    BY <1>2, <1>3, <1>5, <2>1
  <2>5. Events!LevelsOfKnown(s, n, found_lost)
    BY <1>1, <1>4, <1>6, <2>2, <2>3, <2>4, PacketEvents
  <2> QED
    BY <2>5
<1> QED
  BY <1>7, <1>8

LEMMA PapPacketEvents ==
  ASSUME Core, NEW s \in Sources, NEW n \in Netints, NEW preview,
         PapPacket(s, n, preview)
  PROVE  Events!PapOfKnown(s, n)
<1> DEFINE new == SourceAfterPap(On(s, n))
<1>1. /\ Accepts(s, n) /\ s \in Tracked /\ SetSource(s, new)
      /\ UNCHANGED samplingVars
  BY DEF PapPacket, Accepts
<1>2. On(s, n) \in TrackedSource /\ Keeps(sources[s], On(s, n))
  BY <1>1, OnKeeps
<1>3. On(s, n).netint = n
  BY <1>1 DEF Core, IsTable, Tracked, On, TrackedSource
<1>4. new.recv_state \in {PapOnly, DmxAndPap}
  BY <1>2, PapKeeps
<1>5. new.netint = n
  BY <1>2, <1>3 DEF SourceAfterPap, TrackedSource
<1> HIDE DEF new
<1> QED
  BY <1>1, <1>4, <1>5, PacketEvents DEF Core

\* A tick drops the sources that are lost or erased.
LEMMA TickEvents ==
  ASSUME Core, Misc, Tick
  PROVE  \E gone \in SUBSET Events!Known, ends \in BOOLEAN : Events!Tick(gone, ends)
<1>1. PICK first \in Sources : ProcessReceiverSources(first)
  BY DEF Tick
<1> DEFINE all == ExpiredSources(TermSetsAtTick(first)) \cup ToErase
<1>2. /\ DOMAIN sources' = DOMAIN sources \ all
      /\ \A s \in DOMAIN sources \ all :
            sources'[s] = IF s \in OnlineSources
                            THEN [sources[s] EXCEPT !.dmx_received = FALSE]
                            ELSE sources[s]
  BY <1>1 DEF ProcessReceiverSources, Tracked
<1> HIDE DEF all
<1> DEFINE gone == DOMAIN sources \cap all
<1>3. DOMAIN sources' = DOMAIN sources \ gone
  BY <1>2
<1>4. ASSUME NEW s \in DOMAIN sources \ gone
      PROVE  View(sources'[s]) = View(sources[s])
  <2>1. sources[s] \in TrackedSource
    BY DEF Core, IsTable
  <2>2. /\ [sources[s] EXCEPT !.dmx_received = FALSE].netint = sources[s].netint
        /\ [sources[s] EXCEPT !.dmx_received = FALSE].recv_state
             = sources[s].recv_state
    BY <2>1 DEF TrackedSource
  <2>3. /\ sources'[s].netint = sources[s].netint
        /\ sources'[s].recv_state = sources[s].recv_state
    BY <1>2, <2>2
  <2> QED
    BY <2>3 DEF View
<1>5. DOMAIN Views(sources) = DOMAIN sources
  BY DEF Views
<1>6. Views(sources') = Events!Restrict(Views(sources), DOMAIN Views(sources) \ gone)
  BY <1>3, <1>4, <1>5 DEF Views, Events!Restrict
<1>7. /\ sampling' = IF SamplingEnds THEN sp_future # {} ELSE sampling
      /\ sp_current' = IF SamplingEnds THEN sp_future ELSE sp_current
      /\ sp_future' = IF SamplingEnds THEN {} ELSE sp_future
      /\ notified_sampling_started' = TRUE
      /\ netints' = netints
  BY DEF Tick, ProcessSampling, EndCurrentSamplingPeriod
<1>8. PICK ends \in BOOLEAN : ends <=> SamplingEnds
  OBVIOUS
<1>9. ends => sampling
  BY <1>8 DEF SamplingEnds
<1>10. gone \in SUBSET DOMAIN Views(sources)
  BY <1>5
<1> HIDE DEF gone
<1>11. Events!Tick(gone, ends)
  BY <1>6, <1>7, <1>8, <1>9, <1>10
     DEF Events!Tick, Events!Known, Views, View, Tracked, IsWaiting
<1>12. gone \in SUBSET Events!Known
  BY <1>10 DEF Events!Known, Views, View, Tracked, IsWaiting
<1> QED
  BY <1>11, <1>12

\* The calls that change the interfaces leave the view of the sources alone.
LEMMA ResetNetworkingEvents ==
  ASSUME Core, NEW listed \in SUBSET Netints, NEW usable \in SUBSET listed,
         ResetNetworking(listed, usable)
  PROVE  Events!ReceiverResetNetworking(listed, usable)
<1>1. \A s \in DOMAIN sources : sources[s] \in TrackedSource
  BY DEF Core, IsTable
<1>2. /\ DOMAIN sources' = DOMAIN sources
      /\ \A s \in DOMAIN sources :
            /\ sources'[s].netint = sources[s].netint
            /\ sources'[s].recv_state = sources[s].recv_state
  BY <1>1 DEF ResetNetworking, TerminateSourcesNotOn, Terminated, Tracked, TrackedSource
<1>3. Views(sources') = Views(sources)
  BY <1>2, SameViews
<1> QED
  BY <1>3 DEF ResetNetworking, UpdateSamplingPeriodNetints, BeginSamplingPeriod,
     Events!ReceiverResetNetworking, Events!BeginPeriod, Views, View, Tracked, IsWaiting

LEMMA ChangeUniverseEvents ==
  ASSUME ChangeUniverse
  PROVE  Events!ReceiverChangeUniverse
<1>1. sources' = << >>
  BY DEF ChangeUniverse
<1>2. Views(sources') = << >>
  BY <1>1 DEF Views
<1> QED
  BY <1>2 DEF ChangeUniverse, BeginSamplingPeriod, Events!ReceiverChangeUniverse,
     Events!BeginPeriod, Views, View, Tracked, IsWaiting

LEMMA ElapseEvents ==
  ASSUME Core, Elapse
  PROVE  UNCHANGED Events!rcvVars
<1>1. \A s \in DOMAIN sources : sources[s] \in TrackedSource
  BY DEF Core, IsTable
<1>2. /\ DOMAIN sources' = DOMAIN sources
      /\ \A s \in DOMAIN sources :
            /\ sources'[s].netint = sources[s].netint
            /\ sources'[s].recv_state = sources[s].recv_state
  BY <1>1 DEF Elapse, Tracked, TrackedSource
<1>3. Views(sources') = Views(sources)
  BY <1>2, SameViews
<1> QED
  BY <1>3 DEF Elapse, Views, View, Tracked, IsWaiting, Events!rcvVars

\* Every packet is one of ReceiverEvents, or one it does not see.
LEMMA DataPacketEvents ==
  ASSUME Core, Misc, NEW s \in Sources, DataPacket(s)
  PROVE  [Events!Next]_(Events!rcvVars)
<1>1. PICK n \in Netints :
         \/ \E term \in BOOLEAN : TerminatedPacket(s, n, term)
         \/ OutOfSequenceOrOther(s, n)
         \/ \E p \in BOOLEAN : NullStartCode(s, n, p)
         \/ \E p \in BOOLEAN : PapPacket(s, n, p)
         \/ \E sc \in StartCodes :
               \/ \E p \in BOOLEAN : NewSource(s, n, sc, p)
               \/ NoRoomForSource(s, n, sc)
  BY DEF DataPacket
<1>2. IsTable(sources) /\ sampling \in BOOLEAN
  BY DEF Core, Misc
<1>3. ASSUME Accepts(s, n)
      PROVE  /\ On(s, n) \in TrackedSource /\ On(s, n).netint = n
             /\ On(s, n).recv_state = sources[s].recv_state
             /\ Terminated(On(s, n)).netint = n
             /\ Terminated(On(s, n)).recv_state = sources[s].recv_state
  <2>1. s \in Tracked
    BY <1>3 DEF Accepts
  <2>2. On(s, n) \in TrackedSource /\ On(s, n).recv_state = sources[s].recv_state
    BY <2>1, OnKeeps
  <2>3. On(s, n).netint = n
    BY <2>1, <1>2 DEF IsTable, Tracked, On, TrackedSource
  <2>4. /\ Terminated(On(s, n)).netint = On(s, n).netint
        /\ Terminated(On(s, n)).recv_state = On(s, n).recv_state
    BY <2>2 DEF Terminated, TrackedSource
  <2> QED
    BY <2>2, <2>3, <2>4
<1>4. ASSUME NEW term \in BOOLEAN, TerminatedPacket(s, n, term)
      PROVE  Events!NothingNew(s, n)
  <2> DEFINE new == IF term THEN Terminated(On(s, n)) ELSE On(s, n)
  <2>1. Accepts(s, n) /\ SetSource(s, new) /\ UNCHANGED samplingVars
    BY <1>4 DEF TerminatedPacket
  <2>2. new.netint = n /\ new.recv_state = sources[s].recv_state
    BY <1>3, <2>1
  <2> HIDE DEF new
  <2> QED
    BY <1>2, <2>1, <2>2, PacketEvents
<1>5. CASE OutOfSequenceOrOther(s, n)
  <2>1. Accepts(s, n) /\ SetSource(s, On(s, n)) /\ UNCHANGED samplingVars
    BY <1>5 DEF OutOfSequenceOrOther
  <2>2. Events!NothingNew(s, n)
    BY <1>2, <1>3, <2>1, PacketEvents
  <2> QED
    BY <2>2 DEF Events!Next
<1>6. ASSUME NEW p \in BOOLEAN, NullStartCode(s, n, p)
      PROVE  Events!Next
  BY <1>6, NullStartCodeEvents DEF Events!Next
<1>7. ASSUME NEW p \in BOOLEAN, PapPacket(s, n, p)
      PROVE  Events!Next
  BY <1>7, PapPacketEvents DEF Events!Next
<1>8. ASSUME NEW sc \in StartCodes, NEW p \in BOOLEAN, NewSource(s, n, sc, p)
      PROVE  Events!Next
  <2>1. Events!NewSource(s, n, sc = Pap) /\ (sc = Pap) \in BOOLEAN
    BY <1>2, <1>8, NewSourceEvents
  <2> QED
    BY <2>1 DEF Events!Next
<1>9. ASSUME NEW sc \in StartCodes, NoRoomForSource(s, n, sc)
      PROVE  UNCHANGED Events!rcvVars
  <2>1. sources' = sources /\ UNCHANGED samplingVars
    BY <1>9 DEF NoRoomForSource
  <2>2. Views(sources') = Views(sources)
    BY <2>1
  <2> QED
    BY <2>1, <2>2, UnseenStep
<1>10. ASSUME NEW term \in BOOLEAN, TerminatedPacket(s, n, term)
       PROVE  Events!Next
  BY <1>4, <1>10 DEF Events!Next
<1> QED
  BY <1>1, <1>5, <1>6, <1>7, <1>8, <1>9, <1>10

LEMMA NextEvents ==
  ASSUME IInv, [Next]_vars
  PROVE  [Events!Next]_(Events!rcvVars)
<1> USE DEF IInv
<1>1. ASSUME NEW s \in Sources, DataPacket(s) PROVE [Events!Next]_(Events!rcvVars)
  BY <1>1, DataPacketEvents
<1>2. CASE Tick
  BY <1>2, TickEvents DEF Events!Next
<1>3. CASE Elapse
  BY <1>3, ElapseEvents
<1>4. CASE ChangeUniverse
  BY <1>4, ChangeUniverseEvents DEF Events!Next
<1>5. CASE NetworkingCall
  BY <1>5, ResetNetworkingEvents DEF NetworkingCall, Events!Next
<1>6. ASSUME NEW wait, SetExpiredWait(wait) PROVE UNCHANGED Events!rcvVars
  <2>1. sources' = sources /\ UNCHANGED samplingVars
    BY <1>6 DEF SetExpiredWait, srcVars
  <2>2. Views(sources') = Views(sources)
    BY <2>1
  <2> QED
    BY <2>1, <2>2, UnseenStep
<1>7. CASE UNCHANGED vars
  <2>1. sources' = sources /\ UNCHANGED samplingVars
    BY <1>7 DEF vars, srcVars, samplingVars
  <2>2. Views(sources') = Views(sources)
    BY <2>1
  <2> QED
    BY <2>1, <2>2, UnseenStep
<1> QED
  BY <1>1, <1>2, <1>3, <1>4, <1>5, <1>6, <1>7 DEF Next, AppCall

LEMMA InitEvents == Init => Events!ReceiverInit
<1> SUFFICES ASSUME Init PROVE Events!ReceiverInit
  OBVIOUS
<1>1. Views(sources) = << >>
  BY DEF Init, Views
<1> QED
  BY <1>1 DEF Init, Events!ReceiverInit, Views, View, Tracked, IsWaiting

\* The receiver (receiver_state.c) is a behaviour of ReceiverEvents, the
\* receiver as the merge receiver sees it: whatever its timers, termination
\* sets and source limit do is a choice among the events of that module.
THEOREM ReceiverImplementsEvents == Spec => ImplementsEvents
<1>1. IInv /\ [Next]_vars => [Events!Next]_(Events!rcvVars)
  BY NextEvents
<1> QED
  BY <1>1, InvHolds, InitEvents, PTL DEF Spec, ImplementsEvents, Events!Spec
-----------------------------------------------------------------------------
(***************************************************************************)
(* The sampling period.                                                    *)
(***************************************************************************)

\* The application sees the period as the receiver does once it was told of its
\* start; until then the period cannot have ended, if a tick comes in time.
Sampled ==
    /\ SamplingIsConsistent
    /\ ~notified_sampling_started =>
          sampling /\ sample_timer + since_tick >= SampleTime

LEMMA PacketSampled ==
    ASSUME NEW s \in Sources, DataPacket(s)
    PROVE  UNCHANGED <<sampling, notified_sampling_started, sample_timer, netints,
                       sp_current, sp_future, app_sampling, since_tick>>
<1>1. UNCHANGED <<samplingVars, since_tick>>
  BY DEF DataPacket, TerminatedPacket, OutOfSequenceOrOther, NullStartCode,
         PapPacket, NewSource, NoRoomForSource
<1> QED
  BY <1>1 DEF samplingVars

LEMMA TickSampled ==
    ASSUME MaxTickDelay < SampleTime, IInv, Sampled, Tick
    PROVE  Sampled'
<1>1. /\ sampling \in BOOLEAN /\ app_sampling \in BOOLEAN
      /\ notified_sampling_started \in BOOLEAN
      /\ sample_timer \in Nat /\ since_tick \in 0..MaxTickDelay
      /\ MaxTickDelay \in Nat /\ SampleTime \in Nat
  BY ReceiverAssumption DEF IInv, Misc
<1>2. ProcessSampling
  BY DEF Tick
<1>3. ~notified_sampling_started => sampling /\ ~SamplingEnds
  BY <1>1 DEF Sampled, SamplingEnds
<1>4. notified_sampling_started' = TRUE
  BY <1>2 DEF ProcessSampling
<1>5. CASE SamplingEnds
  <2>1. /\ sp_current' = sp_future /\ sp_future' = {}
        /\ sampling' = (sp_future # {})
        /\ app_sampling' = (SamplingStarts \/ (app_sampling /\ ~SamplingEnds))
    BY <1>2, <1>5 DEF ProcessSampling, EndCurrentSamplingPeriod
  <2>2. SamplingStarts <=> sp_future # {}
    BY <1>3, <1>5 DEF SamplingStarts
  <2> QED
    BY <1>4, <1>5, <2>1, <2>2
    DEF Sampled, SamplingIsConsistent, SamplingViewOK, FutureNeedsSampling
<1>6. CASE ~SamplingEnds
  <2>1. /\ UNCHANGED <<sp_current, sp_future, sampling>>
        /\ app_sampling' = (SamplingStarts \/ (app_sampling /\ ~SamplingEnds))
    BY <1>2, <1>6 DEF ProcessSampling
  <2>2. app_sampling' = sampling
    BY <1>1, <1>3, <1>6, <2>1
    DEF SamplingStarts, Sampled, SamplingIsConsistent, SamplingViewOK
  <2> QED
    BY <1>4, <2>1, <2>2
    DEF Sampled, SamplingIsConsistent, SamplingViewOK, FutureNeedsSampling
<1> QED
  BY <1>5, <1>6

LEMMA ElapseSampled ==
    ASSUME IInv, Sampled, Elapse
    PROVE  Sampled'
<1>1. /\ sample_timer \in Nat /\ since_tick \in 0..MaxTickDelay
      /\ MaxTickDelay \in Nat /\ SampleTime \in Nat
  BY ReceiverAssumption DEF IInv, Misc
<1>2. /\ UNCHANGED <<sampling, notified_sampling_started, sp_current, sp_future,
                     app_sampling>>
      /\ sample_timer' = Age(sample_timer) /\ since_tick' = since_tick + 1
  BY DEF Elapse
<1>3. sample_timer' + since_tick' >= sample_timer + since_tick
  BY <1>1, <1>2 DEF Age
<1>4. sample_timer' \in Nat /\ since_tick' \in Nat
  BY <1>1, <1>2 DEF Age
<1> QED
  BY <1>1, <1>2, <1>3, <1>4
  DEF Sampled, SamplingIsConsistent, SamplingViewOK, FutureNeedsSampling

LEMMA BeginSampled ==
    ASSUME IInv, Sampled, BeginSamplingPeriod, UNCHANGED <<since_tick, app_sampling>>
    PROVE  Sampled'
<1>1. /\ sampling \in BOOLEAN /\ notified_sampling_started \in BOOLEAN
      /\ since_tick \in 0..MaxTickDelay
      /\ MaxTickDelay \in Nat /\ SampleTime \in Nat
  BY ReceiverAssumption DEF IInv, Misc
<1>2. CASE sampling
  BY <1>1, <1>2
  DEF BeginSamplingPeriod, Sampled, SamplingIsConsistent, SamplingViewOK,
      FutureNeedsSampling
<1>3. CASE ~sampling
  <2>1. /\ sampling' = TRUE /\ ~notified_sampling_started'
        /\ sample_timer' = SampleTime /\ since_tick' = since_tick
    BY <1>3 DEF BeginSamplingPeriod
  <2>2. sample_timer' + since_tick' >= SampleTime
    BY <1>1, <2>1
  <2> QED
    BY <2>1, <2>2
    DEF Sampled, SamplingIsConsistent, SamplingViewOK, FutureNeedsSampling
<1> QED
  BY <1>1, <1>2, <1>3

LEMMA NextSampled ==
    ASSUME MaxTickDelay < SampleTime, IInv, Sampled, [Next]_vars
    PROVE  Sampled'
<1>1. CASE UNCHANGED <<sampling, notified_sampling_started, sample_timer,
                       sp_current, sp_future, app_sampling, since_tick>>
  BY <1>1 DEF Sampled, SamplingIsConsistent, SamplingViewOK, FutureNeedsSampling
<1>2. ASSUME NEW s \in Sources, DataPacket(s) PROVE Sampled'
  BY <1>1, <1>2, PacketSampled
<1>3. CASE Tick
  BY <1>3, TickSampled
<1>4. CASE Elapse
  BY <1>4, ElapseSampled
<1>5. CASE ChangeUniverse
  BY <1>5, BeginSampled DEF ChangeUniverse
<1>6. CASE NetworkingCall
  BY <1>6, BeginSampled DEF NetworkingCall, ResetNetworking
<1>7. ASSUME NEW wait \in ExpiredWaits, SetExpiredWait(wait) PROVE Sampled'
  BY <1>1, <1>7 DEF SetExpiredWait, samplingVars
<1>8. CASE UNCHANGED vars
  BY <1>1, <1>8 DEF vars, samplingVars
<1> QED
  BY <1>2, <1>3, <1>4, <1>5, <1>6, <1>7, <1>8 DEF Next, AppCall

\* The sampling period the application is told of is the receiver's, and no
\* interface waits for a period that does not come (receiver_state.c,
\* process_receivers, begin_sampling_period, end_current_sampling_period), if
\* the ticks are closer than the sample time.
THEOREM ReceiverSamplingConsistent ==
    ASSUME MaxTickDelay < SampleTime
    PROVE  Spec => []SamplingIsConsistent
<1>1. Init => Sampled
  <2> SUFFICES ASSUME Init PROVE Sampled
    OBVIOUS
  <2>1. sampling = TRUE /\ ~notified_sampling_started
    BY DEF Init
  <2>2. sample_timer + since_tick >= SampleTime
    BY ReceiverAssumption DEF Init
  <2> QED
    BY <2>1, <2>2
    DEF Sampled, SamplingIsConsistent, SamplingViewOK, FutureNeedsSampling
<1>2. IInv /\ Sampled /\ [Next]_vars => Sampled'
  BY NextSampled
<1>3. Sampled => SamplingIsConsistent
  BY DEF Sampled
<1> QED
  BY <1>1, <1>2, <1>3, InvHolds, PTL DEF Spec

\* With the age of its sampling an interface of the period makes up for what is
\* left of the timer, unless the period was hurried.
AgesFit ==
    /\ FutureNeedsSampling
    /\ sample_age \in [Netints -> 0..SampleTime]
    /\ \A n \in sp_current \ hurried : sample_age[n] + sample_timer >= SampleTime

\* What SampledInFull says of a step.
Completed ==
    \A n \in sp_current \ sp_current' :
        n \in netints' /\ n \notin hurried => sample_age[n] = SampleTime

\* The ages after a step.
LEMMA AgeResult ==
    ASSUME AgesFit, NEW e \in {0, 1}, AgeInterfaces(e)
    PROVE  /\ sample_age' \in [Netints -> 0..SampleTime]
           /\ \A n \in Netints : n \in sp_current /\ n \in sp_current' =>
                 (sample_age[n] = SampleTime /\ sample_age'[n] = SampleTime)
                 \/ sample_age'[n] = sample_age[n] + e
<1>1. SampleTime \in Nat /\ \A n \in Netints : sample_age[n] \in 0..SampleTime
  BY ReceiverAssumption DEF AgesFit
<1>2. sample_age' = [n \in Netints |->
        IF n \notin sp_current \cap sp_current' THEN 0
        ELSE IF sample_age[n] = SampleTime THEN SampleTime
        ELSE sample_age[n] + e]
  BY DEF AgeInterfaces
<1>3. ASSUME NEW n \in Netints PROVE sample_age'[n] \in 0..SampleTime
  BY <1>1, <1>2, <1>3
<1> QED
  BY <1>1, <1>2, <1>3

\* A step that leaves the period as it is.
LEMMA QuietAges ==
    ASSUME IInv, AgesFit, AgeInterfaces(0),
           UNCHANGED <<sampling, sample_timer, sp_current, sp_future>>,
           hurried' = hurried
    PROVE  AgesFit' /\ Completed
<1>1. FutureNeedsSampling'
  BY DEF AgesFit, FutureNeedsSampling
<1>2. /\ sample_age' \in [Netints -> 0..SampleTime]
      /\ \A n \in Netints : n \in sp_current =>
            sample_age'[n] = sample_age[n] \/ sample_age'[n] = sample_age[n] + 0
  BY AgeResult
<1>3. /\ SampleTime \in Nat /\ sp_current \subseteq Netints
      /\ \A n \in Netints : sample_age[n] \in 0..SampleTime
  BY ReceiverAssumption DEF AgesFit, IInv, Misc
<1>4. \A n \in sp_current : sample_age'[n] = sample_age[n]
  BY <1>2, <1>3
<1> QED
  BY <1>1, <1>2, <1>4 DEF AgesFit, Completed

LEMMA SamplingElapseAges ==
    ASSUME IInv, AgesFit, SamplingElapse
    PROVE  AgesFit' /\ Completed
<1>1. /\ UNCHANGED <<sampling, sp_current, sp_future, hurried>>
      /\ sample_timer' = Age(sample_timer)
      /\ AgeInterfaces(1)
  BY DEF SamplingElapse, Elapse
<1>2. FutureNeedsSampling'
  BY <1>1 DEF AgesFit, FutureNeedsSampling
<1>3. /\ SampleTime \in Nat /\ sample_timer \in Nat /\ sp_current \subseteq Netints
      /\ \A n \in Netints : sample_age[n] \in 0..SampleTime
  BY ReceiverAssumption DEF AgesFit, IInv, Misc
<1>4. /\ sample_age' \in [Netints -> 0..SampleTime]
      /\ \A n \in Netints : n \in sp_current =>
            sample_age'[n] = SampleTime \/ sample_age'[n] = sample_age[n] + 1
  BY <1>1, AgeResult
<1>5. ASSUME NEW n \in sp_current \ hurried
      PROVE  sample_age'[n] + sample_timer' >= SampleTime
  <2>1. sample_age[n] + sample_timer >= SampleTime
    BY DEF AgesFit
  <2>2. /\ sample_age[n] \in Nat
        /\ sample_age'[n] = SampleTime \/ sample_age'[n] = sample_age[n] + 1
    BY <1>3, <1>4
  <2> QED
    BY <1>1, <1>3, <2>1, <2>2 DEF Age
<1> QED
  BY <1>1, <1>2, <1>4, <1>5 DEF AgesFit, Completed

LEMMA SamplingTickAges ==
    ASSUME IInv, AgesFit, SamplingTick
    PROVE  AgesFit' /\ Completed
<1>1. ProcessSampling /\ AgeInterfaces(0)
  BY DEF SamplingTick, Tick
<1>2. CASE SamplingEnds
  <2>1. /\ sp_current' = sp_future /\ sp_future' = {}
        /\ sampling' = (sp_future # {})
        /\ sp_future # {} => sample_timer' = SampleTime
        /\ sample_timer = 0
    BY <1>1, <1>2
    DEF ProcessSampling, EndCurrentSamplingPeriod, SamplingEnds
  <2>2. /\ SampleTime \in Nat /\ sp_future \subseteq Netints
        /\ sp_current \subseteq Netints
        /\ \A n \in Netints : sample_age[n] \in 0..SampleTime
    BY ReceiverAssumption DEF AgesFit, IInv, Misc
  <2>3. sample_age' \in [Netints -> 0..SampleTime]
    BY <1>1, AgeResult
  <2>4. \A n \in sp_current' : sample_age'[n] + sample_timer' >= SampleTime
    BY <2>1, <2>2, <2>3
  <2>5. \A n \in sp_current \ hurried : sample_age[n] = SampleTime
    BY <2>1, <2>2 DEF AgesFit
  <2> QED
    BY <2>1, <2>3, <2>4, <2>5 DEF AgesFit, FutureNeedsSampling, Completed
<1>3. CASE ~SamplingEnds
  <2>1. UNCHANGED <<sampling, sample_timer, sp_current, sp_future, hurried>>
    BY <1>1, <1>3 DEF ProcessSampling, SamplingTick
  <2> QED
    BY <1>1, <2>1, QuietAges
<1> QED
  BY <1>2, <1>3

LEMMA SamplingChangeUniverseAges ==
    ASSUME IInv, AgesFit, SamplingChangeUniverse
    PROVE  AgesFit' /\ Completed
<1>1. /\ sp_current' = netints /\ sp_future' = {} /\ netints' = netints
      /\ sampling' = TRUE
      /\ sample_timer' = IF sampling THEN sample_timer ELSE SampleTime
      /\ AgeInterfaces(0)
      /\ hurried' = IF sampling THEN netints ELSE {}
  BY DEF SamplingChangeUniverse, ChangeUniverse, BeginSamplingPeriod
<1>2. sample_age' \in [Netints -> 0..SampleTime]
  BY <1>1, AgeResult
<1>3. SampleTime \in Nat /\ netints \subseteq Netints
  BY ReceiverAssumption DEF IInv, Misc
<1>4. \A n \in sp_current' \ hurried' :
         sample_age'[n] + sample_timer' >= SampleTime
  BY <1>1, <1>2, <1>3
<1> QED
  BY <1>1, <1>2, <1>4 DEF AgesFit, FutureNeedsSampling, Completed

LEMMA NetworkingAges ==
    ASSUME IInv, AgesFit, NetworkingCall, AgeInterfaces(0), hurried' = hurried
    PROVE  AgesFit' /\ Completed
<1>1. PICK listed \in SUBSET Netints :
         \E usable \in SUBSET listed : ResetNetworking(listed, usable)
  BY DEF NetworkingCall
<1>7. PICK usable \in SUBSET listed : ResetNetworking(listed, usable)
  BY <1>1
<1>2. /\ UpdateSamplingPeriodNetints(listed, usable)
      /\ netints' = usable /\ sampling' = TRUE
      /\ sample_timer' = IF sampling THEN sample_timer ELSE SampleTime
  BY <1>7 DEF ResetNetworking, BeginSamplingPeriod
<1>3. /\ sample_age' \in [Netints -> 0..SampleTime]
      /\ \A n \in Netints : n \in sp_current /\ n \in sp_current' =>
            sample_age'[n] = sample_age[n] \/ sample_age'[n] = sample_age[n] + 0
  BY AgeResult
<1>4. /\ SampleTime \in Nat /\ sp_current' \subseteq Netints
      /\ \A n \in Netints : sample_age[n] \in 0..SampleTime
  <2>1. sp_current \subseteq Netints
    BY DEF IInv, Misc
  <2> QED
    BY <1>2, <2>1, ReceiverAssumption DEF UpdateSamplingPeriodNetints, AgesFit
<1>5. ASSUME NEW n \in sp_current' \ hurried'
      PROVE  sample_age'[n] + sample_timer' >= SampleTime
  <2>1. CASE sampling
    <3>1. n \in sp_current \ hurried /\ n \in Netints
      BY <1>2, <1>4, <2>1 DEF UpdateSamplingPeriodNetints
    <3>2. sample_age'[n] = sample_age[n]
      BY <1>3, <1>4, <3>1
    <3> QED
      BY <1>2, <2>1, <3>1, <3>2 DEF AgesFit
  <2>2. CASE ~sampling
    <3>1. n \in Netints /\ sample_age'[n] \in 0..SampleTime
      BY <1>3, <1>4
    <3> QED
      BY <1>2, <1>4, <2>2, <3>1
  <2> QED
    BY <2>1, <2>2
<1>6. Completed
  BY <1>2 DEF UpdateSamplingPeriodNetints, Completed
<1> QED
  BY <1>2, <1>3, <1>5, <1>6 DEF AgesFit, FutureNeedsSampling

LEMMA SamplingAges ==
    ASSUME IInv, AgesFit, [SamplingNext]_<<vars, samplingHistory>>
    PROVE  AgesFit' /\ Completed
<1>1. CASE SamplingElapse
  BY <1>1, SamplingElapseAges
<1>2. CASE SamplingTick
  BY <1>2, SamplingTickAges
<1>3. CASE SamplingChangeUniverse
  BY <1>3, SamplingChangeUniverseAges
<1>4. ASSUME NEW s \in Sources, DataPacket(s), AgeInterfaces(0), hurried' = hurried
      PROVE  AgesFit' /\ Completed
  BY <1>4, PacketSampled, QuietAges
<1>5. ASSUME NetworkingCall, AgeInterfaces(0), hurried' = hurried
      PROVE  AgesFit' /\ Completed
  BY <1>5, NetworkingAges
<1>6. CASE UNCHANGED <<vars, samplingHistory>>
  <2>1. UNCHANGED <<sampling, sample_timer, sp_current, sp_future, sample_age,
                    hurried>>
    BY <1>6 DEF vars, samplingVars, samplingHistory
  <2> QED
    BY <2>1 DEF AgesFit, FutureNeedsSampling, Completed
<1> QED
  BY <1>1, <1>2, <1>3, <1>4, <1>5, <1>6 DEF SamplingNext, SamplingOther

\* An interface stays in the sampling period for the whole sample time, unless
\* it is removed or a change of universe cuts the period short
\* (receiver_state.c, begin_sampling_period, end_current_sampling_period;
\* receiver.c, update_sampling_period_netints).
THEOREM ReceiverSampledInFull == SamplingSpec => SampledInFull
<1>1. SamplingSpec => Spec
  <2>1. SamplingInit => Init
    BY DEF SamplingInit
  <2>2. [SamplingNext]_<<vars, samplingHistory>> => [Next]_vars
    BY DEF SamplingNext, SamplingElapse, SamplingTick, SamplingChangeUniverse,
           SamplingOther, Next, AppCall
  <2> QED
    BY <2>1, <2>2, PTL DEF SamplingSpec, Spec
<1>2. SamplingInit => AgesFit
  <2>1. SampleTime \in Nat /\ 0 \in 0..SampleTime
    BY ReceiverAssumption
  <2>2. SamplingInit => sample_age \in [Netints -> 0..SampleTime]
    BY <2>1 DEF SamplingInit
  <2>3. SamplingInit => \A n \in sp_current :
           sample_age[n] + sample_timer >= SampleTime
    BY <2>1 DEF SamplingInit, Init
  <2> QED
    BY <2>2, <2>3 DEF SamplingInit, Init, AgesFit, FutureNeedsSampling
<1>3. /\ IInv /\ AgesFit /\ [SamplingNext]_<<vars, samplingHistory>> => AgesFit'
      /\ IInv /\ AgesFit /\ [SamplingNext]_<<vars, samplingHistory>> =>
            [Completed]_<<vars, samplingHistory>>
  BY SamplingAges
<1>4. SamplingSpec => [][Completed]_<<vars, samplingHistory>>
  BY <1>1, <1>2, <1>3, InvHolds, PTL DEF SamplingSpec
<1> QED
  BY <1>4 DEF SampledInFull, Completed
-----------------------------------------------------------------------------
(***************************************************************************)
(* How late a loss can be reported.                                        *)
(***************************************************************************)

\* The waits have a longest one.
Bounded ==
    \E w \in ExpiredWaits \cup {LossTimeout} :
        \A x \in ExpiredWaits \cup {LossTimeout} : x <= w

Deadline == LongestWait + MaxTickDelay

\* A timer that runs has enough left of the deadline to expire in.
Spare(due, timer) == timer > 0 => due + timer <= Deadline

\* A member of t that is due by that much meets the deadline: while it waits
\* for the set or for one of the members that have not been heard, the timer it
\* waits for leaves enough.
Meets(S, t, due, tick) ==
    /\ due <= Deadline + tick
    /\ Spare(due, t.wait)
    /\ \A m \in t.members : S[m].dmx_received \/ Spare(due, S[m].packet_timer)

\* The inductive invariant, of the sources, the termination sets, the history
\* and the time since the last tick.
Timely(S, T, due, tick) ==
    /\ due \in [Sources -> Nat]
    /\ \A t \in T : t.wait <= LongestWait
    /\ \A s \in DOMAIN S : S[s].packet_timer <= LossTimeout
    /\ \A s \in Sources : due[s] # 0 => s \in DOMAIN S /\ S[s].packet_timer = 0
    /\ \A s \in DOMAIN S : due[s] <= tick \/ \E t \in T : s \in t.offline
    /\ \A t \in T : \A s \in t.offline : Meets(S, t, due[s], tick)

TimelyNow == Timely(sources, term_sets, overdue, since_tick)

LEMMA LongestWaitBounds ==
    ASSUME Bounded
    PROVE  /\ LongestWait \in Nat /\ LossTimeout <= LongestWait
           /\ \A w \in ExpiredWaits : w <= LongestWait
           /\ MaxTickDelay \in Nat /\ Deadline \in Nat
<1>1. /\ LongestWait \in ExpiredWaits \cup {LossTimeout}
      /\ \A x \in ExpiredWaits \cup {LossTimeout} : x <= LongestWait
  BY DEF Bounded, LongestWait
<1>2. LongestWait \in Nat /\ MaxTickDelay \in Nat
  BY <1>1, ReceiverAssumption
<1>3. Deadline \in Nat
  BY <1>2 DEF Deadline
<1> QED
  BY <1>1, <1>2, <1>3

\* The types of the values the invariant is about.
LEMMA TimelyTypes ==
    ASSUME Core
    PROVE  /\ DOMAIN sources \subseteq Sources
           /\ \A s \in DOMAIN sources : sources[s].packet_timer \in Nat
           /\ \A t \in term_sets :
                 /\ t.wait \in Nat
                 /\ t.members \subseteq DOMAIN sources
                 /\ t.offline \subseteq t.members
                 /\ \A u \in term_sets : u = t \/ u.members \cap t.members = {}
BY DEF Core, IsTable, SetsFit, Sound, Past, TerminationSet, TrackedSource

\* What a step does to the history.
LEMMA DueStep ==
    ASSUME overdue \in [Sources -> Nat], DeadlineNext, NEW e \in Nat, e = Elapsed
    PROVE  /\ overdue' \in [Sources -> Nat]
           /\ \A s \in Sources :
                 \/ overdue'[s] = 0
                 \/ /\ overdue'[s] = overdue[s] + e
                    /\ s \in DOMAIN sources' /\ sources'[s].packet_timer = 0
<1>1. overdue' = [s \in Sources |->
          IF s \in Tracked /\ s \in Tracked' /\ IsExpired(s) /\ IsExpired(s)'
            THEN overdue[s] + e ELSE 0]
  BY DEF DeadlineNext
<1>2. \A s \in Sources :
          IF s \in Tracked /\ s \in Tracked' /\ IsExpired(s) /\ IsExpired(s)'
            THEN overdue'[s] = overdue[s] + e ELSE overdue'[s] = 0
  BY <1>1
<1>3. \A s \in Sources : overdue'[s] \in Nat
  BY <1>2
<1>4. overdue' \in [Sources -> Nat]
  BY <1>1, <1>3
<1> QED
  BY <1>2, <1>4 DEF Tracked, IsExpired

\* A step between ticks in which no time passes: what has not been heard has no
\* more of its timer left than before.
LEMMA QuietTimely ==
    ASSUME Bounded, Core, TimelyNow, DeadlineNext,
           term_sets' = term_sets, since_tick' = since_tick, since_tick \in Nat,
           DOMAIN sources \subseteq DOMAIN sources', DOMAIN sources' \subseteq Sources,
           \A s \in DOMAIN sources' :
               /\ sources'[s].packet_timer \in Nat
               /\ sources'[s].packet_timer <= LossTimeout,
           \A s \in DOMAIN sources :
               \/ sources'[s].dmx_received
               \/ /\ ~sources[s].dmx_received
                  /\ sources'[s].packet_timer <= sources[s].packet_timer
    PROVE  TimelyNow'
<1>1. Elapsed = 0 /\ 0 \in Nat
  BY DEF Elapsed
<1>2. /\ overdue \in [Sources -> Nat]
      /\ \A t \in term_sets : t.wait <= LongestWait
      /\ \A s \in DOMAIN sources :
            overdue[s] <= since_tick \/ \E t \in term_sets : s \in t.offline
      /\ \A s \in Sources : overdue[s] # 0 => s \in DOMAIN sources
      /\ \A t \in term_sets : \A s \in t.offline :
            Meets(sources, t, overdue[s], since_tick)
  BY DEF TimelyNow, Timely
<1>3. /\ overdue' \in [Sources -> Nat]
      /\ \A s \in Sources :
            \/ overdue'[s] = 0
            \/ /\ overdue'[s] = overdue[s] + 0
               /\ s \in DOMAIN sources' /\ sources'[s].packet_timer = 0
  BY <1>1, <1>2, DueStep
<1>4. \A s \in Sources : overdue'[s] \in Nat /\ overdue'[s] <= overdue[s]
  BY <1>2, <1>3
<1>5. /\ DOMAIN sources \subseteq Sources
      /\ \A s \in DOMAIN sources : sources[s].packet_timer \in Nat
      /\ \A t \in term_sets :
            /\ t.wait \in Nat
            /\ t.members \subseteq DOMAIN sources
            /\ t.offline \subseteq t.members
  BY TimelyTypes
<1>6. LongestWait \in Nat /\ MaxTickDelay \in Nat /\ Deadline \in Nat
  BY LongestWaitBounds
<1>7. ASSUME NEW t \in term_sets, NEW s \in t.offline
      PROVE  Meets(sources', t, overdue'[s], since_tick)
  <2>1. /\ s \in Sources /\ overdue'[s] <= overdue[s]
        /\ overdue'[s] \in Nat /\ overdue[s] \in Nat
    BY <1>2, <1>4, <1>5
  <2>2. /\ overdue[s] <= Deadline + since_tick
        /\ t.wait > 0 => overdue[s] + t.wait <= Deadline
        /\ \A m \in t.members :
              \/ sources[m].dmx_received
              \/ sources[m].packet_timer > 0
                    => overdue[s] + sources[m].packet_timer <= Deadline
    BY <1>2 DEF Meets, Spare
  <2>3. /\ overdue'[s] <= Deadline + since_tick
        /\ t.wait > 0 => overdue'[s] + t.wait <= Deadline
    BY <1>5, <1>6, <2>1, <2>2
  <2>4. ASSUME NEW m \in t.members, ~sources'[m].dmx_received,
               sources'[m].packet_timer > 0
        PROVE  overdue'[s] + sources'[m].packet_timer <= Deadline
    <3>1. /\ m \in DOMAIN sources /\ m \in DOMAIN sources'
          /\ ~sources[m].dmx_received
          /\ sources'[m].packet_timer <= sources[m].packet_timer
      BY <1>5, <2>4
    <3>2. sources[m].packet_timer \in Nat /\ sources'[m].packet_timer \in Nat
      BY <1>5, <3>1
    <3>3. sources[m].packet_timer > 0
            => overdue[s] + sources[m].packet_timer <= Deadline
      BY <2>2, <3>1
    <3> HIDE <2>2, <2>3
    <3> QED
      BY <1>6, <2>1, <2>4, <3>1, <3>2, <3>3
  <2> QED
    BY <2>3, <2>4 DEF Meets, Spare
<1>8. ASSUME NEW s \in DOMAIN sources'
      PROVE  overdue'[s] <= since_tick \/ \E t \in term_sets : s \in t.offline
  <2>1. s \in Sources /\ overdue'[s] \in Nat /\ overdue[s] \in Nat
          /\ overdue'[s] <= overdue[s]
    BY <1>2, <1>4
  <2>2. CASE overdue[s] = 0
    BY <2>1, <2>2
  <2>3. CASE s \in DOMAIN sources
    BY <1>2, <2>1, <2>3
  <2> QED
    BY <1>2, <2>1, <2>2, <2>3
<1> QED
  BY <1>2, <1>3, <1>7, <1>8 DEF TimelyNow, Timely

\* A packet of a source starts its timer only where it marks it as heard.
Later(old, new) ==
    /\ new.packet_timer \in Nat
    /\ new.packet_timer <= LossTimeout
    /\ \/ new.dmx_received
       \/ ~old.dmx_received /\ new.packet_timer <= old.packet_timer

LEMMA LaterOn ==
    ASSUME Core, TimelyNow, NEW s \in Tracked
    PROVE  /\ Later(sources[s], sources[s])
           /\ \A n \in Netints : Later(sources[s], On(s, n))
           /\ Later(sources[s], Terminated(sources[s]))
           /\ \A n \in Netints : Later(sources[s], Terminated(On(s, n)))
           /\ \A n \in Netints : Later(sources[s], SourceAfterDmx(On(s, n)))
           /\ \A n \in Netints : Later(sources[s], SourceAfterPap(On(s, n)))
<1> DEFINE src == sources[s]
<1>1. /\ src \in TrackedSource /\ src.packet_timer <= LossTimeout
      /\ LossTimeout \in Nat
  BY ReceiverAssumption DEF Core, IsTable, TimelyNow, Timely, Tracked
<1> HIDE DEF src
<1>2. src.packet_timer \in Nat
  BY <1>1 DEF TrackedSource
<1>3. Later(src, src)
  BY <1>1, <1>2 DEF Later
<1>4. Later(src, Terminated(src))
  <2>1. /\ Terminated(src).packet_timer = 0
        /\ Terminated(src).dmx_received = src.dmx_received
    BY <1>1 DEF Terminated, TrackedSource
  <2>2. 0 \in Nat /\ 0 <= src.packet_timer /\ 0 <= LossTimeout
    BY <1>1, <1>2
  <2> QED
    BY <2>1, <2>2 DEF Later
<1>5. ASSUME NEW n \in Netints
      PROVE  /\ Later(src, On(s, n))
             /\ Later(src, Terminated(On(s, n)))
             /\ Later(src, SourceAfterDmx(On(s, n)))
             /\ Later(src, SourceAfterPap(On(s, n)))
  <2>1. On(s, n) = [src EXCEPT !.netint = n]
    BY DEF On, src
  <2>2. PICK x : x = On(s, n)
    OBVIOUS
  <2>3. /\ x \in TrackedSource
        /\ x.packet_timer = src.packet_timer
        /\ x.dmx_received = src.dmx_received
    BY <1>1, <2>1, <2>2 DEF TrackedSource
  <2>4. Later(src, x)
    BY <1>3, <2>3 DEF Later
  <2>5. Later(src, Terminated(x))
    <3>1. /\ Terminated(x).packet_timer = 0
          /\ Terminated(x).dmx_received = src.dmx_received
      BY <2>3 DEF Terminated, TrackedSource
    <3>2. 0 \in Nat /\ 0 <= src.packet_timer /\ 0 <= LossTimeout
      BY <1>1, <1>2
    <3> QED
      BY <3>1, <3>2 DEF Later
  <2>6. Later(src, SourceAfterDmx(x))
    <3>1. /\ SourceAfterDmx(x).packet_timer = LossTimeout
          /\ SourceAfterDmx(x).dmx_received = TRUE
      BY <2>3 DEF SourceAfterDmx, TrackedSource
    <3>2. LossTimeout <= LossTimeout
      BY <1>1
    <3> QED
      BY <1>1, <3>1, <3>2 DEF Later
  <2>7. Later(src, SourceAfterPap(x))
    <3>1. /\ SourceAfterPap(x).packet_timer = src.packet_timer
          /\ SourceAfterPap(x).dmx_received = src.dmx_received
      BY <2>3 DEF SourceAfterPap, TrackedSource
    <3> QED
      BY <1>3, <3>1 DEF Later
  <2> QED
    BY <2>2, <2>4, <2>5, <2>6, <2>7
<1> QED
  BY <1>3, <1>4, <1>5 DEF src

\* A packet replaces the entry of its source by a later one, adds a source, or
\* leaves the sources alone.
LEMMA PacketLater ==
    ASSUME Core, TimelyNow, NEW s \in Sources, DataPacket(s)
    PROVE  /\ term_sets' = term_sets /\ since_tick' = since_tick
           /\ DOMAIN sources \subseteq DOMAIN sources'
           /\ DOMAIN sources' \subseteq Sources
           /\ \A x \in DOMAIN sources : Later(sources[x], sources'[x])
           /\ \A x \in DOMAIN sources' \ DOMAIN sources :
                 /\ sources'[x].packet_timer \in Nat
                 /\ sources'[x].packet_timer <= LossTimeout
<1>1. PICK n \in Netints :
         \/ \E term \in BOOLEAN : TerminatedPacket(s, n, term)
         \/ OutOfSequenceOrOther(s, n)
         \/ Dmx \in StartCodes /\ \E p \in BOOLEAN : NullStartCode(s, n, p)
         \/ Pap \in StartCodes /\ \E p \in BOOLEAN : PapPacket(s, n, p)
         \/ \E sc \in StartCodes :
               \/ \E p \in BOOLEAN : NewSource(s, n, sc, p)
               \/ NoRoomForSource(s, n, sc)
  BY DEF DataPacket
<1>2. term_sets' = term_sets /\ since_tick' = since_tick
  BY <1>1 DEF TerminatedPacket, OutOfSequenceOrOther, NullStartCode, PapPacket,
              NewSource, NoRoomForSource
<1>3. /\ DOMAIN sources \subseteq Sources
      /\ \A x \in DOMAIN sources : Later(sources[x], sources[x])
  BY LaterOn DEF Core, IsTable, Tracked
<1>4. ASSUME s \in Tracked, NEW new, Later(sources[s], new), SetSource(s, new)
      PROVE  /\ DOMAIN sources' = DOMAIN sources
             /\ \A x \in DOMAIN sources : Later(sources[x], sources'[x])
  <2>1. /\ DOMAIN sources' = DOMAIN sources
        /\ sources'[s] = new
        /\ \A x \in DOMAIN sources \ {s} : sources'[x] = sources[x]
    BY <1>4 DEF SetSource, Tracked
  <2> QED
    BY <1>3, <1>4, <2>1
<1>5. CASE \E term \in BOOLEAN : TerminatedPacket(s, n, term)
  <2>1. /\ s \in Tracked
        /\ SetSource(s, Terminated(On(s, n))) \/ SetSource(s, On(s, n))
    BY <1>5 DEF TerminatedPacket, Accepts
  <2> QED
    BY <1>2, <1>3, <1>4, <2>1, LaterOn
<1>6. CASE OutOfSequenceOrOther(s, n)
  <2>1. s \in Tracked /\ SetSource(s, On(s, n))
    BY <1>6 DEF OutOfSequenceOrOther, Accepts
  <2> QED
    BY <1>2, <1>3, <1>4, <2>1, LaterOn
<1>7. CASE \E p \in BOOLEAN : NullStartCode(s, n, p)
  <2>1. s \in Tracked /\ SetSource(s, SourceAfterDmx(On(s, n)))
    BY <1>7 DEF NullStartCode, Accepts
  <2> QED
    BY <1>2, <1>3, <1>4, <2>1, LaterOn
<1>8. CASE \E p \in BOOLEAN : PapPacket(s, n, p)
  <2>1. s \in Tracked /\ SetSource(s, SourceAfterPap(On(s, n)))
    BY <1>8 DEF PapPacket, Accepts
  <2> QED
    BY <1>2, <1>3, <1>4, <2>1, LaterOn
<1>9. ASSUME NEW sc \in StartCodes, NEW p \in BOOLEAN, NewSource(s, n, sc, p)
      PROVE  /\ DOMAIN sources' = DOMAIN sources \cup {s} /\ s \notin DOMAIN sources
             /\ \A x \in DOMAIN sources : sources'[x] = sources[x]
             /\ sources'[s].packet_timer = LossTimeout
  <2>1. /\ s \notin Tracked
        /\ sources' = [x \in Tracked \cup {s} |->
                         IF x = s THEN NewTrackedSource(sc, n) ELSE sources[x]]
    BY <1>9 DEF NewSource, Considers
  <2>2. NewTrackedSource(sc, n).packet_timer = LossTimeout
    BY DEF NewTrackedSource
  <2> QED
    BY <2>1, <2>2 DEF Tracked
<1>10. ASSUME NEW sc \in StartCodes, NoRoomForSource(s, n, sc)
       PROVE  sources' = sources
  BY <1>10 DEF NoRoomForSource
<1>11. LossTimeout \in Nat /\ LossTimeout <= LossTimeout
  BY ReceiverAssumption
<1>12. ASSUME NEW sc \in StartCodes,
              (\E p \in BOOLEAN : NewSource(s, n, sc, p)) \/ NoRoomForSource(s, n, sc)
       PROVE  /\ DOMAIN sources \subseteq DOMAIN sources'
              /\ DOMAIN sources' \subseteq Sources
              /\ \A x \in DOMAIN sources : Later(sources[x], sources'[x])
              /\ \A x \in DOMAIN sources' \ DOMAIN sources :
                    /\ sources'[x].packet_timer \in Nat
                    /\ sources'[x].packet_timer <= LossTimeout
  BY <1>3, <1>9, <1>10, <1>11, <1>12
<1> QED
  BY <1>1, <1>2, <1>5, <1>6, <1>7, <1>8, <1>12

\* Time passes: what waits for a timer is due by one more, and the timer has one
\* less left.
LEMMA ElapseTimely ==
    ASSUME Bounded, Core, TimelyNow, DeadlineNext, Elapse, since_tick \in Nat
    PROVE  TimelyNow'
<1> DEFINE old(t) == [t EXCEPT !.wait = Age(@)]
<1>17. since_tick' = since_tick + 1 /\ since_tick' \in Nat
  <2>1. since_tick' = since_tick + 1
    BY DEF Elapse
  <2> QED
    BY <2>1
<1>1. /\ sources' = [s \in DOMAIN sources |->
                       [sources[s] EXCEPT !.packet_timer = Age(@),
                                          !.pap_timer = Age(@)]]
      /\ term_sets' = {old(t) : t \in term_sets}
  BY DEF Elapse, Tracked
<1>2. Elapsed = 1 /\ 1 \in Nat
  BY <1>17 DEF Elapsed
<1>3. /\ overdue \in [Sources -> Nat]
      /\ \A t \in term_sets : t.wait <= LongestWait
      /\ \A s \in DOMAIN sources : sources[s].packet_timer <= LossTimeout
      /\ \A s \in DOMAIN sources :
            overdue[s] <= since_tick \/ \E t \in term_sets : s \in t.offline
      /\ \A t \in term_sets : \A s \in t.offline :
            Meets(sources, t, overdue[s], since_tick)
  BY DEF TimelyNow, Timely
<1>4. /\ overdue' \in [Sources -> Nat]
      /\ \A s \in Sources :
            \/ overdue'[s] = 0
            \/ /\ overdue'[s] = overdue[s] + 1
               /\ s \in DOMAIN sources' /\ sources'[s].packet_timer = 0
  BY <1>2, <1>3, DueStep
<1>5. \A s \in Sources : overdue'[s] \in Nat /\ overdue'[s] <= overdue[s] + 1
  BY <1>3, <1>4
<1>6. /\ DOMAIN sources \subseteq Sources
      /\ \A s \in DOMAIN sources : sources[s].packet_timer \in Nat
      /\ \A t \in term_sets :
            /\ t.wait \in Nat
            /\ t.members \subseteq DOMAIN sources
            /\ t.offline \subseteq t.members
  BY TimelyTypes
<1>7. /\ LongestWait \in Nat /\ MaxTickDelay \in Nat /\ Deadline \in Nat
      /\ LossTimeout \in Nat
  BY LongestWaitBounds, ReceiverAssumption
<1>8. \A r \in Nat : /\ Age(r) \in Nat /\ Age(r) <= r
                     /\ Age(r) > 0 => r > 0 /\ Age(r) + 1 = r
  BY DEF Age
<1>9. /\ DOMAIN sources' = DOMAIN sources
      /\ \A s \in DOMAIN sources :
            /\ sources'[s].packet_timer = Age(sources[s].packet_timer)
            /\ sources'[s].dmx_received = sources[s].dmx_received
  <2>1. \A s \in DOMAIN sources : sources[s] \in TrackedSource
    BY DEF Core, IsTable
  <2> QED
    BY <1>1, <2>1 DEF TrackedSource
<1>10. \A t \in term_sets :
          /\ old(t).wait = Age(t.wait) /\ old(t).members = t.members
          /\ old(t).offline = t.offline
  <2>1. \A t \in term_sets : t \in TerminationSet
    BY DEF Core, SetsFit, Sound
  <2> QED
    BY <2>1 DEF TerminationSet
<1> HIDE DEF old
<1>11. ASSUME NEW t \in term_sets, NEW s \in t.offline
       PROVE  Meets(sources', old(t), overdue'[s], since_tick')
  <2>1. /\ s \in Sources /\ overdue'[s] <= overdue[s] + 1
        /\ overdue'[s] \in Nat /\ overdue[s] \in Nat
    BY <1>3, <1>5, <1>6
  <2>2. /\ overdue[s] <= Deadline + since_tick
        /\ t.wait > 0 => overdue[s] + t.wait <= Deadline
        /\ \A m \in t.members :
              \/ sources[m].dmx_received
              \/ sources[m].packet_timer > 0
                    => overdue[s] + sources[m].packet_timer <= Deadline
    BY <1>3 DEF Meets, Spare
  <2>3. overdue'[s] <= Deadline + since_tick'
    BY <1>7, <1>17, <2>1, <2>2
  <2>4. old(t).wait > 0 => overdue'[s] + old(t).wait <= Deadline
    <3>1. t.wait \in Nat /\ old(t).wait = Age(t.wait)
      BY <1>6, <1>10
    <3> QED
      BY <1>7, <1>8, <2>1, <2>2, <3>1
  <2>5. ASSUME NEW m \in old(t).members, ~sources'[m].dmx_received,
               sources'[m].packet_timer > 0
        PROVE  overdue'[s] + sources'[m].packet_timer <= Deadline
    <3>1. /\ m \in t.members /\ m \in DOMAIN sources
          /\ ~sources[m].dmx_received
          /\ sources'[m].packet_timer = Age(sources[m].packet_timer)
      BY <1>6, <1>9, <1>10, <2>5
    <3>2. PICK r : r = sources[m].packet_timer
      OBVIOUS
    <3>3. r \in Nat /\ Age(r) > 0 /\ sources'[m].packet_timer = Age(r)
      BY <1>6, <2>5, <3>1, <3>2
    <3>4. r > 0 => overdue[s] + r <= Deadline
      BY <2>2, <3>1, <3>2
    <3>5. r > 0 /\ Age(r) + 1 = r /\ Age(r) \in Nat
      BY <1>8, <3>3
    <3> HIDE <2>2, <2>3
    <3> QED
      BY <1>7, <2>1, <3>3, <3>4, <3>5
  <2> QED
    BY <2>3, <2>4, <2>5 DEF Meets, Spare
<1>12. ASSUME NEW s \in DOMAIN sources
       PROVE  overdue'[s] <= since_tick' \/ \E t \in term_sets' : s \in t.offline
  <2>1. /\ overdue'[s] \in Nat /\ overdue[s] \in Nat
        /\ overdue'[s] <= overdue[s] + 1
    BY <1>3, <1>5, <1>6
  <2>2. CASE overdue[s] <= since_tick
    BY <1>17, <2>1, <2>2
  <2>3. CASE \E t \in term_sets : s \in t.offline
    BY <1>1, <1>10, <2>3
  <2> QED
    BY <1>3, <2>2, <2>3
<1>13. \A s \in DOMAIN sources : sources'[s].packet_timer <= LossTimeout
  <2> TAKE s \in DOMAIN sources
  <2>1. PICK r : r = sources[s].packet_timer
    OBVIOUS
  <2>2. r \in Nat /\ r <= LossTimeout /\ Age(r) \in Nat /\ Age(r) <= r
    BY <1>3, <1>6, <1>8, <2>1
  <2> QED
    BY <1>7, <1>9, <2>1, <2>2
<1>14. \A t \in term_sets : old(t).wait <= LongestWait
  <2> TAKE t \in term_sets
  <2>1. PICK r : r = t.wait
    OBVIOUS
  <2>2. r \in Nat /\ r <= LongestWait /\ Age(r) \in Nat /\ Age(r) <= r
    BY <1>3, <1>6, <1>8, <2>1
  <2> QED
    BY <1>7, <1>10, <2>1, <2>2
<1>15. \A t \in term_sets' : \A s \in t.offline :
          Meets(sources', t, overdue'[s], since_tick')
  BY <1>1, <1>10, <1>11
<1>16. \A t \in term_sets' : t.wait <= LongestWait
  BY <1>1, <1>14
<1> QED
  BY <1>4, <1>9, <1>12, <1>13, <1>15, <1>16 DEF TimelyNow, Timely

\* A source that has been due for no longer than the time between two ticks
\* meets the deadline, whatever set it is in.
LEMMA FreshMeets ==
    ASSUME Bounded, NEW S, NEW t, NEW due \in Nat, due <= MaxTickDelay,
           t.wait \in Nat, t.wait <= LongestWait,
           \A m \in t.members :
               S[m].packet_timer \in Nat /\ S[m].packet_timer <= LossTimeout
    PROVE  Meets(S, t, due, 0)
<1>1. /\ LongestWait \in Nat /\ MaxTickDelay \in Nat /\ LossTimeout \in Nat
      /\ LossTimeout <= LongestWait /\ Deadline = LongestWait + MaxTickDelay
  BY LongestWaitBounds, ReceiverAssumption DEF Deadline
<1>2. \A r \in Nat : r <= LongestWait => due + r <= Deadline
  BY <1>1
<1>3. due <= Deadline + 0 /\ due + t.wait <= Deadline
  BY <1>1
<1>4. \A m \in t.members : due + S[m].packet_timer <= Deadline
  <2> TAKE m \in t.members
  <2>1. PICK r : r = S[m].packet_timer
    OBVIOUS
  <2>2. r \in Nat /\ r <= LossTimeout
    BY <2>1
  <2>3. r <= LongestWait
    BY <1>1, <2>2
  <2> QED
    BY <1>2, <2>1, <2>2, <2>3
<1> QED
  BY <1>3, <1>4 DEF Meets, Spare

\* A set that was there and is not expired yet: a source that was marked in it
\* waits for it, or for a member that has not been heard.
LEMMA OldMeets ==
    ASSUME NEW t, NEW r, r.wait = t.wait, r.wait \in Nat,
           r.members \subseteq t.members,
           NEW due \in Nat, NEW less \in Nat, less <= due, NEW tick, Deadline \in Nat,
           NEW S, NEW S2, Meets(S, t, due, tick),
           \A m \in r.members : S2[m] = S[m] /\ S[m].packet_timer \in Nat,
           \/ r.wait > 0
           \/ \E m \in r.members : ~S[m].dmx_received /\ S[m].packet_timer > 0
    PROVE  Meets(S2, r, less, 0)
<1>1. /\ r.wait > 0 => due + r.wait <= Deadline
      /\ \A m \in r.members :
            \/ S[m].dmx_received
            \/ S[m].packet_timer > 0 => due + S[m].packet_timer <= Deadline
  BY DEF Meets, Spare
<1>2. \A x \in Nat : due + x <= Deadline => less + x <= Deadline
  OBVIOUS
<1>3. \A x \in Nat : due + x <= Deadline => less <= Deadline + 0
  OBVIOUS
<1>4. less <= Deadline + 0
  <2>1. CASE r.wait > 0
    BY <1>1, <1>3, <2>1
  <2>2. CASE \E m \in r.members : ~S[m].dmx_received /\ S[m].packet_timer > 0
    BY <1>1, <1>3, <2>2
  <2> QED
    BY <2>1, <2>2
<1>5. r.wait > 0 => less + r.wait <= Deadline
  BY <1>1, <1>2
<1>6. ASSUME NEW m \in r.members
      PROVE  \/ S2[m].dmx_received
             \/ S2[m].packet_timer > 0 => less + S2[m].packet_timer <= Deadline
  BY <1>1, <1>2
<1> QED
  BY <1>4, <1>5, <1>6 DEF Meets, Spare

\* The tick: a source marked offline now is due for no longer than the time
\* since the last tick; one marked before is still waiting, or its set is over.
LEMMA TickTimely ==
    ASSUME Bounded, Core, Misc, TimelyNow, DeadlineNext, Tick
    PROVE  TimelyNow'
<1>1. PICK first : ProcessReceiverSources(first)
  BY DEF Tick
<1>2. PICK T : T = TermSetsAtTick(first)
  OBVIOUS
<1> DEFINE gone == ExpiredSources(T) \cup ToErase
<1>3. /\ term_sets' = T \ ExpiredTermSets(T)
      /\ sources' = [s \in DOMAIN sources \ gone |->
                       IF s \in OnlineSources
                         THEN [sources[s] EXCEPT !.dmx_received = FALSE]
                         ELSE sources[s]]
  BY <1>1, <1>2 DEF ProcessReceiverSources, Tracked
<1>4. since_tick' = 0
  BY DEF Tick
<1>5. since_tick \in Nat /\ since_tick <= MaxTickDelay /\ MaxTickDelay \in Nat
  BY ReceiverAssumption DEF Misc
<1>6. Elapsed = 0 /\ 0 \in Nat
  BY <1>4, <1>5 DEF Elapsed
<1>7. /\ overdue \in [Sources -> Nat]
      /\ \A t \in term_sets : t.wait <= LongestWait
      /\ \A s \in DOMAIN sources : sources[s].packet_timer <= LossTimeout
      /\ \A s \in DOMAIN sources :
            overdue[s] <= since_tick \/ \E t \in term_sets : s \in t.offline
      /\ \A t \in term_sets : \A s \in t.offline :
            Meets(sources, t, overdue[s], since_tick)
  BY DEF TimelyNow, Timely
<1>8. /\ overdue' \in [Sources -> Nat]
      /\ \A s \in Sources :
            \/ overdue'[s] = 0
            \/ /\ overdue'[s] = overdue[s] + 0
               /\ s \in DOMAIN sources' /\ sources'[s].packet_timer = 0
  BY <1>6, <1>7, DueStep
<1>9. \A s \in Sources : /\ overdue'[s] \in Nat /\ overdue[s] \in Nat
                         /\ overdue'[s] <= overdue[s]
  BY <1>7, <1>8
<1>10. /\ DOMAIN sources \subseteq Sources
       /\ \A s \in DOMAIN sources : sources[s].packet_timer \in Nat
       /\ \A t \in term_sets :
             /\ t.wait \in Nat
             /\ t.members \subseteq DOMAIN sources
             /\ t.offline \subseteq t.members
             /\ \A u \in term_sets : u = t \/ u.members \cap t.members = {}
  BY TimelyTypes
<1>11. /\ LongestWait \in Nat /\ Deadline \in Nat
       /\ \A w \in ExpiredWaits : w <= LongestWait
  BY LongestWaitBounds
<1>12. /\ expired_wait \in Nat /\ expired_wait <= LongestWait
  BY <1>11, ReceiverAssumption DEF Misc
<1>13. /\ OfflineSources \cap OnlineSources = {}
       /\ \A s \in Past(sources) \ (OfflineSources \cup OnlineSources) :
             ~sources[s].dmx_received /\ sources[s].packet_timer # 0
       /\ \A s \in DOMAIN sources :
             sources[s].packet_timer = 0 => s \in OfflineSources \cup ToErase
       /\ OfflineSources \subseteq DOMAIN sources
       /\ Past(sources) \subseteq DOMAIN sources
       /\ \A s \in OnlineSources : sources[s].packet_timer # 0
  BY DEF OfflineSources, OnlineSources, ToErase, Past, IsWaiting, IsExpired, Tracked
<1>14. Sound(T, Past(sources) \ OnlineSources)
  BY <1>2, TickSets
<1>15. /\ Sound(T \ ExpiredTermSets(T),
                (Past(sources) \ OnlineSources) \ ExpiredSources(T))
       /\ \A t \in T : t.wait \in Nat /\ t.offline \subseteq t.members
  <2>1. Sound(T \ ExpiredTermSets(T),
              (Past(sources) \ OnlineSources) \ ExpiredSources(T))
    BY <1>14, ExpiredLeave
  <2>2. \A t \in T : t.wait \in Nat /\ t.offline \subseteq t.members
    BY <1>14 DEF Sound, TerminationSet
  <2> QED
    BY <2>1, <2>2
<1>16. /\ \A r \in T :
              \/ \E t \in term_sets :
                    /\ r.wait = t.wait
                    /\ r.members = t.members \ OnlineSources
                    /\ r.offline = (t.offline \cup (t.members \cap OfflineSources))
                                      \ OnlineSources
              \/ /\ r.wait = expired_wait
                 /\ r.offline \subseteq OfflineSources \ InTermSet(term_sets)
       /\ \A s \in OfflineSources : \E r \in T : s \in r.offline
  <2>1. Past(sources) \in SUBSET Sources
    BY DEF Core, IsTable, Past
  <2>2. Sound(term_sets, Past(sources)) /\ OfflineSources \in SUBSET Past(sources)
    BY TickSorts DEF Core, SetsFit
  <2>3. T = MarkSourcesOnline(
                MarkSourcesOffline(term_sets, OfflineSources, TerminatedSources,
                                   UnknownSources, first, expired_wait),
                OnlineSources)
    BY <1>2 DEF TermSetsAtTick
  <2>4. OfflineSources \cap OnlineSources = {}
    BY <1>13
  <2> DEFINE Q == MarkSourcesOffline(term_sets, OfflineSources, TerminatedSources,
                                     UnknownSources, first, expired_wait)
             R == MarkSourcesOnline(Q, OnlineSources)
  <2>5. /\ \A r \in R :
              \/ \E t \in term_sets :
                    /\ r.wait = t.wait
                    /\ r.members = t.members \ OnlineSources
                    /\ r.offline =
                          (t.offline \cup (t.members \cap OfflineSources))
                            \ OnlineSources
              \/ /\ r.wait = expired_wait
                 /\ r.offline \subseteq OfflineSources \ InTermSet(term_sets)
        /\ \A s \in OfflineSources : \E r \in R : s \in r.offline
    BY ONLY <2>1, <2>2, <2>4, MarkShape
  <2> QED
    BY <2>3, <2>5
<1>17. ToErase \cap Past(sources) = {}
  BY TickSorts
<1>18. ASSUME NEW r \in term_sets', NEW m \in r.members
       PROVE  /\ m \in Past(sources) /\ m \in DOMAIN sources
              /\ m \notin OnlineSources
              /\ sources'[m] = sources[m] /\ sources[m].packet_timer \in Nat
              /\ sources[m].packet_timer <= LossTimeout
  <2>1. m \in Past(sources) /\ m \notin OnlineSources /\ m \notin ExpiredSources(T)
    BY <1>3, <1>15, <1>18 DEF Sound
  <2>2. m \in DOMAIN sources \ gone
    BY <1>13, <1>17, <2>1
  <2> QED
    BY <1>3, <1>7, <1>10, <2>1, <2>2
<1>19. \A r \in term_sets' : r \in T /\ r.wait \in Nat /\ r.wait <= LongestWait
  BY <1>3, <1>7, <1>12, <1>15, <1>16
<1>20. ASSUME NEW r \in term_sets', NEW s \in r.offline
       PROVE  Meets(sources', r, overdue'[s], 0)
  <2>1. /\ r \in T /\ r \notin ExpiredTermSets(T) /\ s \in r.members
        /\ r.wait \in Nat /\ r.wait <= LongestWait
    BY <1>3, <1>15, <1>19
  <2>2. /\ s \in Sources /\ s \in DOMAIN sources
        /\ overdue'[s] \in Nat /\ overdue[s] \in Nat /\ overdue'[s] <= overdue[s]
    BY <1>9, <1>10, <1>18, <2>1
  <2>3. ASSUME \A t \in term_sets : s \notin t.offline
        PROVE  Meets(sources', r, overdue'[s], 0)
    <3>1. overdue[s] <= since_tick
      BY <1>7, <2>2, <2>3
    <3>2. overdue'[s] <= MaxTickDelay
      BY <1>5, <2>2, <3>1
    <3> QED
      BY <1>18, <2>1, <2>2, <3>2, FreshMeets
  <2>4. ASSUME NEW t \in term_sets, s \in t.offline
        PROVE  Meets(sources', r, overdue'[s], 0)
    <3>1. s \in InTermSet(term_sets)
      BY <1>10, <2>4 DEF InTermSet
    <3>2. PICK u \in term_sets :
             /\ r.wait = u.wait
             /\ r.members = u.members \ OnlineSources
             /\ r.offline = (u.offline \cup (u.members \cap OfflineSources))
                               \ OnlineSources
      BY <1>16, <2>1, <3>1
    <3>3. u = t
      BY <1>10, <2>1, <2>4, <3>2
    <3>4. Meets(sources, t, overdue[s], since_tick)
      BY <1>7, <2>4
    <3>5. \/ r.wait > 0
          \/ \E m \in r.members :
                ~sources[m].dmx_received /\ sources[m].packet_timer > 0
      <4>1. CASE r.wait # 0
        BY <2>1, <4>1
      <4>2. CASE r.wait = 0
        <5>1. PICK m \in r.members : m \notin r.offline
          BY <2>1, <4>2 DEF ExpiredTermSets
        <5>2. m \in Past(sources) \ (OfflineSources \cup OnlineSources)
          BY <1>18, <3>2, <5>1
        <5>3. /\ ~sources[m].dmx_received /\ sources[m].packet_timer # 0
              /\ sources[m].packet_timer \in Nat
          BY <1>13, <1>18, <5>2
        <5> QED
          BY <5>3
      <4> QED
        BY <4>1, <4>2
    <3>6. \A m \in r.members :
             sources'[m] = sources[m] /\ sources[m].packet_timer \in Nat
      BY <1>18
    <3>7. r.members \subseteq t.members /\ r.wait = t.wait
      BY <3>2, <3>3
    <3> QED
      BY <1>11, <2>1, <2>2, <3>4, <3>5, <3>6, <3>7, OldMeets
  <2> QED
    BY <2>3, <2>4
<1>21. ASSUME NEW s \in DOMAIN sources'
       PROVE  /\ s \in Sources /\ s \in DOMAIN sources \ gone
              /\ sources'[s].packet_timer = sources[s].packet_timer
  <2>1. s \in DOMAIN sources \ gone
    BY <1>3
  <2>2. sources[s] \in TrackedSource
    BY <2>1 DEF Core, IsTable
  <2>3. sources'[s] = IF s \in OnlineSources
                        THEN [sources[s] EXCEPT !.dmx_received = FALSE]
                        ELSE sources[s]
    BY <1>3, <2>1
  <2> HIDE DEF gone
  <2>4. sources'[s].packet_timer = sources[s].packet_timer
    BY <2>2, <2>3 DEF TrackedSource
  <2> QED
    BY <1>10, <2>1, <2>4
<1>22. ASSUME NEW s \in DOMAIN sources'
       PROVE  overdue'[s] <= 0 \/ \E t \in term_sets' : s \in t.offline
  <2>1. CASE overdue'[s] = 0
    BY <2>1
  <2>2. CASE overdue'[s] # 0
    <3>1. sources[s].packet_timer = 0
      BY <1>8, <1>21, <2>2
    <3>2. s \in OfflineSources
      BY <1>13, <1>21, <3>1
    <3>3. PICK r \in T : s \in r.offline
      BY <1>16, <3>2
    <3>4. r \notin ExpiredTermSets(T)
      <4>1. s \in r.members
        BY <1>15, <3>3
      <4> QED
        BY <1>21, <4>1 DEF ExpiredSources
    <3> QED
      BY <1>3, <3>3, <3>4
  <2> QED
    BY <2>1, <2>2
<1>23. \A s \in DOMAIN sources' : sources'[s].packet_timer <= LossTimeout
  BY <1>7, <1>21
<1> QED
  BY <1>4, <1>8, <1>19, <1>20, <1>22, <1>23 DEF TimelyNow, Timely

\* Every step of a receiver keeps the deadline within reach.
LEMMA NextTimely ==
    ASSUME Bounded, IInv, TimelyNow, [DeadlineNext]_<<vars, overdue>>
    PROVE  TimelyNow'
<1>1. Core /\ Misc /\ since_tick \in Nat
  BY ReceiverAssumption DEF IInv, Misc
<1>2. /\ DOMAIN sources \subseteq Sources
      /\ \A s \in DOMAIN sources : Later(sources[s], sources[s])
  BY <1>1, LaterOn DEF Core, IsTable, Tracked
<1>3. CASE UNCHANGED <<vars, overdue>>
  <2>1. UNCHANGED <<sources, term_sets, overdue, since_tick>>
    BY <1>3 DEF vars, srcVars
  <2> QED
    BY <2>1 DEF TimelyNow
<1>4. ASSUME DeadlineNext, NEW s \in Sources, DataPacket(s)
      PROVE  TimelyNow'
  BY <1>1, <1>4, PacketLater, QuietTimely DEF Later
<1>5. ASSUME DeadlineNext, Tick PROVE TimelyNow'
  BY <1>1, <1>5, TickTimely
<1>6. ASSUME DeadlineNext, Elapse PROVE TimelyNow'
  BY <1>1, <1>6, ElapseTimely
<1>7. ASSUME DeadlineNext, ChangeUniverse PROVE TimelyNow'
  <2>1. DOMAIN sources' = {} /\ term_sets' = {}
    BY <1>7 DEF ChangeUniverse
  <2>2. Elapsed \in Nat
    BY DEF Elapsed
  <2>3. /\ overdue' \in [Sources -> Nat]
        /\ \A s \in Sources :
              overdue'[s] = 0 \/ (s \in DOMAIN sources' /\ sources'[s].packet_timer = 0)
    BY <1>7, <2>2, DueStep DEF TimelyNow, Timely
  <2> QED
    BY <2>1, <2>3 DEF TimelyNow, Timely
<1>8. ASSUME DeadlineNext, NetworkingCall PROVE TimelyNow'
  <2>1. PICK usable : TerminateSourcesNotOn(usable)
    BY <1>8 DEF NetworkingCall, ResetNetworking
  <2>2. term_sets' = term_sets /\ since_tick' = since_tick
    BY <1>8 DEF NetworkingCall, ResetNetworking
  <2>3. DOMAIN sources' = DOMAIN sources
    BY <2>1 DEF TerminateSourcesNotOn, Tracked
  <2>4. \A s \in DOMAIN sources : Later(sources[s], sources'[s])
    <3>1. \A s \in DOMAIN sources : Later(sources[s], Terminated(sources[s]))
      BY <1>1, LaterOn DEF Tracked
    <3> QED
      BY <1>2, <2>1, <3>1 DEF TerminateSourcesNotOn, Tracked
  <2> QED
    BY <1>1, <1>2, <1>8, <2>2, <2>3, <2>4, QuietTimely DEF Later
<1>9. ASSUME DeadlineNext, NEW wait \in ExpiredWaits, SetExpiredWait(wait)
      PROVE  TimelyNow'
  <2>1. UNCHANGED <<sources, term_sets, since_tick>>
    BY <1>9 DEF SetExpiredWait, srcVars
  <2> QED
    BY <1>1, <1>2, <1>9, <2>1, QuietTimely DEF Later
<1> QED
  BY <1>3, <1>4, <1>5, <1>6, <1>7, <1>8, <1>9 DEF DeadlineNext, Next, AppCall

\* What the invariant says of the deadline.
LEMMA TimelyDeadline ==
    ASSUME Bounded, IInv, TimelyNow
    PROVE  LossDeadline
<1> SUFFICES ASSUME NEW s \in Sources
             PROVE  overdue[s] <= LongestWait + 2 * MaxTickDelay
  BY DEF LossDeadline
<1>1. /\ LongestWait \in Nat /\ MaxTickDelay \in Nat
      /\ Deadline = LongestWait + MaxTickDelay
      /\ since_tick \in Nat /\ since_tick <= MaxTickDelay
  BY LongestWaitBounds DEF Deadline, IInv, Misc
<1>2. overdue[s] \in Nat
  BY DEF TimelyNow, Timely
<1>3. CASE overdue[s] = 0
  BY <1>1, <1>3
<1>4. CASE overdue[s] <= since_tick
  BY <1>1, <1>2, <1>4
<1>5. CASE overdue[s] <= Deadline + since_tick
  BY <1>1, <1>2, <1>5
<1> QED
  BY <1>3, <1>4, <1>5 DEF TimelyNow, Timely, Meets

\* A source that timed out or was terminated is forgotten within the longest
\* wait and two ticks, whatever other sources do meanwhile (source_loss.c,
\* mark_sources_offline, get_expired_sources; receiver_state.c,
\* process_receiver_sources).
THEOREM ReceiverLossDeadline ==
    ASSUME Bounded
    PROVE  DeadlineSpec => []LossDeadline
<1>1. DeadlineSpec => Spec
  <2>1. DeadlineInit => Init
    BY DEF DeadlineInit
  <2>2. [DeadlineNext]_<<vars, overdue>> => [Next]_vars
    BY DEF DeadlineNext
  <2> QED
    BY <2>1, <2>2, PTL DEF DeadlineSpec, Spec
<1>2. DeadlineInit => TimelyNow
  <2> SUFFICES ASSUME DeadlineInit PROVE TimelyNow
    OBVIOUS
  <2>1. DOMAIN sources = {} /\ term_sets = {}
    BY DEF DeadlineInit, Init
  <2>2. overdue \in [Sources -> Nat] /\ \A s \in Sources : overdue[s] = 0
    BY DEF DeadlineInit
  <2> QED
    BY <2>1, <2>2 DEF TimelyNow, Timely
<1>3. IInv /\ TimelyNow /\ [DeadlineNext]_<<vars, overdue>> => TimelyNow'
  BY NextTimely
<1>4. IInv /\ TimelyNow => LossDeadline
  BY TimelyDeadline
<1> QED
  BY <1>1, <1>2, <1>3, <1>4, InvHolds, PTL DEF DeadlineSpec

------------------------------------------------------------------------------
\* Sequence numbers.

\* No packet is refused because others were lost before it, across the
\* wrap-around too, unless 236 or more were lost in a row.
THEOREM AcceptedAfterLoss ==
  \A old \in SeqNums : \A k \in 1..236 :
    After(old, k) \in SeqNums /\ InSequence(After(old, k), old)
  BY DEF SeqNums, After, InSequence

\* A packet that is repeated is refused, and so is one that comes up to 19
\* packets late, as long as the numbers have not wrapped around in between.
THEOREM RefusedWhenLate ==
  \A old \in SeqNums : \A k \in 0..19 : k <= old => ~InSequence(Before(old, k), old)
  BY DEF SeqNums, Before, InSequence

\* Where the numbers have wrapped around in between, a late packet is accepted,
\* against the rule for those 19 packets late: the difference is one of integers,
\* not one of 8 bits.  The packet that follows in order is accepted after it, and
\* the stream goes on.
THEOREM AcceptedWhenLateAfterWrap ==
  \A old \in SeqNums : \A k \in 1..235 :
    k > old => /\ Before(old, k) \in SeqNums /\ InSequence(Before(old, k), old)
               /\ InSequence(After(old, 1), Before(old, k))
  BY DEF SeqNums, Before, After, InSequence
=============================================================================
