------------------------- MODULE SourceDetectorProofs -------------------------
(***************************************************************************)
(* Theorems about SourceDetector and the handles of remote sources it      *)
(* shares with the receivers, for any number of sources, of handles and of *)
(* universes, and for lists of any length.  The first half is about the    *)
(* handles (HInv), the second about the pages (DInv).                      *)
(***************************************************************************)
EXTENDS SourceDetector, FiniteSetTheorems, SequenceTheorems, WellFoundedInduction, TLAPS

\* Whether a source is among those of a set, as a number.
Uses(s, S) == IF s \in S THEN 1 ELSE 0

HandleRecord == [handle : 0..MaxHandle, refcount : Nat \ {0}]

\* The table of remote sources when the sources T and F use their handles.
Table(rs, T, F) ==
    /\ rs \in [DOMAIN rs -> HandleRecord]
    /\ DOMAIN rs = T \cup F
    /\ \A s \in DOMAIN rs : rs[s].refcount = Uses(s, T) + Uses(s, F)

Distinct(rs) ==
    \A s, x \in DOMAIN rs : rs[x].handle = rs[s].handle => x = s

\* The inductive invariant.
HInv ==
    /\ tracked \subseteq Sources
    /\ DOMAIN found \subseteq Sources
    /\ next_handle \in 0..MaxHandle
    /\ Table(remote_sources, tracked, DOMAIN found)
    /\ Distinct(remote_sources)
-----------------------------------------------------------------------------
LEMMA Counted ==
  ASSUME NEW s, NEW S
  PROVE  Cardinality({s} \cap S) = Uses(s, S)
<1>1. CASE s \in S
  <2>1. {s} \cap S = {s}
    BY <1>1
  <2> QED
    BY <1>1, <2>1, FS_Singleton DEF Uses
<1>2. CASE s \notin S
  <2>1. {s} \cap S = {}
    BY <1>2
  <2> QED
    BY <1>2, <2>1, FS_EmptySet DEF Uses
<1> QED
  BY <1>1, <1>2

\* Every set of numbers has a least one.
LEMMA LeastNumber ==
  ASSUME NEW T, T \subseteq Nat, T # {}
  PROVE  \E x \in T : \A y \in T : ~(y < x)
<1>1. \E x \in T : \A y \in T : <<y, x>> \notin OpToRel(<, Nat)
  BY WFMin, NatLessThanWellFounded
<1> QED
  BY <1>1 DEF OpToRel

LEMMA WrapAround ==
  \A M, h \in Nat : h <= M => h % (M + 1) = h /\ (h + M + 1) % (M + 1) = h
  OBVIOUS

LEMMA WrapRange ==
  \A M, h \in Nat : h % (M + 1) \in 0..M
  OBVIOUS

\* As long as a source is without a handle, a handle is free.
LEMMA FreeHandle ==
  ASSUME NEW s \in Sources, s \notin DOMAIN remote_sources,
         DOMAIN remote_sources \subseteq Sources,
         remote_sources \in [DOMAIN remote_sources -> HandleRecord]
  PROVE  \E h \in 0..MaxHandle : ~HandleInUse(h)
<1> DEFINE D == DOMAIN remote_sources
           f == [x \in D |-> remote_sources[x].handle]
<1>1. SUFFICES ASSUME \A h \in 0..MaxHandle : HandleInUse(h)
               PROVE  FALSE
  OBVIOUS
<1>2. f \in Surjection(D, 0..MaxHandle)
  <2>1. f \in [D -> 0..MaxHandle]
    BY DEF HandleRecord
  <2>2. \A h \in 0..MaxHandle : \E x \in D : f[x] = h
    BY <1>1 DEF HandleInUse
  <2> QED
    BY <2>1, <2>2 DEF Surjection
<1>3. IsFiniteSet(D) /\ D \subseteq Sources \ {s}
  BY FS_Subset, RemoteSourcesAssumption
<1>4. Cardinality(0..MaxHandle) <= Cardinality(D)
  BY <1>2, <1>3, FS_Surjection
<1>5. Cardinality(0..MaxHandle) = MaxHandle + 1
  <2>1. 0 \in Int /\ MaxHandle \in Int /\ ~(0 > MaxHandle) /\ MaxHandle - 0 + 1 = MaxHandle + 1
    BY RemoteSourcesAssumption
  <2>2. Cardinality(0..MaxHandle) = IF 0 > MaxHandle THEN 0 ELSE MaxHandle - 0 + 1
    BY <2>1, FS_Interval
  <2> QED
    BY <2>1, <2>2
<1>6. /\ IsFiniteSet(Sources \ {s})
      /\ Cardinality(Sources \ {s}) = Cardinality(Sources) - 1
  BY FS_RemoveElement, RemoteSourcesAssumption
<1>7. Cardinality(D) <= Cardinality(Sources \ {s})
  BY <1>3, <1>6, FS_Subset
<1>8. Cardinality(D) \in Nat /\ Cardinality(Sources) \in Nat
  BY <1>3, FS_CardinalityType, RemoteSourcesAssumption
<1> QED
  BY <1>4, <1>5, <1>6, <1>7, <1>8, RemoteSourcesAssumption

\* The handle manager gives a handle that nobody uses, wherever its counter is.
LEMMA NextHandleIsFree ==
  ASSUME NEW s \in Sources, s \notin DOMAIN remote_sources,
         DOMAIN remote_sources \subseteq Sources,
         next_handle \in 0..MaxHandle,
         remote_sources \in [DOMAIN remote_sources -> HandleRecord]
  PROVE  NextHandle \in 0..MaxHandle /\ ~HandleInUse(NextHandle)
<1> DEFINE At(n) == (next_handle + n) % (MaxHandle + 1)
           Skips == {n \in 0..MaxHandle : ~HandleInUse(At(n))}
           IsSkip(n) == ~HandleInUse(At(n)) /\ \A m \in 0..(n - 1) : HandleInUse(At(m))
<1>1. MaxHandle \in Nat /\ next_handle \in Nat
  BY RemoteSourcesAssumption
<1>2. PICK h \in 0..MaxHandle : ~HandleInUse(h)
  BY FreeHandle
<1>3. Skips # {}
  <2>1. CASE h >= next_handle
    <3>1. h - next_handle \in 0..MaxHandle /\ next_handle + (h - next_handle) = h
      BY <1>1, <1>2, <2>1
    <3>2. At(h - next_handle) = h
      BY <1>1, <1>2, <3>1, WrapAround
    <3> QED
      BY <1>2, <3>1, <3>2
  <2>2. CASE h < next_handle
    <3> DEFINE n == h + MaxHandle + 1 - next_handle
    <3>1. n \in 0..MaxHandle /\ next_handle + n = h + MaxHandle + 1
      BY <1>1, <1>2, <2>2
    <3>2. At(n) = h
      BY <1>1, <1>2, <3>1, WrapAround
    <3> QED
      BY <1>2, <3>1, <3>2
  <2> QED
    BY <1>1, <1>2, <2>1, <2>2
<1>4. PICK k \in Skips : \A y \in Skips : ~(y < k)
  <2>1. Skips \subseteq Nat
    BY <1>1
  <2> HIDE DEF Skips
  <2> QED
    BY <1>3, <2>1, LeastNumber
<1>5. IsSkip(k)
  <2>1. \A m \in 0..(k - 1) : m \in 0..MaxHandle /\ m < k
    BY <1>1, <1>4
  <2> QED
    BY <1>4, <2>1
<1> DEFINE skipped == CHOOSE n \in 0..MaxHandle : IsSkip(n)
<1>6. skipped \in 0..MaxHandle /\ IsSkip(skipped)
  BY <1>4, <1>5
<1>7. NextHandle = At(skipped)
  BY DEF NextHandle
<1>8. At(skipped) \in 0..MaxHandle
  BY <1>1, <1>6, WrapRange
<1> QED
  BY <1>6, <1>7, <1>8
-----------------------------------------------------------------------------
\* What the two operations on handles do, when s begins to use its handle in a
\* role in which it did not, or the sources S end their use of theirs.
Kept(rs, new) == \A x \in DOMAIN rs \cap DOMAIN new : new[x].handle = rs[x].handle

LEMMA AddCounts ==
  ASSUME NEW T, NEW F, NEW s \in Sources, s \notin F,
         T \subseteq Sources, F \subseteq Sources,
         next_handle \in 0..MaxHandle,
         Table(remote_sources, T, F), Distinct(remote_sources),
         AddRemoteSourceHandle(s)
  PROVE  /\ Table(remote_sources', T, F \cup {s})
         /\ Distinct(remote_sources')
         /\ next_handle' \in 0..MaxHandle
         /\ Kept(remote_sources, remote_sources')
<1>1. CASE s \in DOMAIN remote_sources
  <2>1. /\ remote_sources' = [remote_sources EXCEPT ![s].refcount = @ + 1]
        /\ next_handle' = next_handle
    BY <1>1 DEF AddRemoteSourceHandle
  <2>2. /\ DOMAIN remote_sources' = DOMAIN remote_sources
        /\ \A x \in DOMAIN remote_sources :
              /\ remote_sources'[x] \in HandleRecord
              /\ remote_sources'[x].handle = remote_sources[x].handle
              /\ remote_sources'[x].refcount = IF x = s THEN remote_sources[x].refcount + 1
                                               ELSE remote_sources[x].refcount
    BY <1>1, <2>1 DEF Table, HandleRecord
  <2>3. remote_sources' \in [DOMAIN remote_sources' -> HandleRecord]
    BY <2>1, <2>2
  <2>4. Table(remote_sources', T, F \cup {s})
    BY <1>1, <2>2, <2>3 DEF Table, Uses
  <2> QED
    BY <2>1, <2>2, <2>4 DEF Distinct, Kept
<1>2. CASE s \notin DOMAIN remote_sources
  <2>1. /\ remote_sources' = [x \in DOMAIN remote_sources \cup {s} |->
                IF x = s THEN [handle |-> NextHandle, refcount |-> 1]
                         ELSE remote_sources[x]]
        /\ next_handle' = Following(NextHandle)
    BY <1>2 DEF AddRemoteSourceHandle
  <2>2. NextHandle \in 0..MaxHandle /\ ~HandleInUse(NextHandle)
    BY <1>2, NextHandleIsFree DEF Table
  <2>3. /\ DOMAIN remote_sources' = DOMAIN remote_sources \cup {s}
        /\ remote_sources'[s] = [handle |-> NextHandle, refcount |-> 1]
        /\ \A x \in DOMAIN remote_sources : remote_sources'[x] = remote_sources[x]
    BY <1>2, <2>1
  <2>4. [handle |-> NextHandle, refcount |-> 1] \in HandleRecord
    BY <2>2 DEF HandleRecord
  <2>5. remote_sources' \in [DOMAIN remote_sources' -> HandleRecord]
    BY <2>1, <2>3, <2>4 DEF Table
  <2>6. Table(remote_sources', T, F \cup {s})
    BY <1>2, <2>3, <2>5 DEF Table, Uses
  <2>7. \A x \in DOMAIN remote_sources : remote_sources[x].handle # NextHandle
    BY <2>2 DEF HandleInUse
  <2>8. Distinct(remote_sources')
    BY <2>3, <2>7 DEF Distinct
  <2>9. next_handle' \in 0..MaxHandle
    BY <2>1, <2>2, WrapRange, RemoteSourcesAssumption DEF Following
  <2> QED
    BY <2>3, <2>6, <2>8, <2>9 DEF Kept
<1> QED
  BY <1>1, <1>2

LEMMA RemoveCounts ==
  ASSUME NEW T, NEW F, NEW S, S \subseteq F,
         Table(remote_sources, T, F), Distinct(remote_sources),
         RemoveRemoteSourceHandles(S)
  PROVE  /\ Table(remote_sources', T, F \ S)
         /\ Distinct(remote_sources')
         /\ next_handle' = next_handle
         /\ Kept(remote_sources, remote_sources')
<1> DEFINE Left == {x \in DOMAIN remote_sources : x \notin S \/ remote_sources[x].refcount > 1}
<1>1. /\ remote_sources' = [x \in Left |->
              IF x \in S THEN [remote_sources[x] EXCEPT !.refcount = @ - 1]
                         ELSE remote_sources[x]]
      /\ next_handle' = next_handle
  BY DEF RemoveRemoteSourceHandles, Removed
<1>2. \A x \in Left :
        LET new == IF x \in S THEN [remote_sources[x] EXCEPT !.refcount = @ - 1]
                   ELSE remote_sources[x]
        IN  /\ new \in HandleRecord
            /\ new.handle = remote_sources[x].handle
            /\ new.refcount = IF x \in S THEN remote_sources[x].refcount - 1
                              ELSE remote_sources[x].refcount
  BY DEF Table, HandleRecord
<1>3. Left = T \cup (F \ S)
  BY DEF Table, Uses
<1>4. /\ DOMAIN remote_sources' = Left
      /\ remote_sources' \in [Left -> HandleRecord]
      /\ \A x \in Left :
            /\ remote_sources'[x].handle = remote_sources[x].handle
            /\ remote_sources'[x].refcount = IF x \in S THEN remote_sources[x].refcount - 1
                                             ELSE remote_sources[x].refcount
  BY <1>1, <1>2
<1>5. \A x \in Left :
        IF x \in S THEN remote_sources[x].refcount - 1 = Uses(x, T) + Uses(x, F \ S)
        ELSE remote_sources[x].refcount = Uses(x, T) + Uses(x, F \ S)
  BY DEF Table, Uses
<1>6. Table(remote_sources', T, F \ S)
  BY <1>3, <1>4, <1>5 DEF Table
<1> QED
  BY <1>1, <1>4, <1>6 DEF Distinct, Kept

\* The two roles of a source are alike.
LEMMA TableSwapped ==
  ASSUME NEW rs, NEW T, NEW F
  PROVE  Table(rs, T, F) <=> Table(rs, F, T)
BY DEF Table, Uses
-----------------------------------------------------------------------------
LEMMA PageIsStored ==
  ASSUME NEW s, NEW src, NEW pg, ProcessPage(s, src, pg)
  PROVE  DOMAIN found' = DOMAIN found \cup {s}
BY DEF ProcessPage

LEMMA HandlesInit == Init => HInv
BY RemoteSourcesAssumption
   DEF Init, RemoteSourcesInit, HInv, Table, Distinct, HandleRecord

\* Nothing happens to the handles or to those who use them.
LEMMA HandlesUnchanged ==
  ASSUME HInv, DOMAIN found' = DOMAIN found,
         UNCHANGED <<remote_sources, next_handle, tracked>>
  PROVE  HInv' /\ Kept(remote_sources, remote_sources')
BY DEF HInv, Table, Distinct, Kept

LEMMA HandlesStep ==
  HInv /\ [Next]_vars => HInv' /\ Kept(remote_sources, remote_sources')
<1> SUFFICES ASSUME HInv, [Next]_vars
             PROVE  HInv' /\ Kept(remote_sources, remote_sources')
  OBVIOUS
<1> USE DEF handleVars, detVars, history
<1>1. ASSUME NEW s \in Sources, NEW pg \in Pages, Page(s, pg)
      PROVE  HInv' /\ Kept(remote_sources, remote_sources')
  <2>1. CASE s \in DOMAIN found
    <3>1. ProcessPage(s, found[s], pg) /\ UNCHANGED handleVars /\ UNCHANGED tracked
      BY <1>1, <2>1 DEF Page
    <3>2. DOMAIN found' = DOMAIN found
      BY <2>1, <3>1, PageIsStored
    <3> QED
      BY <3>1, <3>2, HandlesUnchanged
  <2>2. CASE s \notin DOMAIN found
    <3>1. /\ AddRemoteSourceHandle(s)
          /\ ProcessPage(s, NewDiscoverySource, pg)
          /\ UNCHANGED tracked
      BY <1>1, <2>2 DEF Page
    <3>2. DOMAIN found' = DOMAIN found \cup {s}
      BY <3>1, PageIsStored
    <3>3. /\ Table(remote_sources', tracked, DOMAIN found \cup {s})
          /\ Distinct(remote_sources')
          /\ next_handle' \in 0..MaxHandle
          /\ Kept(remote_sources, remote_sources')
      BY <2>2, <3>1, AddCounts DEF HInv
    <3> QED
      BY <3>1, <3>2, <3>3 DEF HInv
  <2> QED
    BY <2>1, <2>2
<1>2. ASSUME NEW s \in Sources, PageOfNoSource(s)
      PROVE  HInv' /\ Kept(remote_sources, remote_sources')
  BY <1>2, HandlesUnchanged DEF PageOfNoSource
<1>3. ASSUME NEW s \in Sources, TimerExpires(s)
      PROVE  HInv' /\ Kept(remote_sources, remote_sources')
  BY <1>3, HandlesUnchanged DEF TimerExpires
<1>4. ASSUME NEW s \in Sources, Track(s)
      PROVE  HInv' /\ Kept(remote_sources, remote_sources')
  <2>1. /\ s \notin tracked /\ tracked' = tracked \cup {s}
        /\ AddRemoteSourceHandle(s)
        /\ found' = found
    BY <1>4 DEF Track
  <2>2. Table(remote_sources, DOMAIN found, tracked)
    BY TableSwapped DEF HInv
  <2>3. /\ Table(remote_sources', DOMAIN found, tracked \cup {s})
        /\ Distinct(remote_sources')
        /\ next_handle' \in 0..MaxHandle
        /\ Kept(remote_sources, remote_sources')
    BY <2>1, <2>2, AddCounts DEF HInv
  <2>4. Table(remote_sources', tracked \cup {s}, DOMAIN found)
    BY <2>3, TableSwapped
  <2> QED
    BY <2>1, <2>3, <2>4 DEF HInv
<1>5. ASSUME NEW S \in SUBSET tracked, Untrack(S)
      PROVE  HInv' /\ Kept(remote_sources, remote_sources')
  <2>1. /\ tracked' = tracked \ S
        /\ RemoveRemoteSourceHandles(S)
        /\ found' = found
    BY <1>5 DEF Untrack
  <2>2. Table(remote_sources, DOMAIN found, tracked)
    BY TableSwapped DEF HInv
  <2>3. /\ Table(remote_sources', DOMAIN found, tracked \ S)
        /\ Distinct(remote_sources')
        /\ next_handle' = next_handle
        /\ Kept(remote_sources, remote_sources')
    BY <1>5, <2>1, <2>2, RemoveCounts DEF HInv
  <2>4. Table(remote_sources', tracked \ S, DOMAIN found)
    BY <2>3, TableSwapped
  <2> QED
    BY <2>1, <2>3, <2>4 DEF HInv
<1>6. ASSUME Tick
      PROVE  HInv' /\ Kept(remote_sources, remote_sources')
  <2>1. /\ DOMAIN found' = DOMAIN found \ Expired
        /\ RemoveRemoteSourceHandles(Expired)
        /\ tracked' = tracked
    BY <1>6 DEF Tick, Forget, Restrict
  <2>2. Expired \subseteq DOMAIN found
    BY DEF Expired
  <2>3. /\ Table(remote_sources', tracked, DOMAIN found \ Expired)
        /\ Distinct(remote_sources')
        /\ next_handle' = next_handle
        /\ Kept(remote_sources, remote_sources')
    BY <2>1, <2>2, RemoveCounts DEF HInv
  <2> QED
    BY <2>1, <2>3 DEF HInv
<1>7. ASSUME Destroy
      PROVE  HInv' /\ Kept(remote_sources, remote_sources')
  BY <1>7, HandlesUnchanged DEF Destroy
<1>8. ASSUME Create
      PROVE  HInv' /\ Kept(remote_sources, remote_sources')
  BY <1>8, HandlesUnchanged DEF Create
<1>9. CASE UNCHANGED vars
  BY <1>9, HandlesUnchanged DEF vars
<1> QED
  BY <1>1, <1>2, <1>3, <1>4, <1>5, <1>6, <1>7, <1>8, <1>9 DEF Next

\* The handles of remote sources are counted exactly, whatever receivers and
\* the source detector do with them: a source has a handle as long as one of
\* them uses it, no longer, and no two sources have the same (remote_source.c;
\* the handle manager finds a free one after it has wrapped around).
THEOREM DetectorHandlesCounted == Spec => []HandlesCounted
<1>1. HInv => HandlesCounted
  BY Counted DEF HInv, Table, Distinct, HandlesCounted, HandleRecord
<1> QED
  BY <1>1, HandlesInit, HandlesStep, PTL DEF Spec

\* A source that is in use before and after a step has the same handle: no
\* receiver loses the handle of a source because the source detector forgets
\* it, or the other way around (remove_remote_source_handle).
THEOREM DetectorHandlesAreKept == Spec => HandlesAreKept
<1>1. HInv /\ [Next]_vars /\ HInv' /\ Kept(remote_sources, remote_sources') =>
        [\A s \in (tracked \cup DOMAIN found) \cap (tracked' \cup DOMAIN found') :
            remote_sources'[s].handle = remote_sources[s].handle]_vars
  BY DEF HInv, Table, Kept
<1> QED
  BY <1>1, HandlesInit, HandlesStep, PTL DEF Spec, HandlesAreKept

-----------------------------------------------------------------------------
(***************************************************************************)
(* What the source detector makes of the pages.                            *)
(***************************************************************************)
HeardRecord == [pages : Nat, list : Seq(Nat), complete : BOOLEAN]

\* The sequence a is what b begins with.
Begins(a, b) == Len(a) <= Len(b) /\ \A i \in 1..Len(a) : a[i] = b[i]

\* A source follows what came of it: while pages come without a gap it has come
\* as far as they have and its universes begin with theirs, whether they are new
\* or were there before; at the last page it has the list they make up.
Follows(src, h) ==
    /\ src \in DiscoverySource
    /\ UniversesMax # 0 => Len(src.universes) <= UniversesMax
    /\ IF h.pages # 0 /\ ~h.complete
         THEN /\ src.next_page = h.pages /\ src.next_index = Len(h.list)
              /\ Begins(Cut(h.list), src.universes)
         ELSE src.next_page = 0 /\ src.next_index = 0
    /\ h.complete => src.universes = Cut(h.list) /\ ~src.dirty

\* Universes in order that are not marked as changed were told.
IsTold(s, src, reports) ==
    ~src.dirty /\ IsAscending(src.universes) =>
        s \in DOMAIN reports /\ reports[s] = src.universes

\* The inductive invariant of the pages.
DInv ==
    /\ HInv
    /\ found \in [DOMAIN found -> DiscoverySource]
    /\ DOMAIN told \subseteq DOMAIN found
    /\ heard \in [Sources -> HeardRecord]
    /\ \A s \in DOMAIN found : Follows(found[s], heard[s])
    /\ \A s \in DOMAIN found \ inherited : IsTold(s, found[s], told)
    /\ \A s \in Sources \ DOMAIN found : heard[s] = NothingHeard

\* The pages of lists.
PageOK(pg) ==
    /\ pg.page \in Nat /\ pg.last_page \in Nat /\ pg.page <= pg.last_page
    /\ pg.universes \in Seq(Nat) /\ Len(pg.universes) < Huge

LEMMA PagesAre == \A pg \in Pages : PageOK(pg)
<1> SUFFICES ASSUME NEW pg \in Pages PROVE PageOK(pg)
  OBVIOUS
<1>0. PICK list \in Lists : \E i \in DOMAIN list :
         pg = [page |-> i - 1, last_page |-> Len(list) - 1, universes |-> list[i]]
  BY DEF Pages
<1>1. PICK i \in DOMAIN list :
         pg = [page |-> i - 1, last_page |-> Len(list) - 1, universes |-> list[i]]
  BY <1>0
<1>2. list \in Seq(Seq(Nat)) /\ Len(list[i]) <= 512
  BY <1>1, SourceDetectorAssumption DEF PageMax
<1>3. i \in 1..Len(list) /\ Len(list) \in Nat /\ list[i] \in Seq(Nat)
  BY <1>1, <1>2
<1>4. Len(list[i]) < 1000
  BY <1>2, <1>3
<1>5. i - 1 \in Nat /\ Len(list) - 1 \in Nat /\ i - 1 <= Len(list) - 1
  BY <1>3
<1> QED BY <1>1, <1>3, <1>4, <1>5 DEF PageOK, Huge

LEMMA CutIs ==
  ASSUME NEW list \in Seq(Nat)
  PROVE  /\ Cut(list) \in Seq(Nat)
         /\ Len(Cut(list)) = IF UniversesMax = 0 \/ Len(list) <= UniversesMax
                               THEN Len(list) ELSE UniversesMax
         /\ \A i \in 1..Len(Cut(list)) : Cut(list)[i] = list[i]
<1>1. UniversesMax \in Nat /\ Len(list) \in Nat
  BY SourceDetectorAssumption
<1>2. CASE UniversesMax = 0 \/ Len(list) <= UniversesMax
  BY <1>2 DEF Cut
<1>3. CASE ~(UniversesMax = 0 \/ Len(list) <= UniversesMax)
  <2>1. Cut(list) = SubSeq(list, 1, UniversesMax)
    BY <1>3 DEF Cut
  <2>2. 1 \in Int /\ UniversesMax \in Int /\ \A i \in 1..UniversesMax : list[i] \in Nat
    BY <1>1, <1>3
  <2>3. /\ SubSeq(list, 1, UniversesMax) \in Seq(Nat)
        /\ Len(SubSeq(list, 1, UniversesMax)) =
              IF 1 <= UniversesMax THEN UniversesMax - 1 + 1 ELSE 0
        /\ \A i \in 1..(UniversesMax - 1 + 1) : SubSeq(list, 1, UniversesMax)[i] = list[1 + i - 1]
    BY <2>2, SubSeqProperties
  <2>4. /\ Len(SubSeq(list, 1, UniversesMax)) = UniversesMax
        /\ \A i \in 1..UniversesMax : SubSeq(list, 1, UniversesMax)[i] = list[i]
    BY <1>1, <1>3, <2>3
  <2> QED BY <1>3, <2>1, <2>3, <2>4
<1> QED BY <1>2, <1>3

\* What the first n elements of a sequence are.
LEMMA FirstOnes ==
  ASSUME NEW s \in Seq(Nat), NEW n \in 0..Len(s)
  PROVE  /\ SubSeq(s, 1, n) \in Seq(Nat) /\ Len(SubSeq(s, 1, n)) = n
         /\ \A i \in 1..n : SubSeq(s, 1, n)[i] = s[i]
<1>1. 1 \in Int /\ n \in Int /\ \A i \in 1..n : s[i] \in Nat
  OBVIOUS
<1>2. /\ SubSeq(s, 1, n) \in Seq(Nat)
      /\ Len(SubSeq(s, 1, n)) = IF 1 <= n THEN n - 1 + 1 ELSE 0
      /\ \A i \in 1..(n - 1 + 1) : SubSeq(s, 1, n)[i] = s[1 + i - 1]
  BY <1>1, SubSeqProperties
<1> QED BY <1>2

\* A list cut after another page.
LEMMA CutLonger ==
  ASSUME NEW list \in Seq(Nat), NEW us \in Seq(Nat)
  PROVE  /\ list \o us \in Seq(Nat) /\ Len(list \o us) = Len(list) + Len(us)
         /\ Cut(list \o us) \in Seq(Nat)
         /\ Len(Cut(list \o us)) = IF UniversesMax = 0 \/ Len(list) + Len(us) <= UniversesMax
                                     THEN Len(list) + Len(us) ELSE UniversesMax
         /\ \A i \in 1..Len(Cut(list \o us)) :
               Cut(list \o us)[i] = IF i <= Len(list) THEN list[i] ELSE us[i - Len(list)]
<1>1. /\ list \o us \in Seq(Nat) /\ Len(list \o us) = Len(list) + Len(us)
      /\ \A i \in 1..(Len(list) + Len(us)) :
            (list \o us)[i] = IF i <= Len(list) THEN list[i] ELSE us[i - Len(list)]
  BY ConcatProperties
<1>2. PICK full \in Seq(Nat) : full = list \o us
  BY <1>1
<1>3. /\ Cut(full) \in Seq(Nat)
      /\ Len(Cut(full)) = IF UniversesMax = 0 \/ Len(full) <= UniversesMax
                            THEN Len(full) ELSE UniversesMax
      /\ \A i \in 1..Len(Cut(full)) : Cut(full)[i] = full[i]
  BY CutIs
<1>4. UniversesMax \in Nat /\ Len(list) \in Nat /\ Len(us) \in Nat
  BY SourceDetectorAssumption
<1>5. \A i \in 1..Len(Cut(full)) : i \in 1..(Len(list) + Len(us))
  BY <1>1, <1>2, <1>3, <1>4
<1> QED BY <1>1, <1>2, <1>3, <1>5

\* What a page replaces in universes that begin with the pages before it is
\* these pages and the new one, cut to what is kept.
LEMMA ReplacedIs ==
  ASSUME NEW src, NEW pg, PageOK(pg), NEW list \in Seq(Nat), src.universes \in Seq(Nat),
         src.next_index = Len(list), Begins(Cut(list), src.universes),
         UniversesMax # 0 => Len(src.universes) <= UniversesMax
  PROVE  Replaced(src, pg) = Cut(list \o pg.universes)
<1> DEFINE us == pg.universes
           ss == src.universes
           n == Len(us)
           x == Len(list)
<1>1. /\ us \in Seq(Nat) /\ ss \in Seq(Nat) /\ n \in Nat /\ x \in Nat /\ n < 1000
      /\ UniversesMax \in Nat /\ Len(ss) \in Nat
  BY SourceDetectorAssumption DEF PageOK, Huge
<1>2. /\ Cut(list \o us) \in Seq(Nat)
      /\ Len(Cut(list \o us)) = IF UniversesMax = 0 \/ x + n <= UniversesMax
                                     THEN x + n ELSE UniversesMax
      /\ \A i \in 1..Len(Cut(list \o us)) :
               Cut(list \o us)[i] = IF i <= x THEN list[i] ELSE us[i - x]
  BY <1>1, CutLonger
<1>3. /\ Len(Cut(list)) = IF UniversesMax = 0 \/ x <= UniversesMax THEN x ELSE UniversesMax
      /\ \A i \in 1..Len(Cut(list)) : Cut(list)[i] = list[i]
  BY CutIs
<1>4. /\ Len(Cut(list)) <= Len(ss) /\ \A i \in 1..Len(Cut(list)) : ss[i] = list[i]
  BY <1>3 DEF Begins
<1>5. Fits(src, pg) = IF UniversesMax # 0 /\ x + n > UniversesMax
                        THEN (IF UniversesMax >= x THEN UniversesMax - x ELSE 1000) ELSE n
  BY DEF Fits, Minus, Huge
<1> PICK fits : fits = Fits(src, pg)
  OBVIOUS
<1>6. Replaced(src, pg) = IF fits = 1000 \/ (fits = 0 /\ n > 0) THEN ss
                          ELSE SubSeq(ss, 1, x) \o SubSeq(us, 1, fits)
  BY DEF Replaced, Huge
<1> PICK full \in Seq(Nat) : full = Cut(list \o us)
  BY <1>2
<1> HIDE DEF us, ss, n, x
<1>7. CASE fits = 1000 \/ (fits = 0 /\ n > 0)
  <2>1. UniversesMax # 0 /\ x >= UniversesMax /\ x + n > UniversesMax
    BY <1>1, <1>5, <1>7
  <2>2. Len(ss) = UniversesMax /\ Len(full) = UniversesMax
    BY <1>1, <1>2, <1>3, <1>4, <2>1 DEF ss
  <2>3. \A i \in 1..Len(ss) : ss[i] = full[i]
    <3>1. \A i \in 1..UniversesMax : i <= x /\ i \in 1..Len(full)
      BY <1>1, <2>1, <2>2
    <3>2. Len(Cut(list)) = UniversesMax
      BY <1>1, <1>3, <2>1
    <3> QED BY <1>2, <1>4, <2>2, <3>1, <3>2
  <2>4. ss = full
    BY <1>1, <2>2, <2>3, SeqEqual
  <2> QED BY <1>6, <1>7, <2>4 DEF us
<1>8. CASE ~(fits = 1000 \/ (fits = 0 /\ n > 0))
  <2>1. fits \in 0..n /\ x <= Len(ss) /\ Len(full) = x + fits
        /\ \A i \in 1..x : ss[i] = list[i]
    <3>1. UniversesMax = 0 \/ x <= UniversesMax
      BY <1>1, <1>5, <1>8
    <3>2. fits \in 0..n /\ Len(full) = x + fits
      BY <1>1, <1>2, <1>5, <3>1
    <3>3. Len(Cut(list)) = x
      BY <1>3, <3>1
    <3> QED BY <1>4, <3>2, <3>3
  <2>2. /\ SubSeq(ss, 1, x) \in Seq(Nat) /\ Len(SubSeq(ss, 1, x)) = x
        /\ \A i \in 1..x : SubSeq(ss, 1, x)[i] = ss[i]
    <3>1. x \in 0..Len(ss)
      BY <1>1, <2>1
    <3> QED BY <1>1, <3>1, FirstOnes
  <2>3. /\ SubSeq(us, 1, fits) \in Seq(Nat) /\ Len(SubSeq(us, 1, fits)) = fits
        /\ \A i \in 1..fits : SubSeq(us, 1, fits)[i] = us[i]
    <3>1. fits \in 0..Len(us)
      BY <2>1 DEF n
    <3> QED BY <1>1, <3>1, FirstOnes
  <2> PICK a \in Seq(Nat), b \in Seq(Nat) : a = SubSeq(ss, 1, x) /\ b = SubSeq(us, 1, fits)
    BY <2>2, <2>3
  <2>4. /\ a \o b \in Seq(Nat) /\ Len(a \o b) = x + fits
        /\ \A i \in 1..(x + fits) : (a \o b)[i] = IF i <= x THEN a[i] ELSE b[i - x]
    <3>1. Len(a) = x /\ Len(b) = fits
      BY <2>2, <2>3
    <3>2. /\ a \o b \in Seq(Nat) /\ Len(a \o b) = Len(a) + Len(b)
          /\ \A i \in 1..(Len(a) + Len(b)) :
                (a \o b)[i] = IF i <= Len(a) THEN a[i] ELSE b[i - Len(a)]
      BY ConcatProperties
    <3> QED BY <3>1, <3>2
  <2>5. ASSUME NEW i \in 1..(x + fits)
        PROVE  (a \o b)[i] = full[i]
    <3>1. full[i] = IF i <= x THEN list[i] ELSE us[i - x]
      BY <1>2, <2>1
    <3>2. CASE i <= x
      <4>1. i \in 1..x
        BY <1>1, <2>1, <3>2
      <4> QED BY <2>1, <2>2, <2>4, <3>1, <3>2, <4>1
    <3>3. CASE ~(i <= x)
      <4>1. x \in Nat /\ fits \in Nat /\ i \in Nat /\ i <= x + fits /\ i > x
        BY <1>1, <2>1, <3>3
      <4>2. i - x \in 1..fits
        BY <4>1
      <4> QED BY <2>3, <2>4, <3>1, <3>3, <4>2
    <3> QED BY <3>2, <3>3
  <2>6. a \o b = full
    <3>1. PICK c \in Seq(Nat) : c = a \o b
      BY <2>4
    <3>2. Len(c) = Len(full) /\ \A i \in 1..Len(c) : c[i] = full[i]
      BY <2>1, <2>4, <2>5, <3>1
    <3>3. c = full
      BY <3>2, SeqEqual
    <3> QED BY <3>1, <3>3
  <2> QED BY <1>6, <1>8, <2>6 DEF us
<1> QED BY <1>7, <1>8

\* Universes that a page leaves as they are begin with the pages before it and
\* this one already, and after the last page they are these pages.
LEMMA UnmodifiedIs ==
  ASSUME NEW src, NEW pg, PageOK(pg), NEW list \in Seq(Nat), src.universes \in Seq(Nat),
         src.next_index = Len(list), Begins(Cut(list), src.universes),
         UniversesMax # 0 => Len(src.universes) <= UniversesMax,
         FALSE \in Modifies(src, pg)
  PROVE  /\ Begins(Cut(list \o pg.universes), src.universes)
         /\ pg.page = pg.last_page => src.universes = Cut(list \o pg.universes)
<1> DEFINE us == pg.universes
           ss == src.universes
           n == Len(us)
           x == Len(list)
           remaining == IF Len(ss) >= x THEN Len(ss) - x ELSE 1000
           here == SubSeq(ss, x + 1, x + n)
<1>1. /\ us \in Seq(Nat) /\ ss \in Seq(Nat) /\ n \in Nat /\ x \in Nat /\ n < 1000
      /\ UniversesMax \in Nat /\ Len(ss) \in Nat
  BY SourceDetectorAssumption DEF PageOK, Huge
<1>2. /\ Cut(list \o us) \in Seq(Nat)
      /\ Len(Cut(list \o us)) = IF UniversesMax = 0 \/ x + n <= UniversesMax
                                     THEN x + n ELSE UniversesMax
      /\ \A i \in 1..Len(Cut(list \o us)) :
               Cut(list \o us)[i] = IF i <= x THEN list[i] ELSE us[i - x]
  BY <1>1, CutLonger
<1>3. /\ Len(Cut(list)) = IF UniversesMax = 0 \/ x <= UniversesMax THEN x ELSE UniversesMax
      /\ \A i \in 1..Len(Cut(list)) : Cut(list)[i] = list[i]
  BY CutIs
<1>4. /\ Len(Cut(list)) <= Len(ss) /\ \A i \in 1..Len(Cut(list)) : ss[i] = list[i]
  BY <1>3 DEF Begins
<1>5. /\ ~(n > remaining) /\ (pg.page = pg.last_page => ~(n < remaining))
      /\ (x + n > Len(ss) /\ n > 0) \/ here = us
  <2> DEFINE replaces == n > remaining \/ (pg.page = pg.last_page /\ n < remaining)
             beyond == x + n > Len(ss) /\ n > 0
  <2>1. Modifies(src, pg) = IF replaces THEN {TRUE} ELSE IF beyond THEN BOOLEAN ELSE {here # us}
    BY DEF Modifies, Minus, Huge
  <2> HIDE DEF here, us
  <2>2. ~replaces
    BY <2>1
  <2>3. beyond \/ here = us
    BY <2>1
  <2> QED BY <2>2, <2>3
<1> PICK full \in Seq(Nat) : full = Cut(list \o us)
  BY <1>2
<1> HIDE DEF us, ss, n, x, here
<1>6. CASE Len(ss) < x
  <2>1. UniversesMax # 0 /\ x > UniversesMax /\ Len(ss) = UniversesMax
    BY <1>1, <1>3, <1>4, <1>6 DEF ss
  <2>2. Len(full) = UniversesMax /\ Len(Cut(list)) = UniversesMax
    BY <1>1, <1>2, <1>3, <2>1
  <2>3. \A i \in 1..UniversesMax : full[i] = list[i]
    <3>1. \A i \in 1..UniversesMax : i <= x
      BY <1>1, <2>1
    <3> QED BY <1>2, <2>2, <3>1
  <2>4. Begins(full, ss)
    BY <1>4, <2>1, <2>2, <2>3 DEF Begins
  <2>5. n < remaining
    BY <1>1, <1>6
  <2> QED BY <1>5, <2>4, <2>5 DEF us, ss
<1>7. CASE Len(ss) >= x
  <2>1. n <= Len(ss) - x /\ (pg.page = pg.last_page => n = Len(ss) - x)
    BY <1>1, <1>5, <1>7
  <2>2. here = us
    BY <1>1, <1>5, <2>1
  <2>3. Len(full) = x + n
    BY <1>1, <1>2, <2>1 DEF ss
  <2>4. \A i \in 1..x : ss[i] = list[i]
    <3>1. Len(Cut(list)) = x
      BY <1>1, <1>3, <1>7 DEF ss
    <3> QED BY <1>4, <3>1
  <2>5. \A i \in 1..n : us[i] = ss[x + i]
    <3>1. x + 1 \in Int /\ x + n \in Int /\ \A i \in (x + 1)..(x + n) : ss[i] \in Nat
      BY <1>1, <2>1
    <3>2. \A i \in 1..((x + n) - (x + 1) + 1) : here[i] = ss[(x + 1) + i - 1]
      BY <3>1, SubSeqProperties DEF here
    <3>3. \A i \in 1..n : i \in 1..((x + n) - (x + 1) + 1) /\ (x + 1) + i - 1 = x + i
      BY <1>1
    <3> QED BY <2>2, <3>2, <3>3
  <2>6. ASSUME NEW i \in 1..(x + n) PROVE full[i] = ss[i]
    <3>1. full[i] = IF i <= x THEN list[i] ELSE us[i - x]
      BY <1>2, <2>3
    <3>2. CASE i <= x
      <4>1. i \in 1..x
        BY <1>1, <3>2
      <4> QED BY <2>4, <3>1, <3>2, <4>1
    <3>3. CASE ~(i <= x)
      <4>1. i - x \in 1..n /\ x + (i - x) = i
        BY <1>1, <3>3
      <4> QED BY <2>5, <3>1, <3>3, <4>1
    <3> QED BY <3>2, <3>3
  <2>7. Begins(full, ss)
    <3>1. Len(full) <= Len(ss)
      BY <1>1, <2>1, <2>3
    <3> QED BY <2>3, <2>6, <3>1 DEF Begins
  <2>8. ASSUME pg.page = pg.last_page PROVE ss = full
    <3>1. Len(ss) = Len(full)
      BY <1>1, <2>1, <2>3, <2>8
    <3>2. \A i \in 1..Len(ss) : ss[i] = full[i]
      BY <2>3, <2>6, <3>1
    <3> QED BY <1>1, <3>1, <3>2, SeqEqual
  <2> QED BY <2>7, <2>8 DEF us, ss
<1> QED BY <1>1, <1>6, <1>7

\* A source after a page that came in sequence.
LEMMA WithPageIs ==
  ASSUME NEW src \in DiscoverySource, NEW pg, PageOK(pg), NEW list \in Seq(Nat),
         src.next_index = Len(list), Begins(Cut(list), src.universes),
         UniversesMax # 0 => Len(src.universes) <= UniversesMax,
         NEW modifies \in Modifies(src, pg)
  PROVE  LET new == WithPage(src, pg, modifies)
         IN  /\ new \in DiscoverySource
             /\ UniversesMax # 0 => Len(new.universes) <= UniversesMax
             /\ Begins(Cut(list \o pg.universes), new.universes)
             /\ pg.page = pg.last_page => new.universes = Cut(list \o pg.universes)
             /\ new.next_index = src.next_index /\ new.next_page = src.next_page
             /\ new.expired = src.expired /\ new.notified_count = src.notified_count
             /\ ~new.dirty => ~src.dirty /\ new.universes = src.universes
<1>1. src.universes \in Seq(Nat) /\ pg.universes \in Seq(Nat)
  BY DEF DiscoverySource, PageOK
<1>2. CASE modifies = FALSE
  <2>1. WithPage(src, pg, modifies) = src
    BY <1>2 DEF WithPage
  <2>2. /\ Begins(Cut(list \o pg.universes), src.universes)
        /\ pg.page = pg.last_page => src.universes = Cut(list \o pg.universes)
    BY <1>1, <1>2, UnmodifiedIs
  <2> QED BY <2>1, <2>2
<1>3. CASE modifies = TRUE
  <2>1. Replaced(src, pg) = Cut(list \o pg.universes)
    BY <1>1, ReplacedIs
  <2>2. PICK full \in Seq(Nat) :
           /\ full = Cut(list \o pg.universes)
           /\ UniversesMax # 0 => Len(full) <= UniversesMax
    BY <1>1, CutLonger, SourceDetectorAssumption
  <2>3. Begins(full, full)
    BY <2>2 DEF Begins
  <2>4. PICK long \in BOOLEAN : long = (src.suppressed \/ IsTooLong(src, pg))
    BY DEF IsTooLong
  <2>5. WithPage(src, pg, modifies) = [src EXCEPT !.dirty = TRUE, !.universes = full, !.suppressed = long]
    BY <1>3, <2>1, <2>2, <2>4 DEF WithPage
  <2> QED BY <2>2, <2>3, <2>5 DEF DiscoverySource
<1>4. modifies \in BOOLEAN
  BY DEF Modifies
<1> QED BY <1>2, <1>3, <1>4

LEMMA HeardIs ==
  ASSUME NEW h \in HeardRecord, NEW pg, PageOK(pg)
  PROVE  Heard(h, pg) \in HeardRecord /\ NothingHeard \in HeardRecord
<1>1. << >> \in Seq(Nat) /\ 0 \in Nat /\ 1 \in Nat
  OBVIOUS
<1>2. NothingHeard \in HeardRecord
  BY <1>1 DEF NothingHeard, HeardRecord
<1>3. h.list \o pg.universes \in Seq(Nat)
  BY ConcatProperties DEF HeardRecord, PageOK
<1> QED BY <1>1, <1>2, <1>3 DEF Heard, HeardRecord, PageOK

\* What a page in sequence continues, in the source and in what came of it.
\* The state begun has come as far as the pages before pg, the list so far.
IsBegun(src, h, pg, begun, list) ==
    /\ begun = BeginsHere([src EXCEPT !.expired = FALSE], pg)
    /\ begun.universes = src.universes /\ begun.dirty = src.dirty
    /\ begun.next_index = Len(list) /\ begun.next_page = pg.page
    /\ Begins(Cut(list), begun.universes)
    /\ Heard(h, pg).list = list \o pg.universes
    /\ Heard(h, pg).pages = pg.page + 1
    /\ Heard(h, pg).complete = (pg.page = pg.last_page)

LEMMA BegunIs ==
  ASSUME NEW src, NEW h \in HeardRecord, Follows(src, h), NEW pg, PageOK(pg),
         IsInSequence(src, pg)
  PROVE  \E begun \in DiscoverySource : \E list \in Seq(Nat) :
            IsBegun(src, h, pg, begun, list)
<1>1. src \in DiscoverySource
  BY DEF Follows
<1>2. CASE pg.page = 0
  <2> DEFINE new == [[src EXCEPT !.expired = FALSE] EXCEPT !.next_index = 0, !.next_page = 0]
  <2>9. /\ new \in DiscoverySource
        /\ new.universes = src.universes /\ new.dirty = src.dirty
        /\ new.next_index = 0 /\ new.next_page = 0
    BY <1>1 DEF DiscoverySource
  <2>10. new = BeginsHere([src EXCEPT !.expired = FALSE], pg)
    BY <1>2 DEF BeginsHere
  <2> HIDE DEF new
  <2>1. PICK begun \in DiscoverySource :
           /\ begun = BeginsHere([src EXCEPT !.expired = FALSE], pg)
           /\ begun.universes = src.universes /\ begun.dirty = src.dirty
           /\ begun.next_index = 0 /\ begun.next_page = 0
    BY <2>9, <2>10
  <2>11. << >> \in Seq(Nat)
    OBVIOUS
  <2>2. PICK list \in Seq(Nat) : list = << >>
    BY <2>11
  <2>3. Len(list) = 0
    BY <2>2, EmptySeq
  <2>4. Begins(Cut(list), begun.universes)
    <3>4. UniversesMax \in Nat
      BY SourceDetectorAssumption
    <3>3. Len(Cut(list)) = IF UniversesMax = 0 \/ Len(list) <= UniversesMax THEN Len(list) ELSE UniversesMax
      BY CutIs
    <3>1. Len(Cut(list)) = 0
      BY <2>3, <3>3, <3>4
    <3>2. begun.universes \in Seq(Nat)
      BY <2>1 DEF DiscoverySource
    <3> QED BY <3>1, <3>2 DEF Begins
  <2>5. pg.universes \in Seq(Nat) /\ pg.last_page \in Nat
    BY DEF PageOK
  <2>6. list \o pg.universes = pg.universes
    BY <2>2, <2>5, ConcatEmptySeq
  <2>7. /\ Heard(h, pg).list = pg.universes /\ Heard(h, pg).pages = 1
        /\ Heard(h, pg).complete = (pg.last_page = 0)
    BY <1>2 DEF Heard
  <2>8. Heard(h, pg).complete = (pg.page = pg.last_page)
    BY <1>2, <2>7
  <2>12. IsBegun(src, h, pg, begun, list)
    BY <1>2, <2>1, <2>3, <2>4, <2>6, <2>7, <2>8 DEF IsBegun
  <2> QED BY <2>12
<1>3. CASE pg.page # 0
  <2>1. pg.page = src.next_page /\ pg.page \in Nat
    BY <1>3 DEF IsInSequence, PageOK
  <2>2. /\ h.pages # 0 /\ ~h.complete /\ src.next_page = h.pages /\ src.next_index = Len(h.list)
        /\ Begins(Cut(h.list), src.universes)
    BY <1>3, <2>1 DEF Follows
  <2> DEFINE new == [src EXCEPT !.expired = FALSE]
  <2>9. /\ new \in DiscoverySource
        /\ new.universes = src.universes /\ new.dirty = src.dirty
        /\ new.next_index = src.next_index /\ new.next_page = src.next_page
    BY <1>1 DEF DiscoverySource
  <2>10. new = BeginsHere([src EXCEPT !.expired = FALSE], pg)
    BY <1>3 DEF BeginsHere
  <2> HIDE DEF new
  <2>3. PICK begun \in DiscoverySource :
           /\ begun = BeginsHere([src EXCEPT !.expired = FALSE], pg)
           /\ begun.universes = src.universes /\ begun.dirty = src.dirty
           /\ begun.next_index = src.next_index /\ begun.next_page = src.next_page
    BY <2>9, <2>10
  <2>4. PICK list \in Seq(Nat) : list = h.list
    BY DEF HeardRecord
  <2>5. Continues(h, pg)
    BY <2>1, <2>2 DEF Continues
  <2>6. /\ Heard(h, pg).list = h.list \o pg.universes /\ Heard(h, pg).pages = h.pages + 1
        /\ Heard(h, pg).complete = (pg.page = pg.last_page)
    BY <1>3, <2>5 DEF Heard
  <2>12. IsBegun(src, h, pg, begun, list)
    BY <2>1, <2>2, <2>3, <2>4, <2>6 DEF IsBegun
  <2> QED BY <2>12
<1> QED BY <1>2, <1>3

\* A source that stores a page, and what the application is told.
StoresPage(s, src, h, pg, new) ==
    /\ found' = [x \in DOMAIN found \cup {s} |-> IF x = s THEN new ELSE found[x]]
    /\ Follows(new, Heard(h, pg))
    /\ IsTold(s, src, told) => IsTold(s, new, told')
    /\ \/ told' = told
       \/ /\ told' = [x \in DOMAIN told \cup {s} |->
                        IF x = s THEN Cut(Heard(h, pg).list) ELSE told[x]]
          /\ Heard(h, pg).complete /\ IsAscending(Cut(Heard(h, pg).list))

LEMMA OutOfSequence ==
  ASSUME NEW s, NEW src, NEW h \in HeardRecord, Follows(src, h), NEW pg, PageOK(pg),
         ~IsInSequence(src, pg), ProcessPage(s, src, pg)
  PROVE  \E new \in DiscoverySource : StoresPage(s, src, h, pg, new)
<1>1. src \in DiscoverySource
  BY DEF Follows
<1> DEFINE reset == [[src EXCEPT !.expired = FALSE] EXCEPT !.next_index = 0, !.next_page = 0]
<1>7. /\ reset \in DiscoverySource
      /\ reset.universes = src.universes /\ reset.dirty = src.dirty
      /\ reset.next_index = 0 /\ reset.next_page = 0
  BY <1>1 DEF DiscoverySource
<1>8. PICK new : new = reset
  OBVIOUS
<1>2. /\ new \in DiscoverySource
      /\ new = [[src EXCEPT !.expired = FALSE] EXCEPT !.next_index = 0, !.next_page = 0]
      /\ new.universes = src.universes /\ new.dirty = src.dirty
      /\ new.next_index = 0 /\ new.next_page = 0
  BY <1>7, <1>8
<1> HIDE DEF reset
<1>3. /\ found' = [x \in DOMAIN found \cup {s} |-> IF x = s THEN new ELSE found[x]]
      /\ told' = told
  BY <1>2 DEF ProcessPage
<1>4. Heard(h, pg) = NothingHeard
  <2>1. pg.page # 0 /\ pg.page # src.next_page
    BY DEF IsInSequence
  <2>2. ~Continues(h, pg)
    BY <2>1 DEF Continues, Follows
  <2> QED BY <2>1, <2>2 DEF Heard
<1>5. Follows(new, NothingHeard)
  BY <1>2 DEF Follows, NothingHeard
<1>6. IsTold(s, src, told) => IsTold(s, new, told')
  BY <1>2, <1>3 DEF IsTold
<1>9. StoresPage(s, src, h, pg, new)
  BY <1>3, <1>4, <1>5, <1>6 DEF StoresPage
<1> QED BY <1>2, <1>9

LEMMA InSequence ==
  ASSUME NEW s, NEW src, NEW h \in HeardRecord, Follows(src, h), NEW pg, PageOK(pg),
         IsInSequence(src, pg), ProcessPage(s, src, pg)
  PROVE  \E new \in DiscoverySource : StoresPage(s, src, h, pg, new)
<1>1. src \in DiscoverySource /\ (UniversesMax # 0 => Len(src.universes) <= UniversesMax)
  BY DEF Follows
<1>9. PICK begun \in DiscoverySource : \E list \in Seq(Nat) : IsBegun(src, h, pg, begun, list)
  BY BegunIs
<1>10. PICK list \in Seq(Nat) : IsBegun(src, h, pg, begun, list)
  BY <1>9
<1>2. /\ begun = BeginsHere([src EXCEPT !.expired = FALSE], pg)
      /\ begun.universes = src.universes /\ begun.dirty = src.dirty
      /\ begun.next_index = Len(list) /\ begun.next_page = pg.page
      /\ Begins(Cut(list), begun.universes)
      /\ Heard(h, pg).list = list \o pg.universes
      /\ Heard(h, pg).pages = pg.page + 1
      /\ Heard(h, pg).complete = (pg.page = pg.last_page)
  BY <1>10 DEF IsBegun
<1>3. PICK modifies \in Modifies(begun, pg) :
         LET merged == WithPage(begun, pg, modifies)
         IN  IF pg.page < pg.last_page
               THEN /\ found' = [x \in DOMAIN found \cup {s} |->
                                   IF x = s THEN NextPage(merged, pg) ELSE found[x]]
                    /\ told' = told
               ELSE /\ found' = [x \in DOMAIN found \cup {s} |->
                                   IF x = s THEN Reported(merged) ELSE found[x]]
                    /\ told' = IF ~Reports(merged) THEN told
                                ELSE [x \in DOMAIN told \cup {s} |->
                                        IF x = s THEN merged.universes ELSE told[x]]
  BY <1>2 DEF ProcessPage
<1>4. PICK merged \in DiscoverySource :
             /\ merged = WithPage(begun, pg, modifies)
             /\ UniversesMax # 0 => Len(merged.universes) <= UniversesMax
             /\ Begins(Cut(list \o pg.universes), merged.universes)
             /\ pg.page = pg.last_page => merged.universes = Cut(list \o pg.universes)
             /\ merged.next_index = Len(list) /\ merged.next_page = pg.page
             /\ ~merged.dirty => ~src.dirty /\ merged.universes = src.universes
  BY <1>1, <1>2, WithPageIs
<1>5. /\ list \o pg.universes \in Seq(Nat) /\ Len(list \o pg.universes) = Len(list) + Len(pg.universes)
      /\ pg.page \in Nat /\ pg.last_page \in Nat /\ pg.page <= pg.last_page
      /\ Len(list) \in Nat /\ Len(pg.universes) \in Nat
  BY ConcatProperties DEF PageOK
<1>6. PICK full \in Seq(Nat) : full = list \o pg.universes
  BY <1>5
<1>7. CASE pg.page < pg.last_page
  <2>10. merged.next_index \in Nat /\ merged.next_page \in Nat
    BY DEF DiscoverySource
  <2>11. PICK at \in Nat : at = merged.next_index + Len(pg.universes)
    BY <1>5, <2>10
  <2>12. PICK page \in Nat : page = merged.next_page + 1
    BY <2>10
  <2> DEFINE next == [merged EXCEPT !.next_index = at, !.next_page = page]
  <2>6. /\ next \in DiscoverySource
        /\ next.universes = merged.universes /\ next.dirty = merged.dirty
        /\ next.next_index = at /\ next.next_page = page
    BY DEF DiscoverySource
  <2>7. PICK new : new = next
    OBVIOUS
  <2>8. new = NextPage(merged, pg)
    BY <2>7, <2>11, <2>12 DEF NextPage
  <2> HIDE DEF next
  <2>1. /\ new \in DiscoverySource
        /\ new = NextPage(merged, pg) /\ new.universes = merged.universes
        /\ new.dirty = merged.dirty /\ new.next_index = Len(full) /\ new.next_page = pg.page + 1
    BY <1>4, <1>5, <1>6, <2>6, <2>7, <2>8, <2>11, <2>12
  <2>2. /\ found' = [x \in DOMAIN found \cup {s} |-> IF x = s THEN new ELSE found[x]]
        /\ told' = told
    BY <1>3, <1>4, <1>7, <2>1
  <2>13. pg.page # pg.last_page
    BY <1>5, <1>7
  <2>3. ~Heard(h, pg).complete /\ Heard(h, pg).pages = pg.page + 1 /\ Heard(h, pg).list = full
    BY <1>2, <1>6, <2>13
  <2>4. Follows(new, Heard(h, pg))
    BY <1>4, <1>5, <1>6, <2>1, <2>3 DEF Follows
  <2>5. IsTold(s, src, told) => IsTold(s, new, told')
    BY <1>4, <2>1, <2>2 DEF IsTold
  <2>9. StoresPage(s, src, h, pg, new)
    BY <2>2, <2>4, <2>5 DEF StoresPage
  <2> QED BY <2>1, <2>9
<1>8. CASE ~(pg.page < pg.last_page)
  <2>1. pg.page = pg.last_page
    BY <1>5, <1>8
  <2>2. \E new \in DiscoverySource :
           /\ new = Reported(merged) /\ new.universes = merged.universes
           /\ new.dirty = FALSE /\ new.next_index = 0 /\ new.next_page = 0
    <3>1. Len(merged.universes) \in Nat
      BY DEF DiscoverySource
    <3>2. PICK count \in Nat : count = IF Reports(merged) THEN Len(merged.universes) ELSE merged.notified_count
      BY <3>1 DEF DiscoverySource
    <3>3. PICK long \in BOOLEAN : long = (merged.suppressed /\ ~(Reports(merged) /\ Len(merged.universes) < merged.notified_count))
      OBVIOUS
    <3> DEFINE done == [merged EXCEPT !.next_index = 0, !.next_page = 0, !.dirty = FALSE,
                                     !.suppressed = long, !.notified_count = count]
    <3>4. /\ done \in DiscoverySource /\ done.universes = merged.universes
          /\ done.dirty = FALSE /\ done.next_index = 0 /\ done.next_page = 0
      BY DEF DiscoverySource
    <3>5. done = Reported(merged)
      BY <3>2, <3>3 DEF Reported
    <3> HIDE DEF done
    <3> QED BY <3>4, <3>5
  <2>9. PICK new \in DiscoverySource :
           /\ new = Reported(merged) /\ new.universes = merged.universes
           /\ new.dirty = FALSE /\ new.next_index = 0 /\ new.next_page = 0
    BY <2>2
  <2>3. /\ found' = [x \in DOMAIN found \cup {s} |-> IF x = s THEN new ELSE found[x]]
        /\ told' = IF ~Reports(merged) THEN told
                                ELSE [x \in DOMAIN told \cup {s} |->
                                        IF x = s THEN merged.universes ELSE told[x]]
    BY <1>3, <1>4, <1>8, <2>9
  <2>4. /\ Heard(h, pg).complete /\ Heard(h, pg).list = full
        /\ merged.universes = Cut(full)
    BY <1>2, <1>4, <1>6, <2>1
  <2>5. Follows(new, Heard(h, pg))
    BY <1>4, <2>9, <2>4 DEF Follows
  <2>6. CASE Reports(merged)
    <3>1. told' = [x \in DOMAIN told \cup {s} |-> IF x = s THEN Cut(full) ELSE told[x]]
          /\ IsAscending(Cut(full))
      BY <2>3, <2>4, <2>6 DEF Reports
    <3>2. s \in DOMAIN told' /\ told'[s] = new.universes
      BY <2>9, <2>4, <3>1
    <3>3. StoresPage(s, src, h, pg, new)
      BY <2>3, <2>4, <2>5, <3>1, <3>2 DEF StoresPage, IsTold
    <3> QED BY <2>9, <3>3
  <2>7. CASE ~Reports(merged)
    <3>1. told' = told
      BY <2>3, <2>7
    <3>2. IsTold(s, src, told) => IsTold(s, new, told')
      BY <1>4, <2>9, <2>7, <3>1 DEF IsTold, Reports
    <3>3. StoresPage(s, src, h, pg, new)
      BY <2>3, <2>5, <3>1, <3>2 DEF StoresPage
    <3> QED BY <2>9, <3>3
  <2> QED BY <2>6, <2>7
<1> QED BY <1>7, <1>8

-----------------------------------------------------------------------------
\* The state of a source before a page of it.
Before(s) == IF s \in DOMAIN found THEN found[s] ELSE NewDiscoverySource

LEMMA NewIs ==
  /\ Follows(NewDiscoverySource, NothingHeard)
  /\ \A s, reports : IsTold(s, NewDiscoverySource, reports)
<1>1. << >> \in Seq(Nat) /\ Len(<< >>) = 0
  BY EmptySeq
<1>2. UniversesMax \in Nat
  BY SourceDetectorAssumption
<1>3. NewDiscoverySource \in DiscoverySource
  BY <1>1 DEF NewDiscoverySource, DiscoverySource
<1> QED BY <1>1, <1>2, <1>3 DEF Follows, NewDiscoverySource, NothingHeard, IsTold

LEMMA BeforeIs ==
  ASSUME DInv, NEW s \in Sources
  PROVE  /\ heard[s] \in HeardRecord
         /\ Follows(Before(s), heard[s])
         /\ s \notin inherited => IsTold(s, Before(s), told)
<1>1. heard[s] \in HeardRecord
  BY DEF DInv
<1>2. CASE s \in DOMAIN found
  BY <1>1, <1>2 DEF DInv, Before
<1>3. CASE s \notin DOMAIN found
  BY <1>1, <1>3, NewIs DEF DInv, Before
<1> QED BY <1>2, <1>3

\* Whatever page comes in, the source stores it.
LEMMA PageStores ==
  ASSUME DInv, NEW s \in Sources, NEW pg \in Pages, Page(s, pg)
  PROVE  \E new \in DiscoverySource : StoresPage(s, Before(s), heard[s], pg, new)
<1>1. ProcessPage(s, Before(s), pg)
  BY DEF Page, Before
<1>2. heard[s] \in HeardRecord /\ Follows(Before(s), heard[s])
  BY BeforeIs
<1>3. PageOK(pg)
  BY PagesAre
<1>4. CASE IsInSequence(Before(s), pg)
  BY <1>1, <1>2, <1>3, <1>4, InSequence
<1>5. CASE ~IsInSequence(Before(s), pg)
  BY <1>1, <1>2, <1>3, <1>5, OutOfSequence
<1> QED BY <1>4, <1>5

\* What a step must do to the reports.
Reporting ==
    \A s \in DOMAIN told' :
       s \notin DOMAIN told \/ told[s] # told'[s] =>
         /\ heard'[s].complete
         /\ told'[s] = Cut(heard'[s].list)
         /\ IsAscending(told'[s])

LEMMA PageAgrees ==
  ASSUME DInv, HInv', NEW s \in Sources, NEW pg \in Pages, Page(s, pg)
  PROVE  DInv' /\ Reporting
<1> DEFINE h == heard[s]
<1>1. PICK new \in DiscoverySource : StoresPage(s, Before(s), h, pg, new)
  BY PageStores
<1>2. /\ found' = [x \in DOMAIN found \cup {s} |-> IF x = s THEN new ELSE found[x]]
      /\ Follows(new, Heard(h, pg))
      /\ IsTold(s, Before(s), told) => IsTold(s, new, told')
      /\ \/ told' = told
         \/ /\ told' = [x \in DOMAIN told \cup {s} |->
                          IF x = s THEN Cut(Heard(h, pg).list) ELSE told[x]]
            /\ Heard(h, pg).complete /\ IsAscending(Cut(Heard(h, pg).list))
  BY <1>1 DEF StoresPage
<1>3. heard' = [heard EXCEPT ![s] = Heard(h, pg)] /\ inherited' = inherited
  BY DEF Page
<1>4. Heard(h, pg) \in HeardRecord
  BY BeforeIs, HeardIs, PagesAre
<1> PICK now \in HeardRecord : now = Heard(h, pg)
  BY <1>4
<1>5. /\ heard' \in [Sources -> HeardRecord] /\ heard'[s] = now
      /\ \A x \in Sources \ {s} : heard'[x] = heard[x]
  BY <1>3 DEF DInv
<1>6. /\ DOMAIN found' = DOMAIN found \cup {s} /\ found'[s] = new
      /\ \A x \in DOMAIN found \ {s} : found'[x] = found[x]
  BY <1>2
<1>7. found' \in [DOMAIN found' -> DiscoverySource]
  BY <1>2, <1>6 DEF DInv
<1>8. DOMAIN found \subseteq Sources /\ DOMAIN found' \subseteq Sources
  BY <1>6 DEF DInv, HInv
<1>9. /\ DOMAIN told' \subseteq DOMAIN told \cup {s}
      /\ DOMAIN told \subseteq DOMAIN told'
      /\ \A x \in DOMAIN told' \ {s} : x \in DOMAIN told /\ told'[x] = told[x]
  BY <1>2
<1>10. \A x \in DOMAIN found' : Follows(found'[x], heard'[x])
  BY <1>2, <1>5, <1>6, <1>8 DEF DInv
<1>11. ASSUME NEW x \in DOMAIN found' \ inherited'
       PROVE  IsTold(x, found'[x], told')
  <2>1. CASE x = s
    <3>1. IsTold(s, Before(s), told)
      BY <1>3, <1>11, <2>1, BeforeIs
    <3> QED BY <1>2, <1>6, <2>1, <3>1
  <2>2. CASE x # s
    <3>1. IsTold(x, found[x], told) /\ found'[x] = found[x]
      BY <1>3, <1>6, <1>11, <2>2 DEF DInv
    <3>2. x \in DOMAIN told => x \in DOMAIN told' /\ told'[x] = told[x]
      BY <1>9, <2>2
    <3> QED BY <3>1, <3>2 DEF IsTold
  <2> QED BY <2>1, <2>2
<1>12. \A x \in Sources \ DOMAIN found' : heard'[x] = NothingHeard
  BY <1>5, <1>6 DEF DInv
<1>13. DOMAIN told' \subseteq DOMAIN found'
  BY <1>6, <1>9 DEF DInv
<1>14. DInv'
  BY <1>5, <1>7, <1>10, <1>11, <1>12, <1>13 DEF DInv
<1>15. ASSUME NEW x \in DOMAIN told', x \notin DOMAIN told \/ told[x] # told'[x]
       PROVE  /\ heard'[x].complete
              /\ told'[x] = Cut(heard'[x].list)
              /\ IsAscending(told'[x])
  <2>1. x = s
    BY <1>9, <1>15
  <2>2. /\ told' = [y \in DOMAIN told \cup {s} |-> IF y = s THEN Cut(now.list) ELSE told[y]]
        /\ now.complete /\ IsAscending(Cut(now.list))
    BY <1>2, <1>15
  <2>3. told'[s] = Cut(now.list)
    BY <2>2
  <2> QED BY <1>5, <2>1, <2>2, <2>3
<1> QED BY <1>14, <1>15 DEF Reporting

\* Nothing of the sources found, of what came of them and of the reports changes.
LEMMA DetectorUnchanged ==
  ASSUME DInv, HInv', UNCHANGED <<found, told, heard, inherited>>
  PROVE  DInv' /\ Reporting
BY DEF DInv, Reporting

LEMMA TimerAgrees ==
  ASSUME DInv, HInv', NEW s \in Sources, TimerExpires(s)
  PROVE  DInv' /\ Reporting
<1>1. /\ s \in DOMAIN found
      /\ found' = [found EXCEPT ![s].expired = TRUE]
      /\ UNCHANGED <<told, heard, inherited>>
  BY DEF TimerExpires, history
<1>2. found[s] \in DiscoverySource
  BY <1>1 DEF DInv
<1> DEFINE new == [found[s] EXCEPT !.expired = TRUE]
<1>3. /\ new \in DiscoverySource
      /\ new.universes = found[s].universes /\ new.dirty = found[s].dirty
      /\ new.next_index = found[s].next_index /\ new.next_page = found[s].next_page
  BY <1>2 DEF DiscoverySource
<1>4. found' = [found EXCEPT ![s] = new]
  BY <1>1
<1> HIDE DEF new
<1>5. /\ DOMAIN found' = DOMAIN found /\ found' \in [DOMAIN found -> DiscoverySource]
      /\ \A x \in DOMAIN found :
            /\ found'[x].universes = found[x].universes /\ found'[x].dirty = found[x].dirty
            /\ found'[x].next_index = found[x].next_index
            /\ found'[x].next_page = found[x].next_page
  BY <1>1, <1>3, <1>4 DEF DInv
<1>6. \A x \in DOMAIN found : found'[x] \in DiscoverySource
  BY <1>5
<1>7. \A x \in DOMAIN found : Follows(found'[x], heard'[x])
  BY <1>1, <1>5, <1>6 DEF DInv, Follows
<1>8. \A x \in DOMAIN found \ inherited : IsTold(x, found'[x], told')
  BY <1>1, <1>5 DEF DInv, IsTold
<1>9. DInv'
  BY <1>1, <1>5, <1>7, <1>8 DEF DInv
<1> QED BY <1>1, <1>9 DEF Reporting

LEMMA TickAgrees ==
  ASSUME DInv, HInv', Tick
  PROVE  DInv' /\ Reporting
<1> DEFINE S == Expired
<1>1. /\ found' = [x \in DOMAIN found \cap (DOMAIN found \ S) |-> found[x]]
      /\ told' = [x \in DOMAIN told \cap (DOMAIN told \ S) |-> told[x]]
      /\ heard' = [x \in Sources |-> IF x \in S THEN NothingHeard ELSE heard[x]]
      /\ inherited' = inherited \ S
  BY DEF Tick, Forget, Restrict
<1>2. S \subseteq DOMAIN found
  BY DEF Expired
<1> HIDE DEF S
<1>3. /\ DOMAIN found' = DOMAIN found \ S /\ DOMAIN told' = DOMAIN told \ S
      /\ \A x \in DOMAIN found' : found'[x] = found[x] /\ heard'[x] = heard[x]
      /\ \A x \in DOMAIN told' : told'[x] = told[x]
  BY <1>1 DEF DInv, HInv
<1>4. NothingHeard \in HeardRecord
  <2>1. << >> \in Seq(Nat)
    OBVIOUS
  <2> QED BY <2>1 DEF NothingHeard, HeardRecord
<1>5. heard' \in [Sources -> HeardRecord]
  BY <1>1, <1>4 DEF DInv
<1>6. found' \in [DOMAIN found' -> DiscoverySource]
  BY <1>1, <1>3 DEF DInv
<1>7. \A x \in DOMAIN found' : Follows(found'[x], heard'[x])
  BY <1>3 DEF DInv
<1>8. ASSUME NEW x \in DOMAIN found' \ inherited' PROVE IsTold(x, found'[x], told')
  <2>1. x \in DOMAIN found \ inherited /\ x \notin S
    BY <1>1, <1>3, <1>8
  <2>2. IsTold(x, found[x], told)
    BY <2>1 DEF DInv
  <2>3. x \in DOMAIN told => x \in DOMAIN told' /\ told'[x] = told[x]
    BY <1>3, <2>1
  <2> QED BY <1>3, <2>2, <2>3 DEF IsTold
<1>9. \A x \in Sources \ DOMAIN found' : heard'[x] = NothingHeard
  BY <1>1, <1>3 DEF DInv
<1>10. DOMAIN told' \subseteq DOMAIN found'
  BY <1>3 DEF DInv
<1>11. DInv'
  BY <1>5, <1>6, <1>7, <1>8, <1>9, <1>10 DEF DInv
<1>12. \A x \in DOMAIN told' : x \in DOMAIN told /\ told'[x] = told[x]
  BY <1>3
<1> QED BY <1>11, <1>12 DEF Reporting

LEMMA DestroyAgrees ==
  ASSUME DInv, HInv', Destroy
  PROVE  DInv' /\ Reporting
<1>1. /\ told' = << >> /\ inherited' = DOMAIN found
      /\ UNCHANGED <<found, heard>>
  BY DEF Destroy
<1>2. DOMAIN told' = {}
  BY <1>1
<1>3. DOMAIN found' \ inherited' = {}
  BY <1>1
<1>4. DInv'
  BY <1>1, <1>2, <1>3 DEF DInv
<1> QED BY <1>2, <1>4 DEF Reporting

LEMMA DetectorInit == Init => DInv
<1> SUFFICES ASSUME Init PROVE DInv
  OBVIOUS
<1>1. HInv
  BY HandlesInit
<1>2. found = << >> /\ told = << >> /\ heard = [s \in Sources |-> NothingHeard]
  BY DEF Init
<1>3. DOMAIN found = {} /\ DOMAIN told = {}
  BY <1>2
<1>4. NothingHeard \in HeardRecord
  <2>1. << >> \in Seq(Nat)
    OBVIOUS
  <2> QED BY <2>1 DEF NothingHeard, HeardRecord
<1>5. found \in [DOMAIN found -> DiscoverySource]
  BY <1>2, <1>3
<1> QED BY <1>1, <1>2, <1>3, <1>4, <1>5 DEF DInv

LEMMA DetectorStep == DInv /\ [Next]_vars => DInv' /\ Reporting
<1> SUFFICES ASSUME DInv, [Next]_vars PROVE DInv' /\ Reporting
  OBVIOUS
<1>0. HInv'
  BY HandlesStep DEF DInv
<1>1. ASSUME NEW s \in Sources, NEW pg \in Pages, Page(s, pg)
      PROVE  DInv' /\ Reporting
  BY <1>0, <1>1, PageAgrees
<1>2. ASSUME NEW s \in Sources, PageOfNoSource(s)
      PROVE  DInv' /\ Reporting
  BY <1>0, <1>2, DetectorUnchanged DEF PageOfNoSource, history
<1>3. ASSUME NEW s \in Sources, TimerExpires(s)
      PROVE  DInv' /\ Reporting
  BY <1>0, <1>3, TimerAgrees
<1>4. ASSUME NEW s \in Sources, Track(s)
      PROVE  DInv' /\ Reporting
  BY <1>0, <1>4, DetectorUnchanged DEF Track, detVars, history
<1>5. ASSUME NEW S \in SUBSET tracked, Untrack(S)
      PROVE  DInv' /\ Reporting
  BY <1>0, <1>5, DetectorUnchanged DEF Untrack, detVars, history
<1>6. ASSUME Tick
      PROVE  DInv' /\ Reporting
  BY <1>0, <1>6, TickAgrees
<1>7. ASSUME Destroy
      PROVE  DInv' /\ Reporting
  BY <1>0, <1>7, DestroyAgrees
<1>8. ASSUME Create
      PROVE  DInv' /\ Reporting
  BY <1>0, <1>8, DetectorUnchanged DEF Create, history
<1>9. CASE UNCHANGED vars
  BY <1>0, <1>9, DetectorUnchanged DEF vars, detVars, history
<1> QED
  BY <1>1, <1>2, <1>3, <1>4, <1>5, <1>6, <1>7, <1>8, <1>9 DEF Next

LEMMA DInvImplies == DInv => FoundAgree
<1> SUFFICES ASSUME DInv PROVE FoundAgree
  OBVIOUS
<1>1. HandlesCounted
  BY Counted DEF DInv, HInv, Table, Distinct, HandlesCounted, HandleRecord
<1>2. ASSUME NEW s \in DOMAIN found \ inherited, heard[s].complete,
             IsAscending(Cut(heard[s].list))
      PROVE  s \in DOMAIN told /\ told[s] = Cut(heard[s].list)
  <2>1. Follows(found[s], heard[s]) /\ IsTold(s, found[s], told)
    BY DEF DInv
  <2>2. found[s].universes = Cut(heard[s].list) /\ ~found[s].dirty
    BY <1>2, <2>1 DEF Follows
  <2> QED BY <1>2, <2>1, <2>2 DEF IsTold
<1>3. InSync
  BY <1>2 DEF InSync
<1>4. UniversesMax # 0 => \A s \in DOMAIN found : Len(found[s].universes) <= UniversesMax
  BY DEF DInv, Follows
<1>5. DOMAIN found \subseteq Sources /\ tracked \subseteq Sources /\ next_handle \in 0..MaxHandle
  BY DEF DInv, HInv
<1>6. /\ remote_sources \in [DOMAIN remote_sources -> HandleRecord]
      /\ DOMAIN remote_sources \subseteq Sources
  BY DEF DInv, HInv, Table
<1>7. TypeOK
  BY <1>4, <1>5, <1>6 DEF DInv, TypeOK, HandleRecord
<1> QED BY <1>1, <1>3, <1>7 DEF FoundAgree

\* What has come in without a gap, to a last page, is what the application was
\* told last, whatever pages were lost, repeated or changed before, however few
\* universes may be kept of it, and whatever the detector knew of the source
\* (process_universe_discovery_page compares each page with what is there and
\* notifies at the last page); and the handles are counted.
THEOREM DetectorFoundAgree == Spec => []FoundAgree
BY DetectorInit, DetectorStep, DInvImplies, PTL DEF Spec

\* What the application is told of a source is what its pages from 0 to a last
\* one make up, with no number missing between them, cut to the limit and in
\* ascending order (source_detector_state.c:290); pages of different lists may
\* come together in it.
THEOREM DetectorReportsAreConsecutive == Spec => ReportsAreConsecutive
<1>1. DInv /\ [Next]_vars /\ Reporting =>
        [\A s \in DOMAIN told' :
            s \notin DOMAIN told \/ told[s] # told'[s] =>
              /\ heard'[s].complete
              /\ told'[s] = Cut(heard'[s].list)
              /\ IsAscending(told'[s])]_vars
  BY DEF Reporting
<1> QED
  BY <1>1, DetectorInit, DetectorStep, PTL DEF Spec, ReportsAreConsecutive

===============================================================================
