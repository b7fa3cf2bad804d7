--------------------------- MODULE DmxMergerProofs ---------------------------
(***************************************************************************)
(* The output of a merger is the merge of its sources, for any number of   *)
(* sources, slots, levels and priorities, and its candidate scans are the  *)
(* loops of the code.                                                      *)
(***************************************************************************)
EXTENDS DmxMergerLoops, FiniteSetTheorems, WellFoundedInduction, TLAPS

-----------------------------------------------------------------------------
(***************************************************************************)
(* Least and greatest elements.                                            *)
(***************************************************************************)

\* A set of natural numbers that is not empty has a least element.
LEMMA LeastExists ==
    ASSUME NEW S \in SUBSET Nat, S # {}
    PROVE  \E x \in S : \A y \in S : x <= y
<1>1. PICK x \in S : \A y \in S : ~ (<<y, x>> \in OpToRel(<, Nat))
  BY NatLessThanWellFounded, WFMin, Zenon
<1>2. \A y \in S : ~ (y < x)
  BY <1>1 DEF OpToRel
<1> QED
  BY <1>2

\* A set of natural numbers with a bound that is not empty has a greatest one.
LEMMA GreatestExists ==
    ASSUME NEW N \in Nat, NEW S \in SUBSET (0..N), S # {}
    PROVE  \E x \in S : \A y \in S : y <= x
<1> DEFINE T == {n \in Nat : \E x \in S : n = N - x}
<1>1. T # {}
  <2>1. PICK x \in S : TRUE
    OBVIOUS
  <2>2. N - x \in T
    BY <2>1
  <2> QED
    BY <2>2
<1>2. PICK n \in T : \A m \in T : n <= m
  <2> HIDE DEF T
  <2>1. T \in SUBSET Nat
    BY DEF T
  <2> QED
    BY <1>1, <2>1, LeastExists
<1>3. PICK x \in S : n = N - x
  BY DEF T
<1>4. ASSUME NEW y \in S PROVE y <= x
  <2>1. N - y \in T
    OBVIOUS
  <2> QED
    BY <1>2, <1>3, <2>1
<1> QED
  BY <1>4
-----------------------------------------------------------------------------
(***************************************************************************)
(* Typing.                                                                 *)
(***************************************************************************)

IsTable(S) == DOMAIN S \subseteq Handles /\ S \in [DOMAIN S -> SourceState]

\* kSacnDmxMergerSourceInvalid is no handle, and handles are ordered
\* numbers.
LEMMA HandleType ==
    NoOwner \notin Handles /\ (\A c \in Handles : c \in Nat)
BY MergerAssumption

\* What a source offers for a slot is an output.
LEMMA WonType ==
    ASSUME NEW S, IsTable(S), NEW c \in DOMAIN S, NEW slot \in Slots
    PROVE  /\ Won(c, S[c], slot) \in SlotOutput
           /\ SourcePap(S[c], slot) \in Priority
           /\ S[c].levels[slot] \in Level
           /\ S[c].address_priority[slot] \in Priority
           /\ S[c].valid_level_count \in Nat
           /\ Won(c, S[c], slot).level = S[c].levels[slot]
           /\ Won(c, S[c], slot).pap = SourcePap(S[c], slot)
           /\ Won(c, S[c], slot).owner = c
<1> USE MergerAssumption DEF IsTable
<1>1. S[c] \in SourceState /\ c \in Handles
  OBVIOUS
<1>2. /\ S[c].levels[slot] \in Level
      /\ S[c].address_priority[slot] \in Priority
      /\ S[c].valid_level_count \in 0..NumSlots
  BY <1>1 DEF SourceState
<1>3. SourcePap(S[c], slot) \in Priority
  BY <1>2 DEF SourcePap, Priority
<1> QED
  BY <1>1, <1>2, <1>3 DEF Won, SlotOutput

\* The numbers of an output can be compared.
LEMMA OutputType ==
    ASSUME NEW out \in SlotOutput
    PROVE  out.pap \in Nat /\ out.level \in Nat /\ out.pap <= MaxPriority
BY MergerAssumption DEF SlotOutput, Level, Priority

\* The output of a slot without a source has the type of an output.
LEMMA UnsourcedType == Unsourced \in SlotOutput
BY MergerAssumption DEF Unsourced, SlotOutput, Level, Priority
-----------------------------------------------------------------------------
(***************************************************************************)
(* The candidate scans.                                                    *)
(***************************************************************************)

\* Among any candidates there is one that no other one beats.
LEMMA BestExists ==
    ASSUME NEW S, IsTable(S), NEW slot \in Slots,
           NEW C \in SUBSET DOMAIN S, C # {}
    PROVE  \E c \in C : \A d \in C :
              ~Beats(Won(d, S[d], slot), Won(c, S[c], slot))
<1> DEFINE pap(c) == SourcePap(S[c], slot)
           level(c) == S[c].levels[slot]
<1>1. \A c \in C : pap(c) \in 0..MaxPriority /\ level(c) \in 0..MaxLevel
  BY WonType DEF Priority, Level
<1>2. PICK a \in C : \A d \in C : pap(d) <= pap(a)
  <2> DEFINE P == {pap(c) : c \in C}
  <2>1. P \in SUBSET (0..MaxPriority) /\ P # {}
    BY <1>1
  <2>2. PICK p \in P : \A q \in P : q <= p
    <3> HIDE DEF P
    <3> QED
      BY <2>1, GreatestExists, MergerAssumption
  <2> QED
    BY <2>2
<1>3. PICK c \in {x \in C : pap(x) = pap(a)} :
         \A d \in {x \in C : pap(x) = pap(a)} : level(d) <= level(c)
  <2> DEFINE L == {level(x) : x \in {y \in C : pap(y) = pap(a)}}
  <2>1. L \in SUBSET (0..MaxLevel) /\ L # {}
    BY <1>1
  <2>2. PICK l \in L : \A m \in L : m <= l
    <3> HIDE DEF L
    <3> QED
      BY <2>1, GreatestExists, MergerAssumption
  <2> QED
    BY <2>2
<1>4. ASSUME NEW d \in C
      PROVE  ~Beats(Won(d, S[d], slot), Won(c, S[c], slot))
  BY <1>1, <1>2, <1>3, WonType DEF Beats
<1> QED
  BY <1>3, <1>4

\* The scan ends with the output it started from if no candidate beats it, and
\* otherwise with a candidate that beats it and is not beaten by any.
LEMMA ScanResult ==
    ASSUME NEW S, IsTable(S), NEW slot \in Slots, NEW h, NEW start
    PROVE  \/ /\ Scan(h, S, slot, start) = start
              /\ \A d \in DOMAIN S \ {h} : ~Beats(Won(d, S[d], slot), start)
           \/ \E c \in DOMAIN S \ {h} :
                 /\ Scan(h, S, slot, start) = Won(c, S[c], slot)
                 /\ Beats(Won(c, S[c], slot), start)
                 /\ \A d \in DOMAIN S \ {h} :
                       Beats(Won(d, S[d], slot), start)
                         => ~Beats(Won(d, S[d], slot), Won(c, S[c], slot))
<1> DEFINE offer(c) == Won(c, S[c], slot)
           better == {c \in DOMAIN S \ {h} : Beats(offer(c), start)}
           best == {c \in better : \A d \in better : ~Beats(offer(d), offer(c))}
<1>1. CASE better = {}
  BY <1>1 DEF Scan
<1>2. CASE better # {}
  <2>1. best # {}
    <3>1. better \in SUBSET DOMAIN S
      OBVIOUS
    <3>2. PICK c \in better : \A d \in better : ~Beats(offer(d), offer(c))
      <4> HIDE DEF better
      <4> QED
        BY <1>2, <3>1, BestExists
    <3> QED
      BY <3>2
  <2>2. \E c \in best : \A d \in best : c <= d
    <3>1. best \in SUBSET Nat
      <4>1. best \subseteq Handles
        BY DEF IsTable
      <4> HIDE DEF best
      <4> QED
        BY <4>1, HandleType
    <3> HIDE DEF best
    <3> QED
      BY <2>1, <3>1, LeastExists
  <2> DEFINE c == CHOOSE x \in best : \A d \in best : x <= d
  <2>3. c \in best
    <3> HIDE DEF best
    <3> QED
      BY <2>2
  <2>4. Scan(h, S, slot, start) = offer(c)
    BY <1>2 DEF Scan
  <2> HIDE DEF c
  <2> QED
    BY <2>3, <2>4
<1> QED
  BY <1>1, <1>2

\* The scan of the level loop ends with the output it started from if no other
\* source of its priority has a higher level, and otherwise with the source of
\* the highest level.  Sources without a level at the slot are no candidates.
LEMMA ScanLevelsResult ==
    ASSUME NEW S, IsTable(S), NEW slot \in Slots, NEW h \in DOMAIN S,
           NEW start \in SlotOutput,
           \A d \in DOMAIN S :
               slot > S[d].valid_level_count => S[d].levels[slot] = 0
    PROVE  \/ /\ ScanLevels(h, S, slot, start) = start
              /\ \A d \in DOMAIN S \ {h} :
                    SourcePap(S[d], slot) = start.pap
                      => S[d].levels[slot] <= start.level \/ start.pap = 0
           \/ \E c \in DOMAIN S \ {h} :
                 /\ ScanLevels(h, S, slot, start) = Won(c, S[c], slot)
                 /\ SourcePap(S[c], slot) = start.pap
                 /\ S[c].levels[slot] > start.level
                 /\ \A d \in DOMAIN S \ {h} :
                       SourcePap(S[d], slot) = start.pap
                         => S[d].levels[slot] <= S[c].levels[slot]
                              \/ start.pap = 0
<1> DEFINE level(c) == S[c].levels[slot]
           rivals == {c \in DOMAIN S \ {h} :
                        /\ S[c].address_priority[slot] = start.pap
                        /\ S[c].levels[slot] > start.level}
           top == {c \in rivals : \A d \in rivals :
                                    S[d].levels[slot] <= S[c].levels[slot]}
<1>1. \A c \in DOMAIN S : level(c) \in 0..MaxLevel
  BY WonType DEF Level
<1>2. start.level \in Nat
  BY OutputType
<1>3. ASSUME NEW c \in DOMAIN S, level(c) > start.level
      PROVE  SourcePap(S[c], slot) = S[c].address_priority[slot]
  <2>1. S[c].valid_level_count \in Nat /\ slot \in Nat
    BY WonType DEF Slots
  <2> QED
    BY <1>1, <1>2, <1>3, <2>1 DEF SourcePap
<1>4. ASSUME NEW d \in DOMAIN S \ {h}, SourcePap(S[d], slot) = start.pap,
             start.pap # 0
      PROVE  S[d].address_priority[slot] = start.pap
  BY <1>4 DEF SourcePap
<1>5. CASE rivals = {}
  <2>1. ScanLevels(h, S, slot, start) = start
    BY <1>5 DEF ScanLevels
  <2>2. ASSUME NEW d \in DOMAIN S \ {h}, SourcePap(S[d], slot) = start.pap,
               start.pap # 0
        PROVE  S[d].levels[slot] <= start.level
    BY <1>1, <1>2, <1>4, <1>5, <2>2
  <2> QED
    BY <2>1, <2>2
<1>6. CASE rivals # {}
  <2>1. top # {}
    <3> DEFINE L == {level(x) : x \in rivals}
    <3>1. L \in SUBSET (0..MaxLevel) /\ L # {}
      BY <1>1, <1>6
    <3>2. PICK l \in L : \A m \in L : m <= l
      <4> HIDE DEF L
      <4> QED
        BY <3>1, GreatestExists, MergerAssumption
    <3> QED
      BY <3>2
  <2>2. \E c \in top : \A d \in top : c <= d
    <3>1. top \subseteq Handles
      BY DEF IsTable
    <3> HIDE DEF top
    <3>2. top \in SUBSET Nat
      BY <3>1, HandleType
    <3> QED
      BY <2>1, <3>2, LeastExists
  <2> DEFINE c == CHOOSE x \in top : \A d \in top : x <= d
  <2>3. c \in top
    <3> HIDE DEF top
    <3> QED
      BY <2>2
  <2>4. ScanLevels(h, S, slot, start)
          = [start EXCEPT !.level = S[c].levels[slot], !.owner = c]
    BY <1>6 DEF ScanLevels
  <2> HIDE DEF c
  <2>5. /\ c \in DOMAIN S \ {h}
        /\ S[c].address_priority[slot] = start.pap
        /\ level(c) > start.level
        /\ \A d \in rivals : level(d) <= level(c)
    BY <2>3
  <2>6. SourcePap(S[c], slot) = start.pap
    BY <1>3, <2>5
  <2>7. ScanLevels(h, S, slot, start) = Won(c, S[c], slot)
    BY <2>4, <2>6 DEF Won, SlotOutput
  <2>8. ASSUME NEW d \in DOMAIN S \ {h}, SourcePap(S[d], slot) = start.pap,
               start.pap # 0
        PROVE  level(d) <= level(c)
    <3>1. CASE d \in rivals
      BY <2>5, <3>1
    <3>2. CASE d \notin rivals
      <4>1. ~(level(d) > start.level)
        BY <1>4, <2>8, <3>2
      <4> HIDE DEF rivals
      <4> QED
        BY <1>1, <1>2, <2>5, <4>1
    <3> QED
      BY <3>1, <3>2
  <2> QED
    BY <2>5, <2>6, <2>7, <2>8
<1> QED
  BY <1>5, <1>6
-----------------------------------------------------------------------------
(***************************************************************************)
(* What a merged slot says of the sources, and how one recognizes it.      *)
(***************************************************************************)

\* In a merged slot no source has a higher priority than the output, and none
\* of the same priority a higher level; the output is that of its owner.
LEMMA MergedFacts ==
    ASSUME NEW S, IsTable(S), NEW slot \in Slots, NEW out \in SlotOutput,
           SlotMergedOf(S, slot, out)
    PROVE  /\ \A d \in DOMAIN S :
                 /\ SourcePap(S[d], slot) <= out.pap
                 /\ \/ SourcePap(S[d], slot) < out.pap
                    \/ out.pap = 0
                    \/ S[d].levels[slot] <= out.level
           /\ out.owner \in DOMAIN S =>
                 /\ out = Won(out.owner, S[out.owner], slot)
                 /\ out.pap = SourcePap(S[out.owner], slot)
                 /\ out.level = S[out.owner].levels[slot]
                 /\ out.pap > 0
           /\ out.owner \notin DOMAIN S => out = Unsourced
<1>1. \A d \in DOMAIN S :
         SourcePap(S[d], slot) \in Nat /\ S[d].levels[slot] \in Nat
  BY WonType, MergerAssumption DEF Priority, Level
<1>2. out.pap \in Nat /\ out.level \in Nat
  BY OutputType
<1>3. CASE /\ \A h \in DOMAIN S : SourcePap(S[h], slot) = 0
           /\ out = Unsourced
  <2>1. out.owner = NoOwner /\ out.pap = 0
    BY <1>3 DEF Unsourced
  <2>2. out.owner \notin DOMAIN S
    BY <2>1, HandleType DEF IsTable
  <2> QED
    BY <1>3, <2>1, <2>2
<1>4. CASE /\ out.owner \in DOMAIN S
           /\ out.pap > 0
           /\ out = Won(out.owner, S[out.owner], slot)
           /\ \A h \in DOMAIN S : ~Beats(Won(h, S[h], slot), out)
  <2>1. ASSUME NEW d \in DOMAIN S
        PROVE  /\ SourcePap(S[d], slot) <= out.pap
               /\ \/ SourcePap(S[d], slot) < out.pap
                  \/ out.pap = 0
                  \/ S[d].levels[slot] <= out.level
    BY <1>1, <1>2, <1>4, WonType DEF Beats
  <2>2. /\ out.pap = SourcePap(S[out.owner], slot)
        /\ out.level = S[out.owner].levels[slot]
    BY <1>4, WonType
  <2> QED
    BY <1>4, <2>1, <2>2
<1> QED
  BY <1>3, <1>4 DEF SlotMergedOf

\* The offer of the source with the highest priority and, among those, the
\* highest level is the merge of the slot.
LEMMA MergedByBest ==
    ASSUME NEW S, IsTable(S), NEW slot \in Slots, NEW c \in DOMAIN S,
           SourcePap(S[c], slot) > 0,
           \A d \in DOMAIN S :
              \/ SourcePap(S[d], slot) < SourcePap(S[c], slot)
              \/ /\ SourcePap(S[d], slot) = SourcePap(S[c], slot)
                 /\ S[d].levels[slot] <= S[c].levels[slot]
    PROVE  SlotMergedOf(S, slot, Won(c, S[c], slot))
<1> DEFINE out == Won(c, S[c], slot)
<1>1. \A d \in DOMAIN S :
         SourcePap(S[d], slot) \in Nat /\ S[d].levels[slot] \in Nat
  BY WonType, MergerAssumption DEF Priority, Level
<1>2. out.owner = c /\ out.pap = SourcePap(S[c], slot)
        /\ out.level = S[c].levels[slot]
  BY WonType
<1>3. ASSUME NEW d \in DOMAIN S PROVE ~Beats(Won(d, S[d], slot), out)
  <2> HIDE DEF out
  <2> QED
    BY <1>1, <1>2, WonType DEF Beats
<1> QED
  BY <1>2, <1>3 DEF SlotMergedOf

\* A slot in which no source has a priority is unsourced.
LEMMA MergedOfNone ==
    ASSUME NEW S, NEW slot, \A d \in DOMAIN S : SourcePap(S[d], slot) = 0
    PROVE  SlotMergedOf(S, slot, Unsourced)
BY DEF SlotMergedOf

\* Whether a slot is merged depends on the levels and the priorities that the
\* sources have at this slot only.
LEMMA MergedOfSame ==
    ASSUME NEW S, IsTable(S), NEW S2, IsTable(S2), NEW slot \in Slots,
           NEW out \in SlotOutput, SlotMergedOf(S, slot, out),
           DOMAIN S2 = DOMAIN S,
           \A d \in DOMAIN S :
              /\ SourcePap(S2[d], slot) = SourcePap(S[d], slot)
              /\ \/ S2[d].levels[slot] = S[d].levels[slot]
                 \/ SourcePap(S[d], slot) = 0
    PROVE  SlotMergedOf(S2, slot, out)
<1>1. \A d \in DOMAIN S :
         /\ SourcePap(S[d], slot) \in Nat /\ S[d].levels[slot] \in Nat
         /\ S2[d].levels[slot] \in Nat
  BY WonType, MergerAssumption DEF Priority, Level
<1>2. out.pap \in Nat /\ out.level \in Nat
  BY OutputType
<1>3. CASE out.owner \notin DOMAIN S
  <2>1. out = Unsourced
    BY <1>3, MergedFacts
  <2>2. out.pap = 0
    BY <2>1 DEF Unsourced
  <2>3. \A d \in DOMAIN S : SourcePap(S[d], slot) = 0
    BY <1>1, <1>2, <2>2, MergedFacts
  <2> QED
    BY <2>1, <2>3, MergedOfNone
<1>4. CASE out.owner \in DOMAIN S
  <2> DEFINE c == out.owner
  <2>1. out = Won(c, S[c], slot) /\ SourcePap(S[c], slot) = out.pap
          /\ out.pap > 0 /\ S[c].levels[slot] = out.level
    BY <1>4, MergedFacts
  <2>2. Won(c, S2[c], slot) = out
    BY <1>1, <1>4, <2>1 DEF Won
  <2>3. ASSUME NEW d \in DOMAIN S
        PROVE  \/ SourcePap(S2[d], slot) < SourcePap(S2[c], slot)
               \/ /\ SourcePap(S2[d], slot) = SourcePap(S2[c], slot)
                  /\ S2[d].levels[slot] <= S2[c].levels[slot]
    <3>1. /\ SourcePap(S[d], slot) <= out.pap
          /\ \/ SourcePap(S[d], slot) < out.pap
             \/ out.pap = 0
             \/ S[d].levels[slot] <= out.level
      BY MergedFacts
    <3> QED
      BY <1>1, <1>2, <1>4, <2>1, <3>1
  <2>4. SourcePap(S2[c], slot) > 0
    BY <1>4, <2>1
  <2> QED
    BY <1>4, <2>2, <2>3, <2>4, MergedByBest
<1> QED
  BY <1>3, <1>4
-----------------------------------------------------------------------------
(***************************************************************************)
(* One slot after source h has changed: S is the table before, S2 after.   *)
(***************************************************************************)

\* Only the entry of source h differs.
OnlyChanges(h, S, S2) ==
    /\ IsTable(S) /\ IsTable(S2)
    /\ DOMAIN S2 = DOMAIN S
    /\ h \in DOMAIN S
    /\ \A c \in DOMAIN S \ {h} : S2[c] = S[c]

\* merge_new_priorities makes the slot the merge of the sources as they are
\* now, if the level of source h is unchanged, or h had or has no priority.
LEMMA MergePriorityCorrect ==
    ASSUME NEW S, NEW S2, NEW h, OnlyChanges(h, S, S2),
           NEW slot \in Slots, NEW out \in SlotOutput, SlotMergedOf(S, slot, out),
           \/ S2[h].levels[slot] = S[h].levels[slot]
           \/ SourcePap(S[h], slot) = 0
           \/ SourcePap(S2[h], slot) = 0
    PROVE  /\ SlotMergedOf(S2, slot, MergePriority(h, S2[h], S2, slot, out))
           /\ MergePriority(h, S2[h], S2, slot, out) \in SlotOutput
<1> DEFINE won == Won(h, S2[h], slot)
           pap(d) == SourcePap(S2[d], slot)
           level(d) == S2[d].levels[slot]
           result == MergePriority(h, S2[h], S2, slot, out)
<1>1. /\ IsTable(S) /\ IsTable(S2) /\ DOMAIN S2 = DOMAIN S /\ h \in DOMAIN S2
      /\ \A c \in DOMAIN S \ {h} : S2[c] = S[c]
  BY DEF OnlyChanges
<1>2. \A d \in DOMAIN S2 : pap(d) \in Nat /\ level(d) \in Nat
  BY <1>1, WonType, MergerAssumption DEF Priority, Level
<1>3. out.pap \in Nat /\ out.level \in Nat
  BY OutputType
<1>4. /\ won \in SlotOutput
      /\ won.pap = pap(h) /\ won.level = level(h) /\ won.owner = h
  BY <1>1, WonType
<1>5. \A d \in DOMAIN S2 \ {h} :
         /\ pap(d) <= out.pap
         /\ pap(d) < out.pap \/ out.pap = 0 \/ level(d) <= out.level
  BY <1>1, MergedFacts
<1> HIDE DEF won, pap, level
<1>6. CASE won.pap > out.pap
  <2>1. result = won
    <3>1. ~(won.pap <= out.pap) /\ ~(won.pap < out.pap)
      BY <1>1, <1>2, <1>3, <1>4, <1>6
    <3> QED
      BY <1>6, <3>1 DEF MergePriority, won
  <2>2. \A d \in DOMAIN S2 :
           pap(d) < pap(h) \/ (pap(d) = pap(h) /\ level(d) <= level(h))
    BY <1>1, <1>2, <1>3, <1>4, <1>5, <1>6
  <2>3. pap(h) > 0
    BY <1>1, <1>2, <1>3, <1>4, <1>6
  <2>4. SlotMergedOf(S2, slot, won)
    BY <1>1, <2>2, <2>3, MergedByBest DEF won, pap, level
  <2> QED
    BY <1>4, <2>1, <2>4
<1>7. CASE won.pap <= out.pap /\ h # out.owner /\ Beats(won, out)
  <2>1. result = won
    <3>1. ~(won.pap > out.pap)
      BY <1>1, <1>2, <1>3, <1>4, <1>7
    <3> QED
      BY <1>7, <3>1 DEF MergePriority, won
  <2>2. pap(h) = out.pap /\ pap(h) > 0 /\ level(h) > out.level
    BY <1>1, <1>2, <1>3, <1>4, <1>7 DEF Beats
  <2>3. \A d \in DOMAIN S2 :
           pap(d) < pap(h) \/ (pap(d) = pap(h) /\ level(d) <= level(h))
    BY <1>1, <1>2, <1>3, <1>5, <2>2
  <2>4. SlotMergedOf(S2, slot, won)
    BY <1>1, <2>2, <2>3, MergedByBest DEF won, pap, level
  <2> QED
    BY <1>4, <2>1, <2>4
<1>8. CASE won.pap <= out.pap /\ h # out.owner /\ ~Beats(won, out)
  <2>1. result = out
    <3>1. ~(won.pap > out.pap)
      BY <1>1, <1>2, <1>3, <1>4, <1>8
    <3> QED
      BY <1>8, <3>1 DEF MergePriority, won
  <2>2. pap(h) < out.pap \/ out.pap = 0 \/ level(h) <= out.level
    BY <1>1, <1>2, <1>3, <1>4, <1>8 DEF Beats
  <2>3. CASE out.owner \notin DOMAIN S
    <3>1. out = Unsourced
      BY <1>1, <2>3, MergedFacts
    <3>2. out.pap = 0
      BY <3>1 DEF Unsourced
    <3>3. \A d \in DOMAIN S2 : SourcePap(S2[d], slot) = 0
      BY <1>1, <1>2, <1>3, <1>4, <1>5, <1>8, <3>2 DEF pap
    <3> QED
      BY <2>1, <3>1, <3>3, MergedOfNone
  <2>4. CASE out.owner \in DOMAIN S
    <3> DEFINE c == out.owner
    <3>1. c \in DOMAIN S2 \ {h} /\ S2[c] = S[c]
      BY <1>1, <1>8, <2>4
    <3>2. /\ out = Won(c, S2[c], slot) /\ out.pap = pap(c)
          /\ out.level = level(c) /\ out.pap > 0
      BY <1>1, <2>4, <3>1, MergedFacts DEF pap, level
    <3>3. \A d \in DOMAIN S2 :
             pap(d) < pap(c) \/ (pap(d) = pap(c) /\ level(d) <= level(c))
      BY <1>1, <1>2, <1>3, <1>4, <1>5, <1>8, <2>2, <3>1, <3>2
    <3>4. SlotMergedOf(S2, slot, Won(c, S2[c], slot))
      <4> HIDE DEF c
      <4> QED
        BY <1>1, <3>1, <3>2, <3>3, MergedByBest DEF pap, level
    <3> QED
      BY <2>1, <3>2, <3>4
  <2> QED
    BY <2>3, <2>4
<1>9. CASE won.pap <= out.pap /\ h = out.owner
  <2>1. /\ out.pap = SourcePap(S[h], slot) /\ out.pap > 0
        /\ out.level = S[h].levels[slot]
    BY <1>1, <1>9, MergedFacts
  <2>2. pap(h) > 0 => level(h) = out.level
    BY <1>2, <1>3, <2>1 DEF pap, level
  <2>3. CASE won.pap < out.pap
    <3> DEFINE start == Weakened(out, won.pap)
    <3>1. result = Scan(h, S2, slot, start)
      <4>1. ~(won.pap > out.pap) /\ ~(won.pap <= out.pap /\ h # out.owner)
        BY <1>1, <1>2, <1>3, <1>4, <1>9
      <4> QED
        BY <1>9, <2>3, <4>1 DEF MergePriority, won
    <3>2. /\ pap(h) = 0 => start = Unsourced
          /\ pap(h) > 0 => start = won
      <4>1. ASSUME pap(h) > 0 PROVE [out EXCEPT !.pap = pap(h)] = won
        <5>1. out.level = level(h)
          BY <2>2, <4>1
        <5> QED
          BY <1>9, <5>1 DEF won, Won, SlotOutput, pap, level
      <4>2. pap(h) > 0 => pap(h) # 0
        BY <1>1, <1>2
      <4> QED
        BY <1>4, <4>1, <4>2 DEF Weakened
    <3>3. start.pap = pap(h) /\ start.pap \in Nat
      <4>1. pap(h) = 0 \/ pap(h) > 0
        BY <1>1, <1>2
      <4> QED
        BY <1>1, <1>2, <1>4, <3>2, <4>1 DEF Unsourced
    <3>4. start.level \in Nat /\ (pap(h) > 0 => start.level = level(h))
      <4>1. pap(h) = 0 \/ pap(h) > 0
        BY <1>1, <1>2
      <4> QED
        BY <1>1, <1>2, <1>4, <3>2, <4>1 DEF Unsourced
    <3> HIDE DEF start
    <3>5. \A d \in DOMAIN S2 : Beats(Won(d, S2[d], slot), start)
             <=> \/ pap(d) > start.pap
                 \/ start.pap = pap(d) /\ pap(d) > 0 /\ level(d) > start.level
      BY <1>1, WonType DEF Beats, pap, level
    <3>6. CASE /\ Scan(h, S2, slot, start) = start
               /\ \A d \in DOMAIN S2 \ {h} : ~Beats(Won(d, S2[d], slot), start)
      <4>1. CASE pap(h) = 0
        <5>1. \A d \in DOMAIN S2 : SourcePap(S2[d], slot) = 0
          BY <1>1, <1>2, <3>3, <3>5, <3>6, <4>1 DEF pap
        <5> QED
          BY <3>1, <3>2, <3>6, <4>1, <5>1, MergedOfNone, UnsourcedType
      <4>2. CASE pap(h) > 0
        <5>1. \A d \in DOMAIN S2 :
                 pap(d) < pap(h) \/ (pap(d) = pap(h) /\ level(d) <= level(h))
          BY <1>1, <1>2, <3>3, <3>4, <3>5, <3>6, <4>2
        <5>2. SlotMergedOf(S2, slot, won)
          BY <1>1, <4>2, <5>1, MergedByBest DEF won, pap, level
        <5> QED
          BY <1>4, <3>1, <3>2, <3>6, <4>2, <5>2
      <4> QED
        BY <1>1, <1>2, <4>1, <4>2
    <3>7. ASSUME NEW c \in DOMAIN S2 \ {h},
                 Scan(h, S2, slot, start) = Won(c, S2[c], slot),
                 Beats(Won(c, S2[c], slot), start),
                 \A d \in DOMAIN S2 \ {h} :
                     Beats(Won(d, S2[d], slot), start)
                       => ~Beats(Won(d, S2[d], slot), Won(c, S2[c], slot))
          PROVE  SlotMergedOf(S2, slot, result) /\ result \in SlotOutput
      <4>1. pap(c) > start.pap
              \/ (start.pap = pap(c) /\ pap(c) > 0 /\ level(c) > start.level)
        BY <3>5, <3>7
      <4>2. \A d \in DOMAIN S2 : Beats(Won(d, S2[d], slot), Won(c, S2[c], slot))
               <=> \/ pap(d) > pap(c)
                   \/ pap(c) = pap(d) /\ pap(d) > 0 /\ level(d) > level(c)
        BY <1>1, WonType DEF Beats, pap, level
      <4>3. pap(c) > 0
        BY <1>2, <3>3, <4>1
      <4>4. \A d \in DOMAIN S2 \ {h} :
               pap(d) < pap(c) \/ (pap(d) = pap(c) /\ level(d) <= level(c))
        BY <1>2, <3>3, <3>4, <3>5, <3>7, <4>1, <4>2, <4>3
      <4>5. pap(h) < pap(c) \/ (pap(h) = pap(c) /\ level(h) <= level(c))
        BY <1>1, <1>2, <3>3, <3>4, <4>1, <4>3
      <4>6. SlotMergedOf(S2, slot, Won(c, S2[c], slot))
        BY <1>1, <4>3, <4>4, <4>5, MergedByBest DEF pap, level
      <4> QED
        BY <1>1, <3>1, <3>7, <4>6, WonType
    <3> QED
      BY <1>1, <3>1, <3>6, <3>7, ScanResult
  <2>4. CASE won.pap = out.pap
    <3>1. result = out
      <4>1. /\ ~(won.pap > out.pap) /\ ~(won.pap < out.pap)
        BY <1>3, <2>4
      <4> QED
        BY <1>9, <4>1 DEF MergePriority, won
    <3>2. pap(h) > 0 /\ level(h) = out.level
      BY <1>4, <2>1, <2>2, <2>4
    <3>3. out = won
      BY <1>4, <1>9, <2>4, <3>2 DEF won, Won, SlotOutput
    <3>4. ASSUME NEW d \in DOMAIN S2
          PROVE  pap(d) < pap(h) \/ (pap(d) = pap(h) /\ level(d) <= level(h))
      <4>1. CASE d = h
        BY <1>1, <1>2, <4>1
      <4>2. CASE d # h
        BY <1>1, <1>2, <1>3, <1>4, <1>5, <2>4, <3>2, <4>2
      <4> QED
        BY <4>1, <4>2
    <3>5. SlotMergedOf(S2, slot, won)
      BY <1>1, <3>2, <3>4, MergedByBest DEF won, pap, level
    <3> QED
      BY <3>1, <3>3, <3>5
  <2> QED
    BY <1>1, <1>2, <1>3, <1>4, <1>9, <2>3, <2>4
<1> QED
  BY <1>1, <1>2, <1>3, <1>4, <1>6, <1>7, <1>8, <1>9

\* The level loop makes a slot below both level counts the merge of the sources
\* as they are now, if the priorities of source h are unchanged.
LEMMA MergeLevelCorrect ==
    ASSUME NEW S, NEW S2, NEW h, OnlyChanges(h, S, S2),
           NEW slot \in Slots, NEW out \in SlotOutput, SlotMergedOf(S, slot, out),
           SourcePap(S2[h], slot) = SourcePap(S[h], slot),
           slot <= S2[h].valid_level_count,
           \A d \in DOMAIN S2 :
               slot > S2[d].valid_level_count => S2[d].levels[slot] = 0
    PROVE  /\ SlotMergedOf(S2, slot, MergeLevel(h, S2[h], S2, slot, out))
           /\ MergeLevel(h, S2[h], S2, slot, out) \in SlotOutput
<1> DEFINE won == Won(h, S2[h], slot)
           pap(d) == SourcePap(S2[d], slot)
           level(d) == S2[d].levels[slot]
           wins == S2[h].address_priority[slot] > 0
                     /\ S2[h].address_priority[slot] = out.pap
           result == MergeLevel(h, S2[h], S2, slot, out)
<1>1. /\ IsTable(S) /\ IsTable(S2) /\ DOMAIN S2 = DOMAIN S /\ h \in DOMAIN S2
      /\ \A c \in DOMAIN S \ {h} : S2[c] = S[c]
  BY DEF OnlyChanges
<1>2. \A d \in DOMAIN S2 : pap(d) \in Nat /\ level(d) \in Nat
  BY <1>1, WonType, MergerAssumption DEF Priority, Level
<1>3. out.pap \in Nat /\ out.level \in Nat
  BY OutputType
<1>4. /\ won \in SlotOutput
      /\ won.pap = pap(h) /\ won.level = level(h) /\ won.owner = h
  BY <1>1, WonType
<1>5. \A d \in DOMAIN S2 \ {h} :
         /\ pap(d) <= out.pap
         /\ pap(d) < out.pap \/ out.pap = 0 \/ level(d) <= out.level
  BY <1>1, MergedFacts
<1>6. pap(h) <= out.pap
  BY <1>1, MergedFacts
<1>7. wins <=> pap(h) > 0 /\ pap(h) = out.pap
  BY DEF SourcePap
<1> HIDE DEF won, pap, level, wins
<1>8. CASE wins /\ level(h) > out.level
  <2>1. result = [out EXCEPT !.level = level(h), !.owner = h]
    <3>1. ~(level(h) < out.level)
      BY <1>1, <1>2, <1>3, <1>8
    <3> QED
      BY <1>8, <3>1 DEF MergeLevel, wins, level
  <2>2. result = won
    BY <1>7, <1>8, <2>1 DEF won, Won, SlotOutput, pap, level
  <2>3. ASSUME NEW d \in DOMAIN S2
        PROVE  pap(d) < pap(h) \/ (pap(d) = pap(h) /\ level(d) <= level(h))
    <3>1. CASE d = h
      BY <1>1, <1>2, <3>1
    <3>2. CASE d # h
      BY <1>1, <1>2, <1>3, <1>5, <1>7, <1>8, <3>2
    <3> QED
      BY <3>1, <3>2
  <2>4. SlotMergedOf(S2, slot, won)
    BY <1>1, <1>7, <1>8, <2>3, MergedByBest DEF won, pap, level
  <2> QED
    BY <1>4, <2>2, <2>4
<1>9. CASE wins /\ level(h) < out.level /\ h = out.owner
  <2> DEFINE start == [out EXCEPT !.level = level(h)]
  <2>1. result = ScanLevels(h, S2, slot, start)
    <3>1. ~(level(h) > out.level)
      BY <1>1, <1>2, <1>3, <1>9
    <3> QED
      BY <1>9, <3>1 DEF MergeLevel, wins, level
  <2>2. start = won
    BY <1>7, <1>9 DEF won, Won, SlotOutput, pap, level
  <2>3. start \in SlotOutput /\ start.pap = pap(h) /\ start.level = level(h)
    BY <1>4, <2>2
  <2> HIDE DEF start
  <2>4. CASE /\ ScanLevels(h, S2, slot, start) = start
             /\ \A d \in DOMAIN S2 \ {h} :
                    SourcePap(S2[d], slot) = start.pap
                      => S2[d].levels[slot] <= start.level \/ start.pap = 0
    <3>1. ASSUME NEW d \in DOMAIN S2
          PROVE  pap(d) < pap(h) \/ (pap(d) = pap(h) /\ level(d) <= level(h))
      <4>1. CASE d = h
        BY <1>1, <1>2, <4>1
      <4>2. CASE d # h
        BY <1>1, <1>2, <1>3, <1>5, <1>7, <1>9, <2>3, <2>4, <4>2 DEF pap, level
      <4> QED
        BY <4>1, <4>2
    <3>2. SlotMergedOf(S2, slot, won)
      BY <1>1, <1>7, <1>9, <3>1, MergedByBest DEF won, pap, level
    <3> QED
      BY <1>4, <2>1, <2>2, <2>4, <3>2
  <2>5. ASSUME NEW c \in DOMAIN S2 \ {h},
               ScanLevels(h, S2, slot, start) = Won(c, S2[c], slot),
               SourcePap(S2[c], slot) = start.pap,
               S2[c].levels[slot] > start.level,
               \A d \in DOMAIN S2 \ {h} :
                   SourcePap(S2[d], slot) = start.pap
                     => S2[d].levels[slot] <= S2[c].levels[slot] \/ start.pap = 0
        PROVE  SlotMergedOf(S2, slot, result) /\ result \in SlotOutput
    <3>1. pap(c) = pap(h) /\ pap(c) > 0 /\ pap(c) = out.pap
            /\ level(c) > level(h)
      BY <1>7, <1>9, <2>3, <2>5 DEF pap, level
    <3>2. ASSUME NEW d \in DOMAIN S2
          PROVE  pap(d) < pap(c) \/ (pap(d) = pap(c) /\ level(d) <= level(c))
      <4>1. CASE d = h
        <5>1. level(h) <= level(c)
          BY <1>1, <1>2, <3>1
        <5> QED
          BY <3>1, <4>1, <5>1
      <4>2. CASE d # h
        <5>1. pap(d) <= out.pap
          BY <1>5, <4>2
        <5>2. pap(d) = start.pap => level(d) <= level(c) \/ start.pap = 0
          BY <2>5, <4>2 DEF pap, level
        <5> QED
          BY <1>1, <1>2, <1>3, <2>3, <3>1, <5>1, <5>2
      <4> QED
        BY <4>1, <4>2
    <3>3. SlotMergedOf(S2, slot, Won(c, S2[c], slot))
      BY <1>1, <3>1, <3>2, MergedByBest DEF pap, level
    <3> QED
      BY <1>1, <2>1, <2>5, <3>3, WonType
  <2> QED
    BY <1>1, <2>3, <2>4, <2>5, ScanLevelsResult, <2>1
<1>10. CASE ~(wins /\ level(h) > out.level)
              /\ ~(wins /\ level(h) < out.level /\ h = out.owner)
  <2>1. result = out
    BY <1>10 DEF MergeLevel, wins, level
  <2>2. pap(h) < out.pap \/ out.pap = 0 \/ level(h) <= out.level
    BY <1>1, <1>2, <1>3, <1>6, <1>7, <1>10
  <2>3. CASE out.owner \notin DOMAIN S
    <3>1. out = Unsourced
      BY <1>1, <2>3, MergedFacts
    <3>2. out.pap = 0
      BY <3>1 DEF Unsourced
    <3>3. ASSUME NEW d \in DOMAIN S2 PROVE SourcePap(S2[d], slot) = 0
      <4>1. pap(d) <= 0
        BY <1>1, <1>5, <1>6, <3>2
      <4> QED
        BY <1>2, <4>1 DEF pap
    <3> QED
      BY <2>1, <3>1, <3>3, MergedOfNone
  <2>4. CASE out.owner \in DOMAIN S
    <3> DEFINE c == out.owner
    <3>1. /\ out = Won(c, S[c], slot) /\ out.pap = SourcePap(S[c], slot)
          /\ out.level = S[c].levels[slot] /\ out.pap > 0
      BY <1>1, <2>4, MergedFacts
    <3>2. out = Won(c, S2[c], slot) /\ out.pap = pap(c) /\ out.level = level(c)
      <4>1. CASE c # h
        BY <1>1, <2>4, <3>1, <4>1 DEF pap, level
      <4>2. CASE c = h
        <5>1. pap(h) = out.pap
          BY <3>1, <4>2 DEF pap
        <5>2. level(h) = out.level
          BY <1>1, <1>2, <1>3, <1>7, <1>10, <3>1, <4>2, <5>1
        <5>3. out = won
          BY <1>4, <4>2, <5>1, <5>2 DEF won, Won, SlotOutput, pap, level
        <5> QED
          BY <4>2, <5>1, <5>2, <5>3 DEF won
      <4> QED
        BY <4>1, <4>2
    <3>3. ASSUME NEW d \in DOMAIN S2
          PROVE  pap(d) < pap(c) \/ (pap(d) = pap(c) /\ level(d) <= level(c))
      <4>1. pap(d) <= out.pap
              /\ (pap(d) < out.pap \/ out.pap = 0 \/ level(d) <= out.level)
        BY <1>5, <1>6, <2>2
      <4> HIDE DEF c
      <4> QED
        BY <1>2, <1>3, <3>1, <3>2, <4>1
    <3>4. SlotMergedOf(S2, slot, Won(c, S2[c], slot))
      <4>1. c \in DOMAIN S2
        BY <1>1, <2>4
      <4> HIDE DEF c
      <4> QED
        BY <1>1, <3>1, <3>2, <3>3, <4>1, MergedByBest DEF pap, level
    <3> QED
      BY <2>1, <3>2, <3>4
  <2> QED
    BY <2>3, <2>4
<1> QED
  BY <1>8, <1>9, <1>10
-----------------------------------------------------------------------------
(***************************************************************************)
(* The whole output.                                                       *)
(***************************************************************************)

\* out is the merge of the sources in table S.
IsMerge(S, out) ==
    /\ out \in [Slots -> SlotOutput]
    /\ \A slot \in Slots : SlotMergedOf(S, slot, out[slot])

\* The source has no level beyond its level count.
LevelsEnd(src) ==
    \A slot \in Slots : slot > src.valid_level_count => src.levels[slot] = 0

\* The invariant the steps preserve.  The level loop looks for candidates by
\* their level alone: it needs the levels beyond the level counts to be zero.
IInv ==
    /\ IsTable(source_states)
    /\ IsMerge(source_states, output)
    /\ \A h \in Sources : LevelsEnd(source_states[h])

\* Replacing the entry of one source.
LEMMA TableUpdate ==
    ASSUME NEW S, IsTable(S), NEW h \in DOMAIN S, NEW new \in SourceState
    PROVE  LET S2 == [S EXCEPT ![h] = new]
           IN  OnlyChanges(h, S, S2) /\ S2[h] = new
<1> DEFINE S2 == [S EXCEPT ![h] = new]
<1>1. DOMAIN S2 = DOMAIN S /\ S2[h] = new /\ \A c \in DOMAIN S \ {h} : S2[c] = S[c]
  OBVIOUS
<1>2. S \in [DOMAIN S -> SourceState] /\ DOMAIN S \subseteq Handles
  BY DEF IsTable
<1>3. S2 \in [DOMAIN S -> SourceState]
  BY <1>2
<1> HIDE DEF S2
<1>4. IsTable(S2)
  BY <1>1, <1>2, <1>3 DEF IsTable
<1>5. IsTable(S)
  OBVIOUS
<1> QED
  BY <1>1, <1>4, <1>5 DEF OnlyChanges, S2

\* A merger of one source has no other source.
LEMMA SingleSource ==
    ASSUME IsTable(source_states), IsSingle, NEW h \in Sources
    PROVE  Sources = {h}
<1>1. IsFiniteSet(Sources)
  BY FS_Subset, MergerAssumption DEF IsTable, Sources
<1>2. PICK x : Sources = {x}
  BY <1>1, FS_Singleton DEF IsSingle
<1> QED
  BY <1>2

\* With one source, a slot is merged if it shows the offer of that source, or
\* is unsourced because the source has no priority at it.
LEMMA SingleMerged ==
    ASSUME NEW S, IsTable(S), NEW h, DOMAIN S = {h},
           NEW slot \in Slots, NEW out \in SlotOutput
    PROVE  SlotMergedOf(S, slot, out)
             <=> \/ SourcePap(S[h], slot) = 0 /\ out = Unsourced
                 \/ SourcePap(S[h], slot) > 0 /\ out = Won(h, S[h], slot)
<1>1. /\ Won(h, S[h], slot).pap = SourcePap(S[h], slot)
      /\ Won(h, S[h], slot).level = S[h].levels[slot]
      /\ Won(h, S[h], slot).owner = h
      /\ SourcePap(S[h], slot) \in Nat /\ S[h].levels[slot] \in Nat
  BY WonType, MergerAssumption DEF Priority, Level
<1>2. ~Beats(Won(h, S[h], slot), Won(h, S[h], slot))
  BY <1>1 DEF Beats
<1>3. ASSUME SlotMergedOf(S, slot, out)
      PROVE  \/ SourcePap(S[h], slot) = 0 /\ out = Unsourced
             \/ SourcePap(S[h], slot) > 0 /\ out = Won(h, S[h], slot)
  BY <1>1, <1>3 DEF SlotMergedOf
<1>4. ASSUME SourcePap(S[h], slot) = 0, out = Unsourced
      PROVE  SlotMergedOf(S, slot, out)
  BY <1>4 DEF SlotMergedOf
<1>5. ASSUME SourcePap(S[h], slot) > 0, out = Won(h, S[h], slot)
      PROVE  SlotMergedOf(S, slot, out)
  BY <1>1, <1>2, <1>5 DEF SlotMergedOf
<1> QED
  BY <1>3, <1>4, <1>5

\* After the priorities of source h have changed, merging the slots below its
\* level count gives the merge of the sources, and so does copying them when h
\* is the only source.
LEMMA PrioritiesCorrect ==
    ASSUME IInv, NEW h \in Sources, NEW new \in SourceState,
           new.levels = source_states[h].levels,
           new.valid_level_count = source_states[h].valid_level_count
    PROVE  LET S == [source_states EXCEPT ![h] = new]
           IN  /\ IsMerge(S, MergePriorities(h, S, 1, new.valid_level_count))
               /\ IsMerge(S, NewPriorities(h, S))
<1> DEFINE S == [source_states EXCEPT ![h] = new]
           count == new.valid_level_count
<1>1. OnlyChanges(h, source_states, S) /\ S[h] = new
  BY TableUpdate DEF IInv, Sources
<1> HIDE DEF S
<1>2. /\ IsTable(source_states) /\ IsTable(S) /\ DOMAIN S = Sources
      /\ \A c \in Sources \ {h} : S[c] = source_states[c]
  BY <1>1 DEF OnlyChanges, Sources
<1>3. ASSUME NEW slot \in Slots
      PROVE  /\ output[slot] \in SlotOutput
             /\ SlotMergedOf(source_states, slot, output[slot])
             /\ S[h].levels[slot] = source_states[h].levels[slot]
  BY <1>1 DEF IInv, IsMerge
<1>4. count \in 0..NumSlots /\ NumSlots \in Nat
  BY MergerAssumption DEF SourceState
<1>5. ASSUME NEW slot \in Slots, slot > count
      PROVE  SlotMergedOf(S, slot, output[slot])
  <2>1. slot \in Nat /\ ~(slot <= count)
    BY <1>4, <1>5 DEF Slots
  <2>2. SourcePap(S[h], slot) = 0 /\ SourcePap(source_states[h], slot) = 0
    BY <1>1, <2>1 DEF SourcePap
  <2>3. \A d \in Sources :
           /\ SourcePap(S[d], slot) = SourcePap(source_states[d], slot)
           /\ \/ S[d].levels[slot] = source_states[d].levels[slot]
              \/ SourcePap(source_states[d], slot) = 0
    BY <1>2, <2>2
  <2> QED
    BY <1>2, <1>3, <2>3, MergedOfSame DEF Sources
<1>6. IsMerge(S, MergePriorities(h, S, 1, count))
  <2> DEFINE out == MergePriorities(h, S, 1, count)
  <2>1. ASSUME NEW slot \in Slots
        PROVE  out[slot] \in SlotOutput /\ SlotMergedOf(S, slot, out[slot])
    <3>1. CASE slot \in 1..count
      <4>1. out[slot] = MergePriority(h, S[h], S, slot, output[slot])
        BY <3>1 DEF MergePriorities
      <4> QED
        BY <1>1, <1>3, <4>1, MergePriorityCorrect
    <3>2. CASE slot \notin 1..count
      <4>1. out[slot] = output[slot]
        BY <3>2 DEF MergePriorities
      <4>2. slot > count
        BY <1>4, <3>2 DEF Slots
      <4> QED
        BY <1>3, <1>5, <4>1, <4>2
    <3> QED
      BY <3>1, <3>2
  <2>2. out = [slot \in Slots |-> out[slot]]
    BY DEF MergePriorities
  <2> HIDE DEF out
  <2>3. out \in [Slots -> SlotOutput]
    BY <2>1, <2>2
  <2> QED
    BY <2>1, <2>3 DEF IsMerge, out
<1>7. ASSUME IsSingle PROVE IsMerge(S, CopyPriorities(h, S[h]))
  <2> DEFINE out == CopyPriorities(h, S[h])
  <2>1. DOMAIN S = {h}
    BY <1>2, <1>7, SingleSource
  <2>2. ASSUME NEW slot \in Slots
        PROVE  out[slot] \in SlotOutput /\ SlotMergedOf(S, slot, out[slot])
    <3>1. /\ Won(h, S[h], slot) \in SlotOutput
          /\ SourcePap(S[h], slot) \in Nat
          /\ slot \in Nat
      BY <1>2, WonType, MergerAssumption DEF Priority, Slots
    <3>2. CASE slot > count
      <4>1. out[slot] = output[slot]
        <5>1. ~(slot <= count)
          BY <1>4, <3>1, <3>2
        <5> QED
          BY <1>1, <3>2, <5>1 DEF CopyPriorities
      <4> QED
        BY <1>3, <1>5, <3>2, <4>1
    <3>3. CASE slot <= count /\ SourcePap(S[h], slot) = 0
      <4>1. ~(slot > count)
        BY <1>4, <3>1, <3>3
      <4>2. out[slot] = Unsourced
        BY <1>1, <3>3, <4>1 DEF CopyPriorities
      <4> QED
        BY <1>2, <2>1, <3>3, <4>2, SingleMerged, UnsourcedType
    <3>4. CASE slot <= count /\ SourcePap(S[h], slot) # 0
      <4>1. ~(slot > count)
        BY <1>4, <3>1, <3>4
      <4>2. out[slot] = Won(h, S[h], slot)
        BY <1>1, <3>4, <4>1 DEF CopyPriorities
      <4>3. SourcePap(S[h], slot) > 0
        BY <3>1, <3>4
      <4> QED
        BY <1>2, <2>1, <3>1, <4>2, <4>3, SingleMerged
    <3> QED
      BY <1>4, <3>1, <3>2, <3>3, <3>4
  <2>3. out = [slot \in Slots |-> out[slot]]
    BY DEF CopyPriorities
  <2> HIDE DEF out
  <2>4. out \in [Slots -> SlotOutput]
    BY <2>2, <2>3
  <2> QED
    BY <2>2, <2>4 DEF IsMerge, out
<1>8. IsMerge(S, NewPriorities(h, S))
  BY <1>1, <1>6, <1>7 DEF NewPriorities
<1> QED
  BY <1>6, <1>8 DEF S

\* After the levels of source h have changed, the level loop on the slots below
\* both level counts and the merge of the slots that came or went give the merge
\* of the sources.
LEMMA LevelsCorrect ==
    ASSUME IInv, NEW h \in Sources, NEW new \in SourceState, LevelsEnd(new),
           new.address_priority = source_states[h].address_priority
    PROVE  LET S == [source_states EXCEPT ![h] = new]
           IN  IsMerge(S, MergeLevels(h, S, source_states[h].valid_level_count))
<1> DEFINE S == [source_states EXCEPT ![h] = new]
           count == new.valid_level_count
           old_count == source_states[h].valid_level_count
           least == Smaller(count, old_count)
           most == Larger(count, old_count)
           out == MergeLevels(h, S, old_count)
<1>1. OnlyChanges(h, source_states, S) /\ S[h] = new
  BY TableUpdate DEF IInv, Sources
<1> HIDE DEF S
<1>2. /\ IsTable(source_states) /\ IsTable(S) /\ DOMAIN S = Sources
      /\ \A c \in Sources \ {h} : S[c] = source_states[c]
  BY <1>1 DEF OnlyChanges, Sources
<1>3. ASSUME NEW slot \in Slots
      PROVE  /\ output[slot] \in SlotOutput
             /\ SlotMergedOf(source_states, slot, output[slot])
  BY DEF IInv, IsMerge
<1>4. count \in Nat /\ old_count \in Nat
  <2>1. source_states[h] \in SourceState
    BY <1>2 DEF IsTable, Sources
  <2> QED
    BY <2>1, MergerAssumption DEF SourceState
<1>5. /\ least <= count /\ least <= old_count
      /\ count <= most /\ old_count <= most
      /\ least = count \/ least = old_count
      /\ most = count \/ most = old_count
  BY <1>4 DEF Smaller, Larger
<1>6. \A d \in Sources : LevelsEnd(S[d])
  BY <1>1, <1>2 DEF IInv
<1> HIDE DEF least, most
<1>7. ASSUME NEW slot \in Slots
      PROVE  out[slot] \in SlotOutput /\ SlotMergedOf(S, slot, out[slot])
  <2>1. slot \in Nat
    BY DEF Slots
  <2>2. CASE slot <= least
    <3>1. slot <= count /\ slot <= old_count
      BY <1>4, <1>5, <2>1, <2>2
    <3>2. out[slot] = MergeLevel(h, S[h], S, slot, output[slot])
      <4>1. ~(slot > least)
        BY <1>4, <1>5, <2>1, <2>2
      <4> QED
        BY <1>1, <2>2, <4>1 DEF MergeLevels, least
    <3>3. SourcePap(S[h], slot) = SourcePap(source_states[h], slot)
      BY <1>1, <3>1 DEF SourcePap
    <3>4. \A d \in DOMAIN S :
             slot > S[d].valid_level_count => S[d].levels[slot] = 0
      BY <1>2, <1>6 DEF LevelsEnd
    <3> QED
      BY <1>1, <1>3, <3>1, <3>2, <3>3, <3>4, MergeLevelCorrect
  <2>3. CASE slot > least /\ slot <= most
    <3>1. ~(slot <= count) \/ ~(slot <= old_count)
      BY <1>4, <1>5, <2>1, <2>3
    <3>2. ~(slot <= least)
      BY <1>4, <1>5, <2>1, <2>3
    <3>3. out[slot] = MergePriority(h, S[h], S, slot, output[slot])
      BY <1>1, <2>3, <3>2 DEF MergeLevels, least, most
    <3>4. SourcePap(S[h], slot) = 0 \/ SourcePap(source_states[h], slot) = 0
      BY <1>1, <3>1 DEF SourcePap
    <3> QED
      BY <1>1, <1>3, <3>3, <3>4, MergePriorityCorrect
  <2>4. CASE slot > least /\ slot > most
    <3>1. ~(slot <= least) /\ ~(slot <= most)
            /\ ~(slot <= count) /\ ~(slot <= old_count)
      BY <1>4, <1>5, <2>1, <2>4
    <3>2. out[slot] = output[slot]
      BY <1>1, <3>1 DEF MergeLevels, least, most
    <3>3. SourcePap(S[h], slot) = 0 /\ SourcePap(source_states[h], slot) = 0
      BY <1>1, <3>1 DEF SourcePap
    <3>4. \A d \in Sources :
             /\ SourcePap(S[d], slot) = SourcePap(source_states[d], slot)
             /\ \/ S[d].levels[slot] = source_states[d].levels[slot]
                \/ SourcePap(source_states[d], slot) = 0
      BY <1>2, <3>3
    <3> QED
      BY <1>2, <1>3, <3>2, <3>4, MergedOfSame DEF Sources
  <2> QED
    BY <1>4, <1>5, <2>1, <2>2, <2>3, <2>4
<1>8. out = [slot \in Slots |-> out[slot]]
  BY DEF MergeLevels
<1> HIDE DEF out
<1>9. out \in [Slots -> SlotOutput]
  BY <1>7, <1>8
<1>10. IsMerge(S, out)
  BY <1>7, <1>9 DEF IsMerge
<1> QED
  BY <1>10 DEF out, S

\* With one source, copying its levels gives the merge of that source.
LEMMA CopyCorrect ==
    ASSUME IInv, IsSingle, NEW h \in Sources, NEW new \in SourceState,
           new.address_priority = source_states[h].address_priority
    PROVE  LET S == [source_states EXCEPT ![h] = new]
               old_count == source_states[h].valid_level_count
           IN  IsMerge(S, [slot \in Slots |->
                             CopyLevel(h, new, old_count, slot, output[slot])])
<1> DEFINE S == [source_states EXCEPT ![h] = new]
           old == source_states[h]
           count == new.valid_level_count
           old_count == old.valid_level_count
           out == [slot \in Slots |->
                     CopyLevel(h, new, old_count, slot, output[slot])]
<1>1. OnlyChanges(h, source_states, S) /\ S[h] = new
  BY TableUpdate DEF IInv, Sources
<1> HIDE DEF S
<1>2. IsTable(source_states) /\ IsTable(S) /\ DOMAIN S = Sources
  BY <1>1 DEF OnlyChanges, Sources
<1>3. Sources = {h}
  BY <1>2, SingleSource
<1>4. count \in Nat /\ old_count \in Nat
  <2>1. source_states[h] \in SourceState
    BY <1>2 DEF IsTable, Sources
  <2> QED
    BY <2>1, MergerAssumption DEF SourceState
<1>5. ASSUME NEW slot \in Slots
      PROVE  out[slot] \in SlotOutput /\ SlotMergedOf(S, slot, out[slot])
  <2> DEFINE now == output[slot]
             result == CopyLevel(h, new, old_count, slot, now)
             priority == new.address_priority[slot]
  <2>1. out[slot] = result
    OBVIOUS
  <2>2. /\ now \in SlotOutput
        /\ \/ SourcePap(old, slot) = 0 /\ now = Unsourced
           \/ SourcePap(old, slot) > 0 /\ now = Won(h, old, slot)
    BY <1>2, <1>3, SingleMerged DEF IInv, IsMerge, Sources
  <2>3. Won(h, new, slot) \in SlotOutput /\ priority \in Nat
    BY <1>1, <1>2, WonType, MergerAssumption DEF Priority
  <2>4. slot \in Nat
    BY DEF Slots
  <2>5. SourcePap(new, slot) = IF slot <= count THEN priority ELSE 0
    BY DEF SourcePap
  <2>6. SourcePap(old, slot) = IF slot <= old_count THEN priority ELSE 0
    BY DEF SourcePap
  <2> HIDE DEF now, priority, old
  <2>7. \/ SourcePap(new, slot) = 0 /\ result = Unsourced
        \/ SourcePap(new, slot) > 0 /\ result = Won(h, new, slot)
    <3>1. CASE slot <= count /\ priority > 0 /\ slot <= old_count
      <4>1. result = [now EXCEPT !.level = new.levels[slot]]
        <5>1. ~(slot > count) /\ ~(slot > old_count)
          BY <1>4, <2>4, <3>1
        <5> QED
          BY <3>1, <5>1 DEF CopyLevel, priority
      <4>2. now = Won(h, old, slot) /\ SourcePap(old, slot) = priority
        BY <2>2, <2>3, <2>6, <3>1
      <4>3. result = Won(h, new, slot)
        BY <2>5, <3>1, <4>1, <4>2 DEF Won
      <4> QED
        BY <2>5, <3>1, <4>3
    <3>2. CASE slot <= count /\ priority > 0 /\ slot > old_count
      <4>1. ~(slot <= old_count) /\ ~(slot > count)
        BY <1>4, <2>4, <3>2
      <4>2. result = Won(h, new, slot)
        BY <3>2, <4>1 DEF CopyLevel, priority
      <4> QED
        BY <2>5, <3>2, <4>2
    <3>3. CASE slot > count /\ slot <= old_count
      <4>1. ~(slot <= count)
        BY <1>4, <2>4, <3>3
      <4>2. result = Unsourced
        BY <3>3, <4>1 DEF CopyLevel
      <4> QED
        BY <2>5, <4>1, <4>2
    <3>4. CASE \/ slot > count /\ slot > old_count
               \/ slot <= count /\ ~(priority > 0)
      <4>1. /\ ~(slot > count /\ slot <= old_count)
            /\ ~(slot <= count /\ priority > 0)
        BY <1>4, <2>4, <3>4
      <4>2. result = now
        BY <4>1 DEF CopyLevel, priority
      <4>3. SourcePap(new, slot) = 0 /\ ~(SourcePap(old, slot) > 0)
        BY <1>4, <2>3, <2>4, <2>5, <2>6, <3>4
      <4> QED
        BY <2>2, <4>2, <4>3
    <3> QED
      BY <1>4, <2>4, <3>1, <3>2, <3>3, <3>4
  <2>8. result \in SlotOutput
    BY <2>3, <2>7, UnsourcedType
  <2> HIDE DEF result, out
  <2> QED
    BY <1>1, <1>2, <1>3, <2>1, <2>7, <2>8, SingleMerged
<1>6. out \in [Slots -> SlotOutput]
  BY <1>5
<1> HIDE DEF out
<1>7. IsMerge(S, out)
  BY <1>5, <1>6 DEF IsMerge
<1> QED
  BY <1>7 DEF out, S, old
-----------------------------------------------------------------------------
(***************************************************************************)
(* Every operation preserves the invariant.                                *)
(***************************************************************************)

\* Overwriting an array with values of its type keeps its type.
LEMMA OverwriteType ==
    ASSUME NEW V, 0 \in V, NEW array \in [Slots -> V], NEW old_count \in Nat,
           NEW count \in 0..NumSlots, NEW values \in [1..count -> V]
    PROVE  Overwrite(array, old_count, values, count) \in [Slots -> V]
<1>1. ASSUME NEW slot \in Slots
      PROVE  (IF slot <= count THEN values[slot]
              ELSE IF slot <= old_count THEN 0 ELSE array[slot]) \in V
  <2>1. CASE slot <= count
    <3>1. slot \in 1..count
      BY <2>1, MergerAssumption DEF Slots
    <3> QED
      BY <2>1, <3>1
  <2>2. CASE ~(slot <= count)
    BY <2>2
  <2> QED
    BY <2>1, <2>2
<1> QED
  BY <1>1 DEF Overwrite

\* The types of the parts of a source.
LEMMA SourceType ==
    ASSUME IInv, NEW h \in Sources
    PROVE  /\ source_states[h] \in SourceState
           /\ source_states[h].levels \in [Slots -> Level]
           /\ source_states[h].address_priority \in [Slots -> Priority]
           /\ source_states[h].valid_level_count \in 0..NumSlots
           /\ source_states[h].valid_level_count \in Nat
           /\ source_states[h].pap_count \in 0..NumSlots
           /\ source_states[h].pap_count \in Nat
           /\ source_states[h].universe_priority \in Priority
           /\ source_states[h].using_universe_priority \in BOOLEAN
           /\ source_states[h].universe_priority_uninitialized \in BOOLEAN
           /\ LevelsEnd(source_states[h])
<1>1. source_states[h] \in SourceState /\ LevelsEnd(source_states[h])
  BY DEF IInv, IsTable, Sources
<1> QED
  BY <1>1, MergerAssumption DEF SourceState

\* The new entry of one source is a source with no levels beyond its count.
LEMMA TableInv ==
    ASSUME IInv, NEW h \in Sources, NEW new \in SourceState, LevelsEnd(new)
    PROVE  LET S == [source_states EXCEPT ![h] = new]
           IN  IsTable(S) /\ \A d \in DOMAIN S : LevelsEnd(S[d])
<1> DEFINE S == [source_states EXCEPT ![h] = new]
<1>1. OnlyChanges(h, source_states, S) /\ S[h] = new
  BY TableUpdate DEF IInv, Sources
<1> HIDE DEF S
<1>2. IsTable(S) /\ DOMAIN S = Sources
        /\ \A c \in Sources \ {h} : S[c] = source_states[c]
  BY <1>1 DEF OnlyChanges, Sources
<1>3. \A d \in DOMAIN S : LevelsEnd(S[d])
  BY <1>1, <1>2 DEF IInv
<1> QED
  BY <1>2, <1>3 DEF S

\* A new source has no levels and no priorities: it wins no slot.
LEMMA AddSourceStep ==
    ASSUME IInv, NEW h \in Handles, AddSource(h)
    PROVE  IInv'
<1> DEFINE S == [x \in Sources \cup {h} |->
                   IF x = h THEN NewSourceState ELSE source_states[x]]
<1>1. source_states' = S /\ output' = output /\ h \notin Sources
  BY DEF AddSource
<1>2. NewSourceState \in SourceState /\ LevelsEnd(NewSourceState)
        /\ NewSourceState.valid_level_count = 0
  BY MergerAssumption DEF NewSourceState, SourceState, LevelsEnd, Level, Priority
<1>3. /\ DOMAIN S = Sources \cup {h} /\ S[h] = NewSourceState
      /\ \A c \in Sources : S[c] = source_states[c]
  BY <1>1
<1>4. S \in [Sources \cup {h} -> SourceState]
  BY <1>2 DEF IInv, IsTable, Sources
<1> HIDE DEF S
<1>5. IsTable(S)
  BY <1>3, <1>4 DEF IInv, IsTable, Sources
<1>6. ASSUME NEW slot \in Slots PROVE SlotMergedOf(S, slot, output[slot])
  <2> DEFINE out == output[slot]
  <2>1. out \in SlotOutput /\ SlotMergedOf(source_states, slot, out)
    BY DEF IInv, IsMerge
  <2>2. SourcePap(S[h], slot) = 0
    <3>1. ~(slot <= 0)
      BY DEF Slots
    <3> QED
      BY <1>2, <1>3, <3>1 DEF SourcePap
  <2>3. CASE out.owner \notin Sources
    <3>1. out = Unsourced /\ \A d \in Sources : SourcePap(source_states[d], slot) = 0
      BY <2>1, <2>3 DEF SlotMergedOf, Sources
    <3>2. \A d \in DOMAIN S : SourcePap(S[d], slot) = 0
      BY <1>3, <2>2, <3>1
    <3> QED
      BY <3>1, <3>2, MergedOfNone
  <2>4. CASE out.owner \in Sources
    <3>1. /\ out = Won(out.owner, source_states[out.owner], slot)
          /\ out.pap > 0
          /\ out.pap = SourcePap(source_states[out.owner], slot)
      BY <2>1, <2>4, MergedFacts DEF Sources, IInv
    <3>2. \A d \in Sources : ~Beats(Won(d, source_states[d], slot), out)
      BY <2>1, <2>4, <3>1, HandleType, OutputType DEF SlotMergedOf, Sources, Unsourced
    <3>3. ~Beats(Won(h, S[h], slot), out)
      BY <1>3, <1>5, <2>1, <2>2, <3>1, WonType, OutputType DEF Beats
    <3> QED
      BY <1>3, <2>4, <3>1, <3>2, <3>3 DEF SlotMergedOf
  <2> QED
    BY <2>3, <2>4
<1>7. IsMerge(S, output)
  BY <1>6 DEF IInv, IsMerge
<1>8. \A d \in DOMAIN S : LevelsEnd(S[d])
  BY <1>2, <1>3 DEF IInv
<1> QED
  BY <1>1, <1>5, <1>7, <1>8 DEF IInv, Sources

\* New levels of a source keep the output the merge, on slots that stay, come
\* or go.
LEMMA UpdateLevelsStep ==
    ASSUME IInv, NEW h \in Sources, NEW count \in 0..NumSlots,
           NEW levels \in [1..count -> Level], UpdateLevels(h, levels, count)
    PROVE  IInv'
<1> DEFINE src == source_states[h]
           array == Overwrite(src.levels, src.valid_level_count, levels, count)
           new == [src EXCEPT !.valid_level_count = count, !.levels = array]
           S == [source_states EXCEPT ![h] = new]
<1>1. /\ source_states' = S
      /\ output' = IF IsSingle
                     THEN [slot \in Slots |->
                             CopyLevel(h, new, src.valid_level_count, slot,
                                       output[slot])]
                     ELSE MergeLevels(h, S, src.valid_level_count)
  BY DEF UpdateLevels
<1>2. array \in [Slots -> Level]
  <2>1. 0 \in Level
    BY MergerAssumption DEF Level
  <2>2. src.levels \in [Slots -> Level] /\ src.valid_level_count \in Nat
    BY SourceType
  <2> QED
    BY <2>1, <2>2, OverwriteType
<1>3. src \in SourceState
  BY SourceType
<1>4. ASSUME NEW slot \in Slots, slot > count PROVE array[slot] = 0
  <2>1. slot \in Nat /\ count \in Nat /\ ~(slot <= count)
    BY <1>4, MergerAssumption DEF Slots
  <2>2. ~(slot <= src.valid_level_count) => src.levels[slot] = 0
    <3>1. ~(slot <= src.valid_level_count) => slot > src.valid_level_count
      BY <2>1, SourceType
    <3> QED
      BY <3>1, SourceType DEF LevelsEnd
  <2> QED
    BY <2>1, <2>2 DEF Overwrite
<1> HIDE DEF array, src
<1>5. new \in SourceState
  BY <1>2, <1>3 DEF SourceState
<1>6. new.valid_level_count = count /\ new.levels = array
        /\ new.address_priority = src.address_priority
  BY <1>3 DEF SourceState
<1> HIDE DEF new
<1>7. LevelsEnd(new)
  BY <1>4, <1>6 DEF LevelsEnd
<1>8. IsMerge(S, output')
  BY <1>1, <1>5, <1>6, <1>7, LevelsCorrect, CopyCorrect DEF src
<1>9. IsTable(S) /\ \A d \in DOMAIN S : LevelsEnd(S[d])
  BY <1>5, <1>7, TableInv
<1> QED
  BY <1>1, <1>8, <1>9 DEF IInv, Sources

\* A source whose priorities change keeps its levels.
LEMMA PrioritiesStep ==
    ASSUME IInv, NEW h \in Sources, NEW new \in SourceState,
           new.levels = source_states[h].levels,
           new.valid_level_count = source_states[h].valid_level_count,
           source_states' = [source_states EXCEPT ![h] = new],
           \/ output' = NewPriorities(h, [source_states EXCEPT ![h] = new])
           \/ output' = MergePriorities(h, [source_states EXCEPT ![h] = new], 1,
                                        new.valid_level_count)
           \/ /\ output' = output
              /\ new.address_priority = source_states[h].address_priority
    PROVE  IInv'
<1> DEFINE S == [source_states EXCEPT ![h] = new]
<1>1. OnlyChanges(h, source_states, S) /\ S[h] = new
  BY TableUpdate DEF IInv, Sources
<1>2. LevelsEnd(new)
  BY SourceType DEF LevelsEnd
<1>3. IsTable(S) /\ \A d \in DOMAIN S : LevelsEnd(S[d])
  BY <1>2, TableInv
<1>4. source_states' = S
  OBVIOUS
<1>5. IsMerge(S, NewPriorities(h, S))
        /\ IsMerge(S, MergePriorities(h, S, 1, new.valid_level_count))
  BY PrioritiesCorrect
<1>6. CASE output' = output /\ new.address_priority = source_states[h].address_priority
  <2> HIDE DEF S
  <2>1. ASSUME NEW slot \in Slots PROVE SlotMergedOf(S, slot, output[slot])
    <3>1. \A d \in Sources :
             /\ SourcePap(S[d], slot) = SourcePap(source_states[d], slot)
             /\ S[d].levels[slot] = source_states[d].levels[slot]
      <4>1. SourcePap(S[h], slot) = SourcePap(source_states[h], slot)
        BY <1>1, <1>6 DEF SourcePap
      <4> QED
        BY <1>1, <4>1 DEF OnlyChanges, Sources
    <3>2. output[slot] \in SlotOutput /\ SlotMergedOf(source_states, slot, output[slot])
      BY DEF IInv, IsMerge
    <3> QED
      BY <1>1, <3>1, <3>2, MergedOfSame DEF OnlyChanges, Sources
  <2>2. IsMerge(S, output')
    BY <1>6, <2>1 DEF IInv, IsMerge
  <2> QED
    BY <1>3, <1>4, <2>2 DEF IInv, Sources
<1>7. CASE output' = NewPriorities(h, S)
             \/ output' = MergePriorities(h, S, 1, new.valid_level_count)
  <2>1. IsMerge(S, output')
    BY <1>5, <1>7
  <2> HIDE DEF S
  <2> QED
    BY <1>3, <1>4, <2>1 DEF IInv, Sources
<1> QED
  BY <1>6, <1>7

\* New per-address priorities of a source keep the output the merge.
LEMMA UpdatePapStep ==
    ASSUME IInv, NEW h \in Sources, NEW count \in 0..NumSlots,
           NEW paps \in [1..count -> Priority], UpdatePap(h, paps, count)
    PROVE  IInv'
<1> DEFINE src == source_states[h]
           array == Overwrite(src.address_priority, src.pap_count, paps, count)
           new == [src EXCEPT !.using_universe_priority = FALSE,
                     !.pap_count = count, !.address_priority = array]
           S == [source_states EXCEPT ![h] = new]
           changed == count # src.pap_count
                        \/ \E slot \in 1..count :
                              paps[slot] # src.address_priority[slot]
<1>1. /\ source_states' = S
      /\ output' = IF changed THEN NewPriorities(h, S) ELSE output
  BY DEF UpdatePap
<1>2. array \in [Slots -> Priority]
  <2>1. 0 \in Priority
    BY MergerAssumption DEF Priority
  <2>2. src.address_priority \in [Slots -> Priority] /\ src.pap_count \in Nat
    BY SourceType
  <2> QED
    BY <2>1, <2>2, OverwriteType
<1>3. src \in SourceState
  BY SourceType
<1>4. ASSUME ~changed PROVE array = src.address_priority
  <2>1. src.address_priority = [slot \in Slots |-> src.address_priority[slot]]
    BY SourceType
  <2>2. ASSUME NEW slot \in Slots
        PROVE  array[slot] = src.address_priority[slot]
    <3>1. CASE slot <= count
      <4>1. slot \in 1..count
        BY <3>1, MergerAssumption DEF Slots
      <4> QED
        BY <1>4, <3>1, <4>1 DEF Overwrite
    <3>2. CASE ~(slot <= count)
      BY <1>4, <3>2 DEF Overwrite
    <3> QED
      BY <3>1, <3>2
  <2>3. array = [slot \in Slots |-> array[slot]]
    BY DEF Overwrite
  <2> HIDE DEF array
  <2> QED
    BY <2>1, <2>2, <2>3
<1> HIDE DEF array, src, changed
<1>5. new \in SourceState
  BY <1>2, <1>3 DEF SourceState
<1>6. new.valid_level_count = src.valid_level_count /\ new.levels = src.levels
        /\ new.address_priority = array
  BY <1>3 DEF SourceState
<1> HIDE DEF new
<1> QED
  BY <1>1, <1>4, <1>5, <1>6, PrioritiesStep DEF src

\* A universe priority becomes a per-address priority.
LEMMA ConvertedType ==
    ASSUME NEW priority \in Priority
    PROVE  ConvertedPriority(priority) \in [Slots -> Priority]
BY MergerAssumption DEF ConvertedPriority, Priority

\* A new universe priority of a source keeps the output the merge.
LEMMA UpdateUniversePriorityStep ==
    ASSUME IInv, NEW h \in Sources, NEW priority \in Priority,
           UpdateUniversePriority(h, priority)
    PROVE  IInv'
<1> DEFINE src == source_states[h]
           initialized == [src EXCEPT !.universe_priority = priority,
                             !.universe_priority_uninitialized = FALSE]
           new == IF src.using_universe_priority
                    THEN [initialized EXCEPT !.pap_count = NumSlots,
                            !.address_priority = ConvertedPriority(priority)]
                    ELSE initialized
           S == [source_states EXCEPT ![h] = new]
<1>1. /\ source_states' = S
      /\ output' = IF src.using_universe_priority
                     THEN NewPriorities(h, S) ELSE output
  BY DEF UpdateUniversePriority
<1>2. src \in SourceState
  BY SourceType
<1> HIDE DEF src
<1>3. initialized \in SourceState
        /\ initialized.valid_level_count = src.valid_level_count
        /\ initialized.levels = src.levels
        /\ initialized.address_priority = src.address_priority
  BY <1>2 DEF SourceState
<1> HIDE DEF initialized
<1>4. NumSlots \in 0..NumSlots /\ ConvertedPriority(priority) \in [Slots -> Priority]
  BY ConvertedType, MergerAssumption
<1>5. /\ new \in SourceState
      /\ new.valid_level_count = src.valid_level_count
      /\ new.levels = src.levels
      /\ ~src.using_universe_priority =>
            new.address_priority = src.address_priority
  BY <1>3, <1>4 DEF SourceState
<1> HIDE DEF new
<1> QED
  BY <1>1, <1>5, PrioritiesStep DEF src

\* Going back to the universe priority keeps the output the merge.
LEMMA RemovePapStep ==
    ASSUME IInv, NEW h \in Sources, RemovePap(h)
    PROVE  IInv'
<1> DEFINE src == source_states[h]
           new == [src EXCEPT !.using_universe_priority = TRUE,
                     !.pap_count = NumSlots,
                     !.address_priority = ConvertedPriority(src.universe_priority)]
           S == [source_states EXCEPT ![h] = new]
<1>1. /\ source_states' = S
      /\ output' = MergePriorities(h, S, 1, src.valid_level_count)
  BY DEF RemovePap
<1>2. src \in SourceState /\ src.universe_priority \in Priority
  BY SourceType
<1> HIDE DEF src
<1>3. NumSlots \in 0..NumSlots
        /\ ConvertedPriority(src.universe_priority) \in [Slots -> Priority]
  BY <1>2, ConvertedType, MergerAssumption
<1>4. /\ new \in SourceState
      /\ new.valid_level_count = src.valid_level_count
      /\ new.levels = src.levels
  BY <1>2, <1>3 DEF SourceState
<1> HIDE DEF new
<1> QED
  BY <1>1, <1>4, PrioritiesStep DEF src

\* The slots are merged with the leaving source silenced: no slot is left with
\* it as the owner, so that it can be taken out of the table.
LEMMA RemoveSourceStep ==
    ASSUME IInv, NEW h \in Sources, RemoveSource(h)
    PROVE  IInv'
<1> DEFINE zero == [slot \in Slots |-> 0]
           src == source_states[h]
           silenced == [src EXCEPT !.address_priority = zero]
           S == [source_states EXCEPT ![h] = silenced]
           rest == [x \in Sources \ {h} |-> source_states[x]]
           out == MergePriorities(h, S, 1, NumSlots)
<1>1. source_states' = rest /\ output' = out
  BY DEF RemoveSource
<1>2. silenced \in SourceState /\ silenced.address_priority = zero
  <2>1. src \in SourceState /\ zero \in [Slots -> Priority]
    BY SourceType, MergerAssumption DEF Priority
  <2> HIDE DEF src, zero
  <2> QED
    BY <2>1 DEF SourceState
<1> HIDE DEF silenced
<1>3. OnlyChanges(h, source_states, S) /\ S[h] = silenced
  BY <1>2, TableUpdate DEF IInv, Sources
<1> HIDE DEF S
<1>4. /\ IsTable(source_states) /\ IsTable(S) /\ DOMAIN S = Sources
      /\ \A c \in Sources \ {h} : S[c] = source_states[c]
  BY <1>3 DEF OnlyChanges, Sources
<1>5. /\ DOMAIN rest = Sources \ {h}
      /\ \A c \in Sources \ {h} : rest[c] = source_states[c]
      /\ IsTable(rest)
  BY <1>4 DEF IsTable, Sources
<1> HIDE DEF rest
<1>6. ASSUME NEW slot \in Slots
      PROVE  out[slot] \in SlotOutput /\ SlotMergedOf(rest, slot, out[slot])
  <2>1. slot \in 1..NumSlots
    BY DEF Slots
  <2>2. out[slot] = MergePriority(h, S[h], S, slot, output[slot])
    BY <2>1 DEF MergePriorities
  <2>3. SourcePap(S[h], slot) = 0
    BY <1>2, <1>3 DEF SourcePap
  <2>4. output[slot] \in SlotOutput
          /\ SlotMergedOf(source_states, slot, output[slot])
    BY DEF IInv, IsMerge
  <2> HIDE DEF out
  <2>5. out[slot] \in SlotOutput /\ SlotMergedOf(S, slot, out[slot])
    BY <1>3, <2>2, <2>3, <2>4, MergePriorityCorrect
  <2>6. CASE /\ \A d \in DOMAIN S : SourcePap(S[d], slot) = 0
             /\ out[slot] = Unsourced
    <3>1. \A d \in DOMAIN rest : SourcePap(rest[d], slot) = 0
      BY <1>4, <1>5, <2>6
    <3> QED
      BY <2>5, <2>6, <3>1, MergedOfNone
  <2>7. CASE /\ out[slot].owner \in DOMAIN S
             /\ out[slot].pap > 0
             /\ out[slot] = Won(out[slot].owner, S[out[slot].owner], slot)
             /\ \A d \in DOMAIN S : ~Beats(Won(d, S[d], slot), out[slot])
    <3>1. out[slot].owner # h
      <4>1. ASSUME out[slot].owner = h PROVE FALSE
        <5>1. out[slot].pap = SourcePap(S[h], slot)
          BY <2>7, <4>1 DEF Won
        <5> QED
          BY <2>3, <2>7, <5>1
      <4> QED
        BY <4>1
    <3> QED
      BY <1>4, <1>5, <2>5, <2>7, <3>1 DEF SlotMergedOf
  <2> QED
    BY <2>5, <2>6, <2>7 DEF SlotMergedOf
<1>7. out = [slot \in Slots |-> out[slot]]
  BY DEF MergePriorities
<1> HIDE DEF out
<1>8. out \in [Slots -> SlotOutput]
  BY <1>6, <1>7
<1>9. IsMerge(rest, out)
  BY <1>6, <1>8 DEF IsMerge
<1>10. \A d \in DOMAIN rest : LevelsEnd(rest[d])
  BY <1>5 DEF IInv
<1> QED
  BY <1>1, <1>5, <1>9, <1>10 DEF IInv, Sources
-----------------------------------------------------------------------------
(***************************************************************************)
(* The universe priority and the PAP outputs.                              *)
(***************************************************************************)

\* p is the highest universe priority of the sources in S, 0 if there is none.
IsHighest(S, p) ==
    /\ p \in Priority
    /\ \A h \in DOMAIN S : S[h].universe_priority <= p
    /\ p = 0 \/ \E h \in DOMAIN S : S[h].universe_priority = p

OutputsInv ==
    /\ IsHighest(source_states, universe_priority)
    /\ pap_active = AnyPapActive(source_states)

\* recalculate_universe_priority finds the highest universe priority.
LEMMA HighestIsHighest ==
    ASSUME NEW S, IsTable(S)
    PROVE  IsHighest(S, HighestUniversePriority(S))
<1> DEFINE P == {S[h].universe_priority : h \in DOMAIN S} \cup {0}
<1>1. \A h \in DOMAIN S : S[h].universe_priority \in Priority
  BY DEF IsTable, SourceState
<1>2. P \in SUBSET (0..MaxPriority) /\ P # {}
  BY <1>1, MergerAssumption DEF Priority
<1>3. \E p \in P : \A q \in P : q <= p
  <2> HIDE DEF P
  <2> QED
    BY <1>2, GreatestExists, MergerAssumption
<1>4. \E p \in P : \A h \in DOMAIN S : S[h].universe_priority <= p
  BY <1>3
<1>5. /\ HighestUniversePriority(S) \in P
      /\ \A h \in DOMAIN S : S[h].universe_priority <= HighestUniversePriority(S)
  <2> DEFINE good(p) == \A h \in DOMAIN S : S[h].universe_priority <= p
  <2>1. HighestUniversePriority(S) = CHOOSE p \in P : good(p)
    BY DEF HighestUniversePriority
  <2>2. \E p \in P : good(p)
    BY <1>4
  <2> HIDE DEF P, good
  <2>3. HighestUniversePriority(S) \in P /\ good(HighestUniversePriority(S))
    BY <2>1, <2>2
  <2> QED
    BY <2>3 DEF good
<1> QED
  BY <1>2, <1>5 DEF IsHighest, Priority

\* An operation that keeps the universe priorities keeps the highest.
LEMMA HighestOfSame ==
    ASSUME NEW S, NEW S2, NEW p, IsHighest(S, p), DOMAIN S2 = DOMAIN S,
           \A h \in DOMAIN S : S2[h].universe_priority = S[h].universe_priority
    PROVE  IsHighest(S2, p)
BY DEF IsHighest

\* A new source changes neither the universe priority nor the active flag.
LEMMA AddSourceOutputs ==
    ASSUME IInv, OutputsInv, NEW h \in Handles, AddSource(h)
    PROVE  OutputsInv'
<1>1. /\ DOMAIN source_states' = Sources \cup {h} /\ h \notin Sources
      /\ source_states'[h] = NewSourceState
      /\ \A c \in Sources : source_states'[c] = source_states[c]
      /\ universe_priority' = universe_priority /\ pap_active' = pap_active
  BY DEF AddSource
<1>2. NewSourceState.universe_priority = 0 /\ NewSourceState.using_universe_priority
  BY DEF NewSourceState
<1>3. universe_priority \in Nat
  BY MergerAssumption DEF OutputsInv, IsHighest, Priority
<1>4. IsHighest(source_states', universe_priority')
  BY <1>1, <1>2, <1>3 DEF OutputsInv, IsHighest, Sources
<1>5. pap_active' = AnyPapActive(source_states')
  <2>1. AnyPapActive(source_states') <=> AnyPapActive(source_states)
    BY <1>1, <1>2 DEF AnyPapActive, Sources
  <2> QED
    BY <1>1, <2>1 DEF OutputsInv, AnyPapActive
<1> QED
  BY <1>4, <1>5 DEF OutputsInv

\* Levels change neither the universe priority nor the active flag.
LEMMA UpdateLevelsOutputs ==
    ASSUME IInv, OutputsInv, NEW h \in Sources, NEW count, NEW levels,
           UpdateLevels(h, levels, count)
    PROVE  OutputsInv'
<1>1. /\ DOMAIN source_states' = Sources
      /\ \A c \in Sources :
            /\ source_states'[c].universe_priority
                 = source_states[c].universe_priority
            /\ source_states'[c].using_universe_priority
                 = source_states[c].using_universe_priority
      /\ universe_priority' = universe_priority /\ pap_active' = pap_active
  BY SourceType DEF UpdateLevels, SourceState, Sources
<1>2. IsHighest(source_states', universe_priority')
  BY <1>1, HighestOfSame DEF OutputsInv, Sources
<1>3. AnyPapActive(source_states') = AnyPapActive(source_states)
  BY <1>1 DEF AnyPapActive, Sources
<1> QED
  BY <1>1, <1>2, <1>3 DEF OutputsInv

\* A source that sends priorities makes the active flag true.
LEMMA UpdatePapOutputs ==
    ASSUME IInv, OutputsInv, NEW h \in Sources, NEW count, NEW paps,
           UpdatePap(h, paps, count)
    PROVE  OutputsInv'
<1>1. /\ DOMAIN source_states' = Sources
      /\ \A c \in Sources : source_states'[c].universe_priority
                              = source_states[c].universe_priority
      /\ source_states'[h].using_universe_priority = FALSE
      /\ universe_priority' = universe_priority /\ pap_active' = TRUE
  BY SourceType DEF UpdatePap, SourceState, Sources
<1>2. IsHighest(source_states', universe_priority')
  BY <1>1, HighestOfSame DEF OutputsInv, Sources
<1>3. AnyPapActive(source_states')
  BY <1>1 DEF AnyPapActive
<1>4. pap_active' = AnyPapActive(source_states')
  BY <1>1, <1>3 DEF AnyPapActive
<1> QED
  BY <1>2, <1>4 DEF OutputsInv

\* The active flag is computed again when a source loses its priorities.
LEMMA RemovePapOutputs ==
    ASSUME IInv, OutputsInv, NEW h \in Sources, RemovePap(h)
    PROVE  OutputsInv'
<1>1. /\ DOMAIN source_states' = Sources
      /\ \A c \in Sources : source_states'[c].universe_priority
                              = source_states[c].universe_priority
      /\ source_states'[h].using_universe_priority = TRUE
      /\ \A c \in Sources \ {h} : source_states'[c] = source_states[c]
      /\ universe_priority' = universe_priority
      /\ pap_active' = IF source_states[h].using_universe_priority
                         THEN pap_active ELSE AnyPapActive(source_states')
  BY SourceType DEF RemovePap, SourceState, Sources
<1>2. IsHighest(source_states', universe_priority')
  BY <1>1, HighestOfSame DEF OutputsInv, Sources
<1>3. source_states[h].using_universe_priority
        => AnyPapActive(source_states') = AnyPapActive(source_states)
  BY <1>1 DEF AnyPapActive, Sources
<1> QED
  BY <1>1, <1>2, <1>3 DEF OutputsInv

\* The highest universe priority is kept up when a source raises or lowers its
\* own.
LEMMA UpdateUniversePriorityOutputs ==
    ASSUME IInv, OutputsInv, IInv', NEW h \in Sources, NEW priority \in Priority,
           UpdateUniversePriority(h, priority)
    PROVE  OutputsInv'
<1> DEFINE old == source_states[h].universe_priority
<1>1. /\ DOMAIN source_states' = Sources
      /\ source_states'[h].universe_priority = priority
      /\ \A c \in Sources \ {h} : source_states'[c] = source_states[c]
      /\ source_states'[h].using_universe_priority
           = source_states[h].using_universe_priority
      /\ pap_active' = pap_active
  BY SourceType DEF UpdateUniversePriority, SourceState, Sources
<1>2. /\ universe_priority' =
            IF IsSingle \/ priority >= universe_priority THEN priority
            ELSE IF old >= universe_priority
                   THEN HighestUniversePriority(source_states')
                   ELSE universe_priority
  BY DEF UpdateUniversePriority
<1>3. /\ priority \in Nat /\ universe_priority \in Nat /\ priority >= 0
      /\ \A c \in Sources : source_states[c].universe_priority \in Nat
  BY SourceType, MergerAssumption DEF OutputsInv, IsHighest, Priority
<1>4. IsHighest(source_states', universe_priority')
  <2>1. CASE IsSingle
    <3>1. Sources = {h}
      BY <2>1, SingleSource DEF IInv
    <3> QED
      BY <1>1, <1>2, <1>3, <2>1, <3>1 DEF IsHighest
  <2>2. CASE ~IsSingle /\ priority >= universe_priority
    <3>1. universe_priority' = priority
      BY <1>2, <2>2
    <3>2. \A c \in Sources : source_states[c].universe_priority <= universe_priority
      BY DEF OutputsInv, IsHighest, Sources
    <3>3. ASSUME NEW c \in Sources
          PROVE  source_states'[c].universe_priority <= priority
      <4>1. CASE c = h
        BY <1>1, <1>3, <4>1
      <4>2. CASE c # h
        BY <1>1, <1>3, <2>2, <3>2, <4>2
      <4> QED
        BY <4>1, <4>2
    <3> QED
      BY <1>1, <3>1, <3>3 DEF IsHighest
  <2>3. CASE ~IsSingle /\ ~(priority >= universe_priority) /\ old >= universe_priority
    <3>1. universe_priority' = HighestUniversePriority(source_states')
      BY <1>2, <2>3
    <3>2. IsTable(source_states')
      BY DEF IInv
    <3> QED
      BY <3>1, <3>2, HighestIsHighest
  <2>4. CASE ~IsSingle /\ ~(priority >= universe_priority)
               /\ ~(old >= universe_priority)
    <3>1. universe_priority' = universe_priority
      BY <1>2, <2>4
    <3>2. /\ universe_priority \in Priority
          /\ \A c \in Sources :
                source_states[c].universe_priority <= universe_priority
          /\ universe_priority = 0
               \/ \E c \in Sources :
                     source_states[c].universe_priority = universe_priority
      BY DEF OutputsInv, IsHighest, Sources
    <3>3. \A c \in Sources : source_states'[c].universe_priority <= universe_priority
      BY <1>1, <1>3, <2>4, <3>2
    <3>4. universe_priority = 0
            \/ \E c \in Sources :
                  source_states'[c].universe_priority = universe_priority
      <4>1. CASE universe_priority = 0
        BY <4>1
      <4>2. CASE universe_priority # 0
        <5>1. PICK c \in Sources :
                 source_states[c].universe_priority = universe_priority
          BY <3>2, <4>2
        <5>2. c # h
          BY <1>3, <2>4, <5>1
        <5> QED
          BY <1>1, <5>1, <5>2
      <4> QED
        BY <4>1, <4>2
    <3> QED
      BY <1>1, <3>1, <3>2, <3>3, <3>4 DEF IsHighest
  <2> QED
    BY <2>1, <2>2, <2>3, <2>4
<1>5. AnyPapActive(source_states') = AnyPapActive(source_states)
  BY <1>1 DEF AnyPapActive, Sources
<1> QED
  BY <1>1, <1>4, <1>5 DEF OutputsInv

\* Both outputs are computed again when the source they may come from leaves.
LEMMA RemoveSourceOutputs ==
    ASSUME IInv, OutputsInv, IInv', NEW h \in Sources, RemoveSource(h)
    PROVE  OutputsInv'
<1> DEFINE src == source_states[h]
<1>1. /\ DOMAIN source_states' = Sources \ {h}
      /\ \A c \in Sources \ {h} : source_states'[c] = source_states[c]
      /\ pap_active' = IF pap_active /\ ~src.using_universe_priority
                         THEN AnyPapActive(source_states') ELSE pap_active
      /\ universe_priority' = IF src.universe_priority >= universe_priority
                                THEN HighestUniversePriority(source_states')
                                ELSE universe_priority
  BY DEF RemoveSource
<1>2. /\ universe_priority \in Nat
      /\ \A c \in Sources : source_states[c].universe_priority \in Nat
  BY SourceType, MergerAssumption DEF OutputsInv, IsHighest, Priority
<1>3. IsHighest(source_states', universe_priority')
  <2>1. CASE src.universe_priority >= universe_priority
    <3>1. IsTable(source_states')
      BY DEF IInv
    <3> QED
      BY <1>1, <2>1, <3>1, HighestIsHighest
  <2>2. CASE ~(src.universe_priority >= universe_priority)
    <3>1. universe_priority' = universe_priority
      BY <1>1, <2>2
    <3>2. /\ universe_priority \in Priority
          /\ \A c \in Sources :
                source_states[c].universe_priority <= universe_priority
          /\ universe_priority = 0
               \/ \E c \in Sources :
                     source_states[c].universe_priority = universe_priority
      BY DEF OutputsInv, IsHighest, Sources
    <3>3. \A c \in Sources : source_states[c].universe_priority = universe_priority
             => c # h
      BY <1>2, <2>2
    <3> QED
      BY <1>1, <3>1, <3>2, <3>3 DEF IsHighest
  <2> QED
    BY <2>1, <2>2
<1>4. pap_active' = AnyPapActive(source_states')
  <2>1. pap_active = AnyPapActive(source_states)
    BY DEF OutputsInv
  <2>2. CASE pap_active /\ ~src.using_universe_priority
    BY <1>1, <2>2
  <2>3. CASE ~(pap_active /\ ~src.using_universe_priority)
    <3>1. pap_active' = pap_active
      BY <1>1, <2>3
    <3>2. AnyPapActive(source_states') <=> AnyPapActive(source_states)
      BY <1>1, <2>1, <2>3 DEF AnyPapActive, Sources
    <3> QED
      BY <2>1, <3>1, <3>2 DEF AnyPapActive
  <2> QED
    BY <2>2, <2>3
<1> QED
  BY <1>3, <1>4 DEF OutputsInv
-----------------------------------------------------------------------------
(***************************************************************************)
(* The theorems.                                                           *)
(***************************************************************************)

Inv == IInv /\ OutputsInv

\* A merger without sources satisfies the invariant.
LEMMA InitInv == Init => Inv
<1> SUFFICES ASSUME Init PROVE Inv
  OBVIOUS
<1>1. DOMAIN source_states = {}
  BY DEF Init
<1>2. IsTable(source_states)
  BY <1>1 DEF Init, IsTable
<1>3. IsMerge(source_states, output)
  <2>1. output = [slot \in Slots |-> Unsourced]
    BY DEF Init
  <2> QED
    BY <1>1, <2>1, UnsourcedType DEF IsMerge, SlotMergedOf
<1>4. universe_priority = 0 /\ pap_active = FALSE /\ 0 \in Priority
  BY MergerAssumption DEF Init, Priority
<1>5. IsHighest(source_states, universe_priority)
  BY <1>1, <1>4 DEF IsHighest
<1>6. pap_active = AnyPapActive(source_states)
  BY <1>1, <1>4 DEF AnyPapActive
<1> QED
  BY <1>1, <1>2, <1>3, <1>5, <1>6 DEF Inv, IInv, OutputsInv, Sources

\* Every operation of the merger preserves the invariant.
LEMMA NextInv == Inv /\ [Next]_vars => Inv'
<1> SUFFICES ASSUME Inv, [Next]_vars PROVE Inv'
  OBVIOUS
<1> USE DEF Inv
<1>1. ASSUME NEW h \in Handles, AddSource(h) PROVE Inv'
  BY <1>1, AddSourceStep, AddSourceOutputs
<1>2. ASSUME NEW h \in Handles, NEW count \in 0..NumSlots,
             NEW levels \in [1..count -> Level], UpdateLevels(h, levels, count)
      PROVE  Inv'
  <2>1. h \in Sources
    BY <1>2 DEF UpdateLevels
  <2> QED
    BY <1>2, <2>1, UpdateLevelsStep, UpdateLevelsOutputs
<1>3. ASSUME NEW h \in Handles, NEW count \in 0..NumSlots,
             NEW paps \in [1..count -> Priority], UpdatePap(h, paps, count)
      PROVE  Inv'
  <2>1. h \in Sources
    BY <1>3 DEF UpdatePap
  <2> QED
    BY <1>3, <2>1, UpdatePapStep, UpdatePapOutputs
<1>4. ASSUME NEW h \in Handles, NEW priority \in Priority,
             UpdateUniversePriority(h, priority)
      PROVE  Inv'
  <2>1. h \in Sources
    BY <1>4 DEF UpdateUniversePriority
  <2> QED
    BY <1>4, <2>1, UpdateUniversePriorityStep, UpdateUniversePriorityOutputs
<1>5. ASSUME NEW h \in Handles, RemovePap(h) PROVE Inv'
  <2>1. h \in Sources
    BY <1>5 DEF RemovePap
  <2> QED
    BY <1>5, <2>1, RemovePapStep, RemovePapOutputs
<1>6. ASSUME NEW h \in Handles, RemoveSource(h) PROVE Inv'
  <2>1. h \in Sources
    BY <1>6 DEF RemoveSource
  <2> QED
    BY <1>6, <2>1, RemoveSourceStep, RemoveSourceOutputs
<1>7. CASE UNCHANGED vars
  BY <1>7 DEF vars, IInv, OutputsInv, Sources
<1> QED
  BY <1>1, <1>2, <1>3, <1>4, <1>5, <1>6, <1>7 DEF Next, UpdateSource

\* The invariant implies the properties of the merger.
LEMMA InvImplies ==
    Inv => /\ TypeOK /\ OutputIsMerge
           /\ UniversePriorityIsHighest /\ PapActiveIsExact
<1> SUFFICES ASSUME Inv
             PROVE  /\ TypeOK /\ OutputIsMerge
                    /\ UniversePriorityIsHighest /\ PapActiveIsExact
  OBVIOUS
<1>1. OutputIsMerge
  BY DEF Inv, IInv, IsMerge, OutputIsMerge
<1>2. UniversePriorityIsHighest /\ PapActiveIsExact
  BY DEF Inv, OutputsInv, IsHighest, UniversePriorityIsHighest,
         PapActiveIsExact, Sources
<1>3. pap_active \in BOOLEAN
  BY DEF Inv, OutputsInv, AnyPapActive
<1>4. TypeOK
  BY <1>3 DEF Inv, IInv, OutputsInv, IsTable, IsMerge, IsHighest, TypeOK, Sources
<1> QED
  BY <1>1, <1>2, <1>4

\* The invariant holds in every state of a merger.
LEMMA InvHolds == Spec => []Inv
BY InitInv, NextInv, PTL DEF Spec

\* The merger's tables and outputs keep their types: in particular every index
\* the slots and counts are used with is in range, and an owner is a handle.
THEOREM MergerTypes == Spec => []TypeOK
BY InvHolds, InvImplies, PTL

\* Whatever sequence of additions, updates and removals is called, the
\* incremental merge leaves every slot with the highest level among the sources
\* of the highest priority (dmx_merger.c, merge_new_priorities and
\* update_levels_multi_source).
THEOREM MergerOutputIsMerge == Spec => []OutputIsMerge
BY InvHolds, InvImplies, PTL

\* The universe priority output is that of the highest source, although it is
\* recalculated only when the highest source lowers its own or leaves.
THEOREM MergerUniversePriority == Spec => []UniversePriorityIsHighest
BY InvHolds, InvImplies, PTL

\* per_address_priorities_active is set exactly while some source sends its own
\* priorities, although it is recalculated only when one stops.
THEOREM MergerPapActive == Spec => []PapActiveIsExact
BY InvHolds, InvImplies, PTL

\* Both priority outputs are exact (dmx_merger.c, update_universe_priority and
\* recalculate_pap_active).
THEOREM MergerPriorities == Spec => []PrioritiesAreExact
BY MergerUniversePriority, MergerPapActive, PTL DEF PrioritiesAreExact
-----------------------------------------------------------------------------
(***************************************************************************)
(* Levels and priorities beyond the counts of a source.                    *)
(***************************************************************************)

ZeroBeyond(src) ==
    \A slot \in Slots : /\ slot > src.valid_level_count => src.levels[slot] = 0
                        /\ slot > src.pap_count => src.address_priority[slot] = 0

\* Overwriting an array that is zero beyond the old count leaves it zero beyond
\* the new one.
LEMMA OverwriteZero ==
    ASSUME NEW array, NEW values, NEW old_count \in 0..NumSlots, NEW count \in 0..NumSlots,
           \A slot \in Slots : slot > old_count => array[slot] = 0
    PROVE  \A slot \in Slots :
              slot > count => Overwrite(array, old_count, values, count)[slot] = 0
<1> USE MergerAssumption DEF Slots
<1>1. ASSUME NEW slot \in Slots, slot > count
      PROVE  Overwrite(array, old_count, values, count)[slot] = 0
  <2>1. slot \in Nat /\ ~(slot <= count)
    BY <1>1
  <2>2. Overwrite(array, old_count, values, count)[slot]
          = IF slot <= old_count THEN 0 ELSE array[slot]
    BY <2>1 DEF Overwrite
  <2> QED
    BY <2>1, <2>2
<1> QED
  BY <1>1

\* A step that changes one source, and leaves it zero beyond its counts.
LEMMA OneSourceZero ==
    ASSUME IInv, BeyondCountIsZero, NEW h \in Sources, NEW src, ZeroBeyond(src),
           source_states' = [source_states EXCEPT ![h] = src]
    PROVE  BeyondCountIsZero'
<1>1. Sources' = Sources
  BY DEF Sources
<1>2. \A x \in Sources : source_states'[x] = IF x = h THEN src ELSE source_states[x]
  BY DEF Sources, IInv, IsTable
<1> QED
  BY <1>1, <1>2 DEF BeyondCountIsZero, ZeroBeyond

\* The source a call is about.
LEMMA SourceIsTyped ==
    ASSUME IInv, BeyondCountIsZero, NEW h \in Sources
    PROVE  source_states[h] \in SourceState /\ ZeroBeyond(source_states[h])
BY DEF IInv, IsTable, Sources, BeyondCountIsZero, ZeroBeyond

LEMMA UpdateLevelsZero ==
    ASSUME IInv, BeyondCountIsZero, NEW h \in Sources, NEW count \in 0..NumSlots,
           NEW levels, UpdateLevels(h, levels, count)
    PROVE  BeyondCountIsZero'
<1> DEFINE src == source_states[h]
           new == [src EXCEPT !.valid_level_count = count,
                     !.levels = Overwrite(@, src.valid_level_count, levels, count)]
<1>1. src \in SourceState /\ ZeroBeyond(src)
  BY SourceIsTyped
<1>2. /\ new.levels = Overwrite(src.levels, src.valid_level_count, levels, count)
      /\ new.valid_level_count = count
      /\ new.address_priority = src.address_priority /\ new.pap_count = src.pap_count
  BY <1>1 DEF SourceState
<1>3. src.valid_level_count \in 0..NumSlots
  BY <1>1 DEF SourceState
<1>4. ZeroBeyond(new)
  <2> HIDE DEF new, src
  <2> QED
    BY <1>1, <1>2, <1>3, OverwriteZero DEF ZeroBeyond
<1>5. source_states' = [source_states EXCEPT ![h] = new]
  BY DEF UpdateLevels
<1> QED
  BY <1>4, <1>5, OneSourceZero

LEMMA UpdatePapZero ==
    ASSUME IInv, BeyondCountIsZero, NEW h \in Sources, NEW count \in 0..NumSlots,
           NEW paps, UpdatePap(h, paps, count)
    PROVE  BeyondCountIsZero'
<1> DEFINE src == source_states[h]
           new == [src EXCEPT !.using_universe_priority = FALSE, !.pap_count = count,
                     !.address_priority = Overwrite(@, src.pap_count, paps, count)]
<1>1. src \in SourceState /\ ZeroBeyond(src)
  BY SourceIsTyped
<1>2. /\ new.address_priority = Overwrite(src.address_priority, src.pap_count, paps, count)
      /\ new.pap_count = count
      /\ new.levels = src.levels /\ new.valid_level_count = src.valid_level_count
  BY <1>1 DEF SourceState
<1>3. src.pap_count \in 0..NumSlots
  BY <1>1 DEF SourceState
<1>4. ZeroBeyond(new)
  <2> HIDE DEF new, src
  <2> QED
    BY <1>1, <1>2, <1>3, OverwriteZero DEF ZeroBeyond
<1>5. source_states' = [source_states EXCEPT ![h] = new]
  BY DEF UpdatePap
<1> QED
  BY <1>4, <1>5, OneSourceZero

\* A source whose levels stay, and whose priorities stay or fill all slots.
LEMMA PrioritiesZero ==
    ASSUME IInv, BeyondCountIsZero, NEW h \in Sources, NEW src,
           src.levels = source_states[h].levels,
           src.valid_level_count = source_states[h].valid_level_count,
           \/ src.pap_count = NumSlots
           \/ /\ src.pap_count = source_states[h].pap_count
              /\ src.address_priority = source_states[h].address_priority,
           source_states' = [source_states EXCEPT ![h] = src]
    PROVE  BeyondCountIsZero'
<1>1. ZeroBeyond(source_states[h])
  BY SourceIsTyped
<1>2. ZeroBeyond(src)
  BY <1>1, MergerAssumption DEF ZeroBeyond, Slots
<1> QED
  BY <1>2, OneSourceZero

LEMMA UniversePriorityZero ==
    ASSUME IInv, BeyondCountIsZero, NEW h \in Sources, NEW priority,
           UpdateUniversePriority(h, priority)
    PROVE  BeyondCountIsZero'
<1> DEFINE src == source_states[h]
           initialized == [src EXCEPT !.universe_priority = priority,
                             !.universe_priority_uninitialized = FALSE]
           new == IF src.using_universe_priority
                    THEN [initialized EXCEPT !.pap_count = NumSlots,
                            !.address_priority = ConvertedPriority(priority)]
                    ELSE initialized
<1>1. src \in SourceState
  BY SourceIsTyped
<1>2. source_states' = [source_states EXCEPT ![h] = new]
  BY DEF UpdateUniversePriority
<1>3. /\ new.levels = src.levels /\ new.valid_level_count = src.valid_level_count
      /\ \/ new.pap_count = NumSlots
         \/ new.pap_count = src.pap_count /\ new.address_priority = src.address_priority
  <2> HIDE DEF src
  <2> QED
    BY <1>1 DEF SourceState
<1> HIDE DEF new
<1> QED
  BY <1>2, <1>3, PrioritiesZero

LEMMA RemovePapZero ==
    ASSUME IInv, BeyondCountIsZero, NEW h \in Sources, RemovePap(h)
    PROVE  BeyondCountIsZero'
<1> DEFINE src == source_states[h]
           new == [src EXCEPT !.using_universe_priority = TRUE,
                     !.pap_count = NumSlots,
                     !.address_priority = ConvertedPriority(src.universe_priority)]
<1>1. src \in SourceState
  BY SourceIsTyped
<1>2. source_states' = [source_states EXCEPT ![h] = new]
  BY DEF RemovePap
<1>3. /\ new.levels = src.levels /\ new.valid_level_count = src.valid_level_count
      /\ new.pap_count = NumSlots
  <2> HIDE DEF src
  <2> QED
    BY <1>1 DEF SourceState
<1> HIDE DEF new
<1> QED
  BY <1>2, <1>3, PrioritiesZero

LEMMA SourcesZero ==
    ASSUME IInv, BeyondCountIsZero, NEW h \in Handles, AddSource(h) \/ RemoveSource(h)
    PROVE  BeyondCountIsZero'
<1>1. CASE AddSource(h)
  <2> DEFINE table == [x \in Sources \cup {h} |->
                          IF x = h THEN NewSourceState ELSE source_states[x]]
  <2>1. source_states' = table
    BY <1>1 DEF AddSource
  <2>2. Sources' = Sources \cup {h}
    BY <2>1 DEF Sources
  <2>3. ASSUME NEW x \in Sources' PROVE ZeroBeyond(source_states'[x])
    <3>1. CASE x = h
      <4>1. source_states'[x] = NewSourceState
        BY <2>1, <2>2, <3>1
      <4> QED
        BY <4>1 DEF NewSourceState, ZeroBeyond
    <3>2. CASE x # h
      <4>1. x \in Sources
        BY <2>2, <2>3, <3>2
      <4>2. source_states'[x] = source_states[x]
        BY <2>1, <3>2, <4>1
      <4> QED
        BY <4>1, <4>2, SourceIsTyped
    <3> QED
      BY <3>1, <3>2
  <2> QED
    BY <2>3 DEF BeyondCountIsZero, ZeroBeyond
<1>2. CASE RemoveSource(h)
  <2>1. \A x \in Sources' : x \in Sources /\ source_states'[x] = source_states[x]
    BY <1>2 DEF RemoveSource, Sources
  <2> QED
    BY <2>1 DEF BeyondCountIsZero
<1> QED
  BY <1>1, <1>2

-----------------------------------------------------------------------------
(***************************************************************************)
(* A merger from its creation to its destruction.                          *)
(***************************************************************************)

CreatedInv == created => Inv /\ BeyondCountIsZero

LEMMA CreatedInit == MergersInit => CreatedInv
BY DEF MergersInit, CreatedInv

LEMMA CreatedNext == CreatedInv /\ [MergersNext]_mergerVars => CreatedInv'
<1> SUFFICES ASSUME CreatedInv, [MergersNext]_mergerVars PROVE CreatedInv'
  OBVIOUS
<1>1. CASE MergerCreate
  <2>1. Inv'
    <3>1. /\ source_states' = << >> /\ output' = [slot \in Slots |-> Unsourced]
          /\ universe_priority' = 0 /\ pap_active' = FALSE
      BY <1>1 DEF MergerCreate, CreateSacnDmxMerger
    <3>2. DOMAIN source_states' = {}
      BY <3>1
    <3>3. IsTable(source_states')
      BY <3>1, <3>2 DEF IsTable
    <3>4. IsMerge(source_states', output')
      BY <3>1, <3>2, UnsourcedType DEF IsMerge, SlotMergedOf
    <3>5. IsHighest(source_states', universe_priority')
      BY <3>1, <3>2, MergerAssumption DEF IsHighest, Priority
    <3>6. ~AnyPapActive(source_states') /\ AnyPapActive(source_states') \in BOOLEAN
      BY <3>2 DEF AnyPapActive
    <3>7. pap_active' = AnyPapActive(source_states')
      BY <3>1, <3>6
    <3>8. Sources' = {}
      BY <3>2 DEF Sources
    <3> QED
      BY <3>3, <3>4, <3>5, <3>7, <3>8 DEF Inv, IInv, OutputsInv
  <2>2. BeyondCountIsZero'
    <3>1. DOMAIN source_states' = {}
      BY <1>1 DEF MergerCreate, CreateSacnDmxMerger
    <3> QED
      BY <3>1 DEF BeyondCountIsZero, Sources
  <2> QED
    BY <2>1, <2>2 DEF CreatedInv
<1>2. CASE MergerDestroy
  BY <1>2 DEF MergerDestroy, DestroySacnDmxMerger, CreatedInv
<1>3. ASSUME NEW h \in Handles,
             \/ MergerAddSource(h) \/ MergerRemoveSource(h) \/ MergerUpdateLevels(h)
             \/ MergerUpdatePap(h) \/ MergerUpdateWithoutSlots(h)
             \/ MergerUpdateUniversePriority(h) \/ MergerRemovePap(h)
      PROVE  CreatedInv'
  <2>1. created /\ Inv /\ IInv /\ BeyondCountIsZero
    BY <1>3 DEF CreatedInv, Inv, MergerAddSource, AddSacnDmxMergerSource, LookupState,
       MergerRemoveSource, MergerUpdateLevels, MergerUpdatePap, MergerUpdateWithoutSlots,
       MergerUpdateUniversePriority, MergerRemovePap
  <2>2. CASE AddSource(h) \/ RemoveSource(h)
    <3>1. Next
      BY <2>2 DEF Next
    <3> QED
      BY <2>1, <2>2, <3>1, NextInv, SourcesZero DEF CreatedInv
  <2>3. ASSUME NEW count \in 0..NumSlots, NEW levels \in [1..count -> Level],
               h \in Sources, UpdateLevels(h, levels, count)
        PROVE  CreatedInv'
    <3>1. Next
      BY <2>3 DEF Next, UpdateSource
    <3> QED
      BY <2>1, <2>3, <3>1, NextInv, UpdateLevelsZero DEF CreatedInv
  <2>4. ASSUME NEW count \in 0..NumSlots, NEW paps \in [1..count -> Priority],
               h \in Sources, UpdatePap(h, paps, count)
        PROVE  CreatedInv'
    <3>1. Next
      BY <2>4 DEF Next, UpdateSource
    <3> QED
      BY <2>1, <2>4, <3>1, NextInv, UpdatePapZero DEF CreatedInv
  <2>5. ASSUME NEW priority \in Priority, h \in Sources,
               UpdateUniversePriority(h, priority) \/ RemovePap(h)
        PROVE  CreatedInv'
    <3>1. Next
      BY <2>5 DEF Next, UpdateSource
    <3> QED
      BY <2>1, <2>5, <3>1, NextInv, UniversePriorityZero, RemovePapZero DEF CreatedInv
  <2>6. CASE MergerUpdateWithoutSlots(h)
    <3>1. 0 \in 0..NumSlots /\ << >> \in [1..0 -> Level] /\ << >> \in [1..0 -> Priority]
      BY MergerAssumption
    <3> QED
      BY <2>3, <2>4, <2>6, <3>1 DEF MergerUpdateWithoutSlots, LookupState
  <2>7. CASE MergerUpdateLevels(h) \/ MergerUpdatePap(h)
    BY <2>3, <2>4, <2>7, MergerAssumption DEF MergerUpdateLevels, MergerUpdatePap, LookupState
  <2>8. 0 \in Priority
    BY MergerAssumption DEF Priority
  <2> QED
    BY <1>3, <2>2, <2>5, <2>6, <2>7, <2>8
    DEF MergerAddSource, AddSacnDmxMergerSource, MergerRemoveSource, LookupState,
        MergerUpdateUniversePriority, MergerRemovePap
<1>4. CASE UNCHANGED mergerVars
  BY <1>4 DEF mergerVars, vars, CreatedInv, Inv, IInv, OutputsInv, Sources, BeyondCountIsZero
<1> QED
  BY <1>1, <1>2, <1>3, <1>4 DEF MergersNext

LEMMA CreatedInvHolds == MergersSpec => []CreatedInv
BY CreatedInit, CreatedNext, PTL DEF MergersSpec

\* The arrays of the sources of a merger hold values of their type, and nothing
\* beyond their counts, where the scans of dmx_merger.c count on nothing.
THEOREM MergersStorage == MergersSpec => []CreatedStorageOK
<1>1. CreatedInv => CreatedStorageOK
  BY InvImplies DEF CreatedInv, CreatedStorageOK, StorageOK
<1> QED
  BY <1>1, CreatedInvHolds, PTL

\* From its creation to its destruction, in buffers that held anything before,
\* the output of a merger is the merge of its sources (merge_new_priorities,
\* update_levels_multi_source, construct_merger_state).
THEOREM MergersOutput == MergersSpec => []CreatedOutputIsMerge
<1>1. CreatedInv => CreatedOutputIsMerge
  BY InvImplies DEF CreatedInv, CreatedOutputIsMerge
<1> QED
  BY <1>1, CreatedInvHolds, PTL

\* And so are its priority outputs exact (update_universe_priority,
\* recalculate_pap_active).
THEOREM MergersPriorities == MergersSpec => []CreatedPrioritiesAreExact
<1>1. CreatedInv => CreatedPrioritiesAreExact
  BY InvImplies DEF CreatedInv, CreatedPrioritiesAreExact, PrioritiesAreExact
<1> QED
  BY <1>1, CreatedInvHolds, PTL

-----------------------------------------------------------------------------
(***************************************************************************)
(* The candidate scans are loops over the handles.                         *)
(***************************************************************************)

\* Finitely many numbers have a bound.
LEMMA FiniteBounded ==
    ASSUME NEW F \in SUBSET Nat, IsFiniteSet(F)
    PROVE  \E b \in Nat : F \subseteq 0..b
<1> DEFINE Bad(S) == S \in SUBSET Nat /\ IsFiniteSet(S) /\ ~\E b \in Nat : S \subseteq 0..b
           T == {n \in Nat : \E S : Bad(S) /\ Cardinality(S) = n}
<1> SUFFICES ASSUME Bad(F) PROVE FALSE
  OBVIOUS
<1>1. Cardinality(F) \in T
  BY FS_CardinalityType
<1>2. PICK n \in T : \A m \in T : n <= m
  <2> HIDE DEF T
  <2>1. T \in SUBSET Nat
    BY DEF T
  <2> QED
    BY <1>1, <2>1, LeastExists
<1>3. PICK S : Bad(S) /\ Cardinality(S) = n
  OBVIOUS
<1>4. S # {}
  <2>1. {} \subseteq 0..0
    OBVIOUS
  <2> QED
    BY <1>3, <2>1
<1>5. PICK x \in S : TRUE
  BY <1>4
<1>6. IsFiniteSet(S \ {x}) /\ Cardinality(S \ {x}) = n - 1
  BY <1>3, <1>5, FS_RemoveElement
<1>7. Cardinality(S \ {x}) \in Nat
  BY <1>6, FS_CardinalityType
<1>8. n \in Nat /\ n - 1 \in Nat /\ n - 1 \notin T
  BY <1>2, <1>6, <1>7
<1>9. PICK b \in Nat : S \ {x} \subseteq 0..b
  BY <1>3, <1>6, <1>8
<1>10. x \in Nat
  BY <1>3, <1>5
<1>11. S \subseteq 0..(b + x)
  <2>1. ASSUME NEW y \in S PROVE y \in 0..(b + x)
    BY <1>9, <1>10
  <2> QED
    BY <2>1
<1>12. b + x \in Nat
  BY <1>9, <1>10
<1>13. ~\E c \in Nat : S \subseteq 0..c
  BY <1>3
<1> QED
  BY <1>11, <1>12, <1>13

\* The handles are below Bound.
LEMMA BoundOfHandles ==
    Bound \in Nat /\ \A c \in Handles : c + 1 \in 1..Bound
<1>1. CASE Handles = {}
  BY <1>1 DEF Bound
<1>2. CASE Handles # {}
  <2>1. \E h \in Handles : \A c \in Handles : c <= h
    <3>1. PICK n \in Nat : Handles \subseteq 0..n
      BY FiniteBounded, MergerAssumption
    <3> QED
      BY <1>2, <3>1, GreatestExists
  <2> DEFINE top == CHOOSE h \in Handles : \A c \in Handles : c <= h
  <2>2. top \in Handles /\ \A c \in Handles : c <= top
    BY <2>1
  <2>3. Bound = 1 + top
    BY <1>2 DEF Bound
  <2> HIDE DEF top
  <2> QED
    BY <2>2, <2>3, HandleType
<1> QED
  BY <1>1, <1>2

\* The outputs that the loop of merge_new_priorities goes through.
IsLoop(out, k, h, S, slot, start) ==
    out = [n \in 0..k |->
            IF n = 0 THEN start
            ELSE IF n - 1 \in DOMAIN S \ {h} /\ Beats(Won(n - 1, S[n - 1], slot), out[n - 1])
              THEN Won(n - 1, S[n - 1], slot)
            ELSE out[n - 1]]

LEMMA LoopExists ==
    ASSUME NEW h, NEW S, NEW slot, NEW start, NEW N \in Nat
    PROVE  \E out : IsLoop(out, N, h, S, slot, start)
<1> DEFINE Is(f, k) == IsLoop(f, k, h, S, slot, start)
           T == {k \in Nat : ~\E f : Is(f, k)}
           Step(f, n) == IF n = 0 THEN start
              ELSE IF n - 1 \in DOMAIN S \ {h} /\ Beats(Won(n - 1, S[n - 1], slot), f[n - 1])
                THEN Won(n - 1, S[n - 1], slot)
              ELSE f[n - 1]
<1> SUFFICES T = {}
  OBVIOUS
<1> SUFFICES ASSUME T # {} PROVE FALSE
  OBVIOUS
<1>1. PICK k \in T : \A y \in T : k <= y
  BY LeastExists
<1>2. k # 0
  <2>1. Is([n \in 0..0 |-> start], 0)
    BY DEF IsLoop
  <2> QED
    BY <2>1, <1>1
<1>3. PICK f : Is(f, k - 1)
  BY <1>1, <1>2
<1> DEFINE last == IF k - 1 \in DOMAIN S \ {h} /\ Beats(Won(k - 1, S[k - 1], slot), f[k - 1])
                     THEN Won(k - 1, S[k - 1], slot) ELSE f[k - 1]
           g == [n \in 0..k |-> IF n = k THEN last ELSE f[n]]
<1>4. Is(g, k)
  <2>1. f = [n \in 0..(k - 1) |-> Step(f, n)]
    BY <1>3 DEF IsLoop
  <2> HIDE DEF last
  <2>2. ASSUME NEW n \in 0..k PROVE g[n] = Step(g, n)
    <3>1. CASE n = k
      <4>1. g[n] = last /\ g[n - 1] = f[k - 1]
        BY <3>1, <1>2
      <4> QED
        BY <4>1, <3>1, <1>2 DEF last
    <3>2. CASE n # k
      <4>1. n \in 0..(k - 1) /\ g[n] = f[n] /\ (n # 0 => g[n - 1] = f[n - 1])
        BY <3>2
      <4>2. f[n] = Step(f, n)
        BY <4>1, <2>1
      <4> QED
        BY <4>1, <4>2
    <3> QED
      BY <3>1, <3>2
  <2>3. g = [n \in 0..k |-> Step(g, n)]
    BY <2>2
  <2> QED
    BY <2>3 DEF IsLoop
<1> QED
  BY <1>4, <1>1

\* An output is that of the first of the best candidates of C, or the one the
\* scan starts with.
IsWinner(out, C, S, slot, start) ==
    \/ out = start /\ \A d \in C : ~Beats(Won(d, S[d], slot), start)
    \/ \E c \in C :
          /\ out = Won(c, S[c], slot)
          /\ Beats(out, start)
          /\ \A d \in C : Beats(Won(d, S[d], slot), start) =>
                /\ ~Beats(Won(d, S[d], slot), out)
                /\ d < c => Beats(out, Won(d, S[d], slot))

\* What beats one of two outputs beats the other, or is beaten by it.
LEMMA BeatsOrder ==
    ASSUME NEW a \in SlotOutput, NEW b \in SlotOutput, NEW c \in SlotOutput
    PROVE  /\ Beats(a, b) /\ Beats(b, c) => Beats(a, c)
           /\ Beats(a, b) /\ ~Beats(a, c) => Beats(c, b)
           /\ ~(Beats(a, b) /\ Beats(b, a))
BY OutputType DEF Beats

LEMMA ScanIsWinner ==
    ASSUME NEW S, IsTable(S), NEW slot \in Slots, NEW h, NEW start \in SlotOutput
    PROVE  IsWinner(Scan(h, S, slot, start), DOMAIN S \ {h}, S, slot, start)
<1> DEFINE offer(c) == Won(c, S[c], slot)
           better == {c \in DOMAIN S \ {h} : Beats(offer(c), start)}
           best == {c \in better : \A d \in better : ~Beats(offer(d), offer(c))}
<1>1. CASE better = {}
  BY <1>1 DEF Scan, IsWinner
<1>2. CASE better # {}
  <2>1. best # {}
    <3>1. better \in SUBSET DOMAIN S
      OBVIOUS
    <3>2. PICK c \in better : \A d \in better : ~Beats(offer(d), offer(c))
      <4> HIDE DEF better
      <4> QED
        BY <1>2, <3>1, BestExists
    <3> QED
      BY <3>2
  <2>2. \E c \in best : \A d \in best : c <= d
    <3>1. best \in SUBSET Nat
      <4>1. best \subseteq Handles
        BY DEF IsTable
      <4> HIDE DEF best
      <4> QED
        BY <4>1, HandleType
    <3> HIDE DEF best
    <3> QED
      BY <2>1, <3>1, LeastExists
  <2> DEFINE c == CHOOSE x \in best : \A d \in best : x <= d
  <2>3. c \in best /\ \A d \in best : c <= d
    <3> HIDE DEF best
    <3> QED
      BY <2>2
  <2>4. Scan(h, S, slot, start) = offer(c)
    BY <1>2 DEF Scan
  <2> HIDE DEF c
  <2>5. \A d \in DOMAIN S : d \in Nat /\ offer(d) \in SlotOutput
    BY WonType, HandleType DEF IsTable
  <2>6. ASSUME NEW d \in better, d < c PROVE Beats(offer(c), offer(d))
    <3>1. d \notin best
      BY <2>3, <2>5, <2>6
    <3>2. PICK e \in better : Beats(offer(e), offer(d))
      BY <3>1
    <3>3. ~Beats(offer(e), offer(c))
      BY <2>3
    <3> QED
      BY <2>3, <2>5, <3>2, <3>3, BeatsOrder
  <2>7. \A d \in better : ~Beats(offer(d), offer(c)) /\ (d < c => Beats(offer(c), offer(d)))
    BY <2>3, <2>6
  <2>8. c \in DOMAIN S \ {h} /\ Beats(offer(c), start)
    BY <2>3
  <2> HIDE DEF best
  <2> QED
    BY <2>4, <2>7, <2>8 DEF IsWinner
<1> QED
  BY <1>1, <1>2

LEMMA WinnerIsOne ==
    ASSUME NEW S, IsTable(S), NEW slot \in Slots, NEW C \in SUBSET DOMAIN S,
           NEW start \in SlotOutput, NEW a, IsWinner(a, C, S, slot, start),
           NEW b, IsWinner(b, C, S, slot, start)
    PROVE  a = b
<1> DEFINE offer(c) == Won(c, S[c], slot)
<1>1. \A c \in C : c \in Nat
  BY HandleType DEF IsTable
<1>2. CASE \E c \in C : Beats(offer(c), start)
  <2>1. PICK c \in C : /\ a = offer(c) /\ Beats(offer(c), start)
                       /\ \A d \in C : Beats(offer(d), start) =>
                             ~Beats(offer(d), offer(c)) /\ (d < c => Beats(offer(c), offer(d)))
    BY <1>2 DEF IsWinner
  <2>2. PICK e \in C : /\ b = offer(e) /\ Beats(offer(e), start)
                       /\ \A d \in C : Beats(offer(d), start) =>
                             ~Beats(offer(d), offer(e)) /\ (d < e => Beats(offer(e), offer(d)))
    BY <1>2 DEF IsWinner
  <2>3. ~(c < e) /\ ~(e < c)
    BY <2>1, <2>2
  <2>4. c = e
    BY <1>1, <2>3
  <2> QED
    BY <2>1, <2>2, <2>4
<1>3. CASE ~\E c \in C : Beats(offer(c), start)
  BY <1>3 DEF IsWinner
<1> QED
  BY <1>2, <1>3

LEMMA WinnerNext ==
    ASSUME NEW S, IsTable(S), NEW slot \in Slots, NEW C \in SUBSET DOMAIN S,
           NEW start \in SlotOutput, NEW out, IsWinner(out, C, S, slot, start),
           NEW k \in DOMAIN S, \A c \in C : c < k
    PROVE  IsWinner(IF Beats(Won(k, S[k], slot), out) THEN Won(k, S[k], slot) ELSE out,
                    C \cup {k}, S, slot, start)
<1> DEFINE offer(c) == Won(c, S[c], slot)
           D == C \cup {k}
<1>0. /\ \A d \in D : d \in Nat /\ offer(d) \in SlotOutput
      /\ k \in D /\ C \subseteq D
  BY WonType, HandleType DEF IsTable
<1>1. out \in SlotOutput /\ (out = start \/ Beats(out, start))
  BY <1>0 DEF IsWinner
<1>2. CASE Beats(offer(k), out)
  <2>1. Beats(offer(k), start)
    BY <1>0, <1>1, <1>2, BeatsOrder
  <2>2. ASSUME NEW d \in C, Beats(offer(d), start)
        PROVE  ~Beats(offer(d), offer(k)) /\ Beats(offer(k), offer(d))
    <3>1. ~Beats(offer(d), out)
      BY <2>2 DEF IsWinner
    <3>2. Beats(offer(k), offer(d))
      <4>1. SUFFICES ASSUME ~Beats(offer(k), offer(d)) PROVE FALSE
        OBVIOUS
      <4>2. Beats(offer(d), out)
        BY <1>0, <1>1, <1>2, <4>1, BeatsOrder
      <4> QED
        BY <3>1, <4>2
    <3> QED
      BY <1>0, <3>2, BeatsOrder
  <2>3. ~Beats(offer(k), offer(k))
    BY <1>0, BeatsOrder
  <2>4. IsWinner(offer(k), D, S, slot, start)
    <3>1. \A d \in D : Beats(offer(d), start) =>
              ~Beats(offer(d), offer(k)) /\ (d < k => Beats(offer(k), offer(d)))
      BY <1>0, <2>2, <2>3
    <3> QED
      BY <1>0, <2>1, <3>1 DEF IsWinner
  <2> QED
    BY <1>2, <2>4
<1>3. CASE ~Beats(offer(k), out)
  <2>1. CASE out = start /\ \A d \in C : ~Beats(offer(d), start)
    BY <1>3, <2>1 DEF IsWinner
  <2>2. CASE \E c \in C :
                /\ out = offer(c)
                /\ Beats(out, start)
                /\ \A d \in C : Beats(offer(d), start) =>
                      ~Beats(offer(d), out) /\ (d < c => Beats(out, offer(d)))
    <3>1. PICK c \in C :
                /\ out = offer(c)
                /\ Beats(out, start)
                /\ \A d \in C : Beats(offer(d), start) =>
                      ~Beats(offer(d), out) /\ (d < c => Beats(out, offer(d)))
      BY <2>2
    <3>2. ~(k < c)
      BY <1>0
    <3>3. \A d \in D : Beats(offer(d), start) =>
              ~Beats(offer(d), out) /\ (d < c => Beats(out, offer(d)))
      BY <1>3, <3>1, <3>2
    <3>4. IsWinner(out, D, S, slot, start)
      BY <1>0, <3>1, <3>3 DEF IsWinner
    <3> QED
      BY <1>3, <3>4
  <2> QED
    BY <2>1, <2>2 DEF IsWinner
<1> QED
  BY <1>2, <1>3

\* The scan that stands for the loop of merge_new_priorities is its result.
LEMMA ScanIsLoop ==
    ASSUME NEW S, IsTable(S), NEW slot \in Slots, NEW h, NEW start \in SlotOutput
    PROVE  Scan(h, S, slot, start) = LoopScan(h, S, slot, start)
<1> DEFINE out == CHOOSE f : IsLoop(f, Bound, h, S, slot, start)
           C(n) == {c \in DOMAIN S \ {h} : c < n}
<1>1. IsLoop(out, Bound, h, S, slot, start)
  BY LoopExists, BoundOfHandles
<1>2. LoopScan(h, S, slot, start) = out[Bound]
  BY DEF LoopScan, IsLoop
<1> HIDE DEF out
<1>3. /\ out[0] = start
      /\ \A n \in 1..Bound : out[n] =
            IF n - 1 \in DOMAIN S \ {h} /\ Beats(Won(n - 1, S[n - 1], slot), out[n - 1])
              THEN Won(n - 1, S[n - 1], slot) ELSE out[n - 1]
  <2> DEFINE Step(f, n) == IF n = 0 THEN start
              ELSE IF n - 1 \in DOMAIN S \ {h} /\ Beats(Won(n - 1, S[n - 1], slot), f[n - 1])
                THEN Won(n - 1, S[n - 1], slot)
              ELSE f[n - 1]
  <2>1. out = [n \in 0..Bound |-> Step(out, n)]
    BY <1>1 DEF IsLoop
  <2>2. out[0] = start
    BY <2>1, BoundOfHandles
  <2>3. ASSUME NEW n \in 1..Bound
        PROVE  out[n] =
            IF n - 1 \in DOMAIN S \ {h} /\ Beats(Won(n - 1, S[n - 1], slot), out[n - 1])
              THEN Won(n - 1, S[n - 1], slot) ELSE out[n - 1]
    <3>1. n \in 0..Bound /\ n # 0
      BY BoundOfHandles
    <3>2. out[n] = Step(out, n)
      BY <2>1, <3>1
    <3> QED
      BY <3>1, <3>2
  <2> QED
    BY <2>2, <2>3
<1>4. \A c \in DOMAIN S : c \in Nat /\ c + 1 \in 1..Bound
  BY BoundOfHandles, HandleType DEF IsTable
<1> DEFINE Good(n) == IsWinner(out[n], C(n), S, slot, start)
           T == {n \in 0..Bound : ~Good(n)}
<1>5. Good(0)
  <2>1. C(0) = {}
    BY <1>4
  <2> QED
    BY <1>3, <2>1 DEF IsWinner
<1>6. ASSUME NEW n \in 1..Bound, Good(n - 1) PROVE Good(n)
  <2>0. n \in Nat /\ n - 1 \in Nat
    BY BoundOfHandles
  <2>1. CASE n - 1 \in DOMAIN S \ {h}
    <3>1. C(n) = C(n - 1) \cup {n - 1}
      BY <1>4, <2>0, <2>1
    <3>2. C(n - 1) \in SUBSET DOMAIN S /\ \A c \in C(n - 1) : c < n - 1
      OBVIOUS
    <3>3. out[n] = IF Beats(Won(n - 1, S[n - 1], slot), out[n - 1])
                     THEN Won(n - 1, S[n - 1], slot) ELSE out[n - 1]
      BY <1>3, <2>1
    <3>4. PICK k : k = n - 1
      OBVIOUS
    <3>5. PICK B : B = C(n - 1)
      OBVIOUS
    <3>6. IsWinner(IF Beats(Won(k, S[k], slot), out[k]) THEN Won(k, S[k], slot) ELSE out[k],
                   B \cup {k}, S, slot, start)
      <4>1. IsWinner(out[k], B, S, slot, start) /\ B \in SUBSET DOMAIN S
        BY <1>6, <3>2, <3>4, <3>5
      <4>2. k \in DOMAIN S /\ \A c \in B : c < k
        BY <2>1, <3>2, <3>4, <3>5
      <4> HIDE DEF C
      <4> QED
        BY <4>1, <4>2, WinnerNext
    <3> QED
      BY <3>1, <3>3, <3>4, <3>5, <3>6
  <2>2. CASE n - 1 \notin DOMAIN S \ {h}
    <3>1. C(n) = C(n - 1)
      BY <1>4, <2>0, <2>2
    <3>2. out[n] = out[n - 1]
      BY <1>3, <2>2
    <3> QED
      BY <1>6, <3>1, <3>2
  <2> QED
    BY <2>1, <2>2
<1> HIDE DEF Good
<1>7. T = {}
  <2> SUFFICES ASSUME T # {} PROVE FALSE
    OBVIOUS
  <2>0. T \in SUBSET Nat
    BY BoundOfHandles
  <2>1. PICK n \in T : \A m \in T : n <= m
    <3> HIDE DEF T
    <3> QED
      BY <2>0, LeastExists
  <2>2. n # 0 /\ n \in 1..Bound /\ n - 1 \in 0..Bound
    BY <1>5, <2>1, BoundOfHandles
  <2>3. Good(n - 1)
    BY <2>1, <2>2
  <2> QED
    BY <1>6, <2>1, <2>2, <2>3
<1>8. C(Bound) = DOMAIN S \ {h}
  BY <1>4, BoundOfHandles
<1>9. IsWinner(out[Bound], DOMAIN S \ {h}, S, slot, start)
  <2>1. Good(Bound)
    BY <1>7, BoundOfHandles
  <2> QED
    BY <1>8, <2>1 DEF Good
<1>10. DOMAIN S \ {h} \in SUBSET DOMAIN S
  OBVIOUS
<1>11. Scan(h, S, slot, start) = out[Bound]
  BY <1>9, <1>10, ScanIsWinner, WinnerIsOne
<1> QED
  BY <1>2, <1>11

\* The outputs that the loop of update_levels_multi_source goes through.
IsLevelLoop(out, k, h, S, slot, start) ==
    out = [n \in 0..k |->
            IF n = 0 THEN start
            ELSE IF /\ n - 1 \in DOMAIN S \ {h}
                    /\ S[n - 1].address_priority[slot] = out[n - 1].pap
                    /\ S[n - 1].levels[slot] > out[n - 1].level
              THEN [out[n - 1] EXCEPT !.level = S[n - 1].levels[slot], !.owner = n - 1]
            ELSE out[n - 1]]

LEMMA LevelLoopExists ==
    ASSUME NEW h, NEW S, NEW slot, NEW start, NEW N \in Nat
    PROVE  \E out : IsLevelLoop(out, N, h, S, slot, start)
<1> DEFINE Is(f, k) == IsLevelLoop(f, k, h, S, slot, start)
           T == {k \in Nat : ~\E f : Is(f, k)}
           Wins(n, o) == /\ n - 1 \in DOMAIN S \ {h}
                         /\ S[n - 1].address_priority[slot] = o.pap
                         /\ S[n - 1].levels[slot] > o.level
           Of(n, o) == [o EXCEPT !.level = S[n - 1].levels[slot], !.owner = n - 1]
           Step(f, n) == IF n = 0 THEN start
              ELSE IF Wins(n, f[n - 1]) THEN Of(n, f[n - 1]) ELSE f[n - 1]
<1> SUFFICES T = {}
  OBVIOUS
<1> SUFFICES ASSUME T # {} PROVE FALSE
  OBVIOUS
<1>1. PICK k \in T : \A y \in T : k <= y
  BY LeastExists
<1>2. k # 0
  <2> DEFINE f0 == [n \in 0..0 |-> start]
  <2>1. ASSUME NEW n \in 0..0 PROVE Step(f0, n) = start
    <3> HIDE DEF Wins, Of, f0
    <3>1. n = 0
      OBVIOUS
    <3> QED
      BY <3>1
  <2>2. f0 = [n \in 0..0 |-> Step(f0, n)]
    <3> HIDE DEF Step
    <3> QED
      BY <2>1
  <2>3. Is(f0, 0)
    BY <2>2 DEF IsLevelLoop
  <2> QED
    BY <2>3, <1>1
<1>3. PICK f : Is(f, k - 1)
  BY <1>1, <1>2
<1> DEFINE last == IF Wins(k, f[k - 1]) THEN Of(k, f[k - 1]) ELSE f[k - 1]
           g == [n \in 0..k |-> IF n = k THEN last ELSE f[n]]
<1>4. Is(g, k)
  <2>1. f = [n \in 0..(k - 1) |-> Step(f, n)]
    BY <1>3 DEF IsLevelLoop
  <2> HIDE DEF last, Wins, Of
  <2>2. ASSUME NEW n \in 0..k PROVE g[n] = Step(g, n)
    <3>1. CASE n = k
      <4>1. g[n] = last /\ g[n - 1] = f[k - 1]
        BY <3>1, <1>2
      <4> QED
        BY <4>1, <3>1, <1>2 DEF last
    <3>2. CASE n # k
      <4>1. n \in 0..(k - 1) /\ g[n] = f[n] /\ (n # 0 => g[n - 1] = f[n - 1])
        BY <3>2
      <4>2. f[n] = Step(f, n)
        BY <4>1, <2>1
      <4> QED
        BY <4>1, <4>2
    <3> QED
      BY <3>1, <3>2
  <2>3. g = [n \in 0..k |-> Step(g, n)]
    BY <2>2
  <2> QED
    BY <2>3 DEF IsLevelLoop, Wins, Of
<1> QED
  BY <1>4, <1>1

\* A source that the level loop may choose, and the output it makes.
IsRival(c, S, slot, start) ==
    S[c].address_priority[slot] = start.pap /\ S[c].levels[slot] > start.level

WithLevelOf(c, S, slot, start) ==
    [start EXCEPT !.level = S[c].levels[slot], !.owner = c]

\* An output is that of the first rival in C of the highest level, or the one the
\* scan starts with.
IsTop(out, C, S, slot, start) ==
    \/ out = start /\ \A d \in C : ~IsRival(d, S, slot, start)
    \/ \E c \in C :
          /\ IsRival(c, S, slot, start)
          /\ out = WithLevelOf(c, S, slot, start)
          /\ \A d \in C : IsRival(d, S, slot, start) =>
                /\ S[d].levels[slot] <= S[c].levels[slot]
                /\ d < c => S[d].levels[slot] < S[c].levels[slot]

LEMMA LevelsAreNumbers ==
    ASSUME NEW S, IsTable(S), NEW slot \in Slots, NEW c \in DOMAIN S
    PROVE  c \in Nat /\ S[c].levels[slot] \in 0..MaxLevel
BY WonType, HandleType DEF IsTable, Level

LEMMA ScanIsTop ==
    ASSUME NEW S, IsTable(S), NEW slot \in Slots, NEW h, NEW start
    PROVE  IsTop(ScanLevels(h, S, slot, start), DOMAIN S \ {h}, S, slot, start)
<1> DEFINE level(c) == S[c].levels[slot]
           rivals == {c \in DOMAIN S \ {h} :
                        S[c].address_priority[slot] = start.pap /\ level(c) > start.level}
           top == {c \in rivals : \A d \in rivals : level(d) <= level(c)}
           first == CHOOSE c \in top : \A d \in top : c <= d
<1>1. ScanLevels(h, S, slot, start)
        = IF rivals = {} THEN start
          ELSE [start EXCEPT !.level = level(first), !.owner = first]
  BY DEF ScanLevels
<1>2. CASE rivals = {}
  <2>1. \A d \in DOMAIN S \ {h} : ~IsRival(d, S, slot, start)
    BY <1>2 DEF IsRival
  <2> QED
    BY <1>1, <1>2, <2>1 DEF IsTop
<1>3. CASE rivals # {}
  <2>0. \A d \in rivals : d \in Nat /\ level(d) \in 0..MaxLevel
    BY LevelsAreNumbers
  <2>1. top # {}
    <3> DEFINE L == {level(d) : d \in rivals}
    <3>1. L \in SUBSET (0..MaxLevel) /\ L # {}
      <4> HIDE DEF rivals, level
      <4> QED
        BY <1>3, <2>0
    <3>2. PICK l \in L : \A m \in L : m <= l
      <4> HIDE DEF L
      <4> QED
        BY <3>1, GreatestExists, MergerAssumption
    <3> HIDE DEF rivals, level
    <3> QED
      BY <3>2
  <2>2. top \in SUBSET Nat
    <3> HIDE DEF rivals, level
    <3> QED
      BY <2>0
  <2>3. first \in top /\ \A d \in top : first <= d
    <3> HIDE DEF top
    <3> QED
      BY <2>1, <2>2, LeastExists
  <2> HIDE DEF first
  <2>4. ASSUME NEW d \in rivals
        PROVE  level(d) <= level(first) /\ (d < first => level(d) < level(first))
    <3>1. level(d) <= level(first) /\ first \in rivals
      BY <2>3
    <3>2. ASSUME d < first PROVE level(d) < level(first)
      <4>1. d \notin top
        <5> HIDE DEF top
        <5> QED
          BY <2>0, <2>3, <3>1, <3>2
      <4>2. PICK e \in rivals : ~(level(e) <= level(d))
        BY <4>1
      <4>3. level(e) <= level(first)
        BY <2>3
      <4> HIDE DEF rivals, level
      <4> QED
        BY <2>0, <3>1, <4>2, <4>3
    <3> QED
      BY <3>1, <3>2
  <2>5. first \in DOMAIN S \ {h} /\ IsRival(first, S, slot, start)
    BY <2>3 DEF IsRival
  <2>6. \A d \in DOMAIN S \ {h} : IsRival(d, S, slot, start) =>
            level(d) <= level(first) /\ (d < first => level(d) < level(first))
    BY <2>4 DEF IsRival
  <2>7. ScanLevels(h, S, slot, start) = WithLevelOf(first, S, slot, start)
    BY <1>1, <1>3 DEF WithLevelOf
  <2> QED
    BY <2>5, <2>6, <2>7 DEF IsTop
<1> QED
  BY <1>2, <1>3

LEMMA TopIsOne ==
    ASSUME NEW S, IsTable(S), NEW slot \in Slots, NEW C \in SUBSET DOMAIN S,
           NEW start, NEW a, IsTop(a, C, S, slot, start), NEW b, IsTop(b, C, S, slot, start)
    PROVE  a = b
<1> DEFINE level(c) == S[c].levels[slot]
<1>1. \A c \in C : c \in Nat /\ level(c) \in Nat
  BY LevelsAreNumbers
<1>2. CASE \E c \in C : IsRival(c, S, slot, start)
  <2>1. PICK c \in C : /\ a = WithLevelOf(c, S, slot, start) /\ IsRival(c, S, slot, start)
                       /\ \A d \in C : IsRival(d, S, slot, start) =>
                             level(d) <= level(c) /\ (d < c => level(d) < level(c))
    BY <1>2 DEF IsTop
  <2>2. PICK e \in C : /\ b = WithLevelOf(e, S, slot, start) /\ IsRival(e, S, slot, start)
                       /\ \A d \in C : IsRival(d, S, slot, start) =>
                             level(d) <= level(e) /\ (d < e => level(d) < level(e))
    BY <1>2 DEF IsTop
  <2> HIDE DEF level
  <2>3. c = e
    BY <1>1, <2>1, <2>2
  <2> QED
    BY <2>1, <2>2, <2>3
<1>3. CASE ~\E c \in C : IsRival(c, S, slot, start)
  BY <1>3 DEF IsTop
<1> QED
  BY <1>2, <1>3

LEMMA TopNext ==
    ASSUME NEW S, IsTable(S), NEW slot \in Slots, NEW C \in SUBSET DOMAIN S,
           NEW start \in SlotOutput, NEW out, IsTop(out, C, S, slot, start),
           NEW k \in DOMAIN S, \A c \in C : c < k
    PROVE  IsTop(IF S[k].address_priority[slot] = out.pap /\ S[k].levels[slot] > out.level
                   THEN [out EXCEPT !.level = S[k].levels[slot], !.owner = k] ELSE out,
                 C \cup {k}, S, slot, start)
<1> DEFINE level(c) == S[c].levels[slot]
           prio(c) == S[c].address_priority[slot]
           D == C \cup {k}
           new == [out EXCEPT !.level = level(k), !.owner = k]
<1>1. /\ \A c \in D : c \in Nat /\ level(c) \in Nat
      /\ start.level \in Nat
  BY LevelsAreNumbers, OutputType
<1>2. start = [level |-> start.level, owner |-> start.owner, pap |-> start.pap]
  BY DEF SlotOutput
<1>3. CASE out = start /\ \A d \in C : ~IsRival(d, S, slot, start)
  <2>1. CASE IsRival(k, S, slot, start)
    <3>1. prio(k) = out.pap /\ level(k) > out.level
      BY <1>3, <2>1 DEF IsRival
    <3>2. new = WithLevelOf(k, S, slot, start)
      BY <1>3 DEF WithLevelOf
    <3>3. IsTop(new, D, S, slot, start)
      BY <1>1, <1>3, <2>1, <3>2 DEF IsTop
    <3> QED
      BY <3>1, <3>3
  <2>2. CASE ~IsRival(k, S, slot, start)
    <3>1. ~(prio(k) = out.pap /\ level(k) > out.level)
      BY <1>3, <2>2 DEF IsRival
    <3>2. IsTop(out, D, S, slot, start)
      BY <1>3, <2>2 DEF IsTop
    <3> QED
      BY <3>1, <3>2
  <2> QED
    BY <2>1, <2>2
<1>4. ASSUME NEW c \in C, IsRival(c, S, slot, start), out = WithLevelOf(c, S, slot, start),
             \A d \in C : IsRival(d, S, slot, start) =>
                level(d) <= level(c) /\ (d < c => level(d) < level(c))
      PROVE  IsTop(IF prio(k) = out.pap /\ level(k) > out.level THEN new ELSE out,
                   D, S, slot, start)
  <2>1. out = [level |-> level(c), owner |-> c, pap |-> start.pap]
    <3> DEFINE l == level(c)
    <3>1. out = [start EXCEPT !.level = l, !.owner = c]
      BY <1>4 DEF WithLevelOf
    <3> HIDE DEF l
    <3>2. out = [level |-> l, owner |-> c, pap |-> start.pap]
      BY <1>2, <3>1
    <3> QED
      BY <3>2 DEF l
  <2>2. out.level = level(c) /\ out.pap = start.pap
    BY <2>1
  <2>3. level(c) > start.level
    BY <1>4 DEF IsRival
  <2>4. CASE prio(k) = out.pap /\ level(k) > out.level
    <3>1. IsRival(k, S, slot, start)
      BY <1>1, <2>2, <2>3, <2>4 DEF IsRival
    <3>2. new = WithLevelOf(k, S, slot, start)
      <4> DEFINE l == level(k)
      <4>1. new = [out EXCEPT !.level = l, !.owner = k]
        OBVIOUS
      <4>2. WithLevelOf(k, S, slot, start) = [start EXCEPT !.level = l, !.owner = k]
        BY DEF WithLevelOf
      <4> HIDE DEF l, new
      <4>3. new = [level |-> l, owner |-> k, pap |-> start.pap]
        BY <2>1, <4>1
      <4>4. WithLevelOf(k, S, slot, start) = [level |-> l, owner |-> k, pap |-> start.pap]
        BY <1>2, <4>2
      <4> QED
        BY <4>3, <4>4
    <3>3. ASSUME NEW d \in D, IsRival(d, S, slot, start)
          PROVE  level(d) <= level(k) /\ (d < k => level(d) < level(k))
      <4>1. CASE d = k
        BY <1>1, <4>1
      <4>2. CASE d \in C
        <5>1. level(d) <= level(c)
          BY <1>4, <3>3, <4>2
        <5> HIDE DEF level
        <5> QED
          BY <1>1, <2>2, <2>4, <5>1
      <4> QED
        BY <4>1, <4>2
    <3>4. IsTop(new, D, S, slot, start)
      BY <3>1, <3>2, <3>3 DEF IsTop
    <3> QED
      BY <2>4, <3>4
  <2>5. CASE ~(prio(k) = out.pap /\ level(k) > out.level)
    <3>1. ASSUME NEW d \in D, IsRival(d, S, slot, start)
          PROVE  level(d) <= level(c) /\ (d < c => level(d) < level(c))
      <4>1. CASE d = k
        <5>1. prio(k) = out.pap /\ ~(d < c)
          BY <1>1, <2>2, <3>1, <4>1 DEF IsRival
        <5> HIDE DEF level
        <5> QED
          BY <1>1, <2>2, <2>5, <4>1, <5>1
      <4>2. CASE d \in C
        BY <1>4, <3>1, <4>2
      <4> QED
        BY <4>1, <4>2
    <3>2. IsTop(out, D, S, slot, start)
      BY <1>4, <3>1 DEF IsTop
    <3> QED
      BY <2>5, <3>2
  <2> QED
    BY <2>4, <2>5
<1> QED
  BY <1>3, <1>4 DEF IsTop

\* The scan that stands for the loop of update_levels_multi_source is its result.
LEMMA ScanLevelsIsLoop ==
    ASSUME NEW S, IsTable(S), NEW slot \in Slots, NEW h, NEW start \in SlotOutput
    PROVE  ScanLevels(h, S, slot, start) = LoopScanLevels(h, S, slot, start)
<1> DEFINE out == CHOOSE f : IsLevelLoop(f, Bound, h, S, slot, start)
           C(n) == {c \in DOMAIN S \ {h} : c < n}
           Next1(k, o) == IF S[k].address_priority[slot] = o.pap /\ S[k].levels[slot] > o.level
                            THEN [o EXCEPT !.level = S[k].levels[slot], !.owner = k] ELSE o
<1>1. IsLevelLoop(out, Bound, h, S, slot, start)
  BY LevelLoopExists, BoundOfHandles
<1>2. LoopScanLevels(h, S, slot, start) = out[Bound]
  BY DEF LoopScanLevels, IsLevelLoop
<1> HIDE DEF out
<1>3. /\ out[0] = start
      /\ \A n \in 1..Bound :
            out[n] = IF n - 1 \in DOMAIN S \ {h} THEN Next1(n - 1, out[n - 1]) ELSE out[n - 1]
  <2> DEFINE Step(f, n) == IF n = 0 THEN start
              ELSE IF /\ n - 1 \in DOMAIN S \ {h}
                      /\ S[n - 1].address_priority[slot] = f[n - 1].pap
                      /\ S[n - 1].levels[slot] > f[n - 1].level
                THEN [f[n - 1] EXCEPT !.level = S[n - 1].levels[slot], !.owner = n - 1]
              ELSE f[n - 1]
  <2>1. out = [n \in 0..Bound |-> Step(out, n)]
    BY <1>1 DEF IsLevelLoop
  <2>2. out[0] = start
    <3>1. Step(out, 0) = start
      <4> DEFINE wins(n) == /\ n - 1 \in DOMAIN S \ {h}
                            /\ S[n - 1].address_priority[slot] = out[n - 1].pap
                            /\ S[n - 1].levels[slot] > out[n - 1].level
                 dimmed(n) == [out[n - 1] EXCEPT !.level = S[n - 1].levels[slot], !.owner = n - 1]
      <4>1. ASSUME NEW n PROVE Step(out, n) = IF n = 0 THEN start
                                              ELSE IF wins(n) THEN dimmed(n) ELSE out[n - 1]
        OBVIOUS
      <4> HIDE DEF wins, dimmed, Step
      <4> QED
        BY <4>1
    <3>2. 0 \in 0..Bound
      BY BoundOfHandles
    <3> HIDE DEF Step
    <3> QED
      BY <2>1, <3>1, <3>2
  <2>3. ASSUME NEW n \in 1..Bound
        PROVE  out[n] = IF n - 1 \in DOMAIN S \ {h} THEN Next1(n - 1, out[n - 1]) ELSE out[n - 1]
    <3>1. n \in 0..Bound /\ n # 0
      BY BoundOfHandles
    <3>2. out[n] = Step(out, n)
      <4> HIDE DEF Step
      <4> QED
        BY <2>1, <3>1
    <3> QED
      BY <3>1, <3>2
  <2> QED
    BY <2>2, <2>3
<1>4. \A c \in DOMAIN S : c \in Nat /\ c + 1 \in 1..Bound
  BY BoundOfHandles, HandleType DEF IsTable
<1> DEFINE Good(n) == IsTop(out[n], C(n), S, slot, start)
           T == {n \in 0..Bound : ~Good(n)}
<1>5. Good(0)
  <2>1. C(0) = {}
    BY <1>4
  <2> QED
    BY <1>3, <2>1 DEF IsTop
<1>6. ASSUME NEW n \in 1..Bound, Good(n - 1) PROVE Good(n)
  <2>0. n \in Nat /\ n - 1 \in Nat
    BY BoundOfHandles
  <2>1. CASE n - 1 \in DOMAIN S \ {h}
    <3>1. C(n) = C(n - 1) \cup {n - 1}
      BY <1>4, <2>0, <2>1
    <3>2. C(n - 1) \in SUBSET DOMAIN S /\ \A c \in C(n - 1) : c < n - 1
      OBVIOUS
    <3>4. PICK k : k = n - 1
      OBVIOUS
    <3>5. PICK B : B = C(n - 1)
      OBVIOUS
    <3>3. out[n] = Next1(k, out[k])
      BY <1>3, <2>1, <3>4
    <3>6. IsTop(Next1(k, out[k]), B \cup {k}, S, slot, start)
      <4>1. IsTop(out[k], B, S, slot, start) /\ B \in SUBSET DOMAIN S
        BY <1>6, <3>2, <3>4, <3>5
      <4>2. k \in DOMAIN S /\ \A c \in B : c < k
        BY <2>1, <3>2, <3>4, <3>5
      <4> HIDE DEF C
      <4> QED
        BY <4>1, <4>2, TopNext
    <3> QED
      BY <3>1, <3>3, <3>4, <3>5, <3>6
  <2>2. CASE n - 1 \notin DOMAIN S \ {h}
    <3>1. C(n) = C(n - 1)
      BY <1>4, <2>0, <2>2
    <3>2. out[n] = out[n - 1]
      BY <1>3, <2>2
    <3> QED
      BY <1>6, <3>1, <3>2
  <2> QED
    BY <2>1, <2>2
<1> HIDE DEF Good
<1>7. T = {}
  <2> SUFFICES ASSUME T # {} PROVE FALSE
    OBVIOUS
  <2>0. T \in SUBSET Nat
    BY BoundOfHandles
  <2>1. PICK n \in T : \A m \in T : n <= m
    <3> HIDE DEF T
    <3> QED
      BY <2>0, LeastExists
  <2>2. n # 0 /\ n \in 1..Bound /\ n - 1 \in 0..Bound
    BY <1>5, <2>1, BoundOfHandles
  <2>3. Good(n - 1)
    BY <2>1, <2>2
  <2> QED
    BY <1>6, <2>1, <2>2, <2>3
<1>8. C(Bound) = DOMAIN S \ {h}
  BY <1>4, BoundOfHandles
<1>9. IsTop(out[Bound], DOMAIN S \ {h}, S, slot, start)
  <2>1. Good(Bound)
    BY <1>7, BoundOfHandles
  <2> QED
    BY <1>8, <2>1 DEF Good
<1>10. DOMAIN S \ {h} \in SUBSET DOMAIN S
  OBVIOUS
<1>11. ScanLevels(h, S, slot, start) = out[Bound]
  BY <1>9, <1>10, ScanIsTop, TopIsOne
<1> QED
  BY <1>2, <1>11

\* A merger that is not there has no sources, and its buffers hold outputs.
NoSourcesInv ==
    ~created => IsTable(source_states) /\ output \in [Slots -> SlotOutput]

LEMMA NoSourcesInvHolds == MergersSpec => []NoSourcesInv
<1>1. MergersInit => NoSourcesInv
  <2> SUFFICES ASSUME MergersInit PROVE NoSourcesInv
    OBVIOUS
  <2>1. output = [slot \in Slots |-> Unsourced] /\ DOMAIN source_states = {}
    BY DEF MergersInit, Init
  <2>2. source_states \in [DOMAIN source_states -> SourceState]
    BY <2>1 DEF MergersInit, Init
  <2> QED
    BY <2>1, <2>2, UnsourcedType DEF NoSourcesInv, IsTable
<1>2. CreatedInv /\ NoSourcesInv /\ [MergersNext]_mergerVars => NoSourcesInv'
  <2> SUFFICES ASSUME CreatedInv, NoSourcesInv, [MergersNext]_mergerVars PROVE NoSourcesInv'
    OBVIOUS
  <2>1. CASE MergerCreate
    BY <2>1 DEF MergerCreate, CreateSacnDmxMerger, NoSourcesInv
  <2>2. CASE MergerDestroy
    <3>1. created /\ source_states' = << >> /\ output' = output
      BY <2>2 DEF MergerDestroy, DestroySacnDmxMerger
    <3>2. output \in [Slots -> SlotOutput]
      BY <3>1, InvImplies DEF CreatedInv, TypeOK
    <3>3. DOMAIN source_states' = {} /\ source_states' \in [{} -> SourceState]
      BY <3>1
    <3> QED
      BY <3>1, <3>2, <3>3 DEF NoSourcesInv, IsTable
  <2>3. ASSUME NEW h \in Handles,
               \/ MergerAddSource(h) \/ MergerRemoveSource(h) \/ MergerUpdateLevels(h)
               \/ MergerUpdatePap(h) \/ MergerUpdateWithoutSlots(h)
               \/ MergerUpdateUniversePriority(h) \/ MergerRemovePap(h)
        PROVE  NoSourcesInv'
    <3>1. created /\ created' = created
      BY <2>3 DEF MergerAddSource, AddSacnDmxMergerSource, LookupState, MergerRemoveSource,
         MergerUpdateLevels, MergerUpdatePap, MergerUpdateWithoutSlots,
         MergerUpdateUniversePriority, MergerRemovePap
    <3> QED
      BY <3>1 DEF NoSourcesInv
  <2>4. CASE UNCHANGED mergerVars
    BY <2>4 DEF mergerVars, vars, NoSourcesInv, IsTable
  <2> QED
    BY <2>1, <2>2, <2>3, <2>4 DEF MergersNext
<1> QED
  BY <1>1, <1>2, CreatedInvHolds, PTL DEF MergersSpec

\* When the owner of a slot gets weaker, the source that the operators choose is
\* the one the while loops of merge_new_priorities and update_levels_multi_source
\* end with, for any handles.
THEOREM MergersScansAreLoops == MergersSpec => []ScansAreLoops
<1>1. CreatedInv /\ NoSourcesInv => ScansAreLoops
  <2> SUFFICES ASSUME CreatedInv, NoSourcesInv, NEW slot \in Slots
               PROVE  LET out == output[slot]
                          S == source_states
                          lower == {Weakened(out, pap) : pap \in {p \in Priority : p < out.pap}}
                          dimmer == {[out EXCEPT !.level = level] :
                                        level \in {l \in Level : l < out.level}}
                      IN  /\ \A start \in lower :
                                Scan(out.owner, S, slot, start)
                                  = LoopScan(out.owner, S, slot, start)
                          /\ \A start \in dimmer :
                                ScanLevels(out.owner, S, slot, start)
                                  = LoopScanLevels(out.owner, S, slot, start)
    BY DEF ScansAreLoops
  <2>1. IsTable(source_states) /\ output[slot] \in SlotOutput
    <3>1. CASE created
      BY <3>1, InvImplies DEF CreatedInv, Inv, IInv, TypeOK
    <3>2. CASE ~created
      BY <3>2 DEF NoSourcesInv
    <3> QED
      BY <3>1, <3>2
  <2>2. ASSUME NEW pap \in Priority PROVE Weakened(output[slot], pap) \in SlotOutput
    BY <2>1, UnsourcedType DEF Weakened, SlotOutput
  <2>3. ASSUME NEW level \in Level PROVE [output[slot] EXCEPT !.level = level] \in SlotOutput
    BY <2>1 DEF SlotOutput
  <2> QED
    BY <2>1, <2>2, <2>3, ScanIsLoop, ScanLevelsIsLoop
<1> QED
  BY <1>1, CreatedInvHolds, NoSourcesInvHolds, PTL
=============================================================================
