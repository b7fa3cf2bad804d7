----------------------- MODULE NetworkInterfacesProofs -----------------------
(***************************************************************************)
(* Theorems about NetworkInterfaces.                                       *)
(***************************************************************************)
EXTENDS NetworkInterfaces, FiniteSetTheorems, SequenceTheorems, WellFoundedInduction, TLAPS

\* Every set of numbers has a least one.
LEMMA LeastNumber ==
  ASSUME NEW T, T \subseteq Nat, T # {}
  PROVE  \E x \in T : \A y \in T : ~(y < x)
<1>1. \E x \in T : \A y \in T : <<y, x>> \notin OpToRel(<, Nat)
  BY WFMin, NatLessThanWellFounded
<1> QED
  BY <1>1 DEF OpToRel

\* The states that apply_netint_config goes through, up to the interface at n.
IsApplied(f, n, state, config, list, works) ==
    f = [i \in 0..n |->
           IF i = 0 THEN state
           ELSE IF i \in Selected(config, list)
             THEN TestNetint(f[i - 1], list[i], works[i])
           ELSE f[i - 1]]

LEMMA AppliedExists ==
  ASSUME NEW state, NEW config, NEW list, NEW works, NEW n \in Nat
  PROVE  \E f : IsApplied(f, n, state, config, list, works)
<1> DEFINE Is(f, k) == IsApplied(f, k, state, config, list, works)
           T == {k \in Nat : ~\E f : Is(f, k)}
<1> SUFFICES T = {}
  OBVIOUS
<1> SUFFICES ASSUME T # {} PROVE FALSE
  OBVIOUS
<1>1. PICK k \in T : \A y \in T : ~(y < k)
  BY LeastNumber
<1>2. k # 0
  <2>1. Is([i \in 0..0 |-> state], 0)
    BY DEF IsApplied
  <2> QED
    BY <2>1, <1>1
<1>3. PICK f : Is(f, k - 1)
  BY <1>1, <1>2
<1> DEFINE last == IF k \in Selected(config, list)
                     THEN TestNetint(f[k - 1], list[k], works[k]) ELSE f[k - 1]
           g == [i \in 0..k |-> IF i = k THEN last ELSE f[i]]
<1>4. Is(g, k)
  <2> DEFINE Step(h, i) == IF i = 0 THEN state
           ELSE IF i \in Selected(config, list)
             THEN TestNetint(h[i - 1], list[i], works[i])
           ELSE h[i - 1]
  <2>1. f = [i \in 0..(k - 1) |-> Step(f, i)]
    BY <1>3 DEF IsApplied
  <2> HIDE DEF last
  <2>2. ASSUME NEW i \in 0..k PROVE g[i] = Step(g, i)
    <3>1. CASE i = k
      <4>1. g[i] = last /\ g[i - 1] = f[k - 1]
        BY <3>1, <1>2
      <4> QED
        BY <4>1, <3>1, <1>2 DEF last
    <3>2. CASE i # k
      <4>1. i \in 0..(k - 1) /\ g[i] = f[i] /\ (i # 0 => g[i - 1] = f[i - 1])
        BY <3>2
      <4>2. f[i] = Step(f, i)
        BY <4>1, <2>1
      <4> QED
        BY <4>1, <4>2
    <3> QED
      BY <3>1, <3>2
  <2>3. g = [i \in 0..k |-> Step(g, i)]
    BY <2>2
  <2> QED
    BY <2>3 DEF IsApplied
<1> QED
  BY <1>4, <1>1

\* apply_netint_config tests one interface after another.
LEMMA ApplyTestsInOrder ==
  ASSUME NEW state, NEW config, NEW list, NEW works, Len(list) \in Nat
  PROVE  \E f : /\ IsApplied(f, Len(list), state, config, list, works)
                /\ ApplyNetintConfig(state, config, list, works) = f[Len(list)]
<1> DEFINE f == CHOOSE f : IsApplied(f, Len(list), state, config, list, works)
<1>1. IsApplied(f, Len(list), state, config, list, works)
  BY AppliedExists
<1>2. ApplyNetintConfig(state, config, list, works) = f[Len(list)]
  BY DEF ApplyNetintConfig, IsApplied
<1> QED
  BY <1>1, <1>2

-----------------------------------------------------------------------------
(***************************************************************************)
(* The tables as values.                                                   *)
(***************************************************************************)
Handles == Nat \ {NoSocket}
Purposes == Netints \cup IpTypes
Entries == [iface : Netints, status : BOOLEAN]

IsOpenTable(o) ==
    /\ IsFiniteSet(DOMAIN o) /\ DOMAIN o \subseteq Handles
    /\ o \in [DOMAIN o -> Purposes]

\* A state of the tables, up to the meaning of its parts.
IsState(st) ==
    /\ st = [sys |-> st.sys, send |-> st.send, unicast |-> st.unicast,
             open |-> st.open, abandoned |-> st.abandoned, ok |-> st.ok]
    /\ st.sys \in Seq(Entries)
    /\ st.send \in Seq(Nat)
    /\ st.unicast \in [IpTypes -> Nat]
    /\ IsOpenTable(st.open)

Unlisted(st) == \A i, j \in DOMAIN st.sys : st.sys[i].iface = st.sys[j].iface => i = j

\* The sockets are those of the list.
Parallel(st) ==
    /\ type = "source" => Len(st.send) = Len(st.sys)
    /\ type # "source" => st.send = << >>

Matches(st, i) ==
    IF st.sys[i].status
      THEN st.send[i] \in DOMAIN st.open /\ st.open[st.send[i]] = st.sys[i].iface
    ELSE st.send[i] = NoSocket

Unicasts(st) == \A v \in IpTypes : st.unicast[v] # NoSocket =>
    st.unicast[v] \in DOMAIN st.open /\ st.open[st.unicast[v]] = v

InTables(st) == (Range(st.send) \cup {st.unicast[v] : v \in IpTypes}) \ {NoSocket}

\* Every open socket is in a table or abandoned, and not both.
Accounted(st) ==
    /\ DOMAIN st.open = InTables(st) \cup st.abandoned
    /\ InTables(st) \cap st.abandoned = {}

Agrees(st) ==
    /\ IsState(st)
    /\ Unlisted(st)
    /\ Parallel(st)
    /\ type = "source" => \A i \in DOMAIN st.sys : Matches(st, i)
    /\ Unicasts(st)
    /\ Accounted(st)

\* There is always a handle for a new socket.
LEMMA UnusedIsNew ==
  ASSUME NEW st, IsState(st)
  PROVE  Unused(st) \in Handles /\ Unused(st) \notin DOMAIN st.open
<1> DEFINE D == DOMAIN st.open
           n == Cardinality(D) + 1
<1>1. IsFiniteSet(D) /\ Cardinality(D) \in Nat
  BY FS_CardinalityType DEF IsState, IsOpenTable
<1>2. ~(1..n \subseteq D)
  <2> SUFFICES ASSUME 1..n \subseteq D PROVE FALSE
    OBVIOUS
  <2>1. Cardinality(1..n) <= Cardinality(D)
    BY <1>1, FS_Subset
  <2>2. Cardinality(1..n) = n
    BY <1>1, FS_Interval
  <2> QED
    BY <2>1, <2>2, <1>1
<1>3. \E k \in 1..n : k \notin D
  BY <1>2
<1>4. Unused(st) \in 1..n /\ Unused(st) \notin D
  BY <1>3 DEF Unused
<1> QED
  BY <1>4, <1>1 DEF Handles, NoSocket

\* What is open after a socket has been opened.
LEMMA Opened ==
  ASSUME NEW st, IsState(st), NEW purpose \in Purposes
  PROVE  LET k == Unused(st)
             new == Open(st, purpose)
         IN  /\ new = [st EXCEPT !.open = new.open]
             /\ IsOpenTable(new.open)
             /\ DOMAIN new.open = DOMAIN st.open \cup {k}
             /\ new.open[k] = purpose
             /\ \A j \in DOMAIN st.open : new.open[j] = st.open[j]
<1> DEFINE k == Unused(st)
           new == Open(st, purpose)
           table == With(st.open, k, purpose)
<1>1. k \in Handles /\ k \notin DOMAIN st.open
  BY UnusedIsNew
<1>2. new = [st EXCEPT !.open = table] /\ new.open = table
  BY DEF Open, IsState
<1>3. table = [j \in DOMAIN st.open \cup {k} |-> IF j = k THEN purpose ELSE st.open[j]]
  BY DEF With
<1> HIDE DEF k, new, table
<1>4. DOMAIN table = DOMAIN st.open \cup {k} /\ table[k] = purpose
  BY <1>3
<1>5. \A j \in DOMAIN st.open : table[j] = st.open[j]
  BY <1>3, <1>1
<1>6. IsOpenTable(table)
  <2>1. IsFiniteSet(DOMAIN table)
    BY <1>4, FS_AddElement DEF IsState, IsOpenTable
  <2>2. table \in [DOMAIN table -> Purposes]
    BY <1>3 DEF IsState, IsOpenTable
  <2> QED
    BY <2>1, <2>2, <1>1, <1>4 DEF IsState, IsOpenTable
<1> QED
  BY <1>2, <1>4, <1>5, <1>6 DEF k, new

\* A list and its sockets that are longer by an interface.
LEMMA ListedAgrees ==
  ASSUME NEW st, Agrees(st), type = "source",
         NEW n \in Netints, \A i \in DOMAIN st.sys : st.sys[i].iface # n,
         NEW works \in BOOLEAN, NEW o, NEW k \in Nat, IsOpenTable(o),
         DOMAIN o = DOMAIN st.open \cup ({k} \ {NoSocket}),
         \A j \in DOMAIN st.open : o[j] = st.open[j],
         k \notin DOMAIN st.open,
         works => k # NoSocket /\ o[k] = n,
         ~works => k = NoSocket
  PROVE  Agrees([sys |-> Append(st.sys, [iface |-> n, status |-> works]),
                 send |-> Append(st.send, k), unicast |-> st.unicast,
                 open |-> o, abandoned |-> st.abandoned, ok |-> st.ok])
<1> DEFINE e == [iface |-> n, status |-> works]
           new == [sys |-> Append(st.sys, e), send |-> Append(st.send, k),
                   unicast |-> st.unicast, open |-> o,
                   abandoned |-> st.abandoned, ok |-> st.ok]
<1>1. e \in Entries /\ e.iface = n /\ e.status = works
  BY DEF Entries
<1>2. /\ new.sys = Append(st.sys, e) /\ new.send = Append(st.send, k)
      /\ new.unicast = st.unicast /\ new.open = o
      /\ new.abandoned = st.abandoned /\ new.ok = st.ok
      /\ new = [sys |-> new.sys, send |-> new.send, unicast |-> new.unicast,
                open |-> new.open, abandoned |-> new.abandoned, ok |-> new.ok]
  OBVIOUS
<1> HIDE DEF e, new
<1>3. st.sys \in Seq(Entries) /\ st.send \in Seq(Nat) /\ Len(st.send) = Len(st.sys)
  BY DEF Agrees, IsState, Parallel
<1> DEFINE L == Len(st.sys)
<1>4. /\ L \in Nat /\ DOMAIN st.sys = 1..L /\ DOMAIN st.send = 1..L
      /\ DOMAIN new.sys = 1..(L + 1) /\ DOMAIN new.send = 1..(L + 1)
      /\ Len(new.sys) = L + 1 /\ Len(new.send) = L + 1
      /\ new.sys \in Seq(Entries) /\ new.send \in Seq(Nat)
  BY <1>1, <1>2, <1>3
<1>5. /\ \A i \in 1..L : new.sys[i] = st.sys[i] /\ new.send[i] = st.send[i]
      /\ new.sys[L + 1] = e /\ new.send[L + 1] = k
  BY <1>1, <1>2, <1>3
<1> HIDE DEF L
<1>6. IsState(new)
  BY <1>2, <1>4 DEF Agrees, IsState
<1>7. Unlisted(new)
  <2> SUFFICES ASSUME NEW i \in 1..(L + 1), NEW j \in 1..(L + 1),
                      new.sys[i].iface = new.sys[j].iface
               PROVE  i = j
    BY <1>4 DEF Unlisted
  <2>1. CASE i \in 1..L /\ j \in 1..L
    BY <2>1, <1>5, <1>4 DEF Agrees, Unlisted
  <2>2. CASE i = L + 1 /\ j \in 1..L
    BY <2>2, <1>5, <1>4, <1>1
  <2>3. CASE i \in 1..L /\ j = L + 1
    BY <2>3, <1>5, <1>4, <1>1
  <2>4. CASE i = L + 1 /\ j = L + 1
    BY <2>4
  <2> QED
    BY <2>1, <2>2, <2>3, <2>4, <1>4
<1>8. Parallel(new)
  BY <1>4 DEF Parallel
<1>9. \A i \in DOMAIN new.sys : Matches(new, i)
  <2> SUFFICES ASSUME NEW i \in 1..(L + 1) PROVE Matches(new, i)
    BY <1>4
  <2>1. CASE i \in 1..L
    <3>1. Matches(st, i)
      BY <2>1, <1>4 DEF Agrees
    <3>2. new.sys[i] = st.sys[i] /\ new.send[i] = st.send[i]
      BY <2>1, <1>5
    <3>3. CASE st.sys[i].status
      <4>1. st.send[i] \in DOMAIN st.open /\ st.open[st.send[i]] = st.sys[i].iface
        BY <3>1, <3>3 DEF Matches
      <4>2. new.send[i] \in DOMAIN o /\ o[new.send[i]] = new.sys[i].iface
        BY <3>2, <4>1
      <4> QED
        BY <4>2, <3>3, <3>2, <1>2 DEF Matches
    <3>4. CASE ~st.sys[i].status
      BY <3>1, <3>2, <3>4 DEF Matches
    <3> QED
      BY <3>3, <3>4
  <2>2. CASE i = L + 1
    BY <2>2, <1>1, <1>2, <1>5 DEF Matches
  <2> QED
    BY <2>1, <2>2, <1>4
<1>10. Unicasts(new)
  BY <1>2 DEF Agrees, Unicasts
<1>11. Range(new.send) = Range(st.send) \cup {k}
  <2>1. 1..(L + 1) = (1..L) \cup {L + 1}
    BY <1>4
  <2> QED
    BY <2>1, <1>4, <1>5 DEF Range
<1>12. InTables(new) = InTables(st) \cup ({k} \ {NoSocket})
  BY <1>11, <1>2 DEF InTables
<1>13. Accounted(new)
  <2>1. st.abandoned \subseteq DOMAIN st.open
    BY DEF Agrees, Accounted
  <2> QED
    BY <1>12, <1>2, <2>1 DEF Agrees, Accounted
<1>14. Agrees(new)
  BY <1>6, <1>7, <1>8, <1>9, <1>10, <1>13 DEF Agrees
<1> QED
  BY <1>14 DEF new, e

\* Without sockets.
LEMMA ListedOnly ==
  ASSUME NEW st, Agrees(st), type # "source",
         NEW n \in Netints, \A i \in DOMAIN st.sys : st.sys[i].iface # n,
         NEW works \in BOOLEAN
  PROVE  Agrees([sys |-> Append(st.sys, [iface |-> n, status |-> works]),
                 send |-> st.send, unicast |-> st.unicast,
                 open |-> st.open, abandoned |-> st.abandoned, ok |-> st.ok])
<1> DEFINE e == [iface |-> n, status |-> works]
           new == [sys |-> Append(st.sys, e), send |-> st.send,
                   unicast |-> st.unicast, open |-> st.open,
                   abandoned |-> st.abandoned, ok |-> st.ok]
<1>1. e \in Entries /\ e.iface = n
  BY DEF Entries
<1>2. /\ new.sys = Append(st.sys, e) /\ new.send = st.send
      /\ new.unicast = st.unicast /\ new.open = st.open
      /\ new.abandoned = st.abandoned /\ new.ok = st.ok
      /\ new = [sys |-> new.sys, send |-> new.send, unicast |-> new.unicast,
                open |-> new.open, abandoned |-> new.abandoned, ok |-> new.ok]
  OBVIOUS
<1> HIDE DEF e, new
<1>3. st.sys \in Seq(Entries)
  BY DEF Agrees, IsState
<1> DEFINE L == Len(st.sys)
<1>4. /\ L \in Nat /\ DOMAIN st.sys = 1..L /\ DOMAIN new.sys = 1..(L + 1)
      /\ new.sys \in Seq(Entries)
      /\ \A i \in 1..L : new.sys[i] = st.sys[i]
      /\ new.sys[L + 1] = e
  BY <1>1, <1>2, <1>3
<1> HIDE DEF L
<1>5. IsState(new)
  BY <1>2, <1>4 DEF Agrees, IsState
<1>6. Unlisted(new)
  <2> SUFFICES ASSUME NEW i \in 1..(L + 1), NEW j \in 1..(L + 1),
                      new.sys[i].iface = new.sys[j].iface
               PROVE  i = j
    BY <1>4 DEF Unlisted
  <2>1. CASE i \in 1..L /\ j \in 1..L
    BY <2>1, <1>4 DEF Agrees, Unlisted
  <2>2. CASE i = L + 1 /\ j \in 1..L
    BY <2>2, <1>4, <1>1
  <2>3. CASE i \in 1..L /\ j = L + 1
    BY <2>3, <1>4, <1>1
  <2>4. CASE i = L + 1 /\ j = L + 1
    BY <2>4
  <2> QED
    BY <2>1, <2>2, <2>3, <2>4, <1>4
<1>7. Parallel(new) /\ Unicasts(new) /\ Accounted(new)
  BY <1>2 DEF Agrees, Parallel, Unicasts, Accounted, InTables
<1>8. Agrees(new)
  BY <1>5, <1>6, <1>7 DEF Agrees
<1> QED
  BY <1>8 DEF new, e

\* What a test does not touch.
SameBut(new, st) ==
    new.unicast = st.unicast /\ new.abandoned = st.abandoned /\ new.ok = st.ok

LEMMA NotListed ==
  ASSUME NEW list, NEW n, IndexOf(list, n) = 0, DOMAIN list \subseteq Handles
  PROVE  \A i \in DOMAIN list : list[i].iface # n
<1> SUFFICES ASSUME \E i \in DOMAIN list : list[i].iface = n PROVE FALSE
  OBVIOUS
<1>1. IndexOf(list, n) \in DOMAIN list
  BY DEF IndexOf
<1> QED
  BY <1>1 DEF Handles, NoSocket

\* test_netint: the list grows by the interface, or has it already.
LEMMA TestAgrees ==
  ASSUME NEW st, Agrees(st), NEW n \in Netints, NEW works \in BOOLEAN
  PROVE  LET new == TestNetint(st, n, works)
         IN  /\ Agrees(new) /\ SameBut(new, st)
             /\ \/ new = st /\ \E i \in DOMAIN st.sys : st.sys[i].iface = n
                \/ new.sys = Append(st.sys, [iface |-> n, status |-> works])
<1> DEFINE new == TestNetint(st, n, works)
           e == [iface |-> n, status |-> works]
<1>0. /\ st = [sys |-> st.sys, send |-> st.send, unicast |-> st.unicast,
               open |-> st.open, abandoned |-> st.abandoned, ok |-> st.ok]
      /\ st.sys \in Seq(Entries) /\ IsState(st) /\ IsOpenTable(st.open)
  BY DEF Agrees, IsState
<1>1. CASE IndexOf(st.sys, n) # 0
  <2>1. new = st
    BY <1>1 DEF TestNetint, TestSourceNetint, TestReceiverNetint
  <2>2. \E i \in DOMAIN st.sys : st.sys[i].iface = n
    BY <1>1 DEF IndexOf
  <2> HIDE DEF new
  <2>3. Agrees(new) /\ SameBut(new, st)
    BY <2>1 DEF SameBut
  <2> QED
    BY <2>1, <2>2, <2>3 DEF new
<1>2. CASE IndexOf(st.sys, n) = 0
  <2>0. DOMAIN st.sys \subseteq Handles
    BY <1>0 DEF Handles, NoSocket
  <2>1. \A i \in DOMAIN st.sys : st.sys[i].iface # n
    BY <1>2, <2>0, NotListed
  <2>2. ASSUME type = "source", works
        PROVE  Agrees(new) /\ SameBut(new, st) /\ new.sys = Append(st.sys, e)
    <3> DEFINE k == Unused(st)
               opened == Open(st, n)
               o == opened.open
    <3>0. n \in Purposes
      BY DEF Purposes
    <3>1. k \in Handles /\ k \notin DOMAIN st.open
      BY <1>0, UnusedIsNew
    <3>2. /\ opened = [st EXCEPT !.open = o] /\ IsOpenTable(o)
          /\ DOMAIN o = DOMAIN st.open \cup {k} /\ o[k] = n
          /\ \A j \in DOMAIN st.open : o[j] = st.open[j]
      BY <1>0, <3>0, Opened
    <3>3. new = [sys |-> Append(st.sys, e), send |-> Append(st.send, k),
                 unicast |-> st.unicast, open |-> o,
                 abandoned |-> st.abandoned, ok |-> st.ok]
      <4>1. new = AddSourceSysNetint(opened, n, works, k)
        BY <1>2, <2>2 DEF TestNetint, TestSourceNetint
      <4> HIDE DEF opened, k, new
      <4>2. opened = [sys |-> st.sys, send |-> st.send, unicast |-> st.unicast,
                      open |-> o, abandoned |-> st.abandoned, ok |-> st.ok]
        BY <3>2, <1>0
      <4> HIDE DEF o
      <4> QED
        BY <4>1, <4>2 DEF AddSourceSysNetint, AddSysNetint
    <3> HIDE DEF new, k, o, opened
    <3>4. k \in Nat /\ k # NoSocket
      BY <3>1 DEF Handles
    <3>5. DOMAIN o = DOMAIN st.open \cup ({k} \ {NoSocket})
      BY <3>2, <3>4
    <3>6. Agrees([sys |-> Append(st.sys, [iface |-> n, status |-> works]),
                 send |-> Append(st.send, k), unicast |-> st.unicast,
                 open |-> o, abandoned |-> st.abandoned, ok |-> st.ok])
      BY <2>1, <2>2, <3>1, <3>2, <3>4, <3>5, ListedAgrees
    <3> QED
      BY <3>3, <3>6 DEF SameBut
  <2>3. ASSUME type = "source", ~works
        PROVE  Agrees(new) /\ SameBut(new, st) /\ new.sys = Append(st.sys, e)
    <3>1. new = [sys |-> Append(st.sys, e), send |-> Append(st.send, NoSocket),
                 unicast |-> st.unicast, open |-> st.open,
                 abandoned |-> st.abandoned, ok |-> st.ok]
      BY <1>2, <2>3, <1>0
      DEF TestNetint, TestSourceNetint, AddSourceSysNetint, AddSysNetint
    <3> HIDE DEF new
    <3>2. NoSocket \in Nat /\ NoSocket \notin DOMAIN st.open
      BY <1>0 DEF IsOpenTable, Handles, NoSocket
    <3>3. DOMAIN st.open = DOMAIN st.open \cup ({NoSocket} \ {NoSocket})
      OBVIOUS
    <3>4. Agrees([sys |-> Append(st.sys, [iface |-> n, status |-> works]),
                 send |-> Append(st.send, NoSocket), unicast |-> st.unicast,
                 open |-> st.open, abandoned |-> st.abandoned, ok |-> st.ok])
      BY <2>1, <2>3, <1>0, <3>2, <3>3, ListedAgrees
    <3> QED
      BY <3>1, <3>4 DEF SameBut
  <2>4. ASSUME type # "source"
        PROVE  Agrees(new) /\ SameBut(new, st) /\ new.sys = Append(st.sys, e)
    <3>1. new = [sys |-> Append(st.sys, e), send |-> st.send,
                 unicast |-> st.unicast, open |-> st.open,
                 abandoned |-> st.abandoned, ok |-> st.ok]
      BY <1>2, <2>4, <1>0 DEF TestNetint, TestReceiverNetint, AddSysNetint
    <3> HIDE DEF new
    <3>2. Agrees([sys |-> Append(st.sys, [iface |-> n, status |-> works]),
                 send |-> st.send, unicast |-> st.unicast,
                 open |-> st.open, abandoned |-> st.abandoned, ok |-> st.ok])
      BY <2>1, <2>4, ListedOnly
    <3> QED
      BY <3>1, <3>2 DEF SameBut
  <2> QED
    BY <2>2, <2>3, <2>4
<1> QED
  BY <1>1, <1>2

-----------------------------------------------------------------------------
(***************************************************************************)
(* apply_netint_config                                                     *)
(***************************************************************************)

\* The first k interfaces of the system's list that were to be tested are
\* listed, with the result of the test of one of their addresses.
Tested(st, k, config, list, works) ==
    /\ \A i \in Selected(config, list) \cap (1..k) :
          \E j \in DOMAIN st.sys : st.sys[j].iface = list[i]
    /\ \A j \in DOMAIN st.sys : \E i \in Selected(config, list) :
          st.sys[j] = [iface |-> list[i], status |-> works[i]]

LEMMA TestedNext ==
  ASSUME NEW st, NEW new, NEW config, NEW list \in Seq(Netints), NEW works,
         NEW k \in DOMAIN list, k \in Selected(config, list),
         st.sys \in Seq(Entries), new.sys \in Seq(Entries),
         Tested(st, k - 1, config, list, works),
         \/ new = st /\ \E i \in DOMAIN st.sys : st.sys[i].iface = list[k]
         \/ new.sys = Append(st.sys, [iface |-> list[k], status |-> works[k]])
  PROVE  Tested(new, k, config, list, works)
<1> DEFINE S == Selected(config, list)
           e == [iface |-> list[k], status |-> works[k]]
<1>0. k \in Nat /\ S \cap (1..k) \subseteq (S \cap (1..(k - 1))) \cup {k}
  OBVIOUS
<1>1. CASE new = st /\ \E i \in DOMAIN st.sys : st.sys[i].iface = list[k]
  BY <1>0, <1>1 DEF Tested
<1>2. CASE new.sys = Append(st.sys, e)
  <2> DEFINE L == Len(st.sys)
  <2>0. e.iface = list[k]
    OBVIOUS
  <2> HIDE DEF e
  <2>1. /\ L \in Nat /\ DOMAIN st.sys = 1..L /\ DOMAIN new.sys = 1..(L + 1)
        /\ \A i \in 1..L : new.sys[i] = st.sys[i]
        /\ new.sys[L + 1] = e
    <3>1. Len(new.sys) = L + 1
      BY <1>2
    <3> QED
      BY <1>2, <3>1
  <2> HIDE DEF L
  <2>2. ASSUME NEW i \in S \cap (1..k)
        PROVE  \E j \in DOMAIN new.sys : new.sys[j].iface = list[i]
    <3>1. CASE i = k
      BY <3>1, <2>0, <2>1
    <3>2. CASE i \in S \cap (1..(k - 1))
      <4>1. PICK j \in DOMAIN st.sys : st.sys[j].iface = list[i]
        BY <3>2 DEF Tested
      <4> QED
        BY <4>1, <2>1
    <3> QED
      BY <3>1, <3>2, <1>0
  <2>3. ASSUME NEW j \in DOMAIN new.sys
        PROVE  \E i \in S : new.sys[j] = [iface |-> list[i], status |-> works[i]]
    <3>1. CASE j = L + 1
      BY <3>1, <2>1 DEF e
    <3>2. CASE j \in 1..L
      BY <3>2, <2>1 DEF Tested
    <3> QED
      BY <3>1, <3>2, <2>1
  <2> QED
    BY <2>2, <2>3 DEF Tested
<1> QED
  BY <1>1, <1>2

\* For configurations and lists in general, the tables stay in agreement and
\* the interfaces that were selected are listed.
LEMMA ApplyAgrees ==
  ASSUME NEW st, Agrees(st), st.sys = << >>, NEW config,
         NEW list \in Seq(Netints), NEW works \in [DOMAIN list -> BOOLEAN]
  PROVE  LET new == ApplyNetintConfig(st, config, list, works)
         IN  Agrees(new) /\ SameBut(new, st) /\ Tested(new, Len(list), config, list, works)
<1>0. Len(list) \in Nat /\ DOMAIN list = 1..Len(list)
  OBVIOUS
<1>11. PICK f : /\ IsApplied(f, Len(list), st, config, list, works)
                /\ ApplyNetintConfig(st, config, list, works) = f[Len(list)]
  BY <1>0, ApplyTestsInOrder
<1>1. /\ f[0] = st
      /\ \A i \in 1..Len(list) :
            f[i] = IF i \in Selected(config, list)
                     THEN TestNetint(f[i - 1], list[i], works[i])
                   ELSE f[i - 1]
  BY <1>0, <1>11 DEF IsApplied
<1> DEFINE new == ApplyNetintConfig(st, config, list, works)
           S == Selected(config, list)
<1> DEFINE Good(k) == Agrees(f[k]) /\ SameBut(f[k], st) /\ Tested(f[k], k, config, list, works)
           T == {k \in 0..Len(list) : ~Good(k)}
<1>2. Good(0)
  BY <1>1 DEF SameBut, Tested
<1>3. ASSUME NEW k \in 1..Len(list), Good(k - 1)
      PROVE  Good(k)
  <2> DEFINE before == f[k - 1]
             after == f[k]
  <2>0. list[k] \in Netints /\ works[k] \in BOOLEAN
    BY <1>0
  <2>1. CASE k \in S
    <3>1. after = TestNetint(before, list[k], works[k])
      BY <1>1, <2>1
    <3>2. Agrees(before) /\ SameBut(before, st) /\ Tested(before, k - 1, config, list, works)
      BY <1>3
    <3> HIDE DEF before, after
    <3>3. /\ Agrees(after) /\ SameBut(after, before)
          /\ \/ after = before /\ \E i \in DOMAIN before.sys : before.sys[i].iface = list[k]
             \/ after.sys = Append(before.sys, [iface |-> list[k], status |-> works[k]])
      BY <2>0, <3>1, <3>2, TestAgrees
    <3>4. before.sys \in Seq(Entries) /\ after.sys \in Seq(Entries)
      BY <3>2, <3>3 DEF Agrees, IsState
    <3>5. Tested(after, k, config, list, works)
      BY <1>0, <2>1, <3>2, <3>3, <3>4, TestedNext
    <3>6. SameBut(after, st)
      BY <3>2, <3>3 DEF SameBut
    <3> QED
      BY <3>3, <3>5, <3>6 DEF after
  <2>2. CASE k \notin S
    <3>1. after = before
      BY <1>1, <2>2
    <3>2. S \cap (1..k) = S \cap (1..(k - 1))
      BY <2>2
    <3>3. Tested(before, k, config, list, works)
      BY <1>3, <3>2 DEF Tested
    <3> QED
      BY <1>3, <3>1, <3>3
  <2> QED
    BY <2>1, <2>2
<1> HIDE DEF Good
<1>4. T = {}
  <2> SUFFICES ASSUME T # {} PROVE FALSE
    OBVIOUS
  <2>1. T \subseteq Nat
    BY <1>0
  <2>2. PICK k \in T : \A y \in T : ~(y < k)
    BY <2>1, LeastNumber
  <2>3. k # 0 /\ k \in 1..Len(list) /\ k - 1 \in 0..Len(list)
    BY <1>2, <2>2, <1>0
  <2>4. Good(k - 1)
    BY <2>2, <2>3
  <2> QED
    BY <1>3, <2>2, <2>3, <2>4
<1>5. Good(Len(list))
  BY <1>0, <1>4
<1> QED
  BY <1>11, <1>5 DEF Good

-----------------------------------------------------------------------------
(***************************************************************************)
(* clear_source_networking and init_unicast_send_sockets                   *)
(***************************************************************************)

\* A table of open sockets from which some are closed.
LEMMA Restricted ==
  ASSUME NEW o, IsOpenTable(o), NEW closed
  PROVE  LET new == Restrict(o, DOMAIN o \ closed)
         IN  /\ IsOpenTable(new) /\ DOMAIN new = DOMAIN o \ closed
             /\ \A k \in DOMAIN new : new[k] = o[k]
<1> DEFINE D == DOMAIN o \ closed
           new == Restrict(o, D)
<1>1. new = [k \in D |-> o[k]]
  BY DEF Restrict
<1>2. IsFiniteSet(D)
  BY FS_Subset DEF IsOpenTable
<1>3. DOMAIN new = D /\ \A k \in D : new[k] = o[k]
  BY <1>1
<1>4. \A k \in D : o[k] \in Purposes
  BY DEF IsOpenTable
<1>5. new \in [D -> Purposes]
  BY <1>1, <1>4
<1> QED
  BY <1>2, <1>3, <1>5 DEF IsOpenTable

LEMMA ClearedAgrees ==
  ASSUME NEW st, Agrees(st)
  PROVE  LET new == Cleared(st)
         IN  /\ Agrees(new) /\ new.sys = << >> /\ new.unicast = NoUnicast
             /\ new.abandoned = st.abandoned /\ new.ok = st.ok
<1> DEFINE closed == {st.unicast[v] : v \in IpTypes} \cup ToSet(st.send)
           o == Restrict(st.open, DOMAIN st.open \ closed)
           new == Cleared(st)
<1>0. IsOpenTable(st.open)
  BY DEF Agrees, IsState
<1>1. IsOpenTable(o) /\ DOMAIN o = DOMAIN st.open \ closed
  BY <1>0, Restricted
<1>2. new = [sys |-> << >>, send |-> << >>, unicast |-> NoUnicast,
             open |-> o, abandoned |-> st.abandoned, ok |-> st.ok]
  <2>1. st = [sys |-> st.sys, send |-> st.send, unicast |-> st.unicast,
              open |-> st.open, abandoned |-> st.abandoned, ok |-> st.ok]
    BY DEF Agrees, IsState
  <2>2. CloseAll(st, closed) =
            [sys |-> st.sys, send |-> st.send, unicast |-> st.unicast,
             open |-> o, abandoned |-> st.abandoned, ok |-> st.ok]
    <3> HIDE DEF closed
    <3> QED
      BY <2>1 DEF CloseAll
  <2>3. new = [CloseAll(st, closed) EXCEPT !.sys = << >>, !.send = << >>,
                                           !.unicast = NoUnicast]
    BY DEF Cleared
  <2> DEFINE c == CloseAll(st, closed)
  <2>4. new = [c EXCEPT !.sys = << >>, !.send = << >>, !.unicast = NoUnicast]
    BY <2>3
  <2>5. c = [sys |-> st.sys, send |-> st.send, unicast |-> st.unicast,
             open |-> o, abandoned |-> st.abandoned, ok |-> st.ok]
    BY <2>2
  <2> HIDE DEF o, closed, new, c
  <2> QED
    BY <2>4, <2>5
<1>3. closed \ {NoSocket} = InTables(st)
  BY DEF ToSet, Range, InTables
<1>4. DOMAIN o = st.abandoned
  <2>1. NoSocket \notin DOMAIN st.open
    BY <1>0 DEF IsOpenTable, Handles
  <2> HIDE DEF closed, o
  <2> QED
    BY <1>1, <1>3, <2>1 DEF Agrees, Accounted
<1> HIDE DEF o, new, closed
<1>5. /\ new.sys = << >> /\ new.send = << >> /\ new.unicast = NoUnicast
      /\ new.open = o /\ new.abandoned = st.abandoned /\ new.ok = st.ok
      /\ new = [sys |-> new.sys, send |-> new.send, unicast |-> new.unicast,
                open |-> new.open, abandoned |-> new.abandoned, ok |-> new.ok]
  BY <1>2
<1>6. << >> \in Seq(Entries) /\ << >> \in Seq(Nat) /\ DOMAIN << >> = {} /\ Len(<< >>) = 0
  OBVIOUS
<1>7. NoUnicast \in [IpTypes -> Nat] /\ \A v \in IpTypes : NoUnicast[v] = NoSocket
  BY DEF NoUnicast, NoSocket
<1>8. IsState(new)
  BY <1>1, <1>5, <1>6, <1>7 DEF IsState
<1>9. Unlisted(new) /\ Unicasts(new) /\ \A i \in DOMAIN new.sys : Matches(new, i)
  BY <1>5, <1>6, <1>7 DEF Unlisted, Unicasts
<1>10. Parallel(new)
  BY <1>5, <1>6 DEF Parallel
<1>11. InTables(new) = {}
  <2>1. Range(new.send) = {}
    BY <1>5, <1>6 DEF Range
  <2> QED
    BY <2>1, <1>5, <1>7 DEF InTables
<1>12. Accounted(new)
  BY <1>4, <1>5, <1>11 DEF Accounted
<1>13. Agrees(new)
  BY <1>8, <1>9, <1>10, <1>12 DEF Agrees
<1> QED
  BY <1>13, <1>5 DEF new

\* A state whose sockets for unicast have become u, with the sockets A lost.
LEMMA UnicastAgrees ==
  ASSUME NEW st, Agrees(st), st.unicast = NoUnicast,
         NEW u \in [IpTypes -> Nat], NEW A, NEW o, IsOpenTable(o), NEW ok,
         A \cap DOMAIN st.open = {},
         \A v \in IpTypes : u[v] \notin DOMAIN st.open /\ u[v] \notin A,
         \A v \in IpTypes : u[v] # NoSocket => o[u[v]] = v,
         DOMAIN o = DOMAIN st.open \cup A \cup ({u[v] : v \in IpTypes} \ {NoSocket}),
         \A k \in DOMAIN st.open : o[k] = st.open[k]
  PROVE  Agrees([sys |-> st.sys, send |-> st.send, unicast |-> u, open |-> o,
                 abandoned |-> st.abandoned \cup A, ok |-> ok])
<1> DEFINE new == [sys |-> st.sys, send |-> st.send, unicast |-> u, open |-> o,
                   abandoned |-> st.abandoned \cup A, ok |-> ok]
           U == {u[v] : v \in IpTypes} \ {NoSocket}
<1>1. /\ new.sys = st.sys /\ new.send = st.send /\ new.unicast = u
      /\ new.open = o /\ new.abandoned = st.abandoned \cup A
      /\ new = [sys |-> new.sys, send |-> new.send, unicast |-> new.unicast,
                open |-> new.open, abandoned |-> new.abandoned, ok |-> new.ok]
  OBVIOUS
<1> HIDE DEF new
<1>2. IsState(new)
  BY <1>1 DEF Agrees, IsState
<1>3. Unlisted(new) /\ Parallel(new)
  BY <1>1 DEF Agrees, Unlisted, Parallel
<1>4. ASSUME type = "source", NEW i \in DOMAIN new.sys PROVE Matches(new, i)
  <2>1. Matches(st, i)
    BY <1>1, <1>4 DEF Agrees
  <2>2. CASE st.sys[i].status
    <3>1. st.send[i] \in DOMAIN st.open /\ st.open[st.send[i]] = st.sys[i].iface
      BY <2>1, <2>2 DEF Matches
    <3>2. st.send[i] \in DOMAIN o /\ o[st.send[i]] = st.sys[i].iface
      BY <3>1
    <3> QED
      BY <1>1, <2>2, <3>2 DEF Matches
  <2>3. CASE ~st.sys[i].status
    BY <1>1, <2>1, <2>3 DEF Matches
  <2> QED
    BY <2>2, <2>3
<1>5. Unicasts(new)
  BY <1>1 DEF Unicasts
<1>6. InTables(st) = Range(st.send) \ {NoSocket}
  BY DEF InTables, NoUnicast
<1>7. InTables(new) = InTables(st) \cup U
  BY <1>1, <1>6 DEF InTables
<1>8. DOMAIN st.open = InTables(st) \cup st.abandoned /\ InTables(st) \cap st.abandoned = {}
  BY DEF Agrees, Accounted
<1>9. U \cap DOMAIN st.open = {} /\ U \cap A = {}
  OBVIOUS
<1> HIDE DEF U
<1>10. DOMAIN o = DOMAIN st.open \cup A \cup U
  BY DEF U
<1>11. Accounted(new)
  BY <1>1, <1>7, <1>8, <1>9, <1>10 DEF Accounted
<1>12. Agrees(new)
  BY <1>2, <1>3, <1>4, <1>5, <1>11 DEF Agrees
<1> QED
  BY <1>12 DEF new

LEMMA UnicastCreated ==
  ASSUME NEW st, IsState(st), NEW v \in IpTypes, NEW outcome
  PROVE  LET new == CreateUnicast(st, v, outcome)
             k == Created(st, outcome)
         IN  /\ new = [sys |-> st.sys, send |-> st.send, unicast |-> st.unicast,
                       open |-> new.open, abandoned |-> st.abandoned, ok |-> st.ok]
             /\ IsOpenTable(new.open)
             /\ k \in Nat /\ k \notin DOMAIN st.open
             /\ DOMAIN new.open = DOMAIN st.open \cup ({k} \ {NoSocket})
             /\ k # NoSocket => new.open[k] = v
             /\ \A j \in DOMAIN st.open : new.open[j] = st.open[j]
<1> DEFINE new == CreateUnicast(st, v, outcome)
           k == Created(st, outcome)
<1>1. /\ st = [sys |-> st.sys, send |-> st.send, unicast |-> st.unicast,
               open |-> st.open, abandoned |-> st.abandoned, ok |-> st.ok]
      /\ IsOpenTable(st.open)
  BY DEF IsState
<1>2. CASE outcome \in {"made", "half"}
  <2>1. new = Open(st, v) /\ k = Unused(st)
    BY <1>2 DEF CreateUnicast, Created
  <2>2. v \in Purposes
    BY DEF Purposes
  <2>3. k \in Handles /\ k \notin DOMAIN st.open
    BY <2>1, UnusedIsNew
  <2>4. /\ Open(st, v) = [st EXCEPT !.open = Open(st, v).open]
        /\ IsOpenTable(Open(st, v).open)
        /\ DOMAIN Open(st, v).open = DOMAIN st.open \cup {Unused(st)}
        /\ Open(st, v).open[Unused(st)] = v
        /\ \A j \in DOMAIN st.open : Open(st, v).open[j] = st.open[j]
    BY <2>2, Opened
  <2> HIDE DEF new, k
  <2>5. /\ new = [st EXCEPT !.open = new.open] /\ IsOpenTable(new.open)
        /\ DOMAIN new.open = DOMAIN st.open \cup {k} /\ new.open[k] = v
        /\ \A j \in DOMAIN st.open : new.open[j] = st.open[j]
    BY <2>1, <2>4
  <2>6. k \in Nat /\ {k} = {k} \ {NoSocket}
    BY <2>3 DEF Handles
  <2>7. new = [sys |-> st.sys, send |-> st.send, unicast |-> st.unicast,
               open |-> new.open, abandoned |-> st.abandoned, ok |-> st.ok]
    <3> DEFINE o == new.open
    <3>1. new = [st EXCEPT !.open = o]
      BY <2>5
    <3> HIDE DEF o
    <3>2. new = [sys |-> st.sys, send |-> st.send, unicast |-> st.unicast,
                 open |-> o, abandoned |-> st.abandoned, ok |-> st.ok]
      BY <1>1, <3>1
    <3> QED
      BY <3>2 DEF o
  <2>8. DOMAIN new.open = DOMAIN st.open \cup ({k} \ {NoSocket})
    BY <2>5, <2>6
  <2> QED
    BY <2>3, <2>5, <2>6, <2>7, <2>8 DEF new, k
<1>3. CASE outcome \notin {"made", "half"}
  <2>1. new = st /\ k = NoSocket
    BY <1>3 DEF CreateUnicast, Created
  <2> HIDE DEF new, k
  <2>2. NoSocket \in Nat /\ NoSocket \notin DOMAIN st.open
    BY <1>1 DEF IsOpenTable, Handles, NoSocket
  <2> QED
    BY <1>1, <2>1, <2>2 DEF new, k
<1> QED
  BY <1>2, <1>3

LEMMA InitUnicastAgrees ==
  ASSUME NEW st, Agrees(st), st.unicast = NoUnicast, NEW made
  PROVE  LET new == InitUnicast(st, made)
         IN  Agrees(new) /\ new.sys = st.sys
<1> DEFINE m4 == made["v4"]
           m6 == made["v6"]
           first == CreateUnicast(st, "v4", m4)
           second == CreateUnicast(first, "v6", m6)
           k4 == Created(st, m4)
           k6 == Created(first, m6)
           new == InitUnicast(st, made)
<1>0. "v4" \in IpTypes /\ "v6" \in IpTypes /\ IpTypes = {"v4", "v6"}
  BY DEF IpTypes
<1>1. /\ IsState(st)
      /\ st = [sys |-> st.sys, send |-> st.send, unicast |-> st.unicast,
               open |-> st.open, abandoned |-> st.abandoned, ok |-> st.ok]
      /\ IsOpenTable(st.open)
  BY DEF Agrees, IsState
<1>2. /\ first = [sys |-> st.sys, send |-> st.send, unicast |-> st.unicast,
                  open |-> first.open, abandoned |-> st.abandoned, ok |-> st.ok]
      /\ IsOpenTable(first.open)
      /\ k4 \in Nat /\ k4 \notin DOMAIN st.open
      /\ DOMAIN first.open = DOMAIN st.open \cup ({k4} \ {NoSocket})
      /\ k4 # NoSocket => first.open[k4] = "v4"
      /\ \A j \in DOMAIN st.open : first.open[j] = st.open[j]
  BY <1>0, <1>1, UnicastCreated
<1>3. /\ new = IF Fails(m4)
                 THEN [first EXCEPT !.ok = FALSE, !.abandoned = @ \cup ({k4} \ {NoSocket})]
               ELSE IF Fails(m6)
                 THEN [CloseAll(second, {k4})
                         EXCEPT !.ok = FALSE, !.abandoned = @ \cup ({k6} \ {NoSocket})]
               ELSE [second EXCEPT !.unicast =
                        [v \in IpTypes |-> IF v = "v4" THEN k4 ELSE k6]]
  BY DEF InitUnicast
<1> HIDE DEF first, k4, m4
<1>4. /\ first.sys = st.sys /\ first.send = st.send /\ first.unicast = st.unicast
      /\ first.abandoned = st.abandoned /\ first.ok = st.ok
  BY <1>2
<1>5. IsState(first)
  BY <1>1, <1>2, <1>4 DEF IsState
<1>6. /\ second = [sys |-> first.sys, send |-> first.send, unicast |-> first.unicast,
                   open |-> second.open, abandoned |-> first.abandoned, ok |-> first.ok]
      /\ IsOpenTable(second.open)
      /\ k6 \in Nat /\ k6 \notin DOMAIN first.open
      /\ DOMAIN second.open = DOMAIN first.open \cup ({k6} \ {NoSocket})
      /\ k6 # NoSocket => second.open[k6] = "v6"
      /\ \A j \in DOMAIN first.open : second.open[j] = first.open[j]
  BY <1>0, <1>5, UnicastCreated
<1> HIDE DEF second, k6, m6, new
<1>7. /\ second.sys = st.sys /\ second.send = st.send /\ second.unicast = NoUnicast
      /\ second.abandoned = st.abandoned
      /\ second = [sys |-> second.sys, send |-> second.send, unicast |-> second.unicast,
                   open |-> second.open, abandoned |-> second.abandoned, ok |-> second.ok]
  BY <1>4, <1>6
<1>8. /\ NoUnicast \in [IpTypes -> Nat]
      /\ \A v \in IpTypes : NoUnicast[v] = NoSocket
      /\ {NoUnicast[v] : v \in IpTypes} \ {NoSocket} = {}
      /\ NoSocket \notin DOMAIN st.open
  BY <1>1 DEF NoUnicast, NoSocket, IsOpenTable, Handles
<1>9. CASE Fails(m4)
  <2> DEFINE A == {k4} \ {NoSocket}
             o == first.open
             new1 == [sys |-> st.sys, send |-> st.send, unicast |-> NoUnicast,
                      open |-> o, abandoned |-> st.abandoned \cup A, ok |-> FALSE]
  <2>1. new = [first EXCEPT !.ok = FALSE, !.abandoned = @ \cup A]
    BY <1>3, <1>9
  <2>2. A \cap DOMAIN st.open = {} /\ NoSocket \notin A
    BY <1>2
  <2>3. DOMAIN o = DOMAIN st.open \cup A \cup ({NoUnicast[v] : v \in IpTypes} \ {NoSocket})
    BY <1>2, <1>8
  <2>4. new = new1
    <3> HIDE DEF A, o
    <3>1. first = [sys |-> st.sys, send |-> st.send, unicast |-> st.unicast,
                   open |-> o, abandoned |-> st.abandoned, ok |-> st.ok]
      BY <1>2 DEF o
    <3> QED
      BY <2>1, <3>1
  <2>5. IsOpenTable(o) /\ \A j \in DOMAIN st.open : o[j] = st.open[j]
    BY <1>2
  <2>6. /\ \A v \in IpTypes : NoUnicast[v] \notin DOMAIN st.open /\ NoUnicast[v] \notin A
        /\ \A v \in IpTypes : NoUnicast[v] # NoSocket => o[NoUnicast[v]] = v
    BY <1>8, <2>2
  <2> HIDE DEF A, o
  <2>7. Agrees(new1)
    BY <1>8, <2>2, <2>3, <2>5, <2>6, UnicastAgrees
  <2> QED
    BY <2>4, <2>7 DEF new
<1>10. CASE ~Fails(m4) /\ Fails(m6)
  <2> DEFINE A == {k6} \ {NoSocket}
             c == CloseAll(second, {k4})
             o == Restrict(second.open, DOMAIN second.open \ {k4})
             new1 == [sys |-> st.sys, send |-> st.send, unicast |-> NoUnicast,
                      open |-> o, abandoned |-> st.abandoned \cup A, ok |-> FALSE]
  <2>1. new = [c EXCEPT !.ok = FALSE, !.abandoned = @ \cup A]
    BY <1>3, <1>10
  <2>2. /\ IsOpenTable(o) /\ DOMAIN o = DOMAIN second.open \ {k4}
        /\ \A j \in DOMAIN o : o[j] = second.open[j]
    BY <1>6, Restricted
  <2>3. c = [second EXCEPT !.open = o]
    BY DEF CloseAll
  <2> HIDE DEF c, o
  <2>4. c = [sys |-> st.sys, send |-> st.send, unicast |-> NoUnicast,
             open |-> o, abandoned |-> st.abandoned, ok |-> second.ok]
    BY <1>7, <2>3
  <2>5. new = new1
    <3> HIDE DEF A
    <3> QED
      BY <2>1, <2>4
  <2>6. DOMAIN o = DOMAIN st.open \cup A
    BY <1>2, <1>6, <1>8, <2>2
  <2>7. DOMAIN o = DOMAIN st.open \cup A \cup ({NoUnicast[v] : v \in IpTypes} \ {NoSocket})
    BY <1>8, <2>6
  <2>8. A \cap DOMAIN st.open = {} /\ NoSocket \notin A
    BY <1>2, <1>6
  <2>9. \A j \in DOMAIN st.open : o[j] = st.open[j]
    BY <1>2, <1>6, <2>2, <2>6
  <2>10. /\ \A v \in IpTypes : NoUnicast[v] \notin DOMAIN st.open /\ NoUnicast[v] \notin A
         /\ \A v \in IpTypes : NoUnicast[v] # NoSocket => o[NoUnicast[v]] = v
    BY <1>8, <2>8
  <2> HIDE DEF A
  <2>11. Agrees(new1)
    BY <1>8, <2>2, <2>7, <2>8, <2>9, <2>10, UnicastAgrees
  <2> QED
    BY <2>5, <2>11 DEF new
<1>11. CASE ~Fails(m4) /\ ~Fails(m6)
  <2> DEFINE u == [v \in IpTypes |-> IF v = "v4" THEN k4 ELSE k6]
             o == second.open
             new1 == [sys |-> st.sys, send |-> st.send, unicast |-> u,
                      open |-> o, abandoned |-> st.abandoned \cup {}, ok |-> second.ok]
  <2>1. new = [second EXCEPT !.unicast = u]
    BY <1>3, <1>11
  <2>2. u["v4"] = k4 /\ u["v6"] = k6 /\ u \in [IpTypes -> Nat]
    BY <1>0, <1>2, <1>6
  <2>3. {u[v] : v \in IpTypes} = {k4, k6}
    BY <1>0, <2>2
  <2> HIDE DEF u, o
  <2>4. st.abandoned \cup {} = st.abandoned
    OBVIOUS
  <2>5. new = new1
    <3>1. second = [sys |-> st.sys, send |-> st.send, unicast |-> NoUnicast,
                    open |-> o, abandoned |-> st.abandoned, ok |-> second.ok]
      BY <1>7 DEF o
    <3>2. new = [sys |-> st.sys, send |-> st.send, unicast |-> u,
                 open |-> o, abandoned |-> st.abandoned, ok |-> second.ok]
      BY <2>1, <3>1
    <3> QED
      BY <2>4, <3>2
  <2>6. DOMAIN o = DOMAIN st.open \cup {} \cup ({u[v] : v \in IpTypes} \ {NoSocket})
    BY <1>2, <1>6, <2>3 DEF o
  <2>7. k4 \notin DOMAIN st.open /\ k6 \notin DOMAIN st.open
    BY <1>2, <1>6
  <2>8. \A v \in IpTypes : u[v] \notin DOMAIN st.open /\ u[v] \notin {}
    BY <1>0, <2>2, <2>7
  <2>9. k4 # NoSocket => o[k4] = "v4"
    BY <1>2, <1>6 DEF o
  <2>10. k6 # NoSocket => o[k6] = "v6"
    BY <1>6 DEF o
  <2>11. \A v \in IpTypes : u[v] # NoSocket => o[u[v]] = v
    BY <1>0, <2>2, <2>9, <2>10
  <2>12. IsOpenTable(o) /\ \A j \in DOMAIN st.open : o[j] = st.open[j]
    BY <1>2, <1>6 DEF o
  <2>13. {} \cap DOMAIN st.open = {}
    OBVIOUS
  <2>14. Agrees(new1)
    BY <2>2, <2>6, <2>8, <2>11, <2>12, <2>13, UnicastAgrees
  <2> QED
    BY <2>5, <2>14 DEF new
<1> QED
  BY <1>9, <1>10, <1>11

\* What the result of a call is makes no difference to the tables.
LEMMA SameTablesAgree ==
  ASSUME NEW st, Agrees(st), NEW new,
         new.sys = st.sys, new.send = st.send, new.unicast = st.unicast,
         new.open = st.open, new.abandoned = st.abandoned,
         new = [sys |-> new.sys, send |-> new.send, unicast |-> new.unicast,
                open |-> new.open, abandoned |-> new.abandoned, ok |-> new.ok]
  PROVE  Agrees(new)
<1>1. IsState(new) /\ Unlisted(new) /\ Parallel(new) /\ Unicasts(new) /\ Accounted(new)
  BY DEF Agrees, IsState, Unlisted, Parallel, Unicasts, Accounted, InTables
<1>2. type = "source" => \A i \in DOMAIN new.sys : Matches(new, i)
  <2> SUFFICES ASSUME type = "source", NEW i \in DOMAIN new.sys PROVE Matches(new, i)
    OBVIOUS
  <2>1. Matches(st, i)
    BY DEF Agrees
  <2> QED
    BY <2>1 DEF Matches
<1> QED
  BY <1>1, <1>2 DEF Agrees

LEMMA FailedAgrees ==
  ASSUME NEW st, Agrees(st), NEW ok
  PROVE  Agrees([st EXCEPT !.ok = ok])
<1> DEFINE new == [st EXCEPT !.ok = ok]
<1>1. st = [sys |-> st.sys, send |-> st.send, unicast |-> st.unicast,
            open |-> st.open, abandoned |-> st.abandoned, ok |-> st.ok]
  BY DEF Agrees, IsState
<1>2. /\ new.sys = st.sys /\ new.send = st.send /\ new.unicast = st.unicast
      /\ new.open = st.open /\ new.abandoned = st.abandoned
      /\ new = [sys |-> new.sys, send |-> new.send, unicast |-> new.unicast,
                open |-> new.open, abandoned |-> new.abandoned, ok |-> new.ok]
  BY <1>1
<1> HIDE DEF new
<1>3. Agrees(new)
  BY <1>2, SameTablesAgree
<1> QED
  BY <1>3 DEF new

\* sockets_init
LEMMA SocketsInitAgrees ==
  ASSUME NEW st, Agrees(st), st.sys = << >>, st.unicast = NoUnicast, NEW config,
         NEW list \in Seq(Netints), NEW works \in [DOMAIN list -> BOOLEAN], NEW made
  PROVE  Agrees(SocketsInit(st, config, list, works, made))
<1> DEFINE applied == ApplyNetintConfig(st, config, list, works)
           new == SocketsInit(st, config, list, works, made)
<1>1. Agrees(applied) /\ applied.unicast = NoUnicast
  BY ApplyAgrees DEF SameBut
<1>2. \/ new = [st EXCEPT !.ok = FALSE]
      \/ new = [applied EXCEPT !.ok = FALSE]
      \/ new = InitUnicast(applied, made)
      \/ new = applied
  BY DEF SocketsInit
<1> HIDE DEF applied, new
<1>3. Agrees([st EXCEPT !.ok = FALSE])
  BY FailedAgrees
<1>4. Agrees([applied EXCEPT !.ok = FALSE])
  BY <1>1, FailedAgrees
<1>5. Agrees(InitUnicast(applied, made))
  BY <1>1, InitUnicastAgrees
<1>6. Agrees(new)
  BY <1>1, <1>2, <1>3, <1>4, <1>5
<1> QED
  BY <1>6 DEF new

LEMMA SocketsResetAgrees ==
  ASSUME Agrees(Current), NEW config,
         NEW list \in Seq(Netints), NEW works \in [DOMAIN list -> BOOLEAN], NEW made
  PROVE  Agrees(SocketsReset(config, list, works, made))
<1> DEFINE cleared == Cleared(Current)
<1>1. Agrees(cleared) /\ cleared.sys = << >> /\ cleared.unicast = NoUnicast
  BY ClearedAgrees
<1> HIDE DEF cleared
<1>2. Agrees(SocketsInit(cleared, config, list, works, made))
  BY <1>1, SocketsInitAgrees
<1>3. Agrees([Current EXCEPT !.ok = FALSE])
  BY FailedAgrees
<1>4. SocketsReset(config, list, works, made)
        = IF ~NetintsValid(config.netints) THEN [Current EXCEPT !.ok = FALSE]
          ELSE SocketsInit(cleared, config, list, works, made)
  BY DEF SocketsReset, cleared
<1> QED
  BY <1>2, <1>3, <1>4
-----------------------------------------------------------------------------
(***************************************************************************)
(* The interfaces of the users.                                            *)
(***************************************************************************)

\* The lists that sacn_initialize_internal_netints goes through.
IsTaken(f, n, state, netints) ==
    f = [i \in 0..n |->
           IF i = 0 THEN << >>
           ELSE IF Usable(state, netints[i]) /\ netints[i] \notin ToSet(f[i - 1])
             THEN Append(f[i - 1], netints[i])
           ELSE f[i - 1]]

LEMMA TakenExists ==
  ASSUME NEW state, NEW netints, NEW n \in Nat
  PROVE  \E f : IsTaken(f, n, state, netints)
<1> DEFINE Is(f, k) == IsTaken(f, k, state, netints)
           T == {k \in Nat : ~\E f : Is(f, k)}
           Step(h, i) == IF i = 0 THEN << >>
             ELSE IF Usable(state, netints[i]) /\ netints[i] \notin ToSet(h[i - 1])
               THEN Append(h[i - 1], netints[i])
             ELSE h[i - 1]
<1> SUFFICES T = {}
  OBVIOUS
<1> SUFFICES ASSUME T # {} PROVE FALSE
  OBVIOUS
<1>1. PICK k \in T : \A y \in T : ~(y < k)
  BY LeastNumber
<1>2. k # 0
  <2>1. Is([i \in 0..0 |-> << >>], 0)
    BY DEF IsTaken
  <2> QED
    BY <2>1, <1>1
<1>3. PICK f : Is(f, k - 1)
  BY <1>1, <1>2
<1> DEFINE last == IF Usable(state, netints[k]) /\ netints[k] \notin ToSet(f[k - 1])
                     THEN Append(f[k - 1], netints[k]) ELSE f[k - 1]
           g == [i \in 0..k |-> IF i = k THEN last ELSE f[i]]
<1>4. Is(g, k)
  <2>1. f = [i \in 0..(k - 1) |-> Step(f, i)]
    BY <1>3 DEF IsTaken
  <2> HIDE DEF last
  <2>2. ASSUME NEW i \in 0..k PROVE g[i] = Step(g, i)
    <3>1. CASE i = k
      <4>1. g[i] = last /\ g[i - 1] = f[k - 1]
        BY <3>1, <1>2
      <4> QED
        BY <4>1, <3>1, <1>2 DEF last
    <3>2. CASE i # k
      <4>1. i \in 0..(k - 1) /\ g[i] = f[i] /\ (i # 0 => g[i - 1] = f[i - 1])
        BY <3>2
      <4>2. f[i] = Step(f, i)
        BY <4>1, <2>1
      <4> QED
        BY <4>1, <4>2
    <3> QED
      BY <3>1, <3>2
  <2>3. g = [i \in 0..k |-> Step(g, i)]
    BY <2>2
  <2> QED
    BY <2>3 DEF IsTaken
<1> QED
  BY <1>4, <1>1

\* A list of usable interfaces, none of them twice.
IsChoice(state, list) ==
    /\ list \in Seq(ToSet(list))
    /\ IsInjective(list)
    /\ \A n \in ToSet(list) : Usable(state, n)

LEMMA ChoiceExtended ==
  ASSUME NEW state, NEW list, IsChoice(state, list), NEW n,
         Usable(state, n), n \notin ToSet(list)
  PROVE  IsChoice(state, Append(list, n))
<1> DEFINE new == Append(list, n)
           L == Len(list)
<1>1. /\ L \in Nat /\ DOMAIN list = 1..L /\ DOMAIN new = 1..(L + 1)
      /\ \A i \in 1..L : new[i] = list[i]
      /\ new[L + 1] = n
  <2>1. list \in Seq(ToSet(list) \cup {n})
    BY DEF IsChoice
  <2> QED
    BY <2>1
<1>2. new \in Seq(ToSet(list) \cup {n})
  <2>1. list \in Seq(ToSet(list) \cup {n})
    BY DEF IsChoice
  <2> QED
    BY <2>1
<1> HIDE DEF new, L
<1>3. ToSet(new) = ToSet(list) \cup {n}
  <2>1. 1..(L + 1) = (1..L) \cup {L + 1}
    BY <1>1
  <2> QED
    BY <1>1, <2>1 DEF ToSet
<1>4. IsInjective(new)
  <2> SUFFICES ASSUME NEW i \in 1..(L + 1), NEW j \in 1..(L + 1), new[i] = new[j]
               PROVE  i = j
    BY <1>1 DEF IsInjective
  <2>1. \A m \in 1..L : list[m] \in ToSet(list)
    BY <1>1 DEF ToSet
  <2>2. CASE i \in 1..L /\ j \in 1..L
    BY <1>1, <2>2 DEF IsChoice, IsInjective
  <2>3. CASE i = L + 1 /\ j \in 1..L
    BY <1>1, <2>1, <2>3
  <2>4. CASE i \in 1..L /\ j = L + 1
    BY <1>1, <2>1, <2>4
  <2>5. CASE i = L + 1 /\ j = L + 1
    BY <2>5
  <2> QED
    BY <1>1, <2>2, <2>3, <2>4, <2>5
<1>5. IsChoice(state, new)
  BY <1>2, <1>3, <1>4 DEF IsChoice
<1> QED
  BY <1>5 DEF new

\* sacn_initialize_internal_netints, for a configuration of any length.
LEMMA InternalNetintsAreChoice ==
  ASSUME NEW state, NEW config, Len(NetintsToUse(state, config)) \in Nat
  PROVE  IsChoice(state, InternalNetints(state, config))
<1> DEFINE netints == NetintsToUse(state, config)
           N == Len(netints)
           f == CHOOSE f : IsTaken(f, N, state, netints)
<1>1. IsTaken(f, N, state, netints)
  BY TakenExists
<1>2. InternalNetints(state, config) = f[N]
  BY DEF InternalNetints, IsTaken
<1>8. N \in Nat
  OBVIOUS
<1> HIDE DEF f, netints
<1>3. /\ f[0] = << >>
      /\ \A i \in 1..N : f[i] =
           IF Usable(state, netints[i]) /\ netints[i] \notin ToSet(f[i - 1])
             THEN Append(f[i - 1], netints[i]) ELSE f[i - 1]
  <2> DEFINE Step(h, i) == IF i = 0 THEN << >>
               ELSE IF Usable(state, netints[i]) /\ netints[i] \notin ToSet(h[i - 1])
                 THEN Append(h[i - 1], netints[i])
               ELSE h[i - 1]
  <2> HIDE DEF N
  <2>1. f = [i \in 0..N |-> Step(f, i)]
    BY <1>1 DEF IsTaken
  <2>2. f[0] = << >>
    BY <2>1, <1>8
  <2>3. ASSUME NEW i \in 1..N
        PROVE  f[i] = IF Usable(state, netints[i]) /\ netints[i] \notin ToSet(f[i - 1])
                        THEN Append(f[i - 1], netints[i]) ELSE f[i - 1]
    <3>1. i \in 0..N /\ i # 0
      BY <1>8
    <3>2. f[i] = Step(f, i)
      BY <2>1, <3>1
    <3> QED
      BY <3>1, <3>2
  <2> QED
    BY <2>2, <2>3
<1> DEFINE Good(k) == IsChoice(state, f[k])
           T == {k \in 0..N : ~Good(k)}
<1>4. Good(0)
  <2>1. << >> \in Seq({}) /\ DOMAIN << >> = {}
    OBVIOUS
  <2>2. ToSet(<< >>) = {}
    BY <2>1 DEF ToSet
  <2> QED
    BY <1>3, <2>1, <2>2 DEF IsChoice, IsInjective
<1>5. ASSUME NEW k \in 1..N, Good(k - 1) PROVE Good(k)
  BY <1>3, <1>5, ChoiceExtended
<1> HIDE DEF Good
<1>6. T = {}
  <2> SUFFICES ASSUME T # {} PROVE FALSE
    OBVIOUS
  <2>1. T \subseteq Nat
    BY <1>8
  <2>2. PICK k \in T : \A y \in T : ~(y < k)
    BY <2>1, LeastNumber
  <2>3. k # 0 /\ k \in 1..N /\ k - 1 \in 0..N
    BY <1>4, <2>2, <1>8
  <2>4. Good(k - 1)
    BY <2>2, <2>3
  <2> QED
    BY <1>5, <2>2, <2>3, <2>4
<1>7. Good(N)
  <2>1. N \in 0..N
    BY <1>8
  <2> QED
    BY <1>6, <2>1
<1> QED
  BY <1>2, <1>7 DEF Good
-----------------------------------------------------------------------------
(***************************************************************************)
(* The inductive invariant: the tables agree, a library that is not        *)
(* initialized has no interfaces and no users, and the users have          *)
(* interfaces that are usable as long as no reset has failed.              *)
(***************************************************************************)
IsUserTable ==
    /\ users = [u \in DOMAIN users |-> users[u]]
    /\ \A u \in DOMAIN users :
          /\ users[u] = [netints |-> users[u].netints, removing |-> users[u].removing]
          /\ IsInjective(users[u].netints)

AreServed ==
    \A u \in DOMAIN users : ~users[u].removing =>
        \A n \in ToSet(users[u].netints) : Usable(Current, n)

NInv ==
    /\ Agrees(Current)
    /\ ~up => sys_netints = << >> /\ DOMAIN users = {}
    /\ IsUserTable
    /\ settled => AreServed

LEMMA BecomesAgrees ==
  ASSUME NEW st, Agrees(st), Becomes(st), type' = type
  PROVE  Agrees(Current)'
<1> DEFINE new == [sys |-> st.sys, send |-> st.send, unicast |-> st.unicast,
                   open |-> st.open, abandoned |-> st.abandoned, ok |-> TRUE]
<1>1. Agrees(new)
  <2>1. /\ new.sys = st.sys /\ new.send = st.send /\ new.unicast = st.unicast
        /\ new.open = st.open /\ new.abandoned = st.abandoned
        /\ new = [sys |-> new.sys, send |-> new.send, unicast |-> new.unicast,
                  open |-> new.open, abandoned |-> new.abandoned, ok |-> new.ok]
    OBVIOUS
  <2> HIDE DEF new
  <2> QED
    BY <2>1, SameTablesAgree
<1>2. Current' = new
  BY DEF Current, Becomes
<1> HIDE DEF new
<1>3. Agrees(new)'
  BY <1>1 DEF Agrees, IsState, IsOpenTable, Unlisted, Parallel, Matches, Unicasts,
              Accounted, InTables
<1> QED
  BY <1>2, <1>3

LEMMA CurrentFields ==
  /\ Current.sys = sys_netints /\ Current.send = send_sockets
  /\ Current.unicast = unicast_sockets /\ Current.open = open
  /\ Current.abandoned = abandoned
  BY DEF Current

\* The invariant says of the sockets what the runs check.
LEMMA AgreementIsEnough ==
  ASSUME Agrees(Current)
  PROVE  SendSocketsAgree
<1>1. /\ sys_netints \in Seq(Entries) /\ send_sockets \in Seq(Nat)
      /\ unicast_sockets \in [IpTypes -> Nat]
      /\ \A i, j \in DOMAIN sys_netints :
            sys_netints[i].iface = sys_netints[j].iface => i = j
      /\ type = "source" => Len(send_sockets) = Len(sys_netints)
      /\ type # "source" => send_sockets = << >>
  BY CurrentFields DEF Agrees, IsState, Unlisted, Parallel
<1>2. Len(send_sockets) = IF type = "source" THEN Len(sys_netints) ELSE 0
  BY <1>1
<1>3. ASSUME type = "source", NEW n \in Netints
      PROVE  IF Usable(Current, n) THEN SocketFor(n) \in DOMAIN open /\ open[SocketFor(n)] = n
             ELSE SocketFor(n) = NoSocket
  <2>0. n # Invalid
    BY InterfacesAssumption
  <2>1. CASE \E i \in DOMAIN sys_netints : sys_netints[i].iface = n
    <3>1. PICK i \in DOMAIN sys_netints : sys_netints[i].iface = n
      BY <2>1
    <3>2. IndexOf(sys_netints, n) = i
      BY <1>1, <3>1 DEF IndexOf
    <3>3. i # 0
      BY <1>1
    <3>4. SocketFor(n) = send_sockets[i]
      BY <3>2, <3>3 DEF SocketFor
    <3>5. Matches(Current, i)
      BY <1>3, CurrentFields DEF Agrees
    <3>6. sys_netints[i] \in Entries
      BY <1>1
    <3>7. CASE sys_netints[i].status
      <4>1. sys_netints[i] = [iface |-> n, status |-> TRUE]
        <5>1. sys_netints[i].status = TRUE
          BY <3>6, <3>7 DEF Entries
        <5> QED
          BY <3>1, <3>6, <5>1 DEF Entries
      <4>2. Usable(Current, n)
        BY <2>0, <4>1, CurrentFields DEF Usable
      <4>3. send_sockets[i] \in DOMAIN open /\ open[send_sockets[i]] = n
        BY <3>1, <3>5, <3>7, CurrentFields DEF Matches
      <4> QED
        BY <3>4, <4>2, <4>3
    <3>8. CASE ~sys_netints[i].status
      <4>1. ~Usable(Current, n)
        <5> SUFFICES ASSUME NEW j \in DOMAIN sys_netints,
                            sys_netints[j] = [iface |-> n, status |-> TRUE]
                     PROVE  FALSE
          BY CurrentFields DEF Usable
        <5>1. sys_netints[j].iface = n /\ sys_netints[j].status
          OBVIOUS
        <5>2. j = i
          BY <1>1, <3>1, <5>1
        <5> QED
          BY <3>8, <5>1, <5>2
      <4>2. send_sockets[i] = NoSocket
        BY <3>5, <3>8, CurrentFields DEF Matches
      <4> QED
        BY <3>4, <4>1, <4>2
    <3> QED
      BY <3>7, <3>8
  <2>2. CASE ~\E i \in DOMAIN sys_netints : sys_netints[i].iface = n
    <3>1. SocketFor(n) = NoSocket
      BY <2>2 DEF SocketFor, IndexOf
    <3>2. ~Usable(Current, n)
      <4> SUFFICES ASSUME NEW j \in DOMAIN sys_netints,
                          sys_netints[j] = [iface |-> n, status |-> TRUE]
                   PROVE  FALSE
        BY CurrentFields DEF Usable
      <4>1. sys_netints[j].iface = n
        OBVIOUS
      <4> QED
        BY <2>2, <4>1
    <3> QED
      BY <3>1, <3>2
  <2> QED
    BY <2>1, <2>2
<1>4. \A v \in IpTypes : unicast_sockets[v] # NoSocket =>
          unicast_sockets[v] \in DOMAIN open /\ open[unicast_sockets[v]] = v
  BY CurrentFields DEF Agrees, Unicasts
<1>5. SendsOnOwnSocket
  BY <1>1, <1>2, <1>3, <1>4 DEF SendsOnOwnSocket
<1>6. NoSocketIsLost
  BY CurrentFields DEF Agrees, Accounted, InTables, NoSocketIsLost, Range, ToSet
<1> QED
  BY <1>5, <1>6 DEF SendSocketsAgree

LEMMA ListAndResults ==
  ASSUME NEW config, NEW list \in SystemLists, NEW works \in TestResults(config, list)
  PROVE  list \in Seq(Netints) /\ works \in [DOMAIN list -> BOOLEAN]
  BY InterfacesAssumption DEF TestResults

\* The interfaces that are reported as usable have been tested, and every test
\* of one of them has succeeded.
LEMMA ReportedAreUsable ==
  ASSUME Agrees(Current), sys_netints = << >>,
         NEW config \in SysConfigs, NEW list \in SystemLists,
         NEW works \in TestResults(config, list), NEW n \in Reported(config, list, works)
  PROVE  Usable(ApplyNetintConfig(Current, config, list, works), n)
<1> DEFINE new == ApplyNetintConfig(Current, config, list, works)
<1>1. list \in Seq(Netints) /\ works \in [DOMAIN list -> BOOLEAN]
  BY ListAndResults
<1>2. Agrees(new) /\ Tested(new, Len(list), config, list, works)
  BY <1>1, CurrentFields, ApplyAgrees
<1> HIDE DEF new
<1>3. /\ n \in Netints
      /\ \E i \in Selected(config, list) : list[i] = n
      /\ \A i \in Selected(config, list) : list[i] = n => works[i]
  BY DEF Reported
<1>4. PICK i \in Selected(config, list) : list[i] = n
  BY <1>3
<1>5. Selected(config, list) \subseteq DOMAIN list /\ DOMAIN list = 1..Len(list)
  BY <1>1 DEF Selected
<1>6. PICK j \in DOMAIN new.sys : new.sys[j].iface = n
  BY <1>2, <1>4, <1>5 DEF Tested
<1>7. PICK k \in Selected(config, list) :
         new.sys[j] = [iface |-> list[k], status |-> works[k]]
  BY <1>2 DEF Tested
<1>8. list[k] = n
  BY <1>6, <1>7
<1>9. works[k] = TRUE
  BY <1>1, <1>3, <1>5, <1>8
<1>10. new.sys[j] = [iface |-> n, status |-> TRUE]
  BY <1>7, <1>8, <1>9
<1>11. n # Invalid
  BY <1>3, InterfacesAssumption
<1>12. Usable(new, n)
  BY <1>10, <1>11 DEF Usable
<1> QED
  BY <1>12 DEF new

LEMMA InvIsEnough ==
  ASSUME NInv
  PROVE  SendSocketsAgree /\ UsedAreUsable
<1>1. SendSocketsAgree
  BY AgreementIsEnough DEF NInv
<1>2. UsersAreOnUsable
  BY DEF NInv, IsUserTable, AreServed, UsersAreOnUsable
<1>3. ReportsAreTrue
  BY ReportedAreUsable DEF NInv, ReportsAreTrue
<1> QED
  BY <1>1, <1>2, <1>3 DEF UsedAreUsable

\* The interfaces that a user gets.
LEMMA ConfigHasLength ==
  ASSUME NEW st, Agrees(st), NEW config \in UserConfigs \cup {AllNetints}
  PROVE  Len(NetintsToUse(st, config)) \in Nat
<1>1. config.netints \in Seq(Netints \cup {Invalid})
  <2>1. CASE config \in UserConfigs
    BY <2>1, InterfacesAssumption
  <2>2. CASE config = AllNetints
    BY <2>2 DEF AllNetints, Listing
  <2> QED
    BY <2>1, <2>2
<1>2. st.sys \in Seq(Entries)
  BY DEF Agrees, IsState
<1>3. CASE config.no_netints
  <2>1. NetintsToUse(st, config) = << >>
    BY <1>3 DEF NetintsToUse
  <2>2. Len(<< >>) \in Nat
    OBVIOUS
  <2> QED
    BY <2>1, <2>2
<1>4. CASE ~config.no_netints /\ config.netints # << >>
  <2>1. NetintsToUse(st, config) = config.netints
    BY <1>4 DEF NetintsToUse
  <2> QED
    BY <1>1, <2>1
<1>5. CASE ~config.no_netints /\ config.netints = << >>
  <2>1. NetintsToUse(st, config) = [i \in DOMAIN st.sys |-> st.sys[i].iface]
    BY <1>5 DEF NetintsToUse
  <2>2. [i \in DOMAIN st.sys |-> st.sys[i].iface] \in Seq(Netints)
    <3> DEFINE L == Len(st.sys)
    <3>1. L \in Nat /\ DOMAIN st.sys = 1..L
      BY <1>2
    <3>2. \A i \in 1..L : st.sys[i].iface \in Netints
      <4>1. \A i \in 1..L : st.sys[i] \in Entries
        BY <1>2, <3>1
      <4> HIDE DEF L
      <4> QED
        BY <4>1 DEF Entries
    <3> HIDE DEF L
    <3>3. [i \in 1..L |-> st.sys[i].iface] \in Seq(Netints)
      BY <3>1, <3>2, IsASeq
    <3> QED
      BY <3>1, <3>3
  <2> QED
    BY <2>1, <2>2
<1> QED
  BY <1>3, <1>4, <1>5

LEMMA ChosenAreUsable ==
  ASSUME NEW st, Agrees(st), NEW config \in UserConfigs \cup {AllNetints}
  PROVE  /\ IsInjective(InternalNetints(st, config))
         /\ \A n \in ToSet(InternalNetints(st, config)) : Usable(st, n)
<1>1. Len(NetintsToUse(st, config)) \in Nat
  BY ConfigHasLength
<1> QED
  BY <1>1, InternalNetintsAreChoice DEF IsChoice

-----------------------------------------------------------------------------
(***************************************************************************)
(* The steps.                                                              *)
(***************************************************************************)

\* What is usable depends on the list alone.
LEMMA UsableInList ==
  ASSUME NEW st, Becomes(st), NEW n, Usable(st, n)
  PROVE  Usable(Current, n)'
<1>1. Current.sys' = st.sys
  BY DEF Current, Becomes
<1>2. PICK i \in DOMAIN st.sys : st.sys[i] = [iface |-> n, status |-> TRUE]
  BY DEF Usable
<1>3. n # Invalid
  BY DEF Usable
<1> QED
  BY <1>1, <1>2, <1>3 DEF Usable

\* A reset gives the chosen users interfaces of the new list.
LEMMA UsersAreRenewed ==
  ASSUME IsUserTable, NEW st, Agrees(st), Becomes(st), NEW configs,
         DOMAIN configs \subseteq DOMAIN users,
         \A u \in DOMAIN configs : configs[u] \in UserConfigs \cup {AllNetints},
         \A u \in DOMAIN users \ DOMAIN configs : users[u].removing,
         NEW sockets_fail, ResetUsers(st, configs, sockets_fail)
  PROVE  IsUserTable' /\ (settled' => AreServed')
<1> DEFINE chosen == DOMAIN configs
           refused == {u \in chosen : ~Validated(st, configs[u])}
           RenewedIn(done) == [u \in DOMAIN users |->
              IF u \in done THEN Renewed(st, u, configs[u]) ELSE users[u]]
<1>1. PICK done : /\ done \subseteq chosen /\ users' = RenewedIn(done)
                  /\ settled' => done = chosen
  <2>1. \/ refused = {} /\ users' = RenewedIn(chosen) /\ settled' = TRUE
        \/ \E failing \in chosen, done \in SUBSET (chosen \ refused) :
              /\ failing \in refused \/ (sockets_fail /\ failing \in done)
              /\ users' = RenewedIn(done)
              /\ settled' = FALSE
    BY DEF ResetUsers
  <2>2. CASE refused = {} /\ users' = RenewedIn(chosen) /\ settled' = TRUE
    BY <2>2
  <2>3. ASSUME NEW done \in SUBSET (chosen \ refused),
               users' = RenewedIn(done), settled' = FALSE
        PROVE  \E d : /\ d \subseteq chosen /\ users' = RenewedIn(d)
                      /\ settled' => d = chosen
    <3>1. done \subseteq chosen
      OBVIOUS
    <3> QED
      BY <2>3, <3>1
  <2> QED
    BY <2>1, <2>2, <2>3
<1>2. DOMAIN users' = DOMAIN users
  BY <1>1
<1>3. ASSUME NEW u \in DOMAIN users, u \in done
      PROVE  /\ users'[u] = [netints |-> InternalNetints(st, configs[u]),
                             removing |-> users[u].removing]
             /\ IsInjective(InternalNetints(st, configs[u]))
             /\ \A n \in ToSet(InternalNetints(st, configs[u])) : Usable(st, n)
  <2>1. configs[u] \in UserConfigs \cup {AllNetints}
    BY <1>1, <1>3
  <2>2. users'[u] = [users[u] EXCEPT !.netints = InternalNetints(st, configs[u])]
    BY <1>1, <1>3 DEF Renewed
  <2>3. users[u] = [netints |-> users[u].netints, removing |-> users[u].removing]
    BY DEF IsUserTable
  <2> QED
    BY <2>1, <2>2, <2>3, ChosenAreUsable
<1>4. ASSUME NEW u \in DOMAIN users, u \notin done
      PROVE  users'[u] = users[u]
  BY <1>1, <1>4
<1>5. IsUserTable'
  <2>1. users' = [u \in DOMAIN users' |-> users'[u]]
    BY <1>1
  <2>2. ASSUME NEW u \in DOMAIN users'
        PROVE  /\ users'[u] = [netints |-> users'[u].netints, removing |-> users'[u].removing]
               /\ IsInjective(users'[u].netints)
    <3>1. CASE u \in done
      BY <1>2, <1>3, <3>1
    <3>2. CASE u \notin done
      BY <1>2, <1>4, <3>2 DEF IsUserTable
    <3> QED
      BY <3>1, <3>2
  <2> QED
    BY <2>1, <2>2 DEF IsUserTable
<1>6. ASSUME settled', NEW u \in DOMAIN users', ~users'[u].removing,
             NEW n \in ToSet(users'[u].netints)
      PROVE  Usable(Current, n)'
  <2>1. u \in done
    <3> SUFFICES ASSUME u \notin done PROVE FALSE
      OBVIOUS
    <3>1. users[u].removing
      BY <1>1, <1>2, <1>6
    <3> QED
      BY <1>2, <1>4, <1>6, <3>1
  <2>2. users'[u].netints = InternalNetints(st, configs[u])
    BY <1>2, <1>3, <2>1
  <2>3. Usable(st, n)
    BY <1>2, <1>3, <2>1, <2>2
  <2> QED
    BY <2>3, UsableInList
<1>7. settled' => AreServed'
  BY <1>6 DEF AreServed
<1> QED
  BY <1>5, <1>7

\* What sockets_reset makes of the tables.
LEMMA ResetResultAgrees ==
  ASSUME Agrees(Current), NEW st \in ResetResults
  PROVE  Agrees(st)
<1>1. PICK config \in SysConfigs, list \in SystemLists :
         st \in {SocketsReset(config, list, works, made) :
                   works \in TestResults(config, list), made \in UnicastResults(list)}
  BY DEF ResetResults
<1>2. PICK works \in TestResults(config, list), made \in UnicastResults(list) :
         st = SocketsReset(config, list, works, made)
  BY <1>1
<1>3. list \in Seq(Netints) /\ works \in [DOMAIN list -> BOOLEAN]
  BY ListAndResults
<1> QED
  BY <1>2, <1>3, SocketsResetAgrees

LEMMA ConfigsAreKnown ==
  ASSUME NEW chosen, NEW per_user, NEW configs \in [chosen -> ConfigsIf(per_user)]
  PROVE  /\ DOMAIN configs = chosen
         /\ \A u \in chosen : configs[u] \in UserConfigs \cup {AllNetints}
  BY DEF ConfigsIf

LEMMA ResetSourcesStep ==
  ASSUME NInv, up, NEW chosen, chosen \subseteq DOMAIN users,
         \A u \in DOMAIN users \ chosen : users[u].removing,
         NEW per_universe, ResetSources(chosen, per_universe)
  PROVE  NInv'
<1>1. PICK st \in ResetResults, configs \in [chosen -> ConfigsIf(per_universe)] :
         Becomes(st) /\ ResetUsers(st, configs, FALSE)
  BY DEF ResetSources
<1>2. Agrees(st)
  BY ResetResultAgrees DEF NInv
<1>3. type' = type /\ up' = up
  BY DEF ResetSources
<1>4. Agrees(Current)'
  BY <1>1, <1>2, <1>3, BecomesAgrees
<1>5. DOMAIN configs = chosen /\ \A u \in chosen : configs[u] \in UserConfigs \cup {AllNetints}
  BY ConfigsAreKnown
<1>6. IsUserTable' /\ (settled' => AreServed')
  BY <1>1, <1>2, <1>5, UsersAreRenewed DEF NInv
<1> QED
  BY <1>3, <1>4, <1>6 DEF NInv

LEMMA ResetListenersStep ==
  ASSUME NInv, up, NEW per_user, ResetListeners(per_user)
  PROVE  NInv'
<1>1. PICK st \in ResetResults :
         /\ Becomes(st)
         /\ \/ \E configs \in [DOMAIN users -> ConfigsIf(per_user)] :
                  ResetUsers(st, configs, TRUE)
            \/ settled' = FALSE /\ users' = users
  BY DEF ResetListeners
<1>2. Agrees(st)
  BY ResetResultAgrees DEF NInv
<1>3. type' = type /\ up' = up
  BY DEF ResetListeners
<1>4. Agrees(Current)'
  BY <1>1, <1>2, <1>3, BecomesAgrees
<1>5. ASSUME NEW configs \in [DOMAIN users -> ConfigsIf(per_user)],
             ResetUsers(st, configs, TRUE)
      PROVE  IsUserTable' /\ (settled' => AreServed')
  <2>1. /\ DOMAIN configs = DOMAIN users
        /\ \A u \in DOMAIN users : configs[u] \in UserConfigs \cup {AllNetints}
    BY ConfigsAreKnown
  <2>2. DOMAIN users \ DOMAIN configs = {}
    BY <2>1
  <2> QED
    BY <1>1, <1>2, <1>5, <2>1, <2>2, UsersAreRenewed DEF NInv
<1>6. ASSUME settled' = FALSE, users' = users
      PROVE  IsUserTable' /\ (settled' => AreServed')
  BY <1>6 DEF NInv, IsUserTable
<1> QED
  BY <1>1, <1>3, <1>4, <1>5, <1>6 DEF NInv

LEMMA SocketsStartStep ==
  ASSUME NInv, SocketsStart
  PROVE  NInv'
<1>1. PICK config \in SysConfigs, list \in SystemLists, others \in BOOLEAN :
         \E works \in TestResults(config, list), made \in UnicastResults(list) :
            LET started == SocketsReset(config, list, works, made) IN
            /\ up' = (started.ok /\ others)
            /\ Becomes(IF up' THEN started ELSE Cleared(started))
  BY DEF SocketsStart
<1>2. PICK works \in TestResults(config, list), made \in UnicastResults(list) :
            LET started == SocketsReset(config, list, works, made) IN
            /\ up' = (started.ok /\ others)
            /\ Becomes(IF up' THEN started ELSE Cleared(started))
  BY <1>1
<1>3. list \in Seq(Netints) /\ works \in [DOMAIN list -> BOOLEAN]
  BY ListAndResults
<1>4. PICK st : st = SocketsReset(config, list, works, made)
  OBVIOUS
<1>5. Agrees(st) /\ Becomes(IF up' THEN st ELSE Cleared(st))
  BY <1>2, <1>3, <1>4, SocketsResetAgrees DEF NInv
<1>6. ~up /\ type' = type /\ users' = users /\ settled' = settled
  BY DEF SocketsStart
<1>7. Agrees(Cleared(st)) /\ Cleared(st).sys = << >>
  BY <1>5, ClearedAgrees
<1>8. Agrees(Current)' /\ (~up' => sys_netints' = << >>)
  <2>1. CASE up'
    <3>1. Becomes(st)
      BY <1>5, <2>1
    <3> QED
      BY <1>5, <1>6, <2>1, <3>1, BecomesAgrees
  <2>2. CASE ~up'
    <3>1. Becomes(Cleared(st))
      BY <1>5, <2>2
    <3>2. sys_netints' = << >>
      BY <1>7, <3>1 DEF Becomes
    <3> QED
      BY <1>6, <1>7, <3>1, <3>2, BecomesAgrees
  <2> QED
    BY <2>1, <2>2
<1>9. DOMAIN users = {}
  BY <1>6 DEF NInv
<1>10. IsUserTable' /\ AreServed'
  BY <1>6, <1>9 DEF NInv, IsUserTable, AreServed
<1> QED
  BY <1>6, <1>8, <1>9, <1>10 DEF NInv

LEMMA SocketsStopStep ==
  ASSUME NInv, SocketsStop
  PROVE  NInv'
<1>1. PICK st : st = Cleared(Current)
  OBVIOUS
<1>2. Agrees(st) /\ st.sys = << >>
  BY <1>1, ClearedAgrees DEF NInv
<1>3. Becomes(st) /\ type' = type /\ users' = NoUsers /\ up' = FALSE
  BY <1>1 DEF SocketsStop
<1>4. Agrees(Current)' /\ sys_netints' = << >>
  BY <1>2, <1>3, BecomesAgrees DEF Becomes
<1>5. DOMAIN users' = {} /\ users' = [u \in DOMAIN users' |-> users'[u]]
  BY <1>3 DEF NoUsers
<1>6. IsUserTable' /\ AreServed'
  BY <1>5 DEF IsUserTable, AreServed
<1> QED
  BY <1>4, <1>5, <1>6 DEF NInv

\* The steps that leave the tables alone.
LEMMA TablesUnchanged ==
  ASSUME NInv, UNCHANGED <<type, up, networking>>
  PROVE  /\ Agrees(Current)' /\ (~up' => sys_netints' = << >>)
         /\ \A n : Usable(Current, n) => Usable(Current, n)'
<1>1. Current' = Current
  BY DEF networking, Current
<1>2. Agrees(Current)'
  BY <1>1 DEF NInv, Agrees, IsState, IsOpenTable, Unlisted, Parallel, Matches, Unicasts,
              Accounted, InTables
<1>3. \A n : Usable(Current, n) => Usable(Current, n)'
  BY <1>1 DEF Usable
<1> QED
  BY <1>2, <1>3 DEF NInv, networking

LEMMA AddUserStep ==
  ASSUME NInv, NEW u, AddUser(u)
  PROVE  NInv'
<1>1. PICK config \in UserConfigs \cup {AllNetints} :
         users' = With(users, u, [netints |-> InternalNetints(Current, config),
                                  removing |-> FALSE])
  BY DEF AddUser
<1>2. up /\ UNCHANGED <<type, up, networking, settled>> /\ u \notin DOMAIN users
  BY DEF AddUser
<1>3. PICK list : list = InternalNetints(Current, config)
  OBVIOUS
<1>4. IsInjective(list) /\ \A n \in ToSet(list) : Usable(Current, n)
  BY <1>3, ChosenAreUsable DEF NInv
<1>5. /\ DOMAIN users' = DOMAIN users \cup {u}
      /\ users'[u] = [netints |-> list, removing |-> FALSE]
      /\ \A x \in DOMAIN users : users'[x] = users[x]
      /\ users' = [x \in DOMAIN users' |-> users'[x]]
  BY <1>1, <1>2, <1>3 DEF With
<1>6. /\ Agrees(Current)'
      /\ \A n : Usable(Current, n) => Usable(Current, n)'
  BY <1>2, TablesUnchanged
<1>7. IsUserTable'
  <2>1. ASSUME NEW x \in DOMAIN users'
        PROVE  /\ users'[x] = [netints |-> users'[x].netints, removing |-> users'[x].removing]
               /\ IsInjective(users'[x].netints)
    <3>1. CASE x = u
      BY <1>4, <1>5, <3>1
    <3>2. CASE x \in DOMAIN users
      BY <1>5, <3>2 DEF NInv, IsUserTable
    <3> QED
      BY <1>5, <3>1, <3>2
  <2> QED
    BY <1>5, <2>1 DEF IsUserTable
<1>8. ASSUME settled', NEW x \in DOMAIN users', ~users'[x].removing,
             NEW n \in ToSet(users'[x].netints)
      PROVE  Usable(Current, n)'
  <2>1. CASE x = u
    <3>1. users'[x].netints = list
      BY <1>5, <2>1
    <3> QED
      BY <1>4, <1>6, <1>8, <3>1
  <2>2. CASE x \in DOMAIN users
    <3>1. settled /\ users'[x] = users[x]
      BY <1>2, <1>5, <1>8, <2>2
    <3>2. Usable(Current, n)
      BY <1>8, <2>2, <3>1 DEF NInv, AreServed
    <3> QED
      BY <1>6, <3>2
  <2> QED
    BY <1>5, <2>1, <2>2
<1>9. settled' => AreServed'
  BY <1>8 DEF AreServed
<1> QED
  BY <1>2, <1>6, <1>7, <1>9 DEF NInv

LEMMA BeginRemovingStep ==
  ASSUME NInv, NEW u, BeginRemoving(u)
  PROVE  NInv'
<1>1. up /\ UNCHANGED <<type, up, networking, settled>> /\ u \in DOMAIN users
  BY DEF BeginRemoving
<1>2. users' = [users EXCEPT ![u].removing = TRUE]
  BY DEF BeginRemoving
<1>3. /\ DOMAIN users' = DOMAIN users
      /\ users'[u] = [users[u] EXCEPT !.removing = TRUE]
      /\ \A x \in DOMAIN users \ {u} : users'[x] = users[x]
      /\ users' = [x \in DOMAIN users' |-> users'[x]]
  BY <1>1, <1>2
<1>4. users[u] = [netints |-> users[u].netints, removing |-> users[u].removing]
  BY <1>1 DEF NInv, IsUserTable
<1>5. users'[u] = [netints |-> users[u].netints, removing |-> TRUE]
  BY <1>3, <1>4
<1>6. /\ Agrees(Current)'
      /\ \A n : Usable(Current, n) => Usable(Current, n)'
  BY <1>1, TablesUnchanged
<1>7. IsUserTable'
  <2>1. ASSUME NEW x \in DOMAIN users'
        PROVE  /\ users'[x] = [netints |-> users'[x].netints, removing |-> users'[x].removing]
               /\ IsInjective(users'[x].netints)
    <3>1. CASE x = u
      BY <1>1, <1>5, <3>1 DEF NInv, IsUserTable
    <3>2. CASE x # u
      BY <1>3, <3>2 DEF NInv, IsUserTable
    <3> QED
      BY <3>1, <3>2
  <2> QED
    BY <1>3, <2>1 DEF IsUserTable
<1>8. ASSUME settled', NEW x \in DOMAIN users', ~users'[x].removing,
             NEW n \in ToSet(users'[x].netints)
      PROVE  Usable(Current, n)'
  <2>1. x # u
    BY <1>5, <1>8
  <2>2. settled /\ users'[x] = users[x] /\ x \in DOMAIN users
    BY <1>1, <1>3, <1>8, <2>1
  <2>3. Usable(Current, n)
    BY <1>8, <2>2 DEF NInv, AreServed
  <2> QED
    BY <1>6, <2>3
<1>9. settled' => AreServed'
  BY <1>8 DEF AreServed
<1> QED
  BY <1>1, <1>6, <1>7, <1>9 DEF NInv

LEMMA RemoveUserStep ==
  ASSUME NInv, NEW u, RemoveUser(u)
  PROVE  NInv'
<1>1. up /\ UNCHANGED <<type, up, networking, settled>>
  BY DEF RemoveUser
<1>2. users' = [x \in DOMAIN users \ {u} |-> users[x]]
  BY DEF RemoveUser, Restrict
<1>3. DOMAIN users' = DOMAIN users \ {u} /\ \A x \in DOMAIN users' : users'[x] = users[x]
  BY <1>2
<1>4. /\ Agrees(Current)'
      /\ \A n : Usable(Current, n) => Usable(Current, n)'
  BY <1>1, TablesUnchanged
<1>5. IsUserTable'
  BY <1>2, <1>3 DEF NInv, IsUserTable
<1>6. settled' => AreServed'
  BY <1>1, <1>3, <1>4 DEF NInv, AreServed
<1> QED
  BY <1>1, <1>4, <1>5, <1>6 DEF NInv

LEMMA InvInit ==
  ASSUME Init
  PROVE  NInv
<1>1. /\ Current.sys = << >> /\ Current.send = << >> /\ Current.unicast = NoUnicast
      /\ Current.open = [k \in {} |-> Invalid] /\ Current.abandoned = {}
      /\ Current = [sys |-> Current.sys, send |-> Current.send,
                    unicast |-> Current.unicast, open |-> Current.open,
                    abandoned |-> Current.abandoned, ok |-> Current.ok]
  BY DEF Init, Current
<1>2. << >> \in Seq(Entries) /\ << >> \in Seq(Nat) /\ DOMAIN << >> = {} /\ Len(<< >>) = 0
  OBVIOUS
<1>3. NoUnicast \in [IpTypes -> Nat] /\ \A v \in IpTypes : NoUnicast[v] = NoSocket
  BY DEF NoUnicast, NoSocket
<1>4. DOMAIN Current.open = {} /\ IsOpenTable(Current.open)
  <2>1. DOMAIN [k \in {} |-> Invalid] = {} /\ [k \in {} |-> Invalid] \in [{} -> Purposes]
    OBVIOUS
  <2> QED
    BY <1>1, <2>1, FS_EmptySet DEF IsOpenTable
<1>5. IsState(Current)
  BY <1>1, <1>2, <1>3, <1>4 DEF IsState
<1>6. /\ Unlisted(Current) /\ Unicasts(Current) /\ Parallel(Current)
      /\ \A i \in DOMAIN Current.sys : Matches(Current, i)
  BY <1>1, <1>2, <1>3 DEF Unlisted, Unicasts, Parallel
<1>7. InTables(Current) = {}
  <2>1. Range(Current.send) = {}
    BY <1>1, <1>2 DEF Range
  <2> QED
    BY <2>1, <1>1, <1>3 DEF InTables
<1>8. Accounted(Current)
  BY <1>1, <1>4, <1>7 DEF Accounted
<1>9. Agrees(Current)
  BY <1>5, <1>6, <1>8 DEF Agrees
<1>10. DOMAIN users = {} /\ users = [u \in DOMAIN users |-> users[u]]
  BY DEF Init, NoUsers
<1>11. IsUserTable /\ AreServed
  BY <1>10 DEF IsUserTable, AreServed
<1> QED
  BY <1>9, <1>10, <1>11 DEF NInv, Init

LEMMA InvStep ==
  ASSUME NInv, [Next]_vars
  PROVE  NInv'
<1>1. CASE SocketsStart
  BY <1>1, SocketsStartStep
<1>2. CASE SocketsStop
  BY <1>2, SocketsStopStep
<1>3. CASE \E u \in Users : AddUser(u) \/ BeginRemoving(u) \/ RemoveUser(u)
  BY <1>3, AddUserStep, BeginRemovingStep, RemoveUserStep
<1>4. CASE SourceResetNetworking
  <2>1. up /\ ResetSources(DOMAIN users, FALSE)
    BY <1>4 DEF SourceResetNetworking
  <2>2. PICK chosen : chosen = DOMAIN users
    OBVIOUS
  <2>3. ResetSources(chosen, FALSE)
    BY <2>1, <2>2
  <2> QED
    BY <2>1, <2>2, <2>3, ResetSourcesStep
<1>5. CASE SourceResetNetworkingPerUniverse
  <2>1. PICK kept : kept = {u \in DOMAIN users : ~users[u].removing}
    OBVIOUS
  <2>2. up /\ ResetSources(kept, TRUE)
    BY <1>5, <2>1 DEF SourceResetNetworkingPerUniverse
  <2>3. kept \subseteq DOMAIN users /\ \A u \in DOMAIN users \ kept : users[u].removing
    BY <2>1
  <2> QED
    BY <2>2, <2>3, ResetSourcesStep
<1>6. CASE ReceiverResetNetworking
  BY <1>6, ResetListenersStep DEF ReceiverResetNetworking
<1>7. CASE ReceiverResetNetworkingPerReceiver
  BY <1>7, ResetListenersStep DEF ReceiverResetNetworkingPerReceiver
<1>8. CASE DetectorResetNetworking
  BY <1>8, ResetListenersStep DEF DetectorResetNetworking
<1>9. CASE UNCHANGED vars
  <2>1. UNCHANGED <<type, up, networking>> /\ users' = users /\ settled' = settled
    BY <1>9 DEF vars
  <2>2. /\ Agrees(Current)' /\ (~up' => sys_netints' = << >>)
        /\ \A n : Usable(Current, n) => Usable(Current, n)'
    BY <2>1, TablesUnchanged
  <2> QED
    BY <2>1, <2>2 DEF NInv, IsUserTable, AreServed
<1> QED
  BY <1>1, <1>2, <1>3, <1>4, <1>5, <1>6, <1>7, <1>8, <1>9 DEF Next

LEMMA InvHolds == Spec => []NInv
<1>1. Init => NInv
  BY InvInit
<1>2. NInv /\ [Next]_vars => NInv'
  BY InvStep
<1> QED
  BY <1>1, <1>2, PTL DEF Spec

-----------------------------------------------------------------------------
\* Through initializations and networking resets that fail at any point, the
\* table of the sockets (sockets.c, multicast_send_sockets) agrees with the list
\* of interfaces: what is sent on an interface goes through an open socket made
\* for it, and no socket is lost but those that were half made.  For any lists of
\* interfaces that the system may return, and any results of the tests.
THEOREM NetworkInterfacesSendSocketsAgree == Spec => []SendSocketsAgree
<1>1. NInv => SendSocketsAgree
  BY InvIsEnough
<1> QED
  BY <1>1, InvHolds, PTL

\* After a reset that succeeds a user has only usable interfaces, and none twice
\* (sockets.c, sacn_initialize_internal_netints), and what apply_netint_config
\* reports as usable is: for any number of users and any configurations.
THEOREM NetworkInterfacesUsedAreUsable == Spec => []UsedAreUsable
<1>1. NInv => UsedAreUsable
  BY InvIsEnough
<1> QED
  BY <1>1, InvHolds, PTL
==============================================================================
