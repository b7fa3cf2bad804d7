------------------------- MODULE ReceiveThreadProofs -------------------------
(***************************************************************************)
(* The sockets of a receive thread fit its listeners, for any number of    *)
(* receivers, universes, interfaces, sockets and subscriptions per socket. *)
(***************************************************************************)
EXTENDS ReceiveThread, FiniteSetTheorems, SequenceTheorems, WellFoundedInduction, TLAPS

-----------------------------------------------------------------------------
(***************************************************************************)
(* Numbers, sequences and bags.                                            *)
(***************************************************************************)

\* A set of natural numbers that is not empty has a least element.
LEMMA LeastNumber ==
    ASSUME NEW S \in SUBSET Nat, S # {}
    PROVE  \E x \in S : \A y \in S : x <= y
<1>1. PICK x \in S : \A y \in S : ~ (<<y, x>> \in OpToRel(<, Nat))
  BY NatLessThanWellFounded, WFMin, Zenon
<1>2. \A y \in S : ~ (y < x)
  BY <1>1 DEF OpToRel
<1>3. \A y \in S : x <= y
  BY <1>2
<1> QED
  BY <1>3

\* The first of some places is one of them.
LEMMA FirstOfSome ==
    ASSUME NEW I \in SUBSET (Nat \ {0})
    PROVE  /\ I = {} => FirstOf(I) = 0
           /\ I # {} => FirstOf(I) \in I
<1>1. CASE I = {}
  BY <1>1 DEF FirstOf
<1>2. CASE I # {}
  <2>1. I \in SUBSET Nat
    OBVIOUS
  <2>2. \E x \in I : \A y \in I : x <= y
    BY <1>2, <2>1, LeastNumber
  <2> QED
    BY <1>2, <2>2 DEF FirstOf, Min
<1> QED
  BY <1>1, <1>2

\* A sequence without one of its elements.
LEMMA RemoveAtResult ==
    ASSUME NEW S, NEW s \in Seq(S), NEW i \in DOMAIN s
    PROVE  /\ RemoveAt(s, i) \in Seq(S)
           /\ Len(RemoveAt(s, i)) = Len(s) - 1
           /\ DOMAIN RemoveAt(s, i) = 1..(Len(s) - 1)
           /\ \A j \in 1..(Len(s) - 1) :
                 RemoveAt(s, i)[j] = IF j < i THEN s[j] ELSE s[j + 1]
<1>0. Len(s) \in Nat /\ i \in 1..Len(s) /\ DOMAIN s = 1..Len(s)
  OBVIOUS
<1> DEFINE a == SubSeq(s, 1, i - 1)
           b == SubSeq(s, i + 1, Len(s))
<1>1. a \in Seq(S) /\ Len(a) = i - 1 /\ \A j \in 1..(i - 1) : a[j] = s[j]
  BY <1>0
<1>2. b \in Seq(S) /\ Len(b) = Len(s) - i /\ \A j \in 1..(Len(s) - i) : b[j] = s[i + j]
  BY <1>0
<1> HIDE DEF a, b
<1>3. RemoveAt(s, i) = a \o b
  BY DEF RemoveAt, a, b
<1>4. a \o b \in Seq(S) /\ Len(a \o b) = Len(s) - 1
  <2>1. a \o b \in Seq(S) /\ Len(a \o b) = Len(a) + Len(b)
    BY <1>1, <1>2, ConcatProperties
  <2> QED
    BY <1>0, <1>1, <1>2, <2>1
<1>5. ASSUME NEW j \in 1..(Len(s) - 1)
      PROVE  (a \o b)[j] = IF j < i THEN s[j] ELSE s[j + 1]
  <2>1. CASE j < i
    BY <1>0, <1>1, <1>2, <2>1
  <2>2. CASE ~(j < i)
    <3>1. (a \o b)[j] = b[j - (i - 1)]
      BY <1>0, <1>1, <1>2, <2>2
    <3>2. j - (i - 1) \in 1..(Len(s) - i) /\ i + (j - (i - 1)) = j + 1
      BY <1>0, <2>2
    <3> QED
      BY <1>2, <2>2, <3>1, <3>2
  <2> QED
    BY <2>1, <2>2
<1> QED
  BY <1>3, <1>4, <1>5

\* The bags of requests.
Bag == UNION {[S -> Nat \ {0}] : S \in SUBSET Request}

LEMMA BagAdd ==
    ASSUME NEW b \in Bag, NEW R \in SUBSET Request
    PROVE  /\ b (+) SetToBag(R) \in Bag
           /\ DOMAIN (b (+) SetToBag(R)) = DOMAIN b \cup R
<1> DEFINE d == b (+) SetToBag(R)
           S == DOMAIN b \cup R
<1>1. DOMAIN b \in SUBSET Request /\ \A e \in DOMAIN b : b[e] \in Nat \ {0}
  BY DEF Bag
<1>2. d = [e \in S |-> (IF e \in DOMAIN b THEN b[e] ELSE 0) + (IF e \in R THEN 1 ELSE 0)]
  BY DEF (+), SetToBag
<1> HIDE DEF d
<1>3. d \in [S -> Nat \ {0}]
  BY <1>1, <1>2
<1>4. S \in SUBSET Request
  BY <1>1
<1>5. d \in Bag
  BY <1>3, <1>4 DEF Bag
<1> QED
  BY <1>2, <1>5 DEF d

LEMMA BagSubtract ==
    ASSUME NEW b \in Bag, NEW R
    PROVE  /\ b (-) SetToBag(R) \in Bag
           /\ DOMAIN (b (-) SetToBag(R)) \subseteq DOMAIN b
<1> DEFINE d == b (-) SetToBag(R)
           left == [e \in DOMAIN b |-> IF e \in R THEN b[e] - 1 ELSE b[e]]
           S == {e \in DOMAIN b : left[e] > 0}
<1>1. DOMAIN b \in SUBSET Request /\ \A e \in DOMAIN b : b[e] \in Nat \ {0}
  BY DEF Bag
<1>2. d = [e \in S |-> left[e]]
  BY DEF (-), SetToBag
<1>3. \A e \in DOMAIN b : left[e] \in Nat
  BY <1>1
<1> HIDE DEF d, left
<1>4. d \in [S -> Nat \ {0}]
  BY <1>2, <1>3
<1>5. S \in SUBSET Request
  BY <1>1
<1>6. d \in Bag
  BY <1>4, <1>5 DEF Bag
<1> QED
  BY <1>2, <1>6 DEF d

\* Bags that hold everything once behave as sets.
LEMMA SetBagAdd ==
    ASSUME NEW S, NEW R, S \cap R = {}
    PROVE  SetToBag(S) (+) SetToBag(R) = SetToBag(S \cup R)
<1>1. SetToBag(S) (+) SetToBag(R)
        = [e \in S \cup R |-> (IF e \in S THEN 1 ELSE 0) + (IF e \in R THEN 1 ELSE 0)]
  BY DEF (+), SetToBag
<1>2. \A e \in S \cup R : (IF e \in S THEN 1 ELSE 0) + (IF e \in R THEN 1 ELSE 0) = 1
  OBVIOUS
<1> QED
  BY <1>1, <1>2 DEF SetToBag

LEMMA SetBagSubtract ==
    ASSUME NEW S, NEW R
    PROVE  SetToBag(S) (-) SetToBag(R) = SetToBag(S \ R)
<1> DEFINE left == [e \in S |-> IF e \in R THEN 1 - 1 ELSE 1]
<1>1. SetToBag(S) (-) SetToBag(R) = [e \in {x \in S : left[x] > 0} |-> left[e]]
  BY DEF (-), SetToBag
<1>2. {x \in S : left[x] > 0} = S \ R
  OBVIOUS
<1>3. \A e \in S \ R : left[e] = 1
  OBVIOUS
<1> HIDE DEF left
<1> QED
  BY <1>1, <1>2, <1>3 DEF SetToBag

-----------------------------------------------------------------------------
(***************************************************************************)
(* A context whose sockets fit their users.  D are the sockets that wait   *)
(* to be closed; U[l][ip] is the socket that listener l uses, A are open   *)
(* sockets that are nobody's.                                              *)
(***************************************************************************)
Handle == 1..MaxSockets

SocketRef == [handle : Handle, ip : IpTypes, refcount : 1..MaxSubs,
              pending : BOOLEAN, bound : BOOLEAN, polling : BOOLEAN]

DeadSocket == [handle : Handle, ip : IpTypes, bound : BOOLEAN, polling : BOOLEAN]

Context ==
    [refs : Seq(SocketRef), new_refs : Nat, dead : SUBSET DeadSocket, subs : Bag,
     unsubs : Bag, bound : [IpTypes -> BOOLEAN], polls : BOOLEAN,
     open : SUBSET Handle, joined : SUBSET Request, polled : SUBSET Handle]

Using == [Listeners -> [IpTypes -> 0..MaxSockets]]

UsersOf(U, ip, h) == {l \in Listeners : U[l][ip] = h}

RefHandles(c) == {c.refs[i].handle : i \in DOMAIN c.refs}

\* The table: the sockets that wait for the thread are the last ones, handles are
\* given once, and references are counted.
TableFits(c, U) ==
    /\ c.new_refs <= Len(c.refs)
    /\ \A i \in DOMAIN c.refs : c.refs[i].pending <=> i > Len(c.refs) - c.new_refs
    /\ \A i, j \in DOMAIN c.refs : c.refs[i].handle = c.refs[j].handle => i = j
    /\ \A i \in DOMAIN c.refs :
          c.refs[i].refcount = Cardinality(UsersOf(U, c.refs[i].ip, c.refs[i].handle))
    /\ \A l \in Listeners, ip \in IpTypes : U[l][ip] # NoSocket =>
          \E i \in DOMAIN c.refs : c.refs[i].handle = U[l][ip] /\ c.refs[i].ip = ip

\* The open sockets are those of the table, those that wait to be closed, and A.
OpenFit(c, D, A) ==
    /\ D \in SUBSET DeadSocket
    /\ \A s, t \in D : s.handle = t.handle => s = t
    /\ c.open = RefHandles(c) \cup Handles(D) \cup A
    /\ RefHandles(c) \cap Handles(D) = {}
    /\ A \cap (RefHandles(c) \cup Handles(D)) = {}
    /\ c.polled \subseteq c.open

\* With LimitBind one socket of an ip type is bound, or was and waits.
BoundFit(c, D) ==
    LimitBind =>
        /\ \A i, j \in DOMAIN c.refs :
              c.refs[i].bound /\ c.refs[j].bound /\ c.refs[i].ip = c.refs[j].ip => i = j
        /\ \A ip \in IpTypes :
              c.bound[ip] <=> \E i \in DOMAIN c.refs : c.refs[i].ip = ip /\ c.refs[i].bound
        /\ \A i \in DOMAIN c.refs :
              c.bound[c.refs[i].ip] \/ \E s \in D : s.ip = c.refs[i].ip /\ s.bound

Fits(c, D, U, A) ==
    c \in Context /\ TableFits(c, U) /\ OpenFit(c, D, A) /\ BoundFit(c, D)

\* A bound socket that the thread has seen is polled, except those in F; while
\* there is no thread it has seen none.
Polled(c, F) ==
    /\ c.polls => \A i \in DOMAIN c.refs :
          c.refs[i].bound /\ ~c.refs[i].pending /\ c.refs[i].handle \notin F =>
              c.refs[i].handle \in c.polled
    /\ ~c.polls => c.new_refs = Len(c.refs)

\* What a call keeps of that.
Keeps(c, d) == d.polls = c.polls /\ \A F : Polled(c, F) => Polled(d, F)

\* The queues lead to the subscriptions W: a request is in one place only, and
\* what is to be left has been joined.
Listening(c, W) ==
    /\ (c.joined \ DOMAIN c.unsubs) \cup DOMAIN c.subs = W
    /\ DOMAIN c.unsubs \subseteq c.joined
    /\ DOMAIN c.subs \cap c.joined = {}
    /\ c.subs = SetToBag(DOMAIN c.subs)
    /\ c.unsubs = SetToBag(DOMAIN c.unsubs)
    /\ \A r \in c.joined : r.handle \in c.open
    /\ ~c.polls => c.joined = {}

\* The sockets of two contexts are the same.
SameSockets(c, d) ==
    /\ d.refs = c.refs /\ d.new_refs = c.new_refs /\ d.dead = c.dead
    /\ d.bound = c.bound /\ d.polls = c.polls /\ d.open = c.open /\ d.polled = c.polled

LEMMA SameFits ==
    ASSUME NEW c, NEW d \in Context, SameSockets(c, d), NEW D, NEW U, NEW A, Fits(c, D, U, A)
    PROVE  Fits(d, D, U, A) /\ Keeps(c, d)
<1>1. TableFits(d, U)
  BY DEF SameSockets, Fits, TableFits
<1>2. RefHandles(d) = RefHandles(c)
  BY DEF SameSockets, RefHandles
<1>3. OpenFit(d, D, A)
  BY <1>2 DEF SameSockets, Fits, OpenFit
<1>4. BoundFit(d, D)
  BY DEF SameSockets, Fits, BoundFit
<1>5. ASSUME NEW F, Polled(c, F) PROVE Polled(d, F)
  BY <1>5 DEF SameSockets, Polled
<1> QED
  BY <1>1, <1>3, <1>4, <1>5 DEF Fits, Keeps, SameSockets

LEMMA KeepsTransitive ==
    ASSUME NEW c, NEW d, NEW e, Keeps(c, d), Keeps(d, e)
    PROVE  Keeps(c, e)
  BY DEF Keeps

\* The interface and the universe of a call make requests.
LEMMA RequestsType ==
    ASSUME NEW h \in Handle, NEW universe \in Universes \cup {Discovery}, NEW ip,
           NEW netints \in SUBSET Netints
    PROVE  Requests(h, universe, ip, netints) \in SUBSET Request
  BY DEF Requests, Request, Handle

LEMMA QueueResult ==
    ASSUME NEW c \in Context, NEW reqs \in SUBSET Request
    PROVE  LET d == QueueSubscription(c, reqs) IN d \in Context /\ SameSockets(c, d)
<1> DEFINE cancelled == QueuedIn(c.unsubs, reqs)
           u == c.unsubs (-) SetToBag(cancelled)
           s == c.subs (+) SetToBag(reqs \ cancelled)
           d == QueueSubscription(c, reqs)
<1>1. u \in Bag /\ s \in Bag
  BY BagAdd, BagSubtract DEF Context
<1>2. d = [c EXCEPT !.unsubs = u, !.subs = s]
  BY DEF QueueSubscription, Subscribed
<1> HIDE DEF u, s, d
<1> QED
  BY <1>1, <1>2 DEF Context, SameSockets, d

LEMMA UnsubscribeResult ==
    ASSUME NEW c \in Context, NEW reqs \in SUBSET Request, NEW now \in BOOLEAN
    PROVE  LET d == UnsubscribeSocket(c, reqs, now) IN d \in Context /\ SameSockets(c, d)
<1> DEFINE cancelled == QueuedIn(c.subs, reqs)
           s == c.subs (-) SetToBag(cancelled)
           j == IF now THEN c.joined \ (reqs \ cancelled) ELSE c.joined
           u == IF now THEN c.unsubs ELSE c.unsubs (+) SetToBag(reqs \ cancelled)
           d == UnsubscribeSocket(c, reqs, now)
<1>1. u \in Bag /\ s \in Bag /\ j \in SUBSET Request
  <2>1. c.subs \in Bag /\ c.unsubs \in Bag /\ c.joined \in SUBSET Request
    BY DEF Context
  <2>2. reqs \ cancelled \in SUBSET Request
    OBVIOUS
  <2> QED
    BY <2>1, <2>2, BagAdd, BagSubtract
<1>2. d = [c EXCEPT !.subs = s, !.joined = j, !.unsubs = u]
  BY DEF UnsubscribeSocket, Unsubscribed
<1> HIDE DEF u, s, j, d
<1> QED
  BY <1>1, <1>2 DEF Context, SameSockets, d

\* Subscriptions that nobody asked for yet are added to those the queues lead to.
LEMMA QueueListens ==
    ASSUME NEW c \in Context, NEW reqs \in SUBSET Request, NEW W, Listening(c, W),
           reqs \cap W = {}
    PROVE  Listening(QueueSubscription(c, reqs), W \cup reqs)
<1> DEFINE cancelled == QueuedIn(c.unsubs, reqs)
           d == QueueSubscription(c, reqs)
           S == DOMAIN c.subs
           N == DOMAIN c.unsubs
<1>1. cancelled = reqs \cap N
  BY DEF QueuedIn, BagIn, BagToSet
<1>2. S \cap (reqs \ cancelled) = {}
  BY DEF Listening
<1>3. d.subs = SetToBag(S \cup (reqs \ cancelled))
  BY <1>2, SetBagAdd DEF QueueSubscription, Subscribed, Context, Listening
<1>4. d.unsubs = SetToBag(N \ cancelled)
  BY SetBagSubtract DEF QueueSubscription, Subscribed, Context, Listening
<1>5. d.joined = c.joined /\ d.open = c.open /\ d.polls = c.polls
  BY DEF QueueSubscription, Subscribed, Context
<1>6. DOMAIN d.subs = S \cup (reqs \ cancelled) /\ DOMAIN d.unsubs = N \ cancelled
  BY <1>3, <1>4 DEF SetToBag
<1> HIDE DEF d, cancelled
<1>7. DOMAIN d.subs \cap d.joined = {}
  BY <1>1, <1>5, <1>6 DEF Listening
<1>8. (d.joined \ DOMAIN d.unsubs) \cup DOMAIN d.subs = W \cup reqs
  BY <1>1, <1>5, <1>6 DEF Listening
<1>9. Listening(d, W \cup reqs)
  BY <1>3, <1>4, <1>5, <1>6, <1>7, <1>8 DEF Listening
<1> QED
  BY <1>9 DEF d

\* Subscriptions that were asked for are taken from them.
LEMMA UnsubscribeListens ==
    ASSUME NEW c \in Context, NEW reqs \in SUBSET Request, NEW now \in BOOLEAN, NEW W,
           Listening(c, W), reqs \subseteq W, now => ~c.polls
    PROVE  Listening(UnsubscribeSocket(c, reqs, now), W \ reqs)
<1> DEFINE cancelled == QueuedIn(c.subs, reqs)
           d == UnsubscribeSocket(c, reqs, now)
           S == DOMAIN c.subs
           N == DOMAIN c.unsubs
<1>1. cancelled = reqs \cap S
  BY DEF QueuedIn, BagIn, BagToSet
<1>2. N \cap (reqs \ cancelled) = {}
  BY <1>1 DEF Listening
<1>3. d.subs = SetToBag(S \ cancelled)
  BY SetBagSubtract DEF UnsubscribeSocket, Unsubscribed, Context, Listening
<1>4. d.joined = c.joined /\ d.open = c.open /\ d.polls = c.polls
  <2>1. d.open = c.open /\ d.polls = c.polls
    BY DEF UnsubscribeSocket, Unsubscribed, Context
  <2>2. d.joined = IF now THEN c.joined \ (reqs \ cancelled) ELSE c.joined
    BY DEF UnsubscribeSocket, Unsubscribed, Context
  <2>3. now => c.joined = {}
    BY DEF Listening
  <2> HIDE DEF d
  <2> QED
    BY <2>1, <2>2, <2>3
<1>5. d.unsubs = SetToBag(N \cup (reqs \ cancelled))
  <2>1. d.unsubs = IF now THEN c.unsubs ELSE c.unsubs (+) SetToBag(reqs \ cancelled)
    BY DEF UnsubscribeSocket, Unsubscribed, Context
  <2>2. CASE now
    <3>1. c.joined = {} /\ N = {}
      BY <2>2 DEF Listening
    <3>2. reqs \ cancelled = {}
      BY <1>1, <3>1 DEF Listening
    <3> QED
      BY <2>1, <2>2, <3>1, <3>2 DEF Listening
  <2>3. CASE ~now
    BY <1>2, <2>1, <2>3, SetBagAdd DEF Listening
  <2> QED
    BY <2>2, <2>3
<1>6. DOMAIN d.subs = S \ cancelled /\ DOMAIN d.unsubs = N \cup (reqs \ cancelled)
  BY <1>3, <1>5 DEF SetToBag
<1> HIDE DEF d, cancelled
<1>7. DOMAIN d.unsubs \subseteq d.joined
  BY <1>1, <1>4, <1>6 DEF Listening
<1>8. (d.joined \ DOMAIN d.unsubs) \cup DOMAIN d.subs = W \ reqs
  BY <1>1, <1>4, <1>6 DEF Listening
<1>9. Listening(d, W \ reqs)
  <2>1. DOMAIN d.subs \cap d.joined = {}
    BY <1>4, <1>6 DEF Listening
  <2> QED
    BY <1>3, <1>4, <1>5, <1>6, <1>7, <1>8, <2>1 DEF Listening
<1> QED
  BY <1>9 DEF d

-----------------------------------------------------------------------------
(***************************************************************************)
(* Users of sockets, and their count.                                      *)
(***************************************************************************)
Use(U, l, ip, h) == [U EXCEPT ![l][ip] = h]

LEMMA UseType ==
    ASSUME NEW U \in Using, NEW l \in Listeners, NEW ip \in IpTypes, NEW h \in 0..MaxSockets
    PROVE  /\ Use(U, l, ip, h) \in Using
           /\ \A m \in Listeners, v \in IpTypes :
                 Use(U, l, ip, h)[m][v] = IF m = l /\ v = ip THEN h ELSE U[m][v]
  BY DEF Use, Using

LEMMA UsersFinite ==
    ASSUME NEW U, NEW ip, NEW h
    PROVE  IsFiniteSet(UsersOf(U, ip, h)) /\ Cardinality(UsersOf(U, ip, h)) \in Nat
<1>1. IsFiniteSet(Listeners)
  BY ReceiveThreadAssumption, FS_AddElement DEF Listeners
<1>2. UsersOf(U, ip, h) \subseteq Listeners
  BY DEF UsersOf
<1> QED
  BY <1>1, <1>2, FS_Subset, FS_CardinalityType

LEMMA UsersElsewhere ==
    ASSUME NEW U \in Using, NEW l \in Listeners, NEW ip \in IpTypes, NEW h \in 0..MaxSockets,
           NEW v \in IpTypes, NEW k, v = ip => k # h /\ k # U[l][ip]
    PROVE  UsersOf(Use(U, l, ip, h), v, k) = UsersOf(U, v, k)
<1> DEFINE V == Use(U, l, ip, h)
<1>1. \A m \in Listeners : V[m][v] = IF m = l /\ v = ip THEN h ELSE U[m][v]
  BY UseType
<1> HIDE DEF V
<1>2. UsersOf(V, v, k) = UsersOf(U, v, k)
  BY <1>1 DEF UsersOf
<1> QED
  BY <1>2 DEF V

LEMMA UserLess ==
    ASSUME NEW U \in Using, NEW l \in Listeners, NEW ip \in IpTypes, U[l][ip] # NoSocket
    PROVE  /\ UsersOf(Use(U, l, ip, NoSocket), ip, U[l][ip]) = UsersOf(U, ip, U[l][ip]) \ {l}
           /\ Cardinality(UsersOf(Use(U, l, ip, NoSocket), ip, U[l][ip]))
                = Cardinality(UsersOf(U, ip, U[l][ip])) - 1
<1> DEFINE V == Use(U, l, ip, NoSocket)
           h == U[l][ip]
<1>0. NoSocket \in 0..MaxSockets
  BY ReceiveSocketsAssumption DEF NoSocket
<1>1. \A m \in Listeners : V[m][ip] = IF m = l THEN NoSocket ELSE U[m][ip]
  BY <1>0, UseType
<1> HIDE DEF V
<1>2. UsersOf(V, ip, h) = UsersOf(U, ip, h) \ {l} /\ l \in UsersOf(U, ip, h)
  BY <1>1 DEF UsersOf
<1>3. Cardinality(UsersOf(V, ip, h)) = Cardinality(UsersOf(U, ip, h)) - 1
  BY <1>2, UsersFinite, FS_RemoveElement
<1> QED
  BY <1>2, <1>3 DEF V

LEMMA UserMore ==
    ASSUME NEW U \in Using, NEW l \in Listeners, NEW ip \in IpTypes, NEW h \in Handle,
           U[l][ip] # h
    PROVE  /\ UsersOf(Use(U, l, ip, h), ip, h) = UsersOf(U, ip, h) \cup {l}
           /\ Cardinality(UsersOf(Use(U, l, ip, h), ip, h)) = Cardinality(UsersOf(U, ip, h)) + 1
<1> DEFINE V == Use(U, l, ip, h)
<1>1. \A m \in Listeners : V[m][ip] = IF m = l THEN h ELSE U[m][ip]
  BY UseType DEF Handle
<1> HIDE DEF V
<1>2. UsersOf(V, ip, h) = UsersOf(U, ip, h) \cup {l} /\ l \notin UsersOf(U, ip, h)
  BY <1>1 DEF UsersOf
<1>3. Cardinality(UsersOf(V, ip, h)) = Cardinality(UsersOf(U, ip, h)) + 1
  BY <1>2, UsersFinite, FS_AddElement
<1> QED
  BY <1>2, <1>3 DEF V

\* What is known of a place of the table.
LEMMA RefType ==
    ASSUME NEW c \in Context, NEW i \in DOMAIN c.refs
    PROVE  /\ c.refs[i] \in SocketRef
           /\ c.refs[i].handle \in Handle /\ c.refs[i].handle # NoSocket
           /\ c.refs[i].handle \in 0..MaxSockets /\ c.refs[i].ip \in IpTypes
           /\ c.refs[i].refcount \in 1..MaxSubs
           /\ i \in 1..Len(c.refs) /\ Len(c.refs) \in Nat /\ DOMAIN c.refs = 1..Len(c.refs)
<1>1. c.refs \in Seq(SocketRef)
  BY DEF Context
<1>2. c.refs[i] \in SocketRef
  BY <1>1
<1>3. i \in 1..Len(c.refs) /\ Len(c.refs) \in Nat /\ DOMAIN c.refs = 1..Len(c.refs)
  BY <1>1
<1> QED
  BY <1>2, <1>3, ReceiveSocketsAssumption DEF SocketRef, Handle, NoSocket

LEMMA TableType ==
    ASSUME NEW c \in Context
    PROVE  /\ c.refs \in Seq(SocketRef) /\ Len(c.refs) \in Nat
           /\ DOMAIN c.refs = 1..Len(c.refs) /\ c.new_refs \in Nat
           /\ DOMAIN c.refs \in SUBSET (Nat \ {0})
  BY DEF Context

-----------------------------------------------------------------------------
(***************************************************************************)
(* A reference more or less.                                               *)
(***************************************************************************)
WithRefcount(c, i, n) == [c EXCEPT !.refs[i].refcount = n]

LEMMA RefcountResult ==
    ASSUME NEW c \in Context, NEW i \in DOMAIN c.refs, NEW n \in 1..MaxSubs
    PROVE  LET d == WithRefcount(c, i, n)
           IN  /\ d \in Context /\ DOMAIN d.refs = DOMAIN c.refs /\ Len(d.refs) = Len(c.refs)
               /\ \A j \in DOMAIN c.refs : d.refs[j] =
                     IF j = i THEN [c.refs[i] EXCEPT !.refcount = n] ELSE c.refs[j]
               /\ d.new_refs = c.new_refs /\ d.dead = c.dead /\ d.subs = c.subs
               /\ d.unsubs = c.unsubs /\ d.bound = c.bound /\ d.polls = c.polls
               /\ d.open = c.open /\ d.joined = c.joined /\ d.polled = c.polled
<1> DEFINE r == [c.refs EXCEPT ![i] = [c.refs[i] EXCEPT !.refcount = n]]
           d == WithRefcount(c, i, n)
<1>1. d = [c EXCEPT !.refs = r]
  BY DEF WithRefcount, Context
<1>2. [c.refs[i] EXCEPT !.refcount = n] \in SocketRef
  BY RefType DEF SocketRef
<1>3. r \in Seq(SocketRef) /\ Len(r) = Len(c.refs) /\ DOMAIN r = DOMAIN c.refs
  BY <1>2, TableType
<1>4. \A j \in DOMAIN c.refs : r[j] =
         IF j = i THEN [c.refs[i] EXCEPT !.refcount = n] ELSE c.refs[j]
  BY TableType
<1> HIDE DEF r, d
<1> QED
  BY <1>1, <1>3, <1>4 DEF Context, d

LEMMA RefcountFits ==
    ASSUME NEW c, NEW i \in DOMAIN c.refs, NEW n \in 1..MaxSubs, NEW D, NEW U \in Using, NEW A,
           Fits(c, D, U, A), NEW V \in Using,
           n = Cardinality(UsersOf(V, c.refs[i].ip, c.refs[i].handle)),
           \A j \in DOMAIN c.refs \ {i} :
              UsersOf(V, c.refs[j].ip, c.refs[j].handle)
                = UsersOf(U, c.refs[j].ip, c.refs[j].handle),
           \A l \in Listeners, ip \in IpTypes :
              \/ V[l][ip] \in {NoSocket, U[l][ip]}
              \/ V[l][ip] = c.refs[i].handle /\ ip = c.refs[i].ip
    PROVE  Fits(WithRefcount(c, i, n), D, V, A) /\ Keeps(c, WithRefcount(c, i, n))
<1> DEFINE d == WithRefcount(c, i, n)
<1>0. c \in Context
  BY DEF Fits
<1>1. /\ d \in Context /\ DOMAIN d.refs = DOMAIN c.refs /\ Len(d.refs) = Len(c.refs)
      /\ \A j \in DOMAIN c.refs : d.refs[j] =
            IF j = i THEN [c.refs[i] EXCEPT !.refcount = n] ELSE c.refs[j]
      /\ d.new_refs = c.new_refs /\ d.dead = c.dead /\ d.bound = c.bound
      /\ d.polls = c.polls /\ d.open = c.open /\ d.polled = c.polled
  BY <1>0, RefcountResult
<1> HIDE DEF d
<1>2. \A j \in DOMAIN c.refs :
         /\ d.refs[j].handle = c.refs[j].handle /\ d.refs[j].ip = c.refs[j].ip
         /\ d.refs[j].pending = c.refs[j].pending /\ d.refs[j].bound = c.refs[j].bound
         /\ d.refs[j].refcount = IF j = i THEN n ELSE c.refs[j].refcount
  BY <1>0, <1>1, RefType DEF SocketRef
<1>3. TableFits(d, V)
  <2>1. \A j \in DOMAIN d.refs :
           d.refs[j].refcount = Cardinality(UsersOf(V, d.refs[j].ip, d.refs[j].handle))
    BY <1>1, <1>2 DEF Fits, TableFits
  <2>2. ASSUME NEW l \in Listeners, NEW ip \in IpTypes, V[l][ip] # NoSocket
        PROVE  \E j \in DOMAIN d.refs : d.refs[j].handle = V[l][ip] /\ d.refs[j].ip = ip
    BY <1>1, <1>2, <2>2 DEF Fits, TableFits
  <2>3. \A j \in DOMAIN d.refs : d.refs[j].pending <=> j > Len(d.refs) - d.new_refs
    BY <1>1, <1>2 DEF Fits, TableFits
  <2>4. \A j, k \in DOMAIN d.refs : d.refs[j].handle = d.refs[k].handle => j = k
    BY <1>1, <1>2 DEF Fits, TableFits
  <2> QED
    BY <1>1, <2>1, <2>2, <2>3, <2>4 DEF Fits, TableFits
<1>4. RefHandles(d) = RefHandles(c)
  BY <1>1, <1>2 DEF RefHandles
<1>5. OpenFit(d, D, A)
  BY <1>1, <1>4 DEF Fits, OpenFit
<1>6. BoundFit(d, D)
  <2> SUFFICES ASSUME LimitBind PROVE BoundFit(d, D)
    BY DEF BoundFit
  <2>1. \A j, k \in DOMAIN d.refs :
           d.refs[j].bound /\ d.refs[k].bound /\ d.refs[j].ip = d.refs[k].ip => j = k
    BY <1>1, <1>2 DEF Fits, BoundFit
  <2>2. \A ip \in IpTypes :
           d.bound[ip] <=> \E j \in DOMAIN d.refs : d.refs[j].ip = ip /\ d.refs[j].bound
    BY <1>1, <1>2 DEF Fits, BoundFit
  <2>3. \A j \in DOMAIN d.refs :
           d.bound[d.refs[j].ip] \/ \E s \in D : s.ip = d.refs[j].ip /\ s.bound
    BY <1>1, <1>2 DEF Fits, BoundFit
  <2> QED
    BY <2>1, <2>2, <2>3 DEF BoundFit
<1>7. ASSUME NEW F, Polled(c, F) PROVE Polled(d, F)
  BY <1>1, <1>2, <1>7 DEF Polled
<1> QED
  BY <1>1, <1>3, <1>5, <1>6, <1>7 DEF Fits, Keeps, d

\* Where the places of a table are when place i is taken out.
OldPlace(i, j) == IF j < i THEN j ELSE j + 1

LEMMA OldPlaces ==
    ASSUME NEW n \in Nat, NEW i \in 1..n
    PROVE  /\ \A j \in 1..(n - 1) : OldPlace(i, j) \in 1..n /\ OldPlace(i, j) # i
           /\ \A j, k \in 1..(n - 1) : OldPlace(i, j) = OldPlace(i, k) => j = k
           /\ \A k \in 1..n : k # i => \E j \in 1..(n - 1) : OldPlace(i, j) = k
<1>1. \A j \in 1..(n - 1) : OldPlace(i, j) \in 1..n /\ OldPlace(i, j) # i
  BY DEF OldPlace
<1>2. \A j, k \in 1..(n - 1) : OldPlace(i, j) = OldPlace(i, k) => j = k
  BY DEF OldPlace
<1>3. ASSUME NEW k \in 1..n, k # i PROVE \E j \in 1..(n - 1) : OldPlace(i, j) = k
  <2>1. CASE k < i
    <3>1. k \in 1..(n - 1) /\ OldPlace(i, k) = k
      BY <2>1 DEF OldPlace
    <3> QED
      BY <3>1
  <2>2. CASE k > i
    <3>1. k - 1 \in 1..(n - 1) /\ OldPlace(i, k - 1) = k
      BY <2>2 DEF OldPlace
    <3> QED
      BY <3>1
  <2> QED
    BY <1>3, <2>1, <2>2
<1> QED
  BY <1>1, <1>2, <1>3

LEMMA DropResult ==
    ASSUME NEW c \in Context, NEW i \in DOMAIN c.refs,
           c.refs[i].pending => c.new_refs > 0
    PROVE  LET ref == c.refs[i]
               d == DropRef(c, i, ref)
           IN  /\ d \in Context
               /\ DOMAIN d.refs = 1..(Len(c.refs) - 1) /\ Len(d.refs) = Len(c.refs) - 1
               /\ \A j \in DOMAIN d.refs : d.refs[j] = c.refs[OldPlace(i, j)]
               /\ d.new_refs = c.new_refs - (IF ref.pending THEN 1 ELSE 0)
               /\ \A ip \in IpTypes :
                     d.bound[ip] <=> c.bound[ip] /\ ~(ip = ref.ip /\ LimitBind /\ ref.bound)
               /\ d.dead = c.dead /\ d.subs = c.subs /\ d.unsubs = c.unsubs
               /\ d.polls = c.polls /\ d.open = c.open /\ d.joined = c.joined
               /\ d.polled = c.polled
<1> DEFINE ref == c.refs[i]
           r == RemoveAt(c.refs, i)
           n == c.new_refs - (IF ref.pending THEN 1 ELSE 0)
           off == LimitBind /\ ref.bound
           b == [c.bound EXCEPT ![ref.ip] = c.bound[ref.ip] /\ ~off]
           d == DropRef(c, i, ref)
<1>1. d = [c EXCEPT !.refs = r, !.new_refs = n, !.bound = b]
  BY DEF DropRef, Context
<1>2. /\ r \in Seq(SocketRef) /\ Len(r) = Len(c.refs) - 1
      /\ DOMAIN r = 1..(Len(c.refs) - 1)
      /\ \A j \in DOMAIN r : r[j] = c.refs[OldPlace(i, j)]
  <2>1. c.refs \in Seq(SocketRef)
    BY TableType
  <2>2. /\ r \in Seq(SocketRef) /\ Len(r) = Len(c.refs) - 1
        /\ DOMAIN r = 1..(Len(c.refs) - 1)
        /\ \A j \in 1..(Len(c.refs) - 1) : r[j] = IF j < i THEN c.refs[j] ELSE c.refs[j + 1]
    BY <2>1, RemoveAtResult
  <2> HIDE DEF r
  <2> QED
    BY <2>2 DEF OldPlace
<1>3. n \in Nat
  BY TableType
<1>4. ref.ip \in IpTypes /\ c.bound \in [IpTypes -> BOOLEAN]
  BY RefType DEF Context
<1>5. b \in [IpTypes -> BOOLEAN] /\ \A ip \in IpTypes : b[ip] <=> c.bound[ip] /\ ~(ip = ref.ip /\ off)
  <2> HIDE DEF off
  <2> QED
    BY <1>4
<1> HIDE DEF r, n, b, d
<1>6. d \in Context
  BY <1>1, <1>2, <1>3, <1>5 DEF Context
<1>7. d.refs = r /\ d.new_refs = n /\ d.bound = b
  BY <1>1 DEF Context
<1>8. /\ d.dead = c.dead /\ d.subs = c.subs /\ d.unsubs = c.unsubs
      /\ d.polls = c.polls /\ d.open = c.open /\ d.joined = c.joined
      /\ d.polled = c.polled
  BY <1>1 DEF Context
<1> QED
  BY <1>2, <1>5, <1>6, <1>7, <1>8 DEF n, d

\* One element moves from a set to another.
LEMMA MovedMember ==
    ASSUME NEW R, NEW H, NEW A, NEW h \in R, R \cap H = {}, A \cap (R \cup H) = {}
    PROVE  /\ R \cup H \cup A = (R \ {h}) \cup (H \cup {h}) \cup A
           /\ (R \ {h}) \cap (H \cup {h}) = {}
           /\ A \cap ((R \ {h}) \cup (H \cup {h})) = {}
  OBVIOUS

\* When its last user goes, a socket leaves the table and waits to be closed.
LEMMA DropFits ==
    ASSUME NEW c, NEW i \in DOMAIN c.refs, NEW D, NEW U \in Using, NEW A, Fits(c, D, U, A),
           NEW l \in Listeners, U[l][c.refs[i].ip] = c.refs[i].handle,
           c.refs[i].refcount <= 1
    PROVE  LET d == DropRef(c, i, c.refs[i])
           IN  /\ Fits(d, D \cup {SocketOf(c.refs[i])},
                       Use(U, l, c.refs[i].ip, NoSocket), A)
               /\ Keeps(c, d)
<1> DEFINE ref == c.refs[i]
           h == ref.handle
           ip == ref.ip
           s == SocketOf(ref)
           V == Use(U, l, ip, NoSocket)
           d == DropRef(c, i, ref)
           T == Len(c.refs) - c.new_refs
<1>1. /\ c \in Context /\ ref \in SocketRef /\ h \in Handle /\ h # NoSocket /\ ip \in IpTypes
      /\ ref.refcount = 1
  BY RefType DEF Fits
<1>2. /\ Len(c.refs) \in Nat /\ DOMAIN c.refs = 1..Len(c.refs) /\ c.new_refs \in Nat
      /\ i \in 1..Len(c.refs) /\ c.new_refs <= Len(c.refs)
  BY <1>1, TableType DEF Fits, TableFits
<1>3. \A j \in DOMAIN c.refs : c.refs[j].pending <=> j > T
  BY DEF Fits, TableFits
<1>4. ref.pending => c.new_refs > 0
  BY <1>2, <1>3
<1>5. /\ d \in Context
      /\ DOMAIN d.refs = 1..(Len(c.refs) - 1) /\ Len(d.refs) = Len(c.refs) - 1
      /\ \A j \in DOMAIN d.refs : d.refs[j] = c.refs[OldPlace(i, j)]
      /\ d.new_refs = c.new_refs - (IF ref.pending THEN 1 ELSE 0)
      /\ \A v \in IpTypes : d.bound[v] <=> c.bound[v] /\ ~(v = ip /\ LimitBind /\ ref.bound)
      /\ d.polls = c.polls /\ d.open = c.open /\ d.polled = c.polled
  BY <1>1, <1>4, DropResult
<1>6. /\ \A j \in DOMAIN d.refs : OldPlace(i, j) \in DOMAIN c.refs /\ OldPlace(i, j) # i
      /\ \A j, k \in DOMAIN d.refs : OldPlace(i, j) = OldPlace(i, k) => j = k
      /\ \A k \in DOMAIN c.refs : k # i => \E j \in DOMAIN d.refs : OldPlace(i, j) = k
  <2>1. /\ \A j \in 1..(Len(c.refs) - 1) :
              OldPlace(i, j) \in 1..Len(c.refs) /\ OldPlace(i, j) # i
        /\ \A j, k \in 1..(Len(c.refs) - 1) : OldPlace(i, j) = OldPlace(i, k) => j = k
        /\ \A k \in 1..Len(c.refs) :
              k # i => \E j \in 1..(Len(c.refs) - 1) : OldPlace(i, j) = k
    BY <1>2, OldPlaces
  <2>2. DOMAIN d.refs = 1..(Len(c.refs) - 1) /\ DOMAIN c.refs = 1..Len(c.refs)
    BY <1>2, <1>5
  <2> HIDE DEF d
  <2> QED
    BY <2>1, <2>2
<1>7. /\ V \in Using
      /\ \A m \in Listeners, v \in IpTypes : V[m][v] = IF m = l /\ v = ip THEN NoSocket ELSE U[m][v]
  <2>1. NoSocket \in 0..MaxSockets
    BY ReceiveSocketsAssumption DEF NoSocket
  <2> QED
    BY <1>1, <2>1, UseType
<1>8. UsersOf(V, ip, h) = {}
  <2>1. Cardinality(UsersOf(U, ip, h)) = 1
    BY <1>1 DEF Fits, TableFits
  <2>2. Cardinality(UsersOf(V, ip, h)) = 0
    BY <1>1, <2>1, UserLess
  <2> QED
    BY <2>2, UsersFinite, FS_EmptySet
<1>9. s \in DeadSocket /\ s.handle = h /\ s.ip = ip /\ s.bound = ref.bound
  BY <1>1 DEF SocketOf, DeadSocket, SocketRef
<1>10. \A j \in DOMAIN c.refs : j # i => c.refs[j].handle # h
  BY DEF Fits, TableFits
<1>11. TableFits(d, V)
  <2> HIDE DEF d, V
  <2>1. d.new_refs <= Len(d.refs)
    BY <1>2, <1>3, <1>5
  <2>2. ASSUME NEW j \in DOMAIN d.refs
        PROVE  d.refs[j].pending <=> j > Len(d.refs) - d.new_refs
    <3>1. d.refs[j].pending <=> OldPlace(i, j) > T
      BY <1>3, <1>5, <1>6
    <3>2. ref.pending <=> i > T
      BY <1>3
    <3>3. CASE i > T
      BY <1>2, <1>5, <3>1, <3>2, <3>3 DEF OldPlace
    <3>4. CASE ~(i > T)
      BY <1>2, <1>5, <3>1, <3>2, <3>4 DEF OldPlace
    <3> QED
      BY <3>3, <3>4
  <2>3. \A j, k \in DOMAIN d.refs : d.refs[j].handle = d.refs[k].handle => j = k
    BY <1>5, <1>6 DEF Fits, TableFits
  <2>4. ASSUME NEW j \in DOMAIN d.refs
        PROVE  d.refs[j].refcount = Cardinality(UsersOf(V, d.refs[j].ip, d.refs[j].handle))
    <3>1. PICK k \in DOMAIN c.refs : k = OldPlace(i, j) /\ k # i /\ d.refs[j] = c.refs[k]
      BY <1>5, <1>6
    <3>2. c.refs[k].ip \in IpTypes /\ c.refs[k].handle # h /\ c.refs[k].handle # NoSocket
      BY <1>1, <1>10, <3>1, RefType
    <3>3. NoSocket \in 0..MaxSockets
      BY ReceiveSocketsAssumption DEF NoSocket
    <3>4. UsersOf(V, c.refs[k].ip, c.refs[k].handle) = UsersOf(U, c.refs[k].ip, c.refs[k].handle)
      BY <1>1, <3>2, <3>3, UsersElsewhere DEF V
    <3> QED
      BY <3>1, <3>4 DEF Fits, TableFits
  <2>5. ASSUME NEW m \in Listeners, NEW v \in IpTypes, V[m][v] # NoSocket
        PROVE  \E j \in DOMAIN d.refs : d.refs[j].handle = V[m][v] /\ d.refs[j].ip = v
    <3>1. V[m][v] = U[m][v]
      BY <1>7, <2>5
    <3>2. PICK k \in DOMAIN c.refs : c.refs[k].handle = U[m][v] /\ c.refs[k].ip = v
      BY <2>5, <3>1 DEF Fits, TableFits
    <3>3. k # i
      BY <1>8, <3>1, <3>2 DEF UsersOf
    <3> QED
      BY <1>5, <1>6, <3>1, <3>2, <3>3
  <2> QED
    BY <2>1, <2>2, <2>3, <2>4, <2>5 DEF TableFits
<1>12. OpenFit(d, D \cup {s}, A)
  <2> HIDE DEF d, s
  <2>1. RefHandles(d) = RefHandles(c) \ {h}
    <3>1. ASSUME NEW j \in DOMAIN d.refs
          PROVE  d.refs[j].handle \in RefHandles(c) \ {h}
      BY <1>5, <1>6, <1>10 DEF RefHandles
    <3>2. ASSUME NEW k \in DOMAIN c.refs, c.refs[k].handle # h
          PROVE  c.refs[k].handle \in RefHandles(d)
      BY <1>5, <1>6, <3>2 DEF RefHandles
    <3> QED
      BY <3>1, <3>2 DEF RefHandles
  <2>2. Handles(D \cup {s}) = Handles(D) \cup {h} /\ h \in RefHandles(c)
    BY <1>9 DEF Handles, RefHandles
  <2>3. D \cup {s} \in SUBSET DeadSocket
    BY <1>9 DEF Fits, OpenFit
  <2>4. \A x, y \in D \cup {s} : x.handle = y.handle => x = y
    BY <1>9, <2>2 DEF Fits, OpenFit, Handles
  <2>5. /\ c.open = RefHandles(c) \cup Handles(D) \cup A
        /\ RefHandles(c) \cap Handles(D) = {} /\ A \cap (RefHandles(c) \cup Handles(D)) = {}
        /\ c.polled \subseteq c.open
    BY DEF Fits, OpenFit
  <2>6. /\ d.open = RefHandles(d) \cup Handles(D \cup {s}) \cup A
        /\ RefHandles(d) \cap Handles(D \cup {s}) = {}
        /\ A \cap (RefHandles(d) \cup Handles(D \cup {s})) = {}
        /\ d.polled \subseteq d.open
    <3>1. /\ RefHandles(c) \cup Handles(D) \cup A
                = (RefHandles(c) \ {h}) \cup (Handles(D) \cup {h}) \cup A
          /\ (RefHandles(c) \ {h}) \cap (Handles(D) \cup {h}) = {}
          /\ A \cap ((RefHandles(c) \ {h}) \cup (Handles(D) \cup {h})) = {}
      BY <2>2, <2>5, MovedMember
    <3>2. d.open = c.open /\ d.polled = c.polled
      BY <1>5
    <3> HIDE DEF h
    <3> QED
      BY <2>1, <2>2, <2>5, <3>1, <3>2
  <2> QED
    BY <2>3, <2>4, <2>6 DEF OpenFit
<1>13. BoundFit(d, D \cup {s})
  <2> HIDE DEF d, s
  <2> SUFFICES ASSUME LimitBind PROVE BoundFit(d, D \cup {s})
    BY DEF BoundFit
  <2>1. /\ \A j, k \in DOMAIN c.refs :
              c.refs[j].bound /\ c.refs[k].bound /\ c.refs[j].ip = c.refs[k].ip => j = k
        /\ \A v \in IpTypes :
              c.bound[v] <=> \E j \in DOMAIN c.refs : c.refs[j].ip = v /\ c.refs[j].bound
        /\ \A j \in DOMAIN c.refs :
              c.bound[c.refs[j].ip] \/ \E x \in D : x.ip = c.refs[j].ip /\ x.bound
    BY DEF Fits, BoundFit
  <2>2. \A j, k \in DOMAIN d.refs :
           d.refs[j].bound /\ d.refs[k].bound /\ d.refs[j].ip = d.refs[k].ip => j = k
    BY <1>5, <1>6, <2>1
  <2>3. ASSUME NEW v \in IpTypes
        PROVE  d.bound[v] <=> \E j \in DOMAIN d.refs : d.refs[j].ip = v /\ d.refs[j].bound
    <3>1. ASSUME d.bound[v]
          PROVE  \E j \in DOMAIN d.refs : d.refs[j].ip = v /\ d.refs[j].bound
      <4>1. PICK k \in DOMAIN c.refs : c.refs[k].ip = v /\ c.refs[k].bound
        BY <1>5, <2>1, <3>1
      <4>2. k # i
        BY <1>5, <3>1, <4>1
      <4> QED
        BY <1>5, <1>6, <4>1, <4>2
    <3>2. ASSUME NEW j \in DOMAIN d.refs, d.refs[j].ip = v, d.refs[j].bound
          PROVE  d.bound[v]
      <4>1. PICK k \in DOMAIN c.refs : k # i /\ d.refs[j] = c.refs[k]
        BY <1>5, <1>6
      <4>2. c.bound[v]
        BY <2>1, <3>2, <4>1
      <4>3. ~(v = ip /\ ref.bound)
        BY <2>1, <3>2, <4>1
      <4> QED
        BY <1>5, <4>2, <4>3
    <3> QED
      BY <3>1, <3>2
  <2>4. ASSUME NEW j \in DOMAIN d.refs
        PROVE  d.bound[d.refs[j].ip] \/ \E x \in D \cup {s} : x.ip = d.refs[j].ip /\ x.bound
    <3>1. PICK k \in DOMAIN c.refs : d.refs[j] = c.refs[k]
      BY <1>5, <1>6
    <3>2. c.refs[k].ip \in IpTypes
      BY <1>1, RefType
    <3>3. CASE c.bound[c.refs[k].ip]
      <4>1. CASE c.refs[k].ip = ip /\ ref.bound
        BY <1>9, <3>1, <4>1
      <4>2. CASE ~(c.refs[k].ip = ip /\ ref.bound)
        BY <1>5, <3>1, <3>2, <3>3, <4>2
      <4> QED
        BY <4>1, <4>2
    <3>4. CASE \E x \in D : x.ip = c.refs[k].ip /\ x.bound
      BY <3>1, <3>4
    <3> QED
      BY <2>1, <3>3, <3>4
  <2> QED
    BY <2>2, <2>3, <2>4 DEF BoundFit
<1>14. ASSUME NEW F, Polled(c, F) PROVE Polled(d, F)
  <2> HIDE DEF d
  <2>1. CASE c.polls
    <3>1. \A j \in DOMAIN d.refs :
             d.refs[j].bound /\ ~d.refs[j].pending /\ d.refs[j].handle \notin F =>
                d.refs[j].handle \in d.polled
      BY <1>5, <1>6, <1>14, <2>1 DEF Polled
    <3> QED
      BY <1>5, <2>1, <3>1 DEF Polled
  <2>2. CASE ~c.polls
    <3>1. c.new_refs = Len(c.refs)
      BY <1>14, <2>2 DEF Polled
    <3>2. ref.pending
      BY <1>2, <1>3, <3>1
    <3>3. d.new_refs = Len(d.refs)
      BY <1>2, <1>5, <3>1, <3>2
    <3> QED
      BY <1>5, <2>2, <3>3 DEF Polled
  <2> QED
    BY <2>1, <2>2
<1> QED
  BY <1>5, <1>11, <1>12, <1>13, <1>14 DEF Fits, Keeps

\* One user less of a socket with more than one.
LEMMA LowerFits ==
    ASSUME NEW c, NEW i \in DOMAIN c.refs, NEW D, NEW U \in Using, NEW A, Fits(c, D, U, A),
           NEW l \in Listeners, U[l][c.refs[i].ip] = c.refs[i].handle,
           c.refs[i].refcount > 1
    PROVE  LET d == WithRefcount(c, i, c.refs[i].refcount - 1)
           IN  Fits(d, D, Use(U, l, c.refs[i].ip, NoSocket), A) /\ Keeps(c, d)
<1> DEFINE h == c.refs[i].handle
           ip == c.refs[i].ip
           V == Use(U, l, ip, NoSocket)
           n == c.refs[i].refcount - 1
<1>1. /\ c \in Context /\ h \in Handle /\ h # NoSocket /\ ip \in IpTypes
      /\ c.refs[i].refcount \in 1..MaxSubs
  BY RefType DEF Fits
<1>2. n \in 1..MaxSubs
  BY <1>1, ReceiveSocketsAssumption
<1>3. NoSocket \in 0..MaxSockets
  BY ReceiveSocketsAssumption DEF NoSocket
<1>4. /\ V \in Using
      /\ \A m \in Listeners, v \in IpTypes : V[m][v] = IF m = l /\ v = ip THEN NoSocket ELSE U[m][v]
  BY <1>1, <1>3, UseType
<1>5. n = Cardinality(UsersOf(V, ip, h))
  <2>1. c.refs[i].refcount = Cardinality(UsersOf(U, ip, h))
    BY DEF Fits, TableFits
  <2> QED
    BY <1>1, <2>1, UserLess
<1>6. ASSUME NEW j \in DOMAIN c.refs \ {i}
      PROVE  UsersOf(V, c.refs[j].ip, c.refs[j].handle) = UsersOf(U, c.refs[j].ip, c.refs[j].handle)
  <2>1. c.refs[j].handle # h /\ c.refs[j].handle # NoSocket /\ c.refs[j].ip \in IpTypes
    BY <1>1, RefType DEF Fits, TableFits
  <2> QED
    BY <1>1, <1>3, <2>1, UsersElsewhere
<1> HIDE DEF V, n
<1>7. \A m \in Listeners, v \in IpTypes :
         \/ V[m][v] \in {NoSocket, U[m][v]}
         \/ V[m][v] = c.refs[i].handle /\ v = c.refs[i].ip
  BY <1>4
<1>8. Fits(WithRefcount(c, i, n), D, V, A) /\ Keeps(c, WithRefcount(c, i, n))
  BY <1>2, <1>4, <1>5, <1>6, <1>7, RefcountFits
<1> QED
  BY <1>8 DEF V, n

\* One user more of a socket with room.
LEMMA RaiseFits ==
    ASSUME NEW c, NEW i \in DOMAIN c.refs, NEW D, NEW U \in Using, NEW A, Fits(c, D, U, A),
           NEW l \in Listeners, U[l][c.refs[i].ip] = NoSocket,
           c.refs[i].refcount < MaxSubs
    PROVE  LET d == WithRefcount(c, i, c.refs[i].refcount + 1)
           IN  Fits(d, D, Use(U, l, c.refs[i].ip, c.refs[i].handle), A) /\ Keeps(c, d)
<1> DEFINE h == c.refs[i].handle
           ip == c.refs[i].ip
           V == Use(U, l, ip, h)
           n == c.refs[i].refcount + 1
<1>1. /\ c \in Context /\ h \in Handle /\ h # NoSocket /\ ip \in IpTypes /\ h \in 0..MaxSockets
      /\ c.refs[i].refcount \in 1..MaxSubs
  BY RefType DEF Fits
<1>2. n \in 1..MaxSubs
  BY <1>1, ReceiveSocketsAssumption
<1>4. /\ V \in Using
      /\ \A m \in Listeners, v \in IpTypes : V[m][v] = IF m = l /\ v = ip THEN h ELSE U[m][v]
  <2> HIDE DEF h, ip
  <2> QED
    BY <1>1, UseType
<1>5. n = Cardinality(UsersOf(V, ip, h))
  <2>1. c.refs[i].refcount = Cardinality(UsersOf(U, ip, h))
    BY DEF Fits, TableFits
  <2> QED
    BY <1>1, <2>1, UserMore
<1>6. ASSUME NEW j \in DOMAIN c.refs \ {i}
      PROVE  UsersOf(V, c.refs[j].ip, c.refs[j].handle) = UsersOf(U, c.refs[j].ip, c.refs[j].handle)
  <2>1. c.refs[j].handle # h /\ c.refs[j].handle # NoSocket /\ c.refs[j].ip \in IpTypes
    BY <1>1, RefType DEF Fits, TableFits
  <2> QED
    BY <1>1, <2>1, UsersElsewhere
<1> HIDE DEF V, n
<1>7. \A m \in Listeners, v \in IpTypes :
         \/ V[m][v] \in {NoSocket, U[m][v]}
         \/ V[m][v] = c.refs[i].handle /\ v = c.refs[i].ip
  BY <1>4
<1>8. Fits(WithRefcount(c, i, n), D, V, A) /\ Keeps(c, WithRefcount(c, i, n))
  BY <1>2, <1>4, <1>5, <1>6, <1>7, RefcountFits
<1> QED
  BY <1>8 DEF V, n

-----------------------------------------------------------------------------
(***************************************************************************)
(* A new socket.                                                           *)
(***************************************************************************)
NewRef(ip, h, binds) ==
    [handle |-> h, ip |-> ip, refcount |-> 1, pending |-> TRUE, bound |-> binds,
     polling |-> FALSE]

LEMMA NewRefResult ==
    ASSUME NEW c \in Context, NEW ip \in IpTypes, NEW h \in Handle, NEW binds \in BOOLEAN
    PROVE  LET d == NewSocketRef(c, ip, h, binds)
               n == Len(c.refs) + 1
           IN  /\ d \in Context
               /\ DOMAIN d.refs = 1..n /\ Len(d.refs) = n
               /\ \A j \in DOMAIN c.refs : d.refs[j] = c.refs[j]
               /\ d.refs[n] = NewRef(ip, h, binds)
               /\ d.new_refs = c.new_refs + 1
               /\ \A v \in IpTypes : d.bound[v] <=> c.bound[v] \/ (v = ip /\ LimitBind /\ binds)
               /\ d.open = c.open \cup {h}
               /\ d.dead = c.dead /\ d.subs = c.subs /\ d.unsubs = c.unsubs
               /\ d.polls = c.polls /\ d.joined = c.joined /\ d.polled = c.polled
<1> DEFINE ref == NewRef(ip, h, binds)
           r == Append(c.refs, ref)
           on == LimitBind /\ binds
           b == [c.bound EXCEPT ![ip] = c.bound[ip] \/ on]
           d == NewSocketRef(c, ip, h, binds)
<1>1. d = [c EXCEPT !.open = c.open \cup {h}, !.refs = r, !.new_refs = c.new_refs + 1,
                    !.bound = b]
  BY DEF NewSocketRef, NewRef, Context
<1>2. ref \in SocketRef
  BY ReceiveSocketsAssumption DEF NewRef, SocketRef
<1> HIDE DEF ref
<1>3. /\ r \in Seq(SocketRef) /\ Len(r) = Len(c.refs) + 1
      /\ \A j \in DOMAIN c.refs : r[j] = c.refs[j]
      /\ r[Len(c.refs) + 1] = ref
  BY <1>2, TableType, AppendProperties
<1>4. DOMAIN r = 1..(Len(c.refs) + 1)
  BY <1>3
<1>5. b \in [IpTypes -> BOOLEAN] /\ \A v \in IpTypes : b[v] <=> c.bound[v] \/ (v = ip /\ on)
  <2> HIDE DEF on
  <2>1. c.bound \in [IpTypes -> BOOLEAN]
    BY DEF Context
  <2> QED
    BY <2>1
<1> HIDE DEF r, b, d
<1>6. c.new_refs + 1 \in Nat /\ c.open \cup {h} \in SUBSET Handle
  BY DEF Context
<1>7. d \in Context
  BY <1>1, <1>3, <1>5, <1>6 DEF Context
<1>8. d.refs = r /\ d.new_refs = c.new_refs + 1 /\ d.bound = b /\ d.open = c.open \cup {h}
  BY <1>1 DEF Context
<1>9. /\ d.dead = c.dead /\ d.subs = c.subs /\ d.unsubs = c.unsubs
      /\ d.polls = c.polls /\ d.joined = c.joined /\ d.polled = c.polled
  BY <1>1 DEF Context
<1> QED
  BY <1>3, <1>4, <1>5, <1>7, <1>8, <1>9 DEF d, ref

LEMMA NewRefFits ==
    ASSUME NEW c, NEW D, NEW U \in Using, NEW A, Fits(c, D, U, A), NEW ip \in IpTypes,
           NEW h \in Handle, h \notin c.open, NEW binds \in BOOLEAN,
           LimitBind => (binds <=> ~c.bound[ip]),
           NEW l \in Listeners, U[l][ip] = NoSocket
    PROVE  LET d == NewSocketRef(c, ip, h, binds)
           IN  Fits(d, D, Use(U, l, ip, h), A) /\ Keeps(c, d)
<1> DEFINE V == Use(U, l, ip, h)
           n == Len(c.refs) + 1
           d == NewSocketRef(c, ip, h, binds)
<1>1. c \in Context /\ h # NoSocket /\ h \in 0..MaxSockets
  BY ReceiveSocketsAssumption DEF Fits, Handle, NoSocket
<1>2. /\ d \in Context
      /\ DOMAIN d.refs = 1..n /\ Len(d.refs) = n
      /\ \A j \in DOMAIN c.refs : d.refs[j] = c.refs[j]
      /\ d.refs[n] = NewRef(ip, h, binds)
      /\ d.new_refs = c.new_refs + 1
      /\ \A v \in IpTypes : d.bound[v] <=> c.bound[v] \/ (v = ip /\ LimitBind /\ binds)
      /\ d.open = c.open \cup {h}
      /\ d.polls = c.polls /\ d.polled = c.polled
  BY <1>1, NewRefResult
<1>3. /\ d.refs[n].handle = h /\ d.refs[n].ip = ip /\ d.refs[n].refcount = 1
      /\ d.refs[n].pending = TRUE /\ d.refs[n].bound = binds
  BY <1>2 DEF NewRef
<1>4. /\ Len(c.refs) \in Nat /\ DOMAIN c.refs = 1..Len(c.refs) /\ c.new_refs \in Nat
      /\ c.new_refs <= Len(c.refs)
  BY <1>1, TableType DEF Fits, TableFits
<1> HIDE DEF d
<1>5. n \in DOMAIN d.refs /\ DOMAIN d.refs = DOMAIN c.refs \cup {n} /\ n \notin DOMAIN c.refs
  BY <1>2, <1>4
<1>6. \A j \in DOMAIN c.refs : c.refs[j].handle # h
  BY DEF Fits, OpenFit, RefHandles
<1>7. /\ V \in Using
      /\ \A m \in Listeners, v \in IpTypes : V[m][v] = IF m = l /\ v = ip THEN h ELSE U[m][v]
  BY <1>1, UseType
<1>8. TableFits(d, V)
  <2> HIDE DEF V
  <2>1. d.new_refs <= Len(d.refs)
    BY <1>2, <1>4
  <2>2. ASSUME NEW j \in DOMAIN d.refs
        PROVE  d.refs[j].pending <=> j > Len(d.refs) - d.new_refs
    <3>1. CASE j \in DOMAIN c.refs
      <4>1. c.refs[j].pending <=> j > Len(c.refs) - c.new_refs
        BY <3>1 DEF Fits, TableFits
      <4> QED
        BY <1>2, <1>4, <3>1, <4>1
    <3>2. CASE j = n
      BY <1>2, <1>3, <1>4, <3>2
    <3> QED
      BY <1>5, <3>1, <3>2
  <2>3. \A j, k \in DOMAIN d.refs : d.refs[j].handle = d.refs[k].handle => j = k
    BY <1>2, <1>3, <1>5, <1>6 DEF Fits, TableFits
  <2>4. ASSUME NEW j \in DOMAIN d.refs
        PROVE  d.refs[j].refcount = Cardinality(UsersOf(V, d.refs[j].ip, d.refs[j].handle))
    <3>1. CASE j \in DOMAIN c.refs
      <4>1. c.refs[j].ip \in IpTypes /\ c.refs[j].handle # h /\ c.refs[j].handle # NoSocket
        BY <1>1, <1>6, <3>1, RefType
      <4>2. UsersOf(V, c.refs[j].ip, c.refs[j].handle) = UsersOf(U, c.refs[j].ip, c.refs[j].handle)
        BY <1>1, <4>1, UsersElsewhere DEF V
      <4> QED
        BY <1>2, <3>1, <4>2 DEF Fits, TableFits
    <3>2. CASE j = n
      <4>1. UsersOf(U, ip, h) = {}
        BY <1>1, <1>6 DEF UsersOf, Fits, TableFits
      <4>2. Cardinality(UsersOf(V, ip, h)) = Cardinality(UsersOf(U, ip, h)) + 1
        BY <1>1, UserMore DEF V
      <4>3. Cardinality(UsersOf(V, ip, h)) = 1
        BY <4>1, <4>2, FS_EmptySet
      <4> QED
        BY <1>3, <3>2, <4>3
    <3> QED
      BY <1>5, <3>1, <3>2
  <2>5. ASSUME NEW m \in Listeners, NEW v \in IpTypes, V[m][v] # NoSocket
        PROVE  \E j \in DOMAIN d.refs : d.refs[j].handle = V[m][v] /\ d.refs[j].ip = v
    <3>1. CASE m = l /\ v = ip
      BY <1>3, <1>5, <1>7, <3>1
    <3>2. CASE ~(m = l /\ v = ip)
      <4>1. PICK j \in DOMAIN c.refs : c.refs[j].handle = U[m][v] /\ c.refs[j].ip = v
        BY <1>7, <2>5, <3>2 DEF Fits, TableFits
      <4> QED
        BY <1>2, <1>5, <1>7, <3>2, <4>1
    <3> QED
      BY <3>1, <3>2
  <2> QED
    BY <2>1, <2>2, <2>3, <2>4, <2>5 DEF TableFits
<1>9. OpenFit(d, D, A)
  <2>1. RefHandles(d) = RefHandles(c) \cup {h}
    BY <1>2, <1>3, <1>5 DEF RefHandles
  <2>2. /\ c.open = RefHandles(c) \cup Handles(D) \cup A
        /\ RefHandles(c) \cap Handles(D) = {} /\ A \cap (RefHandles(c) \cup Handles(D)) = {}
        /\ c.polled \subseteq c.open
    BY DEF Fits, OpenFit
  <2>3. /\ d.open = RefHandles(d) \cup Handles(D) \cup A
        /\ RefHandles(d) \cap Handles(D) = {}
        /\ A \cap (RefHandles(d) \cup Handles(D)) = {}
        /\ d.polled \subseteq d.open
    BY <1>2, <2>1, <2>2
  <2> QED
    BY <2>3 DEF Fits, OpenFit
<1>10. BoundFit(d, D)
  <2> SUFFICES ASSUME LimitBind PROVE BoundFit(d, D)
    BY DEF BoundFit
  <2>1. /\ \A j, k \in DOMAIN c.refs :
              c.refs[j].bound /\ c.refs[k].bound /\ c.refs[j].ip = c.refs[k].ip => j = k
        /\ \A v \in IpTypes :
              c.bound[v] <=> \E j \in DOMAIN c.refs : c.refs[j].ip = v /\ c.refs[j].bound
        /\ \A j \in DOMAIN c.refs :
              c.bound[c.refs[j].ip] \/ \E x \in D : x.ip = c.refs[j].ip /\ x.bound
    BY DEF Fits, BoundFit
  <2>2. \A j, k \in DOMAIN d.refs :
           d.refs[j].bound /\ d.refs[k].bound /\ d.refs[j].ip = d.refs[k].ip => j = k
    BY <1>2, <1>3, <1>5, <2>1
  <2>3. \A v \in IpTypes :
           d.bound[v] <=> \E j \in DOMAIN d.refs : d.refs[j].ip = v /\ d.refs[j].bound
    BY <1>2, <1>3, <1>5, <2>1
  <2>4. ASSUME NEW j \in DOMAIN d.refs
        PROVE  d.bound[d.refs[j].ip] \/ \E x \in D : x.ip = d.refs[j].ip /\ x.bound
    <3>1. CASE j \in DOMAIN c.refs
      BY <1>1, <1>2, <2>1, <3>1, RefType
    <3>2. CASE j = n
      BY <1>2, <1>3, <3>2
    <3> QED
      BY <1>5, <3>1, <3>2
  <2> QED
    BY <2>2, <2>3, <2>4 DEF BoundFit
<1>11. ASSUME NEW F, Polled(c, F) PROVE Polled(d, F)
  <2>1. CASE c.polls
    <3>1. \A j \in DOMAIN d.refs :
             d.refs[j].bound /\ ~d.refs[j].pending /\ d.refs[j].handle \notin F =>
                d.refs[j].handle \in d.polled
      BY <1>2, <1>3, <1>5, <1>11, <2>1 DEF Polled
    <3> QED
      BY <1>2, <2>1, <3>1 DEF Polled
  <2>2. CASE ~c.polls
    BY <1>2, <1>11, <2>2 DEF Polled
  <2> QED
    BY <2>1, <2>2
<1> QED
  BY <1>2, <1>8, <1>9, <1>10, <1>11 DEF Fits, Keeps, d

-----------------------------------------------------------------------------
(***************************************************************************)
(* A socket is closed, and another one bound in its place.                 *)
(***************************************************************************)
LEMMA RefBound ==
    ASSUME NEW ref \in SocketRef, NEW on \in BOOLEAN
    PROVE  LET r == [ref EXCEPT !.bound = on]
           IN  /\ r \in SocketRef /\ r.handle = ref.handle /\ r.ip = ref.ip
               /\ r.refcount = ref.refcount /\ r.pending = ref.pending /\ r.bound = on
  BY DEF SocketRef

LEMMA RefPolling ==
    ASSUME NEW ref \in SocketRef, NEW on \in BOOLEAN
    PROVE  LET r == [ref EXCEPT !.polling = on]
           IN  /\ r \in SocketRef /\ r.handle = ref.handle /\ r.ip = ref.ip
               /\ r.refcount = ref.refcount /\ r.pending = ref.pending /\ r.bound = ref.bound
  BY DEF SocketRef

\* Two contexts with the same table but for what is bound and polled.
SameTable(c, d) ==
    /\ DOMAIN d.refs = DOMAIN c.refs /\ Len(d.refs) = Len(c.refs)
    /\ d.new_refs = c.new_refs /\ d.dead = c.dead /\ d.subs = c.subs /\ d.unsubs = c.unsubs
    /\ d.polls = c.polls /\ d.open = c.open /\ d.joined = c.joined
    /\ \A j \in DOMAIN c.refs :
          /\ d.refs[j].handle = c.refs[j].handle /\ d.refs[j].ip = c.refs[j].ip
          /\ d.refs[j].refcount = c.refs[j].refcount
          /\ d.refs[j].pending = c.refs[j].pending

LEMMA MarkResult ==
    ASSUME NEW c \in Context, NEW i \in DOMAIN c.refs
    PROVE  LET d == MarkSocketRefBound(c, i)
           IN  /\ d \in Context /\ SameTable(c, d) /\ d.polled = c.polled
               /\ \A j \in DOMAIN c.refs : d.refs[j].bound <=> c.refs[j].bound \/ j = i
               /\ \A v \in IpTypes :
                     d.bound[v] <=> c.bound[v] \/ (v = c.refs[i].ip /\ LimitBind)
<1> DEFINE ref == [c.refs[i] EXCEPT !.bound = TRUE]
           r == [c.refs EXCEPT ![i] = ref]
           b == [c.bound EXCEPT ![c.refs[i].ip] = IF LimitBind THEN TRUE ELSE c.bound[c.refs[i].ip]]
           d == MarkSocketRefBound(c, i)
<1>1. d = [c EXCEPT !.refs = r, !.bound = b]
  BY DEF MarkSocketRefBound, Context
<1>2. /\ ref \in SocketRef /\ ref.handle = c.refs[i].handle /\ ref.ip = c.refs[i].ip
      /\ ref.refcount = c.refs[i].refcount /\ ref.pending = c.refs[i].pending
      /\ ref.bound = TRUE
  BY RefType, RefBound
<1> HIDE DEF ref
<1>3. /\ r \in Seq(SocketRef) /\ Len(r) = Len(c.refs) /\ DOMAIN r = DOMAIN c.refs
      /\ \A j \in DOMAIN c.refs : r[j] = IF j = i THEN ref ELSE c.refs[j]
  BY <1>2, TableType, ExceptSeq
<1>4. /\ b \in [IpTypes -> BOOLEAN]
      /\ \A v \in IpTypes : b[v] <=> c.bound[v] \/ (v = c.refs[i].ip /\ LimitBind)
  <2>1. c.bound \in [IpTypes -> BOOLEAN] /\ c.refs[i].ip \in IpTypes
    BY RefType DEF Context
  <2> QED
    BY <2>1, ReceiveSocketsAssumption
<1> HIDE DEF r, b, d
<1>5. d \in Context
  BY <1>1, <1>3, <1>4 DEF Context
<1>6. d.refs = r /\ d.bound = b /\ d.polled = c.polled
  BY <1>1 DEF Context
<1>7. /\ d.new_refs = c.new_refs /\ d.dead = c.dead /\ d.subs = c.subs /\ d.unsubs = c.unsubs
      /\ d.polls = c.polls /\ d.open = c.open /\ d.joined = c.joined
  BY <1>1 DEF Context
<1>8. SameTable(c, d)
  BY <1>2, <1>3, <1>6, <1>7 DEF SameTable
<1>9. \A j \in DOMAIN c.refs : d.refs[j].bound <=> c.refs[j].bound \/ j = i
  BY <1>2, <1>3, <1>6
<1> QED
  BY <1>4, <1>5, <1>6, <1>8, <1>9 DEF d

LEMMA PollAddResult ==
    ASSUME NEW c \in Context, NEW i \in DOMAIN c.refs
    PROVE  LET d == PollAddSocket(c, i)
           IN  /\ d \in Context /\ SameTable(c, d) /\ d.bound = c.bound
               /\ \A j \in DOMAIN c.refs : d.refs[j].bound = c.refs[j].bound
               /\ d.polled = IF c.polls THEN c.polled \cup {c.refs[i].handle} ELSE c.polled
<1> DEFINE ref == [c.refs[i] EXCEPT !.polling = TRUE]
           r == [c.refs EXCEPT ![i] = ref]
           p == c.polled \cup {c.refs[i].handle}
           d == [c EXCEPT !.refs = r, !.polled = p]
<1>1. PollAddSocket(c, i) = IF ~c.polls THEN c ELSE d
  BY DEF PollAddSocket, Context
<1>2. /\ ref \in SocketRef /\ ref.handle = c.refs[i].handle /\ ref.ip = c.refs[i].ip
      /\ ref.refcount = c.refs[i].refcount /\ ref.pending = c.refs[i].pending
      /\ ref.bound = c.refs[i].bound
  BY RefType, RefPolling
<1> HIDE DEF ref
<1>3. /\ r \in Seq(SocketRef) /\ Len(r) = Len(c.refs) /\ DOMAIN r = DOMAIN c.refs
      /\ \A j \in DOMAIN c.refs : r[j] = IF j = i THEN ref ELSE c.refs[j]
  BY <1>2, TableType, ExceptSeq
<1>4. p \in SUBSET Handle
  BY RefType DEF Context
<1> HIDE DEF r, p
<1>5. d \in Context
  BY <1>3, <1>4 DEF Context
<1>6. d.refs = r /\ d.polled = p /\ d.bound = c.bound
  BY DEF Context
<1>7. /\ d.new_refs = c.new_refs /\ d.dead = c.dead /\ d.subs = c.subs /\ d.unsubs = c.unsubs
      /\ d.polls = c.polls /\ d.open = c.open /\ d.joined = c.joined
  BY DEF Context
<1> HIDE DEF d
<1>8. SameTable(c, d)
  BY <1>2, <1>3, <1>6, <1>7 DEF SameTable
<1>9. \A j \in DOMAIN c.refs : d.refs[j].bound = c.refs[j].bound
  BY <1>2, <1>3, <1>6
<1>10. CASE c.polls
  BY <1>1, <1>5, <1>6, <1>8, <1>9, <1>10 DEF p
<1>11. CASE ~c.polls
  BY <1>1, <1>11 DEF SameTable
<1> QED
  BY <1>10, <1>11

LEMMA BindResult ==
    ASSUME NEW c \in Context, NEW i \in DOMAIN c.refs
    PROVE  LET d == BindSuccessor(c, i)
           IN  /\ d \in Context /\ SameTable(c, d)
               /\ \A j \in DOMAIN c.refs : d.refs[j].bound <=> c.refs[j].bound \/ j = i
               /\ \A v \in IpTypes :
                     d.bound[v] <=> c.bound[v] \/ (v = c.refs[i].ip /\ LimitBind)
               /\ c.polled \subseteq d.polled
               /\ d.polled \subseteq c.polled \cup {c.refs[i].handle}
               /\ c.polls /\ ~c.refs[i].pending => c.refs[i].handle \in d.polled
<1> DEFINE m == MarkSocketRefBound(c, i)
           d == PollAddSocket(m, i)
<1>1. /\ m \in Context /\ SameTable(c, m) /\ m.polled = c.polled
      /\ \A j \in DOMAIN c.refs : m.refs[j].bound <=> c.refs[j].bound \/ j = i
      /\ \A v \in IpTypes :
            m.bound[v] <=> c.bound[v] \/ (v = c.refs[i].ip /\ LimitBind)
  BY MarkResult
<1> HIDE DEF m
<1>2. i \in DOMAIN m.refs
  BY <1>1 DEF SameTable
<1>3. /\ d \in Context /\ SameTable(m, d) /\ d.bound = m.bound
      /\ \A j \in DOMAIN m.refs : d.refs[j].bound = m.refs[j].bound
      /\ d.polled = IF m.polls THEN m.polled \cup {m.refs[i].handle} ELSE m.polled
  BY <1>1, <1>2, PollAddResult
<1>4. BindSuccessor(c, i) = IF c.refs[i].pending THEN m ELSE d
  BY DEF BindSuccessor, m
<1> HIDE DEF d
<1>5. CASE c.refs[i].pending
  BY <1>1, <1>4, <1>5
<1>6. CASE ~c.refs[i].pending
  <2>1. SameTable(c, d)
    BY <1>1, <1>3 DEF SameTable
  <2>2. m.polls = c.polls /\ m.refs[i].handle = c.refs[i].handle /\ DOMAIN m.refs = DOMAIN c.refs
    BY <1>1 DEF SameTable
  <2>3. /\ c.polled \subseteq d.polled /\ d.polled \subseteq c.polled \cup {c.refs[i].handle}
        /\ c.polls => c.refs[i].handle \in d.polled
    BY <1>1, <1>3, <2>2
  <2> QED
    BY <1>1, <1>3, <1>4, <1>6, <2>1, <2>2, <2>3
<1> QED
  BY <1>5, <1>6

\* Contexts with the same table have the same users.
LEMMA SameTableFits ==
    ASSUME NEW c, NEW d, SameTable(c, d), NEW U, TableFits(c, U)
    PROVE  TableFits(d, U) /\ RefHandles(d) = RefHandles(c)
<1>1. TableFits(d, U)
  BY DEF SameTable, TableFits
<1>2. RefHandles(d) = RefHandles(c)
  BY DEF SameTable, RefHandles
<1> QED
  BY <1>1, <1>2

LEMMA CloseOnlyResult ==
    ASSUME NEW c \in Context, NEW s
    PROVE  LET d == CloseSocketOnly(c, s)
           IN  /\ d \in Context /\ d.refs = c.refs /\ d.new_refs = c.new_refs /\ d.dead = c.dead
               /\ d.subs = c.subs /\ d.unsubs = c.unsubs /\ d.bound = c.bound
               /\ d.polls = c.polls
               /\ d.open = c.open \ {s.handle} /\ d.polled = c.polled \ {s.handle}
               /\ d.joined = {r \in c.joined : r.handle # s.handle}
<1> DEFINE o == c.open \ {s.handle}
           p == c.polled \ {s.handle}
           j == {r \in c.joined : r.handle # s.handle}
           d == CloseSocketOnly(c, s)
<1>1. d = [c EXCEPT !.open = o, !.polled = p, !.joined = j]
  BY DEF CloseSocketOnly, Context
<1>2. o \in SUBSET Handle /\ p \in SUBSET Handle /\ j \in SUBSET Request
  BY DEF Context
<1> HIDE DEF o, p, j, d
<1>3. d \in Context /\ d.open = o /\ d.polled = p /\ d.joined = j
  BY <1>1, <1>2 DEF Context
<1>4. /\ d.refs = c.refs /\ d.new_refs = c.new_refs /\ d.dead = c.dead
      /\ d.subs = c.subs /\ d.unsubs = c.unsubs /\ d.bound = c.bound /\ d.polls = c.polls
  BY <1>1 DEF Context
<1> QED
  BY <1>3, <1>4 DEF o, p, j, d

\* The socket that takes over: one of the ip type, or none is there.
LEMMA SuccessorResult ==
    ASSUME NEW c \in Context, NEW ip
    PROVE  LET i == FindSocketRefByType(c, ip)
           IN  \/ i = 0 /\ \A j \in DOMAIN c.refs : c.refs[j].ip # ip
               \/ i # 0 /\ i \in DOMAIN c.refs /\ c.refs[i].ip = ip
<1> DEFINE I == {i \in DOMAIN c.refs : c.refs[i].ip = ip}
<1>1. I \in SUBSET (Nat \ {0})
  BY TableType
<1>2. FindSocketRefByType(c, ip) = FirstOf(I)
  BY DEF FindSocketRefByType
<1>3. (I = {} => FirstOf(I) = 0) /\ (I # {} => FirstOf(I) \in I)
  BY <1>1, FirstOfSome
<1> QED
  BY <1>1, <1>2, <1>3

\* What closing socket s changes, apart from the table.
Closed(c, d, s) ==
    /\ d.dead = c.dead /\ d.subs = c.subs /\ d.unsubs = c.unsubs
    /\ d.open = c.open \ {s.handle}
    /\ d.joined = {r \in c.joined : r.handle # s.handle}

\* A socket that waited is closed.
LEMMA CloseFits ==
    ASSUME NEW c, NEW D, NEW U \in Using, NEW A, Fits(c, D, U, A), NEW s \in D
    PROVE  LET d == CloseSocket(c, s)
           IN  Fits(d, D \ {s}, U, A) /\ Keeps(c, d) /\ Closed(c, d, s)
<1> DEFINE e == CloseSocketOnly(c, s)
           i == FindSocketRefByType(e, s.ip)
           d == CloseSocket(c, s)
           stays == ~LimitBind \/ ~s.bound \/ e.bound[s.ip] \/ i = 0
<1>0. c \in Context /\ s \in DeadSocket /\ s.ip \in IpTypes
  BY DEF Fits, OpenFit, DeadSocket
<1>1. /\ e \in Context /\ e.refs = c.refs /\ e.new_refs = c.new_refs /\ e.dead = c.dead
      /\ e.subs = c.subs /\ e.unsubs = c.unsubs /\ e.bound = c.bound
      /\ e.polls = c.polls
      /\ e.open = c.open \ {s.handle} /\ e.polled = c.polled \ {s.handle}
      /\ e.joined = {r \in c.joined : r.handle # s.handle}
  BY <1>0, CloseOnlyResult
<1> HIDE DEF e
<1>2. \/ i = 0 /\ \A j \in DOMAIN e.refs : e.refs[j].ip # s.ip
      \/ i # 0 /\ i \in DOMAIN e.refs /\ e.refs[i].ip = s.ip
  BY <1>1, SuccessorResult
<1> HIDE DEF i
<1>3. d = IF stays THEN e ELSE BindSuccessor(e, i)
  <2>1. FindSocketRefByType(c, s.ip) = i
    BY <1>1 DEF FindSocketRefByType, i
  <2> QED
    BY <2>1 DEF CloseSocket, WithSuccessor, e
<1> HIDE DEF d
<1>4. s.handle \notin RefHandles(c) /\ s.handle \in Handles(D) /\ s.handle \notin A
  BY DEF Fits, OpenFit, Handles
<1>5. TableFits(e, U) /\ RefHandles(e) = RefHandles(c)
  BY <1>1 DEF Fits, TableFits, RefHandles
<1>6. OpenFit(e, D \ {s}, A)
  <2>1. Handles(D \ {s}) = Handles(D) \ {s.handle}
    BY DEF Fits, OpenFit, Handles
  <2>2. /\ c.open = RefHandles(c) \cup Handles(D) \cup A
        /\ RefHandles(c) \cap Handles(D) = {} /\ A \cap (RefHandles(c) \cup Handles(D)) = {}
        /\ c.polled \subseteq c.open
    BY DEF Fits, OpenFit
  <2>3. /\ e.open = RefHandles(e) \cup Handles(D \ {s}) \cup A
        /\ RefHandles(e) \cap Handles(D \ {s}) = {}
        /\ A \cap (RefHandles(e) \cup Handles(D \ {s})) = {}
        /\ e.polled \subseteq e.open
    BY <1>1, <1>4, <1>5, <2>1, <2>2
  <2> QED
    BY <2>3 DEF Fits, OpenFit
<1>7. ASSUME NEW F, Polled(c, F) PROVE Polled(e, F)
  <2>1. \A j \in DOMAIN c.refs : c.refs[j].handle # s.handle
    BY <1>4 DEF RefHandles
  <2> QED
    BY <1>1, <1>7, <2>1 DEF Polled
<1>8. LimitBind =>
         /\ \A j, k \in DOMAIN e.refs :
               e.refs[j].bound /\ e.refs[k].bound /\ e.refs[j].ip = e.refs[k].ip => j = k
         /\ \A v \in IpTypes :
               e.bound[v] <=> \E j \in DOMAIN e.refs : e.refs[j].ip = v /\ e.refs[j].bound
         /\ \A j \in DOMAIN e.refs :
               e.bound[e.refs[j].ip] \/ \E x \in D : x.ip = e.refs[j].ip /\ x.bound
  BY <1>1 DEF Fits, BoundFit
<1>9. CASE stays
  <2>1. d = e
    BY <1>3, <1>9
  <2>2. BoundFit(e, D \ {s})
    <3> SUFFICES ASSUME LimitBind, NEW j \in DOMAIN e.refs
                 PROVE  e.bound[e.refs[j].ip] \/ \E x \in D \ {s} : x.ip = e.refs[j].ip /\ x.bound
      BY <1>8 DEF BoundFit
    <3>1. CASE e.bound[e.refs[j].ip]
      BY <3>1
    <3>2. CASE ~e.bound[e.refs[j].ip]
      <4>1. PICK x \in D : x.ip = e.refs[j].ip /\ x.bound
        BY <1>8, <3>2
      <4>2. x # s
        BY <1>2, <1>9, <3>2, <4>1
      <4> QED
        BY <4>1, <4>2
    <3> QED
      BY <3>1, <3>2
  <2> QED
    BY <1>1, <1>5, <1>6, <1>7, <2>1, <2>2 DEF Fits, Keeps, Closed, d
<1>10. CASE ~stays
  <2>0. LimitBind /\ s.bound /\ ~e.bound[s.ip] /\ i \in DOMAIN e.refs /\ e.refs[i].ip = s.ip
    BY <1>2, <1>10
  <2>1. /\ d \in Context /\ SameTable(e, d)
        /\ \A j \in DOMAIN e.refs : d.refs[j].bound <=> e.refs[j].bound \/ j = i
        /\ \A v \in IpTypes :
              d.bound[v] <=> e.bound[v] \/ (v = e.refs[i].ip /\ LimitBind)
        /\ e.polled \subseteq d.polled
        /\ d.polled \subseteq e.polled \cup {e.refs[i].handle}
        /\ e.polls /\ ~e.refs[i].pending => e.refs[i].handle \in d.polled
    BY <1>1, <1>3, <1>10, <2>0, BindResult
  <2>2. TableFits(d, U) /\ RefHandles(d) = RefHandles(e)
    BY <1>5, <2>1, SameTableFits
  <2>3. OpenFit(d, D \ {s}, A)
    <3>1. e.refs[i].handle \in RefHandles(e) /\ d.open = e.open
      BY <2>0, <2>1 DEF RefHandles, SameTable
    <3>2. d.polled \subseteq d.open
      BY <1>6, <2>1, <3>1 DEF OpenFit
    <3> QED
      BY <1>6, <2>2, <3>1, <3>2 DEF OpenFit
  <2>4. BoundFit(d, D \ {s})
    <3>1. \A j, k \in DOMAIN d.refs :
             d.refs[j].bound /\ d.refs[k].bound /\ d.refs[j].ip = d.refs[k].ip => j = k
      BY <1>0, <1>8, <2>0, <2>1 DEF SameTable
    <3>2. \A v \in IpTypes :
             d.bound[v] <=> \E j \in DOMAIN d.refs : d.refs[j].ip = v /\ d.refs[j].bound
      BY <1>8, <2>0, <2>1 DEF SameTable
    <3>3. ASSUME NEW j \in DOMAIN d.refs
          PROVE  d.bound[d.refs[j].ip] \/ \E x \in D \ {s} : x.ip = d.refs[j].ip /\ x.bound
      <4>1. j \in DOMAIN e.refs /\ d.refs[j].ip = e.refs[j].ip /\ e.refs[j].ip \in IpTypes
        BY <1>1, <2>1, RefType DEF SameTable
      <4>2. CASE e.refs[j].ip = s.ip
        BY <2>0, <2>1, <4>1, <4>2
      <4>3. CASE e.refs[j].ip # s.ip
        BY <1>8, <2>0, <2>1, <4>1, <4>3
      <4> QED
        BY <4>2, <4>3
    <3> QED
      BY <3>1, <3>2, <3>3 DEF BoundFit
  <2>5. ASSUME NEW F, Polled(c, F) PROVE Polled(d, F)
    <3>1. Polled(e, F)
      BY <1>7, <2>5
    <3>2. \A j \in DOMAIN d.refs :
             /\ d.refs[j].handle = e.refs[j].handle /\ d.refs[j].pending = e.refs[j].pending
             /\ j \in DOMAIN e.refs /\ (d.refs[j].bound <=> e.refs[j].bound \/ j = i)
      BY <2>1 DEF SameTable
    <3>3. d.polls = e.polls /\ d.new_refs = e.new_refs /\ Len(d.refs) = Len(e.refs)
      BY <2>1 DEF SameTable
    <3> QED
      BY <2>1, <3>1, <3>2, <3>3 DEF Polled
  <2>6. /\ d.polls = c.polls /\ d.dead = c.dead /\ d.subs = c.subs /\ d.unsubs = c.unsubs
        /\ d.open = e.open /\ d.joined = e.joined
    BY <1>1, <2>1 DEF SameTable
  <2> QED
    BY <1>1, <2>1, <2>2, <2>3, <2>4, <2>5, <2>6 DEF Fits, Keeps, Closed, d
<1> QED
  BY <1>9, <1>10

-----------------------------------------------------------------------------
(***************************************************************************)
(* A listener gives a socket back.                                         *)
(***************************************************************************)

\* What a listener asks for with a socket.
Asked(h, universe, ip, netints) ==
    IF h = NoSocket THEN {} ELSE Requests(h, universe, ip, netints)

AllAsked(sockets, universe, netints) ==
    Asked(sockets[4], universe, 4, netints) \cup Asked(sockets[6], universe, 6, netints)

LEMMA AskedType ==
    ASSUME NEW h \in 0..MaxSockets, NEW universe \in Universes \cup {Discovery}, NEW ip,
           NEW netints \in SUBSET Netints
    PROVE  /\ Asked(h, universe, ip, netints) \in SUBSET Request
           /\ \A r \in Asked(h, universe, ip, netints) :
                 r.universe = universe /\ r.netint.ip = ip /\ r.handle = h
<1>1. CASE h = NoSocket
  BY <1>1 DEF Asked
<1>2. CASE h # NoSocket
  <2>1. h \in Handle
    BY <1>2, ReceiveSocketsAssumption DEF NoSocket, Handle
  <2>2. Asked(h, universe, ip, netints) = Requests(h, universe, ip, netints)
    BY <1>2 DEF Asked
  <2>3. \A r \in Requests(h, universe, ip, netints) :
           r.universe = universe /\ r.netint.ip = ip /\ r.handle = h
    BY DEF Requests
  <2> QED
    BY <2>1, <2>2, <2>3, RequestsType
<1> QED
  BY <1>1, <1>2

\* The queues do not depend on the table.
LEMMA ListensStill ==
    ASSUME NEW c, NEW d, NEW W, Listening(c, W), d.subs = c.subs, d.unsubs = c.unsubs,
           d.joined = c.joined, d.polls = c.polls, c.open \subseteq d.open
    PROVE  Listening(d, W)
<1>1. \A r \in d.joined : r.handle \in d.open
  BY DEF Listening
<1> QED
  BY <1>1 DEF Listening

\* A context that records another set of sockets that wait.
LEMMA DeadRecorded ==
    ASSUME NEW c, NEW D, NEW U, NEW A, Fits(c, D, U, A)
    PROVE  LET d == [c EXCEPT !.dead = D]
           IN  /\ Fits(d, d.dead, U, A) /\ Keeps(c, d) /\ d.dead = D
               /\ d.subs = c.subs /\ d.unsubs = c.unsubs /\ d.joined = c.joined
               /\ d.polls = c.polls /\ d.open = c.open
<1> DEFINE d == [c EXCEPT !.dead = D]
<1>1. c \in Context /\ D \in SUBSET DeadSocket
  BY DEF Fits, OpenFit
<1>2. /\ d \in Context /\ d.dead = D
      /\ d.refs = c.refs /\ d.new_refs = c.new_refs /\ d.subs = c.subs /\ d.unsubs = c.unsubs
      /\ d.bound = c.bound /\ d.polls = c.polls /\ d.open = c.open
      /\ d.joined = c.joined /\ d.polled = c.polled
  BY <1>1 DEF Context
<1> HIDE DEF d
<1>3. TableFits(d, U) /\ RefHandles(d) = RefHandles(c)
  BY <1>2 DEF Fits, TableFits, RefHandles
<1>4. OpenFit(d, D, A) /\ BoundFit(d, D)
  BY <1>2, <1>3 DEF Fits, OpenFit, BoundFit
<1>5. \A F : Polled(c, F) => Polled(d, F)
  BY <1>2 DEF Polled
<1> QED
  BY <1>2, <1>3, <1>4, <1>5 DEF Fits, Keeps, d

LEMMA LowerSame ==
    ASSUME NEW c \in Context, NEW i \in DOMAIN c.refs, c.refs[i].refcount > 1
    PROVE  LET d == WithRefcount(c, i, c.refs[i].refcount - 1)
           IN  /\ d.dead = c.dead /\ d.subs = c.subs /\ d.unsubs = c.unsubs
               /\ d.joined = c.joined /\ d.polls = c.polls /\ d.open = c.open
<1> DEFINE n == c.refs[i].refcount - 1
           d == WithRefcount(c, i, n)
<1>1. n \in 1..MaxSubs
  BY RefType, ReceiveSocketsAssumption
<1> HIDE DEF n
<1>2. d.dead = c.dead /\ d.subs = c.subs
  BY <1>1, RefcountResult
<1>3. d.unsubs = c.unsubs
  BY <1>1, RefcountResult
<1>4. d.joined = c.joined
  BY <1>1, RefcountResult
<1>5. d.open = c.open
  BY <1>1, RefcountResult
<1>6. d.polls = c.polls
  BY <1>1, RefcountResult
<1> HIDE DEF d
<1> QED
  BY <1>2, <1>3, <1>4, <1>5, <1>6 DEF d, n

\* The reference itself, when its subscriptions are taken back.
LEMMA ReleaseFits ==
    ASSUME NEW c, NEW i \in DOMAIN c.refs, NEW U \in Using, NEW A, Fits(c, c.dead, U, A),
           NEW l \in Listeners, U[l][c.refs[i].ip] = c.refs[i].handle, NEW now \in BOOLEAN
    PROVE  LET d == ReleaseSocketRef(c, i, c.refs[i], now)
           IN  /\ Fits(d, d.dead, Use(U, l, c.refs[i].ip, NoSocket), A) /\ Keeps(c, d)
               /\ now => d.dead = c.dead
               /\ \A W : Listening(c, W) /\ (now => ~c.polls) => Listening(d, W)
<1> DEFINE ref == c.refs[i]
           V == Use(U, l, ref.ip, NoSocket)
           d == ReleaseSocketRef(c, i, ref, now)
           s == SocketOf(ref)
           e == DropRef(c, i, ref)
<1>0. c \in Context /\ ref.refcount \in 1..MaxSubs /\ V \in Using
  <2>1. NoSocket \in 0..MaxSockets
    BY ReceiveSocketsAssumption DEF NoSocket
  <2> QED
    BY <2>1, RefType, UseType DEF Fits
<1>1. CASE ref.refcount > 1
  <2> DEFINE f == WithRefcount(c, i, ref.refcount - 1)
  <2>1. d = f
    BY <1>1 DEF ReleaseSocketRef, WithRefcount
  <2>2. Fits(f, c.dead, V, A) /\ Keeps(c, f)
    BY <1>1, LowerFits
  <2>3. ref.refcount - 1 \in 1..MaxSubs
    BY <1>0, <1>1, ReceiveSocketsAssumption
  <2>4. /\ f.dead = c.dead /\ f.subs = c.subs /\ f.unsubs = c.unsubs /\ f.joined = c.joined
        /\ f.polls = c.polls /\ f.open = c.open
    BY <1>0, <1>1, LowerSame
  <2> HIDE DEF f, d, V
  <2>5. \A W : Listening(c, W) => Listening(f, W)
    BY <2>4, ListensStill
  <2> QED
    BY <2>1, <2>2, <2>4, <2>5 DEF d, V
<1>2. CASE ~(ref.refcount > 1)
  <2>0. ref.refcount <= 1
    BY <1>0, <1>2
  <2>1. Fits(e, c.dead \cup {s}, V, A) /\ Keeps(c, e)
    BY <2>0, DropFits
  <2>2. /\ e.dead = c.dead /\ e.subs = c.subs /\ e.unsubs = c.unsubs /\ e.joined = c.joined
        /\ e.polls = c.polls /\ e.open = c.open
    <3>1. ref.pending => c.new_refs > 0
      BY <1>0, TableType, RefType DEF Fits, TableFits
    <3> QED
      BY <1>0, <3>1, DropResult
  <2>3. \A W : Listening(c, W) => Listening(e, W)
    <3> HIDE DEF e
    <3> QED
      BY <2>2, ListensStill
  <2>4. d = CleanupReceiveSocket(e, s, now)
    BY <1>2 DEF ReleaseSocketRef
  <2> HIDE DEF d, e, V
  <2>5. CASE now
    <3>1. d = CloseSocket(e, s)
      BY <2>4, <2>5 DEF CleanupReceiveSocket
    <3>2. Fits(d, (c.dead \cup {s}) \ {s}, V, A) /\ Keeps(e, d) /\ Closed(e, d, s)
      <4> DEFINE E == c.dead \cup {s}
      <4>1. V \in Using /\ s \in E /\ Fits(e, E, V, A)
        BY <1>0, <2>1
      <4> HIDE DEF s, E
      <4> QED
        BY <3>1, <4>1, CloseFits DEF E
    <3>4. s \notin c.dead
      <4>1. s.handle = ref.handle
        BY DEF SocketOf
      <4>2. s.handle \in RefHandles(c)
        BY <4>1 DEF RefHandles
      <4> QED
        BY <4>2 DEF Fits, OpenFit, Handles
    <3>5. (c.dead \cup {s}) \ {s} = d.dead
      BY <2>2, <3>2, <3>4 DEF Closed
    <3>6. ASSUME NEW W, Listening(c, W), ~c.polls PROVE Listening(d, W)
      <4>1. Listening(e, W) /\ e.joined = {}
        BY <2>2, <2>3, <3>6 DEF Listening
      <4>2. d.joined = {} /\ d.polls = e.polls
        BY <3>2, <4>1 DEF Keeps, Closed
      <4> QED
        BY <3>2, <4>1, <4>2 DEF Listening, Closed
    <3> QED
      BY <2>1, <2>2, <2>5, <3>2, <3>5, <3>6, KeepsTransitive DEF Closed, d, V
  <2>6. CASE ~now
    <3> DEFINE f == [e EXCEPT !.dead = c.dead \cup {s}]
    <3>1. d = f
      BY <2>2, <2>4, <2>6 DEF CleanupReceiveSocket
    <3>2. /\ Fits(f, f.dead, V, A) /\ Keeps(e, f) /\ f.subs = e.subs /\ f.unsubs = e.unsubs
          /\ f.joined = e.joined /\ f.polls = e.polls /\ f.open = e.open
      BY <2>1, DeadRecorded
    <3> HIDE DEF f
    <3>3. \A W : Listening(e, W) => Listening(f, W)
      BY <3>2, ListensStill
    <3> QED
      BY <2>1, <2>3, <2>6, <3>1, <3>2, <3>3, KeepsTransitive DEF d, V
  <2> QED
    BY <2>5, <2>6
<1> QED
  BY <1>1, <1>2

\* What remains when sockets, with the subscriptions asked for, are given back.
Released(c, d, V, A, asked, now) ==
    /\ Fits(d, d.dead, V, A) /\ Keeps(c, d)
    /\ now => d.dead = c.dead
    /\ \A W : Listening(c, W) /\ asked \subseteq W /\ (now => ~c.polls) =>
          Listening(d, W \ asked)

LEMMA UnsubscribeAtFits ==
    ASSUME NEW c, NEW i \in DOMAIN c.refs, NEW U \in Using, NEW A, Fits(c, c.dead, U, A),
           NEW l \in Listeners, U[l][c.refs[i].ip] = c.refs[i].handle, NEW now \in BOOLEAN,
           NEW universe \in Universes \cup {Discovery}, NEW netints \in SUBSET Netints
    PROVE  Released(c, UnsubscribeAt(c, i, universe, netints, now),
                    Use(U, l, c.refs[i].ip, NoSocket), A,
                    Requests(c.refs[i].handle, universe, c.refs[i].ip, netints), now)
<1> DEFINE ref == c.refs[i]
           reqs == Requests(ref.handle, universe, ref.ip, netints)
           e == UnsubscribeSocket(c, reqs, now)
           d == UnsubscribeAt(c, i, universe, netints, now)
<1>1. c \in Context /\ ref.handle \in Handle
  BY RefType DEF Fits
<1>2. reqs \in SUBSET Request
  BY <1>1, RequestsType
<1>3. d = ReleaseSocketRef(e, i, ref, now)
  BY DEF UnsubscribeAt, UnsubscribeSocketRef
<1> HIDE DEF reqs
<1>4. e \in Context /\ SameSockets(c, e)
  BY <1>1, <1>2, UnsubscribeResult
<1>5. \A W : Listening(c, W) /\ reqs \subseteq W /\ (now => ~c.polls) => Listening(e, W \ reqs)
  BY <1>1, <1>2, UnsubscribeListens
<1> HIDE DEF e, d
<1>6. e.refs = c.refs /\ e.dead = c.dead /\ e.polls = c.polls
  BY <1>4 DEF SameSockets
<1>7. Fits(e, e.dead, U, A) /\ Keeps(c, e)
  BY <1>4, <1>6, SameFits
<1>8. /\ Fits(d, d.dead, Use(U, l, ref.ip, NoSocket), A) /\ Keeps(e, d)
      /\ now => d.dead = e.dead
      /\ \A W : Listening(e, W) /\ (now => ~e.polls) => Listening(d, W)
  BY <1>3, <1>6, <1>7, ReleaseFits
<1> QED
  BY <1>5, <1>6, <1>7, <1>8, KeepsTransitive DEF Released, d, reqs

LEMMA RemoveOneFits ==
    ASSUME NEW c, NEW U \in Using, NEW A, Fits(c, c.dead, U, A), NEW l \in Listeners,
           NEW ip \in IpTypes, NEW now \in BOOLEAN,
           NEW universe \in Universes \cup {Discovery}, NEW netints \in SUBSET Netints
    PROVE  Released(c, RemoveReceiverSocket(c, U[l][ip], universe, netints, now),
                    Use(U, l, ip, NoSocket), A, Asked(U[l][ip], universe, ip, netints), now)
<1> DEFINE h == U[l][ip]
           d == RemoveReceiverSocket(c, h, universe, netints, now)
           reqs == Asked(h, universe, ip, netints)
<1>1. CASE h = NoSocket
  <2>1. d = c /\ reqs = {}
    BY <1>1 DEF RemoveReceiverSocket, Asked
  <2>2. Use(U, l, ip, NoSocket) = U
    BY <1>1 DEF Use, Using
  <2>3. \A W : W \ {} = W
    OBVIOUS
  <2> HIDE DEF d, reqs
  <2> QED
    BY <2>1, <2>2, <2>3 DEF Keeps, Released, d, reqs
<1>2. CASE h # NoSocket
  <2> DEFINE i == FindSocketRefByHandle(c, h)
             I == {j \in DOMAIN c.refs : c.refs[j].handle = h}
  <2>1. PICK j \in DOMAIN c.refs : c.refs[j].handle = h /\ c.refs[j].ip = ip
    BY <1>2 DEF Fits, TableFits
  <2>2. I \in SUBSET (Nat \ {0}) /\ I # {}
    BY <2>1, TableType DEF Fits
  <2>3. i \in I
    BY <2>2, FirstOfSome DEF FindSocketRefByHandle
  <2>4. i = j
    BY <2>1, <2>3 DEF Fits, TableFits
  <2>5. d = UnsubscribeAt(c, i, universe, netints, now)
    BY <1>2 DEF RemoveReceiverSocket
  <2> HIDE DEF i, d
  <2>6. d = UnsubscribeAt(c, j, universe, netints, now)
    BY <2>4, <2>5
  <2>7. reqs = Requests(c.refs[j].handle, universe, c.refs[j].ip, netints)
    BY <1>2, <2>1 DEF Asked
  <2>8. Released(c, d, Use(U, l, ip, NoSocket), A, reqs, now)
    BY <2>1, <2>6, <2>7, UnsubscribeAtFits
  <2> QED
    BY <2>8 DEF d, reqs
<1> QED
  BY <1>1, <1>2

UseAll(U, l, sockets) == [U EXCEPT ![l] = sockets]

LEMMA UseTwice ==
    ASSUME NEW U \in Using, NEW l \in Listeners, NEW ip \in IpTypes, NEW h, NEW k
    PROVE  /\ Use(Use(U, l, ip, h), l, ip, k) = Use(U, l, ip, k)
           /\ Use(Use(U, l, 4, h), l, 6, k) = UseAll(U, l, Sockets(h, k))
           /\ Use(U, l, ip, U[l][ip]) = U
           /\ UseAll(U, l, U[l]) = U
<1>1. U \in [Listeners -> [IpTypes -> 0..MaxSockets]] /\ U[l] \in [IpTypes -> 0..MaxSockets]
  BY DEF Using
<1>2. Use(Use(U, l, ip, h), l, ip, k) = Use(U, l, ip, k)
  BY <1>1 DEF Use
<1>3. Use(Use(U, l, 4, h), l, 6, k) = UseAll(U, l, Sockets(h, k))
  <2> DEFINE f == U[l]
             g == [[f EXCEPT ![4] = h] EXCEPT ![6] = k]
  <2>1. Use(Use(U, l, 4, h), l, 6, k) = [U EXCEPT ![l] = g]
    BY <1>1 DEF Use
  <2>2. f = [v \in IpTypes |-> f[v]]
    BY <1>1
  <2> HIDE DEF f
  <2>3. g = [v \in IpTypes |-> IF v = 6 THEN k ELSE IF v = 4 THEN h ELSE f[v]]
    BY <2>2
  <2>4. \A v \in IpTypes :
           (IF v = 6 THEN k ELSE IF v = 4 THEN h ELSE f[v]) = IF v = 4 THEN h ELSE k
    BY DEF IpTypes
  <2> HIDE DEF g
  <2>5. g = Sockets(h, k)
    BY <2>3, <2>4 DEF Sockets
  <2> QED
    BY <2>1, <2>5 DEF UseAll
<1>4. Use(U, l, ip, U[l][ip]) = U /\ UseAll(U, l, U[l]) = U
  BY <1>1 DEF Use, UseAll
<1> QED
  BY <1>2, <1>3, <1>4

LEMMA NoSocketType == NoSocket \in 0..MaxSockets /\ 4 \in IpTypes /\ 6 \in IpTypes
  BY ReceiveSocketsAssumption DEF NoSocket, IpTypes

LEMMA RemoveFits ==
    ASSUME NEW c, NEW U \in Using, NEW A, Fits(c, c.dead, U, A), NEW l \in Listeners,
           NEW now \in BOOLEAN,
           NEW universe \in Universes \cup {Discovery}, NEW netints \in SUBSET Netints
    PROVE  Released(c, RemoveSockets(c, U[l], universe, netints, now),
                    UseAll(U, l, NoSockets), A, AllAsked(U[l], universe, netints), now)
<1> DEFINE e == RemoveReceiverSocket(c, U[l][4], universe, netints, now)
           d == RemoveReceiverSocket(e, U[l][6], universe, netints, now)
           V == Use(U, l, 4, NoSocket)
           a4 == Asked(U[l][4], universe, 4, netints)
           a6 == Asked(U[l][6], universe, 6, netints)
<1>1. RemoveSockets(c, U[l], universe, netints, now) = d
  BY DEF RemoveSockets
<1>2. Released(c, e, V, A, a4, now)
  BY NoSocketType, RemoveOneFits
<1>3. V \in Using /\ V[l][6] = U[l][6]
  BY NoSocketType, UseType
<1>4. a4 \cap a6 = {}
  <2>1. U[l][4] \in 0..MaxSockets /\ U[l][6] \in 0..MaxSockets
    BY NoSocketType DEF Using
  <2>2. (\A r \in a4 : r.netint.ip = 4) /\ (\A r \in a6 : r.netint.ip = 6)
    BY <2>1, AskedType
  <2> QED
    BY <2>2
<1> HIDE DEF e, V
<1>5. Released(e, d, Use(V, l, 6, NoSocket), A, a6, now)
  <2>1. Fits(e, e.dead, V, A)
    BY <1>2 DEF Released
  <2> QED
    BY <1>3, <2>1, NoSocketType, RemoveOneFits
<1> HIDE DEF d, a4, a6
<1>6. Use(V, l, 6, NoSocket) = UseAll(U, l, NoSockets)
  BY UseTwice DEF V, NoSockets, IpTypes
<1>7. ASSUME NEW W, Listening(c, W), a4 \cup a6 \subseteq W, now => ~c.polls
      PROVE  Listening(d, W \ (a4 \cup a6))
  <2>1. Listening(e, W \ a4)
    BY <1>2, <1>7 DEF Released
  <2>2. Listening(d, (W \ a4) \ a6)
    BY <1>2, <1>4, <1>5, <1>7, <2>1 DEF Keeps, Released
  <2>3. (W \ a4) \ a6 = W \ (a4 \cup a6)
    OBVIOUS
  <2> QED
    BY <2>2, <2>3
<1>8. AllAsked(U[l], universe, netints) = a4 \cup a6
  BY DEF AllAsked, a4, a6
<1>9. Keeps(c, d)
  BY <1>2, <1>5, KeepsTransitive DEF Released
<1> QED
  BY <1>1, <1>2, <1>5, <1>6, <1>7, <1>8, <1>9 DEF Released

-----------------------------------------------------------------------------
(***************************************************************************)
(* A listener is given a socket.                                           *)
(***************************************************************************)

\* Nobody asked for the universe on the interfaces of an ip type.
Free(W, universe, ip) == \A r \in W : ~(r.universe = universe /\ r.netint.ip = ip)

AddedOne(c, r, U, A, l, ip, universe, netints) ==
    /\ r.socket \in 0..MaxSockets /\ r.res \in {"Ok", "NoNetints", "Sys"}
    /\ r.res # "Ok" => r.socket = NoSocket
    /\ Fits(r.c, r.c.dead, Use(U, l, ip, r.socket), A) /\ Keeps(c, r.c)
    /\ \A W : Listening(c, W) /\ Free(W, universe, ip) =>
          Listening(r.c, W \cup Asked(r.socket, universe, ip, netints))

LEMMA UseRefFits ==
    ASSUME NEW c, NEW i \in DOMAIN c.refs, NEW U \in Using, NEW A, Fits(c, c.dead, U, A),
           NEW l \in Listeners, NEW ip \in IpTypes, c.refs[i].ip = ip,
           U[l][ip] = c.refs[i].handle,
           NEW universe \in Universes \cup {Discovery}, NEW netints \in SUBSET Netints
    PROVE  AddedOne(c, UseRef(c, i, universe, netints), U, A, l, ip, universe, netints)
<1> DEFINE h == c.refs[i].handle
           reqs == Requests(h, universe, ip, netints)
           r == UseRef(c, i, universe, netints)
<1>1. c \in Context /\ h \in Handle /\ h # NoSocket /\ h \in 0..MaxSockets
  BY RefType DEF Fits
<1>2. reqs \in SUBSET Request /\ \A x \in reqs : x.universe = universe /\ x.netint.ip = ip
  <2> DEFINE a == Asked(h, universe, ip, netints)
  <2>1. a = reqs
    BY <1>1 DEF Asked
  <2>2. a \in SUBSET Request /\ \A x \in a : x.universe = universe /\ x.netint.ip = ip
    BY <1>1, AskedType
  <2> HIDE DEF a, reqs
  <2> QED
    BY <2>1, <2>2
<1>3. r = SubscribeRef(c, i, reqs, universe, netints)
  BY DEF UseRef
<1>4. CASE reqs = {}
  <2> DEFINE d == UnsubscribeAt(c, i, universe, netints, FALSE)
  <2>1. r = [c |-> d, socket |-> NoSocket, res |-> "NoNetints"]
    BY <1>3, <1>4 DEF SubscribeRef
  <2>2. FALSE \in BOOLEAN
    OBVIOUS
  <2>3. Released(c, d, Use(U, l, ip, NoSocket), A, reqs, FALSE)
    BY <2>2, UnsubscribeAtFits
  <2> HIDE DEF d, r, reqs
  <2>4. \A W : Listening(c, W) => Listening(d, W)
    <3>1. \A W : {} \subseteq W /\ W \ {} = W
      OBVIOUS
    <3> QED
      BY <1>4, <2>3, <3>1 DEF Released
  <2>5. \A W : W \cup Asked(NoSocket, universe, ip, netints) = W
    BY DEF Asked
  <2>6. r.c = d /\ r.socket = NoSocket /\ r.res = "NoNetints"
    BY <2>1
  <2>7. \A W : Listening(c, W) => Listening(r.c, W \cup Asked(r.socket, universe, ip, netints))
    BY <2>4, <2>5, <2>6
  <2> QED
    BY <2>3, <2>6, <2>7, NoSocketType DEF AddedOne, Released, r
<1>5. CASE reqs # {}
  <2> DEFINE d == QueueSubscription(c, reqs)
  <2>1. r = [c |-> d, socket |-> h, res |-> "Ok"]
    BY <1>3, <1>5 DEF SubscribeRef
  <2>2. d \in Context /\ SameSockets(c, d)
    BY <1>1, <1>2, QueueResult
  <2>3. d.dead = c.dead
    BY <2>2 DEF SameSockets
  <2>4. Fits(d, d.dead, U, A) /\ Keeps(c, d)
    BY <2>2, <2>3, SameFits
  <2>5. ASSUME NEW W, Listening(c, W), Free(W, universe, ip) PROVE Listening(d, W \cup reqs)
    <3>1. reqs \cap W = {}
      BY <1>2, <2>5 DEF Free
    <3> QED
      BY <1>1, <1>2, <2>5, <3>1, QueueListens
  <2>6. Use(U, l, ip, h) = U
    BY UseTwice
  <2>7. Asked(h, universe, ip, netints) = reqs
    BY <1>1 DEF Asked
  <2> HIDE DEF d, r, reqs, h
  <2>8. r.c = d /\ r.socket = h /\ r.res = "Ok"
    BY <2>1
  <2> QED
    BY <1>1, <2>4, <2>5, <2>6, <2>7, <2>8 DEF AddedOne, r
<1> QED
  BY <1>4, <1>5

\* The socket is found or created, and then used.
LEMMA FoundIsUsed ==
    ASSUME NEW c, NEW d, NEW i \in DOMAIN d.refs, NEW U \in Using, NEW A,
           NEW l \in Listeners, NEW ip \in IpTypes, d.refs[i].ip = ip,
           Fits(d, d.dead, Use(U, l, ip, d.refs[i].handle), A), Keeps(c, d),
           \A W : Listening(c, W) => Listening(d, W),
           NEW universe \in Universes \cup {Discovery}, NEW netints \in SUBSET Netints
    PROVE  AddedOne(c, UseRef(d, i, universe, netints), U, A, l, ip, universe, netints)
<1> DEFINE h == d.refs[i].handle
           V == Use(U, l, ip, h)
           r == UseRef(d, i, universe, netints)
<1>1. h \in 0..MaxSockets
  BY RefType DEF Fits
<1>2. V \in Using /\ V[l][ip] = h
  BY <1>1, UseType
<1> HIDE DEF V
<1>3. AddedOne(d, r, V, A, l, ip, universe, netints)
  BY <1>2, UseRefFits DEF V
<1> HIDE DEF r, h
<1>4. \A k : Use(V, l, ip, k) = Use(U, l, ip, k)
  BY UseTwice DEF V
<1>5. Keeps(c, r.c)
  BY <1>3, KeepsTransitive DEF AddedOne
<1>6. AddedOne(c, r, U, A, l, ip, universe, netints)
  BY <1>3, <1>4, <1>5 DEF AddedOne
<1> QED
  BY <1>6 DEF r

LEMMA AddReceiverSocketFits ==
    ASSUME NEW c, NEW U \in Using, NEW A, Fits(c, c.dead, U, A), NEW l \in Listeners,
           NEW ip \in IpTypes, U[l][ip] = NoSocket,
           NEW universe \in Universes \cup {Discovery}, NEW netints \in SUBSET Netints
    PROVE  AddedOne(c, AddReceiverSocket(c, ip, universe, netints), U, A, l, ip,
                    universe, netints)
<1> DEFINE I == {i \in DOMAIN c.refs : c.refs[i].ip = ip /\ c.refs[i].refcount < MaxSubs}
           found == FindSocketRefWithRoom(c, ip)
           r == AddReceiverSocket(c, ip, universe, netints)
<1>0. c \in Context
  BY DEF Fits
<1>1. /\ found = FirstOf(I) /\ I \in SUBSET (Nat \ {0})
      /\ r = FindOrCreate(c, found, ip, universe, netints)
  BY <1>0, TableType DEF FindSocketRefWithRoom, AddReceiverSocket
<1>2. (I = {} => found = 0) /\ (I # {} => found \in I)
  BY <1>1, FirstOfSome
<1> HIDE DEF found, r
<1>3. CASE found # 0
  <2>1. found \in DOMAIN c.refs /\ c.refs[found].ip = ip /\ c.refs[found].refcount < MaxSubs
    BY <1>2, <1>3
  <2> DEFINE n == c.refs[found].refcount + 1
             d == WithRefcount(c, found, n)
  <2>2. r = UseRef(d, found, universe, netints)
    BY <1>1, <1>3 DEF FindOrCreate, WithRefcount
  <2>3. n \in 1..MaxSubs
    BY <1>0, <2>1, RefType, ReceiveSocketsAssumption
  <2>4. Fits(d, c.dead, Use(U, l, ip, c.refs[found].handle), A) /\ Keeps(c, d)
    BY <2>1, RaiseFits
  <2> HIDE DEF n
  <2>5. /\ DOMAIN d.refs = DOMAIN c.refs
        /\ d.refs[found] = [c.refs[found] EXCEPT !.refcount = n]
    BY <1>0, <2>1, <2>3, RefcountResult
  <2>6. /\ d.dead = c.dead /\ d.subs = c.subs /\ d.unsubs = c.unsubs /\ d.polls = c.polls
        /\ d.open = c.open /\ d.joined = c.joined
    <3>1. d.dead = c.dead /\ d.subs = c.subs
      BY <1>0, <2>1, <2>3, RefcountResult
    <3>2. d.unsubs = c.unsubs
      BY <1>0, <2>1, <2>3, RefcountResult
    <3>3. d.polls = c.polls
      BY <1>0, <2>1, <2>3, RefcountResult
    <3>4. d.open = c.open
      BY <1>0, <2>1, <2>3, RefcountResult
    <3>5. d.joined = c.joined
      BY <1>0, <2>1, <2>3, RefcountResult
    <3> HIDE DEF d
    <3> QED
      BY <3>1, <3>2, <3>3, <3>4, <3>5
  <2> HIDE DEF d
  <2>7. found \in DOMAIN d.refs /\ d.refs[found].ip = ip
        /\ d.refs[found].handle = c.refs[found].handle
    BY <1>0, <2>1, <2>5, RefType DEF SocketRef
  <2>8. \A W : Listening(c, W) => Listening(d, W)
    BY <2>6, ListensStill
  <2>9. Fits(d, d.dead, Use(U, l, ip, d.refs[found].handle), A)
    BY <2>4, <2>6, <2>7
  <2> QED
    BY <2>2, <2>4, <2>7, <2>8, <2>9, FoundIsUsed DEF r
<1>4. CASE found = 0 /\ CanCreate(c)
  <2> DEFINE F == (1..MaxSockets) \ c.open
             h == Min(F)
             binds == ~LimitBind \/ ~c.bound[ip]
             d == NewSocketRef(c, ip, h, binds)
             n == Len(c.refs) + 1
  <2>1. F # {} /\ F \in SUBSET Nat
    <3>1. SUFFICES ASSUME F = {} PROVE FALSE
      OBVIOUS
    <3>2. c.open = 1..MaxSockets
      BY <1>0, <3>1 DEF Context, Handle
    <3>3. MaxSockets \in Nat
      BY ReceiveSocketsAssumption
    <3>4. Cardinality(1..MaxSockets) = MaxSockets
      BY <3>3, FS_Interval
    <3> QED
      BY <1>4, <3>2, <3>3, <3>4 DEF CanCreate
  <2>2. h \in F
    <3> HIDE DEF F
    <3>1. \E x \in F : \A y \in F : x <= y
      BY <2>1, LeastNumber
    <3> QED
      BY <3>1 DEF Min
  <2>3. h \in Handle /\ h \notin c.open
    BY <2>2 DEF Handle
  <2>4. binds \in BOOLEAN /\ (LimitBind => (binds <=> ~c.bound[ip]))
    OBVIOUS
  <2>5. r = UseRef(d, n, universe, netints)
    BY <1>1, <1>4 DEF FindOrCreate, CreateSocketRef
  <2> HIDE DEF h, binds, F
  <2>6. Fits(d, c.dead, Use(U, l, ip, h), A) /\ Keeps(c, d)
    BY <2>3, <2>4, NewRefFits
  <2>7. DOMAIN d.refs = 1..n /\ d.refs[n] = NewRef(ip, h, binds)
    BY <1>0, <2>3, <2>4, NewRefResult
  <2>8. /\ d.dead = c.dead /\ d.subs = c.subs /\ d.unsubs = c.unsubs /\ d.polls = c.polls
        /\ d.open = c.open \cup {h} /\ d.joined = c.joined
    BY <1>0, <2>3, <2>4, NewRefResult
  <2>9. n \in 1..n
    BY <1>0, TableType
  <2> HIDE DEF d, n
  <2>10. n \in DOMAIN d.refs /\ d.refs[n].ip = ip /\ d.refs[n].handle = h
    BY <2>7, <2>9 DEF NewRef
  <2>11. \A W : Listening(c, W) => Listening(d, W)
    <3>1. c.open \subseteq d.open
      BY <2>8
    <3> QED
      BY <2>8, <3>1, ListensStill
  <2>12. Fits(d, d.dead, Use(U, l, ip, d.refs[n].handle), A)
    BY <2>6, <2>8, <2>10
  <2> QED
    BY <2>5, <2>6, <2>10, <2>11, <2>12, FoundIsUsed DEF r
<1>5. CASE found = 0 /\ ~CanCreate(c)
  <2>1. r.c = c /\ r.socket = NoSocket /\ r.res = "Sys"
    BY <1>1, <1>5 DEF FindOrCreate
  <2>2. Use(U, l, ip, NoSocket) = U
    BY UseTwice
  <2>3. \A W : W \cup Asked(NoSocket, universe, ip, netints) = W
    BY DEF Asked
  <2>4. \A W : Listening(c, W) => Listening(r.c, W \cup Asked(r.socket, universe, ip, netints))
    BY <2>1, <2>3
  <2> QED
    BY <2>1, <2>2, <2>4, NoSocketType DEF AddedOne, Keeps, r
<1> QED
  BY <1>3, <1>4, <1>5

LEMMA AddSocketsOfFits ==
    ASSUME NEW c, NEW U \in Using, NEW A, Fits(c, c.dead, U, A), NEW l \in Listeners,
           NEW ip \in IpTypes, U[l][ip] = NoSocket,
           NEW universe \in Universes \cup {Discovery}, NEW netints \in SUBSET Netints
    PROVE  AddedOne(c, AddSocketsOf(c, ip, universe, netints), U, A, l, ip, universe, netints)
<1> DEFINE r == AddSocketsOf(c, ip, universe, netints)
<1>1. CASE netints = {}
  <2>1. r.c = c /\ r.socket = NoSocket /\ r.res = "Ok"
    BY <1>1 DEF AddSocketsOf
  <2>2. Use(U, l, ip, NoSocket) = U
    BY UseTwice
  <2>3. \A W : W \cup Asked(NoSocket, universe, ip, netints) = W
    BY DEF Asked
  <2> HIDE DEF r
  <2>4. \A W : Listening(c, W) => Listening(r.c, W \cup Asked(r.socket, universe, ip, netints))
    BY <2>1, <2>3
  <2> QED
    BY <2>1, <2>2, <2>4, NoSocketType DEF AddedOne, Keeps, r
<1>2. CASE netints # {}
  <2>1. r = AddReceiverSocket(c, ip, universe, netints)
    BY <1>2 DEF AddSocketsOf
  <2> HIDE DEF r
  <2> QED
    BY <2>1, AddReceiverSocketFits DEF r
<1> QED
  BY <1>1, <1>2

\* What becomes of adding the sockets of a listener that has none.
Added(c, r, U, A, l, universe, netints) ==
    /\ r.sockets \in [IpTypes -> 0..MaxSockets] /\ r.ok \in BOOLEAN
    /\ ~r.ok => r.sockets = NoSockets
    /\ Fits(r.c, r.c.dead, UseAll(U, l, r.sockets), A) /\ Keeps(c, r.c)
    /\ \A W : Listening(c, W) /\ (\A x \in W : x.universe # universe) =>
          Listening(r.c, W \cup AllAsked(r.sockets, universe, netints))

LEMMA SocketsType ==
    ASSUME NEW h \in 0..MaxSockets, NEW k \in 0..MaxSockets
    PROVE  /\ Sockets(h, k) \in [IpTypes -> 0..MaxSockets]
           /\ Sockets(h, k)[4] = h /\ Sockets(h, k)[6] = k
  BY DEF Sockets, IpTypes

\* Both sockets are kept.
LEMMA BothAdded ==
    ASSUME NEW c, NEW U \in Using, NEW A, NEW l \in Listeners, U[l] = NoSockets,
           NEW universe \in Universes \cup {Discovery}, NEW netints \in SUBSET Netints,
           NEW v4, AddedOne(c, v4, U, A, l, 4, universe, netints),
           NEW v6, AddedOne(v4.c, v6, Use(U, l, 4, v4.socket), A, l, 6, universe, netints),
           NEW r, r.c = v6.c, r.sockets = Sockets(v4.socket, v6.socket), r.ok \in BOOLEAN,
           ~r.ok => r.sockets = NoSockets
    PROVE  Added(c, r, U, A, l, universe, netints)
<1>1. v4.socket \in 0..MaxSockets /\ v6.socket \in 0..MaxSockets
  BY DEF AddedOne
<1>2. r.sockets \in [IpTypes -> 0..MaxSockets] /\ r.sockets[4] = v4.socket
      /\ r.sockets[6] = v6.socket
  BY <1>1, SocketsType
<1>3. Use(Use(U, l, 4, v4.socket), l, 6, v6.socket) = UseAll(U, l, r.sockets)
  BY NoSocketType, UseTwice
<1>4. Fits(r.c, r.c.dead, UseAll(U, l, r.sockets), A)
  BY <1>3 DEF AddedOne
<1>5. Keeps(c, r.c)
  BY KeepsTransitive DEF AddedOne
<1>6. ASSUME NEW W, Listening(c, W), \A x \in W : x.universe # universe
      PROVE  Listening(r.c, W \cup AllAsked(r.sockets, universe, netints))
  <2> DEFINE a4 == Asked(v4.socket, universe, 4, netints)
             a6 == Asked(v6.socket, universe, 6, netints)
             X == W \cup a4
  <2>1. \A x \in a4 : x.netint.ip = 4
    BY <1>1, AskedType
  <2>2. Free(W, universe, 4) /\ Free(X, universe, 6)
    BY <1>6, <2>1 DEF Free
  <2>3. Listening(v4.c, X)
    BY <1>6, <2>2 DEF AddedOne
  <2>4. AllAsked(r.sockets, universe, netints) = a4 \cup a6
    BY <1>2 DEF AllAsked
  <2> HIDE DEF a4
  <2>5. W \cup (a4 \cup a6) = X \cup a6
    OBVIOUS
  <2> HIDE DEF X, a6
  <2>6. Listening(v6.c, X \cup a6)
    BY <2>2, <2>3 DEF AddedOne, a6
  <2> QED
    BY <2>4, <2>5, <2>6
<1> QED
  BY <1>2, <1>4, <1>5, <1>6 DEF Added

LEMMA AddFits ==
    ASSUME NEW c, NEW U \in Using, NEW A, Fits(c, c.dead, U, A), NEW l \in Listeners,
           U[l] = NoSockets,
           NEW universe \in Universes \cup {Discovery}, NEW netints \in SUBSET Netints
    PROVE  Added(c, AddSockets(c, universe, netints), U, A, l, universe, netints)
<1> DEFINE v4 == AddSocketsOf(c, 4, universe, netints)
           v6 == AddSocketsOf(v4.c, 6, universe, netints)
           V == Use(U, l, 4, v4.socket)
           r == AddSockets(c, universe, netints)
<1>0. NoSockets[4] = NoSocket /\ NoSockets[6] = NoSocket
      /\ NoSockets = Sockets(NoSocket, NoSocket)
  BY NoSocketType, SocketsType DEF NoSockets
<1>1. AddedOne(c, v4, U, A, l, 4, universe, netints)
  BY <1>0, NoSocketType, AddSocketsOfFits
<1>2. r = AfterV4(v4, universe, netints)
  BY DEF AddSockets
<1>3. v4.socket \in 0..MaxSockets /\ Fits(v4.c, v4.c.dead, V, A)
  <2> HIDE DEF v4
  <2> QED
    BY <1>1 DEF AddedOne
<1>4. V \in Using /\ V[l][6] = NoSocket /\ V[l][4] = v4.socket
  <2> HIDE DEF v4
  <2> QED
    BY <1>0, <1>3, NoSocketType, UseType
<1> HIDE DEF V
<1>5. AddedOne(v4.c, v6, V, A, l, 6, universe, netints)
  BY <1>3, <1>4, NoSocketType, AddSocketsOfFits
<1>6. CASE v4.res = "Sys"
  <2>1. r = [c |-> v4.c, sockets |-> NoSockets, ok |-> FALSE]
    BY <1>2, <1>6 DEF AfterV4
  <2> HIDE DEF v4, r
  <2>2. v4.socket = NoSocket
    BY <1>1, <1>6 DEF AddedOne
  <2>3. r.c = v4.c /\ r.sockets = NoSockets /\ r.ok = FALSE
    BY <2>1
  <2>4. NoSockets \in [IpTypes -> 0..MaxSockets]
    BY <1>0, NoSocketType, SocketsType
  <2>5. Use(U, l, 4, NoSocket) = U /\ UseAll(U, l, NoSockets) = U
    BY <1>0, NoSocketType, UseTwice
  <2>6. AllAsked(NoSockets, universe, netints) = {}
    BY <1>0 DEF AllAsked, Asked
  <2>7. \A W : Listening(c, W) /\ (\A x \in W : x.universe # universe) => Listening(v4.c, W)
    <3>1. \A W : W \cup Asked(NoSocket, universe, 4, netints) = W
      BY DEF Asked
    <3>2. \A W : (\A x \in W : x.universe # universe) => Free(W, universe, 4)
      BY DEF Free
    <3> QED
      BY <1>1, <2>2, <3>1, <3>2 DEF AddedOne
  <2>8. \A W : W \cup {} = W
    OBVIOUS
  <2>9. Fits(v4.c, v4.c.dead, U, A) /\ Keeps(c, v4.c)
    BY <1>1, <2>2, <2>5 DEF AddedOne
  <2> QED
    BY <2>3, <2>4, <2>5, <2>6, <2>7, <2>8, <2>9 DEF Added, r
<1>7. CASE v4.res # "Sys"
  <2>1. r = Both(v4, v6, universe, netints)
    BY <1>2, <1>7 DEF AfterV4
  <2> HIDE DEF v4, v6, r
  <2>2. CASE v6.res = "Ok" \/ (v6.res = "NoNetints" /\ v4.res = "Ok")
    <3>1. r = [c |-> v6.c, sockets |-> Sockets(v4.socket, v6.socket), ok |-> TRUE]
      BY <2>1, <2>2 DEF Both
    <3>2. r.c = v6.c /\ r.sockets = Sockets(v4.socket, v6.socket) /\ r.ok
          /\ r.ok \in BOOLEAN
      BY <3>1
    <3> QED
      BY <1>1, <1>5, <3>2, BothAdded DEF V, r
  <2>3. CASE ~(v6.res = "Ok" \/ (v6.res = "NoNetints" /\ v4.res = "Ok"))
    <3> DEFINE d == RemoveReceiverSocket(v6.c, v4.socket, universe, netints, FALSE)
               a4 == Asked(v4.socket, universe, 4, netints)
    <3>1. r = [c |-> d, sockets |-> NoSockets, ok |-> FALSE]
      BY <2>1, <2>3 DEF Both
    <3>2. v6.socket = NoSocket
      BY <1>5, <2>3 DEF AddedOne
    <3>3. Use(V, l, 6, NoSocket) = V
      BY <1>4, NoSocketType, UseTwice
    <3>4. Fits(v6.c, v6.c.dead, V, A) /\ Keeps(v4.c, v6.c)
      BY <1>5, <3>2, <3>3 DEF AddedOne
    <3>5. /\ Fits(d, d.dead, Use(V, l, 4, NoSocket), A) /\ Keeps(v6.c, d)
          /\ \A W : Listening(v6.c, W) /\ a4 \subseteq W => Listening(d, W \ a4)
      <4>1. FALSE \in BOOLEAN
        OBVIOUS
      <4>2. Released(v6.c, d, Use(V, l, 4, NoSocket), A, a4, FALSE)
        BY <1>4, <3>4, <4>1, NoSocketType, RemoveOneFits
      <4> HIDE DEF d, a4
      <4> QED
        BY <4>2 DEF Released
    <3> HIDE DEF d, a4
    <3>6. r.c = d /\ r.sockets = NoSockets /\ r.ok = FALSE
      BY <3>1
    <3>7. Use(V, l, 4, NoSocket) = U /\ UseAll(U, l, NoSockets) = U
      <4>1. Use(V, l, 4, NoSocket) = Use(U, l, 4, NoSocket)
        BY NoSocketType, UseTwice DEF V
      <4> QED
        BY <1>0, <4>1, NoSocketType, UseTwice
    <3>8. NoSockets \in [IpTypes -> 0..MaxSockets]
      BY <1>0, NoSocketType, SocketsType
    <3>9. AllAsked(NoSockets, universe, netints) = {}
      BY <1>0 DEF AllAsked, Asked
    <3>10. ASSUME NEW W, Listening(c, W), \A x \in W : x.universe # universe
           PROVE  Listening(d, W)
      <4> DEFINE X == W \cup a4
      <4>1. \A x \in a4 : x.netint.ip = 4 /\ x.universe = universe
        BY <1>3, AskedType DEF a4
      <4>2. Free(W, universe, 4) /\ Free(X, universe, 6)
        BY <3>10, <4>1 DEF Free
      <4>3. Listening(v4.c, X)
        BY <1>1, <3>10, <4>2 DEF AddedOne, a4
      <4>4. a4 \subseteq X /\ X \ a4 = W
        BY <3>10, <4>1
      <4>5. \A Y : Y \cup Asked(NoSocket, universe, 6, netints) = Y
        BY DEF Asked
      <4> HIDE DEF X
      <4>6. Listening(v6.c, X)
        BY <1>5, <3>2, <4>2, <4>3, <4>5 DEF AddedOne
      <4> QED
        BY <3>5, <4>4, <4>6
    <3>11. Keeps(c, d)
      <4>1. Keeps(c, v4.c)
        BY <1>1 DEF AddedOne
      <4> QED
        BY <3>4, <3>5, <4>1, KeepsTransitive
    <3>12. \A W : W \cup {} = W
      OBVIOUS
    <3> QED
      BY <3>5, <3>6, <3>7, <3>8, <3>9, <3>10, <3>11, <3>12 DEF Added, r
  <2> QED
    BY <2>2, <2>3
<1> QED
  BY <1>6, <1>7

-----------------------------------------------------------------------------
(***************************************************************************)
(* The thread works off what is queued.                                    *)
(***************************************************************************)
LEMMA EmptyBagType == EmptyBag \in Bag /\ DOMAIN EmptyBag = {} /\ EmptyBag = SetToBag({})
<1>1. EmptyBag = [e \in {} |-> 1]
  BY DEF EmptyBag, SetToBag
<1>2. [e \in {} |-> 1] \in [{} -> Nat \ {0}]
  OBVIOUS
<1>3. {} \in SUBSET Request
  OBVIOUS
<1>4. EmptyBag \in Bag
  BY <1>1, <1>2, <1>3 DEF Bag
<1>5. DOMAIN [e \in {} |-> 1] = {}
  OBVIOUS
<1> QED
  BY <1>1, <1>4, <1>5 DEF SetToBag

\* The requests are worked off, and the subscriptions W are of sockets in use.
Settled(c, W) ==
    /\ Listening(c, W) /\ DOMAIN c.subs = {} /\ DOMAIN c.unsubs = {}
    /\ \A r \in W : r.handle \in RefHandles(c)

LEMMA WorkOffRequestsFits ==
    ASSUME NEW c, NEW D, NEW U, NEW A, Fits(c, D, U, A)
    PROVE  LET d == WorkOffRequests(c)
           IN  /\ Fits(d, D, U, A) /\ Keeps(c, d) /\ d.dead = c.dead
               /\ \A W : /\ Listening(c, W) /\ c.polls
                         /\ \A r \in W : r.handle \in RefHandles(c)
                         => Settled(d, W)
<1> DEFINE j == (c.joined \ DOMAIN c.unsubs) \cup {r \in DOMAIN c.subs : r.handle \in c.open}
           d == WorkOffRequests(c)
<1>0. /\ c \in Context /\ c.subs \in Bag /\ c.joined \in SUBSET Request
      /\ DOMAIN c.subs \in SUBSET Request
  BY DEF Fits, Context, Bag
<1>1. j \in SUBSET Request
  BY <1>0
<1>2. d = [c EXCEPT !.joined = j, !.unsubs = EmptyBag, !.subs = EmptyBag]
  BY DEF WorkOffRequests, BagToSet
<1> HIDE DEF j, d
<1>3. /\ d \in Context /\ SameSockets(c, d)
      /\ d.joined = j /\ d.subs = EmptyBag /\ d.unsubs = EmptyBag
  BY <1>0, <1>1, <1>2, EmptyBagType DEF Context, SameSockets
<1>4. Fits(d, D, U, A) /\ Keeps(c, d)
  BY <1>3, SameFits
<1>5. ASSUME NEW W, Listening(c, W), c.polls, \A r \in W : r.handle \in RefHandles(c)
      PROVE  Settled(d, W)
  <2>1. RefHandles(d) = RefHandles(c) /\ d.open = c.open /\ d.polls = c.polls
    BY <1>3 DEF SameSockets, RefHandles
  <2>2. RefHandles(c) \subseteq c.open
    BY DEF Fits, OpenFit
  <2>3. (c.joined \ DOMAIN c.unsubs) \cup DOMAIN c.subs = W
    BY <1>5 DEF Listening
  <2>4. j = W
    BY <1>5, <2>2, <2>3 DEF j
  <2>5. Listening(d, W)
    BY <1>3, <1>5, <2>1, <2>2, <2>4, EmptyBagType DEF Listening
  <2> QED
    BY <1>3, <1>5, <2>1, <2>5, EmptyBagType DEF Settled
<1> QED
  BY <1>3, <1>4, <1>5 DEF SameSockets, d

\* What the thread has closed of the sockets that waited; D still wait.
Cleaned(c, d, D, U, A) ==
    /\ Fits(d, D, U, A) /\ Keeps(c, d)
    /\ \A W : Settled(c, W) => Settled(d, W)

LEMMA OneCleaned ==
    ASSUME NEW c, NEW d, NEW D, NEW U \in Using, NEW A, Cleaned(c, d, D, U, A), NEW s \in D
    PROVE  Cleaned(c, CloseSocket(d, s), D \ {s}, U, A)
<1> DEFINE e == CloseSocket(d, s)
<1>1. Fits(d, D, U, A) /\ Keeps(c, d)
  BY DEF Cleaned
<1>2. Fits(e, D \ {s}, U, A) /\ Keeps(d, e) /\ Closed(d, e, s)
  BY <1>1, CloseFits
<1> HIDE DEF e
<1>3. Handles(D \ {s}) = Handles(D) \ {s.handle} /\ s.handle \in Handles(D)
  BY <1>1 DEF Fits, OpenFit, Handles
<1>4. RefHandles(e) = RefHandles(d)
  <2>1. /\ d.open = RefHandles(d) \cup Handles(D) \cup A
        /\ RefHandles(d) \cap Handles(D) = {} /\ A \cap (RefHandles(d) \cup Handles(D)) = {}
    BY <1>1 DEF Fits, OpenFit
  <2>2. /\ e.open = RefHandles(e) \cup Handles(D \ {s}) \cup A
        /\ RefHandles(e) \cap Handles(D \ {s}) = {}
        /\ A \cap (RefHandles(e) \cup Handles(D \ {s})) = {}
    BY <1>2 DEF Fits, OpenFit
  <2>3. e.open = d.open \ {s.handle}
    BY <1>2 DEF Closed
  <2> QED
    BY <1>3, <2>1, <2>2, <2>3
<1>5. s.handle \notin RefHandles(d)
  BY <1>1, <1>3 DEF Fits, OpenFit
<1>6. ASSUME NEW W, Settled(d, W) PROVE Settled(e, W)
  <2>1. d.joined = W
    BY <1>6 DEF Settled, Listening
  <2>2. e.joined = W
    BY <1>2, <1>5, <1>6, <2>1 DEF Closed, Settled
  <2>3. \A r \in W : r.handle \in RefHandles(e)
    BY <1>4, <1>6 DEF Settled
  <2>4. \A r \in W : r.handle \in e.open
    BY <1>2, <2>3 DEF Fits, OpenFit
  <2>5. e.subs = d.subs /\ e.unsubs = d.unsubs /\ e.polls = d.polls
    BY <1>2 DEF Closed, Keeps
  <2> QED
    BY <1>6, <2>1, <2>2, <2>3, <2>4, <2>5 DEF Settled, Listening
<1>7. Keeps(c, e)
  BY <1>1, <1>2, KeepsTransitive
<1>8. Cleaned(c, e, D \ {s}, U, A)
  BY <1>2, <1>6, <1>7 DEF Cleaned
<1> QED
  BY <1>8 DEF e

\* The contexts that the loop over the sockets goes through.
AfterClosing(c, d, h) ==
    IF h \in Handles(c.dead)
      THEN CloseSocket(d, CHOOSE socket \in c.dead : socket.handle = h)
    ELSE d

IsClosing(f, k, c) ==
    f = [h \in 0..k |-> IF h = 0 THEN c ELSE AfterClosing(c, f[h - 1], h)]

LEMMA ClosingExists ==
    ASSUME NEW c, NEW N \in Nat
    PROVE  \E f : IsClosing(f, N, c)
<1> DEFINE T == {k \in Nat : ~\E f : IsClosing(f, k, c)}
<1> SUFFICES ASSUME T # {} PROVE FALSE
  OBVIOUS
<1>1. PICK k \in T : \A y \in T : k <= y
  BY LeastNumber
<1>2. k # 0
  <2>1. IsClosing([n \in 0..0 |-> c], 0, c)
    BY DEF IsClosing
  <2> QED
    BY <1>1, <2>1
<1>3. PICK f : IsClosing(f, k - 1, c)
  BY <1>1, <1>2
<1> DEFINE g == [n \in 0..k |-> IF n = k THEN AfterClosing(c, f[k - 1], k) ELSE f[n]]
<1>4. ASSUME NEW n \in 0..k
      PROVE  g[n] = IF n = 0 THEN c ELSE AfterClosing(c, g[n - 1], n)
  <2>1. CASE n = k
    <3>1. g[n] = AfterClosing(c, f[k - 1], k) /\ g[n - 1] = f[k - 1]
      BY <1>2, <2>1
    <3> HIDE DEF g
    <3> QED
      BY <1>2, <2>1, <3>1
  <2>2. CASE n # k
    <3>1. n \in 0..(k - 1) /\ g[n] = f[n] /\ (n # 0 => g[n - 1] = f[n - 1])
      BY <2>2
    <3>2. f[n] = IF n = 0 THEN c ELSE AfterClosing(c, f[n - 1], n)
      BY <1>3, <3>1 DEF IsClosing
    <3> HIDE DEF g
    <3> QED
      BY <3>1, <3>2
  <2> QED
    BY <2>1, <2>2
<1>5. IsClosing(g, k, c)
  <2>1. g = [n \in 0..k |-> g[n]]
    OBVIOUS
  <2> HIDE DEF g
  <2> QED
    BY <1>4, <2>1 DEF IsClosing
<1> QED
  BY <1>1, <1>5

LEMMA DeadSocketsClosedFits ==
    ASSUME NEW c, NEW U \in Using, NEW A, Fits(c, c.dead, U, A)
    PROVE  Cleaned(c, DeadSocketsClosed(c), {}, U, A)
<1> DEFINE f == CHOOSE x : IsClosing(x, MaxSockets, c)
           D(h) == {s \in c.dead : s.handle > h}
<1>0. MaxSockets \in Nat /\ c.dead \in SUBSET DeadSocket
  BY ReceiveSocketsAssumption DEF Fits, OpenFit
<1>1. IsClosing(f, MaxSockets, c)
  BY <1>0, ClosingExists
<1>2. DeadSocketsClosed(c) = f[MaxSockets]
  BY DEF DeadSocketsClosed, IsClosing, AfterClosing
<1> HIDE DEF f
<1>3. f[0] = c
  BY <1>0, <1>1 DEF IsClosing
<1>4. \A h \in 1..MaxSockets : f[h] = AfterClosing(c, f[h - 1], h)
  BY <1>0, <1>1 DEF IsClosing
<1> DEFINE Good(h) == Cleaned(c, f[h], D(h), U, A)
           T == {h \in 0..MaxSockets : ~Good(h)}
<1>5. Good(0)
  <2>1. D(0) = c.dead
    BY <1>0 DEF DeadSocket, Handle
  <2> QED
    BY <1>3, <2>1 DEF Cleaned, Keeps
<1>6. ASSUME NEW h \in 1..MaxSockets, Good(h - 1) PROVE Good(h)
  <2>1. CASE h \in Handles(c.dead)
    <3> DEFINE s == CHOOSE socket \in c.dead : socket.handle = h
    <3>1. s \in c.dead /\ s.handle = h
      BY <2>1 DEF Handles
    <3>2. f[h] = CloseSocket(f[h - 1], s)
      BY <1>4, <2>1 DEF AfterClosing
    <3> HIDE DEF s
    <3>3. s \in D(h - 1)
      BY <1>0, <3>1
    <3>4. D(h) = D(h - 1) \ {s}
      <4>1. \A t \in c.dead : t.handle \in Nat /\ (t.handle = h => t = s)
        BY <1>0, <3>1 DEF Fits, OpenFit, DeadSocket, Handle
      <4> QED
        BY <1>0, <3>1, <4>1
    <3> HIDE DEF D
    <3> QED
      BY <1>6, <3>2, <3>3, <3>4, OneCleaned
  <2>2. CASE h \notin Handles(c.dead)
    <3>1. f[h] = f[h - 1]
      BY <1>4, <2>2 DEF AfterClosing
    <3>2. D(h) = D(h - 1)
      <4>1. \A t \in c.dead : t.handle \in Nat /\ t.handle # h
        BY <1>0, <2>2 DEF Handles, DeadSocket, Handle
      <4> QED
        BY <1>0, <4>1
    <3> QED
      BY <1>6, <3>1, <3>2
  <2> QED
    BY <2>1, <2>2
<1>7. T = {}
  <2> HIDE DEF Good
  <2> SUFFICES ASSUME T # {} PROVE FALSE
    OBVIOUS
  <2>1. PICK h \in T : \A y \in T : h <= y
    <3>1. T \in SUBSET Nat
      BY <1>0
    <3> QED
      BY <3>1, LeastNumber
  <2>2. h # 0 /\ h \in 1..MaxSockets /\ h - 1 \in 0..MaxSockets
    BY <1>0, <1>5, <2>1
  <2>3. Good(h - 1)
    BY <2>1, <2>2
  <2> QED
    BY <1>6, <2>1, <2>2, <2>3
<1>8. Good(MaxSockets)
  <2> HIDE DEF Good
  <2> QED
    BY <1>0, <1>7
<1>9. D(MaxSockets) = {}
  BY <1>0 DEF DeadSocket, Handle
<1> QED
  BY <1>2, <1>8, <1>9

LEMMA CleanupDeadSocketsFits ==
    ASSUME NEW c, NEW U \in Using, NEW A, Fits(c, c.dead, U, A)
    PROVE  Cleaned(c, CleanupDeadSockets(c), {}, U, A) /\ CleanupDeadSockets(c).dead = {}
<1> DEFINE d == DeadSocketsClosed(c)
           e == [d EXCEPT !.dead = {}]
<1>1. Cleaned(c, d, {}, U, A)
  BY DeadSocketsClosedFits
<1>2. CleanupDeadSockets(c) = e
  BY DEF CleanupDeadSockets
<1> HIDE DEF d
<1>3. Fits(d, {}, U, A) /\ Keeps(c, d)
  BY <1>1 DEF Cleaned
<1>4. /\ Fits(e, e.dead, U, A) /\ Keeps(d, e) /\ e.dead = {}
      /\ e.subs = d.subs /\ e.unsubs = d.unsubs /\ e.joined = d.joined
      /\ e.polls = d.polls /\ e.open = d.open
  BY <1>3, DeadRecorded
<1>5. e.refs = d.refs
  BY <1>3 DEF Fits, Context
<1> HIDE DEF e
<1>6. RefHandles(e) = RefHandles(d)
  BY <1>5 DEF RefHandles
<1>7. \A W : Settled(d, W) => Settled(e, W)
  BY <1>4, <1>6 DEF Settled, Listening
<1>8. Keeps(c, e)
  BY <1>3, <1>4, KeepsTransitive
<1>9. Cleaned(c, e, {}, U, A)
  BY <1>1, <1>4, <1>7, <1>8 DEF Cleaned
<1> QED
  BY <1>2, <1>4, <1>9

\* The sockets that the thread had not seen are polled when they are bound.
LEMMA AddPendingResult ==
    ASSUME NEW c \in Context, c.new_refs <= Len(c.refs),
           \A i \in DOMAIN c.refs : c.refs[i].pending <=> i > Len(c.refs) - c.new_refs
    PROVE  LET d == AddPendingSockets(c)
           IN  /\ d \in Context /\ d.new_refs = 0
               /\ DOMAIN d.refs = DOMAIN c.refs /\ Len(d.refs) = Len(c.refs)
               /\ \A i \in DOMAIN c.refs :
                     /\ d.refs[i].handle = c.refs[i].handle /\ d.refs[i].ip = c.refs[i].ip
                     /\ d.refs[i].refcount = c.refs[i].refcount
                     /\ d.refs[i].bound = c.refs[i].bound /\ ~d.refs[i].pending
               /\ d.polled = c.polled \cup
                     {c.refs[i].handle : i \in {j \in DOMAIN c.refs :
                                                  c.refs[j].pending /\ c.refs[j].bound}}
               /\ d.dead = c.dead /\ d.subs = c.subs /\ d.unsubs = c.unsubs
               /\ d.bound = c.bound /\ d.polls = c.polls /\ d.open = c.open
               /\ d.joined = c.joined
<1> DEFINE news == IF c.new_refs > Len(c.refs) THEN {}
                   ELSE (Len(c.refs) - c.new_refs + 1)..Len(c.refs)
           added == {i \in news : c.refs[i].bound}
           new(i) == IF i \in news THEN Polling(c.refs[i]) ELSE c.refs[i]
           r == [i \in DOMAIN c.refs |-> new(i)]
           p == c.polled \cup {c.refs[i].handle : i \in added}
           d == AddPendingSockets(c)
<1>1. d = [c EXCEPT !.refs = r, !.polled = p, !.new_refs = 0]
  BY DEF AddPendingSockets
<1>2. Len(c.refs) \in Nat /\ c.new_refs \in Nat /\ DOMAIN c.refs = 1..Len(c.refs)
  BY TableType
<1>3. news = {i \in DOMAIN c.refs : c.refs[i].pending}
  <2>1. news = {i \in DOMAIN c.refs : i > Len(c.refs) - c.new_refs}
    BY <1>2
  <2> HIDE DEF news
  <2> QED
    BY <2>1
<1> HIDE DEF news
<1>4. added = {j \in DOMAIN c.refs : c.refs[j].pending /\ c.refs[j].bound}
  BY <1>3
<1> HIDE DEF added
<1>5. ASSUME NEW i \in DOMAIN c.refs
      PROVE  /\ new(i) \in SocketRef /\ new(i).handle = c.refs[i].handle
             /\ new(i).ip = c.refs[i].ip /\ new(i).refcount = c.refs[i].refcount
             /\ new(i).bound = c.refs[i].bound /\ ~new(i).pending
  <2> DEFINE ref == c.refs[i]
             b == ref.polling \/ ref.bound
  <2>1. ref \in SocketRef
    BY RefType
  <2>2. CASE i \notin news
    <3>1. new(i) = ref
      BY <2>2
    <3>2. ~ref.pending
      BY <1>3, <2>2
    <3> HIDE DEF new, ref
    <3> QED
      BY <2>1, <3>1, <3>2 DEF ref
  <2>3. CASE i \in news
    <3>1. new(i) = [ref EXCEPT !.pending = FALSE, !.polling = b]
      BY <2>3 DEF Polling
    <3>2. b \in BOOLEAN
      BY <2>1 DEF SocketRef
    <3> HIDE DEF new, ref, b
    <3>3. new(i) = [[ref EXCEPT !.polling = b] EXCEPT !.pending = FALSE]
      BY <2>1, <3>1 DEF SocketRef
    <3> DEFINE q == [ref EXCEPT !.polling = b]
    <3>4. /\ q \in SocketRef /\ q.handle = ref.handle /\ q.ip = ref.ip
          /\ q.refcount = ref.refcount /\ q.bound = ref.bound
      BY <2>1, <3>2, RefPolling
    <3> HIDE DEF q
    <3>5. /\ [q EXCEPT !.pending = FALSE] \in SocketRef
          /\ [q EXCEPT !.pending = FALSE].handle = q.handle
          /\ [q EXCEPT !.pending = FALSE].ip = q.ip
          /\ [q EXCEPT !.pending = FALSE].refcount = q.refcount
          /\ [q EXCEPT !.pending = FALSE].bound = q.bound
          /\ ~[q EXCEPT !.pending = FALSE].pending
      BY <3>4 DEF SocketRef
    <3> QED
      BY <3>3, <3>4, <3>5 DEF q, ref
  <2> QED
    BY <2>2, <2>3
<1> HIDE DEF new
<1>6. r \in Seq(SocketRef) /\ DOMAIN r = DOMAIN c.refs /\ Len(r) = Len(c.refs)
  <2>1. \A i \in 1..Len(c.refs) : new(i) \in SocketRef
    BY <1>2, <1>5
  <2>2. r = [i \in 1..Len(c.refs) |-> new(i)]
    BY <1>2
  <2> HIDE DEF r
  <2>3. r \in [1..Len(c.refs) -> SocketRef]
    BY <2>1, <2>2
  <2>4. r \in Seq(SocketRef)
    BY <1>2, <2>3
  <2>5. DOMAIN r = 1..Len(c.refs)
    BY <2>2
  <2>6. Len(r) = Len(c.refs)
    BY <1>2, <2>4, <2>5
  <2> QED
    BY <1>2, <2>4, <2>5, <2>6
<1>7. p \in SUBSET Handle
  <2>1. \A i \in added : c.refs[i].handle \in Handle
    BY <1>4, RefType
  <2> QED
    BY <2>1 DEF Context
<1>8. \A i \in DOMAIN c.refs : r[i] = new(i)
  OBVIOUS
<1> HIDE DEF r, p, d
<1>9. /\ d \in Context /\ d.refs = r /\ d.polled = p /\ d.new_refs = 0
      /\ d.dead = c.dead /\ d.subs = c.subs /\ d.unsubs = c.unsubs
      /\ d.bound = c.bound /\ d.polls = c.polls /\ d.open = c.open
      /\ d.joined = c.joined
  BY <1>1, <1>6, <1>7 DEF Context
<1>10. \A i \in DOMAIN c.refs :
          /\ d.refs[i].handle = c.refs[i].handle /\ d.refs[i].ip = c.refs[i].ip
          /\ d.refs[i].refcount = c.refs[i].refcount
          /\ d.refs[i].bound = c.refs[i].bound /\ ~d.refs[i].pending
  BY <1>5, <1>8, <1>9
<1> QED
  BY <1>4, <1>6, <1>9, <1>10 DEF d, p

LEMMA AddPendingFits ==
    ASSUME NEW c, NEW U \in Using, NEW A, Fits(c, c.dead, U, A)
    PROVE  LET d == AddPendingSockets(c)
           IN  /\ Fits(d, d.dead, U, A) /\ d.polls = c.polls
               /\ \A F : Polled(c, F) /\ c.polls => Polled(d, F)
               /\ \A W : Listening(c, W) => Listening(d, W)
<1> DEFINE d == AddPendingSockets(c)
           P == {j \in DOMAIN c.refs : c.refs[j].pending /\ c.refs[j].bound}
<1>0. /\ c \in Context /\ TableFits(c, U) /\ OpenFit(c, c.dead, A) /\ BoundFit(c, c.dead)
  BY DEF Fits
<1>1. /\ d \in Context /\ d.new_refs = 0
      /\ DOMAIN d.refs = DOMAIN c.refs /\ Len(d.refs) = Len(c.refs)
      /\ \A i \in DOMAIN c.refs :
            /\ d.refs[i].handle = c.refs[i].handle /\ d.refs[i].ip = c.refs[i].ip
            /\ d.refs[i].refcount = c.refs[i].refcount
            /\ d.refs[i].bound = c.refs[i].bound /\ ~d.refs[i].pending
      /\ d.polled = c.polled \cup {c.refs[i].handle : i \in P}
      /\ d.dead = c.dead /\ d.subs = c.subs /\ d.unsubs = c.unsubs
      /\ d.bound = c.bound /\ d.polls = c.polls /\ d.open = c.open
      /\ d.joined = c.joined
  BY <1>0, AddPendingResult DEF TableFits
<1> HIDE DEF d
<1>2. DOMAIN c.refs = 1..Len(c.refs) /\ Len(c.refs) \in Nat
  BY <1>0, TableType
<1>3. TableFits(d, U)
  <2>1. d.new_refs <= Len(d.refs)
    BY <1>1, <1>2
  <2>2. \A i \in DOMAIN d.refs : d.refs[i].pending <=> i > Len(d.refs) - d.new_refs
    BY <1>1, <1>2
  <2>3. \A i, j \in DOMAIN d.refs : d.refs[i].handle = d.refs[j].handle => i = j
    BY <1>0, <1>1 DEF TableFits
  <2>4. \A i \in DOMAIN d.refs :
           d.refs[i].refcount = Cardinality(UsersOf(U, d.refs[i].ip, d.refs[i].handle))
    BY <1>0, <1>1 DEF TableFits
  <2>5. \A l \in Listeners, ip \in IpTypes : U[l][ip] # NoSocket =>
           \E i \in DOMAIN d.refs : d.refs[i].handle = U[l][ip] /\ d.refs[i].ip = ip
    BY <1>0, <1>1 DEF TableFits
  <2> QED
    BY <2>1, <2>2, <2>3, <2>4, <2>5 DEF TableFits
<1>4. RefHandles(d) = RefHandles(c)
  BY <1>1 DEF RefHandles
<1>5. OpenFit(d, d.dead, A)
  <2>1. {c.refs[i].handle : i \in P} \subseteq RefHandles(c)
    BY DEF RefHandles
  <2>2. d.polled \subseteq d.open
    BY <1>0, <1>1, <2>1 DEF OpenFit
  <2> QED
    BY <1>0, <1>1, <1>4, <2>2 DEF OpenFit
<1>6. BoundFit(d, d.dead)
  BY <1>0, <1>1 DEF BoundFit
<1>7. ASSUME NEW F, Polled(c, F), c.polls PROVE Polled(d, F)
  BY <1>1, <1>7 DEF Polled
<1>8. \A W : Listening(c, W) => Listening(d, W)
  BY <1>1, ListensStill
<1> QED
  BY <1>1, <1>3, <1>5, <1>6, <1>7, <1>8 DEF Fits, d

\* What a cycle of the thread makes of the context.
WorkedOff(c, d, U, A) ==
    /\ Fits(d, d.dead, U, A) /\ d.polls = c.polls
    /\ \A F : Polled(c, F) => Polled(d, F)
    /\ \A W : Listening(c, W) /\ (\A r \in W : r.handle \in RefHandles(c)) => Listening(d, W)

LEMMA WorkOffFits ==
    ASSUME NEW c, NEW U \in Using, NEW A, Fits(c, c.dead, U, A), c.polls
    PROVE  WorkedOff(c, WorkOffQueues(c), U, A)
<1> DEFINE d == WorkOffRequests(c)
           e == CleanupDeadSockets(d)
           f == AddPendingSockets(e)
<1>1. WorkOffQueues(c) = f
  BY DEF WorkOffQueues
<1>2. /\ Fits(d, c.dead, U, A) /\ Keeps(c, d) /\ d.dead = c.dead
      /\ \A W : Listening(c, W) /\ c.polls /\ (\A r \in W : r.handle \in RefHandles(c))
                => Settled(d, W)
  BY WorkOffRequestsFits
<1> HIDE DEF d
<1>3. Cleaned(d, e, {}, U, A) /\ e.dead = {}
  BY <1>2, CleanupDeadSocketsFits
<1> HIDE DEF e
<1>4. Fits(e, e.dead, U, A) /\ Keeps(d, e)
  BY <1>3 DEF Cleaned
<1>5. /\ Fits(f, f.dead, U, A) /\ f.polls = e.polls
      /\ \A F : Polled(e, F) /\ e.polls => Polled(f, F)
      /\ \A W : Listening(e, W) => Listening(f, W)
  BY <1>4, AddPendingFits
<1> HIDE DEF f
<1>6. e.polls /\ f.polls = c.polls
  BY <1>2, <1>4, <1>5 DEF Keeps
<1>7. \A F : Polled(c, F) => Polled(f, F)
  BY <1>2, <1>4, <1>5, <1>6 DEF Keeps
<1>8. ASSUME NEW W, Listening(c, W), \A r \in W : r.handle \in RefHandles(c)
      PROVE  Listening(f, W)
  <2>1. Settled(d, W)
    BY <1>2, <1>8
  <2>2. Settled(e, W)
    BY <1>3, <2>1 DEF Cleaned
  <2> QED
    BY <1>5, <2>2 DEF Settled
<1> QED
  BY <1>1, <1>5, <1>6, <1>7, <1>8 DEF WorkedOff

-----------------------------------------------------------------------------
(***************************************************************************)
(* The listeners and what they ask for.                                    *)
(***************************************************************************)
Listener ==
    [universe : Universes \cup {Discovery}, netints : SUBSET Netints,
     sockets : [IpTypes -> 0..MaxSockets]]

\* The universe of a receiver is not that of the detector.
Suits(l, universe) == IF l = Detector THEN universe = Discovery ELSE universe \in Universes

\* No two listeners have the same universe.
ListenersFit(L) ==
    /\ DOMAIN L \subseteq Listeners
    /\ L \in [DOMAIN L -> Listener]
    /\ \A l \in DOMAIN L : Suits(l, L[l].universe)
    /\ \A l, m \in DOMAIN L : L[l].universe = L[m].universe => l = m

SocketsIn(L) == [l \in Listeners |-> IF l \in DOMAIN L THEN L[l].sockets ELSE NoSockets]

WantedOf(e) == AllAsked(e.sockets, e.universe, e.netints)
WantedIn(L) == UNION {WantedOf(L[l]) : l \in DOMAIN L}

Put(L, l, e) == [x \in DOMAIN L \cup {l} |-> IF x = l THEN e ELSE L[x]]
Drop(L, l) == [x \in DOMAIN L \ {l} |-> L[x]]

LEMMA NoSocketsType ==
    /\ NoSockets \in [IpTypes -> 0..MaxSockets]
    /\ \A universe, netints : AllAsked(NoSockets, universe, netints) = {}
<1>1. /\ NoSockets = Sockets(NoSocket, NoSocket)
      /\ NoSockets[4] = NoSocket /\ NoSockets[6] = NoSocket
  BY NoSocketType, SocketsType DEF NoSockets
<1>2. NoSockets \in [IpTypes -> 0..MaxSockets]
  BY <1>1, NoSocketType, SocketsType
<1>3. \A universe, netints : AllAsked(NoSockets, universe, netints) = {}
  BY <1>1 DEF AllAsked, Asked
<1> QED
  BY <1>2, <1>3

LEMMA WantedType ==
    ASSUME NEW e \in Listener, NEW r \in WantedOf(e)
    PROVE  /\ r.universe = e.universe
           /\ \E ip \in IpTypes : e.sockets[ip] # NoSocket /\ r.handle = e.sockets[ip]
<1>1. /\ e.universe \in Universes \cup {Discovery} /\ e.netints \in SUBSET Netints
      /\ e.sockets[4] \in 0..MaxSockets /\ e.sockets[6] \in 0..MaxSockets
  BY NoSocketType DEF Listener
<1>2. ASSUME NEW ip \in IpTypes, e.sockets[ip] \in 0..MaxSockets,
             r \in Asked(e.sockets[ip], e.universe, ip, e.netints)
      PROVE  /\ r.universe = e.universe
             /\ e.sockets[ip] # NoSocket /\ r.handle = e.sockets[ip]
  <2>1. r.universe = e.universe /\ r.handle = e.sockets[ip]
    BY <1>1, <1>2, AskedType
  <2>2. e.sockets[ip] # NoSocket
    BY <1>2 DEF Asked
  <2> QED
    BY <2>1, <2>2
<1> QED
  BY <1>1, <1>2, NoSocketType DEF WantedOf, AllAsked

LEMMA UsingType ==
    ASSUME NEW L, ListenersFit(L)
    PROVE  SocketsIn(L) \in Using
<1>1. \A l \in DOMAIN L : L[l].sockets \in [IpTypes -> 0..MaxSockets]
  BY DEF ListenersFit, Listener
<1> QED
  BY <1>1, NoSocketsType DEF SocketsIn, Using

\* What is wanted comes over sockets of the table.
LEMMA WantedHandles ==
    ASSUME NEW c, NEW D, NEW A, NEW L, ListenersFit(L), Fits(c, D, SocketsIn(L), A)
    PROVE  \A r \in WantedIn(L) : r.handle \in RefHandles(c)
<1> TAKE r \in WantedIn(L)
<1>1. PICK l \in DOMAIN L : r \in WantedOf(L[l])
  BY DEF WantedIn
<1>2. l \in Listeners /\ L[l] \in Listener
  BY DEF ListenersFit
<1>3. PICK ip \in IpTypes : L[l].sockets[ip] # NoSocket /\ r.handle = L[l].sockets[ip]
  BY <1>1, <1>2, WantedType
<1> DEFINE U == SocketsIn(L)
<1>4. U[l][ip] = L[l].sockets[ip]
  BY <1>2 DEF SocketsIn
<1> HIDE DEF U
<1>5. \E i \in DOMAIN c.refs : c.refs[i].handle = U[l][ip] /\ c.refs[i].ip = ip
  BY <1>2, <1>3, <1>4 DEF Fits, TableFits, U
<1> QED
  BY <1>3, <1>4, <1>5 DEF RefHandles

\* A listener comes or is changed.
LEMMA PutResult ==
    ASSUME NEW L, ListenersFit(L), NEW l \in Listeners, NEW e \in Listener,
           Suits(l, e.universe), \A m \in DOMAIN L \ {l} : L[m].universe # e.universe
    PROVE  /\ ListenersFit(Put(L, l, e))
           /\ SocketsIn(Put(L, l, e)) = UseAll(SocketsIn(L), l, e.sockets)
           /\ WantedIn(Put(L, l, e)) = WantedIn(Drop(L, l)) \cup WantedOf(e)
           /\ \A r \in WantedIn(Drop(L, l)) : r.universe # e.universe
<1> DEFINE M == Put(L, l, e)
           X == Drop(L, l)
<1>1. DOMAIN M = DOMAIN L \cup {l} /\ \A x \in DOMAIN M : M[x] = IF x = l THEN e ELSE L[x]
  BY DEF Put
<1>2. DOMAIN X = DOMAIN L \ {l} /\ \A x \in DOMAIN X : X[x] = L[x]
  BY DEF Drop
<1>3. M = [x \in DOMAIN M |-> M[x]]
  BY DEF Put
<1> HIDE DEF M, X
<1>4. ListenersFit(M)
  <2>1. \A x \in DOMAIN M : M[x] \in Listener /\ x \in Listeners /\ Suits(x, M[x].universe)
    BY <1>1 DEF ListenersFit
  <2>2. M \in [DOMAIN M -> Listener]
    BY <1>3, <2>1
  <2>3. \A x, y \in DOMAIN M : M[x].universe = M[y].universe => x = y
    BY <1>1 DEF ListenersFit
  <2> QED
    BY <2>1, <2>2, <2>3 DEF ListenersFit
<1>5. SocketsIn(M) = UseAll(SocketsIn(L), l, e.sockets)
  <2>1. \A x \in Listeners : (IF x \in DOMAIN M THEN M[x].sockets ELSE NoSockets)
           = IF x = l THEN e.sockets ELSE IF x \in DOMAIN L THEN L[x].sockets ELSE NoSockets
    BY <1>1
  <2> QED
    BY <2>1 DEF SocketsIn, UseAll
<1>6. WantedIn(M) = WantedIn(X) \cup WantedOf(e)
  BY <1>1, <1>2 DEF WantedIn
<1>7. ASSUME NEW r \in WantedIn(X) PROVE r.universe # e.universe
  <2>1. PICK m \in DOMAIN X : r \in WantedOf(X[m])
    BY DEF WantedIn
  <2>2. m \in DOMAIN L \ {l} /\ X[m] = L[m] /\ L[m] \in Listener
    BY <1>2, <2>1 DEF ListenersFit
  <2>3. r.universe = L[m].universe
    BY <2>1, <2>2, WantedType
  <2> QED
    BY <2>2, <2>3
<1> QED
  BY <1>4, <1>5, <1>6, <1>7 DEF M, X

\* A listener goes.
LEMMA LeaveResult ==
    ASSUME NEW L, ListenersFit(L), NEW l \in DOMAIN L
    PROVE  /\ ListenersFit(Drop(L, l))
           /\ SocketsIn(Drop(L, l)) = UseAll(SocketsIn(L), l, NoSockets)
           /\ WantedIn(Drop(L, l)) = WantedIn(L) \ WantedOf(L[l])
           /\ WantedOf(L[l]) \subseteq WantedIn(L)
<1> DEFINE X == Drop(L, l)
<1>1. DOMAIN X = DOMAIN L \ {l} /\ \A x \in DOMAIN X : X[x] = L[x]
  BY DEF Drop
<1>2. X = [x \in DOMAIN X |-> X[x]]
  BY DEF Drop
<1> HIDE DEF X
<1>3. ListenersFit(X)
  <2>1. \A x \in DOMAIN X : X[x] \in Listener /\ x \in Listeners /\ Suits(x, X[x].universe)
    BY <1>1 DEF ListenersFit
  <2>2. X \in [DOMAIN X -> Listener]
    BY <1>2, <2>1
  <2>3. \A x, y \in DOMAIN X : X[x].universe = X[y].universe => x = y
    BY <1>1 DEF ListenersFit
  <2> QED
    BY <2>1, <2>2, <2>3 DEF ListenersFit
<1>4. SocketsIn(X) = UseAll(SocketsIn(L), l, NoSockets)
  <2>1. \A x \in Listeners : (IF x \in DOMAIN X THEN X[x].sockets ELSE NoSockets)
           = IF x = l THEN NoSockets ELSE IF x \in DOMAIN L THEN L[x].sockets ELSE NoSockets
    BY <1>1
  <2> QED
    BY <2>1 DEF SocketsIn, UseAll
<1>5. ASSUME NEW m \in DOMAIN X, NEW r \in WantedOf(X[m]) PROVE r \notin WantedOf(L[l])
  <2>1. m \in DOMAIN L /\ m # l /\ X[m] = L[m] /\ L[m] \in Listener /\ L[l] \in Listener
    BY <1>1 DEF ListenersFit
  <2>2. r.universe = L[m].universe
    BY <1>5, <2>1, WantedType
  <2>3. L[m].universe # L[l].universe
    BY <2>1 DEF ListenersFit
  <2>4. \A s \in WantedOf(L[l]) : s.universe = L[l].universe
    BY <2>1, WantedType
  <2> QED
    BY <2>2, <2>3, <2>4
<1>6. WantedIn(X) = WantedIn(L) \ WantedOf(L[l])
  BY <1>1, <1>5 DEF WantedIn
<1>7. WantedOf(L[l]) \subseteq WantedIn(L)
  BY DEF WantedIn
<1> QED
  BY <1>3, <1>4, <1>6, <1>7 DEF X

\* What a call that makes listeners M of L makes of the context.
Follows(c, L, d, M, A) ==
    /\ ListenersFit(M) /\ Fits(d, d.dead, SocketsIn(M), A) /\ Keeps(c, d)
    /\ Listening(c, WantedIn(L)) => Listening(d, WantedIn(M))

LEMMA FollowsTransitive ==
    ASSUME NEW c, NEW L, NEW d, NEW M, NEW e, NEW N, NEW A,
           Follows(c, L, d, M, A), Follows(d, M, e, N, A)
    PROVE  Follows(c, L, e, N, A)
  BY KeepsTransitive DEF Follows

\* The sockets of one listener are given back.
LEMMA RemoveOfFits ==
    ASSUME NEW c, NEW L, NEW A, ListenersFit(L), Fits(c, c.dead, SocketsIn(L), A),
           NEW l \in DOMAIN L, NEW now \in BOOLEAN, now => ~c.polls
    PROVE  LET e == L[l]
               d == RemoveSockets(c, e.sockets, e.universe, e.netints, now)
           IN  Follows(c, L, d, Drop(L, l), A) /\ (now => d.dead = c.dead)
<1> DEFINE e == L[l]
           d == RemoveSockets(c, e.sockets, e.universe, e.netints, now)
           U == SocketsIn(L)
<1>1. l \in Listeners /\ e \in Listener
  BY DEF ListenersFit
<1>2. e.universe \in Universes \cup {Discovery} /\ e.netints \in SUBSET Netints
  BY <1>1 DEF Listener
<1>3. U[l] = e.sockets /\ U \in Using
  BY <1>1, UsingType DEF SocketsIn
<1> DEFINE u == e.universe
           n == e.netints
           x == RemoveSockets(c, U[l], u, n, now)
<1>4. Released(c, x, UseAll(U, l, NoSockets), A, AllAsked(U[l], u, n), now)
  <2> HIDE DEF U, u, n
  <2> QED
    BY <1>1, <1>2, <1>3, RemoveFits DEF U, u, n
<1>5. x = d /\ AllAsked(U[l], u, n) = WantedOf(e)
  BY <1>3 DEF WantedOf
<1>6. /\ ListenersFit(Drop(L, l)) /\ SocketsIn(Drop(L, l)) = UseAll(U, l, NoSockets)
      /\ WantedIn(Drop(L, l)) = WantedIn(L) \ WantedOf(e) /\ WantedOf(e) \subseteq WantedIn(L)
  BY LeaveResult
<1> HIDE DEF x, d, U, e
<1>7. Released(c, d, SocketsIn(Drop(L, l)), A, WantedOf(e), now)
  BY <1>4, <1>5, <1>6 DEF u, n
<1>8. Follows(c, L, d, Drop(L, l), A) /\ (now => d.dead = c.dead)
  BY <1>6, <1>7 DEF Follows, Released
<1> QED
  BY <1>8 DEF d, e

\* A listener without sockets is given sockets, and perhaps another universe.
\* What becomes of that: r is the context, the sockets and the result.
GivenSockets(c, L, r, l, universe, netints, A) ==
    LET e == [universe |-> universe, netints |-> netints, sockets |-> r.sockets]
    IN  /\ Follows(c, L, r.c, Put(L, l, e), A) /\ e \in Listener
        /\ ~r.ok => r.sockets = NoSockets /\ Follows(c, L, r.c, L, A)
        /\ r.ok \in BOOLEAN

LEMMA AddOfFits ==
    ASSUME NEW c, NEW L, NEW A, ListenersFit(L), Fits(c, c.dead, SocketsIn(L), A),
           NEW l \in Listeners, SocketsIn(L)[l] = NoSockets,
           NEW universe, Suits(l, universe), NEW netints \in SUBSET Netints,
           \A m \in DOMAIN L \ {l} : L[m].universe # universe
    PROVE  GivenSockets(c, L, AddSockets(c, universe, netints), l, universe, netints, A)
<1> DEFINE U == SocketsIn(L)
           r == AddSockets(c, universe, netints)
           e == [universe |-> universe, netints |-> netints, sockets |-> r.sockets]
<1>1. U \in Using /\ universe \in Universes \cup {Discovery}
  BY UsingType DEF Suits
<1>2. Added(c, r, U, A, l, universe, netints)
  <2> HIDE DEF U
  <2> QED
    BY <1>1, AddFits DEF U
<1> HIDE DEF r
<1>3. r.sockets \in [IpTypes -> 0..MaxSockets] /\ r.ok \in BOOLEAN
  BY <1>2 DEF Added
<1>4. e \in Listener /\ e.universe = universe /\ e.sockets = r.sockets
      /\ WantedOf(e) = AllAsked(r.sockets, universe, netints)
  BY <1>1, <1>3 DEF Listener, WantedOf
<1> HIDE DEF e
<1>5. /\ ListenersFit(Put(L, l, e))
      /\ SocketsIn(Put(L, l, e)) = UseAll(U, l, e.sockets)
      /\ WantedIn(Put(L, l, e)) = WantedIn(Drop(L, l)) \cup WantedOf(e)
      /\ \A x \in WantedIn(Drop(L, l)) : x.universe # e.universe
  BY <1>4, PutResult
<1>6. WantedIn(Drop(L, l)) = WantedIn(L)
  <2>1. CASE l \in DOMAIN L
    <3>1. L[l].sockets = NoSockets
      BY <2>1 DEF SocketsIn
    <3>2. WantedOf(L[l]) = {}
      BY <3>1, NoSocketsType DEF WantedOf
    <3>3. WantedIn(Drop(L, l)) = WantedIn(L) \ WantedOf(L[l])
      BY <2>1, LeaveResult
    <3> QED
      BY <3>2, <3>3
  <2>2. CASE l \notin DOMAIN L
    <3>1. DOMAIN L \ {l} = DOMAIN L
      BY <2>2
    <3>2. Drop(L, l) = L
      BY <3>1 DEF Drop, ListenersFit
    <3> QED
      BY <3>2
  <2> QED
    BY <2>1, <2>2
<1>7. Follows(c, L, r.c, Put(L, l, e), A)
  <2>1. Fits(r.c, r.c.dead, SocketsIn(Put(L, l, e)), A) /\ Keeps(c, r.c)
    BY <1>2, <1>4, <1>5 DEF Added
  <2>2. Listening(c, WantedIn(L)) => Listening(r.c, WantedIn(Put(L, l, e)))
    BY <1>2, <1>4, <1>5, <1>6 DEF Added
  <2> QED
    BY <1>5, <2>1, <2>2 DEF Follows
<1>8. ASSUME ~r.ok PROVE r.sockets = NoSockets /\ Follows(c, L, r.c, L, A)
  <2>1. r.sockets = NoSockets
    BY <1>2, <1>8 DEF Added
  <2>2. UseAll(U, l, NoSockets) = U
    BY <1>1, NoSocketType, UseTwice
  <2>3. WantedOf(e) = {}
    BY <1>4, <2>1, NoSocketsType
  <2>4. WantedIn(Put(L, l, e)) = WantedIn(L)
    BY <1>5, <1>6, <2>3
  <2>5. SocketsIn(Put(L, l, e)) = SocketsIn(L)
    BY <1>4, <1>5, <2>1, <2>2
  <2> QED
    BY <1>7, <2>1, <2>4, <2>5 DEF Follows
<1> QED
  BY <1>3, <1>4, <1>7, <1>8 DEF GivenSockets, r, e

-----------------------------------------------------------------------------
(***************************************************************************)
(* The loops over the listeners.                                           *)
(***************************************************************************)
LEMMA OrderType ==
    ASSUME NEW S, IsFiniteSet(S), NEW order \in SetToSeqs(S)
    PROVE  /\ Len(order) \in Nat /\ DOMAIN order = 1..Len(order)
           /\ \A i \in 1..Len(order) : order[i] \in S
           /\ \A i, j \in 1..Len(order) : order[i] = order[j] => i = j
           /\ Range(order) = S
<1> DEFINE n == Cardinality(S)
<1>1. n \in Nat
  BY FS_CardinalityType
<1>2. order \in [1..n -> S] /\ \A i, j \in 1..n : i # j => order[i] # order[j]
  BY DEF SetToSeqs
<1> HIDE DEF n
<1>3. order \in Seq(S) /\ Len(order) = n
  BY <1>1, <1>2
<1>4. order \in Injection(1..n, S)
  BY <1>2 DEF Injection, IsInjective
<1>5. Cardinality(1..n) = Cardinality(S)
  <2>1. Cardinality(1..n) = n
    BY <1>1, FS_Interval
  <2> QED
    BY <2>1 DEF n
<1>6. order \in Surjection(1..n, S)
  BY <1>4, <1>5, FS_Injection
<1>7. Range(order) = S
  BY <1>2, <1>6 DEF Surjection, Range
<1> QED
  BY <1>1, <1>2, <1>3, <1>7

\* The contexts of the first loop.
IsRemoving(f, k, c, order, now) ==
    f = [i \in 0..k |-> IF i = 0 THEN c ELSE RemoveSocketsOf(f[i - 1], order[i], now)]

LEMMA RemovingExists ==
    ASSUME NEW c, NEW order, NEW now, NEW N \in Nat
    PROVE  \E f : IsRemoving(f, N, c, order, now)
<1> DEFINE Is(f, k) == IsRemoving(f, k, c, order, now)
           T == {k \in Nat : ~\E f : Is(f, k)}
<1> SUFFICES ASSUME T # {} PROVE FALSE
  OBVIOUS
<1>1. PICK k \in T : \A y \in T : k <= y
  BY LeastNumber
<1>2. k # 0
  <2>1. Is([n \in 0..0 |-> c], 0)
    BY DEF IsRemoving
  <2> QED
    BY <1>1, <2>1
<1>3. PICK f : Is(f, k - 1)
  BY <1>1, <1>2
<1> DEFINE g == [n \in 0..k |-> IF n = k THEN RemoveSocketsOf(f[k - 1], order[k], now) ELSE f[n]]
<1>4. ASSUME NEW n \in 0..k
      PROVE  g[n] = IF n = 0 THEN c ELSE RemoveSocketsOf(g[n - 1], order[n], now)
  <2>1. CASE n = k
    <3>1. g[n] = RemoveSocketsOf(f[k - 1], order[k], now) /\ g[n - 1] = f[k - 1]
      BY <1>2, <2>1
    <3> HIDE DEF g
    <3> QED
      BY <1>2, <2>1, <3>1
  <2>2. CASE n # k
    <3>1. n \in 0..(k - 1) /\ g[n] = f[n] /\ (n # 0 => g[n - 1] = f[n - 1])
      BY <2>2
    <3>2. f[n] = IF n = 0 THEN c ELSE RemoveSocketsOf(f[n - 1], order[n], now)
      BY <1>3, <3>1 DEF IsRemoving
    <3> HIDE DEF g
    <3> QED
      BY <3>1, <3>2
  <2> QED
    BY <2>1, <2>2
<1>5. Is(g, k)
  <2>1. g = [n \in 0..k |-> g[n]]
    OBVIOUS
  <2> HIDE DEF g
  <2> QED
    BY <1>4, <2>1 DEF IsRemoving
<1> QED
  BY <1>1, <1>5

\* Some of the listeners without their sockets.
LEMMA WithoutResult ==
    ASSUME ListenersFit(listeners), NEW S \in SUBSET Existing
    PROVE  LET M == ListenersWithoutSockets(S)
           IN  /\ DOMAIN M = Existing /\ ListenersFit(M)
               /\ \A l \in Existing :
                     /\ M[l].universe = listeners[l].universe
                     /\ M[l].netints = listeners[l].netints
                     /\ M[l].sockets = IF l \in S THEN NoSockets ELSE listeners[l].sockets
                     /\ l \notin S => M[l] = listeners[l]
<1> DEFINE M == ListenersWithoutSockets(S)
<1>1. DOMAIN M = Existing
      /\ \A l \in Existing : M[l] = IF l \in S THEN [listeners[l] EXCEPT !.sockets = NoSockets]
                                    ELSE listeners[l]
  BY DEF ListenersWithoutSockets
<1>2. M = [l \in DOMAIN M |-> M[l]]
  BY DEF ListenersWithoutSockets
<1>3. \A l \in Existing : listeners[l] \in Listener /\ l \in Listeners
  BY DEF ListenersFit, Existing
<1> HIDE DEF M
<1>4. ASSUME NEW l \in Existing
      PROVE  /\ M[l] \in Listener
             /\ M[l].universe = listeners[l].universe /\ M[l].netints = listeners[l].netints
             /\ M[l].sockets = IF l \in S THEN NoSockets ELSE listeners[l].sockets
  BY <1>1, <1>3, NoSocketsType DEF Listener
<1>5. M \in [DOMAIN M -> Listener]
  BY <1>1, <1>2, <1>4
<1>6. ListenersFit(M)
  <2>1. \A l \in DOMAIN M : l \in Listeners /\ Suits(l, M[l].universe)
    BY <1>1, <1>4 DEF ListenersFit, Existing
  <2>2. \A l, m \in DOMAIN M : M[l].universe = M[m].universe => l = m
    BY <1>1, <1>4 DEF ListenersFit, Existing
  <2> QED
    BY <1>5, <2>1, <2>2 DEF ListenersFit
<1> QED
  BY <1>1, <1>4, <1>6 DEF M

LEMMA OneMoreWithout ==
    ASSUME ListenersFit(listeners), NEW S \in SUBSET Existing, NEW l \in Existing \ S
    PROVE  LET M == ListenersWithoutSockets(S)
               N == ListenersWithoutSockets(S \cup {l})
           IN  SocketsIn(N) = SocketsIn(Drop(M, l)) /\ WantedIn(N) = WantedIn(Drop(M, l))
<1> DEFINE M == ListenersWithoutSockets(S)
           T == S \cup {l}
           N == ListenersWithoutSockets(T)
           X == Drop(M, l)
<1>1. /\ DOMAIN M = Existing
      /\ \A m \in Existing : M[m] = IF m \in S THEN [listeners[m] EXCEPT !.sockets = NoSockets]
                                    ELSE listeners[m]
  BY DEF ListenersWithoutSockets
<1>2. /\ DOMAIN N = Existing
      /\ \A m \in Existing : N[m] = IF m \in T THEN [listeners[m] EXCEPT !.sockets = NoSockets]
                                    ELSE listeners[m]
  BY DEF ListenersWithoutSockets
<1>3. N[l].sockets = NoSockets
  <2>1. T \in SUBSET Existing /\ l \in T /\ l \in Existing
    OBVIOUS
  <2> HIDE DEF N, T
  <2> QED
    BY <2>1, WithoutResult DEF N
<1>4. DOMAIN X = Existing \ {l} /\ \A m \in DOMAIN X : X[m] = M[m]
  BY <1>1 DEF Drop
<1> HIDE DEF M, N, X
<1>5. \A m \in DOMAIN X : X[m] = N[m]
  BY <1>1, <1>2, <1>4
<1>6. SocketsIn(N) = SocketsIn(X)
  <2>1. \A m \in Listeners : (IF m \in DOMAIN N THEN N[m].sockets ELSE NoSockets)
                               = IF m \in DOMAIN X THEN X[m].sockets ELSE NoSockets
    BY <1>2, <1>3, <1>4, <1>5
  <2> QED
    BY <2>1 DEF SocketsIn
<1>7. WantedIn(N) = WantedIn(X)
  <2>1. WantedOf(N[l]) = {}
    BY <1>3, NoSocketsType DEF WantedOf
  <2>2. DOMAIN N = DOMAIN X \cup {l}
    BY <1>2, <1>4
  <2> QED
    BY <1>5, <2>1, <2>2 DEF WantedIn
<1> QED
  BY <1>6, <1>7 DEF M, N, X

\* The sockets of all listeners of an order are given back.
LEMMA RemoveAllFits ==
    ASSUME NEW c, NEW A, ListenersFit(listeners), Fits(c, c.dead, SocketsIn(listeners), A),
           NEW S \in SUBSET Existing, IsFiniteSet(S), NEW order \in SetToSeqs(S),
           NEW now \in BOOLEAN, now => ~c.polls
    PROVE  LET d == RemoveAllSockets(c, order, now)
           IN  /\ Follows(c, listeners, d, ListenersWithoutSockets(S), A)
               /\ now => d.dead = c.dead
<1> DEFINE n == Len(order)
           f == CHOOSE x : IsRemoving(x, n, c, order, now)
           Past(i) == {order[j] : j \in 1..i}
           M(i) == ListenersWithoutSockets(Past(i))
           Good(i) == Follows(c, listeners, f[i], M(i), A) /\ (now => f[i].dead = c.dead)
           T == {i \in 0..n : ~Good(i)}
<1>0. /\ n \in Nat /\ DOMAIN order = 1..n /\ \A i \in 1..n : order[i] \in S
      /\ \A i, j \in 1..n : order[i] = order[j] => i = j
      /\ Range(order) = S
  BY OrderType
<1>1. IsRemoving(f, n, c, order, now)
  BY <1>0, RemovingExists
<1>2. RemoveAllSockets(c, order, now) = f[n]
  BY DEF RemoveAllSockets, IsRemoving
<1> HIDE DEF f, n
<1>3. f[0] = c
  BY <1>0, <1>1 DEF IsRemoving
<1>4. \A i \in 1..n : f[i] = RemoveSocketsOf(f[i - 1], order[i], now)
  BY <1>0, <1>1 DEF IsRemoving
<1>5. Good(0)
  <2>1. Past(0) = {}
    OBVIOUS
  <2>2. ListenersWithoutSockets({}) = listeners
    BY DEF ListenersWithoutSockets, ListenersFit, Existing
  <2>3. Follows(c, listeners, c, listeners, A)
    BY DEF Follows, Keeps
  <2> QED
    BY <1>3, <2>1, <2>2, <2>3
<1>6. ASSUME NEW i \in 1..n, Good(i - 1) PROVE Good(i)
  <2> DEFINE l == order[i]
             P == Past(i - 1)
             L == ListenersWithoutSockets(P)
             N == ListenersWithoutSockets(P \cup {l})
             x == f[i - 1]
             d == RemoveSockets(x, L[l].sockets, L[l].universe, L[l].netints, now)
  <2>1. Past(i) = P \cup {l} /\ P \in SUBSET Existing /\ l \in Existing \ P
    BY <1>0
  <2>2. Follows(c, listeners, x, L, A) /\ (now => x.dead = c.dead)
    BY <1>6
  <2> HIDE DEF Good, Past, M, P, l, x
  <2>3. L[l] = listeners[l] /\ DOMAIN L = Existing
    BY <2>1, WithoutResult
  <2>4. ListenersFit(L) /\ Fits(x, x.dead, SocketsIn(L), A)
    BY <2>2 DEF Follows
  <2>5. now => ~x.polls
    BY <2>2 DEF Follows, Keeps
  <2>6. f[i] = d
    BY <1>4, <2>3 DEF RemoveSocketsOf, l, x
  <2>7. Follows(x, L, d, Drop(L, l), A) /\ (now => d.dead = x.dead)
    <3> HIDE DEF L
    <3>1. l \in DOMAIN L
      BY <2>1, <2>3
    <3> QED
      BY <2>4, <2>5, <3>1, RemoveOfFits
  <2>8. SocketsIn(N) = SocketsIn(Drop(L, l)) /\ WantedIn(N) = WantedIn(Drop(L, l))
    BY <2>1, OneMoreWithout
  <2>9. ListenersFit(N)
    <3>1. P \cup {l} \in SUBSET Existing
      BY <2>1
    <3> QED
      BY <3>1, WithoutResult
  <2> HIDE DEF d, L, N
  <2>10. Follows(x, L, d, N, A)
    BY <2>7, <2>8, <2>9 DEF Follows
  <2>11. Follows(c, listeners, d, N, A)
    BY <2>2, <2>10, FollowsTransitive
  <2> QED
    BY <2>1, <2>2, <2>6, <2>7, <2>11 DEF Good, M, N
<1> HIDE DEF Good
<1>7. T = {}
  <2> SUFFICES ASSUME T # {} PROVE FALSE
    OBVIOUS
  <2>1. PICK i \in T : \A y \in T : i <= y
    <3>1. T \in SUBSET Nat
      BY <1>0
    <3> QED
      BY <3>1, LeastNumber
  <2>2. i # 0 /\ i \in 1..n /\ i - 1 \in 0..n
    BY <1>0, <1>5, <2>1
  <2>3. Good(i - 1)
    BY <1>0, <2>1, <2>2
  <2> QED
    BY <1>6, <2>1, <2>2, <2>3
<1>8. Good(n)
  BY <1>0, <1>7
<1>9. Past(n) = S
  BY <1>0 DEF Range
<1> QED
  BY <1>2, <1>8, <1>9 DEF Good

\* What becomes of the context and the listeners in the second loop.
IsAdding(f, k, c, order, netints) ==
    f = [i \in 0..k |->
            IF i = 0 THEN [c |-> c, ok |-> TRUE,
                           listeners |-> ListenersWithoutSockets(Range(order))]
            ELSE IF ~f[i - 1].ok THEN f[i - 1]
            ELSE AddedAgain(f[i - 1], order[i], netints,
                            AddSockets(f[i - 1].c, listeners[order[i]].universe, netints))]

AfterAdding(done, l, netints) ==
    IF ~done.ok THEN done
    ELSE AddedAgain(done, l, netints, AddSockets(done.c, listeners[l].universe, netints))

LEMMA IsAddingNext ==
    ASSUME NEW f, NEW k, NEW c, NEW order, NEW netints
    PROVE  IsAdding(f, k, c, order, netints) <=>
             f = [i \in 0..k |->
                    IF i = 0 THEN [c |-> c, ok |-> TRUE,
                                   listeners |-> ListenersWithoutSockets(Range(order))]
                    ELSE AfterAdding(f[i - 1], order[i], netints)]
  BY DEF IsAdding, AfterAdding

LEMMA AddingExists ==
    ASSUME NEW c, NEW order, NEW netints, NEW N \in Nat
    PROVE  \E f : IsAdding(f, N, c, order, netints)
<1> DEFINE Is(f, k) == IsAdding(f, k, c, order, netints)
           T == {k \in Nat : ~\E f : Is(f, k)}
           start == [c |-> c, ok |-> TRUE, listeners |-> ListenersWithoutSockets(Range(order))]
<1> HIDE DEF start
<1>0. ASSUME NEW f, NEW k
      PROVE  Is(f, k) <=> f = [i \in 0..k |-> IF i = 0 THEN start
                                              ELSE AfterAdding(f[i - 1], order[i], netints)]
  BY IsAddingNext DEF start
<1> HIDE DEF Is
<1> SUFFICES ASSUME T # {} PROVE FALSE
  BY DEF Is
<1>1. PICK k \in T : \A y \in T : k <= y
  BY LeastNumber
<1>2. k # 0
  <2> DEFINE h == [n \in 0..0 |-> start]
  <2>1. h = [n \in 0..0 |-> IF n = 0 THEN start ELSE AfterAdding(h[n - 1], order[n], netints)]
    OBVIOUS
  <2> HIDE DEF h
  <2>2. Is(h, 0)
    BY <1>0, <2>1
  <2> QED
    BY <1>1, <2>2
<1>3. PICK f : Is(f, k - 1)
  BY <1>1, <1>2
<1> DEFINE g == [n \in 0..k |-> IF n = k THEN AfterAdding(f[k - 1], order[k], netints) ELSE f[n]]
<1>4. ASSUME NEW n \in 0..k
      PROVE  g[n] = IF n = 0 THEN start ELSE AfterAdding(g[n - 1], order[n], netints)
  <2>1. CASE n = k
    <3>1. g[n] = AfterAdding(f[k - 1], order[k], netints) /\ g[n - 1] = f[k - 1]
      BY <1>2, <2>1
    <3> HIDE DEF g
    <3> QED
      BY <1>2, <2>1, <3>1
  <2>2. CASE n # k
    <3>1. n \in 0..(k - 1) /\ g[n] = f[n] /\ (n # 0 => g[n - 1] = f[n - 1])
      BY <2>2
    <3>2. f[n] = IF n = 0 THEN start ELSE AfterAdding(f[n - 1], order[n], netints)
      <4>1. f = [i \in 0..(k - 1) |-> IF i = 0 THEN start
                                      ELSE AfterAdding(f[i - 1], order[i], netints)]
        BY <1>0, <1>3
      <4> QED
        BY <3>1, <4>1
    <3> HIDE DEF g
    <3> QED
      BY <3>1, <3>2
  <2> QED
    BY <2>1, <2>2
<1>5. Is(g, k)
  <2>1. g = [n \in 0..k |-> g[n]]
    OBVIOUS
  <2> HIDE DEF g
  <2>2. g = [n \in 0..k |-> IF n = 0 THEN start ELSE AfterAdding(g[n - 1], order[n], netints)]
    BY <1>4, <2>1
  <2> QED
    BY <1>0, <2>2
<1> QED
  BY <1>1, <1>5

\* One listener is given sockets again.
LEMMA AddedAgainFits ==
    ASSUME NEW done, NEW A, ListenersFit(done.listeners),
           Fits(done.c, done.c.dead, SocketsIn(done.listeners), A),
           NEW l \in DOMAIN done.listeners, done.listeners[l].sockets = NoSockets,
           NEW netints \in SUBSET Netints
    PROVE  LET L == done.listeners
               next == AddedAgain(done, l, netints,
                                  AddSockets(done.c, L[l].universe, netints))
           IN  /\ Follows(done.c, L, next.c, next.listeners, A)
               /\ DOMAIN next.listeners = DOMAIN L
               /\ \A m \in DOMAIN L : next.listeners[m].universe = L[m].universe
               /\ \A m \in DOMAIN L \ {l} : next.listeners[m] = L[m]
               /\ next.ok \in BOOLEAN
<1> DEFINE L == done.listeners
           u == L[l].universe
           r == AddSockets(done.c, u, netints)
           e == [universe |-> u, netints |-> netints, sockets |-> r.sockets]
           next == AddedAgain(done, l, netints, r)
           M == [L EXCEPT ![l].netints = netints, ![l].sockets = r.sockets]
<1>1. l \in Listeners /\ L[l] \in Listener /\ Suits(l, u)
      /\ L \in [DOMAIN L -> Listener]
      /\ \A m \in DOMAIN L \ {l} : L[m].universe # u
  BY DEF ListenersFit
<1>2. SocketsIn(L)[l] = NoSockets
  BY <1>1 DEF SocketsIn
<1>3. /\ Follows(done.c, L, r.c, Put(L, l, e), A) /\ r.ok \in BOOLEAN
  <2> DEFINE c == done.c
             q == AddSockets(c, u, netints)
             p == [universe |-> u, netints |-> netints, sockets |-> q.sockets]
  <2> HIDE DEF c, u, L
  <2>0. ListenersFit(L) /\ Fits(c, c.dead, SocketsIn(L), A)
    BY DEF c, L
  <2>1. GivenSockets(c, L, q, l, u, netints, A)
    BY <1>1, <1>2, <2>0, AddOfFits
  <2> HIDE DEF q
  <2>2. Follows(c, L, q.c, Put(L, l, p), A) /\ q.ok \in BOOLEAN
    BY <2>1 DEF GivenSockets
  <2> QED
    BY <2>2 DEF c, q
<1>4. next.c = r.c /\ next.ok = r.ok /\ next.listeners = M
  BY DEF AddedAgain
<1> HIDE DEF r, next
<1>5. M = Put(L, l, e)
  <2>1. DOMAIN L \cup {l} = DOMAIN L
    OBVIOUS
  <2>2. [[L[l] EXCEPT !.netints = netints] EXCEPT !.sockets = r.sockets] = e
    <3> DEFINE x == L[l]
               q == r.sockets
    <3>1. x \in Listener /\ u = x.universe
      BY <1>1
    <3>2. e = [universe |-> u, netints |-> netints, sockets |-> q]
      OBVIOUS
    <3> HIDE DEF x, q, u, e
    <3>3. x = [universe |-> x.universe, netints |-> x.netints, sockets |-> x.sockets]
      BY <3>1 DEF Listener
    <3>4. [[x EXCEPT !.netints = netints] EXCEPT !.sockets = q]
            = [universe |-> x.universe, netints |-> netints, sockets |-> q]
      <4> DEFINE a == x.universe
                 b == x.netints
                 d == x.sockets
      <4> HIDE DEF a, b, d
      <4>1. x = [universe |-> a, netints |-> b, sockets |-> d]
        BY <3>3 DEF a, b, d
      <4>2. [x EXCEPT !.netints = netints] = [universe |-> a, netints |-> netints, sockets |-> d]
        BY <4>1
      <4>3. [[universe |-> a, netints |-> netints, sockets |-> d] EXCEPT !.sockets = q]
              = [universe |-> a, netints |-> netints, sockets |-> q]
        OBVIOUS
      <4> QED
        BY <4>2, <4>3 DEF a
    <3> QED
      BY <3>1, <3>2, <3>4 DEF x, q
  <2>3. M = [x \in DOMAIN L |-> IF x = l
               THEN [[L[l] EXCEPT !.netints = netints] EXCEPT !.sockets = r.sockets] ELSE L[x]]
    BY <1>1
  <2> HIDE DEF M, e
  <2> QED
    BY <2>1, <2>2, <2>3 DEF Put
<1>6. /\ DOMAIN Put(L, l, e) = DOMAIN L
      /\ \A m \in DOMAIN L : Put(L, l, e)[m].universe = L[m].universe
      /\ \A m \in DOMAIN L \ {l} : Put(L, l, e)[m] = L[m]
  BY DEF Put
<1> HIDE DEF M, e
<1> QED
  BY <1>3, <1>4, <1>5, <1>6 DEF next, r

\* The listeners of an order are given sockets again, until one gets none.
LEMMA AddAgainFits ==
    ASSUME NEW c, NEW A, ListenersFit(listeners), NEW S \in SUBSET Existing, IsFiniteSet(S),
           Fits(c, c.dead, SocketsIn(ListenersWithoutSockets(S)), A),
           NEW order \in SetToSeqs(S), NEW netints \in SUBSET Netints
    PROVE  LET done == AddAgain(c, order, netints)
           IN  Follows(c, ListenersWithoutSockets(S), done.c, done.listeners, A)
<1> DEFINE n == Len(order)
           f == CHOOSE x : IsAdding(x, n, c, order, netints)
           W == ListenersWithoutSockets(S)
           start == [c |-> c, ok |-> TRUE, listeners |-> W]
           Good(i) == /\ Follows(c, W, f[i].c, f[i].listeners, A)
                      /\ DOMAIN f[i].listeners = Existing
                      /\ \A l \in Existing : f[i].listeners[l].universe = listeners[l].universe
                      /\ \A j \in (i + 1)..n : f[i].listeners[order[j]].sockets = NoSockets
           T == {i \in 0..n : ~Good(i)}
<1>0. /\ n \in Nat /\ DOMAIN order = 1..n /\ \A i \in 1..n : order[i] \in S
      /\ \A i, j \in 1..n : order[i] = order[j] => i = j
      /\ Range(order) = S
  BY OrderType
<1>1. IsAdding(f, n, c, order, netints)
  BY <1>0, AddingExists
<1>2. AddAgain(c, order, netints) = f[n]
  BY DEF AddAgain, IsAdding
<1> HIDE DEF f, n, start
<1>3. f = [i \in 0..n |-> IF i = 0 THEN start ELSE AfterAdding(f[i - 1], order[i], netints)]
  BY <1>0, <1>1, IsAddingNext DEF start
<1>4. f[0] = start /\ \A i \in 1..n : f[i] = AfterAdding(f[i - 1], order[i], netints)
  BY <1>0, <1>3
<1>5. Good(0)
  <2>1. /\ DOMAIN W = Existing /\ ListenersFit(W)
        /\ \A l \in Existing : W[l].universe = listeners[l].universe
        /\ \A l \in S : W[l].sockets = NoSockets
    BY WithoutResult
  <2> HIDE DEF W
  <2>2. Follows(c, W, c, W, A)
    BY <2>1 DEF Follows, Keeps, W
  <2>3. f[0].c = c /\ f[0].listeners = W
    BY <1>4 DEF start
  <2> QED
    BY <1>0, <2>1, <2>2, <2>3
<1> HIDE DEF W
<1>6. ASSUME NEW i \in 1..n, Good(i - 1) PROVE Good(i)
  <2> DEFINE done == f[i - 1]
             l == order[i]
             next == AddedAgain(done, l, netints,
                                AddSockets(done.c, done.listeners[l].universe, netints))
  <2>0. i \in Nat /\ i - 1 \in Nat /\ l \in S /\ l \in Existing
    BY <1>0
  <2>1. /\ Follows(c, W, done.c, done.listeners, A) /\ DOMAIN done.listeners = Existing
        /\ \A m \in Existing : done.listeners[m].universe = listeners[m].universe
        /\ \A j \in i..n : done.listeners[order[j]].sockets = NoSockets
    BY <1>6, <2>0
  <2>2. f[i] = AfterAdding(done, l, netints)
    BY <1>4
  <2> HIDE DEF done, Good
  <2>3. CASE ~done.ok
    <3>1. f[i] = done
      BY <2>2, <2>3 DEF AfterAdding
    <3>2. \A j \in (i + 1)..n : j \in i..n
      BY <1>0, <2>0
    <3> QED
      BY <2>1, <3>1, <3>2 DEF Good
  <2>4. CASE done.ok
    <3>1. f[i] = next
      BY <2>0, <2>1, <2>2, <2>4 DEF AfterAdding
    <3>2. /\ ListenersFit(done.listeners)
          /\ Fits(done.c, done.c.dead, SocketsIn(done.listeners), A)
      BY <2>1 DEF Follows
    <3>3. i \in i..n
      BY <1>0
    <3>4. done.listeners[l].sockets = NoSockets /\ l \in DOMAIN done.listeners
      BY <2>0, <2>1, <3>3
    <3> HIDE DEF l
    <3>5. /\ Follows(done.c, done.listeners, next.c, next.listeners, A)
          /\ DOMAIN next.listeners = DOMAIN done.listeners
          /\ \A m \in DOMAIN done.listeners :
                next.listeners[m].universe = done.listeners[m].universe
          /\ \A m \in DOMAIN done.listeners \ {l} : next.listeners[m] = done.listeners[m]
      BY <3>2, <3>4, AddedAgainFits
    <3> HIDE DEF next
    <3>6. Follows(c, W, next.c, next.listeners, A)
      BY <2>1, <3>5, FollowsTransitive
    <3>7. ASSUME NEW j \in (i + 1)..n PROVE next.listeners[order[j]].sockets = NoSockets
      <4>1. j \in i..n /\ j \in 1..n /\ j # i
        BY <1>0, <2>0
      <4>2. order[j] # l /\ order[j] \in Existing
        BY <1>0, <4>1 DEF l
      <4> QED
        BY <2>1, <3>5, <4>1, <4>2
    <3> QED
      BY <2>1, <3>1, <3>5, <3>6, <3>7 DEF Good
  <2> QED
    BY <2>3, <2>4
<1>7. T = {}
  <2> HIDE DEF Good
  <2> SUFFICES ASSUME T # {} PROVE FALSE
    OBVIOUS
  <2>1. PICK i \in T : \A y \in T : i <= y
    <3>1. T \in SUBSET Nat
      BY <1>0
    <3> QED
      BY <3>1, LeastNumber
  <2>2. i # 0 /\ i \in 1..n /\ i - 1 \in 0..n
    BY <1>0, <1>5, <2>1
  <2>3. Good(i - 1)
    BY <1>0, <2>1, <2>2
  <2> QED
    BY <1>6, <2>1, <2>2, <2>3
<1>8. Follows(c, W, f[n].c, f[n].listeners, A)
  BY <1>0, <1>7
<1> QED
  BY <1>2, <1>8 DEF W

-----------------------------------------------------------------------------
(***************************************************************************)
(* The inductive invariant: the context fits the listeners, whatever they  *)
(* ask for is queued or joined as long as no universe has been changed,    *)
(* and nothing is left of either while the library is not initialized.     *)
(***************************************************************************)
Stages == {"none", "starting", "running", "failed"}

Inv ==
    /\ thread \in Stages
    /\ ListenersFit(listeners)
    /\ Fits(context, context.dead, SocketsIn(listeners), abandoned)
    /\ Polled(context, failed)
    /\ context.polls <=> thread = "running"
    /\ initialized => abandoned = {}
    /\ ~initialized => listeners = << >> /\ thread = "none"
    /\ ~moved => Listening(context, WantedIn(listeners))

\* A context that is new, with sockets that are nobody's.
LEMMA NewContextFits ==
    ASSUME NEW A \in SUBSET Handle
    PROVE  LET c == NewContext(A)
           IN  /\ ListenersFit(<< >>) /\ Fits(c, c.dead, SocketsIn(<< >>), A)
               /\ \A F : Polled(c, F)
               /\ c.polls = FALSE /\ Listening(c, WantedIn(<< >>))
<1> DEFINE c == NewContext(A)
           L == << >>
<1>1. /\ c.refs = << >> /\ c.new_refs = 0 /\ c.dead = {} /\ c.subs = EmptyBag
      /\ c.unsubs = EmptyBag /\ c.bound = [ip \in IpTypes |-> FALSE] /\ c.polls = FALSE
      /\ c.open = A /\ c.joined = {} /\ c.polled = {}
  BY DEF NewContext
<1>2. /\ << >> \in Seq(SocketRef) /\ Len(<< >>) = 0 /\ DOMAIN << >> = {}
      /\ [ip \in IpTypes |-> FALSE] \in [IpTypes -> BOOLEAN]
  OBVIOUS
<1>3. c \in Context
  BY <1>2, EmptyBagType DEF NewContext, Context
<1> HIDE DEF c
<1>4. ListenersFit(L) /\ WantedIn(L) = {} /\ SocketsIn(L) = [l \in Listeners |-> NoSockets]
  <2>1. DOMAIN L = {}
    BY <1>2
  <2>2. L \in [{} -> Listener]
    OBVIOUS
  <2> HIDE DEF L
  <2> QED
    BY <2>1, <2>2 DEF ListenersFit, WantedIn, SocketsIn
<1>5. TableFits(c, SocketsIn(L))
  <2>1. \A ip \in IpTypes : NoSockets[ip] = NoSocket
    BY DEF NoSockets, Sockets
  <2> QED
    BY <1>1, <1>2, <1>4, <2>1 DEF TableFits
<1>6. RefHandles(c) = {} /\ Handles({}) = {}
  BY <1>1, <1>2 DEF RefHandles, Handles
<1>7. OpenFit(c, c.dead, A)
  BY <1>1, <1>6 DEF OpenFit
<1>8. BoundFit(c, c.dead)
  BY <1>1, <1>2 DEF BoundFit
<1>9. \A F : Polled(c, F)
  BY <1>1, <1>2 DEF Polled
<1>10. Listening(c, WantedIn(L))
  BY <1>1, <1>4, EmptyBagType DEF Listening
<1> QED
  BY <1>1, <1>3, <1>4, <1>5, <1>7, <1>8, <1>9, <1>10 DEF Fits, c

LEMMA InvInit == Init => Inv
<1> SUFFICES ASSUME Init PROVE Inv
  OBVIOUS
<1>1. {} \in SUBSET Handle
  OBVIOUS
<1> DEFINE c == NewContext({})
<1>2. /\ ListenersFit(<< >>) /\ Fits(c, c.dead, SocketsIn(<< >>), {})
      /\ \A F : Polled(c, F)
      /\ c.polls = FALSE /\ Listening(c, WantedIn(<< >>))
  BY <1>1, NewContextFits
<1> HIDE DEF c
<1> QED
  BY <1>2 DEF Init, Inv, Stages, c

\* A step in which the context follows the listeners.
LEMMA FollowingStep ==
    ASSUME Inv, initialized, initialized' = initialized, abandoned' = abandoned,
           failed' = failed, moved' = moved, thread' \in Stages,
           thread' = "running" <=> thread = "running",
           Follows(context, listeners, context', listeners', {})
    PROVE  Inv'
<1>1. ListenersFit(listeners)' /\ Fits(context, context.dead, SocketsIn(listeners), abandoned)'
  BY DEF Inv, Follows
<1>2. Polled(context, failed)' /\ (context'.polls <=> thread' = "running")
  BY DEF Inv, Follows, Keeps
<1>3. (~moved => Listening(context, WantedIn(listeners)))'
  BY DEF Inv, Follows
<1> QED
  BY <1>1, <1>2, <1>3 DEF Inv

\* A new listener, whether it gets its sockets, gets none, or gives them back.
LEMMA AssignStep ==
    ASSUME Inv, initialized, NEW l \in Listeners, l \notin Existing, NEW universe,
           Suits(l, universe), ~UniverseInUse(universe), NEW netints \in SUBSET Netints,
           Assign(l, universe, netints), UNCHANGED <<initialized, history>>
    PROVE  Inv'
<1> DEFINE L == listeners
           r == AddSockets(context, universe, netints)
           e == [universe |-> universe, netints |-> netints, sockets |-> r.sockets]
           M == Put(L, l, e)
<1>1. /\ ListenersFit(L) /\ Fits(context, context.dead, SocketsIn(L), {})
      /\ \A m \in DOMAIN L \ {l} : L[m].universe # universe
  BY DEF Inv, UniverseInUse, Existing
<1>2. SocketsIn(L)[l] = NoSockets
  BY DEF SocketsIn, Existing
<1>3. /\ Follows(context, L, r.c, M, {}) /\ e \in Listener
      /\ ~r.ok => r.sockets = NoSockets /\ Follows(context, L, r.c, L, {})
      /\ r.ok \in BOOLEAN
  <2>1. GivenSockets(context, L, r, l, universe, netints, {})
    <3> DEFINE c == context
    <3> HIDE DEF c, L
    <3>1. GivenSockets(c, L, AddSockets(c, universe, netints), l, universe, netints, {})
      BY <1>1, <1>2, AddOfFits DEF c
    <3> QED
      BY <3>1 DEF c
  <2> HIDE DEF r, L
  <2> QED
    BY <2>1 DEF GivenSockets
<1>4. Assigned(l, universe, netints, r)
  BY DEF Assign
<1>5. /\ initialized' = initialized /\ abandoned' = abandoned /\ failed' = failed
      /\ moved' = moved
  BY DEF history
<1> HIDE DEF r
<1>6. CASE ~r.ok /\ context' = r.c /\ UNCHANGED <<listeners, thread>>
  <2>1. Follows(context, listeners, context', listeners', {})
    BY <1>3, <1>6
  <2> QED
    BY <1>5, <1>6, <2>1, FollowingStep DEF Inv
<1>7. CASE /\ r.ok /\ context' = r.c
           /\ listeners' = With(l, [NewListener(universe, netints) EXCEPT !.sockets = r.sockets])
           /\ thread' = IF Running THEN thread ELSE "starting"
  <2>1. [NewListener(universe, netints) EXCEPT !.sockets = r.sockets] = e
    BY DEF NewListener
  <2>2. listeners' = M
    BY <1>7, <2>1 DEF With, Put, Existing
  <2>3. Follows(context, listeners, context', listeners', {})
    BY <1>3, <1>7, <2>2
  <2>4. thread' \in Stages /\ (thread' = "running" <=> thread = "running")
    BY <1>7 DEF Inv, Running, Stages
  <2> QED
    BY <1>5, <2>3, <2>4, FollowingStep
<1>8. CASE /\ r.ok /\ ~Running
           /\ context' = RemoveSockets(r.c, r.sockets, universe, netints, TRUE)
           /\ UNCHANGED <<listeners, thread>>
  <2>1. M[l] = e /\ l \in DOMAIN M /\ DOMAIN M = DOMAIN L \cup {l}
        /\ \A x \in DOMAIN L : M[x] = L[x]
    BY DEF Put, Existing
  <2>2. e.sockets = r.sockets /\ e.universe = universe /\ e.netints = netints
    OBVIOUS
  <2>3. Drop(M, l) = L
    <3>1. DOMAIN M \ {l} = DOMAIN L
      BY <2>1 DEF Existing
    <3>2. L = [x \in DOMAIN L |-> L[x]]
      BY <1>1 DEF ListenersFit
    <3>3. Drop(M, l) = [x \in DOMAIN L |-> M[x]]
      BY <3>1 DEF Drop
    <3> HIDE DEF M, L
    <3> QED
      BY <2>1, <3>2, <3>3
  <2>4. TRUE \in BOOLEAN /\ (TRUE => ~r.c.polls)
    <3>1. ~context.polls
      BY <1>8 DEF Inv, Running
    <3> QED
      BY <1>3, <3>1 DEF Follows, Keeps
  <2> DEFINE c == r.c
             d == RemoveSockets(c, M[l].sockets, M[l].universe, M[l].netints, TRUE)
  <2>5. ListenersFit(M) /\ Fits(c, c.dead, SocketsIn(M), {})
    BY <1>3 DEF Follows
  <2>6. context' = d
    BY <1>8, <2>1, <2>2
  <2> HIDE DEF M, L, e
  <2>7. Follows(c, M, d, Drop(M, l), {})
    <3> HIDE DEF c
    <3> QED
      BY <2>1, <2>4, <2>5, RemoveOfFits DEF c
  <2> HIDE DEF d
  <2>8. Follows(context, L, d, L, {})
    BY <1>3, <2>3, <2>7, FollowsTransitive
  <2>9. Follows(context, listeners, context', listeners', {})
    BY <1>8, <2>6, <2>8 DEF L
  <2> QED
    BY <1>5, <1>8, <2>9, FollowingStep DEF Inv
<1> QED
  BY <1>4, <1>6, <1>7, <1>8 DEF Assigned

LEMMA CreateReceiverStep ==
    ASSUME Inv, NEW r \in Receivers, NEW u \in Universes, NEW N \in NetintLists,
           CreateReceiver(r, u, N)
    PROVE  Inv'
<1>1. r \in Listeners /\ Suits(r, u) /\ N \in SUBSET Netints
  BY ReceiveThreadAssumption DEF Listeners, Suits
<1>2. /\ initialized /\ r \notin Existing /\ ~UniverseInUse(u) /\ Assign(r, u, N)
      /\ UNCHANGED <<initialized, history>>
  BY DEF CreateReceiver, MayQueue
<1> QED
  BY <1>1, <1>2, AssignStep

LEMMA CreateDetectorStep ==
    ASSUME Inv, NEW N \in NetintLists, CreateDetector(N)
    PROVE  Inv'
<1>1. Detector \in Listeners /\ Suits(Detector, Discovery) /\ N \in SUBSET Netints
  BY ReceiveThreadAssumption DEF Listeners, Suits
<1>2. /\ initialized /\ Detector \notin Existing /\ Assign(Detector, Discovery, N)
      /\ UNCHANGED <<initialized, history>>
  BY DEF CreateDetector, MayQueue
<1>3. ~UniverseInUse(Discovery)
  <2> SUFFICES ASSUME NEW l \in Existing, listeners[l].universe = Discovery PROVE FALSE
    BY DEF UniverseInUse
  <2>1. Suits(l, listeners[l].universe)
    BY DEF Inv, ListenersFit, Existing
  <2> QED
    BY <1>2, <2>1, ReceiveThreadAssumption DEF Suits
<1> QED
  BY <1>1, <1>2, <1>3, AssignStep

LEMMA DestroyStep ==
    ASSUME Inv, NEW l \in Listeners, Destroy(l)
    PROVE  Inv'
<1> DEFINE L == listeners
           now == ~Running
           d == RemoveSockets(context, L[l].sockets, L[l].universe, L[l].netints, now)
<1>1. /\ initialized /\ l \in DOMAIN L /\ context' = d
      /\ listeners' = Drop(L, l)
      /\ initialized' = initialized /\ thread' = thread /\ moved' = moved
      /\ abandoned' = abandoned /\ failed' = failed
  BY DEF Destroy, Existing, RemoveSocketsOf, Without, Drop
<1>2. ListenersFit(L) /\ Fits(context, context.dead, SocketsIn(L), {})
  BY <1>1 DEF Inv
<1>3. now \in BOOLEAN /\ (now => ~context.polls)
  BY DEF Inv, Running
<1>4. Follows(context, L, d, Drop(L, l), {})
  <2> DEFINE c == context
             x == RemoveSockets(c, L[l].sockets, L[l].universe, L[l].netints, now)
  <2> HIDE DEF c, L, now
  <2>1. Follows(c, L, x, Drop(L, l), {})
    BY <1>1, <1>2, <1>3, RemoveOfFits DEF c
  <2> QED
    BY <2>1 DEF c
<1>5. Follows(context, listeners, context', listeners', {})
  BY <1>1, <1>4
<1>6. thread' \in Stages
  BY <1>1 DEF Inv
<1> QED
  BY <1>1, <1>5, <1>6, FollowingStep

LEMMA ExistingFinite ==
    ASSUME ListenersFit(listeners), NEW S \in SUBSET Existing
    PROVE  IsFiniteSet(S)
<1>1. IsFiniteSet(Listeners)
  BY ReceiveThreadAssumption, FS_AddElement DEF Listeners
<1>2. S \in SUBSET Listeners
  BY DEF ListenersFit, Existing
<1> QED
  BY <1>1, <1>2, FS_Subset

LEMMA ResetStep ==
    ASSUME Inv, NEW S \in SUBSET Existing, NEW N \in NetintLists, ResetNetworking(S, N)
    PROVE  Inv'
<1>1. initialized
  BY DEF ResetNetworking, MayQueue
<1>2. PICK order \in SetToSeqs(S) :
         WasReset(S, AddAgain(RemoveAllSockets(context, order, FALSE), order, N))
  BY DEF ResetNetworking
<1>3. /\ initialized' = initialized /\ thread' = thread /\ moved' = moved
      /\ abandoned' = abandoned /\ failed' = failed
  BY DEF ResetNetworking
<1> DEFINE c == context
           d == RemoveAllSockets(c, order, FALSE)
           done == AddAgain(d, order, N)
           M == ListenersWithoutSockets(S)
<1>4. context' = done.c /\ listeners' = done.listeners
  BY <1>2 DEF WasReset
<1>5. ListenersFit(listeners) /\ Fits(c, c.dead, SocketsIn(listeners), {})
  BY <1>1 DEF Inv
<1>6. IsFiniteSet(S) /\ N \in SUBSET Netints /\ FALSE \in BOOLEAN
  BY <1>5, ExistingFinite, ReceiveThreadAssumption
<1> HIDE DEF c
<1>7. Follows(c, listeners, d, M, {})
  BY <1>5, <1>6, RemoveAllFits
<1> HIDE DEF d
<1>8. Follows(d, M, done.c, done.listeners, {})
  <2>1. Fits(d, d.dead, SocketsIn(M), {})
    BY <1>7 DEF Follows
  <2> QED
    BY <1>5, <1>6, <2>1, AddAgainFits
<1> HIDE DEF M, done
<1>9. Follows(context, listeners, context', listeners', {})
  BY <1>4, <1>7, <1>8, FollowsTransitive DEF c
<1>10. thread' \in Stages
  BY <1>3 DEF Inv
<1> QED
  BY <1>1, <1>3, <1>9, <1>10, FollowingStep

LEMMA ChangeUniverseStep ==
    ASSUME Inv, NEW r \in Receivers, NEW u \in Universes, ChangeUniverse(r, u)
    PROVE  Inv'
<1> DEFINE L == listeners
           c == context
           n == L[r].netints
           d == RemoveSockets(c, L[r].sockets, u, n, FALSE)
           added == AddSockets(d, u, n)
           X == Drop(L, r)
           e == [universe |-> u, netints |-> n, sockets |-> added.sockets]
           M == Put(X, r, e)
<1>1. /\ initialized /\ r \in DOMAIN L /\ ~UniverseInUse(u) /\ Moved(r, u, added)
      /\ moved' /\ initialized' = initialized /\ thread' = thread
      /\ abandoned' = abandoned /\ failed' = failed
  BY DEF ChangeUniverse, MayQueue, Existing
<1>2. /\ ListenersFit(L) /\ Fits(c, c.dead, SocketsIn(L), {})
      /\ L[r] \in Listener /\ r \in Listeners /\ L \in [DOMAIN L -> Listener]
  BY <1>1 DEF Inv, ListenersFit
<1>3. n \in SUBSET Netints /\ u \in Universes \cup {Discovery} /\ Suits(r, u)
      /\ SocketsIn(L) \in Using /\ SocketsIn(L)[r] = L[r].sockets
  <2>1. n \in SUBSET Netints
    BY <1>2 DEF Listener
  <2>2. Suits(r, u)
    BY ReceiveThreadAssumption DEF Suits
  <2>3. SocketsIn(L)[r] = L[r].sockets
    BY <1>1, <1>2 DEF SocketsIn
  <2> QED
    BY <1>2, <2>1, <2>2, <2>3, UsingType
<1>4. context' = added.c /\ listeners' = [[L EXCEPT ![r].universe = u] EXCEPT ![r].sockets = added.sockets]
  BY <1>1 DEF Moved, UpdateReceiverUniverse
<1>5. listeners' = M
  <2> DEFINE q == added.sockets
             x == L[r]
  <2>1. x = [universe |-> x.universe, netints |-> x.netints, sockets |-> x.sockets]
    <3> HIDE DEF x
    <3> QED
      BY <1>2 DEF Listener, x
  <2>2. listeners' = [y \in DOMAIN L |-> IF y = r
                        THEN [[x EXCEPT !.universe = u] EXCEPT !.sockets = q] ELSE L[y]]
    <3> HIDE DEF q
    <3> QED
      BY <1>1, <1>2, <1>4 DEF q
  <2>3. [[x EXCEPT !.universe = u] EXCEPT !.sockets = q] = e
    <3> DEFINE a == x.universe
               b == x.netints
               s == x.sockets
    <3>1. e = [universe |-> u, netints |-> b, sockets |-> q]
      OBVIOUS
    <3> HIDE DEF a, b, s, q, e, x
    <3>2. x = [universe |-> a, netints |-> b, sockets |-> s]
      BY <2>1 DEF a, b, s
    <3>3. [x EXCEPT !.universe = u] = [universe |-> u, netints |-> b, sockets |-> s]
      BY <3>2
    <3>4. [[universe |-> u, netints |-> b, sockets |-> s] EXCEPT !.sockets = q]
            = [universe |-> u, netints |-> b, sockets |-> q]
      OBVIOUS
    <3> QED
      BY <3>1, <3>3, <3>4
  <2>4. (DOMAIN L \ {r}) \cup {r} = DOMAIN L
    BY <1>1
  <2>5. DOMAIN X = DOMAIN L \ {r} /\ \A y \in DOMAIN X : X[y] = L[y]
    BY DEF Drop
  <2> HIDE DEF e, L, X
  <2>6. M = [y \in DOMAIN L |-> IF y = r THEN e ELSE L[y]]
    BY <2>4, <2>5 DEF Put
  <2> QED
    BY <2>2, <2>3, <2>6
<1>6. Fits(d, d.dead, SocketsIn(X), {}) /\ Keeps(c, d) /\ ListenersFit(X)
  <2> DEFINE U == SocketsIn(L)
             y == RemoveSockets(c, U[r], u, n, FALSE)
  <2>0. FALSE \in BOOLEAN
    OBVIOUS
  <2>1. y = d
    BY <1>3
  <2>2. ListenersFit(X) /\ SocketsIn(X) = UseAll(U, r, NoSockets)
    BY <1>1, <1>2, LeaveResult
  <2> HIDE DEF d, U, L, X, n, c
  <2>3. Released(c, y, UseAll(U, r, NoSockets), {}, AllAsked(U[r], u, n), FALSE)
    BY <1>2, <1>3, <2>0, RemoveFits DEF U
  <2> HIDE DEF y
  <2> QED
    BY <2>1, <2>2, <2>3 DEF Released
<1>7. DOMAIN X = DOMAIN L \ {r} /\ \A m \in DOMAIN X \ {r} : X[m].universe # u
  BY <1>1 DEF Drop, UniverseInUse, Existing
<1>8. SocketsIn(X)[r] = NoSockets
  BY <1>2, <1>7 DEF SocketsIn
<1> HIDE DEF L, X, d, n, c
<1>9. Follows(d, X, added.c, M, {})
  <2>1. GivenSockets(d, X, added, r, u, n, {})
    BY <1>2, <1>3, <1>6, <1>7, <1>8, AddOfFits
  <2> HIDE DEF added
  <2> QED
    BY <2>1 DEF GivenSockets
<1> HIDE DEF added, M
<1>10. ListenersFit(listeners)' /\ Fits(context, context.dead, SocketsIn(listeners), {})'
  BY <1>4, <1>5, <1>9 DEF Follows
<1>11. Keeps(c, context')
  BY <1>4, <1>6, <1>9, KeepsTransitive DEF Follows
<1>12. Polled(context, failed)' /\ (context'.polls <=> thread' = "running")
  BY <1>1, <1>11 DEF Inv, Keeps, c
<1> QED
  BY <1>1, <1>10, <1>12 DEF Inv

\* Contexts that differ in what is polled.
LEMMA PolledElsewhere ==
    ASSUME NEW c, NEW D, NEW U, NEW A, Fits(c, D, U, A), NEW d \in Context,
           d.refs = c.refs, d.new_refs = c.new_refs, d.bound = c.bound, d.open = c.open,
           d.polled \subseteq c.polled
    PROVE  Fits(d, D, U, A)
<1>1. RefHandles(d) = RefHandles(c) /\ TableFits(d, U)
  BY DEF Fits, TableFits, RefHandles
<1>2. OpenFit(d, D, A)
  BY <1>1 DEF Fits, OpenFit
<1>3. BoundFit(d, D)
  BY DEF Fits, BoundFit
<1> QED
  BY <1>1, <1>2, <1>3 DEF Fits

LEMMA PollsResult ==
    ASSUME NEW c \in Context, NEW on \in BOOLEAN
    PROVE  LET d == [c EXCEPT !.polls = on]
           IN  /\ d \in Context /\ d.polls = on
               /\ d.refs = c.refs /\ d.new_refs = c.new_refs /\ d.dead = c.dead
               /\ d.subs = c.subs /\ d.unsubs = c.unsubs /\ d.bound = c.bound
               /\ d.open = c.open /\ d.joined = c.joined /\ d.polled = c.polled
  BY DEF Context

LEMMA StartStep ==
    ASSUME Inv, ThreadStarts
    PROVE  Inv'
<1> DEFINE c == context
           on == TRUE
           d == [c EXCEPT !.polls = on]
<1>1. /\ c \in Context /\ Fits(c, c.dead, SocketsIn(listeners), abandoned)
      /\ ~c.polls /\ Polled(c, failed)
  BY DEF Inv, Fits, ThreadStarts
<1>2. on /\ on \in BOOLEAN
  OBVIOUS
<1>3. /\ context' = d /\ thread' = "running" /\ initialized' = initialized
      /\ listeners' = listeners /\ moved' = moved /\ abandoned' = abandoned
      /\ failed' = failed
  BY DEF ThreadStarts, history
<1> HIDE DEF on, c
<1>4. /\ d \in Context /\ d.polls
      /\ d.refs = c.refs /\ d.new_refs = c.new_refs /\ d.dead = c.dead
      /\ d.subs = c.subs /\ d.unsubs = c.unsubs /\ d.bound = c.bound
      /\ d.open = c.open /\ d.joined = c.joined /\ d.polled = c.polled
  BY <1>1, <1>2, PollsResult
<1> HIDE DEF d
<1>5. Fits(d, d.dead, SocketsIn(listeners), abandoned)
  BY <1>1, <1>4, PolledElsewhere
<1>6. Polled(d, failed)
  <2>1. c.new_refs = Len(c.refs)
    BY <1>1 DEF Polled
  <2>2. Len(c.refs) \in Nat /\ DOMAIN c.refs = 1..Len(c.refs)
    BY <1>1, TableType
  <2>3. \A i \in DOMAIN c.refs : c.refs[i].pending
    BY <1>1, <2>1, <2>2 DEF Fits, TableFits
  <2> QED
    BY <1>4, <2>3 DEF Polled
<1>7. Listening(c, WantedIn(listeners)) => Listening(d, WantedIn(listeners))
  BY <1>4 DEF Listening
<1>8. initialized
  BY DEF Inv, ThreadStarts
<1> QED
  BY <1>3, <1>4, <1>5, <1>6, <1>7, <1>8 DEF Inv, Stages, c

LEMMA FailStep ==
    ASSUME Inv, ThreadFails
    PROVE  Inv'
<1>1. /\ thread = "starting" /\ thread' = "failed" /\ initialized' = initialized
      /\ context' = context /\ listeners' = listeners /\ moved' = moved
      /\ abandoned' = abandoned /\ failed' = failed
  BY DEF ThreadFails, history
<1>2. initialized /\ thread' \in Stages /\ thread' # "running" /\ thread # "running"
  BY <1>1 DEF Inv, Stages
<1> QED
  BY <1>1, <1>2 DEF Inv

LEMMA CycleStep ==
    ASSUME Inv, Cycle
    PROVE  Inv'
<1> DEFINE c == context
           d == WorkOffQueues(c)
           U == SocketsIn(listeners)
           W == WantedIn(listeners)
<1>1. /\ thread = "running" /\ context' = d /\ failed' = failed \cap context'.open
      /\ initialized' = initialized /\ thread' = thread /\ listeners' = listeners
      /\ moved' = moved /\ abandoned' = abandoned
  BY DEF Cycle
<1>2. ListenersFit(listeners) /\ Fits(c, c.dead, U, abandoned) /\ c.polls /\ U \in Using
  BY <1>1, UsingType DEF Inv
<1> HIDE DEF c
<1>3. WorkedOff(c, d, U, abandoned)
  BY <1>2, WorkOffFits
<1>4. \A r \in W : r.handle \in RefHandles(c)
  BY <1>2, WantedHandles
<1> HIDE DEF d
<1>5. Fits(d, d.dead, U, abandoned) /\ d.polls /\ Polled(d, failed)
  BY <1>1, <1>2, <1>3 DEF WorkedOff, Inv, c
<1>6. Polled(d, failed \cap d.open)
  <2>1. \A i \in DOMAIN d.refs : d.refs[i].handle \in d.open
    BY <1>5 DEF Fits, OpenFit, RefHandles
  <2> QED
    BY <1>5, <2>1 DEF Polled
<1>7. Listening(c, W) => Listening(d, W)
  BY <1>3, <1>4 DEF WorkedOff
<1> QED
  BY <1>1, <1>5, <1>6, <1>7 DEF Inv, c

LEMMA ReadFailsStep ==
    ASSUME Inv, NEW h \in 1..MaxSockets, ReadFails(h)
    PROVE  Inv'
<1> DEFINE c == context
           p == c.polled \ {h}
           d == [c EXCEPT !.polled = p]
<1>1. /\ thread = "running" /\ context' = d /\ failed' = failed \cup {h}
      /\ initialized' = initialized /\ thread' = thread /\ listeners' = listeners
      /\ moved' = moved /\ abandoned' = abandoned
  BY DEF ReadFails
<1>2. /\ c \in Context /\ Fits(c, c.dead, SocketsIn(listeners), abandoned)
      /\ Polled(c, failed)
  BY DEF Inv, Fits
<1> HIDE DEF c
<1>3. p \in SUBSET Handle
  BY <1>2 DEF Context
<1> DEFINE q == p
<1> HIDE DEF q
<1>4. /\ d \in Context /\ d.polled = p /\ d.polls = c.polls
      /\ d.refs = c.refs /\ d.new_refs = c.new_refs /\ d.dead = c.dead
      /\ d.subs = c.subs /\ d.unsubs = c.unsubs /\ d.bound = c.bound
      /\ d.open = c.open /\ d.joined = c.joined
  <2> HIDE DEF p
  <2> QED
    BY <1>2, <1>3 DEF Context
<1> HIDE DEF d
<1>5. Fits(d, d.dead, SocketsIn(listeners), abandoned)
  BY <1>2, <1>4, PolledElsewhere
<1>6. Polled(d, failed \cup {h})
  BY <1>2, <1>4 DEF Polled
<1>7. Listening(c, WantedIn(listeners)) => Listening(d, WantedIn(listeners))
  BY <1>4 DEF Listening
<1> QED
  BY <1>1, <1>4, <1>5, <1>6, <1>7 DEF Inv, c

LEMMA InitializeStep ==
    ASSUME Inv, Initialize
    PROVE  Inv'
<1> DEFINE c == NewContext({})
<1>1. /\ initialized' /\ context' = c /\ abandoned' = {}
      /\ thread' = thread /\ listeners' = listeners /\ moved' = moved
      /\ failed' = failed /\ listeners = << >> /\ thread = "none"
  BY DEF Initialize, Inv
<1>2. {} \in SUBSET Handle
  OBVIOUS
<1>3. /\ ListenersFit(<< >>) /\ Fits(c, c.dead, SocketsIn(<< >>), {})
      /\ \A F : Polled(c, F)
      /\ c.polls = FALSE /\ Listening(c, WantedIn(<< >>))
  BY <1>2, NewContextFits
<1> HIDE DEF c
<1> QED
  BY <1>1, <1>3 DEF Inv, Stages

\* What is open when the library has shut down is what nobody has closed: sockets
\* of the detector, and those that wait for a thread that was never started.
LEMMA LeftOpen ==
    ASSUME Inv, initialized, NEW order \in SetToSeqs(Existing \cap Receivers)
    PROVE  /\ ClosedByDeinit(order).open =
                 (IF Running THEN {} ELSE Handles(context.dead))
                 \cup (IF Detector \notin Existing THEN {}
                       ELSE {listeners[Detector].sockets[ip] : ip \in IpTypes} \ {NoSocket})
           /\ ClosedByDeinit(order).open \in SUBSET Handle
<1> DEFINE L == listeners
           U == SocketsIn(L)
           S == Existing \cap Receivers
           off == FALSE
           c == IF Running THEN CleanupDeadSockets([context EXCEPT !.polls = off]) ELSE context
           D == IF Running THEN {} ELSE Handles(context.dead)
           now == TRUE
           d == RemoveAllSockets(c, order, now)
           M == ListenersWithoutSockets(S)
           V == SocketsIn(M)
<1>1. ListenersFit(L) /\ Fits(context, context.dead, U, {}) /\ U \in Using
  BY UsingType DEF Inv
<1>2. ClosedByDeinit(order) = d
  BY DEF ClosedByDeinit
<1>3. Fits(c, c.dead, U, {}) /\ ~c.polls /\ Handles(c.dead) = D
  <2>1. CASE Running
    <3> DEFINE b == context
               e == [b EXCEPT !.polls = off]
               f == CleanupDeadSockets(e)
    <3>1. b \in Context /\ off \in BOOLEAN /\ Fits(b, b.dead, U, {}) /\ off = FALSE
      BY <1>1 DEF Fits
    <3> HIDE DEF b, off
    <3>2. /\ e \in Context /\ e.polls = off
          /\ e.refs = b.refs /\ e.new_refs = b.new_refs /\ e.dead = b.dead
          /\ e.bound = b.bound /\ e.open = b.open /\ e.polled = b.polled
      BY <3>1, PollsResult
    <3> HIDE DEF e, U
    <3>3. Fits(e, e.dead, U, {})
      BY <3>1, <3>2, PolledElsewhere
    <3>4. Cleaned(e, f, {}, U, {}) /\ f.dead = {}
      BY <1>1, <3>3, CleanupDeadSocketsFits
    <3> HIDE DEF f
    <3>5. Fits(f, f.dead, U, {}) /\ ~f.polls
      BY <3>1, <3>2, <3>4 DEF Cleaned, Keeps
    <3>6. Handles({}) = {}
      BY DEF Handles
    <3>7. c = f
      BY <2>1 DEF f, e, b
    <3> HIDE DEF c
    <3> QED
      BY <2>1, <3>4, <3>5, <3>6, <3>7
  <2>2. CASE ~Running
    <3>1. c = context /\ D = Handles(context.dead)
      BY <2>2
    <3>2. ~context.polls
      BY <2>2 DEF Inv, Running
    <3> HIDE DEF c, D
    <3> QED
      BY <1>1, <3>1, <3>2
  <2> QED
    BY <2>1, <2>2
<1>4. IsFiniteSet(S) /\ S \in SUBSET Existing /\ now \in BOOLEAN /\ now
  BY <1>1, ExistingFinite
<1> HIDE DEF c, now
<1>5. Follows(c, listeners, d, M, {}) /\ d.dead = c.dead
  BY <1>1, <1>3, <1>4, RemoveAllFits
<1> HIDE DEF d
<1>6. Fits(d, d.dead, V, {}) /\ Handles(d.dead) = D /\ d \in Context
  BY <1>3, <1>5 DEF Follows, Fits
<1>7. d.open = RefHandles(d) \cup D
  BY <1>6 DEF Fits, OpenFit
<1>8. \A l \in Listeners, ip \in IpTypes : V[l][ip] =
         IF l = Detector /\ Detector \in Existing THEN listeners[Detector].sockets[ip]
         ELSE NoSocket
  <2>1. /\ DOMAIN M = Existing
        /\ \A l \in Existing :
              M[l].sockets = IF l \in S THEN NoSockets ELSE listeners[l].sockets
    BY <1>1, <1>4, WithoutResult
  <2>2. \A ip \in IpTypes : NoSockets[ip] = NoSocket
    BY DEF NoSockets, Sockets
  <2>3. \A l \in Existing : l \in S <=> l # Detector
    BY <1>1, ReceiveThreadAssumption DEF ListenersFit, Existing, Listeners
  <2> HIDE DEF M, S
  <2> QED
    BY <2>1, <2>2, <2>3 DEF SocketsIn
<1>9. Detector \in Listeners
  BY DEF Listeners
<1> HIDE DEF V, M
<1>10. ASSUME NEW i \in DOMAIN d.refs
       PROVE  /\ Detector \in Existing
              /\ d.refs[i].handle = listeners[Detector].sockets[d.refs[i].ip]
  <2> DEFINE ip == d.refs[i].ip
             h == d.refs[i].handle
  <2>1. ip \in IpTypes /\ h # NoSocket /\ d.refs[i].refcount \in 1..MaxSubs
    BY <1>6, RefType
  <2>2. Cardinality(UsersOf(V, ip, h)) = d.refs[i].refcount
    BY <1>6 DEF Fits, TableFits
  <2>3. UsersOf(V, ip, h) # {}
    <3>1. d.refs[i].refcount # 0
      BY <2>1, ReceiveSocketsAssumption
    <3> QED
      BY <2>2, <3>1, FS_EmptySet
  <2>4. PICK l \in Listeners : V[l][ip] = h
    BY <2>3 DEF UsersOf
  <2> QED
    BY <1>8, <2>1, <2>4
<1>11. ASSUME Detector \in Existing, NEW ip \in IpTypes,
              listeners[Detector].sockets[ip] # NoSocket
       PROVE  listeners[Detector].sockets[ip] \in RefHandles(d)
  <2>1. V[Detector][ip] = listeners[Detector].sockets[ip]
    BY <1>8, <1>9, <1>11
  <2>2. \E i \in DOMAIN d.refs : d.refs[i].handle = V[Detector][ip] /\ d.refs[i].ip = ip
    BY <1>6, <1>9, <1>11, <2>1 DEF Fits, TableFits
  <2> QED
    BY <2>1, <2>2 DEF RefHandles
<1>12. \A i \in DOMAIN d.refs : d.refs[i].ip \in IpTypes /\ d.refs[i].handle # NoSocket
  BY <1>6, RefType
<1>13. RefHandles(d) = IF Detector \notin Existing THEN {}
          ELSE {listeners[Detector].sockets[ip] : ip \in IpTypes} \ {NoSocket}
  <2>1. CASE Detector \notin Existing
    BY <1>10, <2>1 DEF RefHandles
  <2>2. CASE Detector \in Existing
    <3>1. \A i \in DOMAIN d.refs : d.refs[i].handle \in
             {listeners[Detector].sockets[ip] : ip \in IpTypes} \ {NoSocket}
      BY <1>10, <1>12
    <3>2. \A h \in {listeners[Detector].sockets[ip] : ip \in IpTypes} \ {NoSocket} :
             h \in RefHandles(d)
      BY <1>11, <2>2
    <3> QED
      BY <2>2, <3>1, <3>2 DEF RefHandles
  <2> QED
    BY <2>1, <2>2
<1>14. d.open \in SUBSET Handle
  BY <1>6 DEF Context
<1> QED
  BY <1>2, <1>7, <1>13, <1>14

LEMMA DeinitializeStep ==
    ASSUME Inv, Deinitialize
    PROVE  Inv'
<1>1. PICK order \in SetToSeqs(Existing \cap Receivers) :
         context' = NewContext(ClosedByDeinit(order).open)
  BY DEF Deinitialize
<1> DEFINE A == ClosedByDeinit(order).open
           c == NewContext(A)
<1>2. initialized /\ abandoned = {}
  BY DEF Deinitialize, Inv
<1>3. A \in SUBSET Handle /\ abandoned' = A
  <2>1. abandoned' = abandoned
          \cup (IF Running THEN {} ELSE Handles(context.dead))
          \cup (IF Detector \notin Existing THEN {}
                ELSE {listeners[Detector].sockets[ip] : ip \in IpTypes} \ {NoSocket})
    BY DEF Deinitialize
  <2>2. /\ A = (IF Running THEN {} ELSE Handles(context.dead))
               \cup (IF Detector \notin Existing THEN {}
                     ELSE {listeners[Detector].sockets[ip] : ip \in IpTypes} \ {NoSocket})
        /\ A \in SUBSET Handle
    BY <1>2, LeftOpen
  <2> HIDE DEF A
  <2> QED
    BY <1>2, <2>1, <2>2
<1>4. /\ initialized' = FALSE /\ context' = c /\ listeners' = << >> /\ thread' = "none"
      /\ failed' = {}
  BY <1>1 DEF Deinitialize
<1> HIDE DEF A
<1>5. /\ ListenersFit(<< >>) /\ Fits(c, c.dead, SocketsIn(<< >>), A)
      /\ \A F : Polled(c, F)
      /\ c.polls = FALSE /\ Listening(c, WantedIn(<< >>))
  BY <1>3, NewContextFits
<1> HIDE DEF c
<1> QED
  BY <1>3, <1>4, <1>5 DEF Inv, Stages

LEMMA InvNext == Inv /\ [Next]_vars => Inv'
<1> SUFFICES ASSUME Inv, [Next]_vars PROVE Inv'
  OBVIOUS
<1>1. CASE UNCHANGED vars
  BY <1>1 DEF Inv, vars, history
<1>2. ASSUME NEW l \in Listeners, Destroy(l) PROVE Inv'
  BY <1>2, DestroyStep
<1>3. ASSUME NEW r \in Receivers, NEW u \in Universes, NEW N \in NetintLists,
             CreateReceiver(r, u, N)
      PROVE  Inv'
  BY <1>3, CreateReceiverStep
<1>4. ASSUME NEW N \in NetintLists, CreateDetector(N) PROVE Inv'
  BY <1>4, CreateDetectorStep
<1>5. ASSUME NEW N \in NetintLists, ResetNetworking(Existing \cap Receivers, N) PROVE Inv'
  <2>1. Existing \cap Receivers \in SUBSET Existing
    OBVIOUS
  <2> QED
    BY <1>5, <2>1, ResetStep
<1>6. ASSUME NEW N \in NetintLists, ResetNetworking(Existing \cap {Detector}, N) PROVE Inv'
  <2>1. Existing \cap {Detector} \in SUBSET Existing
    OBVIOUS
  <2> QED
    BY <1>6, <2>1, ResetStep
<1>7. ASSUME NEW r \in Receivers, NEW u \in Universes, ChangeUniverse(r, u) PROVE Inv'
  BY <1>7, ChangeUniverseStep
<1>8. ASSUME NEW h \in 1..MaxSockets, ReadFails(h) PROVE Inv'
  BY <1>8, ReadFailsStep
<1> QED
  BY <1>1, <1>2, <1>3, <1>4, <1>5, <1>6, <1>7, <1>8, StartStep, FailStep, CycleStep,
     InitializeStep, DeinitializeStep DEF Next

LEMMA InvAlways == Spec => []Inv
<1>1. Init => Inv
  BY InvInit
<1>2. Inv /\ [Next]_vars => Inv'
  BY InvNext
<1> QED
  BY <1>1, <1>2, PTL DEF Spec

-----------------------------------------------------------------------------
(***************************************************************************)
(* The theorems.                                                           *)
(***************************************************************************)
LEMMA RefsOfTable ==
    ASSUME Inv
    PROVE  /\ Refs = {context.refs[i] : i \in DOMAIN context.refs}
           /\ Handles(Refs) = RefHandles(context)
           /\ context \in Context
           /\ \A ref \in Refs : ref \in SocketRef /\ ref.handle # NoSocket
<1>1. Refs = {context.refs[i] : i \in DOMAIN context.refs}
  BY DEF Refs, Range
<1>2. context \in Context
  BY DEF Inv, Fits
<1>3. \A i \in DOMAIN context.refs :
         context.refs[i] \in SocketRef /\ context.refs[i].handle # NoSocket
  BY <1>2, RefType
<1>4. Handles(Refs) = RefHandles(context)
  BY <1>1 DEF Handles, RefHandles
<1> QED
  BY <1>1, <1>2, <1>3, <1>4

\* The table of references, the listeners and the system agree on the sockets, for
\* any number of listeners, interfaces, sockets and subscriptions per socket: in
\* every order of creations, destructions, resets and cycles of the thread no
\* socket leaks, none is closed in use, and every reference is counted.
THEOREM ReceiveThreadSocketsAccounted == Spec => []SocketsAreAccounted
<1>1. Inv => SocketsAreAccounted
  <2> SUFFICES ASSUME Inv PROVE SocketsAreAccounted
    OBVIOUS
  <2>1. /\ Refs = {context.refs[i] : i \in DOMAIN context.refs}
        /\ Handles(Refs) = RefHandles(context)
        /\ context \in Context
        /\ \A ref \in Refs : ref \in SocketRef /\ ref.handle # NoSocket
    BY RefsOfTable
  <2>2. /\ TableFits(context, SocketsIn(listeners))
        /\ OpenFit(context, context.dead, abandoned)
        /\ ListenersFit(listeners)
    BY DEF Inv, Fits
  <2>3. TypeOK
    <3>1. thread \in {"none", "starting", "running", "failed"}
      BY DEF Inv, Stages
    <3>2. DOMAIN listeners \subseteq Listeners
      BY <2>2 DEF ListenersFit
    <3>3. \A ref \in Refs : ref.handle \in 1..MaxSockets /\ ref.refcount \in 1..MaxSubs
      BY <2>1 DEF SocketRef, Handle
    <3>4. /\ BagToSet(context.subs) \cup BagToSet(context.unsubs) \subseteq Request
          /\ context.joined \subseteq Request
      BY <2>1 DEF Context, Bag, BagToSet
    <3>5. context.polled \subseteq context.open
      BY <2>2 DEF OpenFit
    <3> QED
      BY <3>1, <3>2, <3>3, <3>4, <3>5 DEF TypeOK
  <2>4. PendingAreLast
    BY <2>2 DEF PendingAreLast, TableFits
  <2>5. RefsAreCounted
    <3> DEFINE U == SocketsIn(listeners)
    <3>1. \A l \in Listeners : U[l] = IF l \in Existing THEN listeners[l].sockets ELSE NoSockets
      BY DEF SocketsIn, Existing
    <3>2. \A ip \in IpTypes : NoSockets[ip] = NoSocket
      BY DEF NoSockets, Sockets
    <3>3. Existing \subseteq Listeners
      BY <2>2 DEF ListenersFit, Existing
    <3> HIDE DEF U
    <3>4. ASSUME NEW ref \in Refs
          PROVE  ref.refcount =
                    Cardinality({l \in Existing : listeners[l].sockets[ref.ip] = ref.handle})
      <4>1. PICK i \in DOMAIN context.refs : ref = context.refs[i]
        BY <2>1
      <4>2. ref.refcount = Cardinality(UsersOf(U, ref.ip, ref.handle))
        BY <2>2, <4>1 DEF TableFits, U
      <4>3. ref.ip \in IpTypes /\ ref.handle # NoSocket
        BY <2>1 DEF SocketRef
      <4>4. UsersOf(U, ref.ip, ref.handle)
              = {l \in Existing : listeners[l].sockets[ref.ip] = ref.handle}
        BY <3>1, <3>2, <3>3, <4>3 DEF UsersOf
      <4> QED
        BY <4>2, <4>4
    <3>5. ASSUME NEW l \in Existing, NEW ip \in IpTypes, listeners[l].sockets[ip] # NoSocket
          PROVE  \E ref \in Refs : ref.handle = listeners[l].sockets[ip] /\ ref.ip = ip
      <4>1. l \in Listeners /\ U[l][ip] = listeners[l].sockets[ip]
        BY <3>1, <3>3
      <4>2. PICK i \in DOMAIN context.refs :
               context.refs[i].handle = U[l][ip] /\ context.refs[i].ip = ip
        BY <2>2, <3>5, <4>1 DEF TableFits, U
      <4> QED
        BY <2>1, <4>1, <4>2
    <3> QED
      BY <3>4, <3>5 DEF RefsAreCounted
  <2>6. OpenAreAccounted
    BY <2>1, <2>2 DEF OpenAreAccounted, OpenFit, TableFits
  <2> QED
    BY <2>3, <2>4, <2>5, <2>6 DEF SocketsAreAccounted
<1> QED
  BY <1>1, InvAlways, PTL

\* With LimitBind one socket of each ip type is bound as long as there are any,
\* except while the one that was waits to be closed, and the thread polls it.
THEOREM ReceiveThreadBoundPolled == Spec => []BoundIsPolled
<1>1. Inv => BoundIsPolled
  <2> SUFFICES ASSUME Inv PROVE BoundIsPolled
    OBVIOUS
  <2>1. /\ Refs = {context.refs[i] : i \in DOMAIN context.refs}
        /\ context \in Context
    BY RefsOfTable
  <2>2. OneIsBound
    <3> SUFFICES ASSUME LimitBind, NEW ip \in IpTypes
                 PROVE  LET ofType == {ref \in Refs : ref.ip = ip}
                            bound == {ref \in ofType : ref.bound}
                        IN  /\ Cardinality(bound) <= 1
                            /\ context.bound[ip] <=> bound # {}
                            /\ \/ ofType = {} \/ bound # {}
                               \/ \E s \in context.dead : s.ip = ip /\ s.bound
      BY DEF OneIsBound
    <3> DEFINE ofType == {ref \in Refs : ref.ip = ip}
               bound == {ref \in ofType : ref.bound}
    <3>1. /\ \A i, j \in DOMAIN context.refs :
                context.refs[i].bound /\ context.refs[j].bound
                /\ context.refs[i].ip = context.refs[j].ip => i = j
          /\ \A v \in IpTypes : context.bound[v] <=>
                \E i \in DOMAIN context.refs : context.refs[i].ip = v /\ context.refs[i].bound
          /\ \A i \in DOMAIN context.refs : context.bound[context.refs[i].ip]
                \/ \E s \in context.dead : s.ip = context.refs[i].ip /\ s.bound
      BY DEF Inv, Fits, BoundFit
    <3>2. \A x, y \in bound : x = y
      BY <2>1, <3>1
    <3>3. context.bound[ip] <=> bound # {}
      BY <2>1, <3>1
    <3>4. \/ ofType = {} \/ bound # {}
          \/ \E s \in context.dead : s.ip = ip /\ s.bound
      <4> SUFFICES ASSUME ofType # {}, bound = {}
                   PROVE  \E s \in context.dead : s.ip = ip /\ s.bound
        OBVIOUS
      <4>1. PICK i \in DOMAIN context.refs : context.refs[i].ip = ip
        BY <2>1
      <4> HIDE DEF ofType, bound
      <4> QED
        BY <3>1, <3>3, <4>1
    <3> HIDE DEF ofType, bound
    <3>5. Cardinality(bound) <= 1
      <4>1. CASE bound = {}
        <5>1. Cardinality(bound) = 0
          BY <4>1, FS_EmptySet
        <5> QED
          BY <5>1
      <4>2. CASE bound # {}
        <5>1. PICK x : x \in bound
          BY <4>2
        <5>2. bound = {x}
          BY <3>2, <5>1
        <5>3. Cardinality({x}) = 1
          BY FS_Singleton
        <5>4. Cardinality(bound) = 1
          BY <5>2, <5>3
        <5> QED
          BY <5>4
      <4> QED
        BY <4>1, <4>2
    <3> QED
      BY <3>3, <3>4, <3>5 DEF ofType, bound
  <2>3. BoundArePolled
    BY <2>1 DEF Inv, Polled, BoundArePolled
  <2> QED
    BY <2>2, <2>3 DEF BoundIsPolled
<1> QED
  BY <1>1, InvAlways, PTL

\* As long as no universe has been changed, the sockets in use are subscribed to
\* what their listeners ask for and to nothing else, once the thread has worked off
\* its queues.
THEOREM ReceiveThreadListens == Spec => []ListenersListen
<1>1. Inv => ListenersListen
  <2> SUFFICES ASSUME Inv, ~moved
               PROVE  {r \in WillBeJoined : r.handle \in Handles(Refs)}
                        = UNION {Wanted(l) : l \in Existing}
    BY DEF ListenersListen
  <2> DEFINE W == WantedIn(listeners)
  <2>1. Handles(Refs) = RefHandles(context)
    BY RefsOfTable
  <2>2. WillBeJoined = W
    BY DEF Inv, Listening, WillBeJoined, BagToSet
  <2>3. \A r \in W : r.handle \in RefHandles(context)
    BY WantedHandles DEF Inv
  <2>4. ASSUME NEW l \in Existing PROVE Wanted(l) = WantedOf(listeners[l])
    <3> DEFINE e == listeners[l]
               R(v) == Requests(e.sockets[v], e.universe, v, e.netints)
    <3>1. Wanted(l) = UNION {R(ip) : ip \in {v \in IpTypes : e.sockets[v] # NoSocket}}
      BY DEF Wanted
    <3>2. WantedOf(e) = (IF e.sockets[4] = NoSocket THEN {} ELSE R(4))
                        \cup (IF e.sockets[6] = NoSocket THEN {} ELSE R(6))
      BY DEF WantedOf, AllAsked, Asked
    <3> HIDE DEF R, e
    <3>3. Wanted(l) = WantedOf(e)
      BY <3>1, <3>2 DEF IpTypes
    <3> QED
      BY <3>3 DEF e
  <2>5. UNION {Wanted(l) : l \in Existing} = W
    BY <2>4 DEF WantedIn, Existing
  <2> HIDE DEF W
  <2> QED
    BY <2>1, <2>2, <2>3, <2>5
<1> QED
  BY <1>1, InvAlways, PTL
=============================================================================
