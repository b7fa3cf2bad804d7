---------------------------- MODULE LibraryProofs ----------------------------
(***************************************************************************)
(* Theorems about Library, for any number of threads of the application:   *)
(* the counts of the features against the inits and deinits asked for, the *)
(* stages match the counts between calls and are up wherever their locks   *)
(* and data are used, the locks are nested in one order, which excludes    *)
(* deadlocks, and shared data is used by one thread at a time.             *)
(***************************************************************************)
EXTENDS Library, SequenceTheorems, TLAPS

CallTypes == [kind : {"none", "init", "failed", "deinit"},
              features : SUBSET Features, part : SUBSET Features]

\* The inductive invariant: the part of the features that a call brings up or
\* takes down is one of those it was asked for, and a deinit takes down what
\* was initialized once, by the counts that are still there when it returns.
CountsOK ==
    /\ call \in CallTypes
    /\ call.part \subseteq call.features
    /\ call.kind = "deinit" => call.part = ToDeinit(call.features)
    /\ count \in [Features -> Nat]
    /\ balance \in [Features -> Nat]
    /\ InitsAreBalanced

\* The steps that do not touch the counts.
LEMMA OtherSteps ==
  ASSUME CountsOK, UNCHANGED <<count, balance>>,
         call' = call \/ call' = [call EXCEPT !.kind = "failed"]
  PROVE  CountsOK'
<1>1. CASE call' = call
  BY <1>1 DEF CountsOK, InitsAreBalanced, ToDeinit
<1>2. CASE call' = [call EXCEPT !.kind = "failed"]
  <2>1. /\ call' \in CallTypes /\ call'.part = call.part /\ call'.features = call.features
        /\ call'.kind = "failed"
    BY <1>2 DEF CountsOK, CallTypes
  <2> QED BY <2>1 DEF CountsOK, InitsAreBalanced
<1> QED BY <1>1, <1>2

\* A call that begins is about a part of its features.
LEMMA CallBegins ==
  ASSUME CountsOK, NEW t \in Callers, NEW fs \in SUBSET Features,
         InitFeatures(t, fs) \/ DeinitFeatures(t, fs)
  PROVE  CountsOK'
<1>1. UNCHANGED <<count, balance>>
  BY DEF InitFeatures, DeinitFeatures
<1>2. \/ call' = [kind |-> "init", features |-> fs, part |-> ToInit(fs)]
      \/ call' = [kind |-> "deinit", features |-> fs, part |-> ToDeinit(fs)]
  BY DEF InitFeatures, DeinitFeatures
<1>3. ToInit(fs) \subseteq fs /\ ToDeinit(fs) \subseteq fs
  BY DEF ToInit, ToDeinit
<1>4. call' \in CallTypes /\ call'.part \subseteq call'.features
  BY <1>2, <1>3 DEF CallTypes
<1>5. call'.kind = "deinit" =>
        call'.part = {f \in call'.features : count'[f] = 1}
  BY <1>1, <1>2 DEF ToDeinit
<1>6. InitsAreBalanced'
  BY <1>1 DEF CountsOK, InitsAreBalanced
<1> QED BY <1>1, <1>4, <1>5, <1>6 DEF CountsOK, ToDeinit

\* The counts, against the balances of inits and deinits.
Balanced(counts, balances) ==
    /\ counts \in [Features -> Nat] /\ balances \in [Features -> Nat]
    /\ \A f \in Features : balances[f] <= counts[f]
    /\ counts["merger"] = balances["merger"]
    /\ counts["net"] < 2 => counts["net"] = balances["net"]

LEMMA RaisedCounts ==
  ASSUME NEW counts, NEW balances, Balanced(counts, balances), NEW fs
  PROVE  Balanced(Raised(counts, fs), Raised(balances, fs))
<1>1. /\ Raised(counts, fs) \in [Features -> Nat]
      /\ Raised(balances, fs) \in [Features -> Nat]
  BY DEF Balanced, Raised
<1>2. \A f \in Features :
         /\ Raised(counts, fs)[f] = IF f \in fs THEN counts[f] + 1 ELSE counts[f]
         /\ Raised(balances, fs)[f] = IF f \in fs THEN balances[f] + 1 ELSE balances[f]
  BY DEF Raised
<1> QED BY <1>1, <1>2 DEF Balanced, Features

\* A counter of the network features is lowered from 1 only, as its balance is;
\* from 2 on only the balance is lowered.
LEMMA LoweredCounts ==
  ASSUME NEW counts, NEW balances, Balanced(counts, balances), NEW fs, NEW gs,
         "merger" \in gs <=> "merger" \in fs,
         "net" \in gs <=> "net" \in fs /\ counts["net"] = 1
  PROVE  Balanced(Lowered(counts, gs), Lowered(balances, fs))
<1>1. /\ Lowered(counts, gs) \in [Features -> Nat]
      /\ Lowered(balances, fs) \in [Features -> Nat]
  BY DEF Balanced, Lowered
<1>2. \A f \in Features :
         /\ Lowered(counts, gs)[f] =
              IF f \in gs /\ counts[f] > 0 THEN counts[f] - 1 ELSE counts[f]
         /\ Lowered(balances, fs)[f] =
              IF f \in fs /\ balances[f] > 0 THEN balances[f] - 1 ELSE balances[f]
  BY DEF Lowered
<1> QED BY <1>1, <1>2 DEF Balanced, Features

\* The return of a call counts what it was asked for; a deinit counts nothing
\* down that it was not asked for.
LEMMA ReturnCounts ==
  ASSUME CountsOK, NEW t \in Callers, CallReturns(t)
  PROVE  CountsOK'
<1>1. /\ call' \in CallTypes /\ call'.part \subseteq call'.features
      /\ call'.kind # "deinit"
  BY DEF CallReturns, NoCall, CallTypes
<1>2. Balanced(count, balance)
  BY DEF CountsOK, InitsAreBalanced, Balanced
<1>3. Balanced(count', balance')
  <2>1. CASE call.kind = "init" /\ count' = Raised(count, Counted)
             /\ balance' = Raised(balance, call.features)
    BY <1>2, <2>1, RaisedCounts DEF Counted
  <2>2. CASE call.kind = "deinit" /\ count' = Lowered(count, Uncounted)
             /\ balance' = Lowered(balance, call.features)
    <3>1. /\ "merger" \in Uncounted <=> "merger" \in call.features
          /\ "net" \in Uncounted <=> "net" \in call.features /\ count["net"] = 1
      BY <2>2 DEF CountsOK, Uncounted, ToDeinit
    <3> QED BY <1>2, <2>2, <3>1, LoweredCounts
  <2>3. CASE UNCHANGED <<count, balance>>
    BY <1>2, <2>3
  <2> QED BY <2>1, <2>2, <2>3 DEF CallReturns
<1> QED BY <1>1, <1>3 DEF CountsOK, InitsAreBalanced, Balanced

LEMMA CountsInit == Init => CountsOK
  BY DEF Init, CountsOK, NoCall, CallTypes, InitsAreBalanced, Features

LEMMA CountsNext == CountsOK /\ [Next]_vars => CountsOK'
<1> SUFFICES ASSUME CountsOK, [Next]_vars PROVE CountsOK'
  OBVIOUS
<1>1. CASE UNCHANGED vars
  BY <1>1, OtherSteps DEF vars
<1>2. CASE \E t \in Threads : ThreadStep(t)
  BY <1>2, OtherSteps
  DEF ThreadStep, TakeLock, ReleaseLock, UseData, CallbackReturns, CallbackCalling, libraryVars
<1>3. ASSUME NEW t \in Callers, CallerStep(t) PROVE CountsOK'
  <2>1. CASE \E fs \in (SUBSET Features) \ {{}} : InitFeatures(t, fs) \/ DeinitFeatures(t, fs)
    BY <2>1, CallBegins
  <2>2. CASE StageUp(t) \/ StageFails(t) \/ StageDown(t)
    BY <2>2, OtherSteps DEF StageUp, StageFails, StageDown
  <2>3. CASE CallReturns(t)
    BY <2>3, ReturnCounts
  <2>4. CASE StartThread(t) \/ SignalThread(t) \/ JoinThread(t) \/ CallApi(t)
    BY <2>4, OtherSteps DEF StartThread, SignalThread, JoinThread, CallApi, libraryVars
  <2> QED BY <1>3, <2>1, <2>2, <2>3, <2>4 DEF CallerStep
<1>4. CASE ReceiveThread
  BY <1>4, OtherSteps
  DEF ReceiveThread, BeginReceiving, ReceiveLoop, ChooseSteps, LeaveReceiving, EndThread,
      libraryVars
<1>5. CASE SourceThread
  BY <1>5, OtherSteps DEF SourceThread, SourceLoop, LeaveSources, EndThread, libraryVars
<1> QED BY <1>1, <1>2, <1>3, <1>4, <1>5 DEF Next

\* No feature goes down before as many deinits as inits, the merger does with
\* them, and the network features do unless they were ever initialized while
\* they were up (common.c, sacn_init_features_with_cb, sacn_deinit_features),
\* for any number of inits and threads.
THEOREM LibraryInitsAreBalanced == Spec => []InitsAreBalanced
<1>1. CountsOK => InitsAreBalanced
  BY DEF CountsOK
<1> QED BY CountsInit, CountsNext, <1>1, PTL DEF Spec

--------------------------------------------------------------------------------

\* A thread that others wait for while the locks are in order waits for a lock
\* itself, if it waits at all.
LEMMA AwaitedWaitForLocks ==
  ASSUME LocksAreOrdered, NEW t \in Threads, NEW u \in Threads,
         u \in WaitsFor(t), WaitsFor(u) # {}
  PROVE  At(u, "lock")
<1>1. SUFFICES ASSUME At(u, "join") PROVE FALSE
  BY <1>1 DEF WaitsFor
<1>2. u \in Callers /\ Holds(u) = {}
  BY <1>1 DEF LocksAreOrdered
<1>3. CASE At(t, "lock")
  <2>1. On(t) \in Locks /\ held[On(t)] = u
    BY <1>3 DEF LocksAreOrdered, TypeOK, WaitsFor
  <2> QED BY <1>2, <2>1 DEF Holds
<1>4. CASE ~At(t, "lock")
  <2>1. u \in alive
    BY <1>4 DEF WaitsFor
  <2> QED BY <1>2, <2>1, LibraryAssumption DEF LocksAreOrdered, TypeOK
<1> QED BY <1>3, <1>4

\* The lock that a thread waits for is above the one that others want of it.
LEMMA AwaitedWaitHigher ==
  ASSUME LocksAreOrdered, NEW t \in Threads, NEW u \in Threads,
         u \in WaitsFor(t), At(t, "lock"), At(u, "lock")
  PROVE  /\ On(t) \in Locks /\ On(u) \in Locks
         /\ Rank[On(t)] < Rank[On(u)]
<1>1. On(t) \in Locks /\ On(u) \in Locks
  BY DEF LocksAreOrdered, TypeOK
<1>2. On(t) \in Holds(u)
  BY <1>1 DEF WaitsFor, Holds
<1> QED BY <1>1, <1>2 DEF LocksAreOrdered

LEMMA RankIsSmall == \A m \in Locks : Rank[m] \in 1..3
  BY DEF Rank, Locks

\* The order of the locks (receiver.c, common.c) excludes that threads wait for
\* one another, for any number of threads of the application.
THEOREM OrderExcludesCycles ==
  ASSUME LocksAreOrdered
  PROVE  NoWaitCycle
<1> SUFFICES ASSUME NEW waiting \in SUBSET Threads, waiting # {},
                    \A t \in waiting : WaitsFor(t) \cap waiting # {}
             PROVE  FALSE
  BY DEF NoWaitCycle
<1>1. ASSUME NEW t \in waiting
      PROVE  \E u \in waiting : u \in WaitsFor(t) /\ At(u, "lock")
  BY <1>1, AwaitedWaitForLocks
<1>2. PICK a \in waiting : At(a, "lock")
  BY <1>1
<1>3. PICK b \in waiting : b \in WaitsFor(a) /\ At(b, "lock")
  BY <1>1
<1>4. PICK c \in waiting : c \in WaitsFor(b) /\ At(c, "lock")
  BY <1>1
<1>5. PICK d \in waiting : d \in WaitsFor(c) /\ At(d, "lock")
  BY <1>1
<1>6. /\ On(a) \in Locks /\ On(b) \in Locks /\ On(c) \in Locks /\ On(d) \in Locks
      /\ Rank[On(a)] < Rank[On(b)] /\ Rank[On(b)] < Rank[On(c)] /\ Rank[On(c)] < Rank[On(d)]
  BY <1>2, <1>3, <1>4, <1>5, AwaitedWaitHigher
<1> QED BY <1>6, RankIsSmall

--------------------------------------------------------------------------------

(***************************************************************************)
(* What a script does, whoever runs it.  A position is what a thread knows *)
(* between two steps of its script: the locks it holds, the stages it may  *)
(* rely on, the threads of the library it has asked to end or seen ended,  *)
(* and whether its script is over.  Fits says which steps a thread may     *)
(* take at a position, and where they lead.                                *)
(***************************************************************************)
Operations == {"lock", "unlock", "use", "callback", "start", "signal", "join", "begin",
               "choose", "leave", "end", "up", "down", "return"}
Names == Locks \cup Stages \cup LibraryThreads
            \cup {"receivers", "sources", "mergers", "application", "packet"}
Steps == [op : Operations, on : Names]

Positions == [locks : SUBSET Locks, up : SUBSET Stages, asked : SUBSET LibraryThreads,
              ended : SUBSET LibraryThreads, over : BOOLEAN]

Place(locks, stages, asked, ended) ==
    [locks |-> locks, up |-> stages, asked |-> asked, ended |-> ended, over |-> FALSE]

\* A thread runs for the library, for a call on a source or receiver ("none":
\* no init or deinit is in progress), or for an init or deinit.
CallKinds == {"init", "failed", "deinit"}
Roles == LibraryThreads \cup {"none"} \cup CallKinds
Role(t) == IF t \in LibraryThreads THEN t ELSE call.kind

NetStages == ToSet(StagesOf["net"])

\* The stages that a thread of the library relies on, the lock of each thread,
\* and the stages a stage builds on, for its end.
UsedBy == [recv |-> {"receiver_mutex", "source_mutex", "receiver_mem", "source_mem",
                     "merge_receiver", "source_detector_state", "receiver_state"},
           tick |-> {"source_mutex", "source_mem"}]
LockOf == [recv |-> "receiver", tick |-> "source"]
Needs(stage) ==
    CASE stage = "source_state" -> {"source_mutex", "source_mem"}
      [] stage \in {"receiver_state", "merge_receiver_mem"} -> {"receiver_mutex", "receiver_mem"}
      [] stage = "source_mem" -> {"source_mutex"}
      [] stage = "source_detector_mem" -> {"receiver_mem"}
      [] OTHER -> {}
Grounded(stages) == \A stage \in stages : Needs(stage) \subseteq stages

Below(g, rank) == \A m \in g.locks : Rank[m] < rank

\* A callback of the receive thread has the merger's stage to rely on until it
\* takes that lock, which is the next thing it does then.
FitsLock(role, s, g, h) ==
    /\ s.op = "lock" /\ s.on \in Locks /\ Below(g, Rank[s.on])
    /\ StageOf[s.on] \in g.up
    /\ role = "tick" => s.on = "source"
    /\ h = [g EXCEPT !.locks = g.locks \cup {s.on},
                     !.up = IF role \in LibraryThreads THEN g.up \ {"dmx_merger"} ELSE g.up]
FitsUnlock(role, s, g, h) ==
    /\ s.op = "unlock" /\ s.on \in g.locks
    /\ h = [g EXCEPT !.locks = g.locks \ {s.on}]
FitsUse(role, s, g, h) ==
    /\ s.op = "use" /\ h = g
    /\ \/ /\ s.on = "receivers" /\ role # "tick" /\ "receiver_mem" \in g.up
          /\ "receiver" \in g.locks \/ (role \in CallKinds /\ "recv" \in g.ended)
       \/ s.on = "sources" /\ "source_mem" \in g.up /\ "source" \in g.locks
       \/ s.on = "mergers"
FitsCallback(role, s, g, h) ==
    s.op = "callback" /\ role = "recv" /\ Below(g, 3) /\ h = g
FitsStart(role, s, g, h) ==
    /\ s.op = "start" /\ role = "none" /\ s.on \in LibraryThreads /\ h = g
    /\ UsedBy[s.on] \subseteq g.up /\ g.locks = {LockOf[s.on]}
FitsSignal(role, s, g, h) ==
    /\ s.op = "signal" /\ role \in CallKinds /\ s.on \in LibraryThreads
    /\ g.locks = {LockOf[s.on]} /\ h = [g EXCEPT !.asked = {s.on}]
FitsJoin(role, s, g, h) ==
    /\ s.op = "join" /\ role \in CallKinds /\ g.locks = {} /\ g.asked = {s.on}
    /\ h = [g EXCEPT !.asked = {}, !.ended = g.ended \cup {s.on}]
FitsUp(role, s, g, h) ==
    /\ s.op = "up" /\ role = "init" /\ g.locks = {}
    /\ s.on \in Stages \ g.up /\ Needs(s.on) \subseteq g.up
    /\ s.on \in NetStages => g.ended = LibraryThreads
    /\ h = [g EXCEPT !.up = g.up \cup {s.on}]
FitsDown(role, s, g, h) ==
    /\ s.op = "down" /\ role \in {"failed", "deinit"} /\ g.locks = {}
    /\ \A l \in LibraryThreads : s.on \in UsedBy[l] => l \in g.ended
    /\ h = [g EXCEPT !.up = g.up \ {s.on}]
FitsReturn(role, s, g, h) ==
    /\ s.op = "return" /\ role \in CallKinds /\ g.locks = {}
    /\ h = [g EXCEPT !.over = TRUE]
FitsBegin(role, s, g, h) ==
    /\ s.op = "begin" /\ role = "recv" /\ g.locks = {}
    /\ h = [g EXCEPT !.over = TRUE]
FitsChoose(role, s, g, h) ==
    /\ s.op = "choose" /\ role = "recv" /\ s.on \in {"packet", "tick"} /\ g.locks = {}
    /\ h = g
FitsLeave(role, s, g, h) ==
    /\ s.op = "leave" /\ role \in LibraryThreads /\ g.locks = {LockOf[role]} /\ h = g
    /\ role = "recv" => g.asked = {"recv"}
FitsEnd(role, s, g, h) ==
    /\ s.op = "end" /\ role \in LibraryThreads /\ g.locks = {}
    /\ h = [g EXCEPT !.over = TRUE]

Fits(role, s, g, h) ==
    /\ ~g.over
    /\ role \in LibraryThreads /\ "dmx_merger" \in g.up => s = Lock("merger")
    /\ role \in CallKinds /\ g.asked # {} => s.op \in {"unlock", "join"}
    /\ \/ FitsLock(role, s, g, h)
       \/ FitsUnlock(role, s, g, h)
       \/ FitsUse(role, s, g, h)
       \/ FitsCallback(role, s, g, h)
       \/ FitsStart(role, s, g, h)
       \/ FitsSignal(role, s, g, h)
       \/ FitsJoin(role, s, g, h)
       \/ FitsUp(role, s, g, h)
       \/ FitsDown(role, s, g, h)
       \/ FitsReturn(role, s, g, h)
       \/ FitsBegin(role, s, g, h)
       \/ FitsChoose(role, s, g, h)
       \/ FitsLeave(role, s, g, h)
       \/ FitsEnd(role, s, g, h)

\* The steps of a script fit one after the other, from g to r.
Leads(role, g, s, r) ==
    \E p \in [0..Len(s) -> Positions] :
        /\ p[0] = g /\ p[Len(s)] = r
        /\ \A i \in 1..Len(s) : Fits(role, s[i], p[i - 1], p[i])

(***************************************************************************)
(* The inductive invariant: each thread is at a position from which the    *)
(* rest of its script leads to a goal, and what it knows is so.            *)
(***************************************************************************)
Whole(f) == ToSet(StagesOf[f])
StagesFor(fs) == UNION {Whole(f) : f \in fs}
Kept == {f \in Features : Initialized(f)}

\* The features that are initialized when the call in progress returns.
Target == CASE call.kind = "init" -> Kept \cup call.part
            [] call.kind = "deinit" -> Kept \ call.part
            [] OTHER -> Kept

\* The last step of a call that starts a thread releases the lock it holds.
StartsRelease(s) ==
    \A i \in 1..Len(s) :
        s[i].op = "start" => s[i].on \in LibraryThreads /\ s[Len(s)] = Unlock(LockOf[s[i].on])

LibraryTypes ==
    /\ up \subseteq Stages /\ mine \subseteq Stages
    /\ call.kind = "none" => call = NoCall
    /\ held \in [Locks -> Threads \cup {Nobody}]
    /\ script \in [Threads -> Seq(Steps)]
    /\ running \subseteq LibraryThreads /\ alive \subseteq LibraryThreads
    /\ signalled \subseteq LibraryThreads
    /\ \A f \in Features : count[f] <= MaxCount

FollowsScript(t, p, r) ==
    /\ p \in Positions /\ r \in Positions
    /\ p.locks = Holds(t) /\ ~p.over /\ r.locks = {}
    /\ Leads(Role(t), p, script[t], r)

CallerKnows(p, s) ==
    /\ s # << >> => p.up = up
    /\ p.ended \cap alive = {}
    /\ \A m \in p.locks : StageOf[m] \in up
    /\ call = NoCall => p.asked = {} /\ p.ended = {} /\ StartsRelease(s)

ThreadKnows(l, p) ==
    /\ p.up \in {NetStages, Stages} /\ p.ended = {}
    /\ "dmx_merger" \in p.up \/ held["merger"] = l => call = NoCall /\ Initialized("merger")
    /\ l = "tick" => p.locks \subseteq {"source"}
    /\ l \notin alive => script[l] = << >>
    /\ l \in alive => UsedBy[l] \subseteq up

\* A thread of the library ends only for a call that waits for it.
EndsForCall(l, p, pos) ==
    l \in alive /\ (l \notin running \/ l \in signalled \/ p.asked # {}) =>
        \E c \in Callers : l \in pos[c].asked

BetweenCalls ==
    call = NoCall => up = StagesFor(Kept) /\ ("net" \notin Kept => alive = {})

InitSoFar(p) ==
    call.kind = "init" =>
        /\ up = StagesFor(Kept) \cup mine /\ mine \cap StagesFor(Kept) = {}
        /\ Grounded(mine)
        /\ call.part \cap Kept = {} /\ call.features \subseteq Kept \cup call.part
        /\ "net" \in Kept \/ p.ended = LibraryThreads
        /\ \A f \in call.features : count[f] < MaxCount

Reaches(r) ==
    /\ r.over /\ r.asked = {} /\ r.up = StagesFor(Target)
    /\ "net" \in Target \/ r.ended = LibraryThreads

InCall(c, pos, goal) ==
    /\ \A t \in Callers \ {c} : script[t] = << >> /\ pos[t].asked = {} /\ pos[t].ended = {}
    /\ InitSoFar(pos[c]) /\ Reaches(goal[c])
    /\ call.kind = "deinit" => call.part = {f \in call.features : count[f] = 1}

Positioned(pos, goal) ==
    /\ \A t \in Threads : FollowsScript(t, pos[t], goal[t])
    /\ \A t \in Callers : CallerKnows(pos[t], script[t])
    /\ \A l \in LibraryThreads :
          ThreadKnows(l, pos[l]) /\ EndsForCall(l, pos[l], pos) /\ goal[l].up = NetStages
    /\ call # NoCall => \E c \in Callers : InCall(c, pos, goal)

LibraryInv ==
    /\ CountsOK /\ LibraryTypes /\ BetweenCalls
    /\ \E pos, goal \in [Threads -> Positions] : Positioned(pos, goal)

--------------------------------------------------------------------------------

(***************************************************************************)
(* Scripts and where they lead.                                            *)
(***************************************************************************)

LEMMA NothingLeads ==
  ASSUME NEW role, NEW g \in Positions, NEW r
  PROVE  Leads(role, g, << >>, r) <=> r = g
<1>1. ASSUME Leads(role, g, << >>, r) PROVE r = g
  BY <1>1 DEF Leads
<1>2. Leads(role, g, << >>, g)
  <2> DEFINE p == [i \in 0..0 |-> g]
  <2>1. p \in [0..Len(<< >>) -> Positions] /\ p[0] = g /\ p[Len(<< >>)] = g
    OBVIOUS
  <2>2. \A i \in 1..Len(<< >>) : Fits(role, << >>[i], p[i - 1], p[i])
    OBVIOUS
  <2> QED BY <2>1, <2>2 DEF Leads
<1> QED BY <1>1, <1>2

LEMMA StepLeads ==
  ASSUME NEW role, NEW g \in Positions, NEW h \in Positions, NEW s, Fits(role, s, g, h)
  PROVE  Leads(role, g, <<s>>, h)
<1> DEFINE p == [i \in 0..1 |-> IF i = 0 THEN g ELSE h]
<1>1. p \in [0..Len(<<s>>) -> Positions] /\ p[0] = g /\ p[Len(<<s>>)] = h
  OBVIOUS
<1>2. \A i \in 1..Len(<<s>>) : <<s>>[i] = s /\ p[i - 1] = g /\ p[i] = h
  OBVIOUS
<1>3. \A i \in 1..Len(<<s>>) : Fits(role, <<s>>[i], p[i - 1], p[i])
  BY <1>2
<1> QED BY <1>1, <1>3 DEF Leads

LEMMA HeadLeads ==
  ASSUME NEW role, NEW g \in Positions, NEW r, NEW s \in Seq(Steps), s # << >>,
         Leads(role, g, s, r)
  PROVE  \E h \in Positions : Fits(role, Head(s), g, h) /\ Leads(role, h, Tail(s), r)
<1>1. PICK p \in [0..Len(s) -> Positions] :
        /\ p[0] = g /\ p[Len(s)] = r
        /\ \A i \in 1..Len(s) : Fits(role, s[i], p[i - 1], p[i])
  BY DEF Leads
<1>2. Len(s) \in Nat \ {0} /\ Len(Tail(s)) = Len(s) - 1 /\ Head(s) = s[1]
  OBVIOUS
<1>3. p[1] \in Positions /\ Fits(role, Head(s), g, p[1])
  <2>1. Fits(role, s[1], p[1 - 1], p[1])
    BY <1>1, <1>2
  <2> QED BY <1>1, <1>2, <2>1
<1> DEFINE q == [i \in 0..Len(Tail(s)) |-> p[i + 1]]
<1>4. q \in [0..Len(Tail(s)) -> Positions] /\ q[0] = p[1] /\ q[Len(Tail(s))] = r
  BY <1>1, <1>2
<1>5. ASSUME NEW i \in 1..Len(Tail(s))
      PROVE  Fits(role, Tail(s)[i], q[i - 1], q[i])
  <2>1. Tail(s)[i] = s[i + 1] /\ q[i - 1] = p[i] /\ q[i] = p[i + 1] /\ i + 1 \in 1..Len(s)
    BY <1>2
  <2>2. Fits(role, s[i + 1], p[(i + 1) - 1], p[i + 1])
    BY <1>1, <2>1
  <2>3. (i + 1) - 1 = i
    OBVIOUS
  <2> QED BY <2>1, <2>2, <2>3
<1>6. Leads(role, p[1], Tail(s), r)
  BY <1>4, <1>5 DEF Leads
<1> QED BY <1>3, <1>6

LEMMA JoinedLeads ==
  ASSUME NEW role, NEW a \in Seq(Steps), NEW b \in Seq(Steps),
         NEW g, NEW h, NEW r, Leads(role, g, a, h), Leads(role, h, b, r)
  PROVE  Leads(role, g, a \o b, r)
<1>1. PICK p \in [0..Len(a) -> Positions] :
        /\ p[0] = g /\ p[Len(a)] = h
        /\ \A i \in 1..Len(a) : Fits(role, a[i], p[i - 1], p[i])
  BY DEF Leads
<1>2. PICK q \in [0..Len(b) -> Positions] :
        /\ q[0] = h /\ q[Len(b)] = r
        /\ \A i \in 1..Len(b) : Fits(role, b[i], q[i - 1], q[i])
  BY DEF Leads
<1>3. Len(a) \in Nat /\ Len(b) \in Nat /\ Len(a \o b) = Len(a) + Len(b)
  OBVIOUS
<1> DEFINE w == [i \in 0..Len(a \o b) |-> IF i <= Len(a) THEN p[i] ELSE q[i - Len(a)]]
<1>4. w \in [0..Len(a \o b) -> Positions] /\ w[0] = g
  BY <1>1, <1>2, <1>3
<1>5. w[Len(a \o b)] = r
  <2>1. CASE Len(b) = 0
    BY <1>1, <1>2, <1>3, <2>1
  <2>2. CASE Len(b) # 0
    BY <1>2, <1>3, <2>2
  <2> QED BY <2>1, <2>2
<1>6. ASSUME NEW i \in 1..Len(a \o b)
      PROVE  Fits(role, (a \o b)[i], w[i - 1], w[i])
  <2>1. CASE i <= Len(a)
    <3>1. i \in 1..Len(a) /\ (a \o b)[i] = a[i] /\ w[i - 1] = p[i - 1] /\ w[i] = p[i]
      BY <1>3, <2>1
    <3> QED BY <1>1, <3>1
  <2>2. CASE ~(i <= Len(a))
    <3>1. i - Len(a) \in 1..Len(b) /\ (a \o b)[i] = b[i - Len(a)] /\ w[i] = q[i - Len(a)]
      BY <1>3, <2>2
    <3>2. w[i - 1] = q[(i - Len(a)) - 1]
      BY <1>1, <1>2, <1>3, <2>2
    <3>3. Fits(role, b[i - Len(a)], q[(i - Len(a)) - 1], q[i - Len(a)])
      BY <1>2, <3>1
    <3> QED BY <3>1, <3>2, <3>3
  <2> QED BY <2>1, <2>2
<1> HIDE DEF w
<1> QED BY <1>4, <1>5, <1>6 DEF Leads

LEMMA StepsFit ==
  ASSUME NEW role, NEW s, NEW g, NEW h, Fits(role, s, g, h)
  PROVE  /\ s.op = "lock" => FitsLock(role, s, g, h)
         /\ s.op = "unlock" => FitsUnlock(role, s, g, h)
         /\ s.op = "use" => FitsUse(role, s, g, h)
         /\ s.op = "callback" => FitsCallback(role, s, g, h)
         /\ s.op = "start" => FitsStart(role, s, g, h)
         /\ s.op = "signal" => FitsSignal(role, s, g, h)
         /\ s.op = "join" => FitsJoin(role, s, g, h)
         /\ s.op = "up" => FitsUp(role, s, g, h)
         /\ s.op = "down" => FitsDown(role, s, g, h)
         /\ s.op = "return" => FitsReturn(role, s, g, h)
         /\ s.op = "begin" => FitsBegin(role, s, g, h)
         /\ s.op = "choose" => FitsChoose(role, s, g, h)
         /\ s.op = "leave" => FitsLeave(role, s, g, h)
         /\ s.op = "end" => FitsEnd(role, s, g, h)
  BY DEF Fits, FitsLock, FitsUnlock, FitsUse, FitsCallback, FitsStart, FitsSignal, FitsJoin,
         FitsUp, FitsDown, FitsReturn, FitsBegin, FitsChoose, FitsLeave, FitsEnd

\* A thread may come to the calls of the library at such a position.
Free(role, g) ==
    /\ ~g.over
    /\ role \in LibraryThreads => "dmx_merger" \notin g.up
    /\ role \in CallKinds => g.asked = {}

With(g, m) == [g EXCEPT !.locks = g.locks \cup {m}]

LEMMA WithIsPosition ==
  ASSUME NEW g \in Positions, NEW m \in Locks
  PROVE  /\ With(g, m) \in Positions /\ With(g, m).locks = g.locks \cup {m}
         /\ With(g, m).up = g.up /\ With(g, m).asked = g.asked
         /\ With(g, m).ended = g.ended /\ With(g, m).over = g.over
         /\ \A role : Free(role, g) => Free(role, With(g, m))
  BY DEF With, Positions, Free

LEMMA StepTypes ==
  /\ \A x \in Names : /\ Lock(x) \in Steps /\ Unlock(x) \in Steps /\ Use(x) \in Steps
                       /\ Start(x) \in Steps /\ Signal(x) \in Steps /\ Join(x) \in Steps
                       /\ Begin(x) \in Steps /\ Choose(x) \in Steps /\ Leave(x) \in Steps
                       /\ End(x) \in Steps /\ Up(x) \in Steps /\ Down(x) \in Steps
  /\ Callback \in Steps /\ Return \in Steps
<1>1. "application" \in Names
  BY DEF Names
<1> HIDE DEF Names
<1> QED BY <1>1 DEF Steps, Operations, Lock, Unlock, Use, Start, Signal, Join, Begin, Choose,
                    Leave, End, Up, Down, Callback, Return

LEMMA RankIsNatural == \A m \in Locks : Rank[m] \in Nat /\ m \in Names
  BY DEF Rank, Locks, Names

LEMMA LockedLeads ==
  ASSUME NEW role \in Roles, NEW g \in Positions, NEW h \in Positions, NEW m \in Locks,
         NEW body \in Seq(Steps), Free(role, g), Below(g, Rank[m]), StageOf[m] \in g.up,
         role = "tick" => m = "source",
         h.locks = g.locks, ~h.over, role \in LibraryThreads => "dmx_merger" \notin h.up,
         Leads(role, With(g, m), body, With(h, m))
  PROVE  /\ Locked(m, body) \in Seq(Steps)
         /\ Leads(role, g, Locked(m, body), h)
<1>1. m \notin g.locks
  BY RankIsNatural DEF Below
<1>2. FitsLock(role, Lock(m), g, With(g, m))
  <2>1. CASE role \in LibraryThreads
    <3>1. g.up \ {"dmx_merger"} = g.up
      BY <2>1 DEF Free
    <3>2. [g EXCEPT !.locks = g.locks \cup {m}, !.up = g.up] = With(g, m)
      BY DEF With, Positions
    <3> QED BY <2>1, <3>1, <3>2 DEF FitsLock, Lock
  <2>2. CASE role \notin LibraryThreads
    <3>1. [g EXCEPT !.locks = g.locks \cup {m}, !.up = g.up] = With(g, m)
      BY DEF With, Positions
    <3> QED BY <2>2, <3>1 DEF FitsLock, Lock
  <2> QED BY <2>1, <2>2
<1>3. Fits(role, Lock(m), g, With(g, m))
  <2>1. role \in CallKinds => g.asked = {}
    BY DEF Free
  <2>2. role \in LibraryThreads => "dmx_merger" \notin g.up
    BY DEF Free
  <2>3. ~g.over
    BY DEF Free
  <2> QED BY <1>2, <2>1, <2>2, <2>3 DEF Fits
<1>4. FitsUnlock(role, Unlock(m), With(h, m), h)
  <2>1. With(h, m).locks = h.locks \cup {m}
    BY WithIsPosition
  <2>2. With(h, m).locks \ {m} = h.locks
    BY <1>1, <2>1
  <2>3. [With(h, m) EXCEPT !.locks = h.locks] = h
    BY DEF With, Positions
  <2> QED BY <2>1, <2>2, <2>3 DEF FitsUnlock, Unlock
<1>5. Fits(role, Unlock(m), With(h, m), h)
  BY <1>4, WithIsPosition DEF Fits, Unlock
<1>6. Lock(m) \in Steps /\ Unlock(m) \in Steps /\ With(g, m) \in Positions
      /\ With(h, m) \in Positions
  BY RankIsNatural, StepTypes, WithIsPosition
<1>7. Leads(role, g, <<Lock(m)>>, With(g, m)) /\ Leads(role, With(h, m), <<Unlock(m)>>, h)
  BY <1>3, <1>5, <1>6, StepLeads
<1>8. <<Lock(m)>> \in Seq(Steps) /\ <<Unlock(m)>> \in Seq(Steps)
      /\ <<Lock(m)>> \o body \in Seq(Steps)
      /\ (<<Lock(m)>> \o body) \o <<Unlock(m)>> \in Seq(Steps)
  BY <1>6
<1>9. Leads(role, g, <<Lock(m)>> \o body, With(h, m))
  BY <1>7, <1>8, JoinedLeads
<1>10. Leads(role, g, (<<Lock(m)>> \o body) \o <<Unlock(m)>>, h)
  BY <1>7, <1>8, <1>9, JoinedLeads
<1> QED BY <1>8, <1>10 DEF Locked

LEMMA TwoSteps ==
  ASSUME NEW a \in Steps, NEW b \in Steps
  PROVE  <<a>> \o <<b>> = <<a, b>> /\ <<a, b>> \in Seq(Steps)
<1>1. <<a>> \o <<b>> \in Seq(Steps) /\ <<a, b>> \in Seq(Steps)
  OBVIOUS
<1>2. Len(<<a>> \o <<b>>) = 2 /\ Len(<<a, b>>) = 2
  OBVIOUS
<1>3. \A i \in 1..2 : (<<a>> \o <<b>>)[i] = <<a, b>>[i]
  OBVIOUS
<1> QED BY <1>1, <1>2, <1>3, SeqEqual

LEMMA UseLeads ==
  ASSUME NEW role \in Roles, NEW g \in Positions, Free(role, g), NEW d,
         \/ /\ d = "receivers" /\ role # "tick" /\ "receiver_mem" \in g.up
            /\ "receiver" \in g.locks \/ (role \in CallKinds /\ "recv" \in g.ended)
         \/ d = "sources" /\ "source_mem" \in g.up /\ "source" \in g.locks
         \/ d = "mergers"
  PROVE  Use(d) \in Steps /\ Leads(role, g, <<Use(d)>>, g)
<1>1. FitsUse(role, Use(d), g, g)
  BY DEF FitsUse, Use
<1>2. Fits(role, Use(d), g, g)
  BY <1>1 DEF Fits, Free
<1>3. Use(d) \in Steps
  BY StepTypes DEF Names
<1> QED BY <1>2, <1>3, StepLeads

LEMMA StagesAre ==
  /\ NetStages = {"logging", "etcpal_sockets", "timers", "netints", "receiver_mutex",
                  "source_mutex", "receiver_mem", "source_mem", "merge_receiver_mem",
                  "source_detector_mem", "sockets", "merge_receiver",
                  "source_detector_state", "source_detector", "source_loss",
                  "receiver_state", "receiver", "source_state", "source"}
  /\ Stages = NetStages \cup {"dmx_merger"} /\ "dmx_merger" \notin NetStages
  /\ Whole("net") = NetStages /\ Whole("merger") = {"dmx_merger"}
<1>1. \A s : ToSet(s) = {s[i] : i \in DOMAIN s}
  BY DEF ToSet
<1>2. ToSet(StagesOf["merger"]) = {"dmx_merger"}
  <2>1. StagesOf["merger"] = <<"dmx_merger">>
    BY DEF StagesOf
  <2> QED BY <1>1, <2>1
<1> DEFINE list == <<"logging", "etcpal_sockets", "timers", "netints", "receiver_mutex",
                     "source_mutex", "receiver_mem", "source_mem", "merge_receiver_mem",
                     "source_detector_mem", "sockets", "merge_receiver",
                     "source_detector_state", "source_detector", "source_loss",
                     "receiver_state", "receiver", "source_state", "source">>
<1>3. StagesOf["net"] = list
  BY DEF StagesOf
<1>4. DOMAIN list = 1..19
  OBVIOUS
<1>5. ToSet(StagesOf["net"]) = {list[i] : i \in 1..19}
  BY <1>1, <1>3, <1>4
<1>6. {list[i] : i \in 1..19} =
         {"logging", "etcpal_sockets", "timers", "netints", "receiver_mutex",
          "source_mutex", "receiver_mem", "source_mem", "merge_receiver_mem",
          "source_detector_mem", "sockets", "merge_receiver",
          "source_detector_state", "source_detector", "source_loss",
          "receiver_state", "receiver", "source_state", "source"}
  <2>1. 1..19 = {1, 2, 3, 4, 5, 6, 7, 8, 9, 10, 11, 12, 13, 14, 15, 16, 17, 18, 19}
    OBVIOUS
  <2> QED BY <2>1
<1>7. Stages = ToSet(StagesOf["net"]) \cup ToSet(StagesOf["merger"])
  BY DEF Stages, Features
<1> QED BY <1>2, <1>5, <1>6, <1>7 DEF NetStages, Whole

LEMMA StageOfLock ==
  /\ StageOf["receiver"] = "receiver_mutex" /\ StageOf["source"] = "source_mutex"
  /\ StageOf["merger"] = "dmx_merger" /\ StageOf["receiver_cb"] = "receiver_state"
  /\ StageOf["merge_receiver_cb"] = "merge_receiver"
  /\ StageOf["source_detector_cb"] = "source_detector_state"
  /\ StageOf["receivers"] = "receiver_mem" /\ StageOf["sources"] = "source_mem"
  BY DEF StageOf

LEMMA RankOfLock ==
  /\ Rank["receiver"] = 3 /\ Rank["source"] = 3 /\ Rank["merger"] = 3
  /\ Rank["receiver_cb"] = 1 /\ Rank["source_detector_cb"] = 1
  /\ Rank["merge_receiver_cb"] = 2
  BY DEF Rank

LEMMA ReceiverCallLeads ==
  ASSUME NEW role \in Roles, role # "tick", NEW g \in Positions, Free(role, g), Below(g, 3),
         {"receiver_mutex", "receiver_mem"} \subseteq g.up
  PROVE  ReceiverCall \in Seq(Steps) /\ Leads(role, g, ReceiverCall, g)
<1>1. "receiver" \in Locks
  BY DEF Locks
<1>2. /\ With(g, "receiver") \in Positions /\ Free(role, With(g, "receiver"))
      /\ "receiver" \in With(g, "receiver").locks
      /\ "receiver_mem" \in With(g, "receiver").up
  BY <1>1, WithIsPosition
<1>3. /\ Use("receivers") \in Steps
      /\ Leads(role, With(g, "receiver"), <<Use("receivers")>>, With(g, "receiver"))
  BY <1>2, UseLeads
<1>4. <<Use("receivers")>> \in Seq(Steps)
  BY <1>3
<1>5. /\ StageOf["receiver"] \in g.up /\ Below(g, Rank["receiver"])
      /\ ~g.over /\ (role \in LibraryThreads => "dmx_merger" \notin g.up)
  BY RankOfLock, StageOfLock DEF Free
<1> QED BY <1>1, <1>3, <1>4, <1>5, LockedLeads DEF ReceiverCall

LEMMA MergeReceiverCallLeads ==
  ASSUME NEW role \in Roles, role # "tick", NEW g \in Positions, Free(role, g), Below(g, 3),
         {"receiver_mutex", "receiver_mem"} \subseteq g.up
  PROVE  MergeReceiverCall \in Seq(Steps) /\ Leads(role, g, MergeReceiverCall, g)
<1>1. "receiver" \in Locks
  BY DEF Locks
<1> DEFINE w == With(g, "receiver")
<1>2. w \in Positions /\ Free(role, w) /\ "receiver" \in w.locks /\ "receiver_mem" \in w.up
  BY <1>1, WithIsPosition
<1> HIDE DEF w
<1>3. /\ Use("receivers") \in Steps /\ Leads(role, w, <<Use("receivers")>>, w)
      /\ Use("mergers") \in Steps /\ Leads(role, w, <<Use("mergers")>>, w)
  BY <1>2, UseLeads
<1>4. /\ <<Use("receivers")>> \in Seq(Steps) /\ <<Use("mergers")>> \in Seq(Steps)
      /\ <<Use("receivers")>> \o <<Use("mergers")>> = <<Use("receivers"), Use("mergers")>>
      /\ <<Use("receivers"), Use("mergers")>> \in Seq(Steps)
  BY <1>3, TwoSteps
<1>5. Leads(role, w, <<Use("receivers"), Use("mergers")>>, w)
  BY <1>3, <1>4, JoinedLeads
<1>6. /\ StageOf["receiver"] \in g.up /\ Below(g, Rank["receiver"])
      /\ ~g.over /\ (role \in LibraryThreads => "dmx_merger" \notin g.up)
  BY RankOfLock, StageOfLock DEF Free
<1> QED BY <1>1, <1>4, <1>5, <1>6, LockedLeads DEF MergeReceiverCall, w

LEMMA SourceCallLeads ==
  ASSUME NEW role \in Roles, NEW g \in Positions, Free(role, g), Below(g, 3),
         {"source_mutex", "source_mem"} \subseteq g.up
  PROVE  SourceCall \in Seq(Steps) /\ Leads(role, g, SourceCall, g)
<1>1. "source" \in Locks
  BY DEF Locks
<1>2. /\ With(g, "source") \in Positions /\ Free(role, With(g, "source"))
      /\ "source" \in With(g, "source").locks
      /\ "source_mem" \in With(g, "source").up
  BY <1>1, WithIsPosition
<1>3. /\ Use("sources") \in Steps
      /\ Leads(role, With(g, "source"), <<Use("sources")>>, With(g, "source"))
  BY <1>2, UseLeads
<1>4. <<Use("sources")>> \in Seq(Steps)
  BY <1>3
<1>5. /\ StageOf["source"] \in g.up /\ Below(g, Rank["source"])
      /\ ~g.over /\ (role \in LibraryThreads => "dmx_merger" \notin g.up)
  BY RankOfLock, StageOfLock DEF Free
<1> QED BY <1>1, <1>3, <1>4, <1>5, LockedLeads DEF SourceCall

LEMMA MergerCallLeads ==
  ASSUME NEW role \in Roles \ LibraryThreads, NEW g \in Positions, Free(role, g), Below(g, 3),
         "dmx_merger" \in g.up
  PROVE  MergerCall \in Seq(Steps) /\ Leads(role, g, MergerCall, g)
<1>1. "merger" \in Locks
  BY DEF Locks
<1>2. With(g, "merger") \in Positions /\ Free(role, With(g, "merger"))
  BY <1>1, WithIsPosition
<1>3. /\ Use("mergers") \in Steps
      /\ Leads(role, With(g, "merger"), <<Use("mergers")>>, With(g, "merger"))
  BY <1>2, UseLeads
<1>4. <<Use("mergers")>> \in Seq(Steps)
  BY <1>3
<1>5. /\ StageOf["merger"] \in g.up /\ Below(g, Rank["merger"])
      /\ ~g.over /\ (role = "tick" => FALSE)
  BY RankOfLock, StageOfLock DEF Free, LibraryThreads
<1> QED BY <1>1, <1>3, <1>4, <1>5, LockedLeads DEF MergerCall

\* The starts of threads in a call, under the lock that it takes.
StartsUnder(m, s) ==
    \A i \in 1..Len(s) :
        s[i].op = "start" => s[i].on \in LibraryThreads /\ LockOf[s[i].on] = m

LEMMA FirstAndRest ==
  ASSUME NEW a \in Seq(Steps), NEW b \in Seq(Steps), Len(a) = 1
  PROVE  /\ a \o b \in Seq(Steps) /\ Len(a \o b) = Len(b) + 1 /\ (a \o b)[1] = a[1]
         /\ \A i \in 1..Len(b) : (a \o b)[i + 1] = b[i]
<1>1. /\ a \o b \in Seq(Steps) /\ Len(a \o b) = Len(a) + Len(b)
      /\ \A i \in 1..Len(a) + Len(b) :
            (a \o b)[i] = IF i <= Len(a) THEN a[i] ELSE b[i - Len(a)]
  BY ConcatProperties
<1>2. Len(b) \in Nat
  OBVIOUS
<1> HIDE DEF Steps
<1>3. \A i \in 1..Len(b) : (a \o b)[i + 1] = b[i]
  <2> TAKE i \in 1..Len(b)
  <2>1. i + 1 \in 1..Len(a) + Len(b) /\ ~(i + 1 <= Len(a)) /\ (i + 1) - Len(a) = i
    BY <1>2
  <2> QED BY <1>1, <2>1
<1> QED BY <1>1, <1>2, <1>3

LEMMA LockedElements ==
  ASSUME NEW m \in Locks, NEW body \in Seq(Steps)
  PROVE  /\ Locked(m, body) \in Seq(Steps) /\ Len(Locked(m, body)) = Len(body) + 2
         /\ Locked(m, body)[1] = Lock(m) /\ Locked(m, body)[Len(body) + 2] = Unlock(m)
         /\ \A i \in 1..Len(body) : Locked(m, body)[i + 1] = body[i]
<1>1. Lock(m) \in Steps /\ Unlock(m) \in Steps
  BY RankIsNatural, StepTypes
<1> DEFINE b == <<Lock(m)>> \o body
<1>2. <<Lock(m)>> \in Seq(Steps) /\ Len(<<Lock(m)>>) = 1 /\ <<Lock(m)>>[1] = Lock(m)
  BY <1>1
<1>3. /\ b \in Seq(Steps) /\ Len(b) = Len(body) + 1 /\ b[1] = Lock(m)
      /\ \A i \in 1..Len(body) : b[i + 1] = body[i]
  BY <1>2, FirstAndRest
<1>4. <<Unlock(m)>> \in Seq(Steps) /\ Len(<<Unlock(m)>>) = 1 /\ <<Unlock(m)>>[1] = Unlock(m)
  BY <1>1
<1> DEFINE c == <<Unlock(m)>>
<1> HIDE DEF b, c
<1>5. /\ b \o c \in Seq(Steps) /\ Len(b \o c) = Len(body) + 2 /\ (b \o c)[1] = Lock(m)
      /\ (b \o c)[Len(body) + 2] = Unlock(m)
      /\ \A i \in 1..Len(body) : (b \o c)[i + 1] = body[i]
  BY <1>3, <1>4 DEF c
<1> QED BY <1>5 DEF Locked, b, c

LEMMA StartsInLocked ==
  ASSUME NEW m \in Locks, NEW n \in Locks, NEW body \in Seq(Steps), StartsUnder(n, body)
  PROVE  /\ StartsUnder(n, Locked(m, body))
         /\ m = n => StartsRelease(Locked(m, body))
<1> DEFINE s == Locked(m, body)
<1>1. /\ s \in Seq(Steps) /\ Len(s) = Len(body) + 2 /\ s[1] = Lock(m)
      /\ s[Len(body) + 2] = Unlock(m)
      /\ \A i \in 1..Len(body) : s[i + 1] = body[i]
  BY LockedElements
<1> HIDE DEF s
<1>2. StartsUnder(n, s)
  <2> SUFFICES ASSUME NEW i \in 1..Len(s), s[i].op = "start"
               PROVE  s[i].on \in LibraryThreads /\ LockOf[s[i].on] = n
    BY DEF StartsUnder
  <2>1. i # 1 /\ i # Len(body) + 2
    BY <1>1 DEF Lock, Unlock
  <2>2. i - 1 \in 1..Len(body) /\ s[i] = body[i - 1]
    <3>1. i - 1 \in 1..Len(body) /\ (i - 1) + 1 = i
      BY <1>1, <2>1
    <3> QED BY <1>1, <3>1
  <2> QED BY <2>2 DEF StartsUnder
<1>3. m = n => StartsRelease(s)
  BY <1>1, <1>2 DEF StartsUnder, StartsRelease
<1> QED BY <1>2, <1>3 DEF s

LEMMA StartLeads ==
  ASSUME NEW l \in LibraryThreads, NEW g \in Positions, Free("none", g), UsedBy[l] \subseteq g.up,
         g.locks = {LockOf[l]}
  PROVE  Start(l) \in Steps /\ Leads("none", g, <<Start(l)>>, g)
<1>1. FitsStart("none", Start(l), g, g)
  BY DEF FitsStart, Start
<1>2. Fits("none", Start(l), g, g)
  BY <1>1 DEF Fits, Free, CallKinds, LibraryThreads
<1>3. Start(l) \in Steps
  BY StepTypes DEF Names
<1> QED BY <1>2, <1>3, StepLeads

LEMMA UsedAre ==
  /\ UsedBy["recv"] = {"receiver_mutex", "source_mutex", "receiver_mem", "source_mem",
                       "merge_receiver", "source_detector_state", "receiver_state"}
  /\ UsedBy["tick"] = {"source_mutex", "source_mem"}
  /\ LockOf["recv"] = "receiver" /\ LockOf["tick"] = "source"
  /\ \A l \in LibraryThreads : UsedBy[l] \subseteq NetStages /\ LockOf[l] \in Locks
  BY StagesAre DEF UsedBy, LockOf, LibraryThreads, Locks

\* A position of a call on a source or receiver of the application.
Calling(g) == Free("none", g) /\ g.locks = {} /\ NetStages \subseteq g.up

CallFits(g, s) == s \in Seq(Steps) /\ Leads("none", g, s, g) /\ StartsRelease(s)

LEMMA CreateFits ==
  ASSUME NEW g \in Positions, Calling(g)
  PROVE  CallFits(g, ReceiverCreate) /\ CallFits(g, MergeReceiverCreate)
<1> DEFINE w == With(g, "receiver")
<1>1. "receiver" \in Locks /\ "none" \in Roles /\ "recv" \in LibraryThreads
  BY DEF Locks, Roles, LibraryThreads
<1>2. /\ w \in Positions /\ Free("none", w) /\ w.locks = {"receiver"} /\ w.up = g.up
  BY <1>1, WithIsPosition DEF Calling
<1>3. /\ UsedBy["recv"] \subseteq g.up /\ "receiver_mem" \in g.up
      /\ StageOf["receiver"] \in g.up
  BY UsedAre, StageOfLock, <1>1 DEF Calling
<1>4. Below(g, Rank["receiver"]) /\ Free("none", g) /\ ~g.over /\ "none" \notin LibraryThreads
  BY DEF Below, Calling, Free, LibraryThreads
<1> HIDE DEF w
<1>5. /\ Use("receivers") \in Steps /\ Leads("none", w, <<Use("receivers")>>, w)
      /\ Use("mergers") \in Steps /\ Leads("none", w, <<Use("mergers")>>, w)
      /\ Start("recv") \in Steps /\ Leads("none", w, <<Start("recv")>>, w)
  BY <1>1, <1>2, <1>3, UseLeads, StartLeads, UsedAre
<1> DEFINE ab == <<Use("receivers"), Start("recv")>>
           abc == <<Use("receivers"), Start("recv"), Use("mergers")>>
<1>6. ab \in Seq(Steps) /\ Leads("none", w, ab, w)
  <2>1. <<Use("receivers")>> \o <<Start("recv")>> = ab /\ ab \in Seq(Steps)
    BY <1>5, TwoSteps
  <2>2. <<Use("receivers")>> \in Seq(Steps) /\ <<Start("recv")>> \in Seq(Steps)
    BY <1>5
  <2> QED BY <1>5, <2>1, <2>2, JoinedLeads
<1>7. abc \in Seq(Steps) /\ Leads("none", w, abc, w)
  <2>1. abc \in Seq(Steps) /\ <<Use("mergers")>> \in Seq(Steps)
    BY <1>5
  <2>2. ab \o <<Use("mergers")>> = abc
    <3>1. ab \o <<Use("mergers")>> \in Seq(Steps) /\ Len(ab \o <<Use("mergers")>>) = 3
          /\ Len(abc) = 3
      BY <1>5
    <3>2. \A i \in 1..3 : (ab \o <<Use("mergers")>>)[i] = abc[i]
      BY <1>5
    <3> QED BY <2>1, <3>1, <3>2, SeqEqual
  <2> HIDE DEF ab, abc
  <2> QED BY <1>5, <1>6, <2>1, <2>2, JoinedLeads
<1>8. StartsUnder("receiver", ab) /\ StartsUnder("receiver", abc)
  BY UsedAre DEF StartsUnder, Use, Start, LibraryThreads
<1> HIDE DEF ab, abc
<1>9. CallFits(g, Locked("receiver", ab))
  BY <1>1, <1>3, <1>4, <1>6, <1>8, LockedLeads, StartsInLocked DEF CallFits, w
<1>10. CallFits(g, Locked("receiver", abc))
  BY <1>1, <1>3, <1>4, <1>7, <1>8, LockedLeads, StartsInLocked DEF CallFits, w
<1> QED BY <1>9, <1>10 DEF ReceiverCreate, MergeReceiverCreate, ab, abc

LEMMA SourceCreateFits ==
  ASSUME NEW g \in Positions, Calling(g)
  PROVE  CallFits(g, SourceCreate)
<1> DEFINE w == With(g, "source")
<1>1. "source" \in Locks /\ "none" \in Roles /\ "tick" \in LibraryThreads
  BY DEF Locks, Roles, LibraryThreads
<1>2. /\ w \in Positions /\ Free("none", w) /\ w.locks = {"source"} /\ w.up = g.up
  BY <1>1, WithIsPosition DEF Calling
<1>3. /\ UsedBy["tick"] \subseteq g.up /\ "source_mem" \in g.up
      /\ StageOf["source"] \in g.up
  BY UsedAre, StageOfLock, <1>1 DEF Calling
<1>4. Below(g, Rank["source"]) /\ Free("none", g) /\ ~g.over /\ "none" \notin LibraryThreads
  BY DEF Below, Calling, Free, LibraryThreads
<1> HIDE DEF w
<1>5. /\ Use("sources") \in Steps /\ Leads("none", w, <<Use("sources")>>, w)
      /\ Start("tick") \in Steps /\ Leads("none", w, <<Start("tick")>>, w)
  BY <1>1, <1>2, <1>3, UseLeads, StartLeads, UsedAre
<1> DEFINE ab == <<Start("tick"), Use("sources")>>
<1>6. ab \in Seq(Steps) /\ Leads("none", w, ab, w)
  <2>1. <<Start("tick")>> \o <<Use("sources")>> = ab /\ ab \in Seq(Steps)
    BY <1>5, TwoSteps
  <2>2. <<Use("sources")>> \in Seq(Steps) /\ <<Start("tick")>> \in Seq(Steps)
    BY <1>5
  <2> QED BY <1>5, <2>1, <2>2, JoinedLeads
<1>7. StartsUnder("source", ab)
  BY UsedAre DEF StartsUnder, Use, Start, LibraryThreads
<1> HIDE DEF ab
<1>8. CallFits(g, Locked("source", ab))
  BY <1>1, <1>3, <1>4, <1>6, <1>7, LockedLeads, StartsInLocked DEF CallFits, w
<1> QED BY <1>8 DEF SourceCreate, ab

LEMMA PlainCallsFit ==
  ASSUME NEW g \in Positions, Calling(g)
  PROVE  /\ CallFits(g, ReceiverCall) /\ CallFits(g, MergeReceiverCall) /\ CallFits(g, SourceCall)
         /\ "dmx_merger" \in g.up => CallFits(g, MergerCall)
         /\ \A n \in Locks : StartsUnder(n, ReceiverCall) /\ StartsUnder(n, MergeReceiverCall)
<1>1. "none" \in Roles /\ "none" # "tick" /\ "none" \in Roles \ LibraryThreads
  BY DEF Roles, LibraryThreads
<1>2. /\ Free("none", g) /\ Below(g, 3)
      /\ {"receiver_mutex", "receiver_mem"} \subseteq g.up
      /\ {"source_mutex", "source_mem"} \subseteq g.up
  BY StagesAre DEF Calling, Below
<1>3. /\ ReceiverCall \in Seq(Steps) /\ Leads("none", g, ReceiverCall, g)
      /\ MergeReceiverCall \in Seq(Steps) /\ Leads("none", g, MergeReceiverCall, g)
      /\ SourceCall \in Seq(Steps) /\ Leads("none", g, SourceCall, g)
      /\ "dmx_merger" \in g.up => MergerCall \in Seq(Steps) /\ Leads("none", g, MergerCall, g)
  BY <1>1, <1>2, ReceiverCallLeads, MergeReceiverCallLeads, SourceCallLeads, MergerCallLeads
<1>4. ASSUME NEW m \in Locks, NEW n \in Locks, NEW a \in Names, NEW b \in Names
      PROVE  /\ StartsUnder(n, Locked(m, <<Use(a)>>)) /\ StartsRelease(Locked(m, <<Use(a)>>))
             /\ StartsUnder(n, Locked(m, <<Use(a), Use(b)>>))
             /\ StartsRelease(Locked(m, <<Use(a), Use(b)>>))
  <2>1. <<Use(a)>> \in Seq(Steps) /\ <<Use(a), Use(b)>> \in Seq(Steps)
    BY StepTypes
  <2>2. \A k \in Locks : StartsUnder(k, <<Use(a)>>) /\ StartsUnder(k, <<Use(a), Use(b)>>)
    BY DEF StartsUnder, Use
  <2> QED BY <2>1, <2>2, StartsInLocked
<1>5. /\ "receivers" \in Names /\ "mergers" \in Names /\ "sources" \in Names
      /\ "receiver" \in Locks /\ "merger" \in Locks /\ "source" \in Locks
  BY DEF Names, Locks
<1>6. /\ StartsRelease(ReceiverCall) /\ StartsRelease(MergeReceiverCall)
      /\ StartsRelease(SourceCall) /\ StartsRelease(MergerCall)
      /\ \A n \in Locks : StartsUnder(n, ReceiverCall) /\ StartsUnder(n, MergeReceiverCall)
  BY <1>4, <1>5 DEF ReceiverCall, MergeReceiverCall, SourceCall, MergerCall
<1> QED BY <1>3, <1>6 DEF CallFits

LEMMA DestroyFits ==
  ASSUME NEW g \in Positions, Calling(g), NEW m \in Locks, Rank[m] < 3, StageOf[m] \in NetStages,
         NEW body \in {ReceiverCall, MergeReceiverCall}
  PROVE  CallFits(g, Locked(m, body))
<1> DEFINE w == With(g, m)
<1>1. "none" \in Roles /\ "none" # "tick" /\ "none" \notin LibraryThreads
  BY DEF Roles, LibraryThreads
<1>2. w \in Positions /\ Free("none", w) /\ w.locks = {m} /\ w.up = g.up
  BY WithIsPosition DEF Calling
<1>3. Below(w, 3) /\ {"receiver_mutex", "receiver_mem"} \subseteq w.up
  BY <1>2, StagesAre DEF Calling, Below
<1> HIDE DEF w
<1>4. body \in Seq(Steps) /\ Leads("none", w, body, w)
  BY <1>1, <1>2, <1>3, ReceiverCallLeads, MergeReceiverCallLeads
<1>5. Free("none", g) /\ Below(g, Rank[m]) /\ StageOf[m] \in g.up /\ ~g.over
  BY DEF Calling, Below, Free
<1>6. Locked(m, body) \in Seq(Steps) /\ Leads("none", g, Locked(m, body), g)
  BY <1>1, <1>4, <1>5, LockedLeads DEF w
<1>7. StartsUnder(m, body)
  BY PlainCallsFit
<1>8. StartsRelease(Locked(m, body))
  BY <1>4, <1>7, StartsInLocked
<1> QED BY <1>6, <1>8 DEF CallFits

\* Every call of the application takes its locks in order, has its stages up
\* and its data locked, and leaves no lock behind.
LEMMA CallsFit ==
  ASSUME NEW g \in Positions, Free("none", g), g.locks = {}
  PROVE  /\ NetStages \subseteq g.up => \A s \in NetworkCalls : CallFits(g, s)
         /\ "dmx_merger" \in g.up => CallFits(g, MergerCall)
<1>1. ASSUME NetStages \subseteq g.up
      PROVE  \A s \in NetworkCalls : CallFits(g, s)
  <2>1. Calling(g)
    BY <1>1 DEF Calling
  <2>2. /\ {"receiver_cb", "source_detector_cb", "merge_receiver_cb"} \subseteq Locks
        /\ \A m \in {"receiver_cb", "source_detector_cb", "merge_receiver_cb"} :
              Rank[m] < 3 /\ StageOf[m] \in NetStages
    BY RankOfLock, StageOfLock, StagesAre DEF Locks
  <2>3. CallFits(g, ReceiverDestroy) /\ CallFits(g, DetectorDestroy)
        /\ CallFits(g, MergeReceiverDestroy)
    BY <2>1, <2>2, DestroyFits DEF ReceiverDestroy, DetectorDestroy, MergeReceiverDestroy
  <2> QED BY <2>1, <2>3, PlainCallsFit, CreateFits, SourceCreateFits DEF NetworkCalls
<1>2. ASSUME "dmx_merger" \in g.up
      PROVE  CallFits(g, MergerCall)
  <2>1. "none" \in Roles \ LibraryThreads /\ Below(g, 3)
    BY DEF Roles, LibraryThreads, Below
  <2>2. MergerCall \in Seq(Steps) /\ Leads("none", g, MergerCall, g)
    BY <1>2, <2>1, MergerCallLeads
  <2>3. StartsRelease(MergerCall)
    <3>1. "merger" \in Locks /\ <<Use("mergers")>> \in Seq(Steps)
      BY StepTypes DEF Locks, Names
    <3>2. StartsUnder("merger", <<Use("mergers")>>)
      BY DEF StartsUnder, Use
    <3> QED BY <3>1, <3>2, StartsInLocked DEF MergerCall
  <2> QED BY <2>2, <2>3 DEF CallFits
<1> QED BY <1>1, <1>2

(***************************************************************************)
(* The scripts of the threads of the library.                              *)
(***************************************************************************)

\* A position of the receive thread, with locks below a rank.
Attends(g, rank) ==
    g \in Positions /\ Free("recv", g) /\ NetStages \subseteq g.up /\ Below(g, rank)

Attended(g, s) == s \in Seq(Steps) /\ Leads("recv", g, s, g)

LEMMA AttendedOneByOne ==
  ASSUME NEW g, NEW a, NEW b, Attended(g, a), Attended(g, b)
  PROVE  Attended(g, a \o b)
<1>1. a \o b \in Seq(Steps)
  BY ConcatProperties DEF Attended
<1> QED BY <1>1, JoinedLeads DEF Attended

LEMMA AttendedLocked ==
  ASSUME NEW m \in Locks, NEW g, Attends(g, Rank[m]), StageOf[m] \in NetStages,
         NEW body, Attended(With(g, m), body)
  PROVE  Attended(g, Locked(m, body))
<1>1. "recv" \in Roles /\ "recv" # "tick" /\ "recv" \in LibraryThreads
  BY DEF Roles, LibraryThreads
<1>2. ~g.over /\ "dmx_merger" \notin g.up /\ StageOf[m] \in g.up
  BY <1>1 DEF Attends, Free
<1> QED BY <1>1, <1>2, LockedLeads DEF Attends, Attended

LEMMA AttendsWith ==
  ASSUME NEW m \in Locks, NEW g, Attends(g, Rank[m]), NEW rank \in Nat, Rank[m] < rank
  PROVE  Attends(With(g, m), rank)
<1>1. /\ With(g, m) \in Positions /\ With(g, m).locks = g.locks \cup {m}
      /\ With(g, m).up = g.up /\ Free("recv", With(g, m))
  BY WithIsPosition DEF Attends
<1>2. g.locks \subseteq Locks
  BY DEF Attends, Positions
<1>3. \A n \in g.locks : Rank[n] < rank
  BY <1>2, RankIsNatural DEF Attends, Below
<1> QED BY <1>1, <1>3 DEF Attends, Below

LEMMA CallbackLeads ==
  ASSUME NEW g, Attends(g, 3)
  PROVE  Attended(g, <<Callback>>)
<1>1. FitsCallback("recv", Callback, g, g)
  BY DEF FitsCallback, Callback, Attends
<1>2. ~g.over /\ "dmx_merger" \notin g.up /\ "recv" \notin CallKinds
  BY DEF Attends, Free, LibraryThreads, CallKinds
<1>3. Fits("recv", Callback, g, g)
  BY <1>1, <1>2 DEF Fits
<1>4. Callback \in Steps /\ g \in Positions
  BY StepTypes DEF Attends
<1> QED BY <1>3, <1>4, StepLeads DEF Attended

LEMMA AttendedCalls ==
  ASSUME NEW g, Attends(g, 3)
  PROVE  Attended(g, ReceiverCall) /\ Attended(g, MergeReceiverCall) /\ Attended(g, SourceCall)
<1>1. /\ {"receiver_mutex", "receiver_mem"} \subseteq g.up
      /\ {"source_mutex", "source_mem"} \subseteq g.up
  BY StagesAre DEF Attends
<1>2. "recv" \in Roles /\ "recv" # "tick"
  BY DEF Roles, LibraryThreads
<1> QED BY <1>1, <1>2, ReceiverCallLeads, MergeReceiverCallLeads, SourceCallLeads
        DEF Attends, Attended

LEMMA AttendsBelow ==
  ASSUME NEW g, NEW rank \in Nat, NEW above \in Nat, rank <= above, Attends(g, rank)
  PROVE  Attends(g, above)
  BY RankIsNatural DEF Attends, Below, Positions

LEMMA AttendedNothing ==
  ASSUME NEW g \in Positions
  PROVE  Attended(g, << >>)
<1>1. << >> \in Seq(Steps)
  OBVIOUS
<1> QED BY <1>1, NothingLeads DEF Attended

LEMMA CallbackLocks ==
  /\ {"receiver_cb", "source_detector_cb", "merge_receiver_cb"} \subseteq Locks
  /\ \A m \in {"receiver_cb", "source_detector_cb", "merge_receiver_cb"} :
        StageOf[m] \in NetStages
  BY StageOfLock, StagesAre DEF Locks

LEMMA DeliveriesAttended ==
  ASSUME NEW g, Attends(g, 2), NEW d \in Deliveries
  PROVE  Attended(g, d)
<1>1. Attends(g, 3) /\ g \in Positions
  BY AttendsBelow DEF Attends
<1> DEFINE w == With(g, "merge_receiver_cb")
<1>2. Attends(w, 3)
  BY AttendsWith, CallbackLocks, RankOfLock
<1> HIDE DEF w
<1>3. Attended(w, MergeReceiverCall \o <<Callback>>)
  BY <1>2, AttendedCalls, CallbackLeads, AttendedOneByOne
<1>4. Attended(g, MergeReceiverHandler)
  BY <1>3, CallbackLocks, RankOfLock, AttendedLocked DEF w, MergeReceiverHandler
<1> QED BY <1>1, <1>4, CallbackLeads, AttendedNothing DEF Deliveries

LEMMA PacketsAttended ==
  ASSUME NEW g, Attends(g, 1)
  PROVE  /\ \A s \in DeliverUnderLock : Attended(g, s)
         /\ Attended(g, DiscoveryPacket) /\ Attended(g, DetectorTick)
<1> DEFINE w == With(g, "receiver_cb")
           v == With(g, "source_detector_cb")
<1>1. Attends(w, 2) /\ Attends(v, 3)
  BY AttendsWith, CallbackLocks, RankOfLock
<1>2. Attends(w, 3)
  BY <1>1, AttendsBelow
<1> HIDE DEF w, v
<1>3. ASSUME NEW d \in Deliveries PROVE Attended(g, Locked("receiver_cb", ReceiverCall \o d))
  <2>1. Attended(w, ReceiverCall \o d)
    BY <1>1, <1>2, AttendedCalls, DeliveriesAttended, AttendedOneByOne
  <2> QED BY <2>1, CallbackLocks, RankOfLock, AttendedLocked DEF w
<1>4. Attended(v, ReceiverCall) /\ Attended(v, <<Callback>>)
  BY <1>1, AttendedCalls, CallbackLeads
<1>5. Attended(v, ReceiverCall \o ReceiverCall)
  BY <1>4, AttendedOneByOne
<1>6. Attended(v, (ReceiverCall \o ReceiverCall) \o <<Callback>>)
      /\ Attended(v, ReceiverCall \o <<Callback>>)
  BY <1>4, <1>5, AttendedOneByOne
<1>7. Attended(g, DiscoveryPacket) /\ Attended(g, DetectorTick)
  BY <1>6, CallbackLocks, RankOfLock, AttendedLocked DEF v, DiscoveryPacket, DetectorTick
<1> QED BY <1>3, <1>7 DEF DeliverUnderLock

LEMMA OptionsAttended ==
  ASSUME NEW g, Attends(g, 1), NEW point \in {"packet", "tick"},
         NEW s \in LoopOptions[point]
  PROVE  Attended(g, s)
<1>1. g \in Positions
  BY DEF Attends
<1>2. CASE point = "packet"
  <2>1. LoopOptions[point] = {<< >>, DiscoveryPacket} \cup DeliverUnderLock
    BY <1>2 DEF LoopOptions
  <2> QED BY <1>1, <2>1, PacketsAttended, AttendedNothing
<1>3. CASE point = "tick"
  <2>1. LoopOptions[point] = {<< >>} \cup {d \o DetectorTick : d \in DeliverUnderLock}
    BY <1>3 DEF LoopOptions
  <2>2. CASE s = << >>
    BY <1>1, <2>2, AttendedNothing
  <2>3. CASE s # << >>
    <3>1. PICK d \in DeliverUnderLock : s = d \o DetectorTick
      BY <2>1, <2>3
    <3>2. Attended(g, d) /\ Attended(g, DetectorTick)
      BY PacketsAttended
    <3> QED BY <3>1, <3>2, AttendedOneByOne
  <2> QED BY <2>2, <2>3
<1> QED BY <1>2, <1>3

Over(g) == [g EXCEPT !.over = TRUE]

LEMMA PlaceIsPosition ==
  ASSUME NEW locks \in SUBSET Locks, NEW stages \in SUBSET Stages,
         NEW asked \in SUBSET LibraryThreads, NEW ended \in SUBSET LibraryThreads
  PROVE  LET g == Place(locks, stages, asked, ended)
         IN  /\ g \in Positions /\ g.locks = locks /\ g.up = stages /\ g.asked = asked
             /\ g.ended = ended /\ ~g.over
             /\ Over(g) \in Positions /\ Over(g).locks = locks /\ Over(g).up = stages
             /\ Over(g).asked = asked /\ Over(g).ended = ended /\ Over(g).over
  BY DEF Place, Positions, Over

LEMMA OneStepLeads ==
  ASSUME NEW role, NEW g \in Positions, NEW h \in Positions, NEW s \in Steps,
         Fits(role, s, g, h)
  PROVE  <<s>> \in Seq(Steps) /\ Leads(role, g, <<s>>, h)
  BY StepLeads

\* The first steps of the receive thread.
LEMMA StartLeadsToLoop ==
  ASSUME NEW g, Attends(g, 1), g.locks = {}
  PROVE  ReceiveStart \in Seq(Steps) /\ Leads("recv", g, ReceiveStart, Over(g))
<1>1. g \in Positions /\ Over(g) \in Positions /\ ~g.over /\ "dmx_merger" \notin g.up
  BY DEF Attends, Over, Positions, Free, LibraryThreads
<1>2. FitsBegin("recv", Begin("recv"), g, Over(g))
  BY DEF FitsBegin, Begin, Over
<1>3. Fits("recv", Begin("recv"), g, Over(g))
  BY <1>1, <1>2 DEF Fits, CallKinds
<1>4. Begin("recv") \in Steps
  BY StepTypes DEF Names, LibraryThreads
<1>5. <<Begin("recv")>> \in Seq(Steps) /\ Leads("recv", g, <<Begin("recv")>>, Over(g))
  BY <1>1, <1>3, <1>4, OneStepLeads
<1>6. Attended(g, ReceiverCall)
  <2>1. Attends(g, 3)
    BY AttendsBelow
  <2> QED BY <2>1, AttendedCalls
<1>7. ReceiverCall \o <<Begin("recv")>> \in Seq(Steps)
  BY <1>5, <1>6, ConcatProperties DEF Attended
<1> QED BY <1>5, <1>6, <1>7, JoinedLeads DEF ReceiveStart, Attended

\* A pass of its loop.
LEMMA PassAttended ==
  ASSUME NEW g, Attends(g, 1), g.locks = {}
  PROVE  Attended(g, ReceivePass)
<1>1. g \in Positions /\ ~g.over /\ "dmx_merger" \notin g.up
  BY DEF Attends, Free, LibraryThreads
<1>2. ASSUME NEW point \in {"packet", "tick"}
      PROVE  Choose(point) \in Steps /\ Attended(g, <<Choose(point)>>)
  <2>1. FitsChoose("recv", Choose(point), g, g)
    BY DEF FitsChoose, Choose
  <2>2. Fits("recv", Choose(point), g, g)
    BY <1>1, <2>1 DEF Fits, CallKinds
  <2>3. Choose(point) \in Steps
    BY StepTypes DEF Names, LibraryThreads
  <2> QED BY <1>1, <2>2, <2>3, OneStepLeads DEF Attended
<1>3. Attended(g, <<Choose("packet")>> \o <<Choose("tick")>>)
  BY <1>2, AttendedOneByOne
<1>4. <<Choose("packet")>> \o <<Choose("tick")>> = <<Choose("packet"), Choose("tick")>>
  BY <1>2, TwoSteps
<1>5. Attended(g, ReceiverCall)
  <2>1. Attends(g, 3)
    BY AttendsBelow
  <2> QED BY <2>1, AttendedCalls
<1> QED BY <1>3, <1>4, <1>5, AttendedOneByOne DEF ReceivePass

\* Its last steps, when it was told to end.
LEMMA EndLeads ==
  ASSUME NEW g, Attends(g, 1), g.locks = {}, g.asked = {"recv"}
  PROVE  ReceiveEnd \in Seq(Steps) /\ Leads("recv", g, ReceiveEnd, Over(g))
<1> DEFINE w == With(g, "receiver")
<1>1. g \in Positions /\ Over(g) \in Positions /\ ~g.over /\ "dmx_merger" \notin g.up
  BY DEF Attends, Over, Positions, Free, LibraryThreads
<1>2. "receiver" \in Locks /\ "recv" \in LibraryThreads /\ "recv" \in Roles
  BY DEF Locks, LibraryThreads, Roles
<1>3. /\ w \in Positions /\ w.locks = {"receiver"} /\ w.up = g.up /\ w.asked = g.asked
      /\ Free("recv", w)
  BY <1>1, <1>2, WithIsPosition DEF Attends
<1> HIDE DEF w
<1>4. Attended(w, <<Use("receivers")>>)
  <2>1. "receiver_mem" \in w.up
    BY <1>3, StagesAre DEF Attends
  <2>2. Use("receivers") \in Steps /\ Leads("recv", w, <<Use("receivers")>>, w)
    BY <1>2, <1>3, <2>1, UseLeads
  <2> QED BY <2>2 DEF Attended
<1>5. Attended(w, <<Leave("recv")>>)
  <2>1. FitsLeave("recv", Leave("recv"), w, w)
    BY <1>2, <1>3, UsedAre DEF FitsLeave, Leave
  <2>2. Fits("recv", Leave("recv"), w, w)
    BY <1>3, <2>1 DEF Fits, CallKinds, Free, LibraryThreads
  <2>3. Leave("recv") \in Steps
    BY <1>2, StepTypes DEF Names
  <2> QED BY <1>3, <2>2, <2>3, OneStepLeads DEF Attended
<1>6. Attended(w, <<Use("receivers")>> \o <<Leave("recv")>>)
  BY <1>4, <1>5, AttendedOneByOne
<1>7. <<Use("receivers")>> \o <<Leave("recv")>> = <<Use("receivers"), Leave("recv")>>
  BY <1>2, StepTypes, TwoSteps DEF Names
<1>8. Attended(g, Locked("receiver", <<Use("receivers"), Leave("recv")>>))
  <2>1. Attends(g, Rank["receiver"]) /\ StageOf["receiver"] \in NetStages
    BY AttendsBelow, RankOfLock, StageOfLock, StagesAre
  <2> QED BY <1>2, <1>6, <1>7, <2>1, AttendedLocked DEF w
<1>9. <<End("recv")>> \in Seq(Steps) /\ Leads("recv", g, <<End("recv")>>, Over(g))
  <2>1. FitsEnd("recv", End("recv"), g, Over(g))
    BY <1>2 DEF FitsEnd, End, Over
  <2>2. Fits("recv", End("recv"), g, Over(g))
    BY <1>1, <2>1 DEF Fits, CallKinds
  <2>3. End("recv") \in Steps
    BY <1>2, StepTypes DEF Names
  <2> QED BY <1>1, <2>2, <2>3, OneStepLeads
<1>10. Locked("receiver", <<Use("receivers"), Leave("recv")>>) \o <<End("recv")>> \in Seq(Steps)
  BY <1>8, <1>9, ConcatProperties DEF Attended
<1> QED BY <1>8, <1>9, <1>10, JoinedLeads DEF ReceiveEnd, Attended

\* What a callback may call.  For the merger it relies on that stage.
LEMMA CallbackCallLeads ==
  ASSUME NEW g, Attends(g, 3), g.up = NetStages, NEW s \in CallbackCalls
  PROVE  /\ s \in Seq(Steps)
         /\ \/ Leads("recv", g, s, g)
            \/ s = MergerCall /\ Leads("recv", [g EXCEPT !.up = Stages], s, g)
<1>1. CASE s \in {ReceiverCall, MergeReceiverCall, SourceCall}
  BY <1>1, AttendedCalls DEF Attended
<1>2. CASE s = MergerCall
  <2> DEFINE f == [g EXCEPT !.up = Stages]
             w == With(g, "merger")
  <2>1. /\ "merger" \in Locks /\ "recv" \in LibraryThreads /\ "recv" \in Roles
        /\ "recv" # "tick" /\ "recv" \notin CallKinds
    BY DEF Locks, LibraryThreads, Roles, CallKinds
  <2>2. /\ g \in Positions /\ ~g.over /\ "dmx_merger" \notin g.up /\ "merger" \notin g.locks
        /\ Below(g, 3)
    BY <2>1, RankOfLock DEF Attends, Free, Below
  <2>3. /\ f \in Positions /\ f.locks = g.locks /\ ~f.over /\ "dmx_merger" \in f.up
        /\ f.up \ {"dmx_merger"} = g.up
    BY <2>2, StagesAre DEF Positions
  <2>4. w \in Positions /\ Free("recv", w) /\ w.locks = g.locks \cup {"merger"}
    BY <2>1, <2>2, WithIsPosition DEF Attends
  <2>5. [f EXCEPT !.locks = g.locks \cup {"merger"}, !.up = g.up] = w
    BY <2>2 DEF With, Positions
  <2>6. [w EXCEPT !.locks = g.locks] = g
    BY <2>2 DEF With, Positions
  <2> HIDE DEF f, w
  <2>7. FitsLock("recv", Lock("merger"), f, w)
    BY <2>1, <2>2, <2>3, <2>5, RankOfLock, StageOfLock DEF FitsLock, Lock, Below
  <2>8. Fits("recv", Lock("merger"), f, w)
    BY <2>1, <2>3, <2>7 DEF Fits
  <2>9. FitsUnlock("recv", Unlock("merger"), w, g)
    <3>1. w.locks \ {"merger"} = g.locks
      BY <2>2, <2>4
    <3> QED BY <2>4, <2>6, <3>1 DEF FitsUnlock, Unlock
  <2>10. Fits("recv", Unlock("merger"), w, g)
    BY <2>1, <2>4, <2>9 DEF Fits, Free
  <2>11. Use("mergers") \in Steps /\ Leads("recv", w, <<Use("mergers")>>, w)
    BY <2>1, <2>4, UseLeads
  <2>12. Lock("merger") \in Steps /\ Unlock("merger") \in Steps
    BY <2>1, RankIsNatural, StepTypes
  <2>13. /\ <<Lock("merger")>> \in Seq(Steps) /\ Leads("recv", f, <<Lock("merger")>>, w)
         /\ <<Unlock("merger")>> \in Seq(Steps) /\ Leads("recv", w, <<Unlock("merger")>>, g)
         /\ <<Use("mergers")>> \in Seq(Steps)
    BY <2>2, <2>3, <2>4, <2>8, <2>10, <2>11, <2>12, OneStepLeads
  <2>14. /\ <<Lock("merger")>> \o <<Use("mergers")>> \in Seq(Steps)
         /\ Leads("recv", f, <<Lock("merger")>> \o <<Use("mergers")>>, w)
    BY <2>11, <2>13, JoinedLeads, ConcatProperties
  <2>15. /\ (<<Lock("merger")>> \o <<Use("mergers")>>) \o <<Unlock("merger")>> \in Seq(Steps)
         /\ Leads("recv", f, (<<Lock("merger")>> \o <<Use("mergers")>>) \o <<Unlock("merger")>>, g)
    BY <2>13, <2>14, JoinedLeads, ConcatProperties
  <2> QED BY <1>2, <2>15 DEF MergerCall, Locked, f
<1> QED BY <1>1, <1>2 DEF CallbackCalls

\* A pass of the thread of the sources, and its end from inside it.
LEMMA SourcePassLeads ==
  ASSUME NEW g \in Positions, Free("tick", g), NetStages \subseteq g.up, g.locks = {}
  PROVE  /\ SourcePass \in Seq(Steps) /\ Leads("tick", g, SourcePass, g)
         /\ SourceEnd \in Seq(Steps) /\ Leads("tick", With(g, "source"), SourceEnd, Over(g))
<1> DEFINE w == With(g, "source")
<1>1. "source" \in Locks /\ "tick" \in LibraryThreads /\ "tick" \in Roles /\ "tick" # "recv"
      /\ "tick" \notin CallKinds
  BY DEF Locks, LibraryThreads, Roles, CallKinds
<1>2. /\ w \in Positions /\ w.locks = {"source"} /\ w.up = g.up /\ Free("tick", w)
      /\ Over(g) \in Positions /\ ~g.over /\ "dmx_merger" \notin g.up
  <2>1. w \in Positions /\ w.locks = {"source"} /\ w.up = g.up /\ Free("tick", w)
    BY <1>1, WithIsPosition
  <2>2. Over(g) \in Positions
    BY DEF Over, Positions
  <2> QED BY <1>1, <2>1, <2>2 DEF Free
<1>3. /\ Below(g, 3) /\ {"source_mutex", "source_mem"} \subseteq g.up
      /\ StageOf["source"] \in g.up /\ Below(g, Rank["source"])
  BY StagesAre, StageOfLock DEF Below
<1> HIDE DEF w
<1>4. SourceCall \in Seq(Steps) /\ Leads("tick", g, SourceCall, g)
  BY <1>1, <1>3, SourceCallLeads
<1>5. <<Leave("tick")>> \in Seq(Steps) /\ Leads("tick", w, <<Leave("tick")>>, w)
  <2>1. FitsLeave("tick", Leave("tick"), w, w)
    BY <1>1, <1>2, UsedAre DEF FitsLeave, Leave
  <2>2. Fits("tick", Leave("tick"), w, w)
    BY <1>1, <1>2, <2>1 DEF Fits, Free
  <2>3. Leave("tick") \in Steps
    BY <1>1, StepTypes DEF Names
  <2> QED BY <1>2, <2>2, <2>3, OneStepLeads
<1>6. /\ Locked("source", <<Leave("tick")>>) \in Seq(Steps)
      /\ Leads("tick", g, Locked("source", <<Leave("tick")>>), g)
  BY <1>1, <1>2, <1>3, <1>5, LockedLeads DEF w
<1>7. SourceCall \o SourceCall \in Seq(Steps) /\ Leads("tick", g, SourceCall \o SourceCall, g)
  BY <1>4, JoinedLeads, ConcatProperties
<1>8. SourcePass \in Seq(Steps) /\ Leads("tick", g, SourcePass, g)
  BY <1>6, <1>7, JoinedLeads, ConcatProperties DEF SourcePass
<1>9. Unlock("source") \in Steps /\ Leads("tick", w, <<Unlock("source")>>, g)
  <2>1. w.locks \ {"source"} = {}
    BY <1>2
  <2>2. [w EXCEPT !.locks = {}] = g
    BY DEF w, With, Positions
  <2>3. FitsUnlock("tick", Unlock("source"), w, g)
    BY <1>2, <2>1, <2>2 DEF FitsUnlock, Unlock
  <2>4. Fits("tick", Unlock("source"), w, g)
    BY <1>1, <1>2, <2>3 DEF Fits, Free
  <2>5. Unlock("source") \in Steps
    BY <1>1, RankIsNatural, StepTypes
  <2> QED BY <1>2, <2>4, <2>5, OneStepLeads
<1>10. End("tick") \in Steps /\ Leads("tick", g, <<End("tick")>>, Over(g))
  <2>1. FitsEnd("tick", End("tick"), g, Over(g))
    BY <1>1 DEF FitsEnd, End, Over
  <2>2. Fits("tick", End("tick"), g, Over(g))
    BY <1>1, <1>2, <2>1 DEF Fits
  <2>3. End("tick") \in Steps
    BY <1>1, StepTypes DEF Names
  <2> QED BY <1>2, <2>2, <2>3, OneStepLeads
<1>11. SourceEnd \in Seq(Steps) /\ Leads("tick", w, SourceEnd, Over(g))
  <2>1. <<Unlock("source")>> \o <<End("tick")>> = SourceEnd /\ SourceEnd \in Seq(Steps)
    BY <1>9, <1>10, TwoSteps DEF SourceEnd
  <2>2. <<Unlock("source")>> \in Seq(Steps) /\ <<End("tick")>> \in Seq(Steps)
    BY <1>9, <1>10
  <2> QED BY <1>9, <1>10, <2>1, <2>2, JoinedLeads
<1> QED BY <1>8, <1>11 DEF w

(***************************************************************************)
(* Taking the stages down, and bringing them up.                           *)
(***************************************************************************)

\* A position of an init or deinit between its stages.
Between(stages, ended) == Place({}, stages, {}, ended)

LEMMA SamePosition ==
  ASSUME NEW g \in Positions, NEW h \in Positions, g.locks = h.locks, g.up = h.up,
         g.asked = h.asked, g.ended = h.ended, g.over = h.over
  PROVE  g = h
  BY DEF Positions

LEMMA BetweenIsPosition ==
  ASSUME NEW stages \in SUBSET Stages, NEW ended \in SUBSET LibraryThreads,
         NEW role \in CallKinds
  PROVE  /\ Between(stages, ended) \in Positions /\ Between(stages, ended).locks = {}
         /\ Between(stages, ended).up = stages /\ Between(stages, ended).asked = {}
         /\ Between(stages, ended).ended = ended /\ ~Between(stages, ended).over
         /\ Free(role, Between(stages, ended)) /\ \A rank : Below(Between(stages, ended), rank)
         /\ role \in Roles \ LibraryThreads /\ role # "tick" /\ role # "none"
  BY DEF Between, Place, Positions, Free, Below, LibraryThreads, CallKinds, Roles

LEMMA DownLeads ==
  ASSUME NEW role \in {"failed", "deinit"}, NEW stages \in SUBSET Stages,
         NEW ended \in SUBSET LibraryThreads, NEW stage \in Stages,
         \A l \in LibraryThreads : stage \in UsedBy[l] => l \in ended
  PROVE  /\ <<Down(stage)>> \in Seq(Steps)
         /\ Leads(role, Between(stages, ended), <<Down(stage)>>, Between(stages \ {stage}, ended))
<1> DEFINE g == Between(stages, ended)
           h == Between(stages \ {stage}, ended)
<1>1. role \in CallKinds
  BY DEF CallKinds
<1>2. /\ g \in Positions /\ h \in Positions /\ g.locks = {} /\ g.up = stages /\ ~g.over
      /\ g.asked = {} /\ g.ended = ended /\ role \notin LibraryThreads
  BY <1>1, BetweenIsPosition
<1>3. h = [g EXCEPT !.up = stages \ {stage}]
  <2> DEFINE a == [g EXCEPT !.up = stages \ {stage}]
  <2>1. /\ h.locks = {} /\ h.up = stages \ {stage} /\ ~h.over /\ h.asked = {}
        /\ h.ended = ended /\ h \in Positions
    BY <1>1, BetweenIsPosition
  <2> HIDE DEF g, h
  <2>2. /\ a.locks = {} /\ a.up = stages \ {stage} /\ ~a.over /\ a.asked = {}
        /\ a.ended = ended /\ a \in Positions
    BY <1>2 DEF Positions
  <2> HIDE DEF a
  <2>3. a.over = h.over
    BY <2>1, <2>2 DEF Positions
  <2> QED BY <2>1, <2>2, <2>3, SamePosition DEF a
<1> HIDE DEF g, h
<1>4. FitsDown(role, Down(stage), g, h)
  BY <1>2, <1>3 DEF FitsDown, Down
<1>5. Fits(role, Down(stage), g, h)
  BY <1>2, <1>4 DEF Fits
<1>6. Down(stage) \in Steps
  BY StepTypes DEF Names
<1> QED BY <1>2, <1>5, <1>6, OneStepLeads DEF g, h

\* A stage whose end makes no use of the library's locks and data, or makes a
\* call that leaves everything as it is.
LEMMA StageLeads ==
  ASSUME NEW role \in {"failed", "deinit"}, NEW stages \in SUBSET Stages,
         NEW ended \in SUBSET LibraryThreads, NEW down \in SUBSET Stages, NEW stage \in Stages,
         NEW after \in SUBSET LibraryThreads,
         stage \in down =>
            /\ Ending(stage) \in Seq(Steps)
            /\ Leads(role, Between(stages, ended), Ending(stage), Between(stages, after))
            /\ \A l \in LibraryThreads : stage \in UsedBy[l] => l \in after,
         stage \notin down => after = ended
  PROVE  /\ TakeDown(stage, down) \in Seq(Steps)
         /\ Leads(role, Between(stages, ended), TakeDown(stage, down),
                  Between(stages \ ({stage} \cap down), after))
<1>1. CASE stage \in down
  <2>1. {stage} \cap down = {stage}
    BY <1>1
  <2>2. /\ <<Down(stage)>> \in Seq(Steps)
        /\ Leads(role, Between(stages, after), <<Down(stage)>>, Between(stages \ {stage}, after))
    BY <1>1, DownLeads
  <2>3. /\ Ending(stage) \o <<Down(stage)>> \in Seq(Steps)
        /\ Leads(role, Between(stages, ended), Ending(stage) \o <<Down(stage)>>,
                 Between(stages \ {stage}, after))
    BY <1>1, <2>2, JoinedLeads, ConcatProperties
  <2> QED BY <1>1, <2>1, <2>3 DEF TakeDown
<1>2. CASE stage \notin down
  <2>1. {stage} \cap down = {} /\ stages \ {} = stages
    BY <1>2
  <2>2. Between(stages, ended) \in Positions /\ << >> \in Seq(Steps)
    <3>1. role \in CallKinds /\ << >> \in Seq(Steps)
      BY DEF CallKinds
    <3>2. Between(stages, ended) \in Positions
      BY <3>1, BetweenIsPosition
    <3> QED BY <3>1, <3>2
  <2>3. TakeDown(stage, down) = << >>
    BY <1>2 DEF TakeDown
  <2>4. Leads(role, Between(stages, ended), << >>, Between(stages, ended))
    BY <2>2, NothingLeads
  <2> QED BY <1>2, <2>1, <2>2, <2>3, <2>4
<1> QED BY <1>1, <1>2

\* A thread of the library is told to end under its lock, and then joined.
LEMMA JoinLeads ==
  ASSUME NEW role \in {"failed", "deinit"}, NEW stages \in SUBSET Stages,
         NEW ended \in SUBSET LibraryThreads, NEW l \in LibraryThreads,
         StageOf[LockOf[l]] \in stages, NEW body \in Seq(Steps),
         Leads(role, With(Between(stages, ended), LockOf[l]), body,
               With(Between(stages, ended), LockOf[l]))
  PROVE  /\ Locked(LockOf[l], body \o <<Signal(l)>>) \o <<Join(l)>> \in Seq(Steps)
         /\ Leads(role, Between(stages, ended),
                  Locked(LockOf[l], body \o <<Signal(l)>>) \o <<Join(l)>>,
                  Between(stages, ended \cup {l}))
<1> DEFINE m == LockOf[l]
           g == Between(stages, ended)
           h == [g EXCEPT !.asked = {l}]
           j == Between(stages, ended \cup {l})
<1>1. role \in CallKinds /\ role \in Roles /\ m \in Locks /\ m \in Names
  BY UsedAre, RankIsNatural DEF CallKinds, Roles
<1>2. /\ g \in Positions /\ g.locks = {} /\ g.up = stages /\ ~g.over /\ g.asked = {}
      /\ g.ended = ended /\ Free(role, g) /\ Below(g, Rank[m])
      /\ role \notin LibraryThreads /\ role # "tick"
  BY <1>1, BetweenIsPosition
<1>3. ended \cup {l} \in SUBSET LibraryThreads
  OBVIOUS
<1>4. /\ j \in Positions /\ j.locks = {} /\ j.up = stages /\ ~j.over /\ j.asked = {}
      /\ j.ended = ended \cup {l}
  BY <1>1, <1>3, BetweenIsPosition
<1> HIDE DEF g, j
<1>5. /\ h \in Positions /\ h.locks = {} /\ h.up = stages /\ ~h.over /\ h.asked = {l}
      /\ h.ended = ended
  BY <1>2 DEF Positions
<1> DEFINE w == With(g, m)
           v == With(h, m)
<1>6. /\ w \in Positions /\ w.locks = {m} /\ w.up = stages /\ ~w.over /\ w.asked = {}
      /\ w.ended = ended
  BY <1>1, <1>2, WithIsPosition
<1>7. /\ v \in Positions /\ v.locks = {m} /\ v.up = stages /\ ~v.over /\ v.asked = {l}
      /\ v.ended = ended
  <2> HIDE DEF h
  <2> QED BY <1>1, <1>5, WithIsPosition
<1> HIDE DEF h, w, v
<1>8. v = [w EXCEPT !.asked = {l}]
  <2> DEFINE a == [w EXCEPT !.asked = {l}]
  <2>1. /\ a \in Positions /\ a.locks = {m} /\ a.up = stages /\ a.over = w.over
        /\ a.asked = {l} /\ a.ended = ended
    BY <1>6 DEF Positions
  <2> HIDE DEF a
  <2>2. a.over = v.over
    BY <1>6, <1>7, <2>1 DEF Positions
  <2> QED BY <1>7, <2>1, <2>2, SamePosition DEF a
<1>9. j = [h EXCEPT !.asked = {}, !.ended = h.ended \cup {l}]
  <2> DEFINE a == [h EXCEPT !.asked = {}, !.ended = h.ended \cup {l}]
  <2>1. /\ a \in Positions /\ a.locks = {} /\ a.up = stages /\ a.over = h.over
        /\ a.asked = {} /\ a.ended = ended \cup {l}
    BY <1>5 DEF Positions
  <2> HIDE DEF a
  <2>2. a.over = j.over
    BY <1>4, <1>5, <2>1 DEF Positions
  <2> QED BY <1>4, <2>1, <2>2, SamePosition DEF a
<1>10. <<Signal(l)>> \in Seq(Steps) /\ Leads(role, w, <<Signal(l)>>, v)
  <2>1. FitsSignal(role, Signal(l), w, v)
    BY <1>1, <1>6, <1>8 DEF FitsSignal, Signal, m
  <2>2. Fits(role, Signal(l), w, v)
    BY <1>2, <1>6, <2>1 DEF Fits
  <2>3. Signal(l) \in Steps
    BY StepTypes DEF Names
  <2> QED BY <1>6, <1>7, <2>2, <2>3, OneStepLeads
<1>11. <<Join(l)>> \in Seq(Steps) /\ Leads(role, h, <<Join(l)>>, j)
  <2>1. FitsJoin(role, Join(l), h, j)
    BY <1>1, <1>5, <1>9 DEF FitsJoin, Join
  <2>2. Join(l).op = "join"
    BY DEF Join
  <2>3. Fits(role, Join(l), h, j)
    BY <1>2, <1>5, <2>1, <2>2 DEF Fits
  <2>4. Join(l) \in Steps
    BY StepTypes DEF Names
  <2> QED BY <1>4, <1>5, <2>3, <2>4, OneStepLeads
<1>12. body \o <<Signal(l)>> \in Seq(Steps) /\ Leads(role, w, body \o <<Signal(l)>>, v)
  BY <1>10, JoinedLeads, ConcatProperties DEF w, g, m
<1>13. /\ Locked(m, body \o <<Signal(l)>>) \in Seq(Steps)
       /\ Leads(role, g, Locked(m, body \o <<Signal(l)>>), h)
  BY <1>1, <1>2, <1>5, <1>12, LockedLeads DEF w, v, m
<1>14. /\ Locked(m, body \o <<Signal(l)>>) \o <<Join(l)>> \in Seq(Steps)
       /\ Leads(role, g, Locked(m, body \o <<Signal(l)>>) \o <<Join(l)>>, j)
  BY <1>11, <1>13, JoinedLeads, ConcatProperties
<1> QED BY <1>14 DEF g, j, m

LEMMA JoinReceiverLeads ==
  ASSUME NEW role \in {"failed", "deinit"}, NEW stages \in SUBSET Stages,
         NEW ended \in SUBSET LibraryThreads,
         {"receiver_mutex", "receiver_mem"} \subseteq stages
  PROVE  /\ JoinReceiver \in Seq(Steps)
         /\ Leads(role, Between(stages, ended), JoinReceiver, Between(stages, ended \cup {"recv"}))
<1> DEFINE g == Between(stages, ended)
           j == Between(stages, ended \cup {"recv"})
           w == With(g, "receiver")
<1>1. role \in CallKinds /\ role \in Roles /\ "recv" \in LibraryThreads /\ "receiver" \in Locks
      /\ LockOf["recv"] = "receiver" /\ "receivers" \in Names
  BY UsedAre DEF CallKinds, Roles, LibraryThreads, Locks, Names
<1>2. /\ g \in Positions /\ g.up = stages /\ Free(role, g) /\ role # "tick"
  BY <1>1, BetweenIsPosition
<1>3. PICK after \in SUBSET LibraryThreads : after = ended \cup {"recv"}
  BY <1>1
<1>4. j \in Positions /\ j.up = stages /\ Free(role, j) /\ Below(j, 3)
  <2> DEFINE k == Between(stages, after)
  <2>1. k \in Positions /\ k.up = stages /\ Free(role, k) /\ k.locks = {}
    BY <1>1, BetweenIsPosition
  <2>2. k = j
    BY <1>3
  <2> HIDE DEF j, k
  <2> QED BY <2>1, <2>2 DEF Below
<1> HIDE DEF g, j
<1>5. w \in Positions /\ Free(role, w) /\ "receiver" \in w.locks /\ "receiver_mem" \in w.up
  BY <1>1, <1>2, WithIsPosition
<1> HIDE DEF w
<1>6. Use("receivers") \in Steps /\ Leads(role, w, <<Use("receivers")>>, w)
  BY <1>1, <1>2, <1>5, UseLeads
<1>7. <<Use("receivers")>> \in Seq(Steps) /\ Signal("recv") \in Steps
  BY <1>1, <1>6, StepTypes DEF Names
<1>8. <<Use("receivers")>> \o <<Signal("recv")>> = <<Use("receivers"), Signal("recv")>>
  BY <1>6, <1>7, TwoSteps
<1> DEFINE s == Locked("receiver", <<Use("receivers"), Signal("recv")>>) \o <<Join("recv")>>
<1>9. s \in Seq(Steps) /\ Leads(role, g, s, j)
  <2>1. StageOf[LockOf["recv"]] \in stages
    BY <1>1, StageOfLock
  <2> QED BY <1>1, <1>6, <1>7, <1>8, <2>1, JoinLeads DEF g, j, w
<1> HIDE DEF s
<1>10. ReceiverCall \in Seq(Steps) /\ Leads(role, j, ReceiverCall, j)
  BY <1>1, <1>2, <1>4, ReceiverCallLeads
<1>11. s \o ReceiverCall \in Seq(Steps) /\ Leads(role, g, s \o ReceiverCall, j)
  BY <1>9, <1>10, JoinedLeads, ConcatProperties
<1> QED BY <1>11 DEF JoinReceiver, s, g, j

LEMMA JoinSourceLeads ==
  ASSUME NEW role \in {"failed", "deinit"}, NEW stages \in SUBSET Stages,
         NEW ended \in SUBSET LibraryThreads,
         {"source_mutex", "source_mem"} \subseteq stages
  PROVE  /\ JoinSource \in Seq(Steps)
         /\ Leads(role, Between(stages, ended), JoinSource, Between(stages, ended \cup {"tick"}))
<1> DEFINE g == Between(stages, ended)
           j == Between(stages, ended \cup {"tick"})
           w == With(g, "source")
<1>1. role \in CallKinds /\ role \in Roles /\ "tick" \in LibraryThreads /\ "source" \in Locks
      /\ LockOf["tick"] = "source"
  BY UsedAre DEF CallKinds, Roles, LibraryThreads, Locks
<1>2. g \in Positions /\ g.up = stages /\ Free(role, g) /\ Below(g, 3)
  BY <1>1, BetweenIsPosition
<1> HIDE DEF g, j
<1>3. w \in Positions
  BY <1>1, <1>2, WithIsPosition
<1> HIDE DEF w
<1>4. SourceCall \in Seq(Steps) /\ Leads(role, g, SourceCall, g)
  BY <1>1, <1>2, SourceCallLeads
<1>5. << >> \in Seq(Steps) /\ Leads(role, w, << >>, w)
  BY <1>3, NothingLeads
<1>6. << >> \o <<Signal("tick")>> = <<Signal("tick")>>
  <2>1. <<Signal("tick")>> \in Seq(Steps)
    BY <1>1, StepTypes DEF Names
  <2> QED BY <2>1, ConcatEmptySeq
<1> DEFINE a == Locked("source", <<Signal("tick")>>)
<1>7. a \o <<Join("tick")>> \in Seq(Steps) /\ Leads(role, g, a \o <<Join("tick")>>, j)
  <2>1. StageOf[LockOf["tick"]] \in stages
    BY <1>1, StageOfLock
  <2> QED BY <1>1, <1>5, <1>6, <2>1, JoinLeads DEF g, j, w
<1>8. (SourceCall \o a) \o <<Join("tick")>> = SourceCall \o (a \o <<Join("tick")>>)
  <2>1. "tick" \in Names /\ <<Signal("tick")>> \in Seq(Steps) /\ <<Join("tick")>> \in Seq(Steps)
    BY <1>1, StepTypes DEF Names
  <2>2. a \in Seq(Steps)
    BY <1>1, <2>1, LockedElements
  <2> HIDE DEF a
  <2> QED BY <1>4, <2>1, <2>2, ConcatAssociative
<1> HIDE DEF a
<1>9. /\ SourceCall \o (a \o <<Join("tick")>>) \in Seq(Steps)
      /\ Leads(role, g, SourceCall \o (a \o <<Join("tick")>>), j)
  BY <1>4, <1>7, JoinedLeads, ConcatProperties
<1> QED BY <1>8, <1>9 DEF JoinSource, a, g, j

\* The steps take an init or deinit from one place between stages to another.
Brings(role, stages, ended, steps, left, after) ==
    /\ steps \in Seq(Steps)
    /\ Leads(role, Between(stages, ended), steps, Between(left, after))

\* The stages that are left when some of those to take down are done.
Left(stages, done, down) == stages \ (done \cap down)

LEMMA NextStage ==
  ASSUME NEW role \in {"failed", "deinit"}, NEW stages \in SUBSET Stages, NEW ended,
         NEW down \in SUBSET Stages, NEW done, NEW stage \in Stages,
         NEW before \in SUBSET LibraryThreads, NEW after \in SUBSET LibraryThreads,
         NEW steps, Brings(role, stages, ended, steps, Left(stages, done, down), before),
         stage \in down =>
            /\ Brings(role, Left(stages, done, down), before, Ending(stage),
                      Left(stages, done, down), after)
            /\ \A l \in LibraryThreads : stage \in UsedBy[l] => l \in after,
         stage \notin down => after = before
  PROVE  Brings(role, stages, ended, steps \o TakeDown(stage, down),
                Left(stages, done \cup {stage}, down), after)
<1>1. PICK left \in SUBSET Stages : left = Left(stages, done, down)
  BY DEF Left
<1>2. /\ TakeDown(stage, down) \in Seq(Steps)
      /\ Leads(role, Between(left, before), TakeDown(stage, down),
               Between(left \ ({stage} \cap down), after))
  BY <1>1, StageLeads DEF Brings
<1>3. left \ ({stage} \cap down) = Left(stages, done \cup {stage}, down)
  BY <1>1 DEF Left
<1> QED BY <1>1, <1>2, <1>3, JoinedLeads, ConcatProperties DEF Brings

\* A stage whose end makes no use of locks and data.
LEMMA NextPlainStage ==
  ASSUME NEW role \in {"failed", "deinit"}, NEW stages \in SUBSET Stages, NEW ended,
         NEW down \in SUBSET Stages, NEW done, NEW stage \in Stages, Ending(stage) = << >>,
         NEW after \in SUBSET LibraryThreads,
         NEW steps, Brings(role, stages, ended, steps, Left(stages, done, down), after),
         stage \in down => \A l \in LibraryThreads : stage \in UsedBy[l] => l \in after
  PROVE  Brings(role, stages, ended, steps \o TakeDown(stage, down),
                Left(stages, done \cup {stage}, down), after)
<1>1. Brings(role, Left(stages, done, down), after, << >>, Left(stages, done, down), after)
  <2>1. PICK left \in SUBSET Stages : left = Left(stages, done, down)
    BY DEF Left
  <2>2. role \in CallKinds /\ << >> \in Seq(Steps)
    BY DEF CallKinds
  <2>3. Between(left, after) \in Positions
    BY <2>2, BetweenIsPosition
  <2> QED BY <2>1, <2>2, <2>3, NothingLeads DEF Brings
<1> QED BY <1>1, NextStage

LEMMA EndingsAre ==
  /\ Ending("dmx_merger") = MergerCall /\ Ending("source_state") = JoinSource
  /\ Ending("receiver_state") = JoinReceiver /\ Ending("merge_receiver_mem") = ReceiverCall
  /\ Ending("source_mem") = SourceCall /\ Ending("receiver_mem") = <<Use("receivers")>>
  /\ Ending("source_detector_mem") = <<Use("receivers")>>
  /\ \A stage \in {"source", "receiver", "source_loss", "source_detector",
                   "source_detector_state", "merge_receiver", "sockets", "source_mutex",
                   "receiver_mutex", "netints", "timers", "etcpal_sockets", "logging"} :
        Ending(stage) = << >>
  BY DEF Ending

\* What is done before the stages that call the library.
LEMMA EndingsBring ==
  ASSUME NEW role \in {"failed", "deinit"}, NEW left \in SUBSET Stages,
         NEW ended \in SUBSET LibraryThreads
  PROVE  /\ "dmx_merger" \in left => Brings(role, left, ended, MergerCall, left, ended)
         /\ {"receiver_mutex", "receiver_mem"} \subseteq left =>
                Brings(role, left, ended, ReceiverCall, left, ended)
         /\ {"source_mutex", "source_mem"} \subseteq left =>
                Brings(role, left, ended, SourceCall, left, ended)
         /\ "receiver_mem" \in left /\ "recv" \in ended =>
                Brings(role, left, ended, <<Use("receivers")>>, left, ended)
         /\ {"source_mutex", "source_mem"} \subseteq left =>
                Brings(role, left, ended, JoinSource, left, ended \cup {"tick"})
         /\ {"receiver_mutex", "receiver_mem"} \subseteq left =>
                Brings(role, left, ended, JoinReceiver, left, ended \cup {"recv"})
<1> DEFINE g == Between(left, ended)
<1>1. role \in CallKinds
  BY DEF CallKinds
<1>2. /\ g \in Positions /\ g.up = left /\ g.ended = ended /\ Free(role, g) /\ g.locks = {}
      /\ role \in Roles \ LibraryThreads /\ role # "tick"
  BY <1>1, BetweenIsPosition
<1> HIDE DEF g
<1>3. Below(g, 3)
  BY <1>2 DEF Below
<1>4. "dmx_merger" \in left => Brings(role, left, ended, MergerCall, left, ended)
  BY <1>2, <1>3, MergerCallLeads DEF Brings, g
<1>5. {"receiver_mutex", "receiver_mem"} \subseteq left =>
         Brings(role, left, ended, ReceiverCall, left, ended)
  BY <1>2, <1>3, ReceiverCallLeads DEF Brings, g
<1>6. {"source_mutex", "source_mem"} \subseteq left =>
         Brings(role, left, ended, SourceCall, left, ended)
  BY <1>2, <1>3, SourceCallLeads DEF Brings, g
<1>7. "receiver_mem" \in left /\ "recv" \in ended =>
         Brings(role, left, ended, <<Use("receivers")>>, left, ended)
  <2> SUFFICES ASSUME "receiver_mem" \in left, "recv" \in ended
               PROVE  Brings(role, left, ended, <<Use("receivers")>>, left, ended)
    OBVIOUS
  <2>1. Use("receivers") \in Steps /\ Leads(role, g, <<Use("receivers")>>, g)
    BY <1>1, <1>2, UseLeads
  <2>2. <<Use("receivers")>> \in Seq(Steps)
    BY <2>1
  <2> QED BY <2>1, <2>2 DEF Brings, g
<1>8. {"source_mutex", "source_mem"} \subseteq left =>
         Brings(role, left, ended, JoinSource, left, ended \cup {"tick"})
  BY JoinSourceLeads DEF Brings
<1>9. {"receiver_mutex", "receiver_mem"} \subseteq left =>
         Brings(role, left, ended, JoinReceiver, left, ended \cup {"recv"})
  BY JoinReceiverLeads DEF Brings
<1> QED BY <1>4, <1>5, <1>6, <1>7, <1>8, <1>9

\* Taking stages down, the last one first, keeps to the order of the locks,
\* never takes a lock or uses data whose stage is down, and ends with these
\* stages down and the threads that use them ended.
LEMMA DownAllLeads ==
  ASSUME NEW role \in {"failed", "deinit"}, NEW stages \in SUBSET Stages,
         NEW ended \in SUBSET LibraryThreads, NEW down \in SUBSET stages, Grounded(down),
         NEW after \in SUBSET LibraryThreads,
         after = ended \cup {l \in LibraryThreads :
                    (IF l = "tick" THEN "source_state" ELSE "receiver_state") \in down},
         down \cap NetStages = {} \/ after = LibraryThreads
  PROVE  Brings(role, stages, ended, DownAll(down), stages \ down, after)
<1> DEFINE tickEnded == ended \cup (IF "source_state" \in down THEN {"tick"} ELSE {})
           d1 == {} \cup {"dmx_merger"}
           s1 == << >> \o TakeDown("dmx_merger", down)
           d2 == d1 \cup {"source"}
           s2 == s1 \o TakeDown("source", down)
           d3 == d2 \cup {"source_state"}
           s3 == s2 \o TakeDown("source_state", down)
           d4 == d3 \cup {"receiver"}
           s4 == s3 \o TakeDown("receiver", down)
           d5 == d4 \cup {"receiver_state"}
           s5 == s4 \o TakeDown("receiver_state", down)
           d6 == d5 \cup {"source_loss"}
           s6 == s5 \o TakeDown("source_loss", down)
           d7 == d6 \cup {"source_detector"}
           s7 == s6 \o TakeDown("source_detector", down)
           d8 == d7 \cup {"source_detector_state"}
           s8 == s7 \o TakeDown("source_detector_state", down)
           d9 == d8 \cup {"merge_receiver"}
           s9 == s8 \o TakeDown("merge_receiver", down)
           d10 == d9 \cup {"sockets"}
           s10 == s9 \o TakeDown("sockets", down)
           d11 == d10 \cup {"source_detector_mem"}
           s11 == s10 \o TakeDown("source_detector_mem", down)
           d12 == d11 \cup {"merge_receiver_mem"}
           s12 == s11 \o TakeDown("merge_receiver_mem", down)
           d13 == d12 \cup {"source_mem"}
           s13 == s12 \o TakeDown("source_mem", down)
           d14 == d13 \cup {"receiver_mem"}
           s14 == s13 \o TakeDown("receiver_mem", down)
           d15 == d14 \cup {"source_mutex"}
           s15 == s14 \o TakeDown("source_mutex", down)
           d16 == d15 \cup {"receiver_mutex"}
           s16 == s15 \o TakeDown("receiver_mutex", down)
           d17 == d16 \cup {"netints"}
           s17 == s16 \o TakeDown("netints", down)
           d18 == d17 \cup {"timers"}
           s18 == s17 \o TakeDown("timers", down)
           d19 == d18 \cup {"etcpal_sockets"}
           s19 == s18 \o TakeDown("etcpal_sockets", down)
           d20 == d19 \cup {"logging"}
           s20 == s19 \o TakeDown("logging", down)
<1> DEFINE Done(steps, done, e) == Brings(role, stages, ended, steps, Left(stages, done, down), e)
<1>1. /\ Done(<< >>, {}, ended) /\ role \in CallKinds /\ tickEnded \in SUBSET LibraryThreads
      /\ down \in SUBSET Stages /\ \A done : Left(stages, done, down) \in SUBSET Stages
  <2>1. Left(stages, {}, down) = stages /\ role \in CallKinds /\ << >> \in Seq(Steps)
    BY DEF Left, CallKinds
  <2>2. Between(stages, ended) \in Positions
    BY <2>1, BetweenIsPosition
  <2>3. Done(<< >>, {}, ended)
    BY <2>1, <2>2, NothingLeads DEF Brings
  <2> QED BY <2>1, <2>3 DEF Left, LibraryThreads
<1>2. after = tickEnded \cup (IF "receiver_state" \in down THEN {"recv"} ELSE {})
  BY DEF LibraryThreads
<1>3. /\ "source_state" \in down => {"source_mutex", "source_mem"} \subseteq down
      /\ "receiver_state" \in down => {"receiver_mutex", "receiver_mem"} \subseteq down
      /\ "merge_receiver_mem" \in down => {"receiver_mutex", "receiver_mem"} \subseteq down
      /\ "source_mem" \in down => "source_mutex" \in down
      /\ "source_detector_mem" \in down => "receiver_mem" \in down
  BY DEF Grounded, Needs
<1>4. \A stage \in down \cap NetStages : LibraryThreads \subseteq after
  OBVIOUS
<1>5. \A stage \in Stages : \A l \in LibraryThreads :
         stage \in down /\ stage \in UsedBy[l] => l \in after
  BY <1>4, UsedAre
<1> HIDE DEF Done, tickEnded
<1> HIDE DEF d1, s1, d2, s2, d3, s3, d4, s4, d5, s5, d6, s6, d7, s7, d8, s8, d9, s9, d10, s10, d11, s11, d12, s12, d13, s13, d14, s14, d15, s15, d16, s16, d17, s17, d18, s18, d19, s19, d20, s20
<1>6. Done(s1, d1, ended)
  <2>1. "dmx_merger" \in down => "dmx_merger" \in Left(stages, {}, down)
    BY <1>1, <1>3, <1>4, StagesAre DEF Left, LibraryThreads
  <2>2. "dmx_merger" \in down =>
           Brings(role, Left(stages, {}, down), ended, Ending("dmx_merger"),
                  Left(stages, {}, down), ended)
    BY <1>1, <1>2, <2>1, EndingsBring, EndingsAre DEF tickEnded
  <2>3. /\ "dmx_merger" \in Stages /\ ("dmx_merger" \notin down => ended = ended)
        /\ "dmx_merger" \in down => \A l \in LibraryThreads : "dmx_merger" \in UsedBy[l] => l \in ended
    BY <1>2, <1>5, UsedAre, StagesAre DEF LibraryThreads, tickEnded
  <2> QED BY <1>1, <1>1, <2>2, <2>3, NextStage DEF Done, d1, s1
<1>7. Done(s2, d2, ended)
  <2>1. /\ "source" \in Stages /\ Ending("source") = << >>
        /\ "source" \in down => \A l \in LibraryThreads : "source" \in UsedBy[l] => l \in ended
    BY <1>5, UsedAre, StagesAre, EndingsAre DEF LibraryThreads
  <2> QED BY <1>1, <1>6, <2>1, NextPlainStage DEF Done, d2, s2
<1>8. Done(s3, d3, tickEnded)
  <2>1. "source_state" \in down => {"source_mutex", "source_mem"} \subseteq Left(stages, d2, down)
    BY <1>1, <1>3, <1>4, StagesAre DEF Left, LibraryThreads, d1, d2
  <2>2. ASSUME "source_state" \in down
        PROVE  Brings(role, Left(stages, d2, down), ended, Ending("source_state"),
                      Left(stages, d2, down), tickEnded)
    <3>1. tickEnded = ended \cup {"tick"}
      BY <2>2 DEF tickEnded
    <3>2. PICK left \in SUBSET Stages : left = Left(stages, d2, down)
      BY <1>1
    <3>3. {"source_mutex", "source_mem"} \subseteq left
      BY <2>1, <2>2, <3>2
    <3>4. Brings(role, left, ended, JoinSource, left, ended \cup {"tick"})
      BY <1>1, <3>3, EndingsBring
    <3> QED BY <3>1, <3>2, <3>4, EndingsAre
  <2>3. /\ "source_state" \in Stages /\ ("source_state" \notin down => tickEnded = ended)
        /\ "source_state" \in down => \A l \in LibraryThreads : "source_state" \in UsedBy[l] => l \in tickEnded
    BY <1>2, <1>5, UsedAre, StagesAre DEF LibraryThreads, tickEnded
  <2> QED BY <1>1, <1>7, <2>2, <2>3, NextStage DEF Done, d3, s3
<1>9. Done(s4, d4, tickEnded)
  <2>1. /\ "receiver" \in Stages /\ Ending("receiver") = << >>
        /\ "receiver" \in down => \A l \in LibraryThreads : "receiver" \in UsedBy[l] => l \in tickEnded
    BY <1>5, UsedAre, StagesAre, EndingsAre DEF LibraryThreads
  <2> QED BY <1>1, <1>8, <2>1, NextPlainStage DEF Done, d4, s4
<1>10. Done(s5, d5, after)
  <2>1. "receiver_state" \in down => {"receiver_mutex", "receiver_mem"} \subseteq Left(stages, d4, down)
    BY <1>1, <1>3, <1>4, StagesAre DEF Left, LibraryThreads, d1, d2, d3, d4
  <2>2. ASSUME "receiver_state" \in down
        PROVE  Brings(role, Left(stages, d4, down), tickEnded, Ending("receiver_state"),
                      Left(stages, d4, down), after)
    <3>1. after = tickEnded \cup {"recv"}
      BY <2>2, <1>2
    <3>2. PICK left \in SUBSET Stages : left = Left(stages, d4, down)
      BY <1>1
    <3>3. {"receiver_mutex", "receiver_mem"} \subseteq left
      BY <2>1, <2>2, <3>2
    <3>4. Brings(role, left, tickEnded, JoinReceiver, left, tickEnded \cup {"recv"})
      BY <1>1, <3>3, EndingsBring
    <3> QED BY <3>1, <3>2, <3>4, EndingsAre
  <2>3. /\ "receiver_state" \in Stages /\ ("receiver_state" \notin down => after = tickEnded)
        /\ "receiver_state" \in down => \A l \in LibraryThreads : "receiver_state" \in UsedBy[l] => l \in after
    BY <1>2, <1>5, UsedAre, StagesAre DEF LibraryThreads, tickEnded
  <2> QED BY <1>1, <1>9, <2>2, <2>3, NextStage DEF Done, d5, s5
<1>11. Done(s6, d6, after)
  <2>1. /\ "source_loss" \in Stages /\ Ending("source_loss") = << >>
        /\ "source_loss" \in down => \A l \in LibraryThreads : "source_loss" \in UsedBy[l] => l \in after
    BY <1>5, UsedAre, StagesAre, EndingsAre DEF LibraryThreads
  <2> QED BY <1>1, <1>10, <2>1, NextPlainStage DEF Done, d6, s6
<1>12. Done(s7, d7, after)
  <2>1. /\ "source_detector" \in Stages /\ Ending("source_detector") = << >>
        /\ "source_detector" \in down => \A l \in LibraryThreads : "source_detector" \in UsedBy[l] => l \in after
    BY <1>5, UsedAre, StagesAre, EndingsAre DEF LibraryThreads
  <2> QED BY <1>1, <1>11, <2>1, NextPlainStage DEF Done, d7, s7
<1>13. Done(s8, d8, after)
  <2>1. /\ "source_detector_state" \in Stages /\ Ending("source_detector_state") = << >>
        /\ "source_detector_state" \in down => \A l \in LibraryThreads : "source_detector_state" \in UsedBy[l] => l \in after
    BY <1>5, UsedAre, StagesAre, EndingsAre DEF LibraryThreads
  <2> QED BY <1>1, <1>12, <2>1, NextPlainStage DEF Done, d8, s8
<1>14. Done(s9, d9, after)
  <2>1. /\ "merge_receiver" \in Stages /\ Ending("merge_receiver") = << >>
        /\ "merge_receiver" \in down => \A l \in LibraryThreads : "merge_receiver" \in UsedBy[l] => l \in after
    BY <1>5, UsedAre, StagesAre, EndingsAre DEF LibraryThreads
  <2> QED BY <1>1, <1>13, <2>1, NextPlainStage DEF Done, d9, s9
<1>15. Done(s10, d10, after)
  <2>1. /\ "sockets" \in Stages /\ Ending("sockets") = << >>
        /\ "sockets" \in down => \A l \in LibraryThreads : "sockets" \in UsedBy[l] => l \in after
    BY <1>5, UsedAre, StagesAre, EndingsAre DEF LibraryThreads
  <2> QED BY <1>1, <1>14, <2>1, NextPlainStage DEF Done, d10, s10
<1>16. Done(s11, d11, after)
  <2>1. "source_detector_mem" \in down => "receiver_mem" \in Left(stages, d10, down) /\ "recv" \in after
    BY <1>1, <1>3, <1>4, StagesAre DEF Left, LibraryThreads, d1, d2, d3, d4, d5, d6, d7, d8, d9, d10
  <2>2. "source_detector_mem" \in down =>
           Brings(role, Left(stages, d10, down), after, Ending("source_detector_mem"),
                  Left(stages, d10, down), after)
    BY <1>1, <1>2, <2>1, EndingsBring, EndingsAre DEF tickEnded
  <2>3. /\ "source_detector_mem" \in Stages /\ ("source_detector_mem" \notin down => after = after)
        /\ "source_detector_mem" \in down => \A l \in LibraryThreads : "source_detector_mem" \in UsedBy[l] => l \in after
    BY <1>2, <1>5, UsedAre, StagesAre DEF LibraryThreads, tickEnded
  <2> QED BY <1>1, <1>15, <2>2, <2>3, NextStage DEF Done, d11, s11
<1>17. Done(s12, d12, after)
  <2>1. "merge_receiver_mem" \in down => {"receiver_mutex", "receiver_mem"} \subseteq Left(stages, d11, down)
    BY <1>1, <1>3, <1>4, StagesAre DEF Left, LibraryThreads, d1, d2, d3, d4, d5, d6, d7, d8, d9, d10, d11
  <2>2. "merge_receiver_mem" \in down =>
           Brings(role, Left(stages, d11, down), after, Ending("merge_receiver_mem"),
                  Left(stages, d11, down), after)
    BY <1>1, <1>2, <2>1, EndingsBring, EndingsAre DEF tickEnded
  <2>3. /\ "merge_receiver_mem" \in Stages /\ ("merge_receiver_mem" \notin down => after = after)
        /\ "merge_receiver_mem" \in down => \A l \in LibraryThreads : "merge_receiver_mem" \in UsedBy[l] => l \in after
    BY <1>2, <1>5, UsedAre, StagesAre DEF LibraryThreads, tickEnded
  <2> QED BY <1>1, <1>16, <2>2, <2>3, NextStage DEF Done, d12, s12
<1>18. Done(s13, d13, after)
  <2>1. "source_mem" \in down => {"source_mutex", "source_mem"} \subseteq Left(stages, d12, down)
    BY <1>1, <1>3, <1>4, StagesAre DEF Left, LibraryThreads, d1, d2, d3, d4, d5, d6, d7, d8, d9, d10, d11, d12
  <2>2. "source_mem" \in down =>
           Brings(role, Left(stages, d12, down), after, Ending("source_mem"),
                  Left(stages, d12, down), after)
    BY <1>1, <1>2, <2>1, EndingsBring, EndingsAre DEF tickEnded
  <2>3. /\ "source_mem" \in Stages /\ ("source_mem" \notin down => after = after)
        /\ "source_mem" \in down => \A l \in LibraryThreads : "source_mem" \in UsedBy[l] => l \in after
    BY <1>2, <1>5, UsedAre, StagesAre DEF LibraryThreads, tickEnded
  <2> QED BY <1>1, <1>17, <2>2, <2>3, NextStage DEF Done, d13, s13
<1>19. Done(s14, d14, after)
  <2>1. "receiver_mem" \in down => "receiver_mem" \in Left(stages, d13, down) /\ "recv" \in after
    BY <1>1, <1>3, <1>4, StagesAre DEF Left, LibraryThreads, d1, d2, d3, d4, d5, d6, d7, d8, d9, d10, d11, d12, d13
  <2>2. "receiver_mem" \in down =>
           Brings(role, Left(stages, d13, down), after, Ending("receiver_mem"),
                  Left(stages, d13, down), after)
    BY <1>1, <1>2, <2>1, EndingsBring, EndingsAre DEF tickEnded
  <2>3. /\ "receiver_mem" \in Stages /\ ("receiver_mem" \notin down => after = after)
        /\ "receiver_mem" \in down => \A l \in LibraryThreads : "receiver_mem" \in UsedBy[l] => l \in after
    BY <1>2, <1>5, UsedAre, StagesAre DEF LibraryThreads, tickEnded
  <2> QED BY <1>1, <1>18, <2>2, <2>3, NextStage DEF Done, d14, s14
<1>20. Done(s15, d15, after)
  <2>1. /\ "source_mutex" \in Stages /\ Ending("source_mutex") = << >>
        /\ "source_mutex" \in down => \A l \in LibraryThreads : "source_mutex" \in UsedBy[l] => l \in after
    BY <1>5, UsedAre, StagesAre, EndingsAre DEF LibraryThreads
  <2> QED BY <1>1, <1>19, <2>1, NextPlainStage DEF Done, d15, s15
<1>21. Done(s16, d16, after)
  <2>1. /\ "receiver_mutex" \in Stages /\ Ending("receiver_mutex") = << >>
        /\ "receiver_mutex" \in down => \A l \in LibraryThreads : "receiver_mutex" \in UsedBy[l] => l \in after
    BY <1>5, UsedAre, StagesAre, EndingsAre DEF LibraryThreads
  <2> QED BY <1>1, <1>20, <2>1, NextPlainStage DEF Done, d16, s16
<1>22. Done(s17, d17, after)
  <2>1. /\ "netints" \in Stages /\ Ending("netints") = << >>
        /\ "netints" \in down => \A l \in LibraryThreads : "netints" \in UsedBy[l] => l \in after
    BY <1>5, UsedAre, StagesAre, EndingsAre DEF LibraryThreads
  <2> QED BY <1>1, <1>21, <2>1, NextPlainStage DEF Done, d17, s17
<1>23. Done(s18, d18, after)
  <2>1. /\ "timers" \in Stages /\ Ending("timers") = << >>
        /\ "timers" \in down => \A l \in LibraryThreads : "timers" \in UsedBy[l] => l \in after
    BY <1>5, UsedAre, StagesAre, EndingsAre DEF LibraryThreads
  <2> QED BY <1>1, <1>22, <2>1, NextPlainStage DEF Done, d18, s18
<1>24. Done(s19, d19, after)
  <2>1. /\ "etcpal_sockets" \in Stages /\ Ending("etcpal_sockets") = << >>
        /\ "etcpal_sockets" \in down => \A l \in LibraryThreads : "etcpal_sockets" \in UsedBy[l] => l \in after
    BY <1>5, UsedAre, StagesAre, EndingsAre DEF LibraryThreads
  <2> QED BY <1>1, <1>23, <2>1, NextPlainStage DEF Done, d19, s19
<1>25. Done(s20, d20, after)
  <2>1. /\ "logging" \in Stages /\ Ending("logging") = << >>
        /\ "logging" \in down => \A l \in LibraryThreads : "logging" \in UsedBy[l] => l \in after
    BY <1>5, UsedAre, StagesAre, EndingsAre DEF LibraryThreads
  <2> QED BY <1>1, <1>24, <2>1, NextPlainStage DEF Done, d20, s20
<1>26. Left(stages, d20, down) = stages \ down
  BY <1>1, StagesAre DEF Left, d1, d2, d3, d4, d5, d6, d7, d8, d9, d10, d11, d12, d13, d14, d15, d16, d17, d18, d19, d20
<1> QED BY <1>25, <1>26 DEF DownAll, Done, s1, s2, s3, s4, s5, s6, s7, s8, s9, s10, s11, s12, s13, s14, s15, s16, s17, s18, s19, s20

\* A thread between two stages is at a position.
LEMMA BetweenHas ==
  ASSUME NEW stages \in SUBSET Stages, NEW ended \in SUBSET LibraryThreads
  PROVE  /\ Between(stages, ended) \in Positions /\ Between(stages, ended).locks = {}
         /\ Between(stages, ended).up = stages /\ Between(stages, ended).asked = {}
         /\ Between(stages, ended).ended = ended /\ ~Between(stages, ended).over
  BY DEF Between, Place, Positions

LEMMA UpFits ==
  ASSUME NEW stages \in SUBSET Stages, NEW ended \in SUBSET LibraryThreads,
         NEW stage \in Stages \ stages, Needs(stage) \subseteq stages,
         stage \in NetStages => ended = LibraryThreads
  PROVE  /\ Between(stages, ended) \in Positions /\ Between(stages \cup {stage}, ended) \in Positions
         /\ Fits("init", Up(stage), Between(stages, ended), Between(stages \cup {stage}, ended))
<1> DEFINE g == Between(stages, ended)
           h == Between(stages \cup {stage}, ended)
<1>1. "init" \in CallKinds /\ "init" \notin LibraryThreads
  BY DEF CallKinds, LibraryThreads
<1>2. PICK more \in SUBSET Stages : more = stages \cup {stage}
  OBVIOUS
<1> PICK role \in CallKinds : role = "init"
  BY <1>1
<1>3. /\ g \in Positions /\ g.locks = {} /\ g.up = stages /\ ~g.over /\ g.asked = {}
      /\ g.ended = ended
  BY BetweenHas
<1>4. /\ h \in Positions /\ h.locks = {} /\ h.up = more /\ ~h.over /\ h.asked = {}
      /\ h.ended = ended
  <2> DEFINE k == Between(more, ended)
  <2>1. /\ k \in Positions /\ k.locks = {} /\ k.up = more /\ ~k.over /\ k.asked = {}
        /\ k.ended = ended
    BY BetweenHas
  <2>2. k = h
    BY <1>2
  <2> HIDE DEF h, k
  <2> QED BY <2>1, <2>2
<1> HIDE DEF g, h
<1>5. h = [g EXCEPT !.up = more]
  <2> DEFINE a == [g EXCEPT !.up = more]
  <2>1. /\ a \in Positions /\ a.locks = {} /\ a.up = more /\ a.over = g.over
        /\ a.asked = {} /\ a.ended = ended
    BY <1>3 DEF Positions
  <2> HIDE DEF a
  <2>2. a.over = h.over
    BY <1>3, <1>4, <2>1 DEF Positions
  <2> QED BY <1>4, <2>1, <2>2, SamePosition DEF a
<1>6. FitsUp("init", Up(stage), g, h)
  BY <1>2, <1>3, <1>5 DEF FitsUp, Up
<1>7. Fits("init", Up(stage), g, h)
  BY <1>1, <1>3, <1>6 DEF Fits
<1> QED BY <1>3, <1>4, <1>7 DEF g, h

\* Bringing stages up one after the other.
LEMMA ListUpLeads ==
  ASSUME NEW n \in Nat, NEW list \in [1..n -> Stages], NEW stages \in SUBSET Stages,
         NEW ended \in SUBSET LibraryThreads,
         \A i \in 1..n : list[i] \notin stages /\ \A j \in 1..n : i # j => list[i] # list[j],
         \A i \in 1..n : \A need \in Needs(list[i]) : \E j \in 1..(i - 1) : list[j] = need,
         \A i \in 1..n : list[i] \in NetStages => ended = LibraryThreads
  PROVE  /\ [i \in 1..n |-> Up(list[i])] \in Seq(Steps)
         /\ Leads("init", Between(stages, ended), [i \in 1..n |-> Up(list[i])],
                  Between(stages \cup {list[i] : i \in 1..n}, ended))
<1> DEFINE before(i) == stages \cup {list[j] : j \in 1..i}
           p == [i \in 0..n |-> Between(before(i), ended)]
           s == [i \in 1..n |-> Up(list[i])]
<1>1. "init" \in CallKinds /\ "init" \notin LibraryThreads
  BY DEF CallKinds, LibraryThreads
<1>2. \A i \in 0..n : before(i) \in SUBSET Stages
  OBVIOUS
<1>3. \A i \in 1..n : Up(list[i]) \in Steps
  BY StepTypes DEF Names
<1>4. s \in Seq(Steps) /\ Len(s) = n
  <2>1. \A i \in 1..n : s[i] \in Steps
    BY <1>3
  <2>2. s \in [1..n -> Steps]
    BY <2>1
  <2> HIDE DEF s
  <2> QED BY <2>2, LenProperties
<1>5. before(0) = stages
  OBVIOUS
<1>6. p \in [0..n -> Positions]
  <2> HIDE DEF before
  <2>1. \A i \in 0..n : Between(before(i), ended) \in Positions
    BY <1>1, <1>2, BetweenIsPosition
  <2> QED BY <2>1
<1>7. ASSUME NEW i \in 1..n PROVE Fits("init", s[i], p[i - 1], p[i])
  <2>1. i - 1 \in 0..n /\ i \in 0..n /\ p[i - 1] = Between(before(i - 1), ended)
        /\ p[i] = Between(before(i), ended) /\ s[i] = Up(list[i])
    OBVIOUS
  <2>2. before(i) = before(i - 1) \cup {list[i]} /\ list[i] \notin before(i - 1)
    <3>1. \A j \in 1..(i - 1) : j \in 1..n /\ i # j
      OBVIOUS
    <3>2. 1..i = 1..(i - 1) \cup {i}
      OBVIOUS
    <3> QED BY <3>1, <3>2
  <2>3. Needs(list[i]) \subseteq before(i - 1)
    OBVIOUS
  <2>4. before(i - 1) \in SUBSET Stages /\ list[i] \in Stages
    BY <1>2, <2>1
  <2> HIDE DEF before
  <2>5. Fits("init", Up(list[i]), Between(before(i - 1), ended),
             Between(before(i - 1) \cup {list[i]}, ended))
    BY <2>2, <2>3, <2>4, UpFits
  <2> QED BY <2>1, <2>2, <2>5
<1>8. p[0] = Between(stages, ended) /\ p[n] = Between(before(n), ended)
  BY <1>5
<1> HIDE DEF p, s
<1>9. Leads("init", Between(stages, ended), s, Between(before(n), ended))
  BY <1>4, <1>6, <1>7, <1>8 DEF Leads
<1> QED BY <1>4, <1>9 DEF s

\* The stages of the network features build on one another in their order.
LEMMA NetListIsOrdered ==
  /\ StagesOf["net"] \in [1..19 -> Stages] /\ DOMAIN StagesOf["net"] = 1..19
  /\ {StagesOf["net"][i] : i \in 1..19} = NetStages
  /\ \A i, j \in 1..19 : i # j => StagesOf["net"][i] # StagesOf["net"][j]
  /\ \A i \in 1..19 : \A need \in Needs(StagesOf["net"][i]) :
        \E j \in 1..(i - 1) : StagesOf["net"][j] = need
<1> DEFINE list == <<"logging", "etcpal_sockets", "timers", "netints", "receiver_mutex",
                     "source_mutex", "receiver_mem", "source_mem", "merge_receiver_mem",
                     "source_detector_mem", "sockets", "merge_receiver",
                     "source_detector_state", "source_detector", "source_loss",
                     "receiver_state", "receiver", "source_state", "source">>
           index == [logging |-> 1, etcpal_sockets |-> 2, timers |-> 3, netints |-> 4,
                     receiver_mutex |-> 5, source_mutex |-> 6, receiver_mem |-> 7,
                     source_mem |-> 8, merge_receiver_mem |-> 9, source_detector_mem |-> 10,
                     sockets |-> 11, merge_receiver |-> 12, source_detector_state |-> 13,
                     source_detector |-> 14, source_loss |-> 15, receiver_state |-> 16,
                     receiver |-> 17, source_state |-> 18, source |-> 19]
<1>1. StagesOf["net"] = list
  BY DEF StagesOf
<1>2. DOMAIN list = 1..19
  OBVIOUS
<1>3. 1..19 = {1, 2, 3, 4, 5, 6, 7, 8, 9, 10, 11, 12, 13, 14, 15, 16, 17, 18, 19}
  OBVIOUS
<1>4. \A i \in 1..19 : index[list[i]] = i
  <2> SUFFICES ASSUME NEW i \in 1..19 PROVE index[list[i]] = i
    OBVIOUS
  <2>1. CASE i \in {1, 2, 3, 4, 5, 6, 7}
    BY <2>1
  <2>2. CASE i \in {8, 9, 10, 11, 12, 13}
    BY <2>2
  <2>3. CASE i \in {14, 15, 16, 17, 18, 19}
    BY <2>3
  <2> QED BY <1>3, <2>1, <2>2, <2>3
<1>5. /\ list[5] = "receiver_mutex" /\ list[6] = "source_mutex" /\ list[7] = "receiver_mem"
      /\ list[8] = "source_mem" /\ list[9] = "merge_receiver_mem"
      /\ list[10] = "source_detector_mem" /\ list[16] = "receiver_state"
      /\ list[18] = "source_state"
  OBVIOUS
<1>6. ToSet(list) = {list[i] : i \in 1..19}
  BY <1>2 DEF ToSet
<1>7. NetStages = ToSet(list)
  BY <1>1 DEF NetStages
<1>8. NetStages \subseteq Stages
  BY StagesAre
<1>9. list \in Seq(Stages) /\ Len(list) = 19
  BY StagesAre
<1> HIDE DEF list, index
<1>10. list \in [1..19 -> Stages]
  BY <1>9, LenProperties
<1>11. \A i, j \in 1..19 : i # j => list[i] # list[j]
  BY <1>4
<1>12. ASSUME NEW i \in 1..19, NEW need \in Needs(list[i])
       PROVE  \E j \in 1..(i - 1) : list[j] = need
  <2>1. \/ list[i] = list[18] /\ need \in {list[6], list[8]}
        \/ list[i] \in {list[16], list[9]} /\ need \in {list[5], list[7]}
        \/ list[i] = list[8] /\ need = list[6]
        \/ list[i] = list[10] /\ need = list[7]
    BY <1>5 DEF Needs
  <2>2. \/ i = 18 /\ need \in {list[6], list[8]}
        \/ i \in {16, 9} /\ need \in {list[5], list[7]}
        \/ i = 8 /\ need = list[6]
        \/ i = 10 /\ need = list[7]
    BY <1>11, <2>1
  <2>3. PICK j \in {5, 6, 7, 8} : need = list[j] /\ j < i
    BY <2>2
  <2> QED BY <2>3
<1> QED BY <1>1, <1>2, <1>6, <1>7, <1>10, <1>11, <1>12

LEMMA ReturnLeads ==
  ASSUME NEW role \in CallKinds, NEW stages \in SUBSET Stages,
         NEW ended \in SUBSET LibraryThreads
  PROVE  /\ <<Return>> \in Seq(Steps) /\ Over(Between(stages, ended)) \in Positions
         /\ Leads(role, Between(stages, ended), <<Return>>, Over(Between(stages, ended)))
<1> DEFINE g == Between(stages, ended)
<1>1. /\ g \in Positions /\ g.locks = {} /\ ~g.over /\ g.asked = {} /\ role \notin LibraryThreads
  BY BetweenIsPosition
<1> HIDE DEF g
<1>2. Over(g) \in Positions
  BY <1>1 DEF Over, Positions
<1>3. FitsReturn(role, Return, g, Over(g))
  BY <1>1 DEF FitsReturn, Return, Over
<1>4. Fits(role, Return, g, Over(g))
  BY <1>1, <1>3 DEF Fits
<1> QED BY <1>1, <1>2, <1>4, StepTypes, OneStepLeads DEF g

\* Bringing up the stages of the features that are not initialized yet.
LEMMA UpAllLeads ==
  ASSUME NEW kept \in SUBSET Features, NEW part \in SUBSET Features, part \cap kept = {},
         NEW ended \in SUBSET LibraryThreads, "net" \in part => ended = LibraryThreads
  PROVE  /\ UpAll(part) \o <<Return>> \in Seq(Steps)
         /\ Leads("init", Between(StagesFor(kept), ended), UpAll(part) \o <<Return>>,
                  Over(Between(StagesFor(kept \cup part), ended)))
<1> DEFINE net == IF "net" \in part
                    THEN [i \in DOMAIN StagesOf["net"] |-> Up(StagesOf["net"][i])] ELSE << >>
           merger == IF "merger" \in part
                       THEN [i \in DOMAIN StagesOf["merger"] |-> Up(StagesOf["merger"][i])]
                       ELSE << >>
<1>1. UpAll(part) = net \o merger
  BY DEF UpAll
<1>2. PICK none \in SUBSET Stages : none = StagesFor(kept)
  BY StagesAre DEF StagesFor, Features
<1>3. PICK some \in SUBSET Stages :
         some = none \cup (IF "net" \in part THEN NetStages ELSE {})
  BY StagesAre
<1>4. PICK all \in SUBSET Stages :
         all = some \cup (IF "merger" \in part THEN {"dmx_merger"} ELSE {})
  BY StagesAre
<1>5. all = StagesFor(kept \cup part)
  <2>1. \A fs \in SUBSET Features :
           StagesFor(fs) = (IF "net" \in fs THEN NetStages ELSE {})
                             \cup (IF "merger" \in fs THEN {"dmx_merger"} ELSE {})
    BY StagesAre DEF StagesFor, Features
  <2>2. PICK both \in SUBSET Features : both = kept \cup part
    OBVIOUS
  <2> QED BY <1>2, <1>3, <1>4, <2>1, <2>2
<1>6. /\ "net" \in part => none \cap NetStages = {}
      /\ "merger" \in part => "dmx_merger" \notin some
  BY <1>2, <1>3, StagesAre DEF StagesFor, Features
<1>7. Brings("init", none, ended, net, some, ended)
  <2>1. CASE "net" \notin part
    <3>1. none = some /\ net = << >> /\ << >> \in Seq(Steps)
      BY <1>3, <2>1
    <3>2. Between(none, ended) \in Positions
      BY PlaceIsPosition DEF Between
    <3>3. Leads("init", Between(none, ended), << >>, Between(none, ended))
      BY <3>2, NothingLeads
    <3> HIDE DEF net
    <3> QED BY <3>1, <3>3 DEF Brings
  <2>2. CASE "net" \in part
    <3> DEFINE list == StagesOf["net"]
    <3>1. /\ list \in [1..19 -> Stages] /\ 19 \in Nat /\ {list[i] : i \in 1..19} = NetStages
          /\ ended = LibraryThreads /\ \A i \in 1..19 : list[i] \in NetStages
      BY <2>2, NetListIsOrdered
    <3>2. \A i \in 1..19 : list[i] \notin none /\ \A j \in 1..19 : i # j => list[i] # list[j]
      BY <1>6, <2>2, <3>1, NetListIsOrdered
    <3>3. \A i \in 1..19 : \A need \in Needs(list[i]) : \E j \in 1..(i - 1) : list[j] = need
      BY NetListIsOrdered
    <3>4. net = [i \in 1..19 |-> Up(list[i])] /\ some = none \cup {list[i] : i \in 1..19}
      BY <1>3, <2>2, <3>1, NetListIsOrdered
    <3> HIDE DEF list, net
    <3>5. /\ [i \in 1..19 |-> Up(list[i])] \in Seq(Steps)
          /\ Leads("init", Between(none, ended), [i \in 1..19 |-> Up(list[i])],
                   Between(none \cup {list[i] : i \in 1..19}, ended))
      <4>1. PICK n \in Nat : n = 19
        OBVIOUS
      <4>2. list \in [1..n -> Stages] /\ \A i \in 1..n : list[i] \in NetStages => ended = LibraryThreads
        BY <3>1, <4>1
      <4>3. \A i \in 1..n : list[i] \notin none /\ \A j \in 1..n : i # j => list[i] # list[j]
        BY <3>2, <4>1
      <4>4. \A i \in 1..n : \A need \in Needs(list[i]) : \E j \in 1..(i - 1) : list[j] = need
        BY <3>3, <4>1
      <4>5. /\ [i \in 1..n |-> Up(list[i])] \in Seq(Steps)
            /\ Leads("init", Between(none, ended), [i \in 1..n |-> Up(list[i])],
                     Between(none \cup {list[i] : i \in 1..n}, ended))
        BY <4>2, <4>3, <4>4, ListUpLeads
      <4> QED BY <4>1, <4>5
    <3> QED BY <3>4, <3>5 DEF Brings
  <2> QED BY <2>1, <2>2
<1>8. Brings("init", some, ended, merger, all, ended)
  <2>1. CASE "merger" \notin part
    <3>1. some = all /\ merger = << >> /\ << >> \in Seq(Steps)
      BY <1>4, <2>1
    <3>2. Between(some, ended) \in Positions
      BY PlaceIsPosition DEF Between
    <3>3. Leads("init", Between(some, ended), << >>, Between(some, ended))
      BY <3>2, NothingLeads
    <3> HIDE DEF merger
    <3> QED BY <3>1, <3>3 DEF Brings
  <2>2. CASE "merger" \in part
    <3>1. StagesOf["merger"] = <<"dmx_merger">>
      BY DEF StagesOf
    <3>2. merger = <<Up("dmx_merger")>> /\ all = some \cup {"dmx_merger"}
      <4>1. DOMAIN <<"dmx_merger">> = 1..1 /\ <<"dmx_merger">>[1] = "dmx_merger"
        OBVIOUS
      <4>2. merger = [i \in 1..1 |-> Up("dmx_merger")]
        BY <2>2, <3>1, <4>1
      <4> QED BY <1>4, <2>2, <4>2
    <3>3. "dmx_merger" \in Stages \ some /\ "dmx_merger" \notin NetStages
          /\ Needs("dmx_merger") \subseteq some /\ Up("dmx_merger") \in Steps
      BY <1>6, <2>2, StagesAre, StepTypes DEF Needs, Names
    <3>4. /\ Between(some, ended) \in Positions /\ Between(all, ended) \in Positions
          /\ Fits("init", Up("dmx_merger"), Between(some, ended), Between(all, ended))
      BY <3>2, <3>3, UpFits
    <3> HIDE DEF merger
    <3> QED BY <3>2, <3>3, <3>4, OneStepLeads DEF Brings
  <2> QED BY <2>1, <2>2
<1> HIDE DEF net, merger
<1>9. /\ net \o merger \in Seq(Steps)
      /\ Leads("init", Between(none, ended), net \o merger, Between(all, ended))
  BY <1>7, <1>8, JoinedLeads, ConcatProperties DEF Brings
<1>10. PICK role \in CallKinds : role = "init"
  BY DEF CallKinds
<1>11. /\ <<Return>> \in Seq(Steps)
       /\ Leads("init", Between(all, ended), <<Return>>, Over(Between(all, ended)))
  BY <1>10, ReturnLeads
<1>12. /\ (net \o merger) \o <<Return>> \in Seq(Steps)
       /\ Leads("init", Between(none, ended), (net \o merger) \o <<Return>>,
                Over(Between(all, ended)))
  BY <1>9, <1>11, JoinedLeads, ConcatProperties
<1> QED BY <1>1, <1>2, <1>5, <1>12

(***************************************************************************)
(* The invariant is inductive: what a step of a thread leaves as it is.    *)
(***************************************************************************)
Knows(pos, goal) ==
    /\ CountsOK /\ LibraryTypes /\ BetweenCalls
    /\ pos \in [Threads -> Positions] /\ goal \in [Threads -> Positions]
    /\ Positioned(pos, goal)

LEMMA KnowsWhatItKnows ==
  /\ LibraryInv => \E pos, goal \in [Threads -> Positions] : Knows(pos, goal)
  /\ \A pos, goal : Knows(pos, goal) => LibraryInv
  BY DEF Knows, LibraryInv

\* The next step of a thread fits its position.
LEMMA HeadFits ==
  ASSUME NEW pos, NEW goal, Knows(pos, goal), NEW t \in Threads, script[t] # << >>
  PROVE  /\ pos[t] \in Positions /\ goal[t] \in Positions
         /\ script[t] \in Seq(Steps) /\ Tail(script[t]) \in Seq(Steps)
         /\ Head(script[t]) \in Steps
         /\ \E h \in Positions :
               /\ Fits(Role(t), Head(script[t]), pos[t], h)
               /\ Leads(Role(t), h, Tail(script[t]), goal[t])
<1>1. pos[t] \in Positions /\ goal[t] \in Positions /\ script[t] \in Seq(Steps)
  BY DEF Knows, LibraryTypes
<1>2. Leads(Role(t), pos[t], script[t], goal[t])
  BY DEF Knows, Positioned, FollowsScript
<1>3. Head(script[t]) \in Steps /\ Tail(script[t]) \in Seq(Steps)
  <2> HIDE DEF Steps
  <2> QED BY <1>1, HeadTailProperties
<1> QED BY <1>1, <1>2, <1>3, HeadLeads

\* A thread without steps is at its goal.
LEMMA IdleAtGoal ==
  ASSUME NEW pos, NEW goal, Knows(pos, goal), NEW t \in Threads, script[t] = << >>
  PROVE  /\ goal[t] = pos[t] /\ pos[t] \in Positions /\ pos[t].locks = {} /\ ~pos[t].over
         /\ Holds(t) = {}
<1>1. Leads(Role(t), pos[t], << >>, goal[t]) /\ pos[t] \in Positions
      /\ pos[t].locks = Holds(t) /\ ~pos[t].over /\ goal[t].locks = {}
  BY DEF Knows, Positioned, FollowsScript
<1>2. goal[t] = pos[t]
  BY <1>1, NothingLeads
<1> QED BY <1>1, <1>2

\* Nothing follows when a script is over.
LEMMA OverIsTheEnd ==
  ASSUME NEW role, NEW g \in Positions, g.over, NEW s \in Seq(Steps), NEW r, Leads(role, g, s, r)
  PROVE  s = << >> /\ r = g
<1>1. s = << >>
  <2> SUFFICES ASSUME s # << >> PROVE FALSE
    OBVIOUS
  <2>1. PICK h \in Positions : Fits(role, Head(s), g, h)
    BY HeadLeads
  <2> QED BY <2>1 DEF Fits
<1> QED BY <1>1, NothingLeads

\* Whose call a thread runs.
LEMMA RolesAre ==
  ASSUME NEW pos, NEW goal, Knows(pos, goal), NEW t \in Threads, script[t] # << >>
  PROVE  /\ Role(t) \in Roles
         /\ Role(t) \in LibraryThreads => t = Role(t)
         /\ t \in LibraryThreads => Role(t) = t /\ t \notin Callers
         /\ Role(t) = "none" => t \in Callers /\ call = NoCall
         /\ Role(t) \in CallKinds =>
                /\ t \in Callers /\ call # NoCall /\ Role(t) = call.kind /\ InCall(t, pos, goal)
         /\ t \in Callers => Role(t) = call.kind /\ Role(t) \notin LibraryThreads
         /\ t \in Callers /\ call # NoCall => InCall(t, pos, goal)
<1>1. call.kind \in CallKinds \cup {"none"} /\ (call.kind = "none" <=> call = NoCall)
  BY DEF Knows, CountsOK, CallTypes, LibraryTypes, CallKinds, NoCall
<1>2. CallKinds \cap LibraryThreads = {} /\ "none" \notin LibraryThreads \cup CallKinds
  BY DEF CallKinds, LibraryThreads
<1>3. t \in LibraryThreads => Role(t) = t /\ t \notin Callers
  BY LibraryAssumption DEF Role
<1>4. t \notin LibraryThreads => t \in Callers /\ Role(t) = call.kind
  BY DEF Role, Threads
<1>5. t \in Callers /\ call # NoCall => InCall(t, pos, goal)
  BY DEF Knows, Positioned, InCall
<1> QED BY <1>1, <1>2, <1>3, <1>4, <1>5 DEF Roles

\* What the state of the calls determines stays with it.
LEMMA CallsStay ==
  ASSUME UNCHANGED libraryVars
  PROVE  /\ up' = up /\ count' = count /\ call' = call /\ mine' = mine /\ balance' = balance
         /\ Kept' = Kept /\ Target' = Target /\ \A f : Initialized(f)' = Initialized(f)
         /\ \A t : Role(t)' = Role(t)
         /\ CountsOK => CountsOK'
<1>1. up' = up /\ count' = count /\ call' = call /\ mine' = mine /\ balance' = balance
  BY DEF libraryVars
<1>2. \A f : Initialized(f)' = Initialized(f)
  BY <1>1 DEF Initialized
<1>3. Kept' = Kept
  BY <1>2 DEF Kept
<1> QED BY <1>1, <1>2, <1>3, OtherSteps DEF Target, Role

LEMMA TypesStay ==
  ASSUME LibraryTypes, UNCHANGED libraryVars,
         held' \in [Locks -> Threads \cup {Nobody}], script' \in [Threads -> Seq(Steps)],
         running' \subseteq LibraryThreads, alive' \subseteq LibraryThreads,
         signalled' \subseteq LibraryThreads
  PROVE  LibraryTypes'
  BY DEF LibraryTypes, libraryVars, NoCall

\* A thread moves to a position from which its script leads to a goal, in a
\* step that is none of an init or deinit.
LEMMA ThreadMoves ==
  ASSUME NEW pos, NEW goal, Knows(pos, goal), UNCHANGED libraryVars, LibraryTypes',
         NEW t \in Threads, NEW h \in Positions, NEW r \in Positions,
         \A u \in Threads \ {t} : Holds(u)' = Holds(u) /\ script'[u] = script[u],
         FollowsScript(t, h, r)',
         alive' \subseteq alive, alive \ {t} \subseteq alive',
         t \in Callers =>
            /\ CallerKnows(h, script[t])'
            /\ pos[t].ended \subseteq h.ended
            /\ call # NoCall => script[t] # << >> /\ r = goal[t],
         t \in LibraryThreads => ThreadKnows(t, h)' /\ r.up = NetStages,
         \A l \in LibraryThreads : EndsForCall(l, [pos EXCEPT ![t] = h][l], [pos EXCEPT ![t] = h])'
  PROVE  LibraryInv'
<1> DEFINE p == [pos EXCEPT ![t] = h]
           g == [goal EXCEPT ![t] = r]
<1>1. /\ p \in [Threads -> Positions] /\ g \in [Threads -> Positions]
      /\ p[t] = h /\ g[t] = r /\ \A u \in Threads \ {t} : p[u] = pos[u] /\ g[u] = goal[u]
  BY DEF Knows
<1>2. Positioned(pos, goal)
  BY DEF Knows
<1> HIDE DEF p, g
<1>3. ASSUME NEW u \in Threads PROVE FollowsScript(u, p[u], g[u])'
  <2>1. CASE u = t
    BY <1>1, <2>1
  <2>2. CASE u # t
    <3>1. FollowsScript(u, pos[u], goal[u])
      BY <1>2 DEF Positioned
    <3>2. Holds(u)' = Holds(u) /\ script'[u] = script[u] /\ Role(u)' = Role(u)
          /\ p[u] = pos[u] /\ g[u] = goal[u]
      BY <1>1, <2>2, CallsStay
    <3> QED BY <3>1, <3>2 DEF FollowsScript
  <2> QED BY <2>1, <2>2
<1>4. ASSUME NEW u \in Callers PROVE CallerKnows(p[u], script[u])'
  <2>1. CASE u = t
    BY <1>1, <2>1
  <2>2. CASE u # t
    <3>1. CallerKnows(pos[u], script[u]) /\ u \in Threads
      BY <1>2 DEF Positioned, Threads
    <3>2. script'[u] = script[u] /\ p[u] = pos[u] /\ up' = up /\ call' = call
      BY <1>1, <2>2, <3>1, CallsStay
    <3> QED BY <3>1, <3>2 DEF CallerKnows, NoCall
  <2> QED BY <2>1, <2>2
<1>5. ASSUME NEW l \in LibraryThreads PROVE ThreadKnows(l, p[l])' /\ g[l].up = NetStages
  <2>1. CASE l = t
    BY <1>1, <2>1
  <2>2. CASE l # t
    <3>1. ThreadKnows(l, pos[l]) /\ l \in Threads /\ goal[l].up = NetStages
      BY <1>2 DEF Positioned, Threads
    <3>2. script'[l] = script[l] /\ p[l] = pos[l] /\ up' = up /\ call' = call
          /\ g[l] = goal[l] /\ \A f : Initialized(f)' = Initialized(f)
      BY <1>1, <2>2, <3>1, CallsStay
    <3>3. (l \in alive)' <=> l \in alive
      BY <2>2
    <3>4. (held["merger"] = l)' <=> held["merger"] = l
      <4>1. Holds(l)' = Holds(l) /\ "merger" \in Locks
        BY <2>2, <3>1 DEF Locks
      <4> QED BY <4>1 DEF Holds
    <3> QED BY <3>1, <3>2, <3>3, <3>4 DEF ThreadKnows, NoCall
  <2> QED BY <2>1, <2>2
<1>6. \A l \in LibraryThreads : EndsForCall(l, p[l], p)'
  BY DEF p
<1>7. ASSUME call # NoCall PROVE \E c \in Callers : InCall(c, p, g)'
  <2>1. PICK c \in Callers : InCall(c, pos, goal)
    BY <1>2, <1>7 DEF Positioned
  <2>2. t \in Callers => t = c
    BY <1>7, <2>1 DEF InCall
  <2>3. c \in Threads /\ g[c] = goal[c] /\ pos[c].ended \subseteq p[c].ended
    BY <1>1, <1>7, <2>2 DEF Threads
  <2>4. \A u \in Callers \ {c} : /\ script'[u] = script[u] /\ p[u] = pos[u]
    BY <1>1, <2>2 DEF Threads
  <2>5. \A u \in Callers \ {c} : script'[u] = << >> /\ p[u].asked = {} /\ p[u].ended = {}
    BY <2>1, <2>4 DEF InCall
  <2>6. InitSoFar(p[c])'
    <3>1. InitSoFar(pos[c])
      BY <2>1 DEF InCall
    <3>2. p[c].ended \subseteq LibraryThreads
      BY <1>1, <2>3 DEF Positions
    <3>3. pos[c].ended = LibraryThreads => p[c].ended = LibraryThreads
      BY <2>3, <3>2
    <3> QED BY <3>1, <3>3, CallsStay DEF InitSoFar
  <2>7. Reaches(g[c])'
    <3>1. Reaches(goal[c])
      BY <2>1 DEF InCall
    <3> QED BY <2>3, <3>1, CallsStay DEF Reaches
  <2>8. call'.kind = "deinit" => call'.part = {f \in call'.features : count'[f] = 1}
    BY <2>1, CallsStay DEF InCall
  <2> QED BY <2>5, <2>6, <2>7, <2>8 DEF InCall
<1>8. Positioned(p, g)'
  <2>1. call' # NoCall => call # NoCall
    BY CallsStay DEF NoCall
  <2> QED BY <1>3, <1>4, <1>5, <1>6, <1>7, <2>1 DEF Positioned, NoCall
<1>9. BetweenCalls'
  <2>1. BetweenCalls
    BY DEF Knows
  <2> QED BY <2>1, CallsStay DEF BetweenCalls, NoCall
<1>10. CountsOK'
  BY CallsStay DEF Knows
<1> QED BY <1>1, <1>8, <1>9, <1>10 DEF LibraryInv

LEMMA EndsStay ==
  ASSUME NEW pos, NEW goal, Knows(pos, goal), NEW t \in Threads, NEW h \in Positions,
         h.asked = pos[t].asked, alive' \subseteq alive, UNCHANGED <<running, signalled>>
  PROVE  \A l \in LibraryThreads : EndsForCall(l, [pos EXCEPT ![t] = h][l], [pos EXCEPT ![t] = h])'
<1> DEFINE p == [pos EXCEPT ![t] = h]
<1>1. \A u \in Threads : p[u].asked = pos[u].asked
  BY DEF Knows
<1> HIDE DEF p
<1>2. ASSUME NEW l \in LibraryThreads PROVE EndsForCall(l, p[l], p)'
  <2>1. EndsForCall(l, pos[l], pos)
    BY DEF Knows, Positioned
  <2>2. p[l].asked = pos[l].asked /\ \A c \in Callers : p[c].asked = pos[c].asked
    BY <1>1 DEF Threads
  <2> QED BY <2>1, <2>2 DEF EndsForCall
<1> QED BY <1>2 DEF p

LEMMA Continued ==
  ASSUME LibraryTypes, NEW t \in Threads, script[t] # << >>, NEW s \in Seq(Steps), Continue(t, s)
  PROVE  /\ script'[t] = s \o Tail(script[t]) /\ Tail(script[t]) \in Seq(Steps)
         /\ \A u \in Threads \ {t} : script'[u] = script[u]
         /\ script' \in [Threads -> Seq(Steps)]
<1>1. script \in [Threads -> Seq(Steps)] /\ script[t] \in Seq(Steps)
  BY DEF LibraryTypes
<1>2. Tail(script[t]) \in Seq(Steps)
  <2> HIDE DEF Steps
  <2> QED BY <1>1, HeadTailProperties
<1>3. s \o Tail(script[t]) \in Seq(Steps)
  BY <1>2, ConcatProperties
<1> QED BY <1>1, <1>2, <1>3 DEF Continue

LEMMA Advanced ==
  ASSUME LibraryTypes, NEW t \in Threads, script[t] # << >>, Advance(t)
  PROVE  /\ script'[t] = Tail(script[t])
         /\ \A u \in Threads \ {t} : script'[u] = script[u]
         /\ script' \in [Threads -> Seq(Steps)]
<1>1. << >> \in Seq(Steps)
  OBVIOUS
<1>2. /\ script'[t] = << >> \o Tail(script[t]) /\ Tail(script[t]) \in Seq(Steps)
      /\ \A u \in Threads \ {t} : script'[u] = script[u]
      /\ script' \in [Threads -> Seq(Steps)]
  BY <1>1, Continued DEF Advance
<1>3. << >> \o Tail(script[t]) = Tail(script[t])
  <2> HIDE DEF Steps
  <2> QED BY <1>2, ConcatEmptySeq
<1> QED BY <1>2, <1>3

LEMMA StartsReleaseRest ==
  ASSUME NEW s \in Seq(Steps), s # << >>, StartsRelease(s)
  PROVE  StartsRelease(Tail(s))
<1>1. Len(s) \in Nat \ {0} /\ Len(Tail(s)) = Len(s) - 1
      /\ \A i \in 1..Len(Tail(s)) : i + 1 \in 1..Len(s) /\ Tail(s)[i] = s[i + 1]
  OBVIOUS
<1>2. ASSUME NEW i \in 1..Len(Tail(s)), Tail(s)[i].op = "start"
      PROVE  Tail(s)[i].on \in LibraryThreads
             /\ Tail(s)[Len(Tail(s))] = Unlock(LockOf[Tail(s)[i].on])
  <2>1. Tail(s)[i] = s[i + 1] /\ i + 1 \in 1..Len(s)
    BY <1>1
  <2>2. s[i + 1].on \in LibraryThreads /\ s[Len(s)] = Unlock(LockOf[s[i + 1].on])
    BY <1>2, <2>1 DEF StartsRelease
  <2>3. Tail(s)[Len(Tail(s))] = s[Len(s)]
    BY <1>1, <2>1
  <2> QED BY <2>1, <2>2, <2>3
<1> QED BY <1>2 DEF StartsRelease

\* A thread takes the step it has come to, which concerns nobody else.
LEMMA PlainStep ==
  ASSUME NEW pos, NEW goal, Knows(pos, goal), UNCHANGED <<libraryVars, threadVars>>,
         NEW t \in Threads, script[t] # << >>, Advance(t),
         held' \in [Locks -> Threads \cup {Nobody}],
         \A u \in Threads \ {t} : Holds(u)' = Holds(u),
         NEW h \in Positions, Leads(Role(t), h, Tail(script[t]), goal[t]),
         h.locks = Holds(t)', h.asked = pos[t].asked, h.ended = pos[t].ended, ~h.over,
         t \in Callers => h.up = pos[t].up /\ \A m \in h.locks : StageOf[m] \in up,
         t \in LibraryThreads =>
            /\ h.up \in {NetStages, Stages}
            /\ "dmx_merger" \in h.up \/ held'["merger"] = t => call = NoCall /\ Initialized("merger")
            /\ t = "tick" => h.locks \subseteq {"source"}
  PROVE  LibraryInv'
<1>1. LibraryTypes /\ Positioned(pos, goal) /\ goal[t] \in Positions
  BY DEF Knows
<1>2. /\ script'[t] = Tail(script[t])
      /\ \A u \in Threads \ {t} : script'[u] = script[u]
      /\ script' \in [Threads -> Seq(Steps)]
  BY <1>1, Advanced
<1>3. UNCHANGED libraryVars /\ running' = running /\ alive' = alive /\ signalled' = signalled
  BY DEF threadVars
<1>4. LibraryTypes'
  BY <1>1, <1>2, <1>3, TypesStay DEF LibraryTypes
<1>5. FollowsScript(t, h, goal[t])'
  <2>1. FollowsScript(t, pos[t], goal[t])
    BY <1>1 DEF Positioned
  <2>2. Role(t)' = Role(t)
    BY <1>3, CallsStay
  <2> QED BY <1>2, <2>1, <2>2 DEF FollowsScript
<1>6. ASSUME t \in Callers
      PROVE  /\ CallerKnows(h, script[t])' /\ pos[t].ended \subseteq h.ended
             /\ call # NoCall => script[t] # << >> /\ goal[t] = goal[t]
  <2>1. CallerKnows(pos[t], script[t])
    BY <1>1, <1>6 DEF Positioned
  <2>2. script[t] \in Seq(Steps) /\ (StartsRelease(script[t]) => StartsRelease(Tail(script[t])))
    BY <1>1, StartsReleaseRest DEF LibraryTypes
  <2>3. up' = up /\ call' = call
    BY <1>3, CallsStay
  <2> QED BY <1>2, <1>3, <1>6, <2>1, <2>2, <2>3 DEF CallerKnows, NoCall
<1>7. ASSUME t \in LibraryThreads
      PROVE  ThreadKnows(t, h)' /\ goal[t].up = NetStages
  <2>1. ThreadKnows(t, pos[t]) /\ goal[t].up = NetStages
    BY <1>1, <1>7 DEF Positioned
  <2>2. up' = up /\ call' = call /\ Initialized("merger")' = Initialized("merger")
    BY <1>3, CallsStay
  <2> QED BY <1>2, <1>3, <1>7, <2>1, <2>2 DEF ThreadKnows, NoCall
<1>8. \A l \in LibraryThreads : EndsForCall(l, [pos EXCEPT ![t] = h][l], [pos EXCEPT ![t] = h])'
  BY <1>3, EndsStay
<1> QED BY <1>1, <1>2, <1>3, <1>4, <1>5, <1>6, <1>7, <1>8, ThreadMoves

(***************************************************************************)
(* The steps that any thread may come to.                                  *)
(***************************************************************************)

\* What a thread knows at its position.
LEMMA PositionKnows ==
  ASSUME NEW pos, NEW goal, Knows(pos, goal), NEW t \in Threads, script[t] # << >>
  PROVE  /\ pos[t].locks = Holds(t) /\ ~pos[t].over
         /\ t \in Callers => /\ pos[t].up = up
                             /\ \A m \in pos[t].locks : StageOf[m] \in up
         /\ t \in LibraryThreads =>
               /\ t \in alive
               /\ pos[t].up \in {NetStages, Stages}
               /\ "dmx_merger" \in pos[t].up \/ held["merger"] = t =>
                     call = NoCall /\ Initialized("merger")
               /\ t = "tick" => pos[t].locks \subseteq {"source"}
               /\ Head(script[t]) # Lock("merger") => pos[t].up = NetStages
<1>1. FollowsScript(t, pos[t], goal[t])
  BY DEF Knows, Positioned
<1>2. t \in Callers => CallerKnows(pos[t], script[t])
  BY DEF Knows, Positioned
<1>3. t \in LibraryThreads => ThreadKnows(t, pos[t])
  BY DEF Knows, Positioned
<1>4. t \in LibraryThreads /\ Head(script[t]) # Lock("merger") => "dmx_merger" \notin pos[t].up
  <2>1. PICK h \in Positions : Fits(Role(t), Head(script[t]), pos[t], h)
    BY HeadFits
  <2>2. t \in LibraryThreads => Role(t) \in LibraryThreads
    BY RolesAre
  <2> QED BY <2>1, <2>2 DEF Fits
<1>5. "dmx_merger" \in Stages
  BY StagesAre
<1> QED BY <1>1, <1>2, <1>3, <1>4, <1>5 DEF FollowsScript, CallerKnows, ThreadKnows

LEMMA TakeLockKnows ==
  ASSUME NEW pos, NEW goal, Knows(pos, goal), NEW t \in Threads, TakeLock(t)
  PROVE  LibraryInv'
<1>1. /\ script[t] # << >> /\ Head(script[t]).op = "lock" /\ held[On(t)] = Nobody
      /\ held' = [held EXCEPT ![On(t)] = t] /\ Advance(t)
      /\ UNCHANGED <<libraryVars, threadVars>>
  BY DEF TakeLock, At
<1>2. PICK h \in Positions : /\ Fits(Role(t), Head(script[t]), pos[t], h)
                             /\ Leads(Role(t), h, Tail(script[t]), goal[t])
  BY <1>1, HeadFits
<1> DEFINE g == pos[t]
           m == On(t)
<1>3. FitsLock(Role(t), Head(script[t]), g, h)
  BY <1>1, <1>2, StepsFit
<1>4. g \in Positions /\ g.locks = Holds(t) /\ ~g.over
  BY <1>1, HeadFits, PositionKnows
<1>5. m \in Locks /\ StageOf[m] \in g.up /\ (Role(t) = "tick" => m = "source")
      /\ h.locks = g.locks \cup {m} /\ h.asked = g.asked /\ h.ended = g.ended /\ ~h.over
      /\ h.up = IF Role(t) \in LibraryThreads THEN g.up \ {"dmx_merger"} ELSE g.up
  BY <1>3, <1>4 DEF FitsLock, On, Positions
<1> HIDE DEF m, g
<1>6. held \in [Locks -> Threads \cup {Nobody}]
  BY DEF Knows, LibraryTypes
<1>7. /\ held' \in [Locks -> Threads \cup {Nobody}]
      /\ Holds(t)' = Holds(t) \cup {m}
      /\ \A u \in Threads \ {t} : Holds(u)' = Holds(u)
  BY <1>1, <1>5, <1>6, LibraryAssumption DEF Holds, m
<1>8. t \in Callers => h.up = g.up /\ \A n \in h.locks : StageOf[n] \in up
  BY <1>1, <1>5, RolesAre, PositionKnows DEF g
<1>9. ASSUME t \in LibraryThreads
      PROVE  /\ h.up \in {NetStages, Stages}
             /\ "dmx_merger" \in h.up \/ held'["merger"] = t => call = NoCall /\ Initialized("merger")
             /\ t = "tick" => h.locks \subseteq {"source"}
  <2>1. /\ g.up \in {NetStages, Stages} /\ Role(t) = t
        /\ "dmx_merger" \in g.up \/ held["merger"] = t => call = NoCall /\ Initialized("merger")
        /\ t = "tick" => g.locks \subseteq {"source"}
    BY <1>1, <1>9, RolesAre, PositionKnows DEF g
  <2>2. h.up = NetStages /\ "dmx_merger" \notin h.up
    BY <1>5, <1>9, <2>1, StagesAre
  <2>3. held'["merger"] = t => held["merger"] = t \/ m = "merger"
    BY <1>1, <1>6 DEF m, Locks
  <2>4. m = "merger" => "dmx_merger" \in g.up
    BY <1>5, StageOfLock
  <2> QED BY <1>5, <2>1, <2>2, <2>3, <2>4
<1>10. h.locks = Holds(t)' /\ h.asked = pos[t].asked /\ h.ended = pos[t].ended /\ ~h.over
  BY <1>4, <1>5, <1>7 DEF g
<1>11. t \in Callers => h.up = pos[t].up /\ \A n \in h.locks : StageOf[n] \in up
  BY <1>8 DEF g
<1>12. script[t] # << >> /\ Advance(t) /\ UNCHANGED <<libraryVars, threadVars>>
  BY <1>1
<1>13. /\ held' \in [Locks -> Threads \cup {Nobody}]
       /\ \A u \in Threads \ {t} : Holds(u)' = Holds(u)
  BY <1>7
<1> QED BY <1>2, <1>9, <1>10, <1>11, <1>12, <1>13, PlainStep

LEMMA ReleaseLockKnows ==
  ASSUME NEW pos, NEW goal, Knows(pos, goal), NEW t \in Threads, ReleaseLock(t)
  PROVE  LibraryInv'
<1>1. /\ script[t] # << >> /\ Head(script[t]).op = "unlock"
      /\ held' = [held EXCEPT ![On(t)] = Nobody] /\ Advance(t)
      /\ UNCHANGED <<libraryVars, threadVars>>
  BY DEF ReleaseLock, At
<1>2. PICK h \in Positions : /\ Fits(Role(t), Head(script[t]), pos[t], h)
                             /\ Leads(Role(t), h, Tail(script[t]), goal[t])
  BY <1>1, HeadFits
<1> DEFINE g == pos[t]
           m == On(t)
<1>3. FitsUnlock(Role(t), Head(script[t]), g, h)
  BY <1>1, <1>2, StepsFit
<1>4. g \in Positions /\ g.locks = Holds(t) /\ ~g.over
  BY <1>1, HeadFits, PositionKnows
<1>5. m \in g.locks /\ h.locks = g.locks \ {m} /\ h.asked = g.asked /\ h.ended = g.ended
      /\ ~h.over /\ h.up = g.up
  BY <1>3, <1>4 DEF FitsUnlock, On, Positions
<1> HIDE DEF m, g
<1>6. held \in [Locks -> Threads \cup {Nobody}]
  BY DEF Knows, LibraryTypes
<1>7. /\ m \in Locks /\ held[m] = t
      /\ held' \in [Locks -> Threads \cup {Nobody}]
      /\ Holds(t)' = Holds(t) \ {m}
      /\ \A u \in Threads \ {t} : Holds(u)' = Holds(u)
  BY <1>1, <1>4, <1>5, <1>6, LibraryAssumption DEF Holds, m
<1>8. t \in Callers => h.up = g.up /\ \A n \in h.locks : StageOf[n] \in up
  BY <1>1, <1>5, PositionKnows DEF g
<1>9. ASSUME t \in LibraryThreads
      PROVE  /\ h.up \in {NetStages, Stages}
             /\ "dmx_merger" \in h.up \/ held'["merger"] = t => call = NoCall /\ Initialized("merger")
             /\ t = "tick" => h.locks \subseteq {"source"}
  <2>1. /\ g.up \in {NetStages, Stages}
        /\ "dmx_merger" \in g.up \/ held["merger"] = t => call = NoCall /\ Initialized("merger")
        /\ t = "tick" => g.locks \subseteq {"source"}
    BY <1>1, <1>9, PositionKnows DEF g
  <2>2. held'["merger"] = t => held["merger"] = t
    BY <1>1, <1>6, LibraryAssumption DEF m, Locks
  <2> QED BY <1>5, <2>1, <2>2
<1>10. h.locks = Holds(t)' /\ h.asked = pos[t].asked /\ h.ended = pos[t].ended /\ ~h.over
  BY <1>4, <1>5, <1>7 DEF g
<1>11. t \in Callers => h.up = pos[t].up /\ \A n \in h.locks : StageOf[n] \in up
  BY <1>8 DEF g
<1>12. script[t] # << >> /\ Advance(t) /\ UNCHANGED <<libraryVars, threadVars>>
  BY <1>1
<1>13. /\ held' \in [Locks -> Threads \cup {Nobody}]
       /\ \A u \in Threads \ {t} : Holds(u)' = Holds(u)
  BY <1>7
<1> QED BY <1>2, <1>9, <1>10, <1>11, <1>12, <1>13, PlainStep

LEMMA StandingStepKnows ==
  ASSUME NEW pos, NEW goal, Knows(pos, goal), NEW t \in Threads, script[t] # << >>,
         UNCHANGED <<libraryVars, held, threadVars>>, Advance(t),
         Leads(Role(t), pos[t], Tail(script[t]), goal[t])
  PROVE  LibraryInv'
<1> DEFINE g == pos[t]
<1>1. g \in Positions /\ g.locks = Holds(t) /\ ~g.over
  BY HeadFits, PositionKnows
<1>2. held' = held /\ held \in [Locks -> Threads \cup {Nobody}]
  BY DEF Knows, LibraryTypes
<1>3. \A u \in Threads : Holds(u)' = Holds(u)
  BY <1>2 DEF Holds
<1>4. t \in Callers => \A n \in g.locks : StageOf[n] \in up
  BY PositionKnows
<1>5. t \in LibraryThreads =>
         /\ g.up \in {NetStages, Stages}
         /\ "dmx_merger" \in g.up \/ held'["merger"] = t => call = NoCall /\ Initialized("merger")
         /\ t = "tick" => g.locks \subseteq {"source"}
  BY <1>2, PositionKnows
<1> HIDE DEF g
<1> QED BY <1>1, <1>2, <1>3, <1>4, <1>5, PlainStep DEF g

LEMMA UseDataKnows ==
  ASSUME NEW pos, NEW goal, Knows(pos, goal), NEW t \in Threads,
         UseData(t) \/ CallbackReturns(t)
  PROVE  LibraryInv'
<1>1. /\ script[t] # << >> /\ Head(script[t]).op \in {"use", "callback"} /\ Advance(t)
      /\ UNCHANGED <<libraryVars, held, threadVars>>
  BY DEF UseData, CallbackReturns, At
<1>2. PICK h \in Positions : /\ Fits(Role(t), Head(script[t]), pos[t], h)
                             /\ Leads(Role(t), h, Tail(script[t]), goal[t])
  BY <1>1, HeadFits
<1>3. h = pos[t]
  BY <1>1, <1>2, StepsFit DEF FitsUse, FitsCallback
<1> QED BY <1>1, <1>2, <1>3, StandingStepKnows

\* A thread of the library goes on with other steps.
LEMMA LibraryThreadMoves ==
  ASSUME NEW pos, NEW goal, Knows(pos, goal), UNCHANGED <<libraryVars, held>>,
         NEW t \in LibraryThreads, t \in alive, NEW h \in Positions, NEW r \in Positions,
         script' \in [Threads -> Seq(Steps)],
         \A u \in Threads \ {t} : script'[u] = script[u],
         Leads(t, h, script'[t], r),
         h.locks = Holds(t), ~h.over, h.ended = {}, h.up \in {NetStages, Stages},
         "dmx_merger" \in h.up => call = NoCall /\ Initialized("merger"),
         r.locks = {}, r.up = NetStages,
         alive' = alive \/ (alive' = alive \ {t} /\ script'[t] = << >>),
         running' \subseteq LibraryThreads, signalled' \subseteq LibraryThreads,
         \A l \in LibraryThreads \ {t} :
            ((l \in running)' <=> l \in running) /\ ((l \in signalled)' <=> l \in signalled),
         (t \notin running \/ t \in signalled)' \/ h.asked # {} =>
            t \notin running \/ t \in signalled \/ pos[t].asked # {}
  PROVE  LibraryInv'
<1>1. t \in Threads /\ t \notin Callers
  BY LibraryAssumption DEF Threads
<1>2. LibraryTypes /\ Positioned(pos, goal) /\ UNCHANGED libraryVars
  BY DEF Knows
<1>3. ThreadKnows(t, pos[t]) /\ pos[t].locks = Holds(t) /\ pos \in [Threads -> Positions]
  BY <1>1, <1>2 DEF Positioned, FollowsScript, Knows
<1>4. \A u : Holds(u)' = Holds(u)
  BY DEF Holds
<1>5. alive' \subseteq alive /\ alive \ {t} \subseteq alive' /\ alive' \subseteq LibraryThreads
  BY <1>2 DEF LibraryTypes
<1>6. LibraryTypes'
  BY <1>2, <1>5, TypesStay DEF LibraryTypes
<1>7. FollowsScript(t, h, r)'
  BY <1>4 DEF FollowsScript, Role
<1>8. ThreadKnows(t, h)'
  BY <1>2, <1>3, CallsStay DEF ThreadKnows, NoCall
<1> DEFINE p == [pos EXCEPT ![t] = h]
<1>9. p[t] = h /\ \A u \in Threads \ {t} : p[u] = pos[u]
  BY <1>1, <1>3
<1> HIDE DEF p
<1>10. ASSUME NEW l \in LibraryThreads PROVE EndsForCall(l, p[l], p)'
  <2>1. EndsForCall(l, pos[l], pos)
    BY <1>2 DEF Positioned
  <2>2. \A c \in Callers : p[c].asked = pos[c].asked
    BY <1>1, <1>9 DEF Threads
  <2>3. CASE l = t
    BY <1>9, <2>1, <2>2, <2>3 DEF EndsForCall
  <2>4. CASE l # t
    <3>1. p[l] = pos[l] /\ ((l \in alive)' => l \in alive)
      BY <1>5, <1>9, <2>4 DEF Threads
    <3> QED BY <2>1, <2>2, <2>4, <3>1 DEF EndsForCall
  <2> QED BY <2>3, <2>4
<1>11. \A l \in LibraryThreads : EndsForCall(l, [pos EXCEPT ![t] = h][l], [pos EXCEPT ![t] = h])'
  BY <1>10 DEF p
<1>12. \A u \in Threads \ {t} : Holds(u)' = Holds(u) /\ script'[u] = script[u]
  BY <1>4
<1> QED BY <1>1, <1>2, <1>5, <1>6, <1>7, <1>8, <1>11, <1>12, ThreadMoves

LEMMA ReceiverKnows ==
  ASSUME NEW pos, NEW goal, Knows(pos, goal), NEW l \in LibraryThreads
  PROVE  /\ l \in Threads /\ goal[l] \in Positions /\ goal[l].locks = {} /\ goal[l].up = NetStages
         /\ pos[l] \in Positions /\ pos[l].ended = {} /\ ~pos[l].over /\ pos[l].locks = Holds(l)
         /\ Role(l) = l /\ running \subseteq LibraryThreads /\ signalled \subseteq LibraryThreads
         /\ script[l] # << >> => l \in alive
  BY DEF Knows, Positioned, FollowsScript, ThreadKnows, Threads, Role, LibraryTypes

LEMMA CallbackCallingKnows ==
  ASSUME NEW pos, NEW goal, Knows(pos, goal), NEW t \in Threads, CallbackCalling(t)
  PROVE  LibraryInv'
<1>1. /\ script[t] # << >> /\ Head(script[t]).op = "callback"
      /\ UNCHANGED <<libraryVars, held, threadVars>>
  BY DEF CallbackCalling, At
<1>2. PICK s \in CallbackCalls :
         /\ s = MergerCall => call = NoCall /\ Initialized("merger")
         /\ script' = [script EXCEPT ![t] = s \o @]
  BY DEF CallbackCalling
<1>3. PICK h \in Positions : Fits(Role(t), Head(script[t]), pos[t], h)
  BY <1>1, HeadFits
<1>4. Role(t) = "recv" /\ Below(pos[t], 3)
  BY <1>1, <1>3, StepsFit DEF FitsCallback
<1>5. t = "recv" /\ t \in LibraryThreads
  BY <1>1, <1>4, RolesAre DEF LibraryThreads
<1> DEFINE g == pos[t]
           f == [g EXCEPT !.up = Stages]
<1>6. /\ g \in Positions /\ ~g.over /\ g.locks = Holds(t) /\ g.ended = {} /\ t \in alive
      /\ goal[t] \in Positions /\ goal[t].locks = {} /\ goal[t].up = NetStages
      /\ running \subseteq LibraryThreads /\ signalled \subseteq LibraryThreads
  BY <1>1, <1>5, ReceiverKnows
<1>7. g.up = NetStages
  <2>1. Head(script[t]) # Lock("merger")
    BY <1>1 DEF Lock
  <2> QED BY <1>1, <1>5, <2>1, PositionKnows
<1>8. Attends(g, 3)
  BY <1>4, <1>6, <1>7, StagesAre DEF Attends, Free, CallKinds
<1>9. /\ f \in Positions /\ f.locks = g.locks /\ ~f.over /\ f.up = Stages /\ f.ended = {}
      /\ f.asked = g.asked
  BY <1>6 DEF Positions
<1> HIDE DEF g
<1>10. /\ s \in Seq(Steps)
       /\ Leads("recv", g, s, g) \/ (s = MergerCall /\ Leads("recv", f, s, g))
  BY <1>7, <1>8, CallbackCallLeads
<1>11. script[t] \in Seq(Steps) /\ Leads("recv", g, script[t], goal[t])
       /\ script \in [Threads -> Seq(Steps)]
  BY <1>4 DEF Knows, LibraryTypes, Positioned, FollowsScript, g
<1>12. s \o script[t] \in Seq(Steps)
  BY <1>10, <1>11, ConcatProperties
<1>13. /\ script'[t] = s \o script[t] /\ script' \in [Threads -> Seq(Steps)]
       /\ \A u \in Threads \ {t} : script'[u] = script[u]
  BY <1>2, <1>11, <1>12
<1>14. PICK p \in Positions :
          /\ Leads("recv", p, s, g)
          /\ p = g \/ (p = f /\ s = MergerCall)
  BY <1>6, <1>9, <1>10
<1>15. Leads("recv", p, script'[t], goal[t])
  BY <1>10, <1>11, <1>13, <1>14, JoinedLeads
<1>16. /\ p.locks = Holds(t) /\ ~p.over /\ p.ended = {} /\ p.up \in {NetStages, Stages}
       /\ "dmx_merger" \in p.up => call = NoCall /\ Initialized("merger")
       /\ p.asked = pos[t].asked
  <2> HIDE DEF f
  <2> QED BY <1>2, <1>6, <1>7, <1>9, <1>14, StagesAre DEF g
<1>17. running' = running /\ alive' = alive /\ signalled' = signalled
       /\ UNCHANGED <<libraryVars, held>>
  BY <1>1 DEF threadVars
<1> HIDE DEF f
<1>18. /\ running' \subseteq LibraryThreads /\ signalled' \subseteq LibraryThreads
       /\ \A l \in LibraryThreads \ {t} :
             ((l \in running)' <=> l \in running) /\ ((l \in signalled)' <=> l \in signalled)
       /\ (t \notin running \/ t \in signalled)' \/ p.asked # {} =>
             t \notin running \/ t \in signalled \/ pos[t].asked # {}
       /\ t \in LibraryThreads /\ t \in alive /\ alive' = alive
  BY <1>5, <1>6, <1>16, <1>17
<1>19. Leads(t, p, script'[t], goal[t])
  BY <1>5, <1>15
<1>20. goal[t] \in Positions /\ goal[t].locks = {} /\ goal[t].up = NetStages
  BY <1>6
<1> QED BY <1>13, <1>16, <1>17, <1>18, <1>19, <1>20, LibraryThreadMoves

\* A thread of the library goes on with steps s, and what it was asked stays.
LEMMA LibraryThreadContinues ==
  ASSUME NEW pos, NEW goal, Knows(pos, goal), UNCHANGED <<libraryVars, held, running, signalled>>,
         NEW t \in LibraryThreads, t \in alive, NEW h \in Positions, NEW r \in Positions,
         NEW s \in Seq(Steps), script' = [script EXCEPT ![t] = s],
         Leads(t, h, s, r),
         h.locks = Holds(t), ~h.over, h.ended = {}, h.up = NetStages, h.asked = pos[t].asked,
         r.locks = {}, r.up = NetStages,
         alive' = alive \/ (alive' = alive \ {t} /\ s = << >>)
  PROVE  LibraryInv'
<1>1. t \in Threads /\ running \subseteq LibraryThreads /\ signalled \subseteq LibraryThreads
      /\ script \in [Threads -> Seq(Steps)]
  BY ReceiverKnows DEF Knows, LibraryTypes
<1>2. /\ script' \in [Threads -> Seq(Steps)] /\ script'[t] = s
      /\ \A u \in Threads \ {t} : script'[u] = script[u]
  BY <1>1
<1>3. /\ running' \subseteq LibraryThreads /\ signalled' \subseteq LibraryThreads
      /\ \A l \in LibraryThreads \ {t} :
            ((l \in running)' <=> l \in running) /\ ((l \in signalled)' <=> l \in signalled)
      /\ (t \notin running \/ t \in signalled)' \/ h.asked # {} =>
            t \notin running \/ t \in signalled \/ pos[t].asked # {}
  BY <1>1
<1>4. h.up \in {NetStages, Stages} /\ "dmx_merger" \notin h.up
  BY StagesAre
<1>5. Leads(t, h, script'[t], r) /\ (alive' = alive \/ (alive' = alive \ {t} /\ script'[t] = << >>))
  BY <1>2
<1>6. UNCHANGED <<libraryVars, held>>
  OBVIOUS
<1> QED BY <1>2, <1>3, <1>4, <1>5, <1>6, LibraryThreadMoves

\* The step of a thread of the library that none but such threads take.
LEMMA LibraryStepFits ==
  ASSUME NEW pos, NEW goal, Knows(pos, goal), NEW t \in LibraryThreads, script[t] # << >>,
         Head(script[t]).op # "lock"
  PROVE  /\ t \in alive /\ pos[t].up = NetStages
         /\ script[t] \in Seq(Steps) /\ Tail(script[t]) \in Seq(Steps)
         /\ \E h \in Positions : /\ Fits(t, Head(script[t]), pos[t], h)
                                 /\ Leads(t, h, Tail(script[t]), goal[t])
<1>1. t \in Threads /\ Role(t) = t
  BY ReceiverKnows
<1>2. Head(script[t]) # Lock("merger")
  BY DEF Lock
<1> QED BY <1>1, <1>2, HeadFits, PositionKnows

LEMMA AdvanceIsTail ==
  ASSUME LibraryTypes, NEW t \in Threads, script[t] # << >>, Advance(t)
  PROVE  script' = [script EXCEPT ![t] = Tail(script[t])]
<1>1. script \in [Threads -> Seq(Steps)]
  BY DEF LibraryTypes
<1>2. script' = [script EXCEPT ![t] = << >> \o Tail(script[t])]
  BY DEF Advance, Continue
<1>3. script'[t] = Tail(script[t])
  BY Advanced
<1> QED BY <1>1, <1>2, <1>3

\* The thread is where its script ends, and may stop there.
LEMMA EndsThere ==
  ASSUME NEW pos, NEW goal, Knows(pos, goal), UNCHANGED <<libraryVars, held, running, signalled>>,
         NEW t \in LibraryThreads, script[t] # << >>, Advance(t),
         Head(script[t]).op \in {"begin", "end"},
         alive' = alive \/ alive' = alive \ {t}
  PROVE  LibraryInv'
<1>1. PICK h \in Positions : /\ Fits(t, Head(script[t]), pos[t], h)
                             /\ Leads(t, h, Tail(script[t]), goal[t])
  BY LibraryStepFits
<1>2. t \in alive /\ pos[t].up = NetStages /\ Tail(script[t]) \in Seq(Steps)
  BY LibraryStepFits
<1> DEFINE g == pos[t]
<1>3. g \in Positions /\ ~g.over /\ g.locks = Holds(t) /\ g.ended = {} /\ t \in Threads
  BY ReceiverKnows
<1>4. g.locks = {} /\ h = [g EXCEPT !.over = TRUE]
  BY <1>1, StepsFit DEF FitsBegin, FitsEnd
<1>5. h.over
  BY <1>3, <1>4 DEF Positions
<1>6. Tail(script[t]) = << >>
  BY <1>1, <1>2, <1>5, OverIsTheEnd
<1>7. << >> \in Seq(Steps) /\ Leads(t, g, << >>, g)
  BY <1>3, NothingLeads
<1>8. script' = [script EXCEPT ![t] = << >>]
  BY <1>3, <1>6, AdvanceIsTail DEF Knows
<1>9. g.up = NetStages /\ g.asked = pos[t].asked
  BY <1>2
<1> HIDE DEF g
<1> QED BY <1>2, <1>3, <1>4, <1>7, <1>8, <1>9, LibraryThreadContinues

LEMMA BeginReceivingKnows ==
  ASSUME NEW pos, NEW goal, Knows(pos, goal), BeginReceiving
  PROVE  LibraryInv'
<1>1. PICK t \in LibraryThreads : t = "recv"
  BY DEF LibraryThreads
<1>2. /\ script[t] # << >> /\ Head(script[t]).op \in {"begin", "end"} /\ Advance(t)
      /\ alive' = alive \/ alive' = alive \ {t}
      /\ UNCHANGED <<libraryVars, held, running, signalled>>
  BY <1>1 DEF BeginReceiving, At
<1> QED BY <1>2, EndsThere

LEMMA EndThreadKnows ==
  ASSUME NEW pos, NEW goal, Knows(pos, goal), NEW t \in LibraryThreads, EndThread(t)
  PROVE  LibraryInv'
<1>1. /\ script[t] # << >> /\ Head(script[t]).op \in {"begin", "end"} /\ Advance(t)
      /\ alive' = alive \/ alive' = alive \ {t}
      /\ UNCHANGED <<libraryVars, held, running, signalled>>
  BY DEF EndThread, At
<1> QED BY <1>1, EndsThere

LEMMA ChooseStepsKnows ==
  ASSUME NEW pos, NEW goal, Knows(pos, goal), ChooseSteps
  PROVE  LibraryInv'
<1>1. PICK t \in LibraryThreads : t = "recv"
  BY DEF LibraryThreads
<1>2. PICK s \in LoopOptions[On(t)] : Continue(t, s)
  BY <1>1 DEF ChooseSteps
<1>3. /\ script[t] # << >> /\ Head(script[t]).op = "choose"
      /\ UNCHANGED <<libraryVars, held, running, signalled>> /\ alive' = alive
  BY <1>1 DEF ChooseSteps, At, threadVars
<1>4. PICK h \in Positions : /\ Fits(t, Head(script[t]), pos[t], h)
                             /\ Leads(t, h, Tail(script[t]), goal[t])
  BY <1>3, LibraryStepFits
<1> DEFINE g == pos[t]
<1>5. g.locks = {} /\ h = g /\ On(t) \in {"packet", "tick"}
  BY <1>3, <1>4, StepsFit DEF FitsChoose, On
<1>6. /\ g \in Positions /\ ~g.over /\ g.locks = Holds(t) /\ g.ended = {} /\ t \in Threads
      /\ goal[t] \in Positions /\ goal[t].locks = {} /\ goal[t].up = NetStages
  BY ReceiverKnows
<1>7. t \in alive /\ g.up = NetStages /\ Tail(script[t]) \in Seq(Steps)
  BY <1>3, LibraryStepFits
<1>8. Attends(g, 1)
  BY <1>5, <1>6, <1>7, StagesAre DEF Attends, Free, CallKinds, Below
<1>9. s \in Seq(Steps) /\ Leads("recv", g, s, g)
  BY <1>5, <1>8, OptionsAttended DEF Attended
<1>10. s \o Tail(script[t]) \in Seq(Steps) /\ Leads(t, g, s \o Tail(script[t]), goal[t])
  BY <1>1, <1>4, <1>5, <1>7, <1>9, JoinedLeads, ConcatProperties
<1>11. script' = [script EXCEPT ![t] = s \o Tail(script[t])]
  BY <1>2 DEF Continue
<1>12. g.asked = pos[t].asked
  OBVIOUS
<1> HIDE DEF g
<1> QED BY <1>3, <1>6, <1>7, <1>10, <1>11, <1>12, LibraryThreadContinues

\* The position of a thread of the library between two passes of its loop.
LEMMA LoopPosition ==
  ASSUME NEW pos, NEW goal, Knows(pos, goal), NEW t \in LibraryThreads, script[t] = << >>
  PROVE  /\ pos[t] \in Positions /\ ~pos[t].over /\ pos[t].locks = {} /\ Holds(t) = {}
         /\ pos[t].ended = {} /\ pos[t].up = NetStages /\ goal[t] = pos[t]
  BY ReceiverKnows, IdleAtGoal

LEMMA ReceiveLoopKnows ==
  ASSUME NEW pos, NEW goal, Knows(pos, goal), ReceiveLoop
  PROVE  LibraryInv'
<1>1. PICK t \in LibraryThreads : t = "recv"
  BY DEF LibraryThreads
<1>2. t \in alive /\ script[t] = << >> /\ UNCHANGED <<libraryVars, held, running>> /\ alive' = alive
  BY <1>1 DEF ReceiveLoop
<1> DEFINE g == pos[t]
           f == [g EXCEPT !.asked = {"recv"}]
<1>3. /\ g \in Positions /\ ~g.over /\ g.locks = {} /\ Holds(t) = {}
      /\ g.ended = {} /\ g.up = NetStages
  BY <1>2, LoopPosition
<1>4. Attends(g, 1)
  BY <1>3, StagesAre DEF Attends, Free, CallKinds, Below
<1>5. CASE script' = [script EXCEPT !["recv"] = ReceivePass] /\ UNCHANGED signalled
  <2>1. ReceivePass \in Seq(Steps) /\ Leads(t, g, ReceivePass, g) /\ g.locks = Holds(t)
    BY <1>1, <1>3, <1>4, PassAttended DEF Attended
  <2>2. script' = [script EXCEPT ![t] = ReceivePass] /\ g.asked = pos[t].asked
        /\ UNCHANGED <<libraryVars, held, running, signalled>>
    BY <1>1, <1>2, <1>5
  <2> HIDE DEF g
  <2> QED BY <1>2, <1>3, <2>1, <2>2, LibraryThreadContinues
<1>6. CASE /\ "recv" \in signalled
           /\ script' = [script EXCEPT !["recv"] = ReceiveEnd]
           /\ signalled' = signalled \ {"recv"}
  <2>1. /\ f \in Positions /\ ~f.over /\ f.locks = {} /\ f.ended = {} /\ f.up = NetStages
        /\ f.asked = {"recv"}
    BY <1>3 DEF Positions, LibraryThreads
  <2> HIDE DEF f, g
  <2>2. Attends(f, 1)
    BY <2>1, StagesAre DEF Attends, Free, CallKinds, Below
  <2> DEFINE r == Over(f)
  <2>3. ReceiveEnd \in Seq(Steps) /\ Leads(t, f, ReceiveEnd, r)
    BY <1>1, <2>1, <2>2, EndLeads
  <2>4. r \in Positions /\ r.locks = {} /\ r.up = NetStages
    BY <2>1 DEF Over, Positions
  <2> HIDE DEF r
  <2>5. /\ t \in Threads /\ running \subseteq LibraryThreads /\ signalled \subseteq LibraryThreads
        /\ script \in [Threads -> Seq(Steps)]
    BY ReceiverKnows DEF Knows, LibraryTypes
  <2>6. /\ script' \in [Threads -> Seq(Steps)] /\ script'[t] = ReceiveEnd
        /\ \A u \in Threads \ {t} : script'[u] = script[u]
    BY <1>1, <1>6, <2>3, <2>5
  <2>7. /\ running' \subseteq LibraryThreads /\ signalled' \subseteq LibraryThreads
        /\ \A l \in LibraryThreads \ {t} :
              ((l \in running)' <=> l \in running) /\ ((l \in signalled)' <=> l \in signalled)
        /\ (t \notin running \/ t \in signalled)' \/ f.asked # {} =>
              t \notin running \/ t \in signalled \/ pos[t].asked # {}
    BY <1>1, <1>2, <1>6, <2>5
  <2>8. f.locks = Holds(t) /\ f.up \in {NetStages, Stages} /\ "dmx_merger" \notin f.up
    BY <1>3, <2>1, StagesAre
  <2>9. Leads(t, f, script'[t], r) /\ UNCHANGED <<libraryVars, held>> /\ alive' = alive
    BY <1>2, <2>3, <2>6
  <2> QED BY <1>2, <2>1, <2>4, <2>6, <2>7, <2>8, <2>9, LibraryThreadMoves
<1> QED BY <1>5, <1>6 DEF ReceiveLoop

LEMMA LeaveReceivingKnows ==
  ASSUME NEW pos, NEW goal, Knows(pos, goal), LeaveReceiving
  PROVE  LibraryInv'
<1>1. PICK t \in LibraryThreads : t = "recv"
  BY DEF LibraryThreads
<1>2. /\ script[t] # << >> /\ Head(script[t]).op = "leave" /\ Advance(t)
      /\ running' = running \ {t} /\ alive' = alive /\ signalled' = signalled
      /\ UNCHANGED <<libraryVars, held>>
  BY <1>1 DEF LeaveReceiving, At
<1>3. PICK h \in Positions : /\ Fits(t, Head(script[t]), pos[t], h)
                             /\ Leads(t, h, Tail(script[t]), goal[t])
  BY <1>2, LibraryStepFits
<1> DEFINE g == pos[t]
<1>4. h = g /\ g.asked # {}
  BY <1>1, <1>2, <1>3, StepsFit DEF FitsLeave
<1>5. /\ g \in Positions /\ ~g.over /\ g.locks = Holds(t) /\ g.ended = {} /\ t \in Threads
      /\ goal[t] \in Positions /\ goal[t].locks = {} /\ goal[t].up = NetStages
      /\ running \subseteq LibraryThreads /\ signalled \subseteq LibraryThreads
  BY ReceiverKnows
<1>6. t \in alive /\ g.up \in {NetStages, Stages} /\ "dmx_merger" \notin g.up
  BY <1>2, LibraryStepFits, StagesAre
<1>7. /\ script' \in [Threads -> Seq(Steps)] /\ script'[t] = Tail(script[t])
      /\ \A u \in Threads \ {t} : script'[u] = script[u]
  BY <1>2, <1>5, Advanced DEF Knows
<1>8. /\ running' \subseteq LibraryThreads /\ signalled' \subseteq LibraryThreads
      /\ \A l \in LibraryThreads \ {t} :
            ((l \in running)' <=> l \in running) /\ ((l \in signalled)' <=> l \in signalled)
      /\ (t \notin running \/ t \in signalled)' \/ g.asked # {} =>
            t \notin running \/ t \in signalled \/ pos[t].asked # {}
  BY <1>2, <1>4, <1>5
<1>9. Leads(t, g, script'[t], goal[t]) /\ UNCHANGED <<libraryVars, held>> /\ alive' = alive
  BY <1>2, <1>3, <1>4, <1>7
<1> HIDE DEF g
<1> QED BY <1>5, <1>6, <1>7, <1>8, <1>9, LibraryThreadMoves

LEMMA SourceLoopKnows ==
  ASSUME NEW pos, NEW goal, Knows(pos, goal), SourceLoop
  PROVE  LibraryInv'
<1>1. PICK t \in LibraryThreads : t = "tick"
  BY DEF LibraryThreads
<1>2. /\ t \in alive /\ script[t] = << >> /\ alive' = alive
      /\ UNCHANGED <<libraryVars, held, running, signalled>>
      /\ script' = [script EXCEPT ![t] = SourcePass]
  BY <1>1 DEF SourceLoop, threadVars
<1> DEFINE g == pos[t]
<1>3. /\ g \in Positions /\ ~g.over /\ g.locks = {} /\ Holds(t) = {}
      /\ g.ended = {} /\ g.up = NetStages
  BY <1>2, LoopPosition
<1>4. Free("tick", g) /\ NetStages \subseteq g.up /\ g.asked = pos[t].asked /\ g.locks = Holds(t)
  BY <1>3, StagesAre DEF Free, CallKinds
<1> HIDE DEF g
<1>5. SourcePass \in Seq(Steps) /\ Leads(t, g, SourcePass, g)
  BY <1>1, <1>3, <1>4, SourcePassLeads
<1> QED BY <1>2, <1>3, <1>4, <1>5, LibraryThreadContinues

LEMMA LeaveSourcesKnows ==
  ASSUME NEW pos, NEW goal, Knows(pos, goal), LeaveSources
  PROVE  LibraryInv'
<1>1. PICK t \in LibraryThreads : t = "tick"
  BY DEF LibraryThreads
<1>2. /\ script[t] # << >> /\ Head(script[t]).op = "leave" /\ alive' = alive
      /\ UNCHANGED <<libraryVars, held, running, signalled>>
      /\ Advance(t) \/ script' = [script EXCEPT ![t] = SourceEnd]
  BY <1>1 DEF LeaveSources, At, threadVars
<1>3. PICK h \in Positions : /\ Fits(t, Head(script[t]), pos[t], h)
                             /\ Leads(t, h, Tail(script[t]), goal[t])
  BY <1>2, LibraryStepFits
<1> DEFINE g == pos[t]
           f == [g EXCEPT !.locks = {}]
<1>4. h = g /\ g.locks = {"source"}
  BY <1>1, <1>2, <1>3, StepsFit, UsedAre DEF FitsLeave
<1>5. /\ g \in Positions /\ ~g.over /\ g.locks = Holds(t) /\ g.ended = {} /\ t \in Threads
      /\ goal[t] \in Positions /\ goal[t].locks = {} /\ goal[t].up = NetStages
      /\ g.asked = pos[t].asked
  BY ReceiverKnows
<1>6. t \in alive /\ g.up = NetStages /\ Tail(script[t]) \in Seq(Steps)
  BY <1>2, LibraryStepFits
<1>7. CASE Advance(t)
  <2>1. script' = [script EXCEPT ![t] = Tail(script[t])]
    BY <1>2, <1>5, <1>7, AdvanceIsTail DEF Knows
  <2>2. Leads(t, g, Tail(script[t]), goal[t])
    BY <1>3, <1>4
  <2> HIDE DEF g
  <2> QED BY <1>2, <1>5, <1>6, <2>1, <2>2, LibraryThreadContinues
<1>8. CASE script' = [script EXCEPT ![t] = SourceEnd]
  <2>1. /\ f \in Positions /\ ~f.over /\ f.locks = {} /\ f.ended = {} /\ f.up = NetStages
        /\ f.asked = g.asked
    BY <1>5, <1>6 DEF Positions
  <2>2. With(f, "source") = g
    BY <1>4, <1>5 DEF With, Positions
  <2> HIDE DEF f, g
  <2>3. Free("tick", f) /\ NetStages \subseteq f.up
    BY <2>1, StagesAre DEF Free, CallKinds
  <2> DEFINE r == Over(f)
  <2>4. SourceEnd \in Seq(Steps) /\ Leads(t, g, SourceEnd, r)
    BY <1>1, <2>1, <2>2, <2>3, SourcePassLeads
  <2>5. r \in Positions /\ r.locks = {} /\ r.up = NetStages
    BY <2>1 DEF Over, Positions
  <2> HIDE DEF r
  <2> QED BY <1>2, <1>5, <1>6, <1>8, <2>4, <2>5, LibraryThreadContinues
<1> QED BY <1>2, <1>7, <1>8

(***************************************************************************)
(* The steps of the threads of the application.                            *)
(***************************************************************************)
LEMMA CallerIs ==
  ASSUME NEW t \in Callers
  PROVE  t \in Threads /\ t \notin LibraryThreads
  BY LibraryAssumption DEF Threads

\* The stages that are up between calls.
LEMMA UpBetweenCalls ==
  ASSUME BetweenCalls, call = NoCall
  PROVE  /\ up = StagesFor(Kept)
         /\ \A f \in Features : Initialized(f) => Whole(f) \subseteq up
         /\ ("net" \in Kept <=> Initialized("net")) /\ ("net" \notin Kept => alive = {})
         /\ up \cap NetStages # {} => "net" \in Kept
  BY StagesAre DEF BetweenCalls, StagesFor, Kept, Features

LEMMA CallApiKnows ==
  ASSUME NEW pos, NEW goal, Knows(pos, goal), NEW t \in Callers, CallApi(t)
  PROVE  LibraryInv'
<1>1. /\ script[t] = << >> /\ call = NoCall /\ UNCHANGED <<libraryVars, held>>
      /\ running' = running /\ alive' = alive /\ signalled' = signalled
  BY DEF CallApi, threadVars
<1>2. PICK s \in NetworkCalls \cup {MergerCall} :
         /\ IF s = MergerCall THEN Initialized("merger") ELSE Initialized("net")
         /\ script' = [script EXCEPT ![t] = s]
  BY DEF CallApi
<1>3. t \in Threads /\ t \notin LibraryThreads /\ LibraryTypes /\ BetweenCalls
  BY CallerIs DEF Knows
<1>4. PICK h \in Positions : h = Place({}, up, {}, {})
  BY <1>3 DEF LibraryTypes, Place, Positions
<1>5. h.locks = {} /\ h.up = up /\ h.asked = {} /\ h.ended = {} /\ ~h.over
  BY <1>4 DEF Place
<1>6. Free("none", h)
  BY <1>5 DEF Free, LibraryThreads, CallKinds
<1>7. CallFits(h, s)
  <2>1. Initialized("net") => NetStages \subseteq h.up
    BY <1>1, <1>3, <1>5, UpBetweenCalls, StagesAre DEF Features
  <2>2. Initialized("merger") => "dmx_merger" \in h.up
    BY <1>1, <1>3, <1>5, UpBetweenCalls, StagesAre DEF Features
  <2> QED BY <1>2, <1>5, <1>6, <2>1, <2>2, CallsFit
<1>8. /\ script' \in [Threads -> Seq(Steps)] /\ script'[t] = s
      /\ \A u \in Threads \ {t} : script'[u] = script[u]
  BY <1>2, <1>3, <1>7 DEF CallFits, LibraryTypes
<1>9. LibraryTypes'
  BY <1>1, <1>3, <1>8, TypesStay DEF LibraryTypes
<1>10. \A u : Holds(u)' = Holds(u)
  BY <1>1 DEF Holds
<1>11. Holds(t) = {} /\ pos[t].asked = {} /\ pos[t].ended = {}
  <2>1. CallerKnows(pos[t], script[t])
    BY DEF Knows, Positioned
  <2> QED BY <1>1, <1>3, <2>1, IdleAtGoal DEF CallerKnows
<1>12. up' = up /\ call' = call /\ Role(t)' = Role(t) /\ Role(t) = "none" /\ UNCHANGED libraryVars
  BY <1>1, <1>3, CallsStay DEF Role, NoCall
<1>13. FollowsScript(t, h, h)'
  BY <1>5, <1>7, <1>8, <1>10, <1>11, <1>12 DEF FollowsScript, CallFits
<1>14. CallerKnows(h, script[t])'
  BY <1>5, <1>7, <1>8, <1>12 DEF CallerKnows, CallFits
<1>15. \A l \in LibraryThreads : EndsForCall(l, [pos EXCEPT ![t] = h][l], [pos EXCEPT ![t] = h])'
  BY <1>1, <1>3, <1>5, <1>11, EndsStay
<1>16. /\ t \in Callers => /\ CallerKnows(h, script[t])' /\ pos[t].ended \subseteq h.ended
                           /\ call # NoCall => script[t] # << >> /\ h = goal[t]
       /\ t \in LibraryThreads => ThreadKnows(t, h)' /\ h.up = NetStages
       /\ alive' \subseteq alive /\ alive \ {t} \subseteq alive'
       /\ \A u \in Threads \ {t} : Holds(u)' = Holds(u) /\ script'[u] = script[u]
  BY <1>1, <1>3, <1>8, <1>10, <1>11, <1>14
<1> QED BY <1>3, <1>9, <1>12, <1>13, <1>15, <1>16, ThreadMoves

LEMMA JoinThreadKnows ==
  ASSUME NEW pos, NEW goal, Knows(pos, goal), NEW t \in Callers, JoinThread(t)
  PROVE  LibraryInv'
<1>1. /\ script[t] # << >> /\ Head(script[t]).op = "join" /\ On(t) \notin alive /\ Advance(t)
      /\ UNCHANGED <<libraryVars, held>>
      /\ running' = running /\ alive' = alive /\ signalled' = signalled
  BY DEF JoinThread, At, threadVars
<1>2. t \in Threads /\ t \notin LibraryThreads /\ LibraryTypes /\ Positioned(pos, goal)
  BY CallerIs DEF Knows
<1>3. PICK h \in Positions : /\ Fits(Role(t), Head(script[t]), pos[t], h)
                             /\ Leads(Role(t), h, Tail(script[t]), goal[t])
  BY <1>1, <1>2, HeadFits
<1> DEFINE g == pos[t]
           l == On(t)
<1>4. FitsJoin(Role(t), Head(script[t]), g, h)
  BY <1>1, <1>3, StepsFit
<1>5. /\ g \in Positions /\ ~g.over /\ g.locks = Holds(t) /\ g.up = up /\ goal[t] \in Positions
      /\ call # NoCall /\ InCall(t, pos, goal)
  <2>1. Role(t) \in CallKinds
    BY <1>4 DEF FitsJoin
  <2> QED BY <1>1, <1>2, <2>1, HeadFits, PositionKnows, RolesAre
<1>6. /\ g.locks = {} /\ g.asked = {l} /\ h.locks = {} /\ h.asked = {} /\ h.up = g.up /\ ~h.over
      /\ h.ended = g.ended \cup {l}
  BY <1>4, <1>5 DEF FitsJoin, On, Positions
<1> HIDE DEF g, l
<1>7. /\ script'[t] = Tail(script[t]) /\ script' \in [Threads -> Seq(Steps)]
      /\ \A u \in Threads \ {t} : script'[u] = script[u]
  BY <1>1, <1>2, Advanced
<1>8. \A u : Holds(u)' = Holds(u)
  BY <1>1 DEF Holds
<1>9. up' = up /\ call' = call /\ Role(t)' = Role(t) /\ UNCHANGED libraryVars
  BY <1>1, CallsStay
<1>10. LibraryTypes'
  BY <1>1, <1>2, <1>7, <1>9, TypesStay DEF LibraryTypes
<1>11. FollowsScript(t, h, goal[t])'
  <2>1. FollowsScript(t, g, goal[t])
    BY <1>2 DEF Positioned, g
  <2> QED BY <1>3, <1>5, <1>6, <1>7, <1>8, <1>9, <2>1 DEF FollowsScript
<1>12. CallerKnows(h, script[t])'
  <2>1. CallerKnows(g, script[t])
    BY <1>2 DEF Positioned, g
  <2> QED BY <1>1, <1>5, <1>6, <1>9, <2>1 DEF CallerKnows, NoCall, l
<1> DEFINE p == [pos EXCEPT ![t] = h]
<1>13. p[t] = h /\ \A u \in Threads \ {t} : p[u] = pos[u]
  BY <1>2 DEF Knows
<1> HIDE DEF p
<1>14. ASSUME NEW k \in LibraryThreads PROVE EndsForCall(k, p[k], p)'
  <2>1. EndsForCall(k, pos[k], pos) /\ p[k] = pos[k]
    BY <1>2, <1>13 DEF Positioned, Threads
  <2>2. \A c \in Callers : k \in pos[c].asked => c = t /\ k = l
    BY <1>5, <1>6 DEF InCall, g
  <2>3. k = l => k \notin alive
    BY <1>1 DEF l
  <2> QED BY <1>1, <2>1, <2>2, <2>3 DEF EndsForCall
<1>15. \A k \in LibraryThreads : EndsForCall(k, [pos EXCEPT ![t] = h][k], [pos EXCEPT ![t] = h])'
  BY <1>14 DEF p
<1>16. /\ t \in Callers => /\ CallerKnows(h, script[t])' /\ pos[t].ended \subseteq h.ended
                           /\ call # NoCall => script[t] # << >> /\ goal[t] = goal[t]
       /\ t \in LibraryThreads => ThreadKnows(t, h)' /\ goal[t].up = NetStages
       /\ alive' \subseteq alive /\ alive \ {t} \subseteq alive'
       /\ \A u \in Threads \ {t} : Holds(u)' = Holds(u) /\ script'[u] = script[u]
  BY <1>1, <1>2, <1>6, <1>7, <1>8, <1>12 DEF g
<1> QED BY <1>2, <1>5, <1>9, <1>10, <1>11, <1>15, <1>16, ThreadMoves

LEMMA RemovedSecond ==
  ASSUME NEW s \in Seq(Steps), Len(s) >= 2
  PROVE  /\ RemoveAt(s, 2) = <<Head(s)>> \o Tail(Tail(s))
         /\ <<Head(s)>> \in Seq(Steps) /\ Tail(Tail(s)) \in Seq(Steps)
         /\ RemoveAt(s, 2) \in Seq(Steps)
<1> DEFINE a == SubSeq(s, 1, 1)
           b == SubSeq(s, 3, Len(s))
<1>1. Len(s) \in Nat /\ Head(s) = s[1] /\ Head(s) \in Steps
  BY HeadTailProperties
<1> HIDE DEF Steps
<1>2. /\ Tail(s) \in Seq(Steps) /\ Len(Tail(s)) = Len(s) - 1
      /\ \A i \in 1..Len(Tail(s)) : Tail(s)[i] = s[i + 1]
  BY <1>1, HeadTailProperties
<1>3. Tail(s) # << >>
  <2>1. Len(Tail(s)) # 0
    BY <1>1, <1>2
  <2> QED BY <2>1, EmptySeq
<1>4. /\ Tail(Tail(s)) \in Seq(Steps) /\ Len(Tail(Tail(s))) = Len(s) - 2
      /\ \A i \in 1..Len(Tail(Tail(s))) : Tail(Tail(s))[i] = s[i + 2]
  <2>1. /\ Tail(Tail(s)) \in Seq(Steps) /\ Len(Tail(Tail(s))) = Len(Tail(s)) - 1
        /\ \A i \in 1..Len(Tail(Tail(s))) : Tail(Tail(s))[i] = Tail(s)[i + 1]
    BY <1>2, <1>3, HeadTailProperties
  <2>2. \A i \in 1..Len(Tail(Tail(s))) : i + 1 \in 1..Len(Tail(s)) /\ (i + 1) + 1 = i + 2
    BY <1>1, <1>2, <2>1
  <2> QED BY <1>1, <1>2, <2>1, <2>2
<1>5. a \in Seq(Steps) /\ Len(a) = 1 /\ a[1] = s[1]
  BY <1>1, SubSeqProperties
<1>6. /\ b \in Seq(Steps) /\ Len(b) = Len(s) - 2
      /\ \A i \in 1..Len(b) : b[i] = s[i + 2]
  <2>1. \A i \in 3..Len(s) : i \in 1..Len(s)
    BY <1>1
  <2>2. \A i \in 3..Len(s) : s[i] \in Steps
    BY <1>1, <2>1, ElementOfSeq
  <2>3. CASE Len(s) = 2
    <3>1. b = << >>
      BY <1>1, <2>3, SubSeqEmpty
    <3> QED BY <2>3, <3>1, EmptySeq
  <2>4. CASE Len(s) > 2
    BY <1>1, <2>2, <2>4, SubSeqProperties
  <2>5. Len(s) = 2 \/ Len(s) > 2
    <3>1. \A n \in Nat : n >= 2 => n = 2 \/ n > 2
      OBVIOUS
    <3> QED BY <1>1, <3>1
  <2> QED BY <2>3, <2>4, <2>5
<1>7. <<Head(s)>> \in Seq(Steps) /\ Len(<<Head(s)>>) = 1 /\ <<Head(s)>>[1] = s[1]
  BY <1>1
<1> HIDE DEF a, b
<1>8. a = <<Head(s)>>
  BY <1>5, <1>7, SeqEqual
<1>9. b = Tail(Tail(s))
  BY <1>4, <1>6, SeqEqual
<1>10. RemoveAt(s, 2) = a \o b
  BY DEF RemoveAt, a, b
<1> QED BY <1>4, <1>7, <1>8, <1>9, <1>10, ConcatProperties

\* After the signal comes the unlock, and then the join.
LEMMA UnlocksThenJoins ==
  ASSUME NEW role \in CallKinds, NEW g \in Positions, NEW h \in Positions, NEW r \in Positions,
         NEW l \in LibraryThreads, NEW s \in Seq(Steps), Leads(role, h, s, r), r.asked = {},
         g.locks = {LockOf[l]}, ~g.over, g.asked = {}, h = [g EXCEPT !.asked = {l}]
  PROVE  /\ Len(s) >= 2 /\ RemoveAt(s, 2) \in Seq(Steps)
         /\ Leads(role, [g EXCEPT !.ended = g.ended \cup {l}], RemoveAt(s, 2), r)
<1> DEFINE f == [g EXCEPT !.ended = g.ended \cup {l}]
<1>1. /\ h.locks = {LockOf[l]} /\ h.asked = {l} /\ h.up = g.up /\ h.ended = g.ended /\ ~h.over
      /\ f \in Positions /\ f.locks = {LockOf[l]} /\ f.asked = {} /\ f.up = g.up
      /\ f.ended = g.ended \cup {l} /\ ~f.over
  BY DEF Positions
<1>2. s # << >>
  <2>1. ~Leads(role, h, << >>, r)
    <3>1. r # h
      BY <1>1
    <3> QED BY <3>1, NothingLeads
  <2> QED BY <2>1
<1>3. PICK h2 \in Positions : Fits(role, Head(s), h, h2) /\ Leads(role, h2, Tail(s), r)
  BY <1>2, HeadLeads
<1>4. Head(s).op = "unlock"
  <2>1. Head(s).op \in {"unlock", "join"}
    BY <1>1, <1>3 DEF Fits
  <2>2. Head(s).op = "join" => h.locks = {}
    BY <1>3, StepsFit DEF FitsJoin
  <2> QED BY <1>1, <2>1, <2>2
<1>5. FitsUnlock(role, Head(s), h, h2)
  BY <1>3, <1>4, StepsFit
<1> HIDE DEF f
<1>6. /\ Head(s).on = LockOf[l] /\ h2.locks = {} /\ h2.asked = {l} /\ h2.up = g.up
      /\ h2.ended = g.ended /\ ~h2.over
  BY <1>1, <1>5 DEF FitsUnlock, Positions
<1>7. Tail(s) # << >> /\ Tail(s) \in Seq(Steps)
  <2> HIDE DEF Steps
  <2>1. Tail(s) \in Seq(Steps)
    BY <1>2, HeadTailProperties
  <2>2. ~Leads(role, h2, << >>, r)
    <3>1. r # h2
      BY <1>6
    <3> QED BY <3>1, NothingLeads
  <2> QED BY <1>3, <2>1, <2>2
<1>8. PICK h3 \in Positions : Fits(role, Head(Tail(s)), h2, h3) /\ Leads(role, h3, Tail(Tail(s)), r)
  BY <1>3, <1>7, HeadLeads
<1>9. Head(Tail(s)).op = "join"
  <2>1. Head(Tail(s)).op \in {"unlock", "join"}
    BY <1>6, <1>8 DEF Fits
  <2>2. Head(Tail(s)).op = "unlock" => h2.locks # {}
    BY <1>8, StepsFit DEF FitsUnlock
  <2> QED BY <1>6, <2>1, <2>2
<1>10. FitsJoin(role, Head(Tail(s)), h2, h3)
  BY <1>8, <1>9, StepsFit
<1>11. /\ h3.locks = {} /\ h3.asked = {} /\ h3.up = g.up /\ h3.ended = g.ended \cup {l}
       /\ ~h3.over
  BY <1>6, <1>10 DEF FitsJoin, Positions
<1>12. h3 = [f EXCEPT !.locks = f.locks \ {Head(s).on}]
  <2> DEFINE k == [f EXCEPT !.locks = f.locks \ {Head(s).on}]
  <2>1. /\ k \in Positions /\ k.locks = {} /\ k.asked = {} /\ k.up = g.up
        /\ k.ended = g.ended \cup {l} /\ k.over = f.over
    BY <1>1, <1>6 DEF Positions
  <2>2. k.over = h3.over
    BY <1>1, <1>11, <2>1 DEF Positions
  <2> HIDE DEF k
  <2>3. k = h3
    BY <1>11, <2>1, <2>2, SamePosition
  <2> QED BY <2>3 DEF k
<1>13. FitsUnlock(role, Head(s), f, h3)
  BY <1>1, <1>4, <1>6, <1>12 DEF FitsUnlock
<1>14. Fits(role, Head(s), f, h3)
  <2>1. role \notin LibraryThreads
    BY DEF CallKinds, LibraryThreads
  <2> QED BY <1>1, <1>13, <2>1 DEF Fits
<1>15. Leads(role, f, <<Head(s)>>, h3)
  BY <1>1, <1>14, StepLeads
<1>16. Len(s) >= 2
  BY <1>2, <1>7
<1>17. RemoveAt(s, 2) \in Seq(Steps) /\ Leads(role, f, RemoveAt(s, 2), r)
  <2>1. /\ RemoveAt(s, 2) = <<Head(s)>> \o Tail(Tail(s))
        /\ <<Head(s)>> \in Seq(Steps) /\ Tail(Tail(s)) \in Seq(Steps)
        /\ RemoveAt(s, 2) \in Seq(Steps)
    BY <1>16, RemovedSecond
  <2>2. Leads(role, f, <<Head(s)>> \o Tail(Tail(s)), r)
    BY <1>8, <1>15, <2>1, JoinedLeads
  <2> QED BY <2>1, <2>2
<1> QED BY <1>16, <1>17 DEF f

LEMMA SignalThreadKnows ==
  ASSUME NEW pos, NEW goal, Knows(pos, goal), NEW t \in Callers, SignalThread(t)
  PROVE  LibraryInv'
<1>1. /\ script[t] # << >> /\ Head(script[t]).op = "signal" /\ alive' = alive
      /\ UNCHANGED <<libraryVars, held>>
      /\ \/ /\ On(t) \in running /\ Advance(t)
            /\ signalled' = signalled \cup {On(t)}
            /\ running' = running \ ({On(t)} \cap {"tick"})
         \/ /\ On(t) \notin running /\ signalled' = signalled /\ running' = running
            /\ script' = [script EXCEPT ![t] = RemoveAt(Tail(@), 2)]
  BY DEF SignalThread, At
<1>2. t \in Threads /\ t \notin LibraryThreads /\ LibraryTypes /\ Positioned(pos, goal)
      /\ script \in [Threads -> Seq(Steps)]
  BY CallerIs DEF Knows, LibraryTypes
<1>3. PICK h \in Positions : /\ Fits(Role(t), Head(script[t]), pos[t], h)
                             /\ Leads(Role(t), h, Tail(script[t]), goal[t])
  BY <1>1, <1>2, HeadFits
<1> DEFINE g == pos[t]
           l == On(t)
<1>4. FitsSignal(Role(t), Head(script[t]), g, h)
  BY <1>1, <1>3, StepsFit
<1>5. /\ g \in Positions /\ ~g.over /\ g.locks = Holds(t) /\ g.up = up /\ goal[t] \in Positions
      /\ call # NoCall /\ InCall(t, pos, goal) /\ Role(t) \in CallKinds
      /\ \A m \in g.locks : StageOf[m] \in up
      /\ script[t] \in Seq(Steps) /\ Tail(script[t]) \in Seq(Steps)
  <2>1. Role(t) \in CallKinds
    BY <1>4 DEF FitsSignal
  <2> QED BY <1>1, <1>2, <2>1, HeadFits, PositionKnows, RolesAre
<1>6. /\ l \in LibraryThreads /\ g.locks = {LockOf[l]} /\ h = [g EXCEPT !.asked = {l}]
      /\ h.locks = g.locks /\ h.asked = {l} /\ h.up = g.up /\ ~h.over /\ h.ended = g.ended
  BY <1>4, <1>5 DEF FitsSignal, On, Positions
<1>7. g.asked = {}
  <2>1. Role(t) \in CallKinds /\ g.asked # {} => Head(script[t]).op \in {"unlock", "join"}
    BY <1>3 DEF Fits
  <2> QED BY <1>1, <1>5, <2>1
<1> HIDE DEF g, l
<1>8. \A u : Holds(u)' = Holds(u)
  BY <1>1 DEF Holds
<1>9. up' = up /\ call' = call /\ Role(t)' = Role(t) /\ UNCHANGED libraryVars
  BY <1>1, CallsStay
<1>10. FollowsScript(t, g, goal[t]) /\ CallerKnows(g, script[t])
  BY <1>2 DEF Positioned, g
<1>11. \A c \in Callers : pos[c].asked = {}
  BY <1>5, <1>7 DEF InCall, g
<1>12. ASSUME NEW k \in LibraryThreads, k \in alive
       PROVE  k \in running /\ k \notin signalled /\ pos[k].asked = {}
  <2>1. EndsForCall(k, pos[k], pos)
    BY <1>2 DEF Positioned
  <2> QED BY <1>11, <1>12, <2>1 DEF EndsForCall
<1>13. CASE On(t) \in running
  <2>1. /\ Advance(t) /\ signalled' = signalled \cup {l} /\ running' = running \ ({l} \cap {"tick"})
    BY <1>1, <1>13 DEF l
  <2>2. /\ script'[t] = Tail(script[t]) /\ script' \in [Threads -> Seq(Steps)]
        /\ \A u \in Threads \ {t} : script'[u] = script[u]
    BY <1>1, <1>2, <2>1, Advanced
  <2>3. LibraryTypes'
    BY <1>1, <1>2, <1>6, <1>9, <2>1, <2>2, TypesStay DEF LibraryTypes
  <2>4. FollowsScript(t, h, goal[t])'
    BY <1>3, <1>5, <1>6, <1>8, <1>9, <1>10, <2>2 DEF FollowsScript
  <2>5. CallerKnows(h, script[t])'
    BY <1>1, <1>5, <1>6, <1>9, <1>10 DEF CallerKnows, NoCall
  <2> DEFINE p == [pos EXCEPT ![t] = h]
  <2>6. p[t] = h /\ \A u \in Threads \ {t} : p[u] = pos[u]
    BY <1>2 DEF Knows
  <2> HIDE DEF p
  <2>7. ASSUME NEW k \in LibraryThreads PROVE EndsForCall(k, p[k], p)'
    <3>1. p[k] = pos[k]
      BY <1>2, <2>6 DEF Threads
    <3>2. CASE k = l
      BY <1>6, <2>6, <3>2 DEF EndsForCall
    <3>3. CASE k # l
      BY <1>1, <1>12, <2>1, <3>1, <3>3 DEF EndsForCall
    <3> QED BY <3>2, <3>3
  <2>8. \A k \in LibraryThreads : EndsForCall(k, [pos EXCEPT ![t] = h][k], [pos EXCEPT ![t] = h])'
    BY <2>7 DEF p
  <2>9. /\ t \in Callers => /\ CallerKnows(h, script[t])' /\ pos[t].ended \subseteq h.ended
                            /\ call # NoCall => script[t] # << >> /\ goal[t] = goal[t]
        /\ t \in LibraryThreads => ThreadKnows(t, h)' /\ goal[t].up = NetStages
        /\ alive' \subseteq alive /\ alive \ {t} \subseteq alive'
        /\ \A u \in Threads \ {t} : Holds(u)' = Holds(u) /\ script'[u] = script[u]
    BY <1>1, <1>2, <1>6, <1>8, <2>2, <2>5 DEF g
  <2> QED BY <1>2, <1>5, <1>9, <2>3, <2>4, <2>8, <2>9, ThreadMoves
<1>14. CASE On(t) \notin running
  <2>1. /\ signalled' = signalled /\ running' = running /\ alive' = alive
        /\ script' = [script EXCEPT ![t] = RemoveAt(Tail(script[t]), 2)]
    BY <1>1, <1>2, <1>14
  <2>2. l \notin alive
    BY <1>6, <1>12, <1>14 DEF l
  <2> PICK f \in Positions : f = [g EXCEPT !.ended = g.ended \cup {l}]
    BY <1>5, <1>6 DEF Positions
  <2>3. /\ f.locks = g.locks /\ f.asked = {} /\ f.up = g.up
        /\ f.ended = g.ended \cup {l} /\ ~f.over
    BY <1>5, <1>6, <1>7 DEF Positions
  <2>4. goal[t].asked = {}
    BY <1>5 DEF InCall, Reaches
  <2>5. /\ RemoveAt(Tail(script[t]), 2) \in Seq(Steps)
        /\ Leads(Role(t), f, RemoveAt(Tail(script[t]), 2), goal[t])
    BY <1>3, <1>5, <1>6, <1>7, <2>4, UnlocksThenJoins
  <2>6. /\ script'[t] = RemoveAt(Tail(script[t]), 2) /\ script' \in [Threads -> Seq(Steps)]
        /\ \A u \in Threads \ {t} : script'[u] = script[u]
    BY <1>2, <2>1, <2>5
  <2>7. LibraryTypes'
    BY <1>1, <1>2, <1>9, <2>1, <2>6, TypesStay DEF LibraryTypes
  <2>8. FollowsScript(t, f, goal[t])'
    BY <1>8, <1>9, <1>10, <2>3, <2>5, <2>6 DEF FollowsScript
  <2>9. CallerKnows(f, script[t])'
    BY <1>1, <1>5, <1>9, <1>10, <2>2, <2>3 DEF CallerKnows, NoCall
  <2>10. f.asked = pos[t].asked
    BY <1>7, <2>3 DEF g
  <2>11. \A k \in LibraryThreads : EndsForCall(k, [pos EXCEPT ![t] = f][k], [pos EXCEPT ![t] = f])'
    BY <1>2, <2>1, <2>3, <2>10, EndsStay
  <2>12. /\ t \in Callers => /\ CallerKnows(f, script[t])' /\ pos[t].ended \subseteq f.ended
                             /\ call # NoCall => script[t] # << >> /\ goal[t] = goal[t]
         /\ t \in LibraryThreads => ThreadKnows(t, f)' /\ goal[t].up = NetStages
         /\ alive' \subseteq alive /\ alive \ {t} \subseteq alive'
         /\ \A u \in Threads \ {t} : Holds(u)' = Holds(u) /\ script'[u] = script[u]
    BY <1>1, <1>2, <1>8, <2>1, <2>3, <2>6, <2>9 DEF g
  <2> QED BY <1>2, <1>5, <1>9, <2>3, <2>7, <2>8, <2>11, <2>12, ThreadMoves
<1> QED BY <1>13, <1>14

\* What a call of the application knows when it comes to start a thread.
LEMMA StarterKnows ==
  ASSUME NEW pos, NEW goal, Knows(pos, goal), NEW t \in Callers, At(t, "start")
  PROVE  /\ t \in Threads /\ call = NoCall /\ Role(t) = "none" /\ script[t] # << >>
         /\ On(t) \in LibraryThreads /\ UsedBy[On(t)] \subseteq up /\ "net" \in Kept
         /\ pos[t] \in Positions /\ pos[t].locks = {LockOf[On(t)]} /\ ~pos[t].over
         /\ pos[t].asked = {} /\ pos[t].ended = {} /\ pos[t].up = up
         /\ Leads(Role(t), pos[t], Tail(script[t]), goal[t])
         /\ On(t) \in running \/ On(t) \notin alive
         /\ StartsRelease(script[t])
<1>1. t \in Threads /\ t \notin LibraryThreads /\ Positioned(pos, goal) /\ BetweenCalls
      /\ script[t] # << >> /\ Head(script[t]).op = "start"
  BY CallerIs DEF Knows, At
<1>2. PICK h \in Positions : /\ Fits(Role(t), Head(script[t]), pos[t], h)
                             /\ Leads(Role(t), h, Tail(script[t]), goal[t])
  BY <1>1, HeadFits
<1>3. FitsStart(Role(t), Head(script[t]), pos[t], h)
  BY <1>1, <1>2, StepsFit
<1>4. Role(t) = "none" /\ call = NoCall
  BY <1>1, <1>3, RolesAre DEF FitsStart
<1>5. CallerKnows(pos[t], script[t]) /\ \A c \in Callers : CallerKnows(pos[c], script[c])
  BY <1>1 DEF Positioned
<1>6. pos[t].up = up /\ pos[t].locks = Holds(t) /\ ~pos[t].over /\ pos[t] \in Positions
  BY <1>1, HeadFits, PositionKnows
<1>7. /\ On(t) \in LibraryThreads /\ UsedBy[On(t)] \subseteq up /\ pos[t].locks = {LockOf[On(t)]}
      /\ h = pos[t]
  BY <1>3, <1>6 DEF FitsStart, On
<1>8. "net" \in Kept
  <2>1. UsedBy[On(t)] \subseteq NetStages /\ UsedBy[On(t)] # {}
    BY <1>7, UsedAre DEF LibraryThreads
  <2> QED BY <1>1, <1>4, <1>7, <2>1, UpBetweenCalls
<1>9. On(t) \in running \/ On(t) \notin alive
  <2>1. EndsForCall(On(t), pos[On(t)], pos)
    BY <1>1, <1>7 DEF Positioned
  <2> QED BY <1>4, <1>5, <2>1 DEF EndsForCall, CallerKnows
<1> QED BY <1>1, <1>2, <1>4, <1>5, <1>6, <1>7, <1>8, <1>9 DEF CallerKnows

\* The thread is there already.
LEMMA StartedBefore ==
  ASSUME NEW pos, NEW goal, Knows(pos, goal), NEW t \in Callers, At(t, "start"), Advance(t),
         UNCHANGED <<libraryVars, held, threadVars>>
  PROVE  LibraryInv'
  BY StarterKnows, StandingStepKnows

\* The thread cannot be created.
LEMMA StartFails ==
  ASSUME NEW pos, NEW goal, Knows(pos, goal), NEW t \in Callers, At(t, "start"),
         script' = [script EXCEPT ![t] = <<Last(@)>>],
         UNCHANGED <<libraryVars, held, threadVars>>
  PROVE  LibraryInv'
<1> DEFINE g == pos[t]
           m == LockOf[On(t)]
           s == script[t]
<1>1. /\ t \in Threads /\ call = NoCall /\ Role(t) = "none" /\ s # << >>
      /\ On(t) \in LibraryThreads /\ g \in Positions /\ g.locks = {m} /\ ~g.over
      /\ g.asked = {} /\ g.ended = {} /\ g.up = up /\ StartsRelease(s)
  BY StarterKnows
<1>2. t \notin LibraryThreads /\ LibraryTypes /\ Positioned(pos, goal) /\ s \in Seq(Steps)
      /\ m \in Locks
  BY <1>1, CallerIs, UsedAre DEF Knows, LibraryTypes
<1>3. Last(s) = Unlock(m)
  <2>1. 1 \in 1..Len(s) /\ s[1] = Head(s)
    BY <1>1, <1>2
  <2>2. s[1].op = "start" /\ s[1].on = On(t)
    BY <2>1 DEF At, On
  <2>3. s[Len(s)] = Unlock(m)
    BY <1>1, <2>1, <2>2 DEF StartsRelease
  <2> QED BY <2>3 DEF Last
<1>4. PICK n : n = m
  OBVIOUS
<1>5. PICK h \in Positions : h = [g EXCEPT !.locks = {}]
  BY <1>1 DEF Positions
<1>6. h.locks = {} /\ h.up = up /\ h.asked = {} /\ h.ended = {} /\ ~h.over
  BY <1>1, <1>5 DEF Positions
<1>7. <<Unlock(n)>> \in Seq(Steps) /\ Leads("none", g, <<Unlock(n)>>, h)
  <2>1. g.locks \ {n} = {}
    BY <1>1, <1>4
  <2>2. FitsUnlock("none", Unlock(n), g, h)
    BY <1>1, <1>4, <1>5, <2>1 DEF FitsUnlock, Unlock
  <2>3. Fits("none", Unlock(n), g, h)
    BY <1>1, <2>2 DEF Fits, LibraryThreads, CallKinds
  <2>4. Unlock(n) \in Steps
    BY <1>2, <1>4, RankIsNatural, StepTypes
  <2> QED BY <1>1, <2>3, <2>4, OneStepLeads
<1>8. /\ script'[t] = <<Unlock(n)>> /\ script' \in [Threads -> Seq(Steps)]
      /\ \A u \in Threads \ {t} : script'[u] = script[u]
  BY <1>1, <1>2, <1>3, <1>4, <1>7 DEF LibraryTypes
<1> HIDE DEF m, s
<1>9. PICK f \in Positions : f = g
  BY <1>1
<1> HIDE DEF g
<1>10. \A u : Holds(u)' = Holds(u)
  BY DEF Holds
<1>11. up' = up /\ call' = call /\ Role(t)' = Role(t) /\ UNCHANGED libraryVars
       /\ running' = running /\ alive' = alive /\ signalled' = signalled
  BY CallsStay DEF threadVars
<1>12. LibraryTypes'
  BY <1>2, <1>8, <1>11, TypesStay DEF LibraryTypes
<1>13. FollowsScript(t, pos[t], goal[t]) /\ CallerKnows(pos[t], script[t])
  BY <1>1, <1>2 DEF Positioned
<1>14. FollowsScript(t, f, h)'
  BY <1>1, <1>6, <1>7, <1>8, <1>9, <1>10, <1>11, <1>13 DEF FollowsScript, g
<1>15. CallerKnows(f, script[t])'
  <2>1. StartsRelease(<<Unlock(n)>>)
    BY DEF StartsRelease, Unlock
  <2> QED BY <1>1, <1>8, <1>9, <1>11, <1>13, <2>1 DEF CallerKnows, g
<1>16. f.asked = pos[t].asked /\ f.ended = pos[t].ended
  BY <1>9 DEF g
<1>17. \A l \in LibraryThreads : EndsForCall(l, [pos EXCEPT ![t] = f][l], [pos EXCEPT ![t] = f])'
  BY <1>1, <1>11, <1>16, EndsStay
<1>18. /\ t \in Callers => /\ CallerKnows(f, script[t])' /\ pos[t].ended \subseteq f.ended
                           /\ call # NoCall => script[t] # << >> /\ h = goal[t]
       /\ t \in LibraryThreads => ThreadKnows(t, f)' /\ h.up = NetStages
       /\ alive' \subseteq alive /\ alive \ {t} \subseteq alive'
       /\ \A u \in Threads \ {t} : Holds(u)' = Holds(u) /\ script'[u] = script[u]
  BY <1>1, <1>2, <1>8, <1>10, <1>11, <1>15, <1>16
<1> QED BY <1>1, <1>11, <1>12, <1>14, <1>17, <1>18, ThreadMoves

\* The first steps of a thread that is started.
LEMMA FirstStepsLead ==
  ASSUME NEW l \in LibraryThreads, NEW h \in Positions, h = Place({}, NetStages, {}, {})
  PROVE  /\ FirstSteps(l) \in Seq(Steps)
         /\ h.locks = {} /\ h.up = NetStages /\ h.asked = {} /\ h.ended = {} /\ ~h.over
         /\ \E r \in Positions :
               r.locks = {} /\ r.up = NetStages /\ Leads(l, h, FirstSteps(l), r)
<1>1. h.locks = {} /\ h.up = NetStages /\ h.asked = {} /\ h.ended = {} /\ ~h.over
  BY DEF Place
<1>2. CASE l = "recv"
  <2>1. Attends(h, 1)
    BY <1>1, StagesAre DEF Attends, Free, CallKinds, Below
  <2>2. ReceiveStart \in Seq(Steps) /\ Leads("recv", h, ReceiveStart, Over(h))
    BY <1>1, <2>1, StartLeadsToLoop
  <2>3. Over(h) \in Positions /\ Over(h).locks = {} /\ Over(h).up = NetStages
    BY <1>1 DEF Over, Positions
  <2> QED BY <1>1, <1>2, <2>2, <2>3 DEF FirstSteps
<1>3. CASE l # "recv"
  <2>1. FirstSteps(l) = << >> /\ << >> \in Seq(Steps)
    BY <1>3 DEF FirstSteps
  <2>2. Leads(l, h, << >>, h)
    BY NothingLeads
  <2> QED BY <1>1, <2>1, <2>2
<1> QED BY <1>2, <1>3

\* The thread is created.
LEMMA StartSucceeds ==
  ASSUME NEW pos, NEW goal, Knows(pos, goal), NEW t \in Callers, At(t, "start"),
         NEW l \in LibraryThreads, l = On(t), l \notin running,
         running' = running \cup {l}, alive' = alive \cup {l}, signalled' = signalled \ {l},
         script' = [script EXCEPT ![t] = Tail(@), ![l] = FirstSteps(l)],
         UNCHANGED <<libraryVars, held>>
  PROVE  LibraryInv'
<1>1. /\ t \in Threads /\ call = NoCall /\ Role(t) = "none" /\ script[t] # << >>
      /\ UsedBy[l] \subseteq up /\ "net" \in Kept
      /\ pos[t] \in Positions /\ pos[t].ended = {}
      /\ Leads(Role(t), pos[t], Tail(script[t]), goal[t])
      /\ l \notin alive /\ StartsRelease(script[t])
  BY StarterKnows
<1>2. t \notin LibraryThreads /\ t # l /\ l \in Threads /\ LibraryTypes /\ Positioned(pos, goal)
      /\ pos \in [Threads -> Positions] /\ goal \in [Threads -> Positions] /\ BetweenCalls
      /\ script \in [Threads -> Seq(Steps)] /\ script[t] \in Seq(Steps)
  BY CallerIs DEF Knows, Threads, LibraryTypes
<1>3. PICK h \in Positions : h = Place({}, NetStages, {}, {})
  BY StagesAre DEF Place, Positions
<1>4. /\ FirstSteps(l) \in Seq(Steps)
      /\ h.locks = {} /\ h.up = NetStages /\ h.asked = {} /\ h.ended = {} /\ ~h.over
  BY <1>3, FirstStepsLead
<1>5. PICK r \in Positions : r.locks = {} /\ r.up = NetStages /\ Leads(l, h, FirstSteps(l), r)
  BY <1>3, FirstStepsLead
<1>6. Tail(script[t]) \in Seq(Steps)
  <2> HIDE DEF Steps
  <2> QED BY <1>1, <1>2, HeadTailProperties
<1>7. /\ script' \in [Threads -> Seq(Steps)]
      /\ script'[t] = Tail(script[t]) /\ script'[l] = FirstSteps(l)
      /\ \A u \in Threads \ {t, l} : script'[u] = script[u]
  BY <1>1, <1>2, <1>4, <1>6
<1>8. /\ up' = up /\ call' = call /\ UNCHANGED libraryVars /\ \A u : Role(u)' = Role(u)
      /\ \A f : Initialized(f)' = Initialized(f)
  BY CallsStay
<1>9. \A u : Holds(u)' = Holds(u)
  BY DEF Holds
<1>10. LibraryTypes'
  BY <1>2, <1>7, <1>8, TypesStay DEF LibraryTypes
<1> DEFINE p == [pos EXCEPT ![l] = h]
           g == [goal EXCEPT ![l] = r]
<1>11. /\ p \in [Threads -> Positions] /\ g \in [Threads -> Positions] /\ p[l] = h /\ g[l] = r
       /\ \A u \in Threads \ {l} : p[u] = pos[u] /\ g[u] = goal[u]
  BY <1>2
<1> HIDE DEF p, g
<1>12. script[l] = << >> /\ Holds(l) = {}
  <2>1. ThreadKnows(l, pos[l])
    BY <1>2 DEF Positioned
  <2>2. script[l] = << >>
    BY <1>1, <2>1 DEF ThreadKnows
  <2> QED BY <1>2, <2>2, IdleAtGoal
<1>13. ASSUME NEW u \in Threads PROVE FollowsScript(u, p[u], g[u])'
  <2>1. CASE u = l
    <3>1. Role(l)' = l
      BY DEF Role
    <3> QED BY <1>4, <1>5, <1>7, <1>9, <1>11, <1>12, <2>1, <3>1 DEF FollowsScript
  <2>2. CASE u # l
    <3>1. FollowsScript(u, pos[u], goal[u]) /\ p[u] = pos[u] /\ g[u] = goal[u]
      BY <1>2, <1>11, <2>2 DEF Positioned
    <3>2. CASE u = t
      BY <1>1, <1>7, <1>8, <1>9, <3>1, <3>2 DEF FollowsScript
    <3>3. CASE u # t
      BY <1>7, <1>8, <1>9, <2>2, <3>1, <3>3 DEF FollowsScript
    <3> QED BY <3>2, <3>3
  <2> QED BY <2>1, <2>2
<1>14. ASSUME NEW u \in Callers PROVE CallerKnows(p[u], script[u])'
  <2>1. CallerKnows(pos[u], script[u]) /\ p[u] = pos[u] /\ u \in Threads \ {l}
    BY <1>2, <1>11, CallerIs DEF Positioned
  <2>2. pos[u].ended = {}
    BY <1>1, <2>1 DEF CallerKnows
  <2>3. CASE u = t
    <3>1. StartsRelease(Tail(script[t]))
      BY <1>1, <1>2, StartsReleaseRest
    <3> QED BY <1>1, <1>7, <1>8, <2>1, <2>2, <2>3, <3>1 DEF CallerKnows
  <2>4. CASE u # t
    BY <1>7, <1>8, <2>1, <2>2, <2>4 DEF CallerKnows
  <2> QED BY <2>3, <2>4
<1>15. ASSUME NEW k \in LibraryThreads
       PROVE  ThreadKnows(k, p[k])' /\ EndsForCall(k, p[k], p)' /\ g[k].up = NetStages
  <2>1. /\ ThreadKnows(k, pos[k]) /\ EndsForCall(k, pos[k], pos) /\ goal[k].up = NetStages
        /\ k \in Threads \ {t}
    BY <1>2, LibraryAssumption DEF Positioned, Threads
  <2>2. CASE k = l
    <3>1. "dmx_merger" \notin h.up /\ (l = "tick" => h.locks \subseteq {"source"})
      BY <1>4, StagesAre
    <3>2. ~(held["merger"] = l)' /\ l \in alive'
      BY <1>12 DEF Holds, Locks
    <3>3. ThreadKnows(l, p[l])'
      BY <1>1, <1>4, <1>8, <1>11, <3>1, <3>2 DEF ThreadKnows
    <3>4. EndsForCall(l, p[l], p)'
      BY <1>4, <1>11 DEF EndsForCall
    <3> QED BY <1>5, <1>11, <2>2, <3>3, <3>4
  <2>3. CASE k # l
    <3>1. p[k] = pos[k] /\ g[k] = goal[k] /\ script'[k] = script[k]
          /\ (k \in alive' <=> k \in alive) /\ (k \in running' <=> k \in running)
          /\ (k \in signalled' <=> k \in signalled)
          /\ \A c \in Callers : p[c] = pos[c]
      BY <1>7, <1>11, <2>1, <2>3, CallerIs
    <3>2. ThreadKnows(k, p[k])'
      BY <1>8, <2>1, <3>1 DEF ThreadKnows
    <3>3. EndsForCall(k, p[k], p)'
      BY <2>1, <3>1 DEF EndsForCall
    <3> QED BY <2>1, <3>1, <3>2, <3>3
  <2> QED BY <2>2, <2>3
<1>16. Positioned(p, g)'
  BY <1>1, <1>8, <1>13, <1>14, <1>15 DEF Positioned, NoCall
<1>17. BetweenCalls'
  BY <1>1, <1>2, <1>8, CallsStay DEF BetweenCalls
<1>18. CountsOK'
  BY <1>8, CallsStay DEF Knows
<1> QED BY <1>10, <1>11, <1>16, <1>17, <1>18 DEF LibraryInv

LEMMA StartThreadKnows ==
  ASSUME NEW pos, NEW goal, Knows(pos, goal), NEW t \in Callers, StartThread(t)
  PROVE  LibraryInv'
<1>1. At(t, "start") /\ UNCHANGED <<libraryVars, held>>
  BY DEF StartThread
<1>2. CASE Advance(t) /\ UNCHANGED threadVars
  <2>1. UNCHANGED <<libraryVars, held, threadVars>>
    BY <1>1, <1>2
  <2> QED BY <1>1, <1>2, <2>1, StartedBefore
<1>3. CASE script' = [script EXCEPT ![t] = <<Last(@)>>] /\ UNCHANGED threadVars
  <2>1. UNCHANGED <<libraryVars, held, threadVars>>
    BY <1>1, <1>3
  <2> QED BY <1>1, <1>3, <2>1, StartFails
<1>4. CASE /\ On(t) \notin running
           /\ running' = running \cup {On(t)}
           /\ alive' = alive \cup {On(t)}
           /\ signalled' = signalled \ {On(t)}
           /\ script' = [script EXCEPT ![t] = Tail(@), ![On(t)] = FirstSteps(On(t))]
  <2>1. PICK l \in LibraryThreads : l = On(t)
    BY <1>1, StarterKnows
  <2> QED BY <1>1, <1>4, <2>1, StartSucceeds
<1> QED BY <1>2, <1>3, <1>4 DEF StartThread

(***************************************************************************)
(* The steps of an init or deinit.                                         *)
(***************************************************************************)

\* A thread moves in an init or deinit, with nobody else in a call.
LEMMA CallMoves ==
  ASSUME NEW pos, NEW goal, Knows(pos, goal), held' = held, alive' = alive,
         NEW t \in Callers, NEW h \in Positions, NEW r \in Positions,
         \A u \in Callers \ {t} : script[u] = << >> /\ pos[u].asked = {} /\ pos[u].ended = {},
         \A u \in Threads \ {t} : script'[u] = script[u],
         CountsOK', LibraryTypes', BetweenCalls',
         FollowsScript(t, h, r)', CallerKnows(h, script[t])',
         \A l \in LibraryThreads : /\ "dmx_merger" \notin pos[l].up /\ held["merger"] # l
                                   /\ l \in alive => UsedBy[l] \subseteq up',
         pos[t].asked = {}, h.asked = {},
         alive = {} \/ (running' = running /\ signalled' = signalled),
         call' # NoCall =>
            /\ InitSoFar(h)' /\ Reaches(r)'
            /\ call'.kind = "deinit" => call'.part = {f \in call'.features : count'[f] = 1}
  PROVE  LibraryInv'
<1> DEFINE p == [pos EXCEPT ![t] = h]
           g == [goal EXCEPT ![t] = r]
<1>1. /\ t \in Threads /\ t \notin LibraryThreads /\ Positioned(pos, goal)
      /\ pos \in [Threads -> Positions] /\ goal \in [Threads -> Positions]
  BY CallerIs DEF Knows
<1>2. /\ p \in [Threads -> Positions] /\ g \in [Threads -> Positions] /\ p[t] = h /\ g[t] = r
      /\ \A u \in Threads \ {t} : p[u] = pos[u] /\ g[u] = goal[u]
  BY <1>1
<1> HIDE DEF p, g
<1>3. \A u : Holds(u)' = Holds(u)
  BY DEF Holds
<1>4. ASSUME NEW u \in Threads PROVE FollowsScript(u, p[u], g[u])'
  <2>1. CASE u = t
    BY <1>2, <2>1
  <2>2. CASE u # t
    <3>1. FollowsScript(u, pos[u], goal[u]) /\ p[u] = pos[u] /\ g[u] = goal[u]
          /\ script'[u] = script[u] /\ pos[u] \in Positions
      BY <1>1, <1>2, <2>2 DEF Positioned
    <3>2. CASE u \in LibraryThreads
      <4>1. Role(u) = u /\ Role(u)' = u
        BY <3>2 DEF Role
      <4> QED BY <1>3, <3>1, <4>1 DEF FollowsScript
    <3>3. CASE u \notin LibraryThreads
      <4>1. script[u] = << >>
        BY <2>2, <3>3 DEF Threads
      <4>2. goal[u] = pos[u]
        BY <4>1, IdleAtGoal
      <4>3. Leads(Role(u)', pos[u], << >>, pos[u])
        BY <3>1, NothingLeads
      <4> QED BY <1>3, <3>1, <4>1, <4>2, <4>3 DEF FollowsScript
    <3> QED BY <3>2, <3>3
  <2> QED BY <2>1, <2>2
<1>5. ASSUME NEW u \in Callers PROVE CallerKnows(p[u], script[u])'
  <2>1. CASE u = t
    BY <1>2, <2>1
  <2>2. CASE u # t
    <3>1. /\ CallerKnows(pos[u], script[u]) /\ p[u] = pos[u] /\ script'[u] = << >>
          /\ pos[u].locks = {} /\ pos[u].asked = {} /\ pos[u].ended = {}
      BY <1>1, <1>2, <2>2, CallerIs, IdleAtGoal DEF Positioned
    <3>2. StartsRelease(<< >>)
      BY DEF StartsRelease
    <3> QED BY <3>1, <3>2 DEF CallerKnows
  <2> QED BY <2>1, <2>2
<1>6. \A c \in Callers : pos[c].asked = {} /\ p[c].asked = {}
  BY <1>2, CallerIs
<1>7. ASSUME NEW l \in LibraryThreads
      PROVE  ThreadKnows(l, p[l])' /\ EndsForCall(l, p[l], p)' /\ g[l].up = NetStages
  <2>1. /\ ThreadKnows(l, pos[l]) /\ EndsForCall(l, pos[l], pos) /\ goal[l].up = NetStages
        /\ p[l] = pos[l] /\ g[l] = goal[l] /\ script'[l] = script[l]
    BY <1>1, <1>2 DEF Positioned, Threads
  <2>2. ThreadKnows(l, p[l])'
    BY <2>1 DEF ThreadKnows
  <2>3. EndsForCall(l, p[l], p)'
    BY <1>6, <2>1 DEF EndsForCall
  <2> QED BY <2>1, <2>2, <2>3
<1>8. call' # NoCall => InCall(t, p, g)'
  <2>1. \A u \in Callers \ {t} : script'[u] = << >> /\ p[u].asked = {} /\ p[u].ended = {}
    BY <1>2, CallerIs
  <2> QED BY <1>2, <2>1 DEF InCall
<1>9. Positioned(p, g)'
  BY <1>4, <1>5, <1>7, <1>8 DEF Positioned, NoCall
<1> QED BY <1>2, <1>9 DEF LibraryInv

\* No thread of the library is at the merger during an init or deinit.
LEMMA MergerIsFree ==
  ASSUME NEW pos, NEW goal, Knows(pos, goal), call # NoCall, NEW l \in LibraryThreads
  PROVE  "dmx_merger" \notin pos[l].up /\ held["merger"] # l
  BY DEF Knows, Positioned, ThreadKnows

LEMMA MergerIsFreeToo ==
  ASSUME NEW pos, NEW goal, Knows(pos, goal), NoOtherCalls, NEW l \in LibraryThreads
  PROVE  "dmx_merger" \notin pos[l].up /\ held["merger"] # l
<1>1. held["merger"] # l
  BY LibraryAssumption DEF NoOtherCalls, Threads
<1>2. CASE script[l] = << >>
  BY <1>1, <1>2, LoopPosition, StagesAre
<1>3. CASE script[l] # << >>
  <2>1. Head(script[l]) # Lock("merger")
    BY <1>3 DEF NoOtherCalls, At, On, Lock
  <2>2. pos[l].up = NetStages
    BY <1>3, <2>1, PositionKnows DEF Threads
  <2> QED BY <1>1, <2>2, StagesAre
<1> QED BY <1>2, <1>3

\* Nothing else is going on when an init or deinit begins.
LEMMA CallBeginsAlone ==
  ASSUME NEW pos, NEW goal, Knows(pos, goal), NoOtherCalls
  PROVE  /\ call = NoCall /\ up = StagesFor(Kept)
         /\ \A c \in Callers : /\ c \in Threads /\ script[c] = << >> /\ pos[c].asked = {}
                               /\ pos[c].ended = {} /\ Holds(c) = {}
<1>1. \A c \in Callers : c \in Threads /\ script[c] = << >>
  BY CallerIs DEF NoOtherCalls
<1>2. call = NoCall
  <2> SUFFICES ASSUME call # NoCall PROVE FALSE
    OBVIOUS
  <2>1. PICK c \in Callers : InCall(c, pos, goal)
    BY DEF Knows, Positioned
  <2>2. goal[c].over
    BY <2>1 DEF InCall, Reaches
  <2> QED BY <1>1, <2>2, IdleAtGoal
<1>3. up = StagesFor(Kept)
  BY <1>2 DEF Knows, BetweenCalls
<1>4. \A c \in Callers : pos[c].asked = {} /\ pos[c].ended = {}
  BY <1>2 DEF Knows, Positioned, CallerKnows
<1> QED BY <1>1, <1>2, <1>3, <1>4, IdleAtGoal

\* A state in which nothing but a call changes.
LEMMA CallTypesStay ==
  ASSUME LibraryTypes, held' = held, alive' = alive, count' = count,
         up' \subseteq Stages, mine' \subseteq Stages,
         call' = NoCall \/ call'.kind # "none",
         NEW t \in Threads, NEW s \in Seq(Steps), script' = [script EXCEPT ![t] = s],
         running' \subseteq LibraryThreads, signalled' \subseteq LibraryThreads
  PROVE  /\ LibraryTypes'
         /\ script'[t] = s /\ \A u \in Threads \ {t} : script'[u] = script[u]
         /\ Holds(t)' = Holds(t) /\ Kept' = Kept
  BY DEF LibraryTypes, Holds, Kept, Initialized, NoCall

\* The stages that some features make up.
LEMMA StagesForFeatures ==
  /\ \A fs \in SUBSET Features :
        StagesFor(fs) = (IF "net" \in fs THEN NetStages ELSE {})
                           \cup (IF "merger" \in fs THEN {"dmx_merger"} ELSE {})
  /\ "dmx_merger" \notin NetStages
  BY StagesAre DEF StagesFor, Features

LEMMA InitFeaturesKnows ==
  ASSUME NEW pos, NEW goal, Knows(pos, goal), NEW t \in Callers,
         NEW fs \in SUBSET Features, InitFeatures(t, fs)
  PROVE  LibraryInv'
<1>1. /\ NoOtherCalls /\ \A f \in fs : count[f] < MaxCount
      /\ call' = [kind |-> "init", features |-> fs, part |-> ToInit(fs)]
      /\ mine' = {} /\ script' = [script EXCEPT ![t] = UpAll(ToInit(fs)) \o <<Return>>]
      /\ up' = up /\ count' = count /\ held' = held /\ balance' = balance
      /\ running' = running /\ alive' = alive /\ signalled' = signalled
  BY DEF InitFeatures, threadVars
<1>2. /\ LibraryTypes /\ CountsOK /\ BetweenCalls /\ t \in Threads /\ t \notin LibraryThreads
  BY CallerIs DEF Knows
<1>3. /\ call = NoCall /\ up = StagesFor(Kept)
      /\ \A c \in Callers : /\ c \in Threads /\ script[c] = << >> /\ pos[c].asked = {}
                            /\ pos[c].ended = {} /\ Holds(c) = {}
  BY <1>1, CallBeginsAlone
<1>4. PICK kept \in SUBSET Features : kept = Kept
  BY DEF Kept
<1>5. PICK part \in SUBSET Features : part = ToInit(fs)
  BY DEF ToInit
<1>6. part \cap kept = {} /\ part \subseteq fs /\ fs \subseteq kept \cup part
  BY <1>2, <1>4, <1>5 DEF ToInit, Redundant, Kept, Initialized
<1>7. PICK ended \in SUBSET LibraryThreads :
         ended = IF "net" \in kept THEN {} ELSE LibraryThreads
  OBVIOUS
<1>8. ended \cap alive = {}
  BY <1>2, <1>3, <1>4, <1>7 DEF BetweenCalls
<1>9. "net" \in part => ended = LibraryThreads
  BY <1>6, <1>7
<1>10. PICK both \in SUBSET Features : both = kept \cup part
  OBVIOUS
<1>11. PICK none \in SUBSET Stages, all \in SUBSET Stages :
          none = StagesFor(kept) /\ all = StagesFor(both)
  BY StagesAre DEF StagesFor, Features
<1>12. PICK s \in Seq(Steps) : s = UpAll(part) \o <<Return>>
  BY <1>6, <1>9, UpAllLeads
<1>13. PICK h \in Positions, r \in Positions :
          /\ h = Between(none, ended) /\ r = Over(Between(all, ended))
          /\ h.locks = {} /\ h.up = none /\ h.asked = {} /\ h.ended = ended /\ ~h.over
          /\ r.locks = {} /\ r.up = all /\ r.asked = {} /\ r.ended = ended /\ r.over
  BY PlaceIsPosition DEF Between
<1>14. Leads("init", h, s, r)
  BY <1>6, <1>9, <1>10, <1>11, <1>12, <1>13, UpAllLeads
<1>15. script' = [script EXCEPT ![t] = s]
  BY <1>1, <1>5, <1>12
<1>16. call'.kind = "init" /\ call'.features = fs /\ call'.part = part /\ call' # NoCall
  BY <1>1, <1>5 DEF NoCall
<1>17. /\ LibraryTypes'
       /\ script'[t] = s /\ \A u \in Threads \ {t} : script'[u] = script[u]
       /\ Holds(t)' = Holds(t) /\ Kept' = kept
  <2>1. up' \subseteq Stages /\ mine' \subseteq Stages
        /\ running' \subseteq LibraryThreads /\ signalled' \subseteq LibraryThreads
    BY <1>1, <1>2 DEF LibraryTypes
  <2>2. call' = NoCall \/ call'.kind # "none"
    BY <1>16
  <2> QED BY <1>1, <1>2, <1>4, <1>15, <2>1, <2>2, CallTypesStay
<1>18. CountsOK'
  BY <1>2, CallBegins
<1>19. BetweenCalls'
  BY <1>16 DEF BetweenCalls
<1>20. Role(t)' = "init" /\ Target' = both
  BY <1>2, <1>10, <1>16, <1>17 DEF Role, Target
<1>21. FollowsScript(t, h, r)'
  BY <1>3, <1>13, <1>14, <1>17, <1>20 DEF FollowsScript
<1>22. CallerKnows(h, script[t])'
  BY <1>1, <1>3, <1>4, <1>8, <1>11, <1>13, <1>16 DEF CallerKnows
<1>23. InitSoFar(h)'
  <2>1. up' = StagesFor(Kept') \cup mine' /\ mine' \cap StagesFor(Kept') = {} /\ Grounded(mine')
    BY <1>1, <1>3, <1>4, <1>17 DEF Grounded
  <2>2. "net" \in Kept' \/ h.ended = LibraryThreads
    BY <1>7, <1>13, <1>17
  <2> QED BY <1>1, <1>6, <1>16, <1>17, <2>1, <2>2 DEF InitSoFar
<1>24. Reaches(r)'
  BY <1>7, <1>10, <1>11, <1>13, <1>20 DEF Reaches
<1>25. ASSUME NEW l \in LibraryThreads
       PROVE  "dmx_merger" \notin pos[l].up /\ held["merger"] # l /\ (l \in alive => UsedBy[l] \subseteq up')
  <2>1. ThreadKnows(l, pos[l])
    BY DEF Knows, Positioned
  <2> QED BY <1>1, <2>1, MergerIsFreeToo DEF ThreadKnows
<1>26. \A u \in Callers \ {t} : script[u] = << >> /\ pos[u].asked = {} /\ pos[u].ended = {}
  BY <1>3
<1>27. call' # NoCall =>
          /\ InitSoFar(h)' /\ Reaches(r)'
          /\ call'.kind = "deinit" => call'.part = {f \in call'.features : count'[f] = 1}
  BY <1>16, <1>23, <1>24
<1>28. pos[t].asked = {} /\ h.asked = {} /\ (alive = {} \/ (running' = running /\ signalled' = signalled))
       /\ held' = held /\ alive' = alive
  BY <1>1, <1>3, <1>13
<1> QED BY <1>17, <1>18, <1>19, <1>21, <1>22, <1>25, <1>26, <1>27, <1>28, CallMoves

\* Taking stages down and returning.
LEMMA DownReturnLeads ==
  ASSUME NEW role \in {"failed", "deinit"}, NEW stages \in SUBSET Stages,
         NEW ended \in SUBSET LibraryThreads, NEW down \in SUBSET stages, Grounded(down),
         NEW left \in SUBSET Stages, left = stages \ down,
         NEW after \in SUBSET LibraryThreads,
         after = ended \cup {l \in LibraryThreads :
                    (IF l = "tick" THEN "source_state" ELSE "receiver_state") \in down},
         down \cap NetStages = {} \/ after = LibraryThreads
  PROVE  /\ DownAll(down) \o <<Return>> \in Seq(Steps)
         /\ Leads(role, Between(stages, ended), DownAll(down) \o <<Return>>,
                  Over(Between(left, after)))
<1>1. Brings(role, stages, ended, DownAll(down), left, after)
  BY DownAllLeads
<1>2. role \in CallKinds
  BY DEF CallKinds
<1>3. <<Return>> \in Seq(Steps) /\ Leads(role, Between(left, after), <<Return>>, Over(Between(left, after)))
  BY <1>2, ReturnLeads
<1>4. /\ DownAll(down) \in Seq(Steps)
      /\ Leads(role, Between(stages, ended), DownAll(down), Between(left, after))
  BY <1>1 DEF Brings
<1> QED BY <1>3, <1>4, JoinedLeads, ConcatProperties

\* A feature has the stages its stages need.
LEMMA FeaturesAreGrounded ==
  /\ \A stage \in NetStages : Needs(stage) \subseteq NetStages
  /\ Needs("dmx_merger") = {}
  /\ \A fs \in SUBSET Features : Grounded(StagesFor(fs))
<1>1. \A stage : Needs(stage) \subseteq {"source_mutex", "source_mem", "receiver_mutex", "receiver_mem"}
  BY DEF Needs
<1>2. \A stage \in NetStages : Needs(stage) \subseteq NetStages
  BY <1>1, StagesAre
<1>3. Needs("dmx_merger") = {}
  BY DEF Needs
<1>4. ASSUME NEW fs \in SUBSET Features PROVE Grounded(StagesFor(fs))
  BY <1>2, <1>3, StagesForFeatures DEF Grounded
<1> QED BY <1>2, <1>3, <1>4

LEMMA DeinitFeaturesKnows ==
  ASSUME NEW pos, NEW goal, Knows(pos, goal), NEW t \in Callers,
         NEW fs \in SUBSET Features, DeinitFeatures(t, fs)
  PROVE  LibraryInv'
<1>1. /\ NoOtherCalls
      /\ call' = [kind |-> "deinit", features |-> fs, part |-> ToDeinit(fs)]
      /\ script' = [script EXCEPT ![t] = DownAll(StagesFor(ToDeinit(fs))) \o <<Return>>]
      /\ mine' = mine /\ up' = up /\ count' = count /\ held' = held /\ balance' = balance
      /\ running' = running /\ alive' = alive /\ signalled' = signalled
  BY DEF DeinitFeatures, threadVars, StagesFor, Whole
<1>2. /\ LibraryTypes /\ CountsOK /\ BetweenCalls /\ t \in Threads /\ t \notin LibraryThreads
  BY CallerIs DEF Knows
<1>3. /\ call = NoCall /\ up = StagesFor(Kept)
      /\ \A c \in Callers : /\ c \in Threads /\ script[c] = << >> /\ pos[c].asked = {}
                            /\ pos[c].ended = {} /\ Holds(c) = {}
  BY <1>1, CallBeginsAlone
<1>4. PICK kept \in SUBSET Features : kept = Kept
  BY DEF Kept
<1>5. PICK part \in SUBSET Features : part = ToDeinit(fs)
  BY DEF ToDeinit
<1>6. part \subseteq kept
  BY <1>2, <1>4, <1>5 DEF ToDeinit, Kept, Initialized, CountsOK
<1>7. PICK ended \in SUBSET LibraryThreads :
         ended = IF "net" \in kept THEN {} ELSE LibraryThreads
  OBVIOUS
<1>8. ended \cap alive = {}
  BY <1>2, <1>3, <1>4, <1>7 DEF BetweenCalls
<1>9. PICK after \in SUBSET LibraryThreads :
         after = IF "net" \in part THEN LibraryThreads ELSE ended
  OBVIOUS
<1>10. PICK rest \in SUBSET Features : rest = kept \ part
  OBVIOUS
<1>11. PICK none \in SUBSET Stages, left \in SUBSET Stages :
          none = StagesFor(kept) /\ left = StagesFor(rest)
  BY StagesAre DEF StagesFor, Features
<1>12. PICK down \in SUBSET none : down = StagesFor(part)
  <2>1. StagesFor(part) \subseteq StagesFor(kept)
    BY <1>6 DEF StagesFor
  <2> QED BY <1>11, <2>1
<1>13. Grounded(down)
  BY <1>12, FeaturesAreGrounded
<1>14. left = none \ down
  <2>1. none = (IF "net" \in kept THEN NetStages ELSE {})
                  \cup (IF "merger" \in kept THEN {"dmx_merger"} ELSE {})
    BY <1>11, StagesForFeatures
  <2>2. down = (IF "net" \in part THEN NetStages ELSE {})
                  \cup (IF "merger" \in part THEN {"dmx_merger"} ELSE {})
    BY <1>12, StagesForFeatures
  <2>3. left = (IF "net" \in rest THEN NetStages ELSE {})
                  \cup (IF "merger" \in rest THEN {"dmx_merger"} ELSE {})
    BY <1>11, StagesForFeatures
  <2>4. "dmx_merger" \notin NetStages
    BY StagesForFeatures
  <2> QED BY <1>6, <1>10, <2>1, <2>2, <2>3, <2>4
<1>15. /\ "source_state" \in down <=> "net" \in part
       /\ "receiver_state" \in down <=> "net" \in part
       /\ "net" \notin part => down \cap NetStages = {}
  BY <1>12, StagesForFeatures, StagesAre
<1>16. /\ after = ended \cup {l \in LibraryThreads :
                    (IF l = "tick" THEN "source_state" ELSE "receiver_state") \in down}
       /\ down \cap NetStages = {} \/ after = LibraryThreads
  BY <1>9, <1>15
<1>17. /\ DownAll(down) \o <<Return>> \in Seq(Steps)
       /\ Leads("deinit", Between(none, ended), DownAll(down) \o <<Return>>, Over(Between(left, after)))
  <2>1. PICK role \in {"failed", "deinit"} : role = "deinit"
    OBVIOUS
  <2> QED BY <1>13, <1>14, <1>16, <2>1, DownReturnLeads
<1>18. PICK s \in Seq(Steps) : s = DownAll(down) \o <<Return>>
  BY <1>17
<1>19. PICK h \in Positions, r \in Positions :
          /\ h = Between(none, ended) /\ r = Over(Between(left, after))
          /\ h.locks = {} /\ h.up = none /\ h.asked = {} /\ h.ended = ended /\ ~h.over
          /\ r.locks = {} /\ r.up = left /\ r.asked = {} /\ r.ended = after /\ r.over
  BY PlaceIsPosition DEF Between
<1>20. Leads("deinit", h, s, r)
  BY <1>17, <1>18, <1>19
<1>21. script' = [script EXCEPT ![t] = s]
  BY <1>1, <1>5, <1>12, <1>18
<1>22. call'.kind = "deinit" /\ call'.features = fs /\ call'.part = part /\ call' # NoCall
  BY <1>1, <1>5 DEF NoCall
<1>23. /\ LibraryTypes'
       /\ script'[t] = s /\ \A u \in Threads \ {t} : script'[u] = script[u]
       /\ Holds(t)' = Holds(t) /\ Kept' = kept
  <2>1. up' \subseteq Stages /\ mine' \subseteq Stages
        /\ running' \subseteq LibraryThreads /\ signalled' \subseteq LibraryThreads
    BY <1>1, <1>2 DEF LibraryTypes
  <2>2. call' = NoCall \/ call'.kind # "none"
    BY <1>22
  <2> QED BY <1>1, <1>2, <1>4, <1>21, <2>1, <2>2, CallTypesStay
<1>24. CountsOK'
  BY <1>2, CallBegins
<1>25. BetweenCalls'
  BY <1>22 DEF BetweenCalls
<1>26. Role(t)' = "deinit" /\ Target' = rest
  BY <1>2, <1>10, <1>22, <1>23 DEF Role, Target
<1>27. FollowsScript(t, h, r)'
  BY <1>3, <1>19, <1>20, <1>23, <1>26 DEF FollowsScript
<1>28. CallerKnows(h, script[t])'
  BY <1>1, <1>3, <1>4, <1>8, <1>11, <1>19, <1>22 DEF CallerKnows
<1>29. InitSoFar(h)'
  BY <1>22 DEF InitSoFar
<1>30. Reaches(r)'
  BY <1>6, <1>7, <1>9, <1>10, <1>11, <1>19, <1>26 DEF Reaches
<1>31. ASSUME NEW l \in LibraryThreads
       PROVE  "dmx_merger" \notin pos[l].up /\ held["merger"] # l /\ (l \in alive => UsedBy[l] \subseteq up')
  <2>1. ThreadKnows(l, pos[l])
    BY DEF Knows, Positioned
  <2> QED BY <1>1, <2>1, MergerIsFreeToo DEF ThreadKnows
<1>32. \A u \in Callers \ {t} : script[u] = << >> /\ pos[u].asked = {} /\ pos[u].ended = {}
  BY <1>3
<1>33. call'.part = {f \in call'.features : count'[f] = 1}
  BY <1>1, <1>5, <1>22 DEF ToDeinit
<1>34. call' # NoCall =>
          /\ InitSoFar(h)' /\ Reaches(r)'
          /\ call'.kind = "deinit" => call'.part = {f \in call'.features : count'[f] = 1}
  BY <1>29, <1>30, <1>33
<1>35. pos[t].asked = {} /\ h.asked = {} /\ (alive = {} \/ (running' = running /\ signalled' = signalled))
       /\ held' = held /\ alive' = alive
  BY <1>1, <1>3, <1>19
<1> QED BY <1>23, <1>24, <1>25, <1>27, <1>28, <1>31, <1>32, <1>34, <1>35, CallMoves

\* A thread at a step of an init or deinit that is about the stages.
LEMMA CallStandsAt ==
  ASSUME NEW pos, NEW goal, Knows(pos, goal), NEW t \in Callers, script[t] # << >>,
         NEW op \in {"up", "down", "return"}, Head(script[t]).op = op
  PROVE  /\ call # NoCall /\ call.kind \in CallKinds /\ Role(t) = call.kind
         /\ InCall(t, pos, goal) /\ t \in Threads /\ t \notin LibraryThreads
         /\ LibraryTypes /\ CountsOK /\ BetweenCalls
         /\ pos[t].up = up /\ pos[t].locks = {} /\ Holds(t) = {} /\ pos[t].asked = {}
         /\ ~pos[t].over /\ pos[t].ended \cap alive = {} /\ pos[t].ended \subseteq LibraryThreads
         /\ pos[t] \in Positions /\ goal[t] \in Positions
         /\ script[t] \in Seq(Steps) /\ On(t) \in Names
         /\ \A l \in LibraryThreads : /\ "dmx_merger" \notin pos[l].up /\ held["merger"] # l
                                      /\ l \in alive => UsedBy[l] \subseteq up
         /\ \E h \in Positions :
               /\ FitsUp(call.kind, Head(script[t]), pos[t], h)
                  \/ FitsDown(call.kind, Head(script[t]), pos[t], h)
                  \/ FitsReturn(call.kind, Head(script[t]), pos[t], h)
               /\ Leads(call.kind, h, Tail(script[t]), goal[t])
<1>1. t \in Threads /\ t \notin LibraryThreads
  BY CallerIs
<1>2. PICK h \in Positions :
         /\ Fits(Role(t), Head(script[t]), pos[t], h)
         /\ Leads(Role(t), h, Tail(script[t]), goal[t])
  BY <1>1, HeadFits
<1>3. /\ FitsUp(Role(t), Head(script[t]), pos[t], h)
         \/ FitsDown(Role(t), Head(script[t]), pos[t], h)
         \/ FitsReturn(Role(t), Head(script[t]), pos[t], h)
      /\ Role(t) \in CallKinds => pos[t].asked = {}
  BY <1>2 DEF Fits, FitsLock, FitsUnlock, FitsUse, FitsCallback, FitsStart, FitsSignal, FitsJoin,
              FitsBegin, FitsChoose, FitsLeave, FitsEnd
<1>4. Role(t) \in CallKinds /\ pos[t].locks = {}
  BY <1>3 DEF FitsUp, FitsDown, FitsReturn, CallKinds
<1>5. call # NoCall /\ Role(t) = call.kind /\ InCall(t, pos, goal)
  BY <1>1, <1>4, RolesAre
<1>6. pos[t].up = up /\ pos[t].locks = Holds(t) /\ ~pos[t].over
  BY <1>1, PositionKnows
<1>7. pos[t].ended \cap alive = {}
  BY DEF Knows, Positioned, CallerKnows
<1>8. /\ script[t] \in Seq(Steps) /\ Head(script[t]) \in Steps
      /\ pos[t] \in Positions /\ goal[t] \in Positions
  BY <1>1, HeadFits
<1>9. On(t) \in Names /\ pos[t].ended \subseteq LibraryThreads
  BY <1>8 DEF On, Steps, Positions
<1>10. \A l \in LibraryThreads : /\ "dmx_merger" \notin pos[l].up /\ held["merger"] # l
                                 /\ l \in alive => UsedBy[l] \subseteq up
  BY <1>5, MergerIsFree DEF Knows, Positioned, ThreadKnows
<1> QED BY <1>1, <1>2, <1>3, <1>4, <1>5, <1>6, <1>7, <1>8, <1>9, <1>10 DEF Knows

LEMMA StageUpKnows ==
  ASSUME NEW pos, NEW goal, Knows(pos, goal), NEW t \in Callers, StageUp(t)
  PROVE  LibraryInv'
<1>1. /\ script[t] # << >> /\ Head(script[t]).op = "up"
      /\ up' = up \cup {On(t)} /\ mine' = mine \cup {On(t)}
      /\ running' = running \ (Renewed(On(t)) \cap {"recv"})
      /\ signalled' = signalled \ Renewed(On(t)) /\ Advance(t)
      /\ count' = count /\ call' = call /\ held' = held /\ alive' = alive /\ balance' = balance
  BY DEF StageUp, At
<1>2. PICK op \in {"up", "down", "return"} : op = "up"
  OBVIOUS
<1>3. /\ call # NoCall /\ call.kind \in CallKinds /\ Role(t) = call.kind
      /\ InCall(t, pos, goal) /\ t \in Threads /\ t \notin LibraryThreads
      /\ LibraryTypes /\ CountsOK /\ BetweenCalls
      /\ pos[t].up = up /\ pos[t].locks = {} /\ Holds(t) = {} /\ pos[t].asked = {}
      /\ ~pos[t].over /\ pos[t].ended \cap alive = {} /\ pos[t].ended \subseteq LibraryThreads
      /\ pos[t] \in Positions /\ goal[t] \in Positions
      /\ script[t] \in Seq(Steps) /\ On(t) \in Names
      /\ \A l \in LibraryThreads : /\ "dmx_merger" \notin pos[l].up /\ held["merger"] # l
                                   /\ l \in alive => UsedBy[l] \subseteq up
  BY <1>1, <1>2, CallStandsAt
<1>4. PICK h \in Positions :
         /\ FitsUp(call.kind, Head(script[t]), pos[t], h)
         /\ Leads(call.kind, h, Tail(script[t]), goal[t])
  <2>1. PICK h \in Positions :
               /\ FitsUp(call.kind, Head(script[t]), pos[t], h)
                  \/ FitsDown(call.kind, Head(script[t]), pos[t], h)
                  \/ FitsReturn(call.kind, Head(script[t]), pos[t], h)
               /\ Leads(call.kind, h, Tail(script[t]), goal[t])
    BY <1>1, <1>2, CallStandsAt
  <2>2. FitsUp(call.kind, Head(script[t]), pos[t], h)
    BY <1>1, <2>1 DEF FitsDown, FitsReturn
  <2> QED BY <2>1, <2>2
<1>5. PICK stage \in Stages : stage = On(t)
  BY <1>4 DEF FitsUp, On
<1>6. /\ call.kind = "init" /\ stage \notin up /\ Needs(stage) \subseteq up
      /\ stage \in NetStages => pos[t].ended = LibraryThreads
      /\ h.up = up \cup {stage} /\ h.locks = {} /\ h.asked = {} /\ h.ended = pos[t].ended /\ ~h.over
  BY <1>3, <1>4, <1>5 DEF FitsUp, On, Positions
<1>7. PICK r \in Positions : r = goal[t]
  BY <1>3
<1>8. /\ script'[t] = Tail(script[t]) /\ \A u \in Threads \ {t} : script'[u] = script[u]
      /\ script' \in [Threads -> Seq(Steps)]
  BY <1>1, <1>3, Advanced
<1>9. Holds(t)' = Holds(t) /\ Kept' = Kept /\ Role(t)' = call.kind /\ Target' = Target
  BY <1>1, <1>3 DEF Holds, Kept, Initialized, Role, Target
<1>10. LibraryTypes'
  <2>1. up' \subseteq Stages /\ mine' \subseteq Stages
    BY <1>1, <1>3, <1>5 DEF LibraryTypes
  <2>2. running' \subseteq LibraryThreads /\ signalled' \subseteq LibraryThreads
    BY <1>1, <1>3 DEF LibraryTypes
  <2> QED BY <1>1, <1>3, <1>8, <2>1, <2>2 DEF LibraryTypes, NoCall
<1>11. CountsOK' /\ BetweenCalls'
  BY <1>1, <1>3, OtherSteps DEF BetweenCalls, NoCall
<1>12. FollowsScript(t, h, r)'
  <2>1. FollowsScript(t, pos[t], goal[t])
    BY <1>3 DEF Knows, Positioned
  <2> QED BY <1>3, <1>4, <1>6, <1>7, <1>8, <1>9, <2>1 DEF FollowsScript
<1>13. CallerKnows(h, script[t])'
  BY <1>1, <1>3, <1>5, <1>6 DEF CallerKnows, NoCall
<1>14. InitSoFar(pos[t]) /\ Reaches(goal[t])
       /\ \A u \in Callers \ {t} : script[u] = << >> /\ pos[u].asked = {} /\ pos[u].ended = {}
  BY <1>3 DEF InCall
<1>15. PICK kept \in SUBSET Features : kept = Kept
  BY DEF Kept
<1>16. /\ up = StagesFor(kept) \cup mine /\ mine \cap StagesFor(kept) = {}
       /\ Grounded(mine)
       /\ call.part \cap kept = {} /\ call.features \subseteq kept \cup call.part
       /\ "net" \in kept \/ pos[t].ended = LibraryThreads
       /\ \A f \in call.features : count[f] < MaxCount
  BY <1>6, <1>14, <1>15 DEF InitSoFar
<1>17. Grounded(mine \cup {stage})
  <2>1. Needs(stage) \subseteq mine
    <3>1. CASE stage = "dmx_merger"
      BY <3>1, FeaturesAreGrounded
    <3>2. CASE stage # "dmx_merger"
      <4>1. stage \in NetStages
        BY <3>2, StagesAre
      <4>2. Needs(stage) \subseteq NetStages /\ "net" \notin kept
        BY <1>6, <1>15, <1>16, <4>1, FeaturesAreGrounded, StagesForFeatures
      <4>3. NetStages \cap StagesFor(kept) = {}
        BY <4>2, StagesForFeatures
      <4> QED BY <1>6, <1>16, <4>2, <4>3
    <3> QED BY <3>1, <3>2
  <2> QED BY <1>16, <2>1 DEF Grounded
<1>18. PICK brought \in SUBSET Stages : brought = mine \cup {stage}
  BY <1>3, <1>5 DEF LibraryTypes
<1>19. mine' = brought /\ up' = up \cup {stage} /\ Kept' = kept
  BY <1>1, <1>5, <1>9, <1>15, <1>18
<1>20. InitSoFar(h)'
  <2>1. up' = StagesFor(Kept') \cup mine' /\ mine' \cap StagesFor(Kept') = {}
    BY <1>6, <1>16, <1>18, <1>19
  <2>2. Grounded(mine')
    BY <1>17, <1>18, <1>19
  <2> QED BY <1>1, <1>6, <1>16, <1>19, <2>1, <2>2 DEF InitSoFar
<1>21. Reaches(r)'
  BY <1>7, <1>9, <1>14 DEF Reaches
<1>22. \A l \in LibraryThreads : /\ "dmx_merger" \notin pos[l].up /\ held["merger"] # l
                                 /\ l \in alive => UsedBy[l] \subseteq up'
  BY <1>3, <1>19
<1>23. alive = {} \/ (running' = running /\ signalled' = signalled)
  <2>1. CASE stage \in NetStages
    BY <1>3, <1>6, <2>1 DEF LibraryTypes
  <2>2. CASE stage \notin NetStages
    <3>1. Renewed(stage) = {}
      BY <2>2, StagesAre DEF Renewed
    <3> QED BY <1>1, <1>5, <3>1
  <2> QED BY <2>1, <2>2
<1>24. call' # NoCall =>
          /\ InitSoFar(h)' /\ Reaches(r)'
          /\ call'.kind = "deinit" => call'.part = {f \in call'.features : count'[f] = 1}
  BY <1>1, <1>6, <1>20, <1>21
<1>25. pos[t].asked = {} /\ h.asked = {} /\ held' = held /\ alive' = alive
       /\ \A u \in Threads \ {t} : script'[u] = script[u]
  BY <1>1, <1>3, <1>6, <1>8
<1> QED BY <1>10, <1>11, <1>12, <1>13, <1>14, <1>22, <1>23, <1>24, <1>25, CallMoves

LEMMA StageDownKnows ==
  ASSUME NEW pos, NEW goal, Knows(pos, goal), NEW t \in Callers, StageDown(t)
  PROVE  LibraryInv'
<1>1. /\ script[t] # << >> /\ Head(script[t]).op = "down"
      /\ up' = up \ {On(t)} /\ mine' = mine /\ running' = running /\ signalled' = signalled
      /\ Advance(t)
      /\ count' = count /\ call' = call /\ held' = held /\ alive' = alive /\ balance' = balance
  BY DEF StageDown, At, threadVars
<1>2. PICK op \in {"up", "down", "return"} : op = "down"
  OBVIOUS
<1>3. /\ call # NoCall /\ call.kind \in CallKinds /\ Role(t) = call.kind
      /\ InCall(t, pos, goal) /\ t \in Threads /\ t \notin LibraryThreads
      /\ LibraryTypes /\ CountsOK /\ BetweenCalls
      /\ pos[t].up = up /\ pos[t].locks = {} /\ Holds(t) = {} /\ pos[t].asked = {}
      /\ ~pos[t].over /\ pos[t].ended \cap alive = {} /\ pos[t].ended \subseteq LibraryThreads
      /\ pos[t] \in Positions /\ goal[t] \in Positions
      /\ script[t] \in Seq(Steps) /\ On(t) \in Names
      /\ \A l \in LibraryThreads : /\ "dmx_merger" \notin pos[l].up /\ held["merger"] # l
                                   /\ l \in alive => UsedBy[l] \subseteq up
  BY <1>1, <1>2, CallStandsAt
<1>4. PICK h \in Positions :
         /\ FitsDown(call.kind, Head(script[t]), pos[t], h)
         /\ Leads(call.kind, h, Tail(script[t]), goal[t])
  <2>1. PICK h \in Positions :
               /\ FitsUp(call.kind, Head(script[t]), pos[t], h)
                  \/ FitsDown(call.kind, Head(script[t]), pos[t], h)
                  \/ FitsReturn(call.kind, Head(script[t]), pos[t], h)
               /\ Leads(call.kind, h, Tail(script[t]), goal[t])
    BY <1>1, <1>2, CallStandsAt
  <2>2. FitsDown(call.kind, Head(script[t]), pos[t], h)
    BY <1>1, <2>1 DEF FitsUp, FitsReturn
  <2> QED BY <2>1, <2>2
<1>5. PICK stage : stage = On(t)
  OBVIOUS
<1>6. /\ call.kind \in {"failed", "deinit"}
      /\ \A l \in LibraryThreads : stage \in UsedBy[l] => l \in pos[t].ended
      /\ h.up = up \ {stage} /\ h.locks = {} /\ h.asked = {} /\ h.ended = pos[t].ended /\ ~h.over
  BY <1>3, <1>4, <1>5 DEF FitsDown, On, Positions
<1>7. PICK r \in Positions : r = goal[t]
  BY <1>3
<1>8. /\ script'[t] = Tail(script[t]) /\ \A u \in Threads \ {t} : script'[u] = script[u]
      /\ script' \in [Threads -> Seq(Steps)]
  BY <1>1, <1>3, Advanced
<1>9. Holds(t)' = Holds(t) /\ Role(t)' = call.kind /\ Target' = Target
  BY <1>1, <1>3 DEF Holds, Kept, Initialized, Role, Target
<1>10. LibraryTypes'
  BY <1>1, <1>3, <1>8 DEF LibraryTypes, NoCall
<1>11. CountsOK' /\ BetweenCalls'
  BY <1>1, <1>3, OtherSteps DEF BetweenCalls, NoCall
<1>12. FollowsScript(t, h, r)'
  <2>1. FollowsScript(t, pos[t], goal[t])
    BY <1>3 DEF Knows, Positioned
  <2> QED BY <1>3, <1>4, <1>6, <1>7, <1>8, <1>9, <2>1 DEF FollowsScript
<1>13. CallerKnows(h, script[t])'
  BY <1>1, <1>3, <1>5, <1>6 DEF CallerKnows, NoCall
<1>14. /\ InitSoFar(pos[t]) /\ Reaches(goal[t])
       /\ \A u \in Callers \ {t} : script[u] = << >> /\ pos[u].asked = {} /\ pos[u].ended = {}
       /\ call.kind = "deinit" => call.part = {f \in call.features : count[f] = 1}
  BY <1>3 DEF InCall
<1>15. InitSoFar(h)'
  BY <1>1, <1>6 DEF InitSoFar
<1>16. Reaches(r)'
  BY <1>7, <1>9, <1>14 DEF Reaches
<1>17. \A l \in LibraryThreads : /\ "dmx_merger" \notin pos[l].up /\ held["merger"] # l
                                 /\ l \in alive => UsedBy[l] \subseteq up'
  BY <1>1, <1>3, <1>5, <1>6
<1>18. call' # NoCall =>
          /\ InitSoFar(h)' /\ Reaches(r)'
          /\ call'.kind = "deinit" => call'.part = {f \in call'.features : count'[f] = 1}
  BY <1>1, <1>14, <1>15, <1>16
<1>19. pos[t].asked = {} /\ h.asked = {} /\ held' = held /\ alive' = alive
       /\ (alive = {} \/ (running' = running /\ signalled' = signalled))
       /\ \A u \in Threads \ {t} : script'[u] = script[u]
  BY <1>1, <1>3, <1>6, <1>8
<1> QED BY <1>10, <1>11, <1>12, <1>13, <1>14, <1>17, <1>18, <1>19, CallMoves

\* A stage that fails is followed by the clean-up of those brought up before.
LEMMA StageFailsKnows ==
  ASSUME NEW pos, NEW goal, Knows(pos, goal), NEW t \in Callers, StageFails(t)
  PROVE  LibraryInv'
<1>1. /\ script[t] # << >> /\ Head(script[t]).op = "up"
      /\ call' = [call EXCEPT !.kind = "failed"]
      /\ script' = [script EXCEPT ![t] = DownAll(mine) \o <<Return>>]
      /\ up' = up /\ mine' = mine /\ running' = running /\ signalled' = signalled
      /\ count' = count /\ held' = held /\ alive' = alive /\ balance' = balance
  BY DEF StageFails, At, threadVars
<1>2. PICK op \in {"up", "down", "return"} : op = "up"
  OBVIOUS
<1>3. /\ call # NoCall /\ call.kind \in CallKinds /\ Role(t) = call.kind
      /\ InCall(t, pos, goal) /\ t \in Threads /\ t \notin LibraryThreads
      /\ LibraryTypes /\ CountsOK /\ BetweenCalls
      /\ pos[t].up = up /\ pos[t].locks = {} /\ Holds(t) = {} /\ pos[t].asked = {}
      /\ ~pos[t].over /\ pos[t].ended \cap alive = {} /\ pos[t].ended \subseteq LibraryThreads
      /\ pos[t] \in Positions /\ goal[t] \in Positions
      /\ script[t] \in Seq(Steps) /\ On(t) \in Names
      /\ \A l \in LibraryThreads : /\ "dmx_merger" \notin pos[l].up /\ held["merger"] # l
                                   /\ l \in alive => UsedBy[l] \subseteq up
  BY <1>1, <1>2, CallStandsAt
<1>4. call.kind = "init"
  <2>1. PICK h \in Positions :
               \/ FitsUp(call.kind, Head(script[t]), pos[t], h)
               \/ FitsDown(call.kind, Head(script[t]), pos[t], h)
               \/ FitsReturn(call.kind, Head(script[t]), pos[t], h)
    BY <1>1, <1>2, CallStandsAt
  <2> QED BY <1>1, <2>1 DEF FitsUp, FitsDown, FitsReturn
<1>5. InitSoFar(pos[t]) /\ \A u \in Callers \ {t} : script[u] = << >> /\ pos[u].asked = {} /\ pos[u].ended = {}
  BY <1>3 DEF InCall
<1>6. PICK kept \in SUBSET Features : kept = Kept
  BY DEF Kept
<1>7. /\ up = StagesFor(kept) \cup mine /\ mine \cap StagesFor(kept) = {} /\ Grounded(mine)
      /\ "net" \in kept \/ pos[t].ended = LibraryThreads
  BY <1>4, <1>5, <1>6 DEF InitSoFar
<1>8. PICK stages \in SUBSET Stages, left \in SUBSET Stages, ended \in SUBSET LibraryThreads :
         stages = up /\ left = StagesFor(kept) /\ ended = pos[t].ended
  BY <1>3, <1>7 DEF LibraryTypes
<1>9. PICK down \in SUBSET stages : down = mine
  BY <1>7, <1>8
<1>10. left = stages \ down /\ Grounded(down)
  BY <1>7, <1>8, <1>9
<1>11. PICK after \in SUBSET LibraryThreads :
          after = ended \cup {l \in LibraryThreads :
                    (IF l = "tick" THEN "source_state" ELSE "receiver_state") \in down}
  OBVIOUS
<1>12. down \cap NetStages = {} \/ after = LibraryThreads
  <2>1. CASE "net" \in kept
    BY <1>7, <1>9, <2>1, StagesForFeatures
  <2>2. CASE "net" \notin kept
    BY <1>7, <1>8, <1>11, <2>2
  <2> QED BY <2>1, <2>2
<1>13. "net" \in kept \/ after = LibraryThreads
  BY <1>7, <1>8, <1>11
<1>14. /\ DownAll(down) \o <<Return>> \in Seq(Steps)
       /\ Leads("failed", Between(stages, ended), DownAll(down) \o <<Return>>, Over(Between(left, after)))
  <2>1. PICK role \in {"failed", "deinit"} : role = "failed"
    OBVIOUS
  <2> QED BY <1>10, <1>11, <1>12, <2>1, DownReturnLeads
<1>15. PICK s \in Seq(Steps) : s = DownAll(down) \o <<Return>>
  BY <1>14
<1>16. PICK h \in Positions, r \in Positions :
          /\ h = Between(stages, ended) /\ r = Over(Between(left, after))
          /\ h.locks = {} /\ h.up = stages /\ h.asked = {} /\ h.ended = ended /\ ~h.over
          /\ r.locks = {} /\ r.up = left /\ r.asked = {} /\ r.ended = after /\ r.over
  BY PlaceIsPosition DEF Between
<1>17. Leads("failed", h, s, r)
  BY <1>14, <1>15, <1>16
<1>18. script' = [script EXCEPT ![t] = s]
  BY <1>1, <1>9, <1>15
<1>19. call'.kind = "failed" /\ call' # NoCall
  BY <1>1, <1>3 DEF CountsOK, CallTypes, NoCall
<1>20. /\ LibraryTypes'
       /\ script'[t] = s /\ \A u \in Threads \ {t} : script'[u] = script[u]
       /\ Holds(t)' = Holds(t) /\ Kept' = kept
  <2>1. up' \subseteq Stages /\ mine' \subseteq Stages
        /\ running' \subseteq LibraryThreads /\ signalled' \subseteq LibraryThreads
    BY <1>1, <1>3 DEF LibraryTypes
  <2>2. call' = NoCall \/ call'.kind # "none"
    BY <1>19
  <2> QED BY <1>1, <1>3, <1>6, <1>18, <2>1, <2>2, CallTypesStay
<1>21. CountsOK'
  BY <1>1, <1>3, OtherSteps
<1>22. BetweenCalls'
  BY <1>19 DEF BetweenCalls
<1>23. Role(t)' = "failed" /\ Target' = kept
  BY <1>3, <1>19, <1>20 DEF Role, Target
<1>24. FollowsScript(t, h, r)'
  BY <1>3, <1>16, <1>17, <1>20, <1>23 DEF FollowsScript
<1>25. CallerKnows(h, script[t])'
  BY <1>1, <1>3, <1>8, <1>16, <1>19 DEF CallerKnows
<1>26. InitSoFar(h)'
  BY <1>19 DEF InitSoFar
<1>27. Reaches(r)'
  BY <1>8, <1>13, <1>16, <1>23 DEF Reaches
<1>28. \A l \in LibraryThreads : /\ "dmx_merger" \notin pos[l].up /\ held["merger"] # l
                                 /\ l \in alive => UsedBy[l] \subseteq up'
  BY <1>1, <1>3
<1>29. call' # NoCall =>
          /\ InitSoFar(h)' /\ Reaches(r)'
          /\ call'.kind = "deinit" => call'.part = {f \in call'.features : count'[f] = 1}
  BY <1>19, <1>26, <1>27
<1>30. pos[t].asked = {} /\ h.asked = {} /\ (alive = {} \/ (running' = running /\ signalled' = signalled))
       /\ held' = held /\ alive' = alive
  BY <1>1, <1>3, <1>16
<1> QED BY <1>5, <1>20, <1>21, <1>22, <1>24, <1>25, <1>28, <1>29, <1>30, CallMoves

\* What is initialized when a call has returned.
LEMMA KeptAfterCall ==
  ASSUME CountsOK, NEW t \in Callers, CallReturns(t), call.kind \in CallKinds,
         call.kind = "init" =>
            /\ call.features \subseteq Kept \cup call.part
            /\ \A f \in call.features : count[f] < MaxCount,
         call.kind = "deinit" => call.part = {f \in call.features : count[f] = 1},
         \A f \in Features : count[f] <= MaxCount
  PROVE  Kept' = Target /\ \A f \in Features : count'[f] <= MaxCount
<1>1. /\ count \in [Features -> Nat] /\ call.part \subseteq call.features
      /\ call.features \subseteq Features /\ MaxCount \in Nat
  BY LibraryAssumption DEF CountsOK, CallTypes
<1>2. CASE call.kind = "init"
  <2>1. /\ count' = Raised(count, call.features) /\ Target = Kept \cup call.part
    BY <1>2 DEF CallReturns, Counted, Target
  <2>2. \A f \in Features : count'[f] = IF f \in call.features THEN count[f] + 1 ELSE count[f]
    BY <2>1 DEF Raised
  <2> QED BY <1>1, <1>2, <2>1, <2>2 DEF Kept, Initialized
<1>3. CASE call.kind = "deinit"
  <2>1. /\ count' = Lowered(count, Uncounted) /\ Target = Kept \ call.part
    BY <1>3 DEF CallReturns, Target
  <2>2. \A f \in Features :
           count'[f] = IF f \in Uncounted /\ count[f] > 0 THEN count[f] - 1 ELSE count[f]
    BY <2>1 DEF Lowered
  <2>3. \A f \in Features : f \in call.part <=> f \in Uncounted /\ count[f] = 1
    BY <1>1, <1>3 DEF Uncounted, Features
  <2> QED BY <1>1, <2>1, <2>2, <2>3 DEF Kept, Initialized
<1>4. CASE call.kind = "failed"
  <2>1. count' = count /\ Target = Kept
    BY <1>4 DEF CallReturns, Target
  <2> QED BY <2>1 DEF Kept, Initialized
<1> QED BY <1>2, <1>3, <1>4 DEF CallKinds

LEMMA CallReturnsKnows ==
  ASSUME NEW pos, NEW goal, Knows(pos, goal), NEW t \in Callers, CallReturns(t)
  PROVE  LibraryInv'
<1>1. /\ script[t] # << >> /\ Head(script[t]).op = "return"
      /\ call' = NoCall /\ mine' = {} /\ Advance(t)
      /\ up' = up /\ running' = running /\ signalled' = signalled
      /\ held' = held /\ alive' = alive
  BY DEF CallReturns, At, threadVars
<1>2. PICK op \in {"up", "down", "return"} : op = "return"
  OBVIOUS
<1>3. /\ call # NoCall /\ call.kind \in CallKinds /\ Role(t) = call.kind
      /\ InCall(t, pos, goal) /\ t \in Threads /\ t \notin LibraryThreads
      /\ LibraryTypes /\ CountsOK /\ BetweenCalls
      /\ pos[t].up = up /\ pos[t].locks = {} /\ Holds(t) = {} /\ pos[t].asked = {}
      /\ ~pos[t].over /\ pos[t].ended \cap alive = {} /\ pos[t].ended \subseteq LibraryThreads
      /\ pos[t] \in Positions /\ goal[t] \in Positions
      /\ script[t] \in Seq(Steps) /\ On(t) \in Names
      /\ \A l \in LibraryThreads : /\ "dmx_merger" \notin pos[l].up /\ held["merger"] # l
                                   /\ l \in alive => UsedBy[l] \subseteq up
  BY <1>1, <1>2, CallStandsAt
<1>4. PICK h \in Positions :
         /\ FitsReturn(call.kind, Head(script[t]), pos[t], h)
         /\ Leads(call.kind, h, Tail(script[t]), goal[t])
  <2>1. PICK h \in Positions :
               /\ FitsUp(call.kind, Head(script[t]), pos[t], h)
                  \/ FitsDown(call.kind, Head(script[t]), pos[t], h)
                  \/ FitsReturn(call.kind, Head(script[t]), pos[t], h)
               /\ Leads(call.kind, h, Tail(script[t]), goal[t])
    BY <1>1, <1>2, CallStandsAt
  <2>2. FitsReturn(call.kind, Head(script[t]), pos[t], h)
    BY <1>1, <2>1 DEF FitsUp, FitsDown
  <2> QED BY <2>1, <2>2
<1>5. h.over /\ h.up = up /\ h.ended = pos[t].ended
  BY <1>3, <1>4 DEF FitsReturn, Positions
<1>6. Tail(script[t]) = << >> /\ goal[t] = h
  <2>1. Tail(script[t]) \in Seq(Steps)
    BY <1>1, <1>3, HeadFits
  <2> QED BY <1>4, <1>5, <2>1, OverIsTheEnd
<1>7. /\ InitSoFar(pos[t]) /\ Reaches(goal[t])
      /\ \A u \in Callers \ {t} : script[u] = << >> /\ pos[u].asked = {} /\ pos[u].ended = {}
      /\ call.kind = "deinit" => call.part = {f \in call.features : count[f] = 1}
  BY <1>3 DEF InCall
<1>8. up = StagesFor(Target) /\ ("net" \in Target \/ pos[t].ended = LibraryThreads)
  BY <1>5, <1>6, <1>7 DEF Reaches
<1>9. Kept' = Target /\ \A f \in Features : count'[f] <= MaxCount
  <2>1. call.kind = "init" =>
            /\ call.features \subseteq Kept \cup call.part
            /\ \A f \in call.features : count[f] < MaxCount
    BY <1>7 DEF InitSoFar
  <2>2. \A f \in Features : count[f] <= MaxCount
    BY <1>3 DEF LibraryTypes
  <2> QED BY <1>3, <1>7, <2>1, <2>2, KeptAfterCall
<1>10. PICK stages \in SUBSET Stages : stages = up
  BY <1>3 DEF LibraryTypes
<1>11. PICK k \in Positions :
          k = Place({}, stages, {}, {}) /\ k.locks = {} /\ k.up = stages /\ k.asked = {} /\ k.ended = {} /\ ~k.over
  BY PlaceIsPosition
<1>12. /\ script'[t] = << >> /\ \A u \in Threads \ {t} : script'[u] = script[u]
       /\ script' \in [Threads -> Seq(Steps)]
  BY <1>1, <1>3, <1>6, Advanced
<1>13. Holds(t)' = {}
  BY <1>1, <1>3 DEF Holds
<1>14. LibraryTypes'
  BY <1>1, <1>3, <1>9, <1>12 DEF LibraryTypes, NoCall
<1>15. CountsOK'
  BY <1>3, ReturnCounts
<1>16. BetweenCalls'
  <2>1. up' = StagesFor(Kept')
    BY <1>1, <1>8, <1>9
  <2>2. "net" \notin Kept' => alive' = {}
    BY <1>1, <1>3, <1>8, <1>9 DEF LibraryTypes
  <2> QED BY <2>1, <2>2 DEF BetweenCalls
<1>17. FollowsScript(t, k, k)'
  <2>1. Leads(Role(t)', k, << >>, k)
    BY NothingLeads
  <2> QED BY <1>11, <1>12, <1>13, <2>1 DEF FollowsScript
<1>18. CallerKnows(k, script[t])'
  <2>1. StartsRelease(<< >>)
    BY DEF StartsRelease
  <2> QED BY <1>1, <1>10, <1>11, <1>12, <2>1 DEF CallerKnows
<1>19. \A l \in LibraryThreads : /\ "dmx_merger" \notin pos[l].up /\ held["merger"] # l
                                 /\ l \in alive => UsedBy[l] \subseteq up'
  BY <1>1, <1>3
<1>20. call' # NoCall =>
          /\ InitSoFar(k)' /\ Reaches(k)'
          /\ call'.kind = "deinit" => call'.part = {f \in call'.features : count'[f] = 1}
  BY <1>1
<1>21. pos[t].asked = {} /\ k.asked = {} /\ (alive = {} \/ (running' = running /\ signalled' = signalled))
       /\ held' = held /\ alive' = alive
  BY <1>1, <1>3, <1>11
<1> QED BY <1>7, <1>12, <1>14, <1>15, <1>16, <1>17, <1>18, <1>19, <1>20, <1>21, CallMoves

(***************************************************************************)
(* The invariant.                                                          *)
(***************************************************************************)

LEMMA LibraryInit == Init => LibraryInv
<1> SUFFICES ASSUME Init PROVE LibraryInv
  OBVIOUS
<1>1. CountsOK
  BY CountsInit
<1>2. LibraryTypes
  <2>1. << >> \in Seq(Steps)
    OBVIOUS
  <2> QED BY <2>1, LibraryAssumption DEF Init, LibraryTypes
<1>3. Kept = {} /\ call = NoCall /\ call.kind = "none" /\ alive = {}
      /\ \A t \in Threads : script[t] = << >> /\ Holds(t) = {}
  BY LibraryAssumption DEF Init, Kept, Initialized, NoCall, Holds
<1>4. BetweenCalls
  BY <1>3 DEF BetweenCalls, Init, StagesFor
<1>5. PICK g \in Positions, h \in Positions :
         /\ g.locks = {} /\ g.up = {} /\ g.asked = {} /\ g.ended = {} /\ ~g.over
         /\ h.locks = {} /\ h.up = NetStages /\ h.asked = {} /\ h.ended = {} /\ ~h.over
  <2>1. PICK none \in SUBSET Stages, stages \in SUBSET Stages : none = {} /\ stages = NetStages
    BY StagesAre
  <2>2. PICK g \in Positions :
           /\ g = Place({}, none, {}, {}) /\ g.locks = {} /\ g.up = none /\ g.asked = {}
           /\ g.ended = {} /\ ~g.over
    BY PlaceIsPosition
  <2>3. PICK h \in Positions :
           /\ h = Place({}, stages, {}, {}) /\ h.locks = {} /\ h.up = stages /\ h.asked = {}
           /\ h.ended = {} /\ ~h.over
    BY PlaceIsPosition
  <2> QED BY <2>1, <2>2, <2>3
<1> DEFINE pos == [t \in Threads |-> IF t \in LibraryThreads THEN h ELSE g]
<1>6. /\ pos \in [Threads -> Positions] /\ \A t \in LibraryThreads : pos[t] = h
      /\ \A t \in Callers : pos[t] = g
  BY CallerIs DEF Threads
<1> HIDE DEF pos
<1>7. \A t \in Threads : FollowsScript(t, pos[t], pos[t])
  <2> TAKE t \in Threads
  <2>1. pos[t] \in {g, h}
    BY <1>6 DEF Threads
  <2>2. Leads(Role(t), pos[t], << >>, pos[t])
    BY <2>1, NothingLeads
  <2> QED BY <1>3, <1>5, <2>1, <2>2 DEF FollowsScript
<1>8. \A t \in Callers : CallerKnows(pos[t], script[t])
  <2>1. StartsRelease(<< >>)
    BY DEF StartsRelease
  <2> QED BY <1>3, <1>5, <1>6, <2>1, CallerIs DEF CallerKnows
<1>9. \A l \in LibraryThreads :
         ThreadKnows(l, pos[l]) /\ EndsForCall(l, pos[l], pos) /\ pos[l].up = NetStages
  <2> TAKE l \in LibraryThreads
  <2>1. l \in Threads /\ held["merger"] # l
    BY LibraryAssumption DEF Threads, Init, Locks
  <2> QED BY <1>3, <1>5, <1>6, <2>1, StagesAre DEF ThreadKnows, EndsForCall
<1>10. Positioned(pos, pos)
  BY <1>3, <1>7, <1>8, <1>9 DEF Positioned
<1> QED BY <1>1, <1>2, <1>4, <1>6, <1>10 DEF LibraryInv

LEMMA StutterKnows ==
  ASSUME NEW pos, NEW goal, Knows(pos, goal), UNCHANGED vars
  PROVE  LibraryInv'
<1>1. /\ UNCHANGED libraryVars /\ held' = held /\ script' = script
      /\ running' = running /\ alive' = alive /\ signalled' = signalled
  BY DEF vars, libraryVars
<1>2. /\ up' = up /\ count' = count /\ call' = call /\ mine' = mine
      /\ Kept' = Kept /\ Target' = Target /\ Initialized("merger")' = Initialized("merger")
      /\ \A t : Role(t)' = Role(t) /\ Holds(t)' = Holds(t)
  BY <1>1, CallsStay DEF Holds
<1>3. /\ CountsOK /\ LibraryTypes /\ BetweenCalls /\ Positioned(pos, goal)
      /\ pos \in [Threads -> Positions] /\ goal \in [Threads -> Positions]
  BY DEF Knows
<1>4. CountsOK'
  BY <1>1, <1>3, CallsStay
<1>5. LibraryTypes'
  BY <1>1, <1>2, <1>3 DEF LibraryTypes, NoCall
<1>6. BetweenCalls'
  BY <1>1, <1>2, <1>3 DEF BetweenCalls, NoCall
<1>7. ASSUME NEW t \in Threads PROVE FollowsScript(t, pos[t], goal[t])'
  <2>1. FollowsScript(t, pos[t], goal[t])
    BY <1>3 DEF Positioned
  <2> QED BY <1>1, <1>2, <2>1 DEF FollowsScript
<1>8. ASSUME NEW t \in Callers PROVE CallerKnows(pos[t], script[t])'
  <2>1. CallerKnows(pos[t], script[t])
    BY <1>3 DEF Positioned
  <2> QED BY <1>1, <1>2, <2>1 DEF CallerKnows, NoCall
<1>9. ASSUME NEW l \in LibraryThreads
      PROVE  ThreadKnows(l, pos[l])' /\ EndsForCall(l, pos[l], pos)' /\ goal[l].up = NetStages
  <2>1. ThreadKnows(l, pos[l]) /\ EndsForCall(l, pos[l], pos) /\ goal[l].up = NetStages
    BY <1>3 DEF Positioned
  <2> QED BY <1>1, <1>2, <2>1 DEF ThreadKnows, EndsForCall, NoCall
<1>10. ASSUME NEW c \in Callers, InCall(c, pos, goal) PROVE InCall(c, pos, goal)'
  <2>1. InitSoFar(pos[c])'
    BY <1>2, <1>10 DEF InCall, InitSoFar
  <2>2. Reaches(goal[c])'
    BY <1>2, <1>10 DEF InCall, Reaches
  <2> QED BY <1>1, <1>2, <1>10, <2>1, <2>2 DEF InCall
<1>11. Positioned(pos, goal)'
  BY <1>2, <1>3, <1>7, <1>8, <1>9, <1>10 DEF Positioned, NoCall
<1> QED BY <1>3, <1>4, <1>5, <1>6, <1>11 DEF LibraryInv

LEMMA LibraryNext == LibraryInv /\ [Next]_vars => LibraryInv'
<1> SUFFICES ASSUME LibraryInv, [Next]_vars PROVE LibraryInv'
  OBVIOUS
<1>1. PICK pos, goal \in [Threads -> Positions] : Knows(pos, goal)
  BY KnowsWhatItKnows
<1>2. CASE UNCHANGED vars
  BY <1>1, <1>2, StutterKnows
<1>3. ASSUME NEW t \in Threads, ThreadStep(t) PROVE LibraryInv'
  BY <1>1, <1>3, TakeLockKnows, ReleaseLockKnows, UseDataKnows, CallbackCallingKnows
  DEF ThreadStep
<1>4. ASSUME NEW t \in Callers, CallerStep(t) PROVE LibraryInv'
  <2>1. CASE \E fs \in (SUBSET Features) \ {{}} : InitFeatures(t, fs) \/ DeinitFeatures(t, fs)
    BY <1>1, <2>1, InitFeaturesKnows, DeinitFeaturesKnows
  <2>2. CASE StageUp(t) \/ StageFails(t) \/ StageDown(t)
    BY <1>1, <2>2, StageUpKnows, StageFailsKnows, StageDownKnows
  <2>3. CASE CallReturns(t)
    BY <1>1, <2>3, CallReturnsKnows
  <2>4. CASE StartThread(t) \/ SignalThread(t)
    BY <1>1, <2>4, StartThreadKnows, SignalThreadKnows
  <2>5. CASE JoinThread(t) \/ CallApi(t)
    BY <1>1, <2>5, JoinThreadKnows, CallApiKnows
  <2> QED BY <1>4, <2>1, <2>2, <2>3, <2>4, <2>5 DEF CallerStep
<1>5. CASE ReceiveThread
  <2>1. PICK l \in LibraryThreads : l = "recv"
    BY DEF LibraryThreads
  <2>2. CASE EndThread("recv")
    BY <1>1, <2>1, <2>2, EndThreadKnows
  <2> QED BY <1>1, <1>5, <2>2, BeginReceivingKnows, ReceiveLoopKnows, ChooseStepsKnows,
             LeaveReceivingKnows DEF ReceiveThread
<1>6. CASE SourceThread
  <2>1. PICK l \in LibraryThreads : l = "tick"
    BY DEF LibraryThreads
  <2>2. CASE EndThread("tick")
    BY <1>1, <2>1, <2>2, EndThreadKnows
  <2> QED BY <1>1, <1>6, <2>2, SourceLoopKnows, LeaveSourcesKnows DEF SourceThread
<1> QED BY <1>2, <1>3, <1>4, <1>5, <1>6 DEF Next

(***************************************************************************)
(* What the invariant says of the properties.                              *)
(***************************************************************************)

\* A thread that stands before a lock, a use or a join.
LEMMA StandsAt ==
  ASSUME NEW pos, NEW goal, Knows(pos, goal), NEW t \in Threads
  PROVE  /\ At(t, "lock") =>
              /\ On(t) \in Locks /\ StageOf[On(t)] \in pos[t].up
              /\ \A m \in Holds(t) : Rank[m] < Rank[On(t)]
              /\ t = "tick" => On(t) = "source"
         /\ At(t, "use") =>
              \/ /\ On(t) = "receivers" /\ t # "tick" /\ "receiver_mem" \in pos[t].up
                 /\ \/ held["receiver"] = t
                    \/ t \in Callers /\ InCall(t, pos, goal) /\ "recv" \notin alive
              \/ On(t) = "sources" /\ "source_mem" \in pos[t].up /\ held["source"] = t
              \/ On(t) = "mergers"
         /\ At(t, "join") => t \in Callers /\ Holds(t) = {}
<1> SUFFICES ASSUME script[t] # << >>
             PROVE  /\ At(t, "lock") =>
                         /\ On(t) \in Locks /\ StageOf[On(t)] \in pos[t].up
                         /\ \A m \in Holds(t) : Rank[m] < Rank[On(t)]
                         /\ t = "tick" => On(t) = "source"
                    /\ At(t, "use") =>
                         \/ /\ On(t) = "receivers" /\ t # "tick" /\ "receiver_mem" \in pos[t].up
                            /\ \/ held["receiver"] = t
                               \/ t \in Callers /\ InCall(t, pos, goal) /\ "recv" \notin alive
                         \/ On(t) = "sources" /\ "source_mem" \in pos[t].up /\ held["source"] = t
                         \/ On(t) = "mergers"
                    /\ At(t, "join") => t \in Callers /\ Holds(t) = {}
  BY DEF At
<1>1. PICK h \in Positions : Fits(Role(t), Head(script[t]), pos[t], h)
  BY HeadFits
<1>2. pos[t].locks = Holds(t)
  BY PositionKnows
<1>3. /\ Role(t) \in CallKinds => t \in Callers /\ InCall(t, pos, goal)
      /\ t = "tick" => Role(t) = "tick"
  BY RolesAre DEF LibraryThreads
<1>4. At(t, "lock") => FitsLock(Role(t), Head(script[t]), pos[t], h)
  BY <1>1 DEF At, Fits, FitsUnlock, FitsUse, FitsCallback, FitsStart, FitsSignal, FitsJoin, FitsUp,
              FitsDown, FitsReturn, FitsBegin, FitsChoose, FitsLeave, FitsEnd
<1>5. At(t, "use") => FitsUse(Role(t), Head(script[t]), pos[t], h)
  BY <1>1 DEF At, Fits, FitsLock, FitsUnlock, FitsCallback, FitsStart, FitsSignal, FitsJoin, FitsUp,
              FitsDown, FitsReturn, FitsBegin, FitsChoose, FitsLeave, FitsEnd
<1>6. At(t, "join") => FitsJoin(Role(t), Head(script[t]), pos[t], h)
  BY <1>1 DEF At, Fits, FitsLock, FitsUnlock, FitsUse, FitsCallback, FitsStart, FitsSignal, FitsUp,
              FitsDown, FitsReturn, FitsBegin, FitsChoose, FitsLeave, FitsEnd
<1>7. At(t, "lock") =>
         /\ On(t) \in Locks /\ StageOf[On(t)] \in pos[t].up
         /\ \A m \in Holds(t) : Rank[m] < Rank[On(t)]
         /\ t = "tick" => On(t) = "source"
  BY <1>2, <1>3, <1>4 DEF FitsLock, On, Below
<1>8. t \in Callers /\ "recv" \in pos[t].ended => "recv" \notin alive
  BY DEF Knows, Positioned, CallerKnows
<1>9. \A m : m \in Holds(t) => held[m] = t
  BY DEF Holds
<1>10. At(t, "use") =>
         \/ /\ On(t) = "receivers" /\ t # "tick" /\ "receiver_mem" \in pos[t].up
            /\ \/ held["receiver"] = t
               \/ t \in Callers /\ InCall(t, pos, goal) /\ "recv" \notin alive
         \/ On(t) = "sources" /\ "source_mem" \in pos[t].up /\ held["source"] = t
         \/ On(t) = "mergers"
  BY <1>2, <1>3, <1>5, <1>8, <1>9 DEF FitsUse, On
<1>11. At(t, "join") => t \in Callers /\ Holds(t) = {}
  BY <1>2, <1>3, <1>6 DEF FitsJoin
<1> QED BY <1>7, <1>10, <1>11

LEMMA InvHasFeatures == LibraryInv => FeaturesMatchStages
<1> SUFFICES ASSUME LibraryInv, call = NoCall, NEW f \in Features
             PROVE  Whole(f) \cap up = IF Initialized(f) THEN Whole(f) ELSE {}
  BY DEF FeaturesMatchStages, Whole
<1>1. PICK kept \in SUBSET Features : kept = Kept
  BY DEF Kept
<1>2. up = (IF "net" \in kept THEN NetStages ELSE {})
              \cup (IF "merger" \in kept THEN {"dmx_merger"} ELSE {})
  BY <1>1, StagesForFeatures DEF LibraryInv, BetweenCalls
<1>3. Whole("net") = NetStages /\ Whole("merger") = {"dmx_merger"} /\ "dmx_merger" \notin NetStages
  BY StagesAre
<1>4. f \in kept <=> Initialized(f)
  BY <1>1 DEF Kept
<1> QED BY <1>2, <1>3, <1>4 DEF Features

\* The stages that a thread of the library needs for its locks and data.
LEMMA LibraryThreadHasStages ==
  ASSUME NEW pos, NEW goal, Knows(pos, goal), NEW l \in LibraryThreads, script[l] # << >>
  PROVE  /\ UsedBy[l] \subseteq up
         /\ "dmx_merger" \in pos[l].up \/ held["merger"] = l => "dmx_merger" \in up
         /\ l = "tick" => Holds(l) \subseteq {"source"}
<1>1. l \in Threads
  BY DEF Threads
<1>2. /\ l \in alive /\ l = "tick" => Holds(l) \subseteq {"source"}
      /\ "dmx_merger" \in pos[l].up \/ held["merger"] = l => call = NoCall /\ Initialized("merger")
  BY <1>1, PositionKnows
<1>3. l \in alive
  BY <1>1, PositionKnows
<1>4. UsedBy[l] \subseteq up
  BY <1>3 DEF Knows, Positioned, ThreadKnows
<1>5. call = NoCall /\ Initialized("merger") => "dmx_merger" \in up
  BY UpBetweenCalls, StagesAre DEF Knows, Features
<1>6. l = "tick" => Holds(l) \subseteq {"source"}
  BY <1>1, PositionKnows
<1> QED BY <1>2, <1>4, <1>5, <1>6

LEMMA InvHasStages == LibraryInv => StagesAreUp
<1> SUFFICES ASSUME LibraryInv PROVE StagesAreUp
  OBVIOUS
<1>1. PICK pos, goal \in [Threads -> Positions] : Knows(pos, goal)
  BY KnowsWhatItKnows
<1>2. UsedBy["recv"] = {"receiver_mutex", "source_mutex", "receiver_mem", "source_mem",
                        "merge_receiver", "source_detector_state", "receiver_state"}
      /\ UsedBy["tick"] = {"source_mutex", "source_mem"}
  BY DEF UsedBy
<1>3. \A m \in Locks \ {"merger"} : StageOf[m] \in UsedBy["recv"]
  BY <1>2, StageOfLock DEF Locks
<1>4. StageOf["source"] \in UsedBy["tick"] /\ StageOf["merger"] = "dmx_merger"
  BY <1>2, StageOfLock
<1>5. ASSUME NEW m \in Locks, held[m] # Nobody PROVE StageOf[m] \in up
  <2>1. PICK t \in Threads : held[m] = t
    BY <1>1, <1>5 DEF Knows, LibraryTypes
  <2>2. m \in Holds(t) /\ m \in pos[t].locks
    BY <1>1, <2>1 DEF Holds, Knows, Positioned, FollowsScript
  <2>3. CASE t \in Callers
    BY <1>1, <2>2, <2>3 DEF Knows, Positioned, CallerKnows
  <2>4. CASE t \in LibraryThreads
    <3>1. script[t] # << >>
      BY <1>1, <2>2, IdleAtGoal
    <3>2. /\ UsedBy[t] \subseteq up /\ (held["merger"] = t => "dmx_merger" \in up)
          /\ t = "tick" => Holds(t) \subseteq {"source"}
      BY <1>1, <2>4, <3>1, LibraryThreadHasStages
    <3> QED BY <1>3, <1>4, <2>1, <2>2, <2>4, <3>2 DEF LibraryThreads
  <2> QED BY <2>3, <2>4 DEF Threads
<1>6. ASSUME NEW t \in Threads, At(t, "lock") PROVE StageOf[On(t)] \in up
  <2>1. /\ On(t) \in Locks /\ StageOf[On(t)] \in pos[t].up
        /\ t = "tick" => On(t) = "source"
    BY <1>1, <1>6, StandsAt
  <2>2. script[t] # << >>
    BY <1>6 DEF At
  <2>3. CASE t \in Callers
    BY <1>1, <2>1, <2>2, <2>3, PositionKnows
  <2>4. CASE t \in LibraryThreads
    <3>1. /\ UsedBy[t] \subseteq up /\ ("dmx_merger" \in pos[t].up => "dmx_merger" \in up)
      BY <1>1, <2>2, <2>4, LibraryThreadHasStages
    <3> QED BY <1>3, <1>4, <2>1, <2>4, <3>1 DEF LibraryThreads
  <2> QED BY <2>3, <2>4 DEF Threads
<1>7. ASSUME NEW t \in Threads, At(t, "use"), On(t) # "mergers" PROVE StageOf[On(t)] \in up
  <2>1. \/ On(t) = "receivers" /\ t # "tick" /\ "receiver_mem" \in pos[t].up
        \/ On(t) = "sources" /\ "source_mem" \in pos[t].up
    BY <1>1, <1>7, StandsAt
  <2>2. script[t] # << >> /\ StageOf["receivers"] = "receiver_mem" /\ StageOf["sources"] = "source_mem"
    BY <1>7, StageOfLock DEF At
  <2>3. CASE t \in Callers
    BY <1>1, <2>1, <2>2, <2>3, PositionKnows
  <2>4. CASE t \in LibraryThreads
    <3>1. UsedBy[t] \subseteq up
      BY <1>1, <2>2, <2>4, LibraryThreadHasStages
    <3> QED BY <1>2, <2>1, <2>2, <2>4, <3>1 DEF LibraryThreads
  <2> QED BY <2>3, <2>4 DEF Threads
<1> QED BY <1>5, <1>6, <1>7 DEF StagesAreUp

LEMMA InvHasTypes == LibraryInv => TypeOK
<1> SUFFICES ASSUME LibraryInv PROVE TypeOK
  OBVIOUS
<1>1. PICK pos, goal \in [Threads -> Positions] : Knows(pos, goal)
  BY KnowsWhatItKnows
<1>2. /\ CountsOK /\ LibraryTypes /\ Positioned(pos, goal) /\ MaxCount \in Nat
  BY <1>1, LibraryAssumption DEF Knows
<1>3. count \in [Features -> 0..MaxCount] /\ balance \in [Features -> 0..MaxCount]
  <2>1. \A f \in Features : count[f] \in 0..MaxCount /\ balance[f] \in 0..MaxCount
    BY <1>2 DEF CountsOK, LibraryTypes, InitsAreBalanced
  <2> QED BY <1>2, <2>1 DEF CountsOK
<1>4. /\ call.kind \in {"none", "init", "failed", "deinit"}
      /\ call.part \subseteq call.features /\ call.features \subseteq Features
  BY <1>2 DEF CountsOK, CallTypes
<1>5. call.kind = "init" => mine \subseteq up
  <2> SUFFICES ASSUME call.kind = "init" PROVE mine \subseteq up
    OBVIOUS
  <2>1. call # NoCall
    BY DEF NoCall
  <2>2. PICK c \in Callers : InCall(c, pos, goal)
    BY <1>2, <2>1 DEF Positioned
  <2> QED BY <2>2 DEF InCall, InitSoFar
<1>6. \A t \in Threads : At(t, "lock") => On(t) \in Locks
  BY <1>1, StandsAt
<1> QED BY <1>2, <1>3, <1>4, <1>5, <1>6 DEF TypeOK, LibraryTypes

LEMMA InvHasOrder == LibraryInv => LocksAreOrdered
<1> SUFFICES ASSUME LibraryInv PROVE LocksAreOrdered
  OBVIOUS
<1>1. PICK pos, goal \in [Threads -> Positions] : Knows(pos, goal)
  BY KnowsWhatItKnows
<1>2. \A t \in Threads :
         /\ At(t, "lock") => \A m \in Holds(t) : Rank[m] < Rank[On(t)]
         /\ At(t, "join") => t \in Callers /\ Holds(t) = {}
  BY <1>1, StandsAt
<1> QED BY <1>2, InvHasTypes DEF LocksAreOrdered

LEMMA InvHasLocks == LibraryInv => DataIsLocked
<1> SUFFICES ASSUME LibraryInv PROVE DataIsLocked
  OBVIOUS
<1>1. PICK pos, goal \in [Threads -> Positions] : Knows(pos, goal)
  BY KnowsWhatItKnows
<1>2. ASSUME NEW t \in Threads, NEW u \in Threads, At(t, "use"), On(t) = "receivers",
             At(u, "use"), On(u) = "receivers", t \in Callers, InCall(t, pos, goal),
             "recv" \notin alive
      PROVE  t = u
  <2>1. script[u] # << >> /\ u # "tick"
    <3>1. script[u] # << >>
      BY <1>2 DEF At
    <3>2. u # "tick"
      BY <1>1, <1>2, StandsAt
    <3> QED BY <3>1, <3>2
  <2>2. u \notin LibraryThreads
    BY <1>1, <1>2, <2>1, PositionKnows DEF LibraryThreads
  <2> QED BY <1>2, <2>1, <2>2 DEF InCall, Threads
<1>3. OneUses("receivers")
  <2> SUFFICES ASSUME NEW t \in Threads, NEW u \in Threads, At(t, "use"), On(t) = "receivers",
                      At(u, "use"), On(u) = "receivers"
               PROVE  t = u
    BY DEF OneUses
  <2>1. held["receiver"] = t \/ (t \in Callers /\ InCall(t, pos, goal) /\ "recv" \notin alive)
    BY <1>1, StandsAt
  <2>2. held["receiver"] = u \/ (u \in Callers /\ InCall(u, pos, goal) /\ "recv" \notin alive)
    BY <1>1, StandsAt
  <2> QED BY <1>2, <2>1, <2>2
<1>4. OneUses("sources")
  <2> SUFFICES ASSUME NEW t \in Threads, NEW u \in Threads, At(t, "use"), On(t) = "sources",
                      At(u, "use"), On(u) = "sources"
               PROVE  t = u
    BY DEF OneUses
  <2>1. held["source"] = t /\ held["source"] = u
    BY <1>1, StandsAt
  <2> QED BY <2>1
<1> QED BY <1>3, <1>4 DEF DataIsLocked

\* The invariant holds in every state (common.c, receiver.c, source.c): each
\* thread is at a position from which the rest of what it has to do fits.
THEOREM LibraryAlwaysFits == Spec => []LibraryInv
  BY LibraryInit, LibraryNext, PTL DEF Spec

\* Between calls a feature has all its stages or none (common.c,
\* sacn_init_features_with_cb and its clean-up, sacn_deinit_features), whatever
\* stages have failed before.
THEOREM LibraryFeaturesMatchStages == Spec => []FeaturesMatchStages
  BY LibraryAlwaysFits, InvHasFeatures, PTL

\* Locks and data are used while their stage is up (common.c, receiver_state.c,
\* source_state.c), also while the library goes down around its threads.
THEOREM LibraryStagesAreUp == Spec => []StagesAreUp
  BY LibraryAlwaysFits, InvHasStages, PTL

\* All threads nest the locks in one order, and join the threads of the library
\* without a lock (receiver_state.c, source_state.c, receiver.c, ...).
THEOREM LibraryLocksAreOrdered == Spec => []LocksAreOrdered
  BY LibraryAlwaysFits, InvHasOrder, PTL

\* The receivers and the sources are used by one thread at a time, with the
\* lock or, in a deinit, after the receive thread has ended.
THEOREM LibraryDataIsLocked == Spec => []DataIsLocked
  BY LibraryAlwaysFits, InvHasLocks, PTL

\* No threads wait for one another, for any number of threads of the
\* application.
THEOREM LibraryHasNoWaitCycle == Spec => []NoWaitCycle
  BY LibraryLocksAreOrdered, OrderExcludesCycles, PTL

================================================================================
