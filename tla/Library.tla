------------------------------- MODULE Library -------------------------------
(***************************************************************************)
(* The life of the library (common.c): its features are initialized stage  *)
(* by stage and counted, calls and the two threads of the library share    *)
(* its data under its locks, and the last deinit stops the threads and     *)
(* takes the stages down.                                                  *)
(***************************************************************************)
EXTENDS LockProfiles, SequencesExt

CONSTANTS
    Callers,            \* the threads of the application
    Nobody,             \* holds the locks that are free
    MaxCount            \* bound: how often a feature is initialized

LibraryThreads == {"recv", "tick"}
Threads == Callers \cup LibraryThreads
Features == {"net", "merger"}
Locks == {"receiver_cb", "merge_receiver_cb", "source_detector_cb", "receiver",
          "merger", "source"}

ASSUME LibraryAssumption ==
    /\ Callers \cap LibraryThreads = {}
    /\ Nobody \notin Threads
    /\ MaxCount \in Nat

\* The stages of each feature in the order of their initialization.
StagesOf == [
    net |-> <<"logging", "etcpal_sockets", "timers", "netints", "receiver_mutex",
              "source_mutex", "receiver_mem", "source_mem", "merge_receiver_mem",
              "source_detector_mem", "sockets", "merge_receiver",
              "source_detector_state", "source_detector", "source_loss",
              "receiver_state", "receiver", "source_state", "source">>,
    merger |-> <<"dmx_merger">>]

Stages == UNION {ToSet(StagesOf[f]) : f \in Features}

\* The stage that creates a lock, or the memory of shared data.
StageOf == [
    receiver |-> "receiver_mutex", source |-> "source_mutex", merger |-> "dmx_merger",
    receiver_cb |-> "receiver_state", merge_receiver_cb |-> "merge_receiver",
    source_detector_cb |-> "source_detector_state",
    receivers |-> "receiver_mem", sources |-> "source_mem"]

VARIABLES
    up,                 \* the stages that are initialized
    count,              \* for each feature, its init count
    call,               \* the init or deinit in progress: its kind, its features,
                        \* and the part of them it has to do something about
    mine,               \* the stages that the init in progress has brought up
    held,               \* for each lock, the thread that holds it
    script,             \* for each thread, the steps before it
    running,            \* the library threads marked as started
    alive,              \* the library threads that have not returned
    signalled,          \* the library threads asked to end
    balance             \* for each feature, successful inits without their deinit

vars == <<up, count, call, mine, held, script, running, alive, signalled, balance>>
libraryVars == <<up, count, call, mine, balance>>
threadVars == <<running, alive, signalled>>

NoCall == [kind |-> "none", features |-> {}, part |-> {}]

Init ==
    /\ up = {}
    /\ count = [f \in Features |-> 0]
    /\ call = NoCall
    /\ mine = {}
    /\ held = [m \in Locks |-> Nobody]
    /\ script = [t \in Threads |-> << >>]
    /\ running = {}
    /\ alive = {}
    /\ signalled = {}
    /\ balance = [f \in Features |-> 0]

At(t, op) == script[t] # << >> /\ Head(script[t]).op = op
On(t) == Head(script[t]).on
Continue(t, steps) == script' = [script EXCEPT ![t] = steps \o Tail(@)]
Advance(t) == Continue(t, << >>)

\* sacn_initialized
Initialized(f) == count[f] > 0

(***************************************************************************)
(* Init, its clean-up when a stage fails, and deinit.                      *)
(***************************************************************************)
UpAll(fs) ==
    LET stages(f) == IF f \in fs THEN [i \in DOMAIN StagesOf[f] |-> Up(StagesOf[f][i])]
                                 ELSE << >>
    IN  stages("net") \o stages("merger")

\* sacn_receiver_state_deinit: the thread is told to end under the receiver
\* lock, and waited for without it.
JoinReceiver ==
    Locked("receiver", <<Use("receivers"), Signal("recv")>>) \o <<Join("recv")>> \o ReceiverCall

\* sacn_source_state_deinit
JoinSource ==
    SourceCall \o Locked("source", <<Signal("tick")>>) \o <<Join("tick")>>

\* What is done before a stage is down.
Ending(stage) ==
    CASE stage = "dmx_merger" -> MergerCall
      [] stage = "source_state" -> JoinSource
      [] stage = "receiver_state" -> JoinReceiver
      [] stage = "merge_receiver_mem" -> ReceiverCall
      [] stage = "source_mem" -> SourceCall
      [] stage \in {"receiver_mem", "source_detector_mem"} -> <<Use("receivers")>>
      [] OTHER -> << >>

TakeDown(stage, stages) ==
    IF stage \in stages THEN Ending(stage) \o <<Down(stage)>> ELSE << >>

\* A faulty variant: the stages are taken down in the order they came up.
DownAllInOrder(stages) ==
    FlattenSeq([i \in DOMAIN StagesOf["net"] |-> TakeDown(StagesOf["net"][i], stages)])
        \o TakeDown("dmx_merger", stages)

\* The stages in the set, the last one first.
DownAll(stages) ==
    LET down(stage) == TakeDown(stage, stages)
    IN  down("dmx_merger")
        \o down("source") \o down("source_state")
        \o down("receiver") \o down("receiver_state") \o down("source_loss")
        \o down("source_detector") \o down("source_detector_state")
        \o down("merge_receiver") \o down("sockets")
        \o down("source_detector_mem") \o down("merge_receiver_mem")
        \o down("source_mem") \o down("receiver_mem")
        \o down("source_mutex") \o down("receiver_mutex")
        \o down("netints") \o down("timers") \o down("etcpal_sockets") \o down("logging")

\* The threads of the application are done with the library: deinit and init
\* are not thread safe with respect to the other calls.
NoOtherCalls ==
    /\ \A t \in Callers : script[t] = << >>
    /\ held["merger"] = Nobody
    /\ \A t \in LibraryThreads : ~(At(t, "lock") /\ On(t) = "merger")

Redundant(f) == count[f] > 0
ToInit(fs) == {f \in fs : ~Redundant(f)}
\* A faulty variant: features that were initialized more than once are taken
\* down as well.
ToDeinitAlways(fs) == {f \in fs : count[f] >= 1}

ToDeinit(fs) == {f \in fs : count[f] = 1}

\* sacn_init_features_with_cb
InitFeatures(t, fs) ==
    /\ NoOtherCalls
    /\ \A f \in fs : count[f] < MaxCount
    /\ call' = [kind |-> "init", features |-> fs, part |-> ToInit(fs)]
    /\ mine' = {}
    /\ script' = [script EXCEPT ![t] = UpAll(ToInit(fs)) \o <<Return>>]
    /\ UNCHANGED <<up, count, held, threadVars, balance>>

\* The contexts of the receive thread are cleared with the memory of the
\* receivers, the flag that ends the thread of the sources with their state.
Renewed(stage) ==
    CASE stage = "receiver_mem" -> {"recv"}
      [] stage = "source_state" -> {"tick"}
      [] OTHER -> {}

StageUp(t) ==
    /\ At(t, "up")
    /\ up' = up \cup {On(t)}
    /\ mine' = mine \cup {On(t)}
    /\ running' = running \ (Renewed(On(t)) \cap {"recv"})
    /\ signalled' = signalled \ Renewed(On(t))
    /\ Advance(t)
    /\ UNCHANGED <<count, call, held, alive, balance>>

StageFails(t) ==
    /\ At(t, "up")
    /\ call' = [call EXCEPT !.kind = "failed"]
    /\ script' = [script EXCEPT ![t] = DownAll(mine) \o <<Return>>]
    /\ UNCHANGED <<up, count, mine, held, threadVars, balance>>

\* sacn_deinit_features
DeinitFeatures(t, fs) ==
    /\ NoOtherCalls
    /\ call' = [kind |-> "deinit", features |-> fs, part |-> ToDeinit(fs)]
    /\ script' = [script EXCEPT ![t] =
          DownAll(UNION {ToSet(StagesOf[f]) : f \in ToDeinit(fs)}) \o <<Return>>]
    /\ UNCHANGED <<up, count, mine, held, threadVars, balance>>

StageDown(t) ==
    /\ At(t, "down")
    /\ up' = up \ {On(t)}
    /\ Advance(t)
    /\ UNCHANGED <<count, call, mine, held, threadVars, balance>>

Counted == call.features

\* A faulty variant: both counters follow the part that was taken down.
UncountedIfTakenDown == call.part

\* The counter of the merger follows the features that are asked for, the one
\* of the network features the part that was really taken down.
Uncounted == (call.features \cap {"merger"}) \cup (call.part \cap {"net"})

Lowered(counts, fs) == [f \in Features |->
    IF f \in fs /\ counts[f] > 0 THEN counts[f] - 1 ELSE counts[f]]
Raised(counts, fs) == [f \in Features |->
    IF f \in fs THEN counts[f] + 1 ELSE counts[f]]

CallReturns(t) ==
    /\ At(t, "return")
    /\ \/ /\ call.kind = "init"
          /\ count' = Raised(count, Counted)
          /\ balance' = Raised(balance, call.features)
       \/ /\ call.kind = "deinit"
          /\ count' = Lowered(count, Uncounted)
          /\ balance' = Lowered(balance, call.features)
       \/ call.kind = "failed" /\ UNCHANGED <<count, balance>>
    /\ call' = NoCall
    /\ mine' = {}
    /\ Advance(t)
    /\ UNCHANGED <<up, held, threadVars>>

(***************************************************************************)
(* The steps that any thread may come to.                                  *)
(***************************************************************************)
TakeLock(t) ==
    /\ At(t, "lock")
    /\ held[On(t)] = Nobody
    /\ held' = [held EXCEPT ![On(t)] = t]
    /\ Advance(t)
    /\ UNCHANGED <<libraryVars, threadVars>>

ReleaseLock(t) ==
    /\ At(t, "unlock")
    /\ held' = [held EXCEPT ![On(t)] = Nobody]
    /\ Advance(t)
    /\ UNCHANGED <<libraryVars, threadVars>>

UseData(t) ==
    /\ At(t, "use")
    /\ Advance(t)
    /\ UNCHANGED <<libraryVars, held, threadVars>>

\* start_receiver_thread, initialize_source_thread.  When the thread cannot be
\* created the call fails, and goes to its end, where it releases its lock.
FirstSteps(thread) == IF thread = "recv" THEN ReceiveStart ELSE << >>

StartThread(t) ==
    /\ At(t, "start")
    /\ \/ /\ On(t) \in running
          /\ Advance(t)
          /\ UNCHANGED threadVars
       \/ /\ On(t) \notin running
          /\ running' = running \cup {On(t)}
          /\ alive' = alive \cup {On(t)}
          /\ signalled' = signalled \ {On(t)}
          /\ script' = [script EXCEPT ![t] = Tail(@), ![On(t)] = FirstSteps(On(t))]
       \/ /\ On(t) \notin running
          /\ script' = [script EXCEPT ![t] = <<Last(@)>>]
          /\ UNCHANGED threadVars
    /\ UNCHANGED <<libraryVars, held>>

\* A thread that is not marked as started is not told to end, and the join
\* that follows the unlock is skipped.
SignalThread(t) ==
    /\ At(t, "signal")
    /\ \/ /\ On(t) \in running
          /\ signalled' = signalled \cup {On(t)}
          /\ running' = running \ ({On(t)} \cap {"tick"})
          /\ Advance(t)
       \/ /\ On(t) \notin running
          /\ script' = [script EXCEPT ![t] = RemoveAt(Tail(@), 2)]
          /\ UNCHANGED <<signalled, running>>
    /\ UNCHANGED <<libraryVars, held, alive>>

JoinThread(t) ==
    /\ At(t, "join")
    /\ On(t) \notin alive
    /\ Advance(t)
    /\ UNCHANGED <<libraryVars, held, threadVars>>

\* A callback returns at once, or calls the library first.
CallbackReturns(t) ==
    /\ At(t, "callback")
    /\ Advance(t)
    /\ UNCHANGED <<libraryVars, held, threadVars>>

CallbackCalling(t) ==
    /\ At(t, "callback")
    /\ \E steps \in CallbackCalls :
          /\ steps = MergerCall => call = NoCall /\ Initialized("merger")
          /\ script' = [script EXCEPT ![t] = steps \o @]
    /\ UNCHANGED <<libraryVars, held, threadVars>>

CallApi(t) ==
    /\ script[t] = << >>
    /\ call = NoCall
    /\ \E steps \in NetworkCalls \cup {MergerCall} :
          /\ IF steps = MergerCall THEN Initialized("merger") ELSE Initialized("net")
          /\ script' = [script EXCEPT ![t] = steps]
    /\ UNCHANGED <<libraryVars, held, threadVars>>

(***************************************************************************)
(* The loops of the threads of the library.                                *)
(***************************************************************************)

\* The receive thread cannot make its poll context, and gives up.
BeginReceiving ==
    /\ At("recv", "begin")
    /\ \/ Advance("recv") /\ UNCHANGED alive
       \/ alive' = alive \ {"recv"} /\ Advance("recv")
    /\ UNCHANGED <<libraryVars, held, running, signalled>>

ReceiveLoop ==
    /\ "recv" \in alive
    /\ script["recv"] = << >>
    /\ \/ /\ "recv" \notin signalled
          /\ script' = [script EXCEPT !["recv"] = ReceivePass]
          /\ UNCHANGED signalled
       \/ /\ "recv" \in signalled
          /\ script' = [script EXCEPT !["recv"] = ReceiveEnd]
          /\ signalled' = signalled \ {"recv"}
    /\ UNCHANGED <<libraryVars, held, running, alive>>

ChooseSteps ==
    /\ At("recv", "choose")
    /\ \E steps \in LoopOptions[On("recv")] : Continue("recv", steps)
    /\ UNCHANGED <<libraryVars, held, threadVars>>

\* The receive thread clears its mark; the thread of the sources ends when it
\* was told to and no source is left.
LeaveReceiving ==
    /\ At("recv", "leave")
    /\ running' = running \ {"recv"}
    /\ Advance("recv")
    /\ UNCHANGED <<libraryVars, held, alive, signalled>>

LeaveSources ==
    /\ At("tick", "leave")
    /\ \/ Advance("tick")
       \/ "tick" \in signalled /\ script' = [script EXCEPT !["tick"] = SourceEnd]
    /\ UNCHANGED <<libraryVars, held, threadVars>>

SourceLoop ==
    /\ "tick" \in alive
    /\ script["tick"] = << >>
    /\ script' = [script EXCEPT !["tick"] = SourcePass]
    /\ UNCHANGED <<libraryVars, held, threadVars>>

EndThread(t) ==
    /\ At(t, "end")
    /\ alive' = alive \ {t}
    /\ Advance(t)
    /\ UNCHANGED <<libraryVars, held, running, signalled>>

ReceiveThread ==
    \/ BeginReceiving
    \/ ReceiveLoop
    \/ ChooseSteps
    \/ LeaveReceiving
    \/ EndThread("recv")

SourceThread ==
    \/ SourceLoop
    \/ LeaveSources
    \/ EndThread("tick")

ThreadStep(t) ==
    \/ TakeLock(t)
    \/ ReleaseLock(t)
    \/ UseData(t)
    \/ CallbackReturns(t)
    \/ CallbackCalling(t)

CallerStep(t) ==
    \/ \E fs \in (SUBSET Features) \ {{}} : InitFeatures(t, fs) \/ DeinitFeatures(t, fs)
    \/ StageUp(t)
    \/ StageFails(t)
    \/ StageDown(t)
    \/ CallReturns(t)
    \/ StartThread(t)
    \/ SignalThread(t)
    \/ JoinThread(t)
    \/ CallApi(t)

Next ==
    \/ \E t \in Threads : ThreadStep(t)
    \/ \E t \in Callers : CallerStep(t)
    \/ ReceiveThread
    \/ SourceThread

Spec == Init /\ [][Next]_vars

-----------------------------------------------------------------------------

TypeOK ==
    /\ up \subseteq Stages
    /\ count \in [Features -> 0..MaxCount]
    /\ balance \in [Features -> 0..MaxCount]
    /\ call.kind \in {"none", "init", "failed", "deinit"}
    /\ call.part \subseteq call.features /\ call.features \subseteq Features
    /\ call.kind = "init" => mine \subseteq up
    /\ held \in [Locks -> Threads \cup {Nobody}]
    /\ \A t \in Threads : At(t, "lock") => On(t) \in Locks
    /\ running \subseteq LibraryThreads
    /\ alive \subseteq LibraryThreads
    /\ signalled \subseteq LibraryThreads

\* Between calls a feature that counts as initialized has all its stages, and
\* one that does not has none, whatever stages have failed before and in
\* whatever order the features were initialized and deinitialized.
FeaturesMatchStages ==
    call = NoCall =>
        \A f \in Features :
            ToSet(StagesOf[f]) \cap up = IF Initialized(f) THEN ToSet(StagesOf[f]) ELSE {}

\* How far the counters keep the promise that as many deinits as inits take a
\* feature back (common.c:472), with redundant inits and stages that fail.  No
\* feature goes down too early.  The merger goes down in time.  The network
\* features do so only if they were never initialized again while they were
\* up: a counter that has reached 2 is not lowered any more, as common.c:562
\* asks what is left of the features to deinitialize.
InitsAreBalanced ==
    /\ \A f \in Features : balance[f] <= count[f]
    /\ count["merger"] = balance["merger"]
    /\ count["net"] < 2 => count["net"] = balance["net"]

\* A thread that holds or is about to take a lock, or to use the receivers or
\* the sources, finds their stage initialized, also while the library comes up
\* or goes down around its threads.  (The table of the mergers is left out: a
\* merge receiver uses it whether or not its feature is initialized.)
StagesAreUp ==
    /\ \A m \in Locks : held[m] # Nobody => StageOf[m] \in up
    /\ \A t \in Threads :
          At(t, "lock") \/ (At(t, "use") /\ On(t) # "mergers") => StageOf[On(t)] \in up

Holds(t) == {m \in Locks : held[m] = t}

\* The threads a thread waits for: the one that holds the lock it takes, or the
\* one it joins.
WaitsFor(t) ==
    IF At(t, "lock") THEN {held[On(t)]} \ {Nobody}
    ELSE IF At(t, "join") THEN {On(t)} \cap alive
    ELSE {}

\* No threads wait for one another, on locks or for the end of a thread.
NoWaitCycle ==
    ~\E waiting \in (SUBSET Threads) \ {{}} :
        \A t \in waiting : WaitsFor(t) \cap waiting # {}

\* The locks are nested in one order, and the threads of the library are joined
\* by threads of the application that hold no lock.
Rank == [receiver_cb |-> 1, source_detector_cb |-> 1, merge_receiver_cb |-> 2,
         receiver |-> 3, source |-> 3, merger |-> 3]

LocksAreOrdered ==
    /\ TypeOK
    /\ \A t \in Threads :
          /\ At(t, "lock") => \A m \in Holds(t) : Rank[m] < Rank[On(t)]
          /\ At(t, "join") => t \in Callers /\ Holds(t) = {}

OneUses(data) ==
    \A t, u \in Threads :
        (\A x \in {t, u} : At(x, "use") /\ On(x) = data) => t = u

\* The receivers, with all the receive thread shares with the calls of the
\* application, and the sources are used by one thread at a time.
DataIsLocked == OneUses("receivers") /\ OneUses("sources")

\* create_sacn_dmx_merger, lookup_state and the others (dmx_merger.c) are for
\* callers with the lock of the mergers; the merge receiver calls them without.
MergersAreLocked == call = NoCall => OneUses("mergers")
=============================================================================
