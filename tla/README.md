# A TLA+ model of the sACN library

This directory holds TLA+ specifications of the streaming ACN library in `src/`
(C, with C++ wrappers), the TLC runs that check them on small instances, and
theorems about them checked by TLAPS. It is organised around the parts of the
library that keep state from one packet, tick or call to the next.

Line references such as `receiver_state.c:1404` are to files under
`src/src/sacn/`; `PROJECT.json` maps every definition to its lines.

## 1. Inventory of the system

### Components

| Component | Source | State it keeps | Operations | Model |
|---|---|---|---|---|
| Receiver | `receiver.c`, `receiver_state.c`, `mem/receiver/*` | tracked sources with their timers and receive state, termination sets, suppression flag, sampling flags and timer | data packets, periodic tick, change of universe, networking reset, expired wait | `ReceiverState` |
| Source loss algorithm | `source_loss.c` | termination sets (owned by the receiver) | mark offline, mark online, get expired | `SourceLoss` |
| Sampling periods | `receiver_state.c`, `sockets.c`, `mem/receiver/sampling_period_netint.c` | interfaces of the current and of the future sampling period | begin, end, change of interfaces | part of `ReceiverState` |
| DMX merger | `dmx_merger.c` | levels, priorities and flags of each source; the merged outputs | create, destroy, add and remove source, levels, priorities, universe priority, remove priorities | `DmxMerger`, `DmxMergers`, `DmxMergerLoops` |
| Merge receiver | `merge_receiver.c`, `mem/merge_receiver/*` | its sources with a sampling and a priorities flag, two mergers | the receiver's notifications, create, destroy, change of universe, networking reset | `MergeReceiver`, `MergeReceiverSystem` |
| Source | `source.c`, `source_state.c`, `mem/source/*` | universes, unicast destinations and interfaces with termination states, sequence numbers, suppression counters | pass of the thread or of the application, all calls, shutdown | `SourceState` |
| Source detector | `source_detector*.c`, `mem/source_detector/*` | universe lists being received, page and universe counts, expiry timers | discovery pages, tick, create, destroy | `SourceDetector` |
| Remote source handles | `mem/receiver/remote_source.c` | handles and reference counts per CID | add, remove, look up | `RemoteSources` |
| Sockets and receive threads | `sockets.c`, `mem/receiver/recv_thread_context.c`, `receiver_state.c` | shared sockets with reference counts, queues of subscriptions, unsubscriptions and dead sockets, the poll set | add, remove, (un)subscribe, clean up, the cycle of the thread | `ReceiveSockets`, `ReceiveThread` |
| Network interfaces | `sockets.c`, `mem/source/source_netint.c` | the tested interfaces, the sockets to send with, the interfaces of each user | initialization, networking reset, add and remove users | `NetworkInterfaces` |
| Features, initialization, locks | `common.c`, `mem.c` | counts of initializations per feature, the locks, the two threads | init, deinit, every entry point | `Library`, `LockProfiles` |
| PDU packing | `pdu.c` | none | pack, parse | not modelled |
| Notification buffers, pools | `mem/*` | scratch storage of one step | allocate, grow | as what is captured |
| C++ headers | `src/include/sacn/cpp` | a handle | wrap the C calls | not modelled |

### How they interact

A receive thread (`read_network_and_process`, `receiver_state.c:484`) loops: it
empties the queues of socket work under the receiver lock, waits up to 100 ms
for a packet (`sacn_read`), handles it, and runs `process_receivers` and the
source detector's tick when its periodic timer is over. A packet is looked up by
universe, its receiver is updated under the receiver lock, and the notification
it causes is copied to thread storage and delivered after the lock is released.
The tick does the same for losses and sampling notifications. Application threads
enter through `receiver.c` and take the same lock; a change of networking touches
the receiver, its sockets and its sampling interfaces at once.

A merge receiver is a receiver whose callbacks feed DMX mergers: one for the
output and one for the sources heard while sampling. The receiver and the source
detector share the table of remote sources. The source thread is independent of
all of this and shares only the network.

### Hard behaviours, and what makes each component correct

* **Receiver and source loss.** Two timers per source, a wait for priorities,
  terminations, and a loss algorithm that puts off reporting a loss until the
  other sources have been verified. Correct: what the application believes about
  sources and priorities always agrees with what the receiver tracks; a source
  that returned is never reported lost; a silent one always is, and in bounded
  time; termination sets never overlap and never name a source that is gone.
* **Sampling.** A networking reset or a change of universe can hit a running
  sampling period, in which interfaces wait for the next one. Correct: start and
  end notifications alternate; no interface waits for a period that does not
  come; every interface is sampled for the full time.
* **DMX merger.** An incremental algorithm with a fast path for one source, whose
  result depends on every update having kept the winner of every slot. Correct:
  after any sequence of calls the output is the merge from scratch.
* **Merge receiver.** Notifications applied after the lock was released, sources
  that move between two mergers, and assertions that rely on what the receiver
  reports. Correct: a merger holds only sources whose sampling flag names it, every
  source is in one of them as long as there is room, and no notification names an unknown
  source. (The last two hold for plain data and one universe only; section 5.)
* **Source.** Failed sends that short-circuit others, terminations that are
  cancelled, sequence numbers shared by two kinds of packets, a shutdown that
  must end. Correct: a receiver sees sequence numbers without gaps, every stream is
  ended by three terminations, and the thread ends.
* **Source detector.** Pages that are lost or reordered, and limits in the middle
  of a page. Correct: what is reported is made of consecutive pages, from the first to a
  last one, and what such pages make up is reported. (That they belong to one list is not
  ensured; section 5.)
* **Sockets.** Requests that are queued by one thread and worked off by another, or
  taken back before; one socket that is bound for many. Correct: no socket leaks, counts
  are those of the users, and every listener is subscribed to its universe.
* **Network interfaces.** Tables that are rebuilt by a reset and may fail half way.
  Correct: what is sent on an interface goes through its own open socket, and users
  only have interfaces that work.
* **Initialization and locks.** Nineteen stages that may each fail, redundant inits,
  threads that run while stages go up and down. Correct: stages are up if and only if their
  feature counts as initialized, and no feature goes down before as many deinits as inits
  (that it does go down then fails; section 5); nothing is used without its lock or its stage; locks are
  nested in one order.

`PROJECT.json` lists each hazard with the line where it bites and the
properties that cover it.

## 2. The modules

| Module | Extends | What it is |
|---|---|---|
| `SourceLoss` | | operators on termination sets |
| `ReceiverState` | `SourceLoss` | one receiver, with its properties |
| `ReceiverNotifications` | | abstract: what the application hears of sources |
| `ReceiverEvents` | | abstract: the receiver as the merge receiver sees it |
| `ReceiverDeadline` | `ReceiverState` | history: how long each source has been overdue |
| `ReceiverSampling` | `ReceiverState` | history: how long each interface was sampled |
| `SequenceNumbers` | | the comparison of sequence numbers |
| `DmxMerger`, `DmxMergers`, `DmxMergerLoops` | | one merger; its creation and destruction; its candidate scans as the loops of the code |
| `MergeReceiver` | | the handlers of a merge receiver, as operators |
| `MergeReceiverSystem` | `ReceiverEvents`, `MergeReceiver` | a merge receiver on top of its receiver |
| `MergedSources` | | abstract: what a merge receiver promises of its merge |
| `SourceState` | | one source, with its universes and destinations, and the source thread |
| `RemoteSources` | | handles with reference counts |
| `SourceDetector` | `RemoteSources` | the source detector, next to a receiver |
| `ReceiveSockets` | | the context of a receive thread, as operators |
| `ReceiveThread` | `ReceiveSockets` | receivers, the detector and the receive thread |
| `NetworkInterfaces` | | tested interfaces, sockets to send with, and users |
| `LockProfiles`, `Library` | | what every entry point does with the locks; the life of the library |
| `MC*` | the above | symmetry and helper definitions for TLC |
| `ReceiverStateProofs`, `DmxMergerProofs`, `MergeReceiverProofs`, `SourceStateProofs`, `SourceDetectorProofs`, `ReceiveThreadProofs`, `NetworkInterfacesProofs`, `LibraryProofs` | the above | theorems |

The composition goes by refinement where a whole product would be too large:
`ReceiverState` is shown to implement `ReceiverEvents`, and `MergeReceiverSystem` is built on
`ReceiverEvents` and shown to implement `MergedSources`.

### `SourceLoss` and `ReceiverState`

The state is the `SacnReceiver` structure, one variable for each field whose
value outlives a step, plus four variables for what the application has been
told: `reported` (sources whose data it has), `pap_held` (sources whose
priorities it has), `app_sampling`, and `lost`, the last `sources_lost`
notification. Those four are history: no guard reads them.

| Action | Code |
|---|---|
| `TerminatedPacket`, `OutOfSequenceOrOther`, `NullStartCode`, `PapPacket` | `handle_sacn_data_packet` for a tracked source, with `mark_source_terminated`, `check_sequence`, `process_null_start_code`, `process_pap` |
| `NewSource`, `NoRoomForSource` | `process_new_source_data`, `add_sacn_tracked_source` |
| `Tick` | `process_receivers`: sampling period, `check_source_timeouts`, the source loss algorithm, erasing and notifying |
| `Elapse` | time: every timer ages by one unit |
| `ChangeUniverse` | `change_sacn_receiver_universe` |
| `ResetNetworking` | `sacn_receiver_reset_networking`, with `update_sampling_period_netints` and `terminate_sources_on_removed_netints` |
| `SetExpiredWait` | `sacn_receiver_set_expired_wait` |

An action holds the receiver lock of the code from start to end, so actions are
atomic. Abstractions:

* A timer is what is left of its interval. Real times (loss timeout 2500 ms, PAP
  wait and sample time 1500 ms) become constants in units.
* Sequence numbers are left out. Whether a packet is in sequence is a choice: an
  untimely packet is `OutOfSequenceOrOther`, which still moves the source to
  another interface, as the code does before it checks the sequence.
* Packets of the network carry a source, an interface, a start code, and the
  `Stream_Terminated` and `Preview_Data` bits. A packet that is dropped without
  effect is no step.
* The linked list of termination sets is a set of records. That is sound because
  no operation depends on the order: a source is a member of at most one set, which
  is itself checked and proved (`TermSetsOK`). The order of the tree of sources
  decides which offline source takes the unknown ones in; it is the choice
  `first` of `Tick`.
* There is one receiver (several are in `ReceiveThread`); the footprint, names,
  addresses and failures of allocation are left out.
* `SetExpiredWait` takes any of the `ExpiredWaits`, which are ages in units too.

### `ReceiverNotifications`, `ReceiverEvents`

`ReceiverNotifications` has three variables and says what the callbacks of
`receiver.h` promise: a source is reported lost only after its data was given,
once, and its priorities go with it. `ReceiverState` implements it with its
history variables as the state (`ImplementsNotifications`).

`ReceiverEvents` leaves out timers, sequence numbers and termination sets; what
depends on them may happen at any time. It keeps what the merge receiver depends on:
the interface of each source, whether it waits for priorities, the source limit, and the sampling
period. The
refinement (`ImplementsEvents`) is checked for every reset and change of universe, and proved.

### `SequenceNumbers`

`check_sequence` (`receiver_state.c:1236`) compares 8-bit numbers as integers. The receiver
leaves open which packets are in sequence; theorems in `ReceiverStateProofs` say which are, for
all numbers.

### `DmxMerger`

The state is the `source_state_lookup` tree and the outputs. The actions are the
API calls: `AddSource`, `RemoveSource`, `UpdateLevels`, `UpdatePap`,
`UpdateUniversePriority`, `RemovePap`, each with all the helper functions it runs,
under the merger lock. Slots are treated by the code in loops whose passes do not
read each other's results, so each output is a function of the slot.

* The candidate scans (`merge_new_priorities`, `update_levels_multi_source`) are
  stated as a choice, the first of the best; `DmxMergerLoops` states the loops, and
  `ScansAreLoops` that they end with that choice.
* The fast path with a single source and its exceptions (`CopyLevel` does not
  write the owner of slots that existed before) are kept.
* `DmxMergers` adds creation and destruction and the checks of the calls; the outputs are
  the application's buffers, which hold anything before and keep their content after.
  Mergers share no state, so one stands for the table. Absent output buffers are left out.

### `MergeReceiver` and `MergeReceiverSystem`

The state is that of `SacnMergeReceiver`: its sources with their flags, and its two mergers.
By `OutputIsMerge` of `DmxMerger` the output of a merger depends on what its sources sent last
and on nothing else, so a merger is the function from its sources to that. A merger refuses a source
when it has `source_count_max` of them (`AddTo`; `add_source`, `dmx_merger.c:713`), and no caller looks
at the result: a new source that was refused is in no merger, and a sampled one leaves the sampling merger all the
same (`Entering`, `SamplingEnded`). With static memory the limit of the mergers may be larger than the
receiver's, otherwise they are the same (`LimitAssumption`).

| Action | Code |
|---|---|
| `ReceivePacket`, `ThreadTick` | the receiver handles a packet or a tick and captures the notifications, under the receiver lock |
| `Deliver` | the next captured notification: `merge_receiver_universe_data`, `_sources_lost`, `_sampling_started`, `_sampling_ended`, `_pap_lost` |
| `Callback` | the merged data callback, outside the lock |
| `ChangeUniverse`, `ResetNetworking`, `Create`, `Destroy` | the calls of the application, between any two of these |

The properties about plain data take one universe, because a notification that was captured
before a change of universe is delivered after it (section 5).

### `SourceDetector` and `RemoteSources`

`Page` is `handle_sacn_universe_discovery_packet` with all of `process_universe_discovery_page`;
any page of any list may come at any time, so pages are lost, repeated, late, and the
lists change. The history `heard` is what came since the last page 0 without a gap, be the pages
of one list or of several, as the code does not look at more than their numbers. The
underflow of the comparison after the limit (`universe_discovery_source.c:201`) is a
choice of the result, since it reads past the list. A receiver takes and drops references on
the same handles.

### `ReceiveSockets` and `ReceiveThread`

The operators take the thread context with its sockets, and what the system knows of them
(open, joined groups, poll set), and return what becomes of it. `ReceiveThread` has the calls of
the application, each under the receiver lock, and the cycle of the thread
(`read_network_and_process`): subscriptions and unsubscriptions, dead sockets, pending sockets.
Sockets that cannot be created, threads that do not start, poll contexts that cannot be
initialized and reads that fail are included. `broken` are receivers whose call failed:
the documentation demands that they be destroyed. `SACN_RECEIVER_SOCKET_PER_NIC` is 0, and there is
one receive thread. The loops over the dead sockets and over the receivers are recursive
functions. A reset takes the receivers in the order of their tree, which is left open (`order`), and
takes them in the same order when it adds their sockets again.

### `NetworkInterfaces`

The list of interfaces with the result of their test is rebuilt by initialization and by
every networking reset; the list a user takes is derived from it. Each test may fail or
succeed, opening a socket may fail at any point, and handles of sockets are used again. A
behaviour is that of sources, receivers or the detector: the lists share nothing.

### `Library` and `LockProfiles`

Every entry point and thread is a sequence of steps: take or release a lock, use shared data,
call back, start, signal or join a thread. The threads of the application and the two of the library
take such steps one at a time, so all interleavings are there. Initialization and
deinitialization are the stages of `common.c` in their order, each of which may fail, after which
those before are taken down. A callback calls neither destroy, which would wait for it, nor create; while a
feature goes up or down it makes no call of a merger either. `common.c:476` asks the application to be done
with the library by then, and a model without these limits would check what it excludes.

### `SourceState`

The state is that of `SacnSource`: the universes, with their termination states,
sequence numbers and suppression counters, their unicast destinations in order,
the count of active universes and the reference counts of interfaces. `thread` is
what the source thread does next, `shutting_down` the flag of the same name.

| Action | Code |
|---|---|
| `ThreadProcesses`, `ThreadDiscoveryFails`, `ThreadIdles` | one `process_sources` of the thread, for levels or for PAP: it gets to the universes, fails in universe discovery before them, or finds no source of its own |
| `ThreadChecks` | the end of the loop in `source_thread_function` |
| `ProcessManual` | `sacn_source_process_manual`, in its three modes |
| `CreateSource`, `DestroySource`, `ChangeName` | the functions of these names |
| `AddUniverse`, `AddUniverseFails`, `RemoveUniverse` | adding (also over a universe that is being removed, and when none of the interfaces works) and removing |
| `AddUnicastDestination`, `RemoveUnicastDestination` | the same for destinations |
| `UpdateLevels`, `UpdateLevelsAndPap`, `UpdateLevelsAndForceSync`, `UpdateLevelsAndPapAndForceSync`, `EndLevels` | the four update functions; `EndLevels` is any of them without levels |
| `ChangePriority`, `ChangePreviewFlag` | a change of the priority or of the preview flag |
| `SendNow` | `sacn_source_send_now` |
| `ResetNetworking` | both networking resets |
| `ShutDown`, `Restart` | `sacn_source_state_deinit` up to the join; what follows the join, and the next initialization |

A pass (`EndPass`) is one action, since the source lock is held throughout. For one
universe it is `ProcessUniverse`: unicast terminations (`UnicastTermination`), then
levels and PAP (`Transmit`) or the multicast termination
(`MulticastTermination`), and the increment of the sequence number
(`Outcome`).

* Sends fail by target and kind of packet: `fail` is any set of at most
  `MaxFailures` of the sends a pass may try. The order in which the code gives up
  is kept: a failed unicast termination keeps the universe from sending in that
  pass; a failed multicast packet keeps back its unicast copies, and failed levels
  keep back PAP; a failure in a pass for PAP only blocks the universes above it,
  because `all_sends_succeeded` is not assigned anew for each universe there
  (`source_state.c:309-325`).
  Terminations and packets before suppression are counted when they are tried, not
  when they succeed.
* The `*_sent_this_tick` flags live within one pass or one `SendNow` and
  are what `IncrementSequenceNumber` reads off the packets sent. After a universe is
  removed, the code increments whatever has moved into its place
  (`source_state.c:325`); that universe was processed before and its flags
  are clear, so nothing happens.
* The keep-alive timers may be over in any pass in which they are looked at.
  Universe discovery may fail when there is something to send; the interval of ten
  seconds is much longer than a pass, so it does not fail again before the levels
  have been processed once.
* `wire` is history: the number that the receivers of a universe expect next,
  whether all numbers so far came in order, and how many terminations each target
  is `owed`. A packet with data makes that `TerminationsRequired`, each termination tried
  takes one off. A universe added over one that is being removed starts a new history. A target
  taken away by a networking reset is forgotten, and so is what a
  destination is owed when it is removed and added again while
  the transmission of its universe ends: it is then not terminating, and gets no
  terminations (`source.c:448`).
* A source that is created after the thread's pass for PAP, followed by a shutdown
  before the thread looks at `shutting_down`, is not seen by the thread, which ends
  and leaves it. The model has this; no data of such a source has been sent.
* There is one source. Several sources, the pages of universe discovery, the
  statistics log, failures of allocation, networking resets that fail (after which the
  documentation demands that sources be destroyed) and the contents
  of packets are left out.

## 3. What the runs check

| Run | Bounds | Shows |
|---|---|---|
| `receiver_loss` | 3 sources, 0x00 data | `TermSetsOK`, `LossDeadline`, `LostAreSilent` |
| `receiver_pap` | 3 sources, room for 2, all start codes, resets and universe changes | `AppIsInformed`, `ImplementsNotifications`, `ImplementsEvents` |
| `receiver_sampling` | 2 sources, room for 1, 2 interfaces, resets and universe changes, preview data filtered, fairness | `AppHoldsTracked`, `SamplingIsConsistent`, `SampledInFull`, `LimitToldOnce`, `SilentSourceIsForgotten`, `ImplementsEvents` |
| `merger_three` | 3 handles, 1 slot, levels 0..2, priorities 0..2 | `CreatedStorageOK`, `CreatedOutputIsMerge`, `CreatedPrioritiesAreExact`, `ScansAreLoops` |
| `merge_receiver` | 3 sources, of which the receiver and each merger take 2, 2 interfaces; networking resets, or universe changes with other data, or preview data | `MergersMatchFlags`, `SourcesAgree`, `ShownIsCurrent`, `HiddenOnlyWhileSampling`, `ImplementsMergedSources` |
| `source_tick` | 1 universe, 1 interface, 1 destination, 1 failed send in a pass, both ways of processing, fairness | `UniverseStatesAgree`, `CountsAreExact`, `SequenceUnbroken`, `NoStreamLeftOpen`, `TerminationsEnd` |
| `source_detector` | 2 sources, room for 1 source and 3 universes, 6 lists of up to 3 pages, fairness | `FoundAgree`, `ReportsAreConsecutive`, `HandlesAreKept`, `SilentSourceExpires` |
| `recv_sockets` | 2 receivers and the detector, 3 sockets, 2 listeners on a socket, both IP types | `SocketsAreAccounted`, `BoundIsPolled`, `ListenersListen` |
| `netints` | 2 interfaces, one with 2 addresses, 2 users, all kinds | `SendSocketsAgree`, `UsedAreUsable` |
| `library` | 1 application thread, both library threads, features initialized up to three times | `FeaturesMatchStages`, `InitsAreBalanced`, `StagesAreUp`, `LocksAreOrdered`, `DataIsLocked` |
| `recv_universe_change`, `mergers_unlocked` | as `recv_sockets` and `library` | the disagreements of section 5 |

Several names join what belongs together: `AppIsInformed` is `AppHoldsTracked` with its
converse, `UniverseStatesAgree` the types with the states of destinations and
priorities, `FoundAgree` the types with what the application was told and the reference counts,
`LocksAreOrdered` the types with the order in which locks are nested.

### Bounds

* Three sources are what the loss algorithm needs: one that is lost, one that is
  unknown and joins its termination set, and one more whose own set overlaps in
  time. Properties about one source and the application need two.
* `MaxTickDelay` bounds the time between two ticks. It is one unit and smaller than
  `SampleTime` where sampling is looked at: the first tick comes before the first
  sampling period is over (120 ms against 1500 ms). A tick that is later delivers
  the end of the period before its start; `SamplingViewOK` depends on this
  assumption, which the code makes likely and does not ensure.
* In `receiver_loss` a packet timer of 2 and a wait of 1 put ticks both between
  and after the two deadlines. `receiver_pap` has timers of one unit: the PAP wait, the loss
  of PAP and the loss of the source may all be over at one tick, or apart, as packets restart
  them at different times; with room for two of the three sources the limit is hit and left.
* Two interfaces allow a source to move, an interface to be removed while the
  other stays, and one to wait while the other is sampled.
* `merge_receiver` takes three scenarios apart, since the properties that need one universe
  and plain data hold in the first only: networking resets; or universe changes and other
  start codes; or preview data. Three sources and a limit of two let a source that the receiver
  has forgotten fill a merger next to one it tracks, so that a third is refused, when it is new or
  when the sampling ends; both happen in the second scenario.
* Of the lists of `source_detector` two have two pages that mix: page 0 of one goes on with page 1 of the
  other to a list that nobody sent.
* Three initializations of a feature in `library` let one be initialized again after a redundant
  initialization was given up.
* Three listeners and two on a socket make the sockets of one IP type be shared, and be full;
  three sockets let one fail to be created. `MaxQueued` is how many requests wait for the
  thread when the application queues more. The lists of interfaces are IPv4 alone and both
  types; the empty list, which gives no sockets, is left to the definition.
* In `netints` the system lists none, one or both interfaces, and one of them with two
  addresses, which is tested for each; `MaxAbandoned` sockets may be half made and lost. Handles
  have no bound: a new one is below the number of open sockets, plus two.
* A second application thread adds to `library` calls on the same locks as the first; the
  theorem `OrderExcludesCycles` is about any number of threads.
* Three handles are the least for a scan with two candidates; level and priority
  values need one that beats and one that ties. A slot is merged without a look at the
  others, so one slot, with level and priority counts of 0 and 1, is enough; the
  theorems are about any number. The merger has no bound on the number of
  operations: its state is finite.
* Sources (and interfaces) are interchangeable, so symmetry sets are used, except
  for liveness. The handles of the merger are ordered and get none.
* In `source_tick` one universe is enough for what a pass for levels does,
  in which universes do not depend on each other; a failure in a pass for PAP also
  blocks the universes above, which the theorems cover. Two terminations instead of
  three leave room for one that fails and one that does not; one packet before
  suppression has both sides of the comparison; with three sequence numbers a step
  of one, a step of two and none are told apart, also across the wrap-around.
  `MaxDests` bounds the destinations of a universe, `MaxFailures` the failed sends
  of a pass.
* The age of an interface in `ReceiverSampling` stops at `SampleTime`.

### Fairness

`FairSpec` assumes weak fairness of `Elapse` (time passes) and of `Tick` (the receive
thread loops; it waits for packets with a timeout of 100 ms, so it comes back to
its periodic timer whatever the network does). Nothing is assumed of packets:
sources may send or be silent for ever. The liveness property quantifies over the
sources whose packets stop.

`FairSpec` of `SourceState` assumes weak fairness of the steps of the source thread, which
loops with sleeps of 23 ms as long as it is there. Nothing is assumed of the
application, of the timers or of sends: any send may fail, up to `MaxFailures` in one
pass and in any number of passes.

`FairSpec` of `SourceDetector` assumes that timers run out and that the receive thread comes
back to its periodic work. It is used for sources that fall silent only.

## 4. What is proved

The theorems hold for every value of the constants allowed by the assumption of their
module, such as `ReceiverAssumption` and `MergerAssumption`: any number of sources, interfaces, slots, levels, and any timer
intervals. Those about the source hold under `SourceAssumption`, for any number of
universes, destinations, interfaces, terminations and sequence numbers.

**Merger** (`DmxMergerProofs`). `MergersStorage`, `MergersOutput` and `MergersPriorities`, for
mergers that are created, used and destroyed, follow from an inductive invariant that holds
while the merger exists and says that it has no sources while it does not.
`OutputIsMerge` alone is not inductive: the scan for a new winner by
level compares the levels of candidates without looking at their level counts,
which is right only because levels beyond a count are zero (`LevelsEnd`). The
priorities beyond the level count, on the other hand, do not matter. The core of
the argument is `BestExists`: among the candidates of a slot there is one of the
highest priority and, of those, of the highest level, so the scan ends with a
source nobody beats (`ScanResult`, `ScanLevelsResult`). From there
`MergePriorityCorrect` and `MergeLevelCorrect` show that each incremental step on
a slot leaves it merged if it was merged before. `MergersScansAreLoops` compares that choice with the
loops of the code. Both are characterised without their order: `IsWinner` and `IsTop` say
what a result is among a set of candidates, at most one output satisfies each
(`WinnerIsOne`, `TopIsOne`), the choice satisfies it for all candidates, and a pass of the loop
takes it from the candidates below a handle to those up to it (`WinnerNext`, `TopNext`). A handle
at which it fails would be a least one.

**Source loss** (`ReceiverStateProofs`). `MarkOfflineSound` and `ExpiredLeave` say what
the operators do to termination sets that are sound (disjoint, not empty, made of given
sources). They are used for the tick.

**Receiver** (`ReceiverStateProofs`). The inductive invariant is `IInv`, made of
`Core` and `Misc`. `Core` says that the sources have their types, that
the termination sets are sound with respect to the sources past the PAP wait and
that each offline member is silent or was heard since the last tick, and that the
application holds only what is tracked. From it follow `ReceiverTypes`,
`ReceiverTermSets`, `ReceiverOfflineSilent`, `ReceiverAppHoldsTracked` and
`ReceiverLostAreSilent`. With the bound on the number of tracked sources
(`WithinLimit`) it gives `ReceiverLimitToldOnce`. Adding `Told`, the converse about what the application
was told, gives `ReceiverAppIsInformed` and the refinement
`ReceiverImplementsNotifications`, both under the assumption that preview data is not
filtered: with the filter, sources are tracked and reported lost of which the
application has never heard, and the two statements are false.
`ReceiverImplementsEvents` needs no such assumption: of a tracked source `ReceiverEvents`
sees the interface, whether it waits for PAP and whether it has priorities (`View`). A packet
is an event there according to what becomes of the receive state (`PacketEvents`),
a tick drops the sources that are lost or erased, and ageing, terminations and a change of the
expired wait are not seen. So what is shown of the merge receiver on top of `ReceiverEvents` is about the
receiver as it is, for any timeouts.
`ReceiverSamplingConsistent` (`Sampled`) needs ticks closer than the sample time: a period whose
start was not notified cannot have ended then. `ReceiverSampledInFull` adds the ages of
`ReceiverSampling` (`AgesFit`): what an interface has been sampled and what is left of the timer
make up the sample time. `ReceiverLossDeadline` is about the history of `ReceiverDeadline`; its invariant
(`Timely`) says that a source marked offline, while it waits for its set or for a member that has
not been heard, is due by so little that the timer it waits for ends within the deadline
(`Spare`). The wait of a set is never started again, and the timer of a member only when it
is heard, after which the next tick takes it out of the set. It is assumed that
the waits have a longest one (`Bounded`); the code has them in 32 bits.

**Source** (`SourceStateProofs`). `SourceSequence`, `SourceCounts` and `SourcePapNeedsLevels` follow from the invariant `IInv`: every universe has its type
and priorities only with levels, the counters are exact, and each universe is in
step with what has been sent for it (`InSequence`). `SequenceUnbroken` is not
inductive, because it does not say that the numbers packed in the two send buffers are
the next one when a pass begins (`source_state.c:506`). `ProcessUniverseStream` shows that
whatever a pass sends for a universe, the packets are numbered by one scheme
(`Numbered`), and `IncrementKeepsUp` that the increment keeps up with it. Nothing about the
destinations is needed, so these proofs hold whatever they are. Removals of many universes
in one pass are covered by counting lemmas (`RefsWithout`, `RefsSame`).

`SourceNoStreamLeftOpen` and `SourceStatesAgree` need the destinations, and the second
invariant `SInv`. That a target in the middle of a stream has a universe with levels is not inductive: the
universe must also have enough terminations left to send to it. `Covered` says so: whatever a target is owed is
still to be sent by its universe or by a destination with its address, which
either transmits, and then starts with all of the terminations, or has sent so few of them that the rest suffices (`Serves`).
`UnicastSettles` and `MulticastSettles` show that a pass that tries to send counts one termination
where it takes one off, and that a universe is finished only when nothing is owed; `TransmitServes` that new data
goes to those that transmit only; `TerminatingSettles`, `CancelSettles`, `AdditionSettles` and
`NetintsSettle` that the calls lose nobody. For the shutdown, `SInv` says that nothing is owed when the thread
is gone, or about to go because its last pass found no source (`IsIdle`). It is assumed
that interfaces and destination addresses are different targets.

**Library** (`LibraryProofs`). `LibraryInitsAreBalanced`: no feature goes down
before as many deinits as inits, through all stages that fail; the merger goes down with the last of them,
and so do the network features until they are initialized redundantly. The invariant
adds that a call in progress is about a part of its features, and that a deinit takes down those
whose count is still 1 when it returns. `OrderExcludesCycles`: if locks are
nested in their order and threads are joined without locks, no set of threads waits for each
other, however many there are.
The other properties are theorems too (`LibraryFeaturesMatchStages`, `LibraryStagesAreUp`,
`LibraryLocksAreOrdered`, `LibraryDataIsLocked`), and with them `LibraryHasNoWaitCycle`. None is inductive:
what makes the next step of a thread right is the whole of what it did before and has yet to
do. The invariant `LibraryInv` therefore gives each thread a position (the locks it holds, the stages it may
rely on, the threads it has asked to end or seen end) and says that the rest of its
script leads from there to a goal in steps that fit (`Leads`, `Fits`), and that what the
position says is so. The lemmas in the first part of the module are about scripts alone: that the
profile of each call, each pass of the two threads, `UpAll` of any features and `DownAll` of any stages
that came up lead where they should (`CallsFit`, `PassAttended`, `UpAllLeads`, `DownAllLeads`).
Those in the second are about steps: one for each action, most of them from `ThreadMoves`, or
`CallMoves` for an init or deinit, which say what a thread that moves owes to the others. A thread of the
library ends only for a call that waits for it (`EndsForCall`), so that a join, and with it a stage
that is taken down, meets no thread that is still at work.

**Receive thread** (`ReceiveThreadProofs`). `ReceiveThreadSocketsAccounted`,
`ReceiveThreadBoundPolled` and `ReceiveThreadListens` hold for any number of receivers, universes,
interfaces, sockets and subscriptions per socket, with `LimitBind` or without. They are not
inductive: in the middle of a call the table and the listeners disagree, and a socket that is bound anew
must be polled by a thread that may not have seen it. So the lemmas are about contexts and not about states:
`Fits(c, D, U, A)` says of a context with the dead sockets `D` and the abandoned sockets `A` that its table, what is
open and what is bound fit the users `U`, each of which names its socket of an ip type. There is one lemma for each
function of `sockets.c` and `receiver_state.c`, from `DropFits` and `RaiseFits` (a reference more or
less, and so a user) to `RemoveFits`, `AddFits` and `WorkOffFits` (a whole call, and a cycle of
the thread). `CloseFits` is the one with the bound sockets: where the one that is closed was bound, a
successor is, and it is polled if the thread has seen it. `Polled` adds that while there is no thread all sockets
are new. For `ListenersListen`, `Listening` says of the two queues that a request is in one of them or
joined, that none is twice in a queue, and that what is to be left has been joined; without the last two a request
that is taken back (`QueueListens`, `UnsubscribeListens`) would not leave what was wanted before. The
invariant `Inv` puts these together for the listeners, and adds that nothing
is left of them while the library is not initialized: `LeftOpen` shows that the shutdown then leaves open
only what the detector had and, where no thread ran, the dead sockets; none of them can be given again. A loop over the dead sockets or over the
receivers is right because its first pass that is wrong cannot be (`DeadSocketsClosedFits`,
`RemoveAllFits`, `AddAgainFits`).

**Network interfaces** (`NetworkInterfacesProofs`). The operations of `sockets.c` transform a
record of the list, the tables of sockets and what is open. `Agrees` says of such a record that
every interface is listed once, that the table of sockets is parallel to the list, each socket
open for its interface, and that the open sockets are those of the tables and those abandoned,
never both; the last makes sure that a handle used again is in no table. `Agrees` holds after
each interface that is tested (`TestAgrees`), so after all of them (`ApplyAgrees`, by induction
over the list), after the sockets for unicast are made or have failed (`InitUnicastAgrees`), and
after the networking is cleared. The invariant `NInv` adds that no user has an interface twice,
also when a reset has failed: a universe that is being removed keeps its interfaces through a
reset that succeeds. From it follow `NetworkInterfacesSendSocketsAgree` and
`NetworkInterfacesUsedAreUsable`. They assume of the system's lists and of the configurations only
that they are lists of interfaces.

**Sequence numbers** (`ReceiverStateProofs`, about `SequenceNumbers`). No packet is refused because up to 235 before it were
lost (`AcceptedAfterLoss`); one that is repeated or up to 19 late is refused if the numbers have
not wrapped around in between (`RefusedWhenLate`), and accepted if they have
(`AcceptedWhenLateAfterWrap`).

**Merge receiver** (`MergeReceiverProofs`). `MergersOK` says that the two mergers have
only sources whose sampling flags name them, and with the types of what is captured (`MInv`)
it is inductive. There is one lemma for each handler, which shows that it keeps `MergersOK` and is a
step of `MergedSources`; the refinement `MergeReceiverImplements` follows, for any limits.
`MergeReceiverMergersMatchFlags` says more with plain data and one universe, that no source is left out. That needs the
limit of the receiver: its invariant (`LInv`) adds that the receiver's sources are within its limit, so those of the
merge receiver are within the limit of the mergers, as they are among them (`AInv`, from the proof of
`MergeReceiverSourcesAgree`) while a packet is delivered. A source that is added then finds room in either merger
(`FewerFit`, `DataFits`), and so do all that move when the sampling ends (`EndFits`). For `MergeReceiverHidesWhileSampling` what waits to be
delivered counts (`CapturedTogether`): the notifications captured at one time are those of a packet or those
of a tick, and those of a packet of a sampled interface wait only while the period is running.
For `MergeReceiverShowsTheMerge` each handler is shown to notify or to leave the merge as it
was (`ToldOrSame`).
`MergeReceiverSourcesAgree` compares sets: the sources and priorities the receiver has announced
(`Announced`, `WithPap`) with those of the merge receiver (`Merging`, `MergingPap`). Its invariant
(`Pending`) says that what is left to deliver makes the two agree: the data of a packet, perhaps
after a loss of its PAP, or a loss at the end of a tick's notifications. It needs `UsePap`, since
without priorities the merge receiver ignores their loss (merge_receiver.c:1005).

**Source detector** (`SourceDetectorProofs`). `DetectorHandlesCounted` and
`DetectorHandlesAreKept` follow from `HInv`, the exact counts and distinct handles. The core
is `NextHandleIsFree`: a source without a handle leaves one free by counting (`FreeHandle`), and
the search from the counter finds the first free one, across the wrap-around.
`DetectorReportsAreConsecutive` and `DetectorFoundAgree` hold for lists of any length in pages of at
most `SACN_MAX_UNIVERSES_PER_PAGE` universes. That a report is what came is not inductive: a page that
changes nothing is not stored, and the limit may cut a list in the middle of a page. Their invariant `DInv` says that
while pages come without a gap, what is kept of a source begins with what came, cut to the
limit (`Follows`, `Begins`), whether it was stored now or had been there before, and that the
application knows what is not marked as changed (`IsTold`). `ReplacedIs` and `UnmodifiedIs` are the two
cases of a page: in both the universes of the source begin with the list so far, and at the last page
they are that list. Between them lies the read behind the end of the list in
`page_modifies_universe_list`, whose outcome does not matter to either.

**Only model-checked.** Liveness (`SilentSourceIsForgotten`, `TerminationsEnd`,
`SilentSourceExpires`) is out of the prover's reach, and so is everything about ENABLED. What the two
runs of section 5 refute is no theorem. Every invariant and every action property of the
passing runs is one. A recursive function, as in `ReceiveThread`, `NetworkInterfaces` and
`DmxMergerLoops`, is within reach when a set of numbers stands for
the statement: one that fails at some place of the list fails at a least one (`LeastNumber`).

## 5. Where code and documents disagree

Two are the counterexamples of runs.

1. `recv_universe_change`: `sacn_receiver_change_universe` stores the new universe before
   the sockets are removed (`receiver.c:679`), so the receiver asks to leave the group of the
   new universe; the subscription that follows only takes this back (`sockets.c:962`). A
   receiver that shares its socket never joins the new group and stays in the old one.
2. `mergers_unlocked`: a merge receiver uses the table of mergers under the receiver lock, the
   functions of `dmx_merger.c` under their own. The two may run at once.

The others were met while modelling. The model does what the code does.

*Receiver.*
* A source that is erased while it waits for PAP makes room below the limit but does
  not lift the suppression of the limit notification (`receiver_state.c:1469`), unlike
  `docs/pages/using_receiver.md:409`.
* When two sources time out at one tick, only the termination set of the first takes in the
  unknown sources (`source_loss.c:225`), against `docs/pages/source_loss_behavior.md:30`.
* A termination set keeps its first wait when the source that started it returns and another
  member goes offline later (`source_loss.c:283`, and `receiver.c:556`).
* A change of universe during a sampling period does not start another
  (`receiver_state.c:429`); the started notification that `receiver.c:258` announces does not come.
* A notification captured before a change of universe is delivered after it.
* A source of other start codes may vanish without being reported lost; one that sends
  priorities only loses them at the end of sampling.
* `check_sequence` accepts a late packet after the numbers wrapped around
  (`AcceptedWhenLateAfterWrap`).
* `update_sampling_period_netints` removes interfaces without looking at their status.
* A networking reset stops at the first receiver that fails (`receiver.c:385`).

*Merge receiver.*
* A source of which only preview data came may be reported lost and hits the
  assertion at `merge_receiver.c:759`; a captured notification that is delivered after a change of
  universe adds a source of the old one.
* Such a source of the old universe, or one of other start codes that vanished (see above), is never
  reported lost: it stays in the merge receiver and takes up room in a merger that the receiver does not count. With a
  `source_count_max` the merger may then be full when the receiver still takes a source. The new source
  becomes a source of the merge receiver but is in no merger, since `merge_receiver.c:650` ignores the error of
  `add_source` (`dmx_merger.c:721`): its levels are never merged. At the end of sampling
  `merge_receiver.c:908` ignores it too, and the source is removed from the sampling merger (`merge_receiver.c:920`)
  and is in neither. A source that is left out while it is sampled makes the assertion at
  `merge_receiver.c:906` fail. `MergersMatchFlags` holds as it is stated because it
  asks for no source to be left out only with plain data and one universe.
* Data of a merged source that is heard on an interface being sampled is dropped,
  against `merge_receiver.h:106`.
* Its creation checks the network features only, although it uses mergers; the stage of the
  mergers may go down while the receive thread runs.

*Source.*
* `add_sacn_unicast_dest` never looks for the address it adds
  (`mem/source/unicast_destination.c:40`); the caller is written for it to be filtered
  (`mem/source/source_universe.c:138`), and an address given twice is sent to twice.
* Both networking resets of sources ignore the result of `sacn_sockets_reset_source`
  (`source.c:1064`), against `source.c:1036`.

*Source detector.*
* The comment at `source_detector_state.c:290` speaks of a complete set of consecutive pages, and the code compares
  the numbers of pages only. When a source changes its list and pages are lost, page 0 of the old list and
  page 1 of the new one are reported together as a list that was never sent, if it is in ascending order (with the lists of
  the run `<<1>>, <<4>>` and `<<1, 2>>, <<3>>`, the list 1, 3). The next complete list puts it right.
* `source_updated.handle` is never set. A destroyed detector leaves its sources to the next one.
  A list over the limit is notified in every cycle, and the suppression is not lifted when
  no universes were notified before. The application is told of the expiry of sources that were
  never reported. After the limit the count of universes left underflows
  (`universe_discovery_source.c:201`).

*Sockets and interfaces.*
* Deinitialization leaves the sockets of a detector open, and dead sockets if the thread
  was never started. A read error takes a socket out of the poll set for good. A thread whose
  poll context fails counts as running. Adding sockets for no interfaces reports success
  (`receiver_state.c:693`).
* The sockets to send unicast with leak when their timeout cannot be set (`sockets.c:569`). The
  status an application is given of an interface with two addresses may differ from the list's. A
  reset of receivers with `no_netints` makes those with the default configuration fail.

*Initialization.*
* Features go back to an uninitialized state "if deinit is called as many times as init" (`common.c:472` and
  `common.c:487`, also `common.c:63`). The merger does. For the network features `common.c:562` asks
  `features_to_deinit`, which they have been taken out of unless their count is 1 (`common.c:507-511`), where the
  comment at `common.c:557` wants `features`: a count of 2 is not lowered by any number of deinits, so that after
  a redundant initialization the network features, with their threads and sockets, never go down.
  `InitsAreBalanced` states how far the counts are right. The log parameters are gone after any deinitialization
  (`common.c:555`).

## 6. What is not modelled

* `pdu.c`, the notification buffers and pools, and the C++ wrappers keep no state that a
  specification could be about: byte layouts, scratch storage of one step, and calls that are
  passed on. The buffers appear as what is captured under a lock and delivered after it.
* Failures of allocation, everywhere. They end a step early and are reported; with
  static pools they are the limits that are modelled.
* Several sources and their manual groups, the pages of universe discovery that a source sends
  (only whether it sends and fails), the synchronization universe (unsupported by the code), and the
  contents of packets.
* `SACN_RECEIVER_SOCKET_PER_NIC`, several receive threads, and a merge receiver without
  a sampling merger, which are other builds of the library.
* Reads that change nothing: the functions that return universes, interfaces, destinations and
  statistics.

What a continuation would take up first: an abstract stream (data, terminations, silence)
that `SourceState` implements; two universes of a source in a pass for PAP that fails (`source_state.c:316`), which the
theorems on sequence numbers and terminations cover and the run, with its one universe, does not.
