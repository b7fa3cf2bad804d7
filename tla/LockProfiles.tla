---------------------------- MODULE LockProfiles ----------------------------
(***************************************************************************)
(* What each entry point of the library does with its locks: the locks it  *)
(* takes and releases, the shared data it uses, the callbacks of the       *)
(* application it makes and the threads it starts or stops, as a sequence  *)
(* of steps for a thread to take one by one.                               *)
(***************************************************************************)
EXTENDS Sequences

Lock(m) == [op |-> "lock", on |-> m]
Unlock(m) == [op |-> "unlock", on |-> m]
Use(data) == [op |-> "use", on |-> data]
Callback == [op |-> "callback", on |-> "application"]
Start(thread) == [op |-> "start", on |-> thread]
Signal(thread) == [op |-> "signal", on |-> thread]
Join(thread) == [op |-> "join", on |-> thread]
Begin(thread) == [op |-> "begin", on |-> thread]
Choose(point) == [op |-> "choose", on |-> point]
Leave(thread) == [op |-> "leave", on |-> thread]
End(thread) == [op |-> "end", on |-> thread]
Up(stage) == [op |-> "up", on |-> stage]
Down(stage) == [op |-> "down", on |-> stage]
Return == [op |-> "return", on |-> "application"]

Locked(m, body) == <<Lock(m)>> \o body \o <<Unlock(m)>>

(***************************************************************************)
(* Calls of the application.                                               *)
(***************************************************************************)

\* sacn_receiver_create, sacn_source_detector_create
ReceiverCreate == Locked("receiver", <<Use("receivers"), Start("recv")>>)

\* create_sacn_dmx_merger is for callers with the lock of the mergers, but
\* sacn_merge_receiver_create calls it under the receiver lock alone.
MergeReceiverCreate ==
    Locked("receiver", <<Use("receivers"), Start("recv"), Use("mergers")>>)

\* The calls that only read or change a receiver: sacn_receiver_change_universe,
\* sacn_receiver_reset_networking, sacn_get_remote_source_handle, ...
ReceiverCall == Locked("receiver", <<Use("receivers")>>)

\* sacn_merge_receiver_change_universe
MergeReceiverCall == Locked("receiver", <<Use("receivers"), Use("mergers")>>)

\* A faulty variant: the locks are taken the other way round.
ReceiverDestroyReversed ==
    Locked("receiver", Locked("receiver_cb", <<Use("receivers")>>))

\* A destroy waits for the callbacks in progress to return.
ReceiverDestroy == Locked("receiver_cb", ReceiverCall)
DetectorDestroy == Locked("source_detector_cb", ReceiverCall)
MergeReceiverDestroy == Locked("merge_receiver_cb", MergeReceiverCall)

\* sacn_dmx_merger_create, sacn_dmx_merger_update_levels, ...
MergerCall == Locked("merger", <<Use("mergers")>>)

\* sacn_source_create, and all other calls on a source
SourceCreate == Locked("source", <<Start("tick"), Use("sources")>>)
SourceCall == Locked("source", <<Use("sources")>>)

NetworkCalls ==
    { ReceiverCreate, MergeReceiverCreate, ReceiverCall, MergeReceiverCall,
      ReceiverDestroy, DetectorDestroy, MergeReceiverDestroy,
      SourceCreate, SourceCall }

\* What a callback may call here: no destroy, which would wait for the callback,
\* and no create, which would start a thread or add to what a deinit takes down
\* at the same time: the application is to be done with the library by then
\* (common.c:476), but callbacks come until the receive thread has ended.
CallbackCalls == {ReceiverCall, MergeReceiverCall, SourceCall, MergerCall}

(***************************************************************************)
(* The receive thread: what it delivers, and the loop.                     *)
(***************************************************************************)

\* merge_receiver_universe_data and the other handlers of a merge receiver
MergeReceiverHandler == Locked("merge_receiver_cb", MergeReceiverCall \o <<Callback>>)

Deliveries == {<< >>, <<Callback>>, MergeReceiverHandler}

\* handle_sacn_data_packet and process_receivers: several notifications follow
\* one another with the same locks, and one stands for them.
DeliverUnderLock == {Locked("receiver_cb", ReceiverCall \o d) : d \in Deliveries}

\* handle_sacn_universe_discovery_packet
DiscoveryPacket ==
    Locked("source_detector_cb", ReceiverCall \o ReceiverCall \o <<Callback>>)

\* A faulty variant: the tick relies on the lock of the callbacks alone.
DetectorTickUnlocked ==
    Locked("source_detector_cb", <<Use("receivers"), Callback>>)

\* process_source_detector
DetectorTick == Locked("source_detector_cb", ReceiverCall \o <<Callback>>)

\* What the thread may find to do at a point of its loop.
LoopOptions == [
    packet |-> {<< >>, DiscoveryPacket} \cup DeliverUnderLock,
    tick |-> {<< >>} \cup {d \o DetectorTick : d \in DeliverUnderLock}]

ReceiveStart == ReceiverCall \o <<Begin("recv")>>
ReceivePass == ReceiverCall \o <<Choose("packet"), Choose("tick")>>
ReceiveEnd == Locked("receiver", <<Use("receivers"), Leave("recv")>>) \o <<End("recv")>>

(***************************************************************************)
(* The thread of the sources: it sends levels, then priorities, and looks  *)
(* whether it is to shut down.                                             *)
(***************************************************************************)
SourcePass == SourceCall \o SourceCall \o Locked("source", <<Leave("tick")>>)
SourceEnd == <<Unlock("source"), End("tick")>>
=============================================================================
