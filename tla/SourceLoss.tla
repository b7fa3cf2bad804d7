----------------------------- MODULE SourceLoss -----------------------------
(***************************************************************************)
(* The source loss algorithm of source_loss.c: the operators a receiver    *)
(* applies to its termination sets at every periodic tick.                 *)
(*                                                                         *)
(* A termination set groups a source that went offline with the sources    *)
(* whose status was unknown at that moment.  Its members are reported lost *)
(* together, once all of them are offline and the notification wait is     *)
(* over.  The linked list of the code is a set of records here: no         *)
(* operation of the code depends on the order of the list, because a       *)
(* source is a member of at most one termination set.                      *)
(***************************************************************************)
EXTENDS Naturals

CONSTANT Sources            \* the remote sources (CIDs) that may ever send

\* A termination set: the sources it holds, those of them marked offline,
\* those marked terminated, and what is left of its wait period.
TerminationSet ==
    [members : SUBSET Sources, offline : SUBSET Sources,
     terminated : SUBSET Sources, wait : Nat]

\* The sources that are in some termination set: the term_set_sources tree
\* find_existing_ts_src looks sources up in.
InTermSet(T) == UNION {t.members : t \in T}

\* The termination set created for an offline source and the sources it
\* waits for.
NewTermSet(s, waiting_for, wait, terminated) ==
    [members |-> {s} \cup waiting_for, offline |-> {s},
     terminated |-> {s} \cap terminated, wait |-> wait]

\* An existing member is marked offline once, with its terminated flag.
MarkMembersOffline(t, offline, terminated) ==
    LET newly == (t.members \cap offline) \ t.offline
    IN  [t EXCEPT !.offline = @ \cup newly,
                  !.terminated = @ \cup (newly \cap terminated)]

\* A faulty variant: every new termination set takes the unknown sources in.
MarkSourcesOfflineGreedily(T, offline, terminated, unknown, first, wait) ==
    {MarkMembersOffline(t, offline, terminated) : t \in T}
      \cup {NewTermSet(s, unknown \ InTermSet(T), wait, terminated) :
              s \in offline \ InTermSet(T)}

\* A faulty variant: each tick starts the set of an offline source anew.
MarkSourcesOfflineAnew(T, offline, terminated, unknown, first, wait) ==
    {t \in T : t.members \cap offline = {}}
      \cup {NewTermSet(s, {}, wait, terminated) : s \in offline}

(***************************************************************************)
(* mark_sources_offline.  Sources found in a termination set are marked    *)
(* there; each of the others gets a set of its own.  The loop visits the   *)
(* offline sources in the order of the receiver's tree, and the sets it    *)
(* creates are searched by the iterations that follow: only the set of the *)
(* first new source, "first", takes the unknown sources in.                *)
(***************************************************************************)
MarkSourcesOffline(T, offline, terminated, unknown, first, wait) ==
    LET new == offline \ InTermSet(T)
        waiting_for(s) == IF s = first THEN unknown \ InTermSet(T) ELSE {}
    IN  {MarkMembersOffline(t, offline, terminated) : t \in T}
          \cup {NewTermSet(s, waiting_for(s), wait, terminated) : s \in new}

\* A faulty variant: only members that were offline are confirmed.
WithoutReturned(t, online) ==
    [t EXCEPT !.members = @ \ (online \cap t.offline), !.offline = @ \ online,
              !.terminated = @ \ online]

\* A termination set without the sources that are confirmed online.
WithoutMembers(t, online) ==
    [t EXCEPT !.members = @ \ online, !.offline = @ \ online,
              !.terminated = @ \ online]

\* A faulty variant: the sources found online are not taken out.
MarkNoneOnline(T, online) == T

\* mark_sources_online: confirmed sources leave, empty sets are removed.
MarkSourcesOnline(T, online) ==
    {t \in {WithoutMembers(u, online) : u \in T} : t.members # {}}

\* get_expired_sources: the sets whose wait is over and whose members are
\* all offline.  A member that is still unknown cancels its whole set.
ExpiredTermSets(T) == {t \in T : t.wait = 0 /\ t.members \subseteq t.offline}

\* The lost sources get_expired_sources collects.
ExpiredSources(T) == UNION {t.members : t \in ExpiredTermSets(T)}
=============================================================================
