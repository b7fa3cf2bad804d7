--------------------------- MODULE SourceDetector ---------------------------
(***************************************************************************)
(* The source detector (source_detector_state.c): it puts together the     *)
(* lists of universes that sources announce in pages, tells the            *)
(* application of lists that are new, and of sources that expire.          *)
(*                                                                         *)
(* A page of any list of a source may be received at any time: pages get   *)
(* lost, are received twice or late, and the source changes its list.      *)
(* Each action holds the callback lock of the source detector.             *)
(***************************************************************************)
EXTENDS RemoteSources, Integers, SequencesExt

CONSTANTS
    Lists,              \* lists of universes, each one a sequence of pages
    SourceCountMax,     \* source_count_max, 0 for infinite
    UniversesMax,       \* universes_per_source_max, 0 for infinite
    Receives            \* a receiver tracks sources as well

\* SACN_MAX_UNIVERSES_PER_PAGE: what the array of a page holds.
PageMax == 512

ASSUME SourceDetectorAssumption ==
    /\ SourceCountMax \in Nat /\ UniversesMax \in Nat
    /\ Receives \in BOOLEAN
    /\ \A list \in Lists :
          /\ list \in Seq(Seq(Nat)) /\ list # << >>
          /\ \A i \in DOMAIN list : Len(list[i]) <= PageMax

VARIABLES
    created,            \* the source detector exists
    suppress,           \* suppress_source_limit_exceeded_notification
    found,              \* the universe discovery sources
    tracked,            \* sources tracked by a receiver
    \* History:
    told,               \* the last list the application was told of a source
    heard,              \* what came of each source since its last page 0
    inherited           \* sources found by a source detector before this one

detVars == <<created, suppress, found>>
history == <<told, heard, inherited>>
vars == <<handleVars, detVars, tracked, history>>

\* The pages on the network: the parts of the lists of the sources.
Pages ==
    UNION {{[page |-> i - 1, last_page |-> Len(list) - 1, universes |-> list[i]]
              : i \in DOMAIN list} : list \in Lists}

NothingHeard == [pages |-> 0, list |-> << >>, complete |-> FALSE]

Init ==
    /\ RemoteSourcesInit
    /\ created = TRUE
    /\ suppress = FALSE
    /\ found = << >>
    /\ tracked = {}
    /\ told = << >>
    /\ heard = [s \in Sources |-> NothingHeard]
    /\ inherited = {}
-----------------------------------------------------------------------------
\* add_sacn_universe_discovery_source
NewDiscoverySource ==
    [universes |-> << >>, dirty |-> TRUE, notified_count |-> 0,
     suppressed |-> FALSE, next_index |-> 0, next_page |-> 0, expired |-> FALSE]

HasRoom == SourceCountMax = 0 \/ Cardinality(DOMAIN found) < SourceCountMax

\* A difference of two size_t below zero is larger than all numbers that occur.
Huge == 1000
Minus(a, b) == IF a >= b THEN a - b ELSE Huge

\* page_modifies_universe_list: the values it may return.  Behind the end of
\* the list the comparison reads what happens to be there.
ModifiesIfLonger(src, pg) ==             \* faulty: a shorter last page is missed
    LET n == Len(pg.universes)
        here == SubSeq(src.universes, src.next_index + 1, src.next_index + n)
    IN  {n > Minus(Len(src.universes), src.next_index) \/ here # pg.universes}

Modifies(src, pg) ==
    LET n == Len(pg.universes)
        remaining == Minus(Len(src.universes), src.next_index)
        here == SubSeq(src.universes, src.next_index + 1, src.next_index + n)
    IN  IF n > remaining \/ (pg.page = pg.last_page /\ n < remaining) THEN {TRUE}
        ELSE IF src.next_index + n > Len(src.universes) /\ n > 0 THEN BOOLEAN
        ELSE {here # pg.universes}

\* replace_universe_discovery_universes, in the loop of
\* process_universe_discovery_page: how many universes of the page fit.

Fits(src, pg) ==
    LET n == Len(pg.universes)
    IN  IF UniversesMax # 0 /\ src.next_index + n > UniversesMax
          THEN Minus(UniversesMax, src.next_index) ELSE n

IsTooLong(src, pg) == Fits(src, pg) < Len(pg.universes)

\* When more universes fit than the page has, the index is beyond the limit and
\* nothing is replaced.
Replaced(src, pg) ==
    LET n == Len(pg.universes)
    IN  IF Fits(src, pg) = Huge \/ (Fits(src, pg) = 0 /\ n > 0) THEN src.universes
        ELSE SubSeq(src.universes, 1, src.next_index)
               \o SubSeq(pg.universes, 1, Fits(src, pg))

\* The page begins or continues a sequence of pages.
BeginsHere(src, pg) ==
    IF pg.page = 0 THEN [src EXCEPT !.next_index = 0, !.next_page = 0] ELSE src

WithPage(src, pg, modifies) ==
    IF ~modifies THEN src
    ELSE [src EXCEPT !.dirty = TRUE, !.universes = Replaced(src, pg),
                     !.suppressed = @ \/ IsTooLong(src, pg)]

NextPage(src, pg) ==
    [src EXCEPT !.next_index = @ + Len(pg.universes), !.next_page = @ + 1]

IsAscending(list) == \A i \in 2..Len(list) : list[i - 1] < list[i]

Reports(src) == src.dirty /\ IsAscending(src.universes)

\* The last page.
Reported(src) ==
    [src EXCEPT !.next_index = 0, !.next_page = 0, !.dirty = FALSE,
                !.suppressed = @ /\ ~(Reports(src) /\ Len(src.universes) < src.notified_count),
                !.notified_count = IF Reports(src) THEN Len(src.universes) ELSE @]

IsInSequenceLater(src, pg) == pg.page >= src.next_page    \* faulty: skips pages

IsInSequence(src, pg) == pg.page = 0 \/ pg.page = src.next_page

\* process_universe_discovery_page of source s, which had been in state src.
ProcessPage(s, src, pg) ==
    LET awake == [src EXCEPT !.expired = FALSE]
        Store(state) == found' = [x \in DOMAIN found \cup {s} |->
                                    IF x = s THEN state ELSE found[x]]
        begun == BeginsHere(awake, pg)
    IN  \/ /\ ~IsInSequence(src, pg)
           /\ Store([awake EXCEPT !.next_index = 0, !.next_page = 0])
           /\ UNCHANGED told
        \/ /\ IsInSequence(src, pg)
           /\ \E modifies \in Modifies(begun, pg) :
                LET merged == WithPage(begun, pg, modifies)
                IN  IF pg.page < pg.last_page
                      THEN Store(NextPage(merged, pg)) /\ UNCHANGED told
                      ELSE /\ Store(Reported(merged))
                           /\ told' = IF ~Reports(merged) THEN told
                                ELSE [x \in DOMAIN told \cup {s} |->
                                        IF x = s THEN merged.universes ELSE told[x]]

-----------------------------------------------------------------------------
\* The history of a page: what came in without a gap since the last page 0.
Continues(h, pg) ==
    /\ h.pages = pg.page
    /\ ~h.complete

Heard(h, pg) ==
    IF pg.page = 0 THEN [pages |-> 1, list |-> pg.universes,
                         complete |-> pg.last_page = 0]
    ELSE IF Continues(h, pg) THEN [pages |-> h.pages + 1, list |-> h.list \o pg.universes,
                                   complete |-> pg.page = pg.last_page]
    ELSE NothingHeard

\* handle_sacn_universe_discovery_packet
Page(s, pg) ==
    /\ created
    /\ \/ s \in DOMAIN found /\ ProcessPage(s, found[s], pg) /\ UNCHANGED handleVars
       \/ /\ s \notin DOMAIN found /\ HasRoom
          /\ AddRemoteSourceHandle(s)
          /\ ProcessPage(s, NewDiscoverySource, pg)
    /\ heard' = [heard EXCEPT ![s] = Heard(@, pg)]
    /\ UNCHANGED <<created, suppress, tracked, inherited>>

\* The limit notification is given if suppress was not set.
PageOfNoSource(s) ==
    /\ created
    /\ s \notin DOMAIN found /\ ~HasRoom
    /\ suppress' = TRUE
    /\ UNCHANGED <<handleVars, created, found, tracked, history>>

\* Twice the interval of universe discovery goes by without a page.
TimerExpires(s) ==
    /\ s \in DOMAIN found
    /\ ~found[s].expired
    /\ found' = [found EXCEPT ![s].expired = TRUE]
    /\ UNCHANGED <<handleVars, created, suppress, tracked, history>>

ExpiredIfTold ==                         \* faulty: only sources that were reported
    {s \in DOMAIN told : found[s].expired}

Expired == {s \in DOMAIN found : found[s].expired}

Forget(S) ==
    /\ found' = Restrict(found, DOMAIN found \ S)
    /\ told' = Restrict(told, DOMAIN told \ S)
    /\ heard' = [s \in Sources |-> IF s \in S THEN NothingHeard ELSE heard[s]]
    /\ inherited' = inherited \ S

\* process_source_detector
Tick ==
    /\ created
    /\ Expired # {}
    /\ Forget(Expired)
    /\ RemoveRemoteSourceHandles(Expired)
    /\ suppress' = FALSE
    /\ UNCHANGED <<created, tracked>>

\* remove_sacn_source_detector
RemoveSourceDetector ==
    /\ created
    /\ created' = FALSE

\* sacn_source_detector_destroy: the sources stay.
Destroy ==
    /\ RemoveSourceDetector
    /\ told' = << >>
    /\ inherited' = DOMAIN found
    /\ UNCHANGED <<handleVars, suppress, found, tracked, heard>>

\* add_sacn_source_detector
AddSourceDetector ==
    /\ ~created
    /\ created' = TRUE
    /\ suppress' = FALSE

\* sacn_source_detector_create
Create ==
    /\ AddSourceDetector
    /\ UNCHANGED <<handleVars, found, tracked, history>>

\* A receiver finds or forgets a source (add_sacn_tracked_source,
\* tracked_source_node_dealloc).
Track(s) ==
    /\ Receives
    /\ s \notin tracked
    /\ tracked' = tracked \cup {s}
    /\ AddRemoteSourceHandle(s)
    /\ UNCHANGED <<detVars, history>>

Untrack(S) ==
    /\ S # {}
    /\ tracked' = tracked \ S
    /\ RemoveRemoteSourceHandles(S)
    /\ UNCHANGED <<detVars, history>>

Next ==
    \/ \E s \in Sources, pg \in Pages : Page(s, pg)
    \/ \E s \in Sources : PageOfNoSource(s) \/ TimerExpires(s) \/ Track(s)
    \/ \E S \in SUBSET tracked : Untrack(S)
    \/ Tick \/ Destroy \/ Create

Spec == Init /\ [][Next]_vars

\* Timers run out, and the receive thread comes back to its periodic work.  (A
\* source whose pages keep coming may be seen to expire and be found again; what
\* is asked under this fairness is about sources that fall silent.)
FairSpec == Spec /\ WF_vars(Tick) /\ \A s \in Sources : WF_vars(TimerExpires(s))
-----------------------------------------------------------------------------
DiscoverySource ==
    [universes : Seq(Nat), dirty : BOOLEAN, notified_count : Nat,
     suppressed : BOOLEAN, next_index : Nat, next_page : Nat, expired : BOOLEAN]

TypeOK ==
    /\ DOMAIN found \subseteq Sources
    /\ found \in [DOMAIN found -> DiscoverySource]
    /\ DOMAIN told \subseteq DOMAIN found
    /\ DOMAIN remote_sources \subseteq Sources
    /\ remote_sources \in [DOMAIN remote_sources ->
                             [handle : 0..MaxHandle, refcount : Nat \ {0}]]
    /\ next_handle \in 0..MaxHandle
    /\ UniversesMax # 0 => \A s \in DOMAIN found :
                             Len(found[s].universes) <= UniversesMax

\* What is left of a list when the detector keeps UniversesMax universes.
Cut(list) ==
    IF UniversesMax = 0 \/ Len(list) <= UniversesMax THEN list
    ELSE SubSeq(list, 1, UniversesMax)

\* What is reported is what came without a gap: the pages from number 0 to a
\* last one (the comment at source_detector_state.c:290), put together, cut to
\* what the detector may keep, and in ascending order.  The code goes by the
\* numbers of the pages alone: the pages may be parts of different lists of the
\* source, and then the application is told of a list that was never sent.
ReportsAreConsecutive ==
    [][\A s \in DOMAIN told' :
          s \notin DOMAIN told \/ told[s] # told'[s] =>
            /\ heard'[s].complete
            /\ told'[s] = Cut(heard'[s].list)
            /\ IsAscending(told'[s])]_vars

\* When pages have come in to the last one the application has exactly this list,
\* whatever pages were lost, repeated or changed before: no change is missed.
\* (Of a source this detector has found itself.)
InSync ==
    \A s \in DOMAIN found \ inherited :
        heard[s].complete /\ IsAscending(Cut(heard[s].list)) =>
            s \in DOMAIN told /\ told[s] = Cut(heard[s].list)

\* A handle belongs to one source, and is counted once for each receiver or
\* detector that uses it: no source in use loses its handle, and none is left.
HandlesCounted ==
    /\ DOMAIN remote_sources = tracked \cup DOMAIN found
    /\ \A s \in DOMAIN remote_sources :
          /\ remote_sources[s].refcount = Cardinality({s} \cap tracked)
                                            + Cardinality({s} \cap DOMAIN found)
          /\ \A x \in DOMAIN remote_sources :
                remote_sources[x].handle = remote_sources[s].handle => x = s

\* What the application was told of the sources found, and the handles they
\* have, agree with the pages that came in.
FoundAgree == TypeOK /\ InSync /\ HandlesCounted

\* A source keeps its handle for as long as anybody uses it.
HandlesAreKept ==
    [][\A s \in (tracked \cup DOMAIN found) \cap (tracked' \cup DOMAIN found') :
          remote_sources'[s].handle = remote_sources[s].handle]_vars

\* A source that falls silent expires, as long as there is a detector.
SilentSourceExpires ==
    \A s \in Sources :
        (<>[]created /\ <>[][\A pg \in Pages : ~Page(s, pg)]_vars)
            => <>[](s \notin DOMAIN found)
=============================================================================
