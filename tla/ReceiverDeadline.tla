--------------------------- MODULE ReceiverDeadline ---------------------------
(***************************************************************************)
(* ReceiverState with a history variable that measures how long the packet *)
(* timer of each source has been expired: how late a loss can be reported. *)
(***************************************************************************)
EXTENDS ReceiverState

VARIABLE overdue            \* for each source, units of time past its timeout

Elapsed == IF since_tick' > since_tick THEN 1 ELSE 0

DeadlineInit == Init /\ overdue = [s \in Sources |-> 0]

DeadlineNext ==
    /\ Next
    /\ overdue' = [s \in Sources |->
          IF s \in Tracked /\ s \in Tracked' /\ IsExpired(s) /\ IsExpired(s)'
            THEN overdue[s] + Elapsed ELSE 0]

DeadlineSpec == DeadlineInit /\ [][DeadlineNext]_<<vars, overdue>>

\* The longest wait for a termination set: the notification wait, or the
\* settling time in which its unknown members are heard or time out.
LongestWait ==
    CHOOSE w \in ExpiredWaits \cup {LossTimeout} :
        \A x \in ExpiredWaits \cup {LossTimeout} : x <= w

\* A source that has timed out or was terminated is forgotten within the
\* longest wait and two ticks, one to find it offline and one to end the wait:
\* no stream of other sources that come, go and return can put the sources_lost
\* notification off, although the termination sets they form overlap in time.
LossDeadline ==
    \A s \in Sources : overdue[s] <= LongestWait + 2 * MaxTickDelay
=============================================================================
