--------------------------- MODULE ReceiverSampling ---------------------------
(***************************************************************************)
(* ReceiverState with history variables for the sampling periods: how long *)
(* each interface has been sampled.                                        *)
(***************************************************************************)
EXTENDS ReceiverState

VARIABLES
    sample_age,         \* units of time each interface has been in sp_current
    hurried             \* interfaces sampled because of a change of universe
                        \* that came while a sampling period was running

samplingHistory == <<sample_age, hurried>>

SamplingInit ==
    /\ Init
    /\ sample_age = [n \in Netints |-> 0]
    /\ hurried = {}

\* Bound: an age counts up to SampleTime.
AgeInterfaces(elapsed) ==
    sample_age' = [n \in Netints |->
        IF n \notin sp_current \cap sp_current' THEN 0
        ELSE IF sample_age[n] = SampleTime THEN SampleTime
        ELSE sample_age[n] + elapsed]

SamplingElapse == Elapse /\ AgeInterfaces(1) /\ UNCHANGED hurried

SamplingTick ==
    /\ Tick
    /\ AgeInterfaces(0)
    /\ hurried' = IF SamplingEnds THEN {} ELSE hurried

SamplingChangeUniverse ==
    /\ ChangeUniverse
    /\ AgeInterfaces(0)
    /\ hurried' = IF sampling THEN netints ELSE {}

SamplingOther ==
    /\ (\E s \in Sources : DataPacket(s)) \/ NetworkingCall
    /\ AgeInterfaces(0)
    /\ UNCHANGED hurried

SamplingNext ==
    \/ SamplingElapse
    \/ SamplingTick
    \/ SamplingChangeUniverse
    \/ SamplingOther

SamplingSpec == SamplingInit /\ [][SamplingNext]_<<vars, samplingHistory>>

\* The fairness of FairSpec.
FairSamplingSpec ==
    /\ SamplingSpec
    /\ WF_<<vars, samplingHistory>>(SamplingElapse)
    /\ WF_<<vars, samplingHistory>>(SamplingTick)

\* An interface that a networking reset brings in during a sampling period
\* waits for the next one, so that every interface is sampled for the whole
\* SampleTime before its sources count as known.  (A change of universe during
\* a sampling period cuts the sampling of the new universe short.)
SampledInFull ==
    [][\A n \in sp_current \ sp_current' :
          n \in netints' /\ n \notin hurried => sample_age[n] = SampleTime
      ]_<<vars, samplingHistory>>
=============================================================================
