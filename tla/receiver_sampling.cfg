\* Networking resets and universe changes, during and after sampling: how long
\* each of two interfaces is sampled, what the application sees of the sampling
\* periods and of two sources, with room for one, whose preview data is filtered,
\* and that silent sources are forgotten under the fairness of the clock and the
\* receive thread.
CONSTANTS
    s1 = s1
    s2 = s2
    n1 = n1
    n2 = n2
    Sources = {s1, s2}
    Netints = {n1, n2}
    StartCodes = {"dmx"}
    LossTimeout = 1
    SampleTime = 2
    WaitForPriority = 1
    ExpiredWaits = {1}
    MaxSources = 1
    FilterPreview = TRUE
    Reconfigures = TRUE
    MaxTickDelay = 1
SPECIFICATION FairSamplingSpec
INVARIANTS AppHoldsTracked SamplingIsConsistent
PROPERTIES SampledInFull LimitToldOnce SilentSourceIsForgotten ImplementsEvents
