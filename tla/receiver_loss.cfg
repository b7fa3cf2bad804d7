\* Three sources of NULL start code data on one interface: the source loss
\* algorithm in all interleavings of timeouts, recoveries and terminations, and
\* how late the loss of a source can be reported.
CONSTANTS
    s1 = s1
    s2 = s2
    s3 = s3
    n1 = n1
    Sources = {s1, s2, s3}
    Netints = {n1}
    StartCodes = {"dmx"}
    LossTimeout = 2
    SampleTime = 1
    WaitForPriority = 1
    ExpiredWaits = {1}
    MaxSources = 0
    FilterPreview = FALSE
    Reconfigures = FALSE
    MaxTickDelay = 1
SPECIFICATION DeadlineSpec
INVARIANTS TermSetsOK LossDeadline
PROPERTIES LostAreSilent
SYMMETRY Symmetry
