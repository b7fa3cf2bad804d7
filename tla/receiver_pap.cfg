\* Three sources, room for two, that send levels, priorities and other start
\* codes, with changes of universe and networking resets: the PAP wait, the loss
\* of PAP, the limit, and the notifications as the application sees them.
CONSTANTS
    s1 = s1
    s2 = s2
    s3 = s3
    n1 = n1
    Sources = {s1, s2, s3}
    Netints = {n1}
    StartCodes = {"dmx", "pap", "other"}
    LossTimeout = 1
    SampleTime = 1
    WaitForPriority = 1
    ExpiredWaits = {1}
    MaxSources = 2
    FilterPreview = FALSE
    Reconfigures = TRUE
    MaxTickDelay = 1
SPECIFICATION Spec
INVARIANTS AppIsInformed
PROPERTIES ImplementsNotifications ImplementsEvents
SYMMETRY Symmetry
