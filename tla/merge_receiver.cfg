\* Three sources, of which a receiver and a merger take two, on two interfaces:
\* sampling periods and networking resets; or changes of universe, preview data
\* and other start codes.
CONSTANTS
    s1 = s1
    s2 = s2
    s3 = s3
    n1 = n1
    n2 = n2
    Sources = {s1, s2, s3}
    Netints = {n1, n2}
    MaxSources = 2
    MergerLimit = 2
    Levels = {"x"}
    UsePap = TRUE
    u1 = u1
    u2 = u2
    Universes = {u1, u2}
    Scenarios <- Apart
SPECIFICATION SystemSpec
INVARIANTS MergersMatchFlags SourcesAgree ShownIsCurrent HiddenOnlyWhileSampling
PROPERTIES ImplementsMergedSources
SYMMETRY Symmetry
