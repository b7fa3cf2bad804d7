\* Two sources and room for one, that a receiver tracks as well; lists of up to
\* three pages and room for three universes.
CONSTANTS
    s1 = s1
    s2 = s2
    Sources = {s1, s2}
    MaxHandle = 2
    Lists <- MCLists
    SourceCountMax = 1
    UniversesMax = 3
    Receives = TRUE
SPECIFICATION FairSpec
INVARIANTS FoundAgree
PROPERTIES ReportsAreConsecutive HandlesAreKept SilentSourceExpires
