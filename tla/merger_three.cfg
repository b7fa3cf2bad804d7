\* Three sources on one slot, and the candidate scans as loops.
CONSTANTS
    Handles = {1, 2, 3}
    NumSlots = 1
    MaxLevel = 2
    MaxPriority = 2
    MaxSources = 0
SPECIFICATION MergersSpec
INVARIANTS CreatedStorageOK CreatedOutputIsMerge CreatedPrioritiesAreExact ScansAreLoops
