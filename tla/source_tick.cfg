\* One universe with at most one unicast destination, through all calls and the
\* passes of the thread and of the application, when one send of a pass may fail.
CONSTANTS
    a1 = a1
    n1 = n1
    n2 = n2
    Universes = {1}
    Netints = {n1}
    Addresses = {a1}
    DestLists <- NoneOrOne
    PreSuppression = 1
    TerminationsRequired = 2
    SeqSize = 3
    MaxDests = 1
    ManualChoices = {TRUE, FALSE}
    MaxFailures = 1
SPECIFICATION FairSpec
INVARIANTS UniverseStatesAgree CountsAreExact SequenceUnbroken NoStreamLeftOpen
PROPERTIES TerminationsEnd
