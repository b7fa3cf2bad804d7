\* One thread of the application, the receive thread and the thread of the
\* sources; features are initialized up to three times.
CONSTANTS
    a1 = a1
    Nobody = Nobody
    Callers = {a1}
    MaxCount = 3
SPECIFICATION Spec
INVARIANTS FeaturesMatchStages InitsAreBalanced StagesAreUp LocksAreOrdered DataIsLocked
