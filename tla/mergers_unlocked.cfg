\* One thread of the application, the receive thread and the thread of the
\* sources; features are initialized up to twice.
CONSTANTS
    a1 = a1
    Nobody = Nobody
    Callers = {a1}
    MaxCount = 2
SPECIFICATION Spec
INVARIANTS MergersAreLocked
