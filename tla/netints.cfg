\* Two interfaces, one with two addresses, and two users of each kind.
CONSTANTS
    n1 = n1
    n2 = n2
    u1 = u1
    u2 = u2
    bad = bad
    Netints = {n1, n2}
    Invalid = bad
    Users = {u1, u2}
    SystemLists <- MCSystemLists
    SysConfigs <- MCSysConfigs
    UserConfigs <- MCUserConfigs
    MadeUnicast <- MCMadeUnicast
    MaxAbandoned = 1
SPECIFICATION Spec
INVARIANTS SendSocketsAgree UsedAreUsable
