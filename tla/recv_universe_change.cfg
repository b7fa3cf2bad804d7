CONSTANTS
    r1 = r1
    r2 = r2
    Receivers = {r1, r2}
    Detector = detector
    u1 = u1
    u2 = u2
    Universes = {u1, u2}
    Discovery = discovery
    Netints <- MCNetints
    NetintLists <- MCNetintLists
    MaxSubs = 2
    LimitBind = TRUE
    MaxSockets = 3
    MaxQueued = 2
SPECIFICATION Spec
INVARIANTS MovedListen
