CONSTANTS
    client_count = 2
    ClientId <- IdsOutOfRange
    Transport = "tcp_ln"
    FaultKinds = {}
    MaxFaults = 0
    thread_count = 1
    stats_len = 6
    WaitForever = FALSE
    Signals = FALSE
    VotePeriod = 3
    ClientTimeouts = TRUE
    Killable = {1}
SPECIFICATION Spec
INVARIANTS BoardInBounds
