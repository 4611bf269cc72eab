CONSTANTS
    client_count = 2
    ClientId <- IdsSwapped
    Transport = "tcp_ln"
    FaultKinds = {}
    MaxFaults = 0
    thread_count = 2
    stats_len = 8
    WaitForever = FALSE
    Signals = FALSE
    VotePeriod = 3
    ClientTimeouts = TRUE
    Killable = {}
SPECIFICATION Spec
INVARIANTS TypeOK FreshSlots EveryoneDecided
PROPERTIES Atomicity
