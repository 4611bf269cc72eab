CONSTANTS
    client_count = 2
    ClientId <- IdsInOrder
    Transport = "tcp_ln"
    FaultKinds = {}
    MaxFaults = 0
    thread_count = 1
    stats_len = 6
    WaitForever = FALSE
    Signals = FALSE
    VotePeriod = 2
    ClientTimeouts = TRUE
    Killable = {}
SPECIFICATION Spec
PROPERTIES FailureIsReal
