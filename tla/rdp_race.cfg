CONSTANTS
    client_count = 2
    ClientId <- IdsInOrder
    Transport = "udp_ln"
    FaultKinds = {}
    MaxFaults = 0
    thread_count = 1
    stats_len = 5
    WaitForever = FALSE
    Signals = FALSE
    VotePeriod = 3
    ClientTimeouts = TRUE
    Killable = {}
    MAX_RTOS = 1
    RTOS_MAX = 1
SPECIFICATION RSpec
INVARIANTS FailedIsSilent
