CONSTANTS
    client_count = 2
    ClientId <- IdsInOrder
    Transport = "udp_ln"
    FaultKinds = {}
    MaxFaults = 0
    thread_count = 1
    stats_len = 3
    WaitForever = FALSE
    Signals = TRUE
    VotePeriod = 3
    ClientTimeouts = TRUE
    Killable = {}
    MAX_RTOS = 0
    RTOS_MAX = 1
SPECIFICATION RFairSpec
INVARIANTS RTypeOK InStep SaidOnce AskedOnce AnsweredInTurn
PROPERTIES Atomicity ServerEnds
