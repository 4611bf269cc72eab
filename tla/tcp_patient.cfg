CONSTANTS
    client_count = 3
    ClientId <- IdsThree
    Transport = "tcp_ln"
    FaultKinds = {}
    MaxFaults = 0
    thread_count = 2
    stats_len = 20
    WaitForever = TRUE
    Signals = FALSE
    VotePeriod = 3
    ClientTimeouts = FALSE
    Killable = {}
SPECIFICATION FairSpec
INVARIANTS AllRecorded
PROPERTIES NoOverwrite RequestCompletes
