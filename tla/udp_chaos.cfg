CONSTANTS
    client_count = 2
    ClientId <- IdsInOrder
    Transport = "udp_ln"
    FaultKinds = {"dup", "reorder"}
    MaxFaults = 1
    thread_count = 1
    stats_len = 4
    WaitForever = FALSE
    Signals = FALSE
    VotePeriod = 3
    ClientTimeouts = TRUE
    Killable = {}
SPECIFICATION FairSpec
INVARIANTS StatsInBounds
PROPERTIES StopCompletes ServerEnds
