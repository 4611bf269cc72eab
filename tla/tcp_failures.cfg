CONSTANTS
    client_count = 2
    ClientId <- IdsInOrder
    Transport = "tcp_ln"
    FaultKinds = {}
    MaxFaults = 0
    thread_count = 1
    stats_len = 5
    WaitForever = FALSE
    Signals = TRUE
    VotePeriod = 3
    ClientTimeouts = TRUE
    Killable = {0}
SPECIFICATION FairSpec
INVARIANTS Agreement StatsInBounds
PROPERTIES StopCompletes ServerEnds ClientsReleased
