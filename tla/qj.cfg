CONSTANTS
    client_count = 2
    ClientId <- IdsInOrder
    Transport = "udp_qj"
    FaultKinds = {}
    MaxFaults = 0
    thread_count = 2
    stats_len = 8
    WaitForever = FALSE
    Signals = FALSE
    VotePeriod = 3
    ClientTimeouts = TRUE
    Killable = {1}
SPECIFICATION Spec
INVARIANTS FreshSlots EveryoneDecided Agreement CancelValidity
