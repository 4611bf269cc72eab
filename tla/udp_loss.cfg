CONSTANTS
    client_count = 2
    ClientId <- IdsInOrder
    Transport = "udp_ln"
    FaultKinds = {"lose"}
    MaxFaults = 1
    thread_count = 1
    stats_len = 9
    WaitForever = FALSE
    Signals = FALSE
    VotePeriod = 3
    ClientTimeouts = TRUE
    Killable = {1}
SPECIFICATION Spec
INVARIANTS FreshSlots EveryoneDecided
PROPERTIES Atomicity
