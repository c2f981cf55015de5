SPECIFICATION FairSpec
CONSTANTS
    Clients = {c1, c2}
    Listener = listener
    Cut = {c2}
    Programs = {"public", "wifi"}
    Faults = {"connect", "reset", "vanish", "epoll_wait", "accept", "epoll_ctl"}
    MaxEvents = 2
    MaxRecords = 2
INVARIANTS
    NeverBlocks
    StreamKept
    GhostsAreResets
    InStep

    
CHECK_DEADLOCK FALSE
