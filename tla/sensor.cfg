SPECIFICATION FairSpec
CONSTANTS
    Mac = m1
    Other = m2
    Macs = {m1, m2}
    Counts = {0, 1, 2}
    Wrap = 3
    NoData = NoData
    Threads = {main, cb1, cb2}
    Main = main
    Handles = {h1, h2}
    NoHandle = NoHandle
    Traffic <- Heardable
    Overlaps = {TRUE, FALSE}
    Faults = {"init", "spi"}
INVARIANTS
    HandlerSafe
    Reachable
PROPERTIES
    ServesReadings
    KeepsSending
